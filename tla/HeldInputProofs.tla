-------------------------- MODULE HeldInputProofs --------------------------
(***************************************************************************)
(* Proofs about HeldInput, for every set of keys and buttons.              *)
(*                                                                         *)
(* A command and a release overlap, so NothingDownUntracked is not         *)
(* inductive: in the middle of a command something is down that is not     *)
(* noted, and in the middle of a release something is noted that is about  *)
(* to be forgotten.  Accounted says what is down in terms of what will     *)
(* still be noted after the release, and of the command under way.         *)
(***************************************************************************)
EXTENDS MCHeldInput, SequenceTheorems, TLAPS

(* What is noted once the release under way, if any, is over.              *)
Remains == IF owner = Free THEN held ELSE {}

(* What the command under way has pressed and will note or lift.           *)
InHand == IF pc \in {"track", "snapshot", "lift", "click"} THEN cmd ELSE {}

Accounted ==
    /\ down \subseteq Remains \cup InHand \cup stuck
    /\ pc = "untrack" => down \cap cmd = {}
    /\ pc = "lift" => kept \cap down \subseteq Remains \cup stuck

(* key() knows of everything that is held: only the worker adds to it.     *)
KeptCovers == pc = "lift" => held \subseteq kept

(* release_all has canceled the countdown first.                           *)
NoCountdownInRelease == owner # Free => timer = NoTimer

IInv == TypeOK /\ NoCountdownInRelease /\ Accounted /\ KeptCovers /\ CountdownRuns
-----------------------------------------------------------------------------
(* Arming keeps the types, and whatever is held has a countdown after it.  *)
LEMMA ArmCounts ==
    ASSUME TypeOK, NEW h, Arm(h)
    PROVE  /\ timer' \in Timers \cup {NoTimer}
           /\ timers' \in [Timers -> {"none", "waiting", "up"}]
           /\ timer' # NoTimer => timers'[timer'] # "none"
           /\ HoldMax > 0 /\ h # {} => timer' # NoTimer
<1>1. Canceled \in [Timers -> {"none", "waiting", "up"}]
  BY DEF TypeOK, Canceled
<1>2. CASE HoldMax <= 0 \/ h = {}
  BY <1>1, <1>2, HeldInputAssumption DEF Arm
<1>3. CASE ~(HoldMax <= 0 \/ h = {})
  <2>1. PICK i \in Timers : /\ timer' = i
                            /\ timers' = [Canceled EXCEPT ![i] = "waiting"]
    BY <1>3 DEF Arm
  <2>2. i # NoTimer
    BY DEF Timers, NoTimer
  <2> QED  BY <1>1, <2>1, <2>2
<1> QED  BY <1>2, <1>3

LEMMA InitIInv == Init => IInv
BY HeldInputAssumption
   DEF Init, IInv, TypeOK, Accounted, KeptCovers, CountdownRuns, NoCountdownInRelease, Remains, InHand,
       Timers, NoTimer, Free, Releasers, Other, All

(* A command begins: its keys are written to the device.                   *)
LEMMA BeginIInv == ASSUME IInv, Begin PROVE IInv'
<1>1. PICK K \in Chords \cup Clicks :
         Hold(K) \/ Tap(K) \/ Click(K) \/ LetGo(K) \/ PressFails(K) \/ LetGoFails(K)
  BY DEF Begin
<1>2. K \subseteq All
  BY DEF Chords, Clicks, All
<1>3. CASE \E w \in {"track", "snapshot", "click"} : Press(K, w)
  BY <1>2, <1>3 DEF Press, IInv, TypeOK, Accounted, KeptCovers, CountdownRuns, NoCountdownInRelease,
                    Remains, InHand, countdown
<1>4. CASE LetGo(K)
  BY <1>2, <1>4 DEF LetGo, IInv, TypeOK, Accounted, KeptCovers, CountdownRuns, NoCountdownInRelease,
                    Remains, InHand, countdown
<1>5. CASE PressFails(K)
  BY <1>2, <1>5 DEF PressFails, IInv, TypeOK, Accounted, KeptCovers, CountdownRuns, NoCountdownInRelease,
                    Remains, InHand, countdown, worker
<1>6. CASE LetGoFails(K)
  BY <1>2, <1>6 DEF LetGoFails, IInv, TypeOK, Accounted, KeptCovers, CountdownRuns, NoCountdownInRelease,
                    Remains, InHand, countdown, worker
<1> QED  BY <1>1, <1>3, <1>4, <1>5, <1>6 DEF Hold, Tap, Click

(* A command goes on.                                                      *)
LEMMA ContinueIInv == ASSUME IInv, Continue PROVE IInv'
<1> USE DEF IInv, NoCountdownInRelease, Accounted, KeptCovers, CountdownRuns, Remains, InHand
<1>1. CASE Track
  <2>1. /\ timer' \in Timers \cup {NoTimer}
        /\ timers' \in [Timers -> {"none", "waiting", "up"}]
        /\ timer' # NoTimer => timers'[timer'] # "none"
        /\ HoldMax > 0 /\ held' # {} => timer' # NoTimer
    BY <1>1, ArmCounts DEF Track
  <2> QED  BY <1>1, <2>1 DEF Track, TypeOK
<1>2. CASE Untrack
  <2>1. /\ timer' \in Timers \cup {NoTimer}
        /\ timers' \in [Timers -> {"none", "waiting", "up"}]
        /\ timer' # NoTimer => timers'[timer'] # "none"
        /\ HoldMax > 0 /\ held' # {} => timer' # NoTimer
    BY <1>2, ArmCounts DEF Untrack
  <2> QED  BY <1>2, <2>1 DEF Untrack, TypeOK
<1>3. CASE Snapshot
  BY <1>3 DEF Snapshot, TypeOK, countdown
<1>4. CASE Lift
  BY <1>4 DEF Lift, TypeOK, countdown
<1>5. CASE ClickUp
  BY <1>5 DEF ClickUp, TypeOK, countdown
<1>6. CASE LiftFails
  BY <1>6 DEF LiftFails, TypeOK, countdown
<1> QED  BY <1>1, <1>2, <1>3, <1>4, <1>5, <1>6 DEF Continue

LEMMA TimeUpIInv == ASSUME IInv, NEW i \in Timers, TimeUp(i) PROVE IInv'
<1>1. timers' \in [Timers -> {"none", "waiting", "up"}]
  BY DEF IInv, TypeOK, TimeUp
<1>2. timer' # NoTimer => timers'[timer'] # "none"
  BY DEF IInv, TypeOK, TimeUp
<1> QED  BY <1>1, <1>2 DEF IInv, TypeOK, CountdownRuns, NoCountdownInRelease, Accounted,
                      KeptCovers, Remains, InHand, TimeUp, worker

(* release_all: nobody else may be inside it.                              *)
LEMMA ReleaseIInv == ASSUME IInv, NEW r \in Releasers, Release(r) PROVE IInv'
<1>1. r # Free
  BY HeldInputAssumption DEF Releasers, Timers, Other, Free
<1>2. timers' \in [Timers -> {"none", "waiting", "up"}]
  BY DEF IInv, TypeOK, Release, Canceled
<1>3. TypeOK'
  BY <1>2 DEF IInv, TypeOK, Release, worker
<1> QED  BY <1>1, <1>3 DEF IInv, Accounted, KeptCovers, CountdownRuns,
                      NoCountdownInRelease, Remains, InHand, Release, worker

LEMMA ReleaseEndsIInv == ASSUME IInv, NEW r \in Releasers, ReleaseEnds(r) PROVE IInv'
<1>1. r # Free
  BY HeldInputAssumption DEF Releasers, Timers, Other, Free
<1>2. timers' \in [Timers -> {"none", "waiting", "up"}]
  BY DEF IInv, TypeOK, ReleaseEnds
<1>3. TypeOK'
  BY <1>1, <1>2 DEF IInv, TypeOK, NoCountdownInRelease, ReleaseEnds, worker, Free
<1> QED  BY <1>1, <1>3 DEF IInv, Accounted, KeptCovers, CountdownRuns,
                      NoCountdownInRelease, Remains, InHand, ReleaseEnds, worker

(* The strengthened invariant.                                             *)
THEOREM HeldInvariant == Spec => []IInv
<1>1. Init => IInv
  BY InitIInv
<1>2. IInv /\ [Next]_vars => IInv'
  <2> SUFFICES ASSUME IInv, [Next]_vars PROVE IInv'
    OBVIOUS
  <2>1. CASE UNCHANGED vars
    BY <2>1 DEF vars, countdown, worker, IInv, TypeOK, Accounted, KeptCovers, CountdownRuns, NoCountdownInRelease,
                Remains, InHand
  <2>2. CASE Next
    BY <2>2, BeginIInv, ContinueIInv, TimeUpIInv, ReleaseIInv, ReleaseEndsIInv DEF Next
  <2> QED  BY <2>1, <2>2
<1> QED  BY <1>1, <1>2, PTL DEF Spec

(* Everything that stays down after a command is tracked, whatever         *)
(* release_all calls of the countdown and of other threads overlap it.     *)
THEOREM NothingDownIsUntracked == Spec => []NothingDownUntracked
<1>1. IInv => NothingDownUntracked
  BY DEF IInv, Accounted, Remains, InHand, NothingDownUntracked
<1> QED  BY <1>1, HeldInvariant, PTL

(* While something is held a countdown will release it.                    *)
THEOREM CountdownAlwaysRuns == Spec => []CountdownRuns
<1>1. IInv => CountdownRuns
  BY DEF IInv
<1> QED  BY <1>1, HeldInvariant, PTL

(* key() never lifts what is still tracked.                                *)
THEOREM TapsSpareHeld == Spec => TapSparesHeld
<1>1. IInv /\ [Next]_vars => [pc = "lift" /\ pc' = "idle" => held \cap down \subseteq down']_vars
  <2> SUFFICES ASSUME IInv, Next, pc = "lift", pc' = "idle"
               PROVE  held \cap down \subseteq down'
    BY DEF vars
  <2>1. CASE Lift
    BY <2>1 DEF Lift, IInv, KeptCovers
  <2>2. CASE LiftFails
    BY <2>2 DEF LiftFails, IInv, KeptCovers
  <2>3. CASE ~Lift /\ ~LiftFails
    BY <2>3 DEF Next, Begin, Hold, Tap, Click, LetGo, Press, PressFails, LetGoFails, Continue, Track,
                Untrack, Snapshot, ClickUp, TimeUp, Release, ReleaseEnds, worker
  <2> QED  BY <2>1, <2>2, <2>3
<1> QED  BY <1>1, HeldInvariant, PTL DEF Spec, TapSparesHeld
-----------------------------------------------------------------------------
(* A device of the native helper.                                          *)
(* A device that is closed holds nothing, its timer thread ends only then, *)
(* and a click has pressed no more than its button.                        *)
DeviceInv ==
    /\ N!HoldsAreKnown
    /\ closed => nheld = {} /\ transient = {}
    /\ thread = "ended" => closed
    /\ at = "click" => kind = "pointer" /\ transient \subseteq combo

LEMMA ClosingTyped ==
    ASSUME NEW f \in [{"dispatcher", "watchdog"} -> {"no", "join"}], NEW c \in {"dispatcher", "watchdog"}
    PROVE  [f EXCEPT ![c] = "join"] \in [{"dispatcher", "watchdog"} -> {"no", "join"}]
OBVIOUS

LEMMA DeviceInit == N!Init => DeviceInv
BY DevicesAssumption
   DEF N!Init, DeviceInv, N!HoldsAreKnown, N!TypeOK, N!DownIsTracked, N!HeldStaysDown, N!HoldIsCounted,
       N!NativeInputAssumption, N!Closers

LEMMA DeviceStep == ASSUME DeviceInv, N!Next PROVE DeviceInv'
<1> USE DevicesAssumption
    DEF DeviceInv, N!HoldsAreKnown, N!TypeOK, N!DownIsTracked, N!HeldStaysDown, N!HoldIsCounted,
        N!NativeInputAssumption, N!Closers, N!statevars, N!Command, N!Free, N!Combos, N!Notify, N!Arm
<1>1. CASE N!KeyPress
  BY <1>1 DEF N!KeyPress
<1>2. CASE N!Down
  <2>1. N!TypeOK'
    <3>1. (kind \in {"keyboard", "pointer"} /\ mutex \in {NoOne, "dispatcher"} /\ (mutex = "dispatcher" <=> at = "key"))'
      BY <1>2 DEF N!Down
    <3>2. (ndown \cup nheld \cup transient \cup combo \subseteq Codes)'
      BY <1>2 DEF N!Down
    <3>3. (limited \in BOOLEAN /\ deadline \in BOOLEAN /\ due \in BOOLEAN /\ closed \in BOOLEAN /\ broke \in BOOLEAN)'
      BY <1>2 DEF N!Down
    <3>4. (due => deadline)'
      BY <1>2 DEF N!Down
    <3>5. (thread \in {"look", "wait", "timed", "ended"} /\ at \in {"idle", "key", "click", "drag"})'
      BY <1>2 DEF N!Down
    <3>6. (closing \in [{"dispatcher", "watchdog"} -> {"no", "join"}])'
      BY <1>2 DEF N!Down
    <3> QED  BY <3>1, <3>2, <3>3, <3>4, <3>5, <3>6
  <2>2. N!DownIsTracked'
    BY <1>2 DEF N!Down
  <2>3. N!HeldStaysDown'
    BY <1>2 DEF N!Down
  <2>4. N!HoldIsCounted'
    BY <1>2 DEF N!Down
  <2>5. (closed => nheld = {} /\ transient = {})'
    BY <1>2 DEF N!Down
  <2>6. (thread = "ended" => closed)'
    BY <1>2 DEF N!Down
  <2>7. (at = "click" => kind = "pointer" /\ transient \subseteq combo)'
    BY <1>2 DEF N!Down
  <2> QED  BY <2>1, <2>2, <2>3, <2>4, <2>5, <2>6, <2>7
<1>3. CASE N!Up
  <2>1. N!TypeOK'
    <3>1. (kind \in {"keyboard", "pointer"} /\ mutex \in {NoOne, "dispatcher"} /\ (mutex = "dispatcher" <=> at = "key"))'
      BY <1>3 DEF N!Up
    <3>2. (ndown \cup nheld \cup transient \cup combo \subseteq Codes)'
      BY <1>3 DEF N!Up
    <3>3. (limited \in BOOLEAN /\ deadline \in BOOLEAN /\ due \in BOOLEAN /\ closed \in BOOLEAN /\ broke \in BOOLEAN)'
      BY <1>3 DEF N!Up
    <3>4. (due => deadline)'
      BY <1>3 DEF N!Up
    <3>5. (thread \in {"look", "wait", "timed", "ended"} /\ at \in {"idle", "key", "click", "drag"})'
      BY <1>3 DEF N!Up
    <3>6. (closing \in [{"dispatcher", "watchdog"} -> {"no", "join"}])'
      BY <1>3 DEF N!Up
    <3> QED  BY <3>1, <3>2, <3>3, <3>4, <3>5, <3>6
  <2>2. N!DownIsTracked'
    BY <1>3 DEF N!Up
  <2>3. N!HeldStaysDown'
    BY <1>3 DEF N!Up
  <2>4. N!HoldIsCounted'
    BY <1>3 DEF N!Up
  <2>5. (closed => nheld = {} /\ transient = {})'
    BY <1>3 DEF N!Up
  <2>6. (thread = "ended" => closed)'
    BY <1>3 DEF N!Up
  <2>7. (at = "click" => kind = "pointer" /\ transient \subseteq combo)'
    BY <1>3 DEF N!Up
  <2> QED  BY <2>1, <2>2, <2>3, <2>4, <2>5, <2>6, <2>7
<1>4. CASE N!ClickDown
  BY <1>4 DEF N!ClickDown
<1>5. CASE N!ReleaseAll
  BY <1>5 DEF N!ReleaseAll, N!ReleaseLocked
<1>6. CASE N!WriteFails
  BY <1>6 DEF N!WriteFails, N!KeyboardFails, N!PointerFails, N!GiveUp
<1>7. CASE N!KeyLift
  BY <1>7 DEF N!KeyLift
<1>8. CASE N!DragUp
  <2>1. N!TypeOK'
    <3>1. (kind \in {"keyboard", "pointer"} /\ mutex \in {NoOne, "dispatcher"} /\ (mutex = "dispatcher" <=> at = "key"))'
      BY <1>8 DEF N!DragUp, N!Refuse
    <3>2. (ndown \cup nheld \cup transient \cup combo \subseteq Codes)'
      BY <1>8 DEF N!DragUp, N!Refuse
    <3>3. (limited \in BOOLEAN /\ deadline \in BOOLEAN /\ due \in BOOLEAN /\ closed \in BOOLEAN /\ broke \in BOOLEAN)'
      BY <1>8 DEF N!DragUp, N!Refuse
    <3>4. (due => deadline)'
      BY <1>8 DEF N!DragUp, N!Refuse
    <3>5. (thread \in {"look", "wait", "timed", "ended"} /\ at \in {"idle", "key", "click", "drag"})'
      BY <1>8 DEF N!DragUp, N!Refuse
    <3>6. (closing \in [{"dispatcher", "watchdog"} -> {"no", "join"}])'
      BY <1>8 DEF N!DragUp, N!Refuse
    <3> QED  BY <3>1, <3>2, <3>3, <3>4, <3>5, <3>6
  <2>2. N!DownIsTracked'
    BY <1>8 DEF N!DragUp, N!Refuse
  <2>3. N!HeldStaysDown'
    BY <1>8 DEF N!DragUp, N!Refuse
  <2>4. N!HoldIsCounted'
    BY <1>8 DEF N!DragUp, N!Refuse
  <2>5. (closed => nheld = {} /\ transient = {})'
    BY <1>8 DEF N!DragUp, N!Refuse
  <2>6. (thread = "ended" => closed)'
    BY <1>8 DEF N!DragUp, N!Refuse
  <2>7. (at = "click" => kind = "pointer" /\ transient \subseteq combo)'
    BY <1>8 DEF N!DragUp, N!Refuse
  <2> QED  BY <2>1, <2>2, <2>3, <2>4, <2>5, <2>6, <2>7
<1>9. CASE N!ClickUp
  <2>1. N!TypeOK'
    <3>1. (kind \in {"keyboard", "pointer"} /\ mutex \in {NoOne, "dispatcher"} /\ (mutex = "dispatcher" <=> at = "key"))'
      BY <1>9 DEF N!ClickUp, N!Refuse
    <3>2. (ndown \cup nheld \cup transient \cup combo \subseteq Codes)'
      BY <1>9 DEF N!ClickUp, N!Refuse
    <3>3. (limited \in BOOLEAN /\ deadline \in BOOLEAN /\ due \in BOOLEAN /\ closed \in BOOLEAN /\ broke \in BOOLEAN)'
      BY <1>9 DEF N!ClickUp, N!Refuse
    <3>4. (due => deadline)'
      BY <1>9 DEF N!ClickUp, N!Refuse
    <3>5. (thread \in {"look", "wait", "timed", "ended"} /\ at \in {"idle", "key", "click", "drag"})'
      BY <1>9 DEF N!ClickUp, N!Refuse
    <3>6. (closing \in [{"dispatcher", "watchdog"} -> {"no", "join"}])'
      BY <1>9 DEF N!ClickUp, N!Refuse
    <3> QED  BY <3>1, <3>2, <3>3, <3>4, <3>5, <3>6
  <2>2. N!DownIsTracked'
    BY <1>9 DEF N!ClickUp, N!Refuse
  <2>3. N!HeldStaysDown'
    BY <1>9 DEF N!ClickUp, N!Refuse
  <2>4. N!HoldIsCounted'
    BY <1>9 DEF N!ClickUp, N!Refuse
  <2>5. (closed => nheld = {} /\ transient = {})'
    BY <1>9 DEF N!ClickUp, N!Refuse
  <2>6. (thread = "ended" => closed)'
    BY <1>9 DEF N!ClickUp, N!Refuse
  <2>7. (at = "click" => kind = "pointer" /\ transient \subseteq combo)'
    BY <1>9 DEF N!ClickUp, N!Refuse
  <2> QED  BY <2>1, <2>2, <2>3, <2>4, <2>5, <2>6, <2>7
<1>10. CASE N!TimerEnds \/ N!TimerWaits \/ N!TimerWakes \/ N!TimePasses
  <2>1. N!TypeOK'
    <3>1. (kind \in {"keyboard", "pointer"} /\ mutex \in {NoOne, "dispatcher"} /\ (mutex = "dispatcher" <=> at = "key"))'
      BY <1>10 DEF N!TimerEnds, N!TimerWaits, N!TimerWakes, N!TimePasses
    <3>2. (ndown \cup nheld \cup transient \cup combo \subseteq Codes)'
      BY <1>10 DEF N!TimerEnds, N!TimerWaits, N!TimerWakes, N!TimePasses
    <3>3. (limited \in BOOLEAN /\ deadline \in BOOLEAN /\ due \in BOOLEAN /\ closed \in BOOLEAN /\ broke \in BOOLEAN)'
      BY <1>10 DEF N!TimerEnds, N!TimerWaits, N!TimerWakes, N!TimePasses
    <3>4. (due => deadline)'
      BY <1>10 DEF N!TimerEnds, N!TimerWaits, N!TimerWakes, N!TimePasses
    <3>5. (thread \in {"look", "wait", "timed", "ended"} /\ at \in {"idle", "key", "click", "drag"})'
      BY <1>10 DEF N!TimerEnds, N!TimerWaits, N!TimerWakes, N!TimePasses
    <3>6. (closing \in [{"dispatcher", "watchdog"} -> {"no", "join"}])'
      BY <1>10 DEF N!TimerEnds, N!TimerWaits, N!TimerWakes, N!TimePasses
    <3> QED  BY <3>1, <3>2, <3>3, <3>4, <3>5, <3>6
  <2>2. N!DownIsTracked'
    BY <1>10 DEF N!TimerEnds, N!TimerWaits, N!TimerWakes, N!TimePasses
  <2>3. N!HeldStaysDown'
    BY <1>10 DEF N!TimerEnds, N!TimerWaits, N!TimerWakes, N!TimePasses
  <2>4. N!HoldIsCounted'
    BY <1>10 DEF N!TimerEnds, N!TimerWaits, N!TimerWakes, N!TimePasses
  <2>5. (closed => nheld = {} /\ transient = {})'
    BY <1>10 DEF N!TimerEnds, N!TimerWaits, N!TimerWakes, N!TimePasses
  <2>6. (thread = "ended" => closed)'
    BY <1>10 DEF N!TimerEnds, N!TimerWaits, N!TimerWakes, N!TimePasses
  <2>7. (at = "click" => kind = "pointer" /\ transient \subseteq combo)'
    BY <1>10 DEF N!TimerEnds, N!TimerWaits, N!TimerWakes, N!TimePasses
  <2> QED  BY <2>1, <2>2, <2>3, <2>4, <2>5, <2>6, <2>7
<1>11. CASE N!TimerReleases
  BY <1>11 DEF N!TimerReleases, N!ReleaseLocked, N!GiveUp
<1>12. ASSUME NEW c \in N!Closers, N!Close(c) PROVE DeviceInv'
  <2>1. N!TypeOK'
    <3>1. (kind \in {"keyboard", "pointer"} /\ mutex \in {NoOne, "dispatcher"} /\ (mutex = "dispatcher" <=> at = "key"))'
      BY <1>12 DEF N!Close, N!CloseOpen, N!CloseAgain, N!ReleaseLocked
    <3>2. (ndown \cup nheld \cup transient \cup combo \subseteq Codes)'
      BY <1>12 DEF N!Close, N!CloseOpen, N!CloseAgain, N!ReleaseLocked
    <3>3. (limited \in BOOLEAN /\ deadline \in BOOLEAN /\ due \in BOOLEAN /\ closed \in BOOLEAN /\ broke \in BOOLEAN)'
      BY <1>12 DEF N!Close, N!CloseOpen, N!CloseAgain, N!ReleaseLocked
    <3>4. (due => deadline)'
      <4>1. due' = FALSE \/ UNCHANGED <<due, deadline>>
        BY <1>12 DEF N!Close, N!CloseOpen, N!CloseAgain, N!ReleaseLocked
      <4> QED  BY <4>1
    <3>5. (thread \in {"look", "wait", "timed", "ended"} /\ at \in {"idle", "key", "click", "drag"})'
      BY <1>12 DEF N!Close, N!CloseOpen, N!CloseAgain, N!ReleaseLocked
    <3>6. (closing \in [{"dispatcher", "watchdog"} -> {"no", "join"}])'
      <4>1. closing' = [closing EXCEPT ![c] = "join"]
        BY <1>12 DEF N!Close
      <4> QED  BY <4>1, ClosingTyped
    <3> QED  BY <3>1, <3>2, <3>3, <3>4, <3>5, <3>6
  <2>2. N!DownIsTracked'
    BY <1>12 DEF N!Close, N!CloseOpen, N!CloseAgain, N!ReleaseLocked
  <2>3. N!HeldStaysDown'
    BY <1>12 DEF N!Close, N!CloseOpen, N!CloseAgain, N!ReleaseLocked
  <2>4. N!HoldIsCounted'
    BY <1>12 DEF N!Close, N!CloseOpen, N!CloseAgain, N!ReleaseLocked
  <2>5. (closed => nheld = {} /\ transient = {})'
    BY <1>12 DEF N!Close, N!CloseOpen, N!CloseAgain, N!ReleaseLocked
  <2>6. (thread = "ended" => closed)'
    BY <1>12 DEF N!Close, N!CloseOpen, N!CloseAgain, N!ReleaseLocked
  <2>7. (at = "click" => kind = "pointer" /\ transient \subseteq combo)'
    BY <1>12 DEF N!Close, N!CloseOpen, N!CloseAgain, N!ReleaseLocked
  <2> QED  BY <2>1, <2>2, <2>3, <2>4, <2>5, <2>6, <2>7
<1>13. ASSUME NEW c \in N!Closers, N!Joined(c) PROVE DeviceInv'
  BY <1>13 DEF N!Joined
<1> QED
  BY <1>1, <1>2, <1>3, <1>4, <1>5, <1>6, <1>7, <1>8, <1>9, <1>10, <1>11, <1>12, <1>13
     DEF N!Next, N!Goes, N!Timer
LEMMA DeviceStutter == ASSUME DeviceInv, UNCHANGED nvars PROVE DeviceInv'
BY DEF nvars, DeviceInv, N!HoldsAreKnown, N!TypeOK, N!DownIsTracked, N!HeldStaysDown, N!HoldIsCounted
-----------------------------------------------------------------------------
(* The place of the cursor.                                                *)
(* A move under way ends at its target, and what the device said last is   *)
(* where the cursor is, unless something else moved it or the move began   *)
(* one pixel aside of its target.                                          *)
OnTheWay(b) ==
    /\ canvas[b] = width /\ ~stale[b] /\ target[b] # Unknown
    /\ path[b][Len(path[b])] = target[b] /\ \A i \in 1..Len(path[b]) : path[b][i] \in 0..width - 1
    /\ \/ moved[b]
       \/ cursor = abs[b]
       \/ path[b] = <<P!Aside(target[b]), target[b]>>
       \/ path[b] = <<target[b]>> /\ target[b] # abs[b]

AtRest(b) ==
    /\ moved[b] \/ (pos[b] \in {cursor, Unknown} /\ target[b] \in {cursor, Unknown})
    /\ moved[b] \/ stale[b] \/ canvas[b] = 0 \/ cursor = abs[b]

PointerInv ==
    /\ P!TypeOK
    /\ \A b \in Backends : /\ IF path[b] = <<>> THEN AtRest(b) ELSE OnTheWay(b)
                           /\ stale[b] => pos[b] = Unknown \/ moved[b]

LEMMA PointerInit == P!Init => PointerInv
BY DevicesAssumption
   DEF P!Init, PointerInv, P!TypeOK, P!PointerAssumption, P!Points, P!Places, AtRest

(* The points of a move are points, and the last is its target.            *)
LEMMA Sequence ==
    ASSUME NEW S, NEW n \in Nat, NEW f \in [1..n -> S]
    PROVE  f \in Seq(S) /\ Len(f) = n
OBVIOUS

LEMMA Empty == ASSUME NEW S, NEW s \in Seq(S) PROVE Len(s) \in Nat /\ (s = <<>> <=> Len(s) = 0)
BY EmptySeq

LEMMA Two == ASSUME NEW S, NEW x \in S, NEW y \in S PROVE <<x>> \o <<y>> = <<x, y>>
<1>1. <<x>> \o <<y>> \in Seq(S) /\ <<x, y>> \in Seq(S)
  OBVIOUS
<1>2. Len(<<x>> \o <<y>>) = 2 /\ Len(<<x, y>>) = 2
  OBVIOUS
<1>3. \A i \in 1..2 : (<<x>> \o <<y>>)[i] = <<x, y>>[i]
  OBVIOUS
<1>4. \A i \in 1..Len(<<x>> \o <<y>>) : (<<x>> \o <<y>>)[i] = <<x, y>>[i]
  BY <1>2, <1>3
<1> QED  BY <1>1, <1>2, <1>4, SeqEqual

LEMMA InFront ==
    ASSUME NEW S, NEW e \in S, NEW s \in Seq(S)
    PROVE  /\ <<e>> \o s \in Seq(S) /\ Len(<<e>> \o s) = Len(s) + 1 /\ (<<e>> \o s)[1] = e
           /\ \A i \in 1..Len(s) : (<<e>> \o s)[i + 1] = s[i]
OBVIOUS

LEMMA FirstAndRest ==
    ASSUME NEW S, NEW s \in Seq(S), s # <<>>
    PROVE  /\ Len(s) \in Nat \ {0} /\ Head(s) = s[1] /\ Tail(s) \in Seq(S) /\ Len(Tail(s)) = Len(s) - 1
           /\ \A i \in 1..Len(Tail(s)) : Tail(s)[i] = s[i + 1] /\ i + 1 \in 1..Len(s)
           /\ Tail(s) = <<>> <=> Len(s) = 1
           /\ Tail(s) # <<>> => Tail(s)[Len(Tail(s))] = s[Len(s)]
<1>1. /\ Len(s) \in Nat \ {0} /\ Tail(s) \in Seq(S) /\ Len(Tail(s)) = Len(s) - 1
      /\ \A i \in 1..Len(Tail(s)) : Tail(s)[i] = s[i + 1]
  BY EmptySeq, HeadTailProperties
<1>2. Head(s) = s[1]
  OBVIOUS
<1>3. Tail(s) = <<>> <=> Len(s) = 1
  BY <1>1, Empty
<1> QED  BY <1>1, <1>2, <1>3

LEMMA PathsEndThere ==
    ASSUME P!TypeOK, NEW b \in Backends, NEW z \in 0..width - 1, NEW p \in P!PathOf(b, z)
    PROVE  /\ p \in Seq(P!Points) /\ p # <<>> /\ p[Len(p)] = z
           /\ \A i \in 1..Len(p) : p[i] \in 0..width - 1
           /\ stale[b] /\ pos[b] = Unknown => p = <<P!Aside(z), z>>
<1> USE DevicesAssumption DEF P!PointerAssumption, P!TypeOK, P!Points, P!Places
<1>1. ASSUME NEW a \in P!Points, a # z
      PROVE  /\ P!Walk(a, z) \in Seq(P!Points) /\ P!Walk(a, z) # <<>> /\ P!Walk(a, z)[Len(P!Walk(a, z))] = z
             /\ \A i \in 1..Len(P!Walk(a, z)) : P!Walk(a, z)[i] \in 0..width - 1
  <2> DEFINE n == IF a < z THEN z - a ELSE a - z
  <2>1. n \in Nat \ {0} /\ 1..n = 1..(IF a < z THEN z - a ELSE a - z)
    BY <1>1
  <2>2. /\ \A i \in 1..n : (IF a < z THEN a + i ELSE a - i) \in 0..width - 1
        /\ (IF a < z THEN a + n ELSE a - n) = z
    BY <1>1
  <2>3. \A v \in 0..width - 1 : v \in P!Points
    OBVIOUS
  <2> HIDE DEF n
  <2>4. P!Walk(a, z) = [i \in 1..n |-> IF a < z THEN a + i ELSE a - i]
    BY DEF P!Walk, n
  <2>5. P!Walk(a, z) \in [1..n -> P!Points]
    BY <2>2, <2>3, <2>4
  <2>6. P!Walk(a, z) \in Seq(P!Points) /\ Len(P!Walk(a, z)) = n
    BY <2>1, <2>5, Sequence
  <2>7. P!Walk(a, z) # <<>>
    BY <2>1, <2>6, Empty
  <2>8. n \in 1..n /\ P!Walk(a, z)[n] = z /\ \A i \in 1..n : P!Walk(a, z)[i] \in 0..width - 1
    BY <2>1, <2>2, <2>4
  <2> QED  BY <2>6, <2>7, <2>8
<1>2. P!Aside(z) \in 0..width - 1 /\ P!Aside(z) \in P!Points
  BY DEF P!Aside
<1>3. ASSUME NEW q \in {<<z>>} \cup P!MovePaths(pos[b], z), pos[b] = Unknown => q = <<z>>
      PROVE  /\ q \in Seq(P!Points) /\ q # <<>> /\ q[Len(q)] = z
             /\ \A i \in 1..Len(q) : q[i] \in 0..width - 1
  <2>1. CASE q = <<z>>
    BY <2>1
  <2>2. CASE q # <<z>>
    <3>1. pos[b] \in P!Points /\ pos[b] # z /\ q = P!Walk(pos[b], z)
      BY <1>3, <2>2 DEF P!MovePaths
    <3> QED  BY <1>1, <3>1
  <2> QED  BY <2>1, <2>2
<1>4. CASE ~stale[b]
  BY <1>3, <1>4 DEF P!PathOf
<1>5. CASE stale[b]
  <2>1. PICK q \in {<<z>>} \cup P!MovePaths(pos[b], z) :
            p = <<P!Aside(z)>> \o q /\ (pos[b] = Unknown => q = <<z>>)
    BY <1>5 DEF P!PathOf
  <2>2. /\ q \in Seq(P!Points) /\ q # <<>> /\ q[Len(q)] = z
        /\ \A i \in 1..Len(q) : q[i] \in 0..width - 1
    BY <1>3, <2>1
  <2>3. /\ p \in Seq(P!Points) /\ Len(p) = Len(q) + 1 /\ p[1] = P!Aside(z)
        /\ \A i \in 1..Len(q) : p[i + 1] = q[i]
    BY <1>2, <2>1, <2>2, InFront
  <2>4. Len(q) \in Nat \ {0} /\ p # <<>> /\ p[Len(p)] = z
    <3>1. Len(q) \in Nat \ {0}
      BY <2>2, Empty
    <3>2. p # <<>>
      BY <2>3, <3>1, Empty
    <3>3. Len(q) \in 1..Len(q)
      BY <3>1
    <3>4. p[Len(q) + 1] = q[Len(q)]
      BY <2>3, <3>3
    <3> QED  BY <2>2, <2>3, <3>1, <3>2, <3>4
  <2>5. ASSUME NEW i \in 1..Len(p) PROVE p[i] \in 0..width - 1
    <3>1. CASE i = 1
      BY <1>2, <2>3, <3>1
    <3>2. CASE i # 1
      <4>1. i - 1 \in 1..Len(q) /\ (i - 1) + 1 = i
        BY <2>3, <2>4, <3>2
      <4> QED  BY <2>2, <2>3, <4>1
    <3> QED  BY <3>1, <3>2
  <2>6. pos[b] = Unknown => p = <<P!Aside(z), z>>
    <3> SUFFICES ASSUME pos[b] = Unknown PROVE p = <<P!Aside(z), z>>
      OBVIOUS
    <3>1. p = <<P!Aside(z)>> \o <<z>>
      BY <2>1
    <3>2. P!Aside(z) \in Int /\ z \in Int
      BY <1>2
    <3> HIDE DEF P!TypeOK, P!Points
    <3> QED  BY <3>1, <3>2, Two
  <2> QED  BY <2>3, <2>4, <2>5, <2>6
<1> QED  BY <1>4, <1>5

LEMMA PointerStep == ASSUME PointerInv, P!Next PROVE PointerInv'
<1> USE DevicesAssumption DEF P!PointerAssumption, P!Points, P!Places, P!Still
<1>1. ASSUME NEW b \in Backends, P!OpenPointer(b) PROVE PointerInv'
  BY <1>1 DEF PointerInv, P!TypeOK, AtRest, OnTheWay, P!OpenPointer, P!HasPointer
<1>2. ASSUME NEW b \in Backends, P!Write(b) PROVE PointerInv'
  <2> DEFINE p == Head(path[b])
             rest == Tail(path[b])
  <2>1. P!TypeOK /\ path[b] \in Seq(P!Points) /\ path[b] # <<>> /\ OnTheWay(b)
    BY <1>2 DEF PointerInv, P!TypeOK, P!Write
  <2>2. /\ Len(path[b]) \in Nat \ {0} /\ p = path[b][1] /\ rest \in Seq(P!Points) /\ Len(rest) = Len(path[b]) - 1
        /\ \A i \in 1..Len(rest) : rest[i] = path[b][i + 1] /\ i + 1 \in 1..Len(path[b])
        /\ rest = <<>> <=> Len(path[b]) = 1
        /\ rest # <<>> => rest[Len(rest)] = path[b][Len(path[b])]
    BY <2>1, FirstAndRest
  <2>3. 1 \in 1..Len(path[b])
    BY <2>2
  <2>4. p \in 0..width - 1 /\ p \in P!Points
    <3>1. p \in 0..width - 1
      BY <2>1, <2>2, <2>3 DEF OnTheWay
    <3> QED  BY <2>1, <3>1 DEF P!TypeOK
  <2>5. /\ rest = <<>> => p = target[b]
        /\ rest # <<>> => rest[Len(rest)] = target[b]
        /\ \A i \in 1..Len(rest) : rest[i] \in 0..width - 1
    BY <2>1, <2>2 DEF OnTheWay
  <2> HIDE DEF p, rest
  <2>6. /\ cursor' = IF p # abs[b] THEN p ELSE cursor
        /\ moved' = [c \in Backends |-> IF c = b THEN moved[b] /\ p = abs[b] ELSE moved[c] \/ p # abs[b]]
        /\ abs' = [abs EXCEPT ![b] = p] /\ pos' = [pos EXCEPT ![b] = p] /\ path' = [path EXCEPT ![b] = rest]
        /\ file' = IF rest = <<>> THEN p ELSE file
        /\ UNCHANGED <<width, canvas, stale, target>>
    BY <1>2 DEF P!Write, p, rest
  <2>7. P!TypeOK'
    <3>1. moved' \in [Backends -> BOOLEAN]
      BY <2>1, <2>6 DEF P!TypeOK
    <3>2. path' \in [Backends -> Seq(P!Points)]
      BY <2>1, <2>2, <2>6 DEF P!TypeOK
    <3> QED  BY <2>1, <2>4, <2>6, <3>1, <3>2 DEF P!TypeOK
  <2>8. ASSUME NEW c \in Backends, c # b
        PROVE  /\ IF path'[c] = <<>> THEN AtRest(c)' ELSE OnTheWay(c)'
               /\ (stale[c] => pos[c] = Unknown \/ moved[c])'
    <3>1. /\ path'[c] = path[c] /\ abs'[c] = abs[c] /\ pos'[c] = pos[c]
          /\ UNCHANGED <<width, canvas, stale, target>>
          /\ (moved[c] => moved'[c]) /\ (moved'[c] \/ cursor' = cursor)
      BY <2>1, <2>6, <2>8 DEF P!TypeOK
    <3>2. /\ IF path[c] = <<>> THEN AtRest(c) ELSE OnTheWay(c)
          /\ stale[c] => pos[c] = Unknown \/ moved[c]
      BY DEF PointerInv
    <3> QED  BY <3>1, <3>2 DEF AtRest, OnTheWay, P!Aside
  <2>9. /\ path'[b] = rest /\ abs'[b] = p /\ pos'[b] = p /\ UNCHANGED <<width, canvas, stale, target>>
        /\ p # abs[b] => cursor' = p
        /\ p = abs[b] => cursor' = cursor /\ moved'[b] = moved[b]
    BY <2>1, <2>6 DEF P!TypeOK
  <2>10. ~stale'[b]
    BY <2>1, <2>9 DEF OnTheWay
  <2>11. CASE rest = <<>>
    <3>1. moved'[b] \/ cursor' = p
      <4>1. CASE p = abs[b] /\ ~moved[b]
        <5>1. path[b] # <<P!Aside(target[b]), target[b]>>
          <6>1. Len(<<P!Aside(target[b]), target[b]>>) = 2
            OBVIOUS
          <6>2. Len(path[b]) = 1
            BY <2>2, <2>11
          <6>3. 1 # 2
            OBVIOUS
          <6> QED  BY <6>1, <6>2, <6>3, Zenon
        <5>2. ~(path[b] = <<target[b]>> /\ target[b] # abs[b])
          BY <2>5, <2>11, <4>1
        <5>3. cursor = abs[b]
          BY <2>1, <4>1, <5>1, <5>2 DEF OnTheWay
        <5> QED  BY <2>9, <4>1, <5>3
      <4> QED  BY <2>9, <4>1
    <3>2. AtRest(b)'
      BY <2>5, <2>9, <2>11, <3>1 DEF AtRest
    <3> QED  BY <2>7, <2>8, <2>9, <2>10, <2>11, <3>2 DEF PointerInv
  <2>12. CASE rest # <<>>
    <3>1. \/ moved'[b] \/ cursor' = p
          \/ rest = <<target[b]>> /\ target[b] # p
      <4>1. CASE p = abs[b] /\ ~moved[b]
        <5>1. CASE cursor = abs[b]
          BY <2>9, <4>1, <5>1
        <5>2. CASE path[b] = <<P!Aside(target[b]), target[b]>>
          <6>1. target[b] \in P!Points
            BY <2>1 DEF OnTheWay, P!TypeOK
          <6>2. target[b] # P!Aside(target[b])
            BY <6>1 DEF P!Aside
          <6>3. p = P!Aside(target[b]) /\ rest = <<target[b]>>
            BY <5>2 DEF p, rest
          <6> QED  BY <6>2, <6>3
        <5>3. CASE path[b] = <<target[b]>>
          BY <2>2, <2>12, <5>3
        <5> QED  BY <2>1, <4>1, <5>1, <5>2, <5>3 DEF OnTheWay
      <4> QED  BY <2>9, <4>1
    <3>2. OnTheWay(b)'
      BY <2>1, <2>5, <2>9, <2>10, <2>12, <3>1 DEF OnTheWay
    <3> QED  BY <2>7, <2>8, <2>9, <2>10, <2>12, <3>2 DEF PointerInv
  <2> QED  BY <2>11, <2>12
<1>3. ASSUME NEW b \in Backends, P!MoveBy(b) PROVE PointerInv'
  BY <1>3 DEF PointerInv, P!TypeOK, AtRest, OnTheWay, P!MoveBy, P!NoteExternalMotion
<1>4. ASSUME NEW b \in Backends, P!Close(b) PROVE PointerInv'
  BY <1>4 DEF PointerInv, P!TypeOK, AtRest, OnTheWay, P!Close, P!Aside
<1>5. ASSUME NEW b \in Backends, NEW x \in P!Points, P!Move(b, x) PROVE PointerInv'
  <2> DEFINE z == P!Clamp(x)
  <2>1. P!TypeOK /\ canvas[b] = width /\ AtRest(b) /\ \A c \in Backends : path[c] = <<>> /\ AtRest(c)
    BY <1>5 DEF PointerInv, P!Move, P!HasPointer
  <2>2. z \in 0..width - 1 /\ z \in P!Points
    BY <2>1 DEF P!Clamp, P!Least, P!TypeOK
  <2> HIDE DEF z
  <2>3. PICK p \in P!PathOf(b, z) : path' = [path EXCEPT ![b] = p]
    BY <1>5 DEF P!Move, z
  <2>4. /\ p \in Seq(P!Points) /\ p # <<>> /\ p[Len(p)] = z
        /\ \A i \in 1..Len(p) : p[i] \in 0..width - 1
        /\ stale[b] /\ pos[b] = Unknown => p = <<P!Aside(z), z>>
    BY <2>1, <2>2, PathsEndThere
  <2>5. /\ target' = [target EXCEPT ![b] = z] /\ stale' = [stale EXCEPT ![b] = FALSE]
        /\ UNCHANGED <<width, cursor, canvas, abs, pos, file, moved>>
    BY <1>5 DEF P!Move, z
  <2>6. P!TypeOK'
    BY <2>1, <2>2, <2>3, <2>4, <2>5 DEF P!TypeOK
  <2>7. ASSUME NEW c \in Backends, c # b
        PROVE  path'[c] = <<>> /\ AtRest(c)' /\ (stale[c] => pos[c] = Unknown \/ moved[c])'
    BY <2>1, <2>3, <2>5, <2>7 DEF PointerInv, AtRest, P!TypeOK
  <2>8. path'[b] = p /\ target'[b] = z /\ stale'[b] = FALSE
    BY <2>1, <2>3, <2>5 DEF P!TypeOK
  <2>9. OnTheWay(b)'
    <3>1. moved[b] \/ cursor = abs[b] \/ p = <<P!Aside(z), z>>
      <4>1. stale[b] => pos[b] = Unknown \/ moved[b]
        BY DEF PointerInv
      <4>2. canvas[b] # 0
        BY <2>1 DEF P!TypeOK
      <4> QED  BY <2>1, <2>4, <4>1, <4>2 DEF AtRest
    <3>2. z # Unknown
      BY <2>2
    <3> QED  BY <2>1, <2>4, <2>5, <2>8, <3>1, <3>2 DEF OnTheWay, P!Aside
  <2> QED  BY <2>4, <2>6, <2>7, <2>8, <2>9 DEF PointerInv
<1>6. CASE P!FileAges
  BY <1>6 DEF PointerInv, P!TypeOK, AtRest, OnTheWay, P!FileAges, P!Aside
<1>7. CASE P!UserMoves
  BY <1>7 DEF PointerInv, P!TypeOK, AtRest, OnTheWay, P!UserMoves, P!Aside
<1>8. CASE P!CanvasChanges
  BY <1>8 DEF PointerInv, P!TypeOK, AtRest, OnTheWay, P!CanvasChanges, P!Least
<1> QED
  BY <1>1, <1>2, <1>3, <1>4, <1>5, <1>6, <1>7, <1>8 DEF P!Next

LEMMA PointerStutter == ASSUME PointerInv, UNCHANGED pvars PROVE PointerInv'
BY DEF pvars, PointerInv, P!TypeOK, AtRest, OnTheWay, P!Aside, P!Points, P!Places
-----------------------------------------------------------------------------
(* The provider of the native helper.                                      *)
ThreadPlaces == {"idle", "find", "mark", "send", "wait", "release", "ask", "await", "released", "replace", "close", "closing"}
Nexts == {"idle", "again", "close", "replace"}
ThreadData == [at : ThreadPlaces, token : 0..MaxGrants, h : 0..MaxHelpers, next : Nexts]
Requests == [by : R!Threads, what : {"press", "release"}, grant : 0..MaxGrants, live : BOOLEAN]

ProviderData ==
    /\ R!TypeOK
    /\ th \in [R!Threads -> ThreadData] /\ queue \in [R!Helpers -> Seq(Requests)]
    /\ lease <= issued /\ client <= made /\ (client = 0 <=> served = 0)

(* The threads: only the writer writes, only the others close, and who     *)
(* asks has a helper to ask.                                               *)
ThreadOK(t, d) ==
    /\ d.h <= made /\ (d.at \in {"mark", "send", "wait", "ask", "await"} => d.h # 0)
    /\ t = Writer => /\ d.at \notin {"close", "closing"} /\ d.next \in {"idle", "replace"}
                     /\ d.at \in {"find", "mark", "send", "wait", "replace"} \/ d.next = "replace" => d.token # 0
    /\ t # Writer => d.at \notin {"find", "mark", "send", "wait", "replace"} /\ d.next # "replace"

ThreadsOK == \A t \in R!Threads : ThreadOK(t, th[t])

(* A helper that was not made, is closed or has no process does nothing.   *)
HelpersOK ==
    \A h \in R!Helpers :
        /\ h > made => h \notin up /\ bound[h] = 0
        /\ h \notin up \/ bound[h] = 0 => h \notin pressed /\ queue[h] = <<>>

(* Whoever waits is the one that a request not given up is for, and waits  *)
(* for one request; and the writer presses under the grant that the        *)
(* current helper serves.                                                  *)
Live(h, i) == queue[h][i].live
ForWaiting(h, i) ==
    LET r == queue[h][i]
    IN  r.live => /\ th[r.by].h = h /\ th[r.by].at = (IF r.what = "press" THEN "wait" ELSE "await")
                  /\ \A j \in DOMAIN queue[h] : queue[h][j].live /\ queue[h][j].by = r.by => j = i
QueuesOK == \A h \in R!Helpers : \A i \in DOMAIN queue[h] : ForWaiting(h, i)

Pressing == th[Writer].at \in {"send", "wait"}
UnderTheGrant ==
    /\ th[Writer].at = "mark" \/ Pressing => (th[Writer].h = client => th[Writer].token = served)
    /\ client \in R!Helpers =>
          \A i \in DOMAIN queue[client] : queue[client][i].what = "press" => queue[client][i].grant = served

(* While the flag is off, the current helper presses nothing and is asked  *)
(* for nothing of the kind; while a release is under way, what it holds    *)
(* is what the release is for.                                             *)
MarkedOK ==
    client \in R!Helpers /\ client \notin crossed =>
        /\ used \/ ~(Pressing /\ th[Writer].h = client)
        /\ \A i \in DOMAIN queue[client] : queue[client][i].what = "press" => used
        /\ client \in pressed => /\ used
                                 /\ \A t \in R!Threads : /\ th[t].at # "released"
                                                         /\ th[t].at \in {"ask", "await"} => th[t].h = client

ProviderInv == ProviderData /\ ThreadsOK /\ HelpersOK /\ QueuesOK /\ UnderTheGrant /\ MarkedOK /\ R!NoStrayHelper

(* What Goes makes of a thread.                                            *)
After(d, where) ==
    CASE where = "idle"  -> R!Idle
      [] where = "again" -> [R!Idle EXCEPT !.at = "release", !.next = "close"]
      [] OTHER           -> [d EXCEPT !.at = where]

LEMMA IdleThread ==
    /\ R!Idle \in ThreadData /\ R!Idle.at = "idle" /\ R!Idle.h = 0 /\ R!Idle.next = "idle"
    /\ \A t : made \in Nat => ThreadOK(t, R!Idle)
BY DevicesAssumption DEF R!Idle, ThreadData, ThreadPlaces, Nexts, R!ProviderAssumption, ThreadOK

LEMMA AfterIs ==
    ASSUME NEW d \in ThreadData, NEW where \in ThreadPlaces \cup {"again"}
    PROVE  /\ After(d, where) \in ThreadData
           /\ After(d, where).at = IF where = "again" THEN "release" ELSE where
           /\ where \notin {"idle", "again"} =>
                 After(d, where).h = d.h /\ After(d, where).token = d.token /\ After(d, where).next = d.next
           /\ where = "again" => After(d, where).h = 0 /\ After(d, where).next = "close"
           /\ where = "idle" => After(d, where) = R!Idle
<1> USE DevicesAssumption DEF R!ProviderAssumption, ThreadData, ThreadPlaces, Nexts, R!Idle
<1>1. CASE where = "idle"
  BY <1>1 DEF After
<1>2. CASE where = "again"
  <2>1. After(d, where) = [R!Idle EXCEPT !.at = "release", !.next = "close"]
    BY <1>2 DEF After
  <2>2. After(d, where) = [at |-> "release", token |-> 0, h |-> 0, next |-> "close"]
    BY <2>1
  <2> QED  BY <1>2, <2>2
<1>3. CASE where \notin {"idle", "again"}
  <2>1. After(d, where) = [d EXCEPT !.at = where]
    BY <1>3 DEF After
  <2> QED  BY <1>3, <2>1
<1> QED  BY <1>1, <1>2, <1>3

(* Two parts of a thread change at a time.                                 *)
With(d, p, n) == [d EXCEPT !.at = p, !.h = n]
Then(d, p, x) == [d EXCEPT !.at = p, !.next = x]
Under(d, p, g) == [d EXCEPT !.at = p, !.token = g]

LEMMA PlacedWith ==
    ASSUME NEW d \in ThreadData, NEW p \in ThreadPlaces, NEW n \in 0..MaxHelpers
    PROVE  /\ With(d, p, n) \in ThreadData
           /\ With(d, p, n).at = p
           /\ With(d, p, n).h = n
           /\ With(d, p, n).token = d.token
           /\ With(d, p, n).next = d.next
<1> DEFINE c == [d EXCEPT !.at = p]
<1>1. c \in ThreadData /\ c.at = p /\ c.h = d.h /\ c.token = d.token /\ c.next = d.next
  BY DEF ThreadData
<1>2. With(d, p, n) = [c EXCEPT !.h = n]
  BY DEF With
<1> HIDE DEF c
<1>3. /\ [c EXCEPT !.h = n] \in ThreadData
      /\ [c EXCEPT !.h = n].at = p
      /\ [c EXCEPT !.h = n].h = n
      /\ [c EXCEPT !.h = n].token = d.token
      /\ [c EXCEPT !.h = n].next = d.next
  BY <1>1 DEF ThreadData
<1> QED  BY <1>2, <1>3

LEMMA PlacedThen ==
    ASSUME NEW d \in ThreadData, NEW p \in ThreadPlaces, NEW x \in Nexts
    PROVE  /\ Then(d, p, x) \in ThreadData
           /\ Then(d, p, x).at = p
           /\ Then(d, p, x).h = d.h
           /\ Then(d, p, x).token = d.token
           /\ Then(d, p, x).next = x
<1> DEFINE c == [d EXCEPT !.at = p]
<1>1. c \in ThreadData /\ c.at = p /\ c.h = d.h /\ c.token = d.token /\ c.next = d.next
  BY DEF ThreadData
<1>2. Then(d, p, x) = [c EXCEPT !.next = x]
  BY DEF Then
<1> HIDE DEF c
<1>3. /\ [c EXCEPT !.next = x] \in ThreadData
      /\ [c EXCEPT !.next = x].at = p
      /\ [c EXCEPT !.next = x].h = d.h
      /\ [c EXCEPT !.next = x].token = d.token
      /\ [c EXCEPT !.next = x].next = x
  BY <1>1 DEF ThreadData
<1> QED  BY <1>2, <1>3

LEMMA PlacedUnder ==
    ASSUME NEW d \in ThreadData, NEW p \in ThreadPlaces, NEW g \in 0..MaxGrants
    PROVE  /\ Under(d, p, g) \in ThreadData
           /\ Under(d, p, g).at = p
           /\ Under(d, p, g).h = d.h
           /\ Under(d, p, g).token = g
           /\ Under(d, p, g).next = d.next
<1> DEFINE c == [d EXCEPT !.at = p]
<1>1. c \in ThreadData /\ c.at = p /\ c.h = d.h /\ c.token = d.token /\ c.next = d.next
  BY DEF ThreadData
<1>2. Under(d, p, g) = [c EXCEPT !.token = g]
  BY DEF Under
<1> HIDE DEF c
<1>3. /\ [c EXCEPT !.token = g] \in ThreadData
      /\ [c EXCEPT !.token = g].at = p
      /\ [c EXCEPT !.token = g].h = d.h
      /\ [c EXCEPT !.token = g].token = g
      /\ [c EXCEPT !.token = g].next = d.next
  BY <1>1 DEF ThreadData
<1> QED  BY <1>2, <1>3

LEMMA ProviderInit == R!Init => ProviderInv
<1> SUFFICES ASSUME R!Init PROVE ProviderInv
  OBVIOUS
<1> USE DEF R!Init
<1>1. /\ R!Idle \in ThreadData /\ Writer \in R!Threads
      /\ 0 \in 0..MaxGrants /\ 0 \in 0..MaxHelpers /\ 0 \in 0..MaxDeaths
  BY DevicesAssumption, IdleThread DEF R!ProviderAssumption, R!Threads
<1>2. \A t \in R!Threads : th[t] = R!Idle
  OBVIOUS
<1>3. ProviderData
  <2>1. <<>> \in Seq(Requests)
    BY EmptySeq
  <2>2. th \in [R!Threads -> ThreadData] /\ DOMAIN th = R!Threads
    BY <1>1
  <2>3. bound \in [R!Helpers -> 0..MaxGrants] /\ queue \in [R!Helpers -> Seq(Requests)]
    BY <1>1, <2>1
  <2>4. used \in BOOLEAN
    BY Zenon
  <2>5. lease <= issued /\ client <= made /\ (client = 0 <=> served = 0)
    OBVIOUS
  <2> QED  BY <1>1, <2>2, <2>3, <2>4, <2>5 DEF ProviderData, R!TypeOK
<1>4. ThreadsOK
  BY <1>2, IdleThread DEF ThreadsOK
<1>5. HelpersOK /\ QueuesOK /\ MarkedOK /\ R!NoStrayHelper
  BY <1>1, <1>2, IdleThread DEF HelpersOK, QueuesOK, MarkedOK, R!NoStrayHelper, R!Helpers, Pressing
<1>6. UnderTheGrant
  BY <1>1, <1>2, IdleThread DEF UnderTheGrant, R!Helpers, Pressing
<1> QED  BY <1>3, <1>4, <1>5, <1>6 DEF ProviderInv

-----------------------------------------------------------------------------
(* One thread moves.                                                       *)
LEMMA Moves ==
    ASSUME ProviderData, ThreadsOK, made' = made, NEW t \in R!Threads, NEW d \in ThreadData, ThreadOK(t, d),
           th' = [th EXCEPT ![t] = d]
    PROVE  /\ th' \in [R!Threads -> ThreadData] /\ ThreadsOK'
           /\ th'[t] = d /\ \A u \in R!Threads : u # t => th'[u] = th[u]
<1>1. th' \in [R!Threads -> ThreadData] /\ th'[t] = d /\ \A u \in R!Threads : u # t => th'[u] = th[u]
  BY DEF ProviderData
<1>2. \A u \in R!Threads : ThreadOK(u, th'[u])
  BY <1>1 DEF ThreadsOK
<1>3. \A u, e : ThreadOK(u, e) => ThreadOK(u, e)'
  BY DEF ThreadOK
<1> QED  BY <1>1, <1>2, <1>3 DEF ThreadsOK, ThreadOK

LEMMA QueuesKept ==
    ASSUME ProviderData, QueuesOK, NEW t \in R!Threads, th[t].at \notin {"wait", "await"},
           \A u \in R!Threads : u # t => th'[u] = th[u], UNCHANGED queue
    PROVE  QueuesOK'
<1> SUFFICES ASSUME NEW h \in R!Helpers, NEW i \in DOMAIN queue[h] PROVE ForWaiting(h, i)'
  BY DEF QueuesOK
<1>1. queue[h][i] \in Requests /\ ForWaiting(h, i)
  BY DEF ProviderData, QueuesOK
<1>2. queue[h][i].by \in R!Threads /\ (queue[h][i].live => queue[h][i].by # t)
  BY <1>1 DEF ForWaiting, Requests
<1> QED  BY <1>1, <1>2 DEF ForWaiting

LEMMA StrayKept ==
    ASSUME R!NoStrayHelper, NEW t \in R!Threads, th[t].at # "closing",
           \A u \in R!Threads : u # t => th'[u] = th[u], up' \subseteq up, client' = client
    PROVE  R!NoStrayHelper'
BY DEF R!NoStrayHelper

LEMMA HelpersKept == ASSUME HelpersOK, UNCHANGED <<made, up, bound, queue, pressed>> PROVE HelpersOK'
BY DEF HelpersOK
-----------------------------------------------------------------------------
LEMMA LeaseSteps == ASSUME ProviderInv, R!GrantElsewhere \/ R!GrantEnds PROVE ProviderInv'
<1>1. UNCHANGED <<client, served, hlock, made, up, used, bound, queue, pressed, deaths, th, crossed>>
  BY DEF R!GrantElsewhere, R!GrantEnds, R!helpervars, R!procvars
<1>2. /\ lease' \in 0..MaxGrants /\ issued' \in 0..MaxGrants /\ lease' <= issued'
  BY DevicesAssumption
     DEF R!GrantElsewhere, R!GrantEnds, R!Opened, ProviderInv, ProviderData, R!TypeOK, R!ProviderAssumption
<1>3. ProviderData'
  BY <1>1, <1>2 DEF ProviderInv, ProviderData, R!TypeOK
<1> QED  BY <1>1, <1>3 DEF ProviderInv, ThreadsOK, ThreadOK, HelpersOK, QueuesOK, ForWaiting, UnderTheGrant, MarkedOK,
                           R!NoStrayHelper, Pressing

LEMMA ProviderStutter == ASSUME ProviderInv, UNCHANGED rvars PROVE ProviderInv'
<1>1. UNCHANGED <<lease, issued, client, served, hlock, made, up, used, bound, queue, pressed, deaths, th, crossed>>
  BY DEF rvars
<1>2. ProviderData'
  BY <1>1 DEF rvars, ProviderInv, ProviderData, R!TypeOK
<1> QED  BY <1>2 DEF rvars, ProviderInv, ThreadsOK, ThreadOK, HelpersOK, QueuesOK, ForWaiting, UnderTheGrant, MarkedOK,
                     R!NoStrayHelper, Pressing

(* A thread goes where it asks nobody for anything, and the helpers stay.  *)
Elsewhere == {"idle", "find", "release", "replace", "close"}

LEMMA MovesElsewhere ==
    ASSUME ProviderInv, NEW t \in R!Threads, NEW d \in ThreadData, ThreadOK(t, d), d.at \in Elsewhere,
           th' = [th EXCEPT ![t] = d], th[t].at \notin {"wait", "await", "closing"},
           UNCHANGED <<issued, client, served, made, up, bound, queue, pressed, deaths, crossed, used>>,
           lease' \in {0, lease}, hlock' \in R!Threads \cup {NoThread}
    PROVE  ProviderInv'
<1> USE DEF ProviderInv
<1>1. /\ th' \in [R!Threads -> ThreadData] /\ ThreadsOK'
      /\ th'[t] = d /\ \A u \in R!Threads : u # t => th'[u] = th[u]
  BY Moves
<1>2. ProviderData'
  <2>1. lease' \in 0..MaxGrants /\ lease' <= issued'
    BY DevicesAssumption DEF ProviderData, R!TypeOK, R!ProviderAssumption
  <2> QED  BY <1>1, <2>1 DEF ProviderData, R!TypeOK
<1>3. QueuesOK'
  BY <1>1, QueuesKept
<1>4. R!NoStrayHelper'
  BY <1>1, StrayKept
<1>5. HelpersOK'
  BY HelpersKept
<1>6. Writer \in R!Threads
  BY DEF R!Threads
<1>7. UnderTheGrant'
  BY <1>1, <1>6 DEF UnderTheGrant, Pressing, Elsewhere
<1>8. MarkedOK'
  BY <1>1, <1>6 DEF MarkedOK, Pressing, Elsewhere
<1> QED  BY <1>1, <1>2, <1>3, <1>4, <1>5, <1>7, <1>8

LEMMA WriterIsThread == Writer \in R!Threads /\ Others \subseteq R!Threads /\ Writer \notin Others
                        /\ \A t \in R!Threads : t # Writer => t \in Others
BY DevicesAssumption DEF R!Threads, R!ProviderAssumption

LEMMA WriteStep == ASSUME ProviderInv, R!Write PROVE ProviderInv'
<1> DEFINE d == Under(R!Idle, "find", lease)
<1>1. /\ d \in ThreadData /\ d.at = "find" /\ d.h = 0 /\ d.token # 0 /\ d.next = "idle"
  <2>1. lease \in 0..MaxGrants /\ lease # 0 /\ "find" \in ThreadPlaces
    BY DEF R!Write, ProviderInv, ProviderData, R!TypeOK, ThreadPlaces
  <2> QED  BY <2>1, IdleThread, PlacedUnder
<1> HIDE DEF d
<1>2. th' = [th EXCEPT ![Writer] = d] /\ th[Writer].at = "idle"
  BY DEF R!Write, d, Under
<1>3. ThreadOK(Writer, d)
  BY <1>1 DEF ThreadOK, ProviderInv, ProviderData, R!TypeOK
<1>4. UNCHANGED <<lease, hlock, issued, client, served, made, up, bound, queue, pressed, deaths, crossed, used>>
  BY DEF R!Write, R!leasevars, R!helpervars, R!procvars
<1>5. hlock' \in R!Threads \cup {NoThread}
  BY <1>4 DEF ProviderInv, ProviderData, R!TypeOK
<1> QED  BY <1>1, <1>2, <1>3, <1>4, <1>5, WriterIsThread, MovesElsewhere DEF Elsewhere

LEMMA StartStep == ASSUME ProviderInv, NEW t \in Others, R!SessionEnds(t) \/ R!Lock(t) PROVE ProviderInv'
<1>1. PICK next \in {"idle", "again"} : R!Starts(t, "release", next)
  BY DEF R!SessionEnds, R!Lock
<1> DEFINE d == Then(R!Idle, "release", next)
<1>2. "release" \in ThreadPlaces /\ next \in Nexts /\ next # "replace"
  BY DEF ThreadPlaces, Nexts
<1>3. d \in ThreadData /\ d.at = "release" /\ d.h = 0 /\ d.next # "replace"
  BY <1>2, IdleThread, PlacedThen
<1> HIDE DEF d
<1>4. th' = [th EXCEPT ![t] = d] /\ th[t].at = "idle"
  BY <1>1 DEF R!Starts, d, Then
<1>5. ThreadOK(t, d)
  BY <1>3, WriterIsThread DEF ThreadOK, ProviderInv, ProviderData, R!TypeOK
<1>6. /\ UNCHANGED <<hlock, issued, client, served, made, up, bound, queue, pressed, deaths, crossed, used>>
      /\ lease' \in {0, lease}
  BY DEF R!SessionEnds, R!Lock, R!leasevars, R!helpervars, R!procvars
<1>7. hlock' \in R!Threads \cup {NoThread}
  BY <1>6 DEF ProviderInv, ProviderData, R!TypeOK
<1> QED  BY <1>3, <1>4, <1>5, <1>6, <1>7, WriterIsThread, MovesElsewhere DEF Elsewhere

(* A new helper: it has been asked nothing.                                *)
LEMMA NewHelper ==
    ASSUME ProviderInv, NEW t \in R!Threads, th[t].at \in {"find", "replace"}, R!New(t),
           up' \in {up \cup {made'}, (up \ {client}) \cup {made'}},
           client = 0 \/ up' = (up \ {client}) \cup {made'},
           \A h \in R!Helpers : h = client => h \notin pressed' /\ queue'[h] = <<>>,
           pressed' \subseteq pressed, hlock' \in R!Threads \cup {NoThread},
           \A h \in R!Helpers : queue'[h] \in {queue[h], <<>>},
           queue' \in [R!Helpers -> Seq(Requests)],
           UNCHANGED <<lease, issued, used, bound, deaths, crossed>>
    PROVE  ProviderInv'
<1> USE DEF ProviderInv
<1> DEFINE d == With(th[t], "mark", made')
<1>1. /\ made' = made + 1 /\ made \in 0..MaxHelpers /\ made' \in R!Helpers /\ client' = made' /\ client <= made
      /\ client \in 0..MaxHelpers /\ served' = th[t].token
  BY DevicesAssumption DEF R!New, ProviderData, R!TypeOK, R!Helpers, R!ProviderAssumption
<1>2. th[t] \in ThreadData /\ ThreadOK(t, th[t])
  BY DEF ProviderData, ThreadsOK
<1>3. t = Writer /\ th[t].token # 0
  BY <1>2 DEF ThreadOK
<1>4. d \in ThreadData /\ d.at = "mark" /\ d.h = made' /\ d.token = th[t].token /\ d.next = th[t].next
  <2>1. made' \in 0..MaxHelpers /\ "mark" \in ThreadPlaces
    BY <1>1 DEF R!Helpers, ThreadPlaces
  <2> QED  BY <1>2, <2>1, PlacedWith
<1>5. th' = [th EXCEPT ![t] = d]
  BY DEF R!New, With
<1> HIDE DEF d
<1>6. /\ th' \in [R!Threads -> ThreadData] /\ th'[t] = d /\ \A u \in R!Threads : u # t => th'[u] = th[u]
  BY <1>4, <1>5 DEF ProviderData
<1>7. ThreadsOK'
  <2> SUFFICES ASSUME NEW u \in R!Threads PROVE ThreadOK(u, th[u])'
    BY DEF ThreadsOK
  <2>1. CASE u = t
    BY <1>1, <1>2, <1>3, <1>4, <1>6, <2>1 DEF ThreadOK, R!Helpers
  <2>2. CASE u # t
    <3>1. th'[u] = th[u] /\ th[u] \in ThreadData /\ ThreadOK(u, th[u])
      BY <1>6, <2>2 DEF ProviderData, ThreadsOK
    <3>2. th[u].h \in 0..MaxHelpers
      BY <3>1 DEF ThreadData
    <3> QED  BY <1>1, <3>1, <3>2 DEF ThreadOK
  <2> QED  BY <2>1, <2>2
<1>8. made' \notin up /\ made' \notin pressed /\ queue[made'] = <<>> /\ bound[made'] = 0
  BY <1>1 DEF HelpersOK
<1>9. made' \notin pressed' /\ queue'[made'] = <<>>
  BY <1>1, <1>8
<1>10. HelpersOK'
  <2> SUFFICES ASSUME NEW h \in R!Helpers
               PROVE  /\ h > made' => h \notin up' /\ bound[h] = 0
                      /\ h \notin up' \/ bound[h] = 0 => h \notin pressed' /\ queue'[h] = <<>>
    BY DEF HelpersOK
  <2>1. CASE h = made'
    <3>1. made' \in up' /\ ~(made' > made')
      BY <1>1 DEF R!Helpers
    <3> QED  BY <1>9, <2>1, <3>1
  <2>2. CASE h # made'
    <3>1. h > made' => h > made
      BY <1>1 DEF R!Helpers
    <3>2. CASE h # client \/ up' = up \cup {made'}
      BY <2>2, <3>1, <3>2 DEF HelpersOK
    <3>3. CASE h = client
      BY <1>1, <2>2, <3>1, <3>3 DEF HelpersOK
    <3> QED  BY <3>2, <3>3
  <2> QED  BY <2>1, <2>2
<1>11. ProviderData'
  <2>1. served' \in 0..MaxGrants /\ served' # 0
    BY <1>1, <1>2, <1>3 DEF ThreadData
  <2>2. client' # 0 /\ client' <= made' /\ client' \in 0..MaxHelpers /\ made' \in 0..MaxHelpers
    BY <1>1 DEF R!Helpers
  <2>3. up' \subseteq R!Helpers /\ pressed' \subseteq R!Helpers
    BY <1>1 DEF ProviderData, R!TypeOK
  <2> QED  BY <1>6, <2>1, <2>2, <2>3 DEF ProviderData, R!TypeOK
<1>12. QueuesOK'
  <2> SUFFICES ASSUME NEW h \in R!Helpers, NEW i \in DOMAIN queue'[h] PROVE ForWaiting(h, i)'
    BY DEF QueuesOK
  <2>1. queue'[h] = queue[h]
    OBVIOUS
  <2>2. queue[h][i] \in Requests /\ ForWaiting(h, i)
    BY <2>1 DEF ProviderData, QueuesOK
  <2>3. queue[h][i].live => queue[h][i].by # t
    BY <2>2 DEF ForWaiting
  <2> QED  BY <1>6, <2>1, <2>2, <2>3 DEF ForWaiting, Requests
<1>13. UnderTheGrant'
  BY <1>1, <1>3, <1>4, <1>6, <1>9 DEF UnderTheGrant
<1>14. MarkedOK'
  BY <1>1, <1>3, <1>4, <1>6, <1>9 DEF MarkedOK, Pressing
<1>15. R!NoStrayHelper'
  <2> SUFFICES ASSUME NEW h \in up', h # client'
               PROVE  \E u \in R!Threads : th'[u].at = "closing" /\ th'[u].h = h
    BY DEF R!NoStrayHelper
  <2>1. h \in up /\ h # client
    BY <1>1 DEF ProviderData, R!TypeOK, R!Helpers
  <2>2. PICK u \in R!Threads : th[u].at = "closing" /\ th[u].h = h
    BY <2>1 DEF R!NoStrayHelper
  <2> QED  BY <1>6, <2>2
<1> QED  BY <1>7, <1>10, <1>11, <1>12, <1>13, <1>14, <1>15

LEMMA FindStep == ASSUME ProviderInv, NEW t \in R!Threads, R!FindHelper(t) PROVE ProviderInv'
<1>1. th[t].at = "find" /\ th[t] \in ThreadData /\ ThreadOK(t, th[t]) /\ t = Writer /\ th[t].token # 0
  BY DEF R!FindHelper, ProviderInv, ProviderData, ThreadsOK, ThreadOK
<1>2. UNCHANGED <<lease, issued, used, bound, queue, pressed, deaths, crossed>>
  BY DEF R!FindHelper, R!leasevars, R!procvars
<1>3. /\ client \in 0..MaxHelpers /\ served \in 0..MaxGrants /\ client <= made /\ (client = 0 <=> served = 0)
      /\ hlock \in R!Threads \cup {NoThread} /\ queue \in [R!Helpers -> Seq(Requests)]
  BY DEF ProviderInv, ProviderData, R!TypeOK
<1>4. CASE client # 0 /\ served \notin {0, th[t].token}
  <2> DEFINE d == Then(th[t], "release", "replace")
  <2>1. /\ th' = [th EXCEPT ![t] = d] /\ hlock' = t
        /\ UNCHANGED <<client, served, made, up>>
    BY <1>4 DEF R!FindHelper, Then
  <2>2. d \in ThreadData /\ d.at = "release" /\ d.next = "replace" /\ d.h = th[t].h /\ d.token = th[t].token
    <3>1. "release" \in ThreadPlaces /\ "replace" \in Nexts
      BY DEF ThreadPlaces, Nexts
    <3> QED  BY <1>1, <3>1, PlacedThen
  <2> HIDE DEF d
  <2>3. ThreadOK(t, d)
    BY <1>1, <2>2 DEF ThreadOK
  <2> QED  BY <1>1, <1>2, <2>1, <2>2, <2>3, MovesElsewhere DEF Elsewhere
<1>5. CASE client # 0 /\ served \in {0, th[t].token}
  <2> DEFINE d == With(th[t], "mark", client)
  <2>1. /\ th' = [th EXCEPT ![t] = d] /\ served' = th[t].token
        /\ UNCHANGED <<client, hlock, made, up>>
    BY <1>5 DEF R!FindHelper, With
  <2>2. d \in ThreadData /\ d.at = "mark" /\ d.next = th[t].next /\ d.h = client /\ d.token = th[t].token
    <3>1. "mark" \in ThreadPlaces
      BY DEF ThreadPlaces
    <3> QED  BY <1>1, <1>3, <3>1, PlacedWith
  <2> HIDE DEF d
  <2>3. ThreadOK(t, d)
    BY <1>1, <1>3, <1>5, <2>2 DEF ThreadOK
  <2>4. served' = served
    BY <1>3, <1>5, <2>1
  <2>5. /\ th' \in [R!Threads -> ThreadData] /\ ThreadsOK'
        /\ th'[t] = d /\ \A u \in R!Threads : u # t => th'[u] = th[u]
    BY <2>1, <2>2, <2>3, Moves DEF ProviderInv
  <2>6. ProviderData'
    BY <1>2, <2>1, <2>4, <2>5 DEF ProviderInv, ProviderData, R!TypeOK
  <2>7. QueuesOK' /\ R!NoStrayHelper' /\ HelpersOK'
    BY <1>1, <1>2, <2>1, <2>5, QueuesKept, StrayKept, HelpersKept DEF ProviderInv
  <2>8. UnderTheGrant'
    BY <1>1, <1>2, <1>3, <2>1, <2>2, <2>4, <2>5 DEF ProviderInv, UnderTheGrant
  <2>9. MarkedOK'
    BY <1>1, <1>2, <2>1, <2>2, <2>5 DEF ProviderInv, MarkedOK, Pressing
  <2> QED  BY <2>5, <2>6, <2>7, <2>8, <2>9 DEF ProviderInv
<1>6. CASE client = 0
  <2>1. R!New(t) /\ up' = up \cup {made'} /\ UNCHANGED hlock
    BY <1>6 DEF R!FindHelper
  <2>2. /\ queue' \in [R!Helpers -> Seq(Requests)] /\ hlock' \in R!Threads \cup {NoThread}
        /\ \A h \in R!Helpers : queue'[h] \in {queue[h], <<>>}
    BY <1>2, <1>3, <2>1
  <2>3. \A h \in R!Helpers : h # client
    BY <1>6 DEF R!Helpers
  <2> QED  BY <1>1, <1>2, <1>6, <2>1, <2>2, <2>3, NewHelper
<1> QED  BY <1>4, <1>5, <1>6

LEMMA ReplaceStep == ASSUME ProviderInv, NEW t \in R!Threads, R!Replace(t) PROVE ProviderInv'
<1>1. queue \in [R!Helpers -> Seq(Requests)] /\ <<>> \in Seq(Requests)
  BY EmptySeq DEF ProviderInv, ProviderData
<1>2. /\ queue' \in [R!Helpers -> Seq(Requests)]
      /\ \A h \in R!Helpers : queue'[h] \in {queue[h], <<>>}
  BY <1>1 DEF R!Replace
<1>3. hlock' \in R!Threads \cup {NoThread} /\ pressed' \subseteq pressed
  BY DEF R!Replace
<1>4. UNCHANGED <<lease, issued, used, bound, deaths, crossed>>
  BY DEF R!Replace, R!leasevars
<1> QED  BY <1>2, <1>3, <1>4, NewHelper DEF R!Replace

LEMMA MarkStep == ASSUME ProviderInv, NEW t \in R!Threads, R!Mark(t) PROVE ProviderInv'
<1> DEFINE d == After(th[t], "send")
<1>1. th[t].at = "mark" /\ th[t] \in ThreadData /\ ThreadOK(t, th[t]) /\ t = Writer
  BY DEF R!Mark, ProviderInv, ProviderData, ThreadsOK, ThreadOK
<1>2. d \in ThreadData /\ d.at = "send" /\ d.h = th[t].h /\ d.token = th[t].token /\ d.next = th[t].next
  <2>1. "send" \in ThreadPlaces
    BY DEF ThreadPlaces
  <2> QED  BY <1>1, <2>1, AfterIs
<1>3. th' = [th EXCEPT ![t] = d] /\ used' = TRUE
  BY DEF R!Mark, R!Goes, After
<1>4. UNCHANGED <<lease, issued, client, served, hlock, made, up, bound, queue, pressed, deaths, crossed>>
  BY DEF R!Mark, R!leasevars, R!helpervars, R!procvars
<1> HIDE DEF d
<1>5. ThreadOK(t, d)
  BY <1>1, <1>2 DEF ThreadOK
<1>6. /\ th' \in [R!Threads -> ThreadData] /\ ThreadsOK'
      /\ th'[t] = d /\ \A u \in R!Threads : u # t => th'[u] = th[u]
  BY <1>2, <1>3, <1>4, <1>5, Moves DEF ProviderInv
<1>7. ProviderData'
  BY <1>3, <1>4, <1>6 DEF ProviderInv, ProviderData, R!TypeOK
<1>8. QueuesOK' /\ R!NoStrayHelper' /\ HelpersOK'
  BY <1>1, <1>4, <1>6, QueuesKept, StrayKept, HelpersKept DEF ProviderInv
<1>9. UnderTheGrant'
  BY <1>1, <1>2, <1>4, <1>6 DEF ProviderInv, UnderTheGrant, Pressing
<1>10. MarkedOK'
  BY <1>1, <1>2, <1>3, <1>4, <1>6 DEF ProviderInv, MarkedOK
<1> QED  BY <1>6, <1>7, <1>8, <1>9, <1>10 DEF ProviderInv

(* Release and Released: the flag goes off, and the thread goes on.        *)
LEMMA Unmarked ==
    ASSUME ProviderInv, NEW t \in R!Threads, th[t].at \in {"release", "released"}, R!Goes(t, th[t].next),
           used' = FALSE, crossed' = crossed \cup {h \in R!Helpers : R!Crossed(h)},
           client \in pressed => client \in crossed,
           UNCHANGED <<lease, issued, client, served, hlock, made, up, bound, queue, pressed, deaths>>
    PROVE  ProviderInv'
<1> DEFINE d == After(th[t], th[t].next)
<1>1. th[t] \in ThreadData /\ ThreadOK(t, th[t]) /\ Writer \in R!Threads
  BY WriterIsThread DEF ProviderInv, ProviderData, ThreadsOK
<1>2. th[t].next \in ThreadPlaces \cup {"again"} /\ th[t].next \in Nexts
  BY <1>1 DEF ThreadData, ThreadPlaces, Nexts
<1>3. /\ d \in ThreadData /\ d.at \in {"idle", "release", "replace", "close"}
      /\ d.at = "idle" => d = R!Idle
      /\ d.at = "release" => t # Writer /\ d.next = "close" /\ d.h = 0
      /\ d.at = "close" => t # Writer /\ d.next = "close" /\ d.h = th[t].h
      /\ d.at = "replace" => t = Writer /\ d.next = "replace" /\ d.h = th[t].h /\ d.token = th[t].token
  <2>1. th[t].next \in {"idle", "again", "close", "replace"}
    BY <1>2 DEF Nexts
  <2>2. th[t].next \in {"again", "close"} => t # Writer
    BY <1>1 DEF ThreadOK
  <2>3. th[t].next = "replace" => t = Writer
    BY <1>1 DEF ThreadOK
  <2>4. d \in ThreadData /\ d.at = IF th[t].next = "again" THEN "release" ELSE th[t].next
    BY <1>1, <1>2, AfterIs
  <2>5. CASE th[t].next = "idle"
    BY <1>1, <1>2, <2>4, <2>5, AfterIs
  <2>6. CASE th[t].next = "again"
    BY <1>1, <1>2, <2>2, <2>4, <2>6, AfterIs
  <2>7. CASE th[t].next = "close"
    BY <1>1, <1>2, <2>2, <2>4, <2>7, AfterIs
  <2>8. CASE th[t].next = "replace"
    BY <1>1, <1>2, <2>3, <2>4, <2>8, AfterIs
  <2> QED  BY <2>1, <2>5, <2>6, <2>7, <2>8
<1>4. th' = [th EXCEPT ![t] = d]
  BY DEF R!Goes, After
<1> HIDE DEF d
<1>5. ThreadOK(t, d)
  <2>1. made \in Nat /\ 0 <= made
    BY DevicesAssumption DEF ProviderInv, ProviderData, R!TypeOK, R!ProviderAssumption
  <2>2. d.at = "replace" => d.token # 0
    BY <1>1, <1>2, <1>3, AfterIs DEF ThreadOK, d
  <2>3. d.h <= made
    BY <1>1, <1>3, <2>1, IdleThread DEF ThreadOK
  <2> QED  BY <1>1, <1>3, <2>1, <2>2, <2>3, IdleThread DEF ThreadOK
<1>6. /\ th' \in [R!Threads -> ThreadData] /\ ThreadsOK'
      /\ th'[t] = d /\ \A u \in R!Threads : u # t => th'[u] = th[u]
  BY <1>3, <1>4, <1>5, Moves DEF ProviderInv
<1>7. ProviderData'
  <2>1. used' \in BOOLEAN
    OBVIOUS
  <2>2. crossed' \subseteq R!Helpers
    BY DEF ProviderInv, ProviderData, R!TypeOK
  <2> QED  BY <1>6, <2>1, <2>2 DEF ProviderInv, ProviderData, R!TypeOK
<1>8. QueuesOK' /\ R!NoStrayHelper' /\ HelpersOK'
  BY <1>6, QueuesKept, StrayKept, HelpersKept DEF ProviderInv
<1>9. UnderTheGrant'
  BY <1>1, <1>3, <1>6 DEF ProviderInv, UnderTheGrant, Pressing
<1>10. MarkedOK'
  <2> SUFFICES ASSUME client \in R!Helpers, client \notin crossed'
               PROVE  /\ ~(Pressing' /\ th'[Writer].h = client)
                      /\ \A i \in DOMAIN queue[client] : queue[client][i].what # "press"
                      /\ client \notin pressed
    BY DEF MarkedOK
  <2>1. client \notin crossed /\ ~R!Crossed(client)
    OBVIOUS
  <2>2. \A r \in R!ToSet(queue[client]) : r.what # "press"
    BY <2>1 DEF R!Crossed
  <2>3. ~(th[Writer].at \in {"send", "wait"} /\ th[Writer].h = client)
    BY <2>1 DEF R!Crossed
  <2> QED  BY <1>1, <1>3, <1>6, <2>1, <2>2, <2>3 DEF R!ToSet, Pressing
<1> QED  BY <1>6, <1>7, <1>8, <1>9, <1>10 DEF ProviderInv

LEMMA ReleasedStep == ASSUME ProviderInv, NEW t \in R!Threads, R!Released(t) PROVE ProviderInv'
<1>1. UNCHANGED <<lease, issued, client, served, hlock, made, up, bound, queue, pressed, deaths>>
  BY DEF R!Released, R!leasevars, R!helpervars, R!procvars
<1>2. client \in pressed => client \in crossed
  BY DEF R!Released, ProviderInv, MarkedOK, ProviderData, R!TypeOK
<1> QED  BY <1>1, <1>2, Unmarked DEF R!Released

LEMMA ReleaseStep == ASSUME ProviderInv, NEW t \in R!Threads, R!Release(t) PROVE ProviderInv'
<1>1. UNCHANGED <<lease, issued, client, served, hlock, made, up, bound, queue, pressed, deaths>>
  BY DEF R!Release, R!leasevars, R!helpervars, R!procvars
<1>2. th[t].at = "release" /\ th[t] \in ThreadData /\ ThreadOK(t, th[t]) /\ Writer \in R!Threads
  BY WriterIsThread DEF R!Release, ProviderInv, ProviderData, ThreadsOK
<1>3. CASE ~used /\ R!Goes(t, th[t].next) /\ UNCHANGED <<used, crossed>>
  <2> DEFINE d == After(th[t], th[t].next)
  <2>1. th[t].next \in ThreadPlaces \cup {"again"} /\ th[t].next \in Nexts
    BY <1>2 DEF ThreadData, ThreadPlaces, Nexts
  <2>2. th' = [th EXCEPT ![t] = d]
    BY <1>3 DEF R!Goes, After
  <2>3. d \in ThreadData /\ d.at \in Elsewhere
    BY <1>2, <2>1, AfterIs DEF Elsewhere, Nexts
  <2>4. ThreadOK(t, d)
    <3>1. made \in Nat /\ 0 <= made
      BY DevicesAssumption DEF ProviderInv, ProviderData, R!TypeOK, R!ProviderAssumption
    <3>2. CASE th[t].next = "idle"
      BY <1>2, <2>1, <3>1, <3>2, AfterIs, IdleThread
    <3>3. CASE th[t].next = "again"
      <4>1. d.at = "release" /\ d.h = 0 /\ d.next = "close" /\ t # Writer
        BY <1>2, <2>1, <3>3, AfterIs DEF ThreadOK
      <4> QED  BY <3>1, <4>1 DEF ThreadOK
    <3>4. CASE th[t].next \in {"close", "replace"}
      <4>1. d.at = th[t].next /\ d.h = th[t].h /\ d.next = th[t].next /\ d.token = th[t].token
        BY <1>2, <2>1, <3>4, AfterIs
      <4> QED  BY <1>2, <3>4, <4>1 DEF ThreadOK
    <3> QED  BY <2>1, <3>2, <3>3, <3>4 DEF Nexts
  <2>5. hlock' \in R!Threads \cup {NoThread}
    BY <1>1 DEF ProviderInv, ProviderData, R!TypeOK
  <2> HIDE DEF d
  <2> QED  BY <1>1, <1>2, <1>3, <2>2, <2>3, <2>4, <2>5, MovesElsewhere
<1>4. CASE /\ used /\ client \in {h \in up : bound[h] # 0}
           /\ th' = [th EXCEPT ![t].at = "ask", ![t].h = client] /\ UNCHANGED <<used, crossed>>
  <2> DEFINE d == With(th[t], "ask", client)
  <2>1. th' = [th EXCEPT ![t] = d]
    BY <1>4 DEF With
  <2>2. client \in R!Helpers /\ client \in 0..MaxHelpers /\ client # 0 /\ client <= made
    BY <1>4 DEF ProviderInv, ProviderData, R!TypeOK, R!Helpers
  <2>3. d \in ThreadData /\ d.at = "ask" /\ d.h = client /\ d.token = th[t].token /\ d.next = th[t].next
    <3>1. "ask" \in ThreadPlaces
      BY DEF ThreadPlaces
    <3> QED  BY <1>2, <2>2, <3>1, PlacedWith
  <2> HIDE DEF d
  <2>4. ThreadOK(t, d)
    BY <1>2, <2>2, <2>3 DEF ThreadOK
  <2>5. /\ th' \in [R!Threads -> ThreadData] /\ ThreadsOK'
        /\ th'[t] = d /\ \A u \in R!Threads : u # t => th'[u] = th[u]
    BY <1>1, <2>1, <2>3, <2>4, Moves DEF ProviderInv
  <2>6. ProviderData'
    BY <1>1, <1>4, <2>5 DEF ProviderInv, ProviderData, R!TypeOK
  <2>7. QueuesOK' /\ R!NoStrayHelper' /\ HelpersOK'
    BY <1>1, <1>2, <2>5, QueuesKept, StrayKept, HelpersKept DEF ProviderInv
  <2>8. UnderTheGrant'
    BY <1>1, <1>2, <2>3, <2>5 DEF ProviderInv, UnderTheGrant, Pressing
  <2>9. MarkedOK'
    BY <1>1, <1>2, <1>4, <2>3, <2>5 DEF ProviderInv, MarkedOK, Pressing
  <2> QED  BY <2>5, <2>6, <2>7, <2>8, <2>9 DEF ProviderInv
<1>5. CASE /\ used /\ client \notin {h \in up : bound[h] # 0}
           /\ used' = FALSE /\ R!Goes(t, th[t].next)
           /\ crossed' = crossed \cup {h \in R!Helpers : R!Crossed(h)}
  <2>1. client \notin pressed
    BY <1>5 DEF ProviderInv, HelpersOK, ProviderData, R!TypeOK
  <2> QED  BY <1>1, <1>2, <1>5, <2>1, Unmarked
<1> QED  BY <1>3, <1>4, <1>5 DEF R!Release

LEMMA CloseStep == ASSUME ProviderInv, NEW t \in R!Threads, R!Close(t) PROVE ProviderInv'
<1> DEFINE d == With(th[t], "closing", client)
<1>1. th[t].at = "close" /\ th[t] \in ThreadData /\ ThreadOK(t, th[t]) /\ t # Writer /\ Writer \in R!Threads
  BY WriterIsThread DEF R!Close, ProviderInv, ProviderData, ThreadsOK, ThreadOK
<1>2. client \in 0..MaxHelpers /\ client <= made /\ 0 <= made /\ 0 \in 0..MaxHelpers /\ 0 \in 0..MaxGrants
  BY DevicesAssumption DEF ProviderInv, ProviderData, R!TypeOK, R!ProviderAssumption
<1>3. d \in ThreadData /\ d.at = "closing" /\ d.h = client /\ d.next = th[t].next
  <2>1. "closing" \in ThreadPlaces
    BY DEF ThreadPlaces
  <2> QED  BY <1>1, <1>2, <2>1, PlacedWith
<1>4. th' = [th EXCEPT ![t] = d] /\ client' = 0 /\ served' = 0
  BY DEF R!Close, With
<1>5. UNCHANGED <<lease, issued, hlock, made, up, used, bound, queue, pressed, deaths, crossed>>
  BY DEF R!Close, R!leasevars, R!procvars
<1> HIDE DEF d
<1>6. ThreadOK(t, d)
  BY <1>1, <1>2, <1>3 DEF ThreadOK
<1>7. /\ th' \in [R!Threads -> ThreadData] /\ ThreadsOK'
      /\ th'[t] = d /\ \A u \in R!Threads : u # t => th'[u] = th[u]
  BY <1>3, <1>4, <1>5, <1>6, Moves DEF ProviderInv
<1>8. ProviderData'
  BY <1>2, <1>4, <1>5, <1>7 DEF ProviderInv, ProviderData, R!TypeOK
<1>9. QueuesOK' /\ HelpersOK'
  BY <1>1, <1>5, <1>7, QueuesKept, HelpersKept DEF ProviderInv
<1>10. R!NoStrayHelper'
  BY <1>1, <1>3, <1>4, <1>5, <1>7 DEF ProviderInv, R!NoStrayHelper
<1>11. client' \notin R!Helpers
  BY <1>4 DEF R!Helpers
<1>12. MarkedOK'
  BY <1>11 DEF MarkedOK, R!Helpers
<1>13. UnderTheGrant'
  <2>1. th'[Writer] = th[Writer] /\ ThreadOK(Writer, th[Writer])
    BY <1>1, <1>7 DEF ProviderInv, ThreadsOK
  <2> QED  BY <1>4, <1>11, <2>1 DEF UnderTheGrant, Pressing, ThreadOK, R!Helpers
<1> QED  BY <1>7, <1>8, <1>9, <1>10, <1>12, <1>13 DEF ProviderInv

LEMMA ClosingStep == ASSUME ProviderInv, NEW t \in R!Threads, R!Closing(t) PROVE ProviderInv'
<1>1. th[t].at = "closing" /\ Writer \in R!Threads /\ ThreadOK(t, th[t]) /\ t # Writer
  BY WriterIsThread DEF R!Closing, ProviderInv, ThreadsOK, ThreadOK
<1>2. th' = [th EXCEPT ![t] = R!Idle]
  BY DEF R!Closing, R!Ends
<1>3. /\ up' = up \ {th[t].h} /\ pressed' = pressed \ {th[t].h}
      /\ queue' = [h \in R!Helpers |-> IF h = th[t].h THEN <<>> ELSE queue[h]]
      /\ UNCHANGED <<lease, issued, client, served, hlock, made, used, bound, deaths, crossed>>
  BY DEF R!Closing, R!leasevars
<1>4. made \in Nat /\ ThreadOK(t, R!Idle) /\ R!Idle \in ThreadData /\ R!Idle.at = "idle"
  BY DevicesAssumption, IdleThread DEF ProviderInv, ProviderData, R!TypeOK, R!ProviderAssumption
<1>5. /\ th' \in [R!Threads -> ThreadData] /\ ThreadsOK'
      /\ th'[t] = R!Idle /\ \A u \in R!Threads : u # t => th'[u] = th[u]
  BY <1>2, <1>3, <1>4, Moves DEF ProviderInv
<1>6. queue' \in [R!Helpers -> Seq(Requests)] /\ \A h \in R!Helpers : queue'[h] \in {queue[h], <<>>}
  BY <1>3, EmptySeq DEF ProviderInv, ProviderData
<1>7. ProviderData'
  BY <1>3, <1>5, <1>6 DEF ProviderInv, ProviderData, R!TypeOK
<1>8. HelpersOK'
  BY <1>3 DEF ProviderInv, HelpersOK
<1>9. QueuesOK'
  <2> SUFFICES ASSUME NEW h \in R!Helpers, NEW i \in DOMAIN queue'[h] PROVE ForWaiting(h, i)'
    BY DEF QueuesOK
  <2>1. queue'[h] = queue[h]
    BY <1>6
  <2>2. queue[h][i] \in Requests /\ ForWaiting(h, i)
    BY <2>1 DEF ProviderInv, ProviderData, QueuesOK
  <2>3. queue[h][i].live => queue[h][i].by # t
    BY <1>1, <2>2 DEF ForWaiting
  <2> QED  BY <1>5, <2>1, <2>2, <2>3 DEF ForWaiting, Requests
<1>10. UnderTheGrant'
  <2>1. th'[Writer] = th[Writer]
    BY <1>1, <1>5
  <2> QED  BY <1>3, <1>6, <2>1 DEF ProviderInv, UnderTheGrant, Pressing
<1>11. MarkedOK'
  <2>1. th'[Writer] = th[Writer]
    BY <1>1, <1>5
  <2> QED  BY <1>3, <1>4, <1>5, <1>6, <2>1 DEF ProviderInv, MarkedOK, Pressing
<1>12. R!NoStrayHelper'
  BY <1>3, <1>5 DEF ProviderInv, R!NoStrayHelper
<1> QED  BY <1>5, <1>7, <1>8, <1>9, <1>10, <1>11, <1>12 DEF ProviderInv

LEMMA LetsGoStep == ASSUME ProviderInv, NEW h \in R!Helpers, R!LetsGo(h) PROVE ProviderInv'
<1>1. /\ pressed' = pressed \ {h}
      /\ UNCHANGED <<lease, issued, client, served, hlock, made, up, used, bound, queue, deaths, th, crossed>>
  BY DEF R!LetsGo, R!leasevars, R!helpervars
<1>2. ProviderData'
  BY <1>1 DEF ProviderInv, ProviderData, R!TypeOK
<1>3. ThreadsOK' /\ QueuesOK' /\ R!NoStrayHelper' /\ UnderTheGrant'
  BY <1>1 DEF ProviderInv, ThreadsOK, ThreadOK, QueuesOK, ForWaiting, R!NoStrayHelper, UnderTheGrant, Pressing
<1>4. HelpersOK'
  BY <1>1 DEF ProviderInv, HelpersOK
<1>5. MarkedOK'
  BY <1>1 DEF ProviderInv, MarkedOK, Pressing
<1> QED  BY <1>2, <1>3, <1>4, <1>5 DEF ProviderInv

(* A queue with a request more, and one with a request less.               *)
AskedBy(t, h, r) ==
    /\ th[t].at \notin {"wait", "await"} /\ r.by = t
    /\ th'[t].h = h /\ th'[t].at = (IF r.what = "press" THEN "wait" ELSE "await")
    /\ \A u \in R!Threads : u # t => th'[u] = th[u]
    /\ queue' = [queue EXCEPT ![h] = Append(@, r)]

LEMMA Asked ==
    ASSUME ProviderInv, NEW t \in R!Threads, NEW h \in R!Helpers, NEW r \in Requests, AskedBy(t, h, r)
    PROVE  /\ queue' \in [R!Helpers -> Seq(Requests)] /\ QueuesOK'
           /\ \A g \in R!Helpers : \A i \in DOMAIN queue'[g] : queue'[g][i] = r \/ (i \in DOMAIN queue[g] /\ queue'[g][i] = queue[g][i])
           /\ \A g \in R!Helpers : g # h => queue'[g] = queue[g]
<1> USE DEF AskedBy
<1> DEFINE s == queue[h]
           n == Len(s) + 1
<1>1. queue \in [R!Helpers -> Seq(Requests)] /\ s \in Seq(Requests)
  BY DEF ProviderInv, ProviderData
<1>2. /\ Append(s, r) \in Seq(Requests) /\ Len(Append(s, r)) = n /\ Append(s, r)[n] = r
      /\ \A i \in 1..Len(s) : Append(s, r)[i] = s[i]
      /\ Len(s) \in Nat /\ DOMAIN s = 1..Len(s) /\ DOMAIN Append(s, r) = 1..n
  BY <1>1, AppendProperties, LenProperties
<1>3. /\ queue' \in [R!Helpers -> Seq(Requests)] /\ queue'[h] = Append(s, r)
      /\ \A g \in R!Helpers : g # h => queue'[g] = queue[g]
  BY <1>1, <1>2
<1> HIDE DEF s, n
<1>4. \A i \in DOMAIN queue'[h] : i = n \/ (i \in DOMAIN s /\ queue'[h][i] = s[i])
  BY <1>2, <1>3 DEF n
<1>5. QueuesOK'
  <2> SUFFICES ASSUME NEW g \in R!Helpers, NEW i \in DOMAIN queue'[g] PROVE ForWaiting(g, i)'
    BY DEF QueuesOK
  <2>1. \A j \in DOMAIN queue[g] : queue[g][j] \in Requests /\ ForWaiting(g, j)
    BY DEF ProviderInv, ProviderData, QueuesOK
  <2>2. \A j \in DOMAIN queue[g] : queue[g][j].live => queue[g][j].by # t /\ queue[g][j].by \in R!Threads
    BY <2>1 DEF ForWaiting, Requests
  <2>3. CASE g # h
    BY <1>3, <2>1, <2>2, <2>3 DEF ForWaiting
  <2>4. CASE g = h /\ i # n
    <3>1. i \in DOMAIN s /\ queue'[g][i] = queue[g][i]
      BY <1>4, <2>4 DEF s
    <3>2. \A j \in DOMAIN queue'[g] : j # n => j \in DOMAIN queue[g] /\ queue'[g][j] = queue[g][j]
      BY <1>4, <2>4 DEF s
    <3>3. queue'[g][n].by = t
      BY <1>2, <1>3, <2>4
    <3>4. i \in DOMAIN queue[g]
      BY <2>4, <3>1 DEF s
    <3> QED  BY <2>1, <2>2, <3>1, <3>2, <3>3, <3>4 DEF ForWaiting
  <2>5. CASE g = h /\ i = n
    <3>1. queue'[g][i] = r
      BY <1>2, <1>3, <2>5
    <3>2. \A j \in DOMAIN queue'[g] : j # n => j \in DOMAIN queue[g] /\ queue'[g][j] = queue[g][j]
      BY <1>4, <2>5 DEF s
    <3> QED  BY <2>2, <2>5, <3>1, <3>2 DEF ForWaiting
  <2> QED  BY <2>3, <2>4, <2>5
<1>6. ASSUME NEW g \in R!Helpers, NEW i \in DOMAIN queue'[g]
      PROVE  queue'[g][i] = r \/ (i \in DOMAIN queue[g] /\ queue'[g][i] = queue[g][i])
  <2>1. CASE g = h
    BY <1>2, <1>3, <1>4, <2>1 DEF s
  <2>2. CASE g # h
    BY <1>3, <2>2
  <2> QED  BY <2>1, <2>2
<1> QED  BY <1>3, <1>5, <1>6

LEMMA Removed ==
    ASSUME NEW s \in Seq(Requests), NEW k \in DOMAIN s
    PROVE  /\ R!RemoveAt(s, k) \in Seq(Requests)
           /\ \A i \in DOMAIN R!RemoveAt(s, k) :
                 \E j \in DOMAIN s \ {k} : /\ R!RemoveAt(s, k)[i] = s[j]
                                           /\ j = IF i < k THEN i ELSE i + 1
<1>1. Len(s) \in Nat /\ DOMAIN s = 1..Len(s) /\ k \in 1..Len(s) /\ \A i \in 1..Len(s) : s[i] \in Requests
  BY LenProperties, ElementOfSeq
<1> DEFINE a == SubSeq(s, 1, k - 1)
           b == SubSeq(s, k + 1, Len(s))
<1>2. /\ a \in Seq(Requests) /\ Len(a) = k - 1 /\ \A i \in 1..k - 1 : a[i] = s[i]
  <2>1. 1 \in Int /\ k - 1 \in Int /\ \A i \in 1..(k - 1) : s[i] \in Requests
    BY <1>1
  <2> QED  BY <1>1, <2>1, SubSeqProperties
<1>3. /\ b \in Seq(Requests) /\ Len(b) = Len(s) - k /\ \A i \in 1..Len(s) - k : b[i] = s[k + i]
  <2>1. k + 1 \in Int /\ Len(s) \in Int /\ \A i \in (k + 1)..Len(s) : s[i] \in Requests
    BY <1>1
  <2>2. /\ b \in Seq(Requests)
        /\ Len(b) = IF k + 1 <= Len(s) THEN Len(s) - (k + 1) + 1 ELSE 0
        /\ \A i \in 1..(Len(s) - (k + 1) + 1) : b[i] = s[(k + 1) + i - 1]
    BY <2>1, SubSeqProperties
  <2> HIDE DEF b
  <2>3. Len(s) - (k + 1) + 1 = Len(s) - k /\ \A i \in 1..Len(s) - k : (k + 1) + i - 1 = k + i
    BY <1>1
  <2>4. Len(b) = Len(s) - k
    BY <1>1, <2>2
  <2>5. \A i \in 1..Len(s) - k : b[i] = s[k + i]
    BY <1>1, <2>2, <2>3
  <2> QED  BY <2>2, <2>4, <2>5
<1> HIDE DEF a, b
<1>4. /\ a \o b \in Seq(Requests) /\ Len(a \o b) = Len(s) - 1 /\ DOMAIN (a \o b) = 1..Len(s) - 1
      /\ \A i \in 1..Len(s) - 1 : (a \o b)[i] = IF i <= k - 1 THEN a[i] ELSE b[i - (k - 1)]
  <2>1. /\ a \o b \in Seq(Requests) /\ Len(a \o b) = Len(a) + Len(b)
        /\ \A i \in 1..Len(a) + Len(b) : (a \o b)[i] = IF i <= Len(a) THEN a[i] ELSE b[i - Len(a)]
    BY <1>2, <1>3, ConcatProperties
  <2>2. Len(a) + Len(b) = Len(s) - 1
    BY <1>1, <1>2, <1>3
  <2>3. DOMAIN (a \o b) = 1..Len(a \o b)
    BY <2>1, LenProperties
  <2> QED  BY <1>2, <2>1, <2>2, <2>3
<1>5. R!RemoveAt(s, k) = a \o b
  BY DEF R!RemoveAt, a, b
<1>6. ASSUME NEW i \in 1..Len(s) - 1
      PROVE  LET j == IF i < k THEN i ELSE i + 1 IN j \in 1..Len(s) /\ j # k /\ (a \o b)[i] = s[j]
  <2>1. CASE i < k
    <3>1. i <= k - 1 /\ i \in 1..k - 1 /\ i \in 1..Len(s)
      BY <1>1, <2>1
    <3> QED  BY <1>2, <1>4, <2>1, <3>1
  <2>2. CASE ~(i < k)
    <3>1. ~(i <= k - 1) /\ i - (k - 1) \in 1..Len(s) - k /\ k + (i - (k - 1)) = i + 1 /\ i + 1 \in 1..Len(s) /\ i + 1 # k
      BY <1>1, <2>2
    <3>2. b[i - (k - 1)] = s[i + 1]
      BY <1>3, <3>1
    <3> QED  BY <1>4, <2>2, <3>1, <3>2
  <2> QED  BY <2>1, <2>2
<1> QED  BY <1>1, <1>4, <1>5, <1>6

(* Whoever stops waiting has no request any more that is not given up: the *)
(* queues have shrunk, or a request in them was given up.                  *)
Lessened(from, movers) ==
    \A g \in R!Helpers :
        /\ \A i, j \in DOMAIN queue'[g] : from[g][i] = from[g][j] => i = j
        /\ \A i \in DOMAIN queue'[g] :
              LET r == queue'[g][i]
                  q == queue[g][from[g][i]]
              IN  /\ from[g][i] \in DOMAIN queue[g] /\ r.by = q.by /\ r.what = q.what /\ r.grant = q.grant
                  /\ r.live => q.live /\ q.by \notin movers

LEMMA Shrunk ==
    ASSUME ProviderData, QueuesOK, NEW movers, \A u \in R!Threads : u \notin movers => th'[u] = th[u],
           NEW from, Lessened(from, movers)
    PROVE  QueuesOK'
<1> SUFFICES ASSUME NEW g \in R!Helpers, NEW i \in DOMAIN queue'[g], queue'[g][i].live PROVE ForWaiting(g, i)'
  BY DEF QueuesOK, ForWaiting
<1> DEFINE q == queue[g]
           f == from[g]
<1>1. \A j \in DOMAIN q : q[j] \in Requests /\ ForWaiting(g, j)
  BY DEF ProviderData, QueuesOK
<1>2. \A j \in DOMAIN queue'[g] :
         /\ f[j] \in DOMAIN q /\ queue'[g][j].by = q[f[j]].by /\ queue'[g][j].what = q[f[j]].what
         /\ queue'[g][j].live => q[f[j]].live /\ q[f[j]].by \notin movers
  BY DEF Lessened
<1>3. q[f[i]].by \in R!Threads /\ th'[q[f[i]].by] = th[q[f[i]].by]
  BY <1>1, <1>2 DEF Requests
<1>4. ASSUME NEW j \in DOMAIN queue'[g], queue'[g][j].live, queue'[g][j].by = queue'[g][i].by PROVE j = i
  <2>1. f[j] \in DOMAIN q /\ q[f[j]].live /\ q[f[j]].by = q[f[i]].by /\ f[i] \in DOMAIN q /\ q[f[i]].live
    BY <1>2, <1>4
  <2>2. f[j] = f[i]
    BY <1>1, <2>1 DEF ForWaiting
  <2> QED  BY <2>2 DEF Lessened
<1> QED  BY <1>1, <1>2, <1>3, <1>4 DEF ForWaiting

(* Nor do the queues that shrink ask for more than before.                 *)
LEMMA AskedForLess ==
    ASSUME ProviderInv, NEW movers, NEW from, Lessened(from, movers), NEW g \in R!Helpers, NEW i \in DOMAIN queue'[g]
    PROVE  \E j \in DOMAIN queue[g] : queue'[g][i].what = queue[g][j].what /\ queue'[g][i].grant = queue[g][j].grant
BY DEF Lessened


(* A request that fails unwinds a write and ends a release.                *)
LEMMA FailedIs ==
    ASSUME ProviderInv, NEW t \in R!Threads, th[t].at \in {"send", "wait", "ask", "await"}, R!Failed(t)
    PROVE  \E d \in ThreadData :
              /\ ThreadOK(t, d) /\ th' = [th EXCEPT ![t] = d]
              /\ th[t].at \in {"send", "wait"} => t = Writer /\ d.at = "release"
              /\ th[t].at \in {"ask", "await"} => d.at = "released"
<1>1. th[t] \in ThreadData /\ ThreadOK(t, th[t])
  BY DEF ProviderInv, ProviderData, ThreadsOK
<1>2. CASE th[t].at \in {"send", "wait"}
  <2> DEFINE d == Then(th[t], "release", "idle")
  <2>1. t = Writer
    BY <1>1, <1>2 DEF ThreadOK
  <2>2. th' = [th EXCEPT ![t] = d]
    BY <1>2, <2>1 DEF R!Failed, Then
  <2>3. d \in ThreadData /\ d.at = "release" /\ d.h = th[t].h /\ d.token = th[t].token /\ d.next = "idle"
    <3>1. "release" \in ThreadPlaces /\ "idle" \in Nexts
      BY DEF ThreadPlaces, Nexts
    <3> QED  BY <1>1, <3>1, PlacedThen
  <2> HIDE DEF d
  <2>4. ThreadOK(t, d)
    BY <1>1, <2>1, <2>3 DEF ThreadOK
  <2> QED  BY <1>2, <2>1, <2>2, <2>3, <2>4
<1>3. CASE th[t].at \in {"ask", "await"}
  <2> DEFINE d == After(th[t], "released")
  <2>1. th' = [th EXCEPT ![t] = d]
    BY <1>3 DEF R!Failed, R!Goes, After
  <2>2. d \in ThreadData /\ d.at = "released" /\ d.h = th[t].h /\ d.token = th[t].token /\ d.next = th[t].next
    <3>1. "released" \in ThreadPlaces
      BY DEF ThreadPlaces
    <3> QED  BY <1>1, <3>1, AfterIs
  <2> HIDE DEF d
  <2>3. ThreadOK(t, d)
    BY <1>1, <2>2 DEF ThreadOK
  <2> QED  BY <1>3, <2>1, <2>2, <2>3
<1> QED  BY <1>2, <1>3

LEMMA AskStep == ASSUME ProviderInv, NEW t \in R!Threads, R!Ask(t) PROVE ProviderInv'
<1> DEFINE h == th[t].h
           what == IF t = Writer /\ th[t].at = "send" THEN "press" ELSE "release"
           started == IF bound[h] = 0 THEN lease ELSE bound[h]
           r == [by |-> t, what |-> what, grant |-> th[t].token, live |-> TRUE]
<1>1. /\ th[t].at \in {"send", "ask"} /\ th[t] \in ThreadData /\ ThreadOK(t, th[t]) /\ Writer \in R!Threads
      /\ h \in R!Helpers
  <2>1. th[t].at \in {"send", "ask"} /\ th[t] \in ThreadData /\ ThreadOK(t, th[t]) /\ Writer \in R!Threads
    BY WriterIsThread DEF R!Ask, ProviderInv, ProviderData, ThreadsOK
  <2>2. th[t].h \in 0..MaxHelpers /\ th[t].h # 0
    BY <2>1 DEF ThreadData, ThreadOK
  <2> QED  BY <2>1, <2>2, DevicesAssumption DEF R!Helpers, R!ProviderAssumption
<1>2. UNCHANGED <<lease, issued, client, served, hlock, made, up, used, pressed, deaths, crossed>>
  BY DEF R!Ask, R!leasevars, R!helpervars
<1>3. CASE /\ h \notin up \/ started = 0
           /\ R!Failed(t) /\ UNCHANGED <<bound, queue>>
  <2>1. PICK d \in ThreadData :
           /\ ThreadOK(t, d) /\ th' = [th EXCEPT ![t] = d]
           /\ th[t].at \in {"send", "wait"} => t = Writer /\ d.at = "release"
           /\ th[t].at \in {"ask", "await"} => d.at = "released"
    BY <1>1, <1>3, FailedIs
  <2>2. h \notin pressed
    BY <1>1, <1>3 DEF ProviderInv, HelpersOK
  <2>3. /\ th' \in [R!Threads -> ThreadData] /\ ThreadsOK'
        /\ th'[t] = d /\ \A u \in R!Threads : u # t => th'[u] = th[u]
    BY <1>2, <2>1, Moves DEF ProviderInv
  <2>4. ProviderData'
    BY <1>2, <1>3, <2>3 DEF ProviderInv, ProviderData, R!TypeOK
  <2>5. QueuesOK' /\ R!NoStrayHelper' /\ HelpersOK'
    BY <1>1, <1>2, <1>3, <2>3, QueuesKept, StrayKept, HelpersKept DEF ProviderInv
  <2>6. UnderTheGrant'
    BY <1>1, <1>2, <1>3, <2>1, <2>3 DEF ProviderInv, UnderTheGrant, Pressing
  <2>7. MarkedOK'
    BY <1>1, <1>2, <1>3, <2>1, <2>2, <2>3 DEF ProviderInv, MarkedOK, Pressing
  <2> QED  BY <2>3, <2>4, <2>5, <2>6, <2>7 DEF ProviderInv
<1>4. CASE /\ h \in up /\ started # 0
           /\ bound' = [bound EXCEPT ![h] = started]
           /\ queue' = [queue EXCEPT ![h] = Append(@, r)]
           /\ R!Goes(t, IF th[t].at = "send" THEN "wait" ELSE "await")
  <2> DEFINE d == After(th[t], IF th[t].at = "send" THEN "wait" ELSE "await")
  <2>1. th' = [th EXCEPT ![t] = d]
    BY <1>4 DEF R!Goes, After
  <2>2. /\ d \in ThreadData /\ d.at = (IF th[t].at = "send" THEN "wait" ELSE "await")
        /\ d.h = h /\ d.token = th[t].token /\ d.next = th[t].next
    <3>1. "wait" \in ThreadPlaces /\ "await" \in ThreadPlaces
      BY DEF ThreadPlaces
    <3> QED  BY <1>1, <3>1, AfterIs
  <2> HIDE DEF d
  <2>3. ThreadOK(t, d)
    BY <1>1, <2>2 DEF ThreadOK
  <2>4. r \in Requests /\ r.by = t /\ r.what = what /\ r.grant = th[t].token
    BY <1>1 DEF Requests, ThreadData
  <2>5. what = (IF th[t].at = "send" THEN "press" ELSE "release") /\ (th[t].at = "send" => t = Writer)
    BY <1>1 DEF ThreadOK
  <2> HIDE DEF r, what
  <2>6. /\ th' \in [R!Threads -> ThreadData] /\ ThreadsOK'
        /\ th'[t] = d /\ \A u \in R!Threads : u # t => th'[u] = th[u]
    BY <1>2, <2>1, <2>2, <2>3, Moves DEF ProviderInv
  <2>7. d.at = (IF r.what = "press" THEN "wait" ELSE "await") /\ th[t].at \notin {"wait", "await"} /\ d.h = h
    BY <1>1, <2>2, <2>4, <2>5
  <2>8. /\ queue' \in [R!Helpers -> Seq(Requests)] /\ QueuesOK'
        /\ \A g \in R!Helpers : \A i \in DOMAIN queue'[g] : queue'[g][i] = r \/ (i \in DOMAIN queue[g] /\ queue'[g][i] = queue[g][i])
        /\ \A g \in R!Helpers : g # h => queue'[g] = queue[g]
    <3>1. queue' = [queue EXCEPT ![h] = Append(@, r)] /\ r \in Requests /\ r.by = t /\ h \in R!Helpers
      BY <1>1, <1>4, <2>4
    <3>2. /\ th[t].at \notin {"wait", "await"} /\ \A u \in R!Threads : u # t => th'[u] = th[u]
          /\ th'[t].h = h /\ th'[t].at = (IF r.what = "press" THEN "wait" ELSE "await")
      BY <2>6, <2>7
    <3> HIDE DEF h
    <3>3. AskedBy(t, h, r)
      BY <3>1, <3>2 DEF AskedBy
    <3> QED  BY <3>1, <3>3, Asked
  <2>9. started \in 0..MaxGrants
    BY <1>1 DEF ProviderInv, ProviderData, R!TypeOK
  <2>10. bound' \in [R!Helpers -> 0..MaxGrants] /\ bound'[h] # 0 /\ \A g \in R!Helpers : g # h => bound'[g] = bound[g]
    BY <1>1, <1>4, <2>9 DEF ProviderInv, ProviderData, R!TypeOK
  <2> HIDE DEF started
  <2>11. ProviderData'
    BY <1>2, <2>6, <2>8, <2>10 DEF ProviderInv, ProviderData, R!TypeOK
  <2>12. HelpersOK'
    <3>1. h <= made
      BY <1>1 DEF ThreadOK
    <3>2. h \in Nat /\ made \in Nat
      BY <1>1, DevicesAssumption DEF ProviderInv, ProviderData, R!TypeOK, R!Helpers, R!ProviderAssumption
    <3>3. ~(h > made)
      BY <3>1, <3>2
    <3> QED  BY <1>2, <1>4, <2>8, <2>10, <3>3 DEF ProviderInv, HelpersOK
  <2>13. R!NoStrayHelper'
    BY <1>1, <1>2, <2>6, StrayKept DEF ProviderInv
  <2>14. Pressing' /\ th'[Writer].h = client => Pressing /\ th[Writer].h = client /\ th'[Writer].token = th[Writer].token
    BY <1>1, <2>2, <2>6 DEF Pressing
  <2>15. ASSUME client \in R!Helpers, NEW i \in DOMAIN queue'[client], queue'[client][i].what = "press",
                ~(i \in DOMAIN queue[client] /\ queue'[client][i] = queue[client][i])
         PROVE  queue'[client][i] = r /\ h = client /\ Pressing /\ th[Writer].h = client /\ r.grant = th[Writer].token
    <3>1. queue'[client][i] = r
      BY <2>8, <2>15
    <3>2. th[t].at = "send" /\ t = Writer
      BY <1>1, <2>4, <2>5, <2>15, <3>1
    <3>3. h = client
      BY <2>8, <2>15
    <3> QED  BY <2>4, <3>1, <3>2, <3>3 DEF Pressing
  <2>16. UnderTheGrant'
    <3>1. th'[Writer].at = "mark" => th'[Writer] = th[Writer]
      BY <1>1, <2>2, <2>6
    <3>2. th'[Writer].at = "mark" \/ Pressing' => (th'[Writer].h = client => th'[Writer].token = served)
      BY <2>14, <3>1 DEF ProviderInv, UnderTheGrant
    <3>3. ASSUME client \in R!Helpers, NEW i \in DOMAIN queue'[client], queue'[client][i].what = "press"
          PROVE  queue'[client][i].grant = served
      BY <2>15, <3>3 DEF ProviderInv, UnderTheGrant
    <3> QED  BY <1>2, <3>2, <3>3 DEF UnderTheGrant
  <2>17. MarkedOK'
    <3> SUFFICES ASSUME client \in R!Helpers, client \notin crossed
                 PROVE  /\ used \/ ~(Pressing' /\ th'[Writer].h = client)
                        /\ \A i \in DOMAIN queue'[client] : queue'[client][i].what = "press" => used
                        /\ client \in pressed => /\ used
                                                 /\ \A u \in R!Threads : /\ th'[u].at # "released"
                                                                         /\ th'[u].at \in {"ask", "await"} => th'[u].h = client
      BY <1>2 DEF MarkedOK
    <3>1. used \/ ~(Pressing' /\ th'[Writer].h = client)
      BY <2>14 DEF ProviderInv, MarkedOK
    <3>2. ASSUME NEW i \in DOMAIN queue'[client], queue'[client][i].what = "press" PROVE used
      BY <2>15, <3>2 DEF ProviderInv, MarkedOK
    <3>3. ASSUME client \in pressed, NEW u \in R!Threads
          PROVE  used /\ th'[u].at # "released" /\ (th'[u].at \in {"ask", "await"} => th'[u].h = client)
      BY <1>1, <2>2, <2>6, <3>3 DEF ProviderInv, MarkedOK
    <3> QED  BY <3>1, <3>2, <3>3 DEF ProviderInv, MarkedOK
  <2> QED  BY <2>6, <2>8, <2>11, <2>12, <2>13, <2>16, <2>17 DEF ProviderInv
<1> QED  BY <1>3, <1>4 DEF R!Ask


LEMMA TimesOutStep == ASSUME ProviderInv, NEW t \in R!Threads, R!TimesOut(t) PROVE ProviderInv'
<1> DEFINE h == th[t].h
           mine == {i \in DOMAIN queue[h] : queue[h][i].live /\ queue[h][i].by = t}
<1>1. /\ th[t].at \in {"wait", "await"} /\ th[t] \in ThreadData /\ ThreadOK(t, th[t]) /\ Writer \in R!Threads
      /\ h \in R!Helpers
  <2>1. th[t].at \in {"wait", "await"} /\ th[t] \in ThreadData /\ ThreadOK(t, th[t]) /\ Writer \in R!Threads
    BY WriterIsThread DEF R!TimesOut, ProviderInv, ProviderData, ThreadsOK
  <2>2. th[t].h \in 0..MaxHelpers /\ th[t].h # 0
    BY <2>1 DEF ThreadData, ThreadOK
  <2> QED  BY <2>1, <2>2, DevicesAssumption DEF R!Helpers, R!ProviderAssumption
<1>2. UNCHANGED <<lease, issued, client, served, hlock, made, up, used, bound, pressed, deaths>>
  BY DEF R!TimesOut, R!leasevars, R!helpervars
<1>3. crossed' = IF th[t].at = "await" THEN crossed \cup {h} ELSE crossed
  BY DEF R!TimesOut
<1>4. PICK d \in ThreadData :
         /\ ThreadOK(t, d) /\ th' = [th EXCEPT ![t] = d]
         /\ th[t].at \in {"send", "wait"} => t = Writer /\ d.at = "release"
         /\ th[t].at \in {"ask", "await"} => d.at = "released"
  BY <1>1, FailedIs DEF R!TimesOut
<1>5. /\ th' \in [R!Threads -> ThreadData] /\ ThreadsOK'
      /\ th'[t] = d /\ \A u \in R!Threads : u # t => th'[u] = th[u]
  BY <1>2, <1>4, Moves DEF ProviderInv
<1>6. \A g \in R!Helpers : /\ queue[g] \in Seq(Requests)
                           /\ \A i \in DOMAIN queue[g] : queue[g][i] \in Requests /\ ForWaiting(g, i)
  BY DEF ProviderInv, ProviderData, QueuesOK
<1>7. ASSUME NEW g \in R!Helpers, NEW i \in DOMAIN queue[g], queue[g][i].live, queue[g][i].by = t
      PROVE  g = h /\ i \in mine /\ \A j \in mine : j = i
  BY <1>6, <1>7 DEF ForWaiting
<1>8. queue' \in [R!Helpers -> Seq(Requests)] /\ \E from : Lessened(from, {t})
  <2>1. CASE mine = {} /\ UNCHANGED queue
    <3> DEFINE from == [g \in R!Helpers |-> [i \in DOMAIN queue[g] |-> i]]
    <3>1. Lessened(from, {t})
      BY <1>7, <2>1 DEF Lessened
    <3> QED  BY <2>1, <3>1 DEF ProviderInv, ProviderData
  <2>2. CASE \E i \in mine : queue' = [queue EXCEPT ![h] = R!RemoveAt(@, i)]
    <3>1. PICK k \in mine : queue' = [queue EXCEPT ![h] = R!RemoveAt(@, k)]
      BY <2>2
    <3> DEFINE s == queue[h]
               from == [g \in R!Helpers |-> [i \in DOMAIN queue'[g] |-> IF g # h \/ i < k THEN i ELSE i + 1]]
    <3>2. s \in Seq(Requests) /\ k \in DOMAIN s /\ DOMAIN s = 1..Len(s) /\ Len(s) \in Nat
      BY <1>1, <1>6, <3>1, LenProperties
    <3>8. \A j \in DOMAIN s : s[j].live /\ s[j].by = t => j = k
      BY <1>1, <1>7, <3>1
    <3>3. /\ R!RemoveAt(s, k) \in Seq(Requests)
          /\ \A i \in DOMAIN R!RemoveAt(s, k) :
                \E j \in DOMAIN s \ {k} : /\ R!RemoveAt(s, k)[i] = s[j]
                                          /\ j = IF i < k THEN i ELSE i + 1
      BY <3>2, Removed
    <3>4. /\ queue' \in [R!Helpers -> Seq(Requests)] /\ queue'[h] = R!RemoveAt(s, k)
          /\ \A g \in R!Helpers : g # h => queue'[g] = queue[g]
      BY <1>1, <3>1, <3>3 DEF ProviderInv, ProviderData
    <3>5. \A i \in DOMAIN queue'[h] : i \in Nat
      <4>1. queue'[h] \in Seq(Requests)
        BY <1>1, <3>4
      <4>2. DOMAIN queue'[h] = 1..Len(queue'[h])
        BY <4>1, LenProperties
      <4> QED  BY <4>2
    <3>6. ASSUME NEW g \in R!Helpers
          PROVE  /\ \A i, j \in DOMAIN queue'[g] : from[g][i] = from[g][j] => i = j
                 /\ \A i \in DOMAIN queue'[g] :
                       LET r == queue'[g][i]
                           q == queue[g][from[g][i]]
                       IN  /\ from[g][i] \in DOMAIN queue[g] /\ r.by = q.by /\ r.what = q.what /\ r.grant = q.grant
                           /\ r.live => q.live /\ q.by \notin {t}
      <4>1. CASE g # h
        BY <1>7, <3>4, <4>1
      <4>2. CASE g = h
        <5>1. \A i \in DOMAIN queue'[g] : from[g][i] = IF i < k THEN i ELSE i + 1
          BY <4>2
        <5>2. \A i \in DOMAIN queue'[g] : from[g][i] \in DOMAIN s \ {k} /\ queue'[g][i] = s[from[g][i]]
          BY <3>3, <3>4, <4>2, <5>1
        <5>3. \A i, j \in DOMAIN queue'[g] : from[g][i] = from[g][j] => i = j
          BY <3>2, <3>5, <4>2, <5>1
        <5>4. ASSUME NEW i \in DOMAIN queue'[g], s[from[g][i]].live PROVE s[from[g][i]].by # t
          <6>1. from[g][i] \in DOMAIN s /\ from[g][i] # k
            BY <5>2
          <6> HIDE DEF from
          <6> QED  BY <3>8, <5>4, <6>1
        <5> HIDE DEF from
        <5> QED  BY <4>2, <5>2, <5>3, <5>4
      <4> QED  BY <4>1, <4>2
    <3>7. Lessened(from, {t})
      BY <3>6 DEF Lessened
    <3> QED  BY <3>4, <3>7
  <2>3. CASE \E i \in mine : queue' = [queue EXCEPT ![h][i].live = FALSE]
    <3>1. PICK k \in mine : queue' = [queue EXCEPT ![h][k].live = FALSE]
      BY <2>3
    <3> DEFINE s == queue[h]
               e == [s[k] EXCEPT !.live = FALSE]
               z == [s EXCEPT ![k] = e]
               from == [g \in R!Helpers |-> [i \in DOMAIN queue'[g] |-> i]]
    <3>2. s \in Seq(Requests) /\ k \in DOMAIN s /\ s[k] \in Requests
      BY <1>1, <1>6, <3>1
    <3>9. \A j \in DOMAIN s : s[j].live /\ s[j].by = t => j = k
      BY <1>1, <1>7, <3>1
    <3>3. e \in Requests /\ e.by = s[k].by /\ e.what = s[k].what /\ e.grant = s[k].grant /\ ~e.live
      BY <3>2 DEF Requests
    <3>4. queue' = [queue EXCEPT ![h] = z]
      BY <3>1
    <3> HIDE DEF e
    <3>5. z \in Seq(Requests) /\ DOMAIN z = DOMAIN s /\ z[k] = e /\ \A i \in DOMAIN s : i # k => z[i] = s[i]
      BY <3>2, <3>3, ExceptSeq
    <3> HIDE DEF z
    <3>6. /\ queue' \in [R!Helpers -> Seq(Requests)] /\ queue'[h] = z
          /\ \A g \in R!Helpers : g # h => queue'[g] = queue[g]
      BY <1>1, <3>4, <3>5 DEF ProviderInv, ProviderData
    <3>7. ASSUME NEW g \in R!Helpers
          PROVE  /\ \A i, j \in DOMAIN queue'[g] : from[g][i] = from[g][j] => i = j
                 /\ \A i \in DOMAIN queue'[g] :
                       LET r == queue'[g][i]
                           q == queue[g][from[g][i]]
                       IN  /\ from[g][i] \in DOMAIN queue[g] /\ r.by = q.by /\ r.what = q.what /\ r.grant = q.grant
                           /\ r.live => q.live /\ q.by \notin {t}
      <4>1. CASE g # h
        BY <1>7, <3>6, <4>1
      <4>2. CASE g = h
        <5>1. \A i \in DOMAIN queue'[g] : from[g][i] = i /\ i \in DOMAIN s
          BY <3>5, <3>6, <4>2
        <5>2. ASSUME NEW i \in DOMAIN queue'[g], queue'[g][i].live PROVE s[i].live /\ s[i].by # t /\ i # k
          <6>1. i # k /\ i \in DOMAIN s /\ s[i].live
            BY <3>3, <3>5, <3>6, <4>2, <5>1, <5>2
          <6> QED  BY <3>9, <6>1
        <5>3. \A i \in DOMAIN queue'[g] : /\ queue'[g][i].by = s[i].by /\ queue'[g][i].what = s[i].what
                                          /\ queue'[g][i].grant = s[i].grant
          BY <3>3, <3>5, <3>6, <4>2
        <5> HIDE DEF from
        <5> QED  BY <4>2, <5>1, <5>2, <5>3
      <4> QED  BY <4>1, <4>2
    <3>8. Lessened(from, {t})
      BY <3>7 DEF Lessened
    <3> QED  BY <3>6, <3>8
  <2> QED  BY <2>1, <2>2, <2>3 DEF R!TimesOut
<1>9. PICK from : Lessened(from, {t})
  BY <1>8
<1>10. QueuesOK'
  <2>1. \A u \in R!Threads : u \notin {t} => th'[u] = th[u]
    BY <1>5
  <2> QED  BY <1>9, <2>1, Shrunk DEF ProviderInv
<1>11. ProviderData'
  <2>1. crossed' \subseteq R!Helpers
    BY <1>1, <1>3 DEF ProviderInv, ProviderData, R!TypeOK
  <2> QED  BY <1>2, <1>5, <1>8, <2>1 DEF ProviderInv, ProviderData, R!TypeOK
<1>12. HelpersOK'
  <2> SUFFICES ASSUME NEW g \in R!Helpers, queue[g] = <<>> PROVE queue'[g] = <<>>
    BY <1>2 DEF ProviderInv, HelpersOK
  <2>1. \A i \in DOMAIN queue'[g] : FALSE
    BY <1>9, AskedForLess
  <2>2. queue'[g] \in Seq(Requests)
    BY <1>8
  <2>3. Len(queue'[g]) \in Nat /\ DOMAIN queue'[g] = 1..Len(queue'[g])
    BY <2>2, LenProperties
  <2>4. Len(queue'[g]) = 0
    <3>1. Len(queue'[g]) # 0 => 1 \in DOMAIN queue'[g]
      BY <2>3
    <3> QED  BY <2>1, <3>1
  <2> QED  BY <2>2, <2>4, EmptySeq
<1>13. R!NoStrayHelper'
  BY <1>1, <1>2, <1>5, StrayKept DEF ProviderInv
<1>14. UnderTheGrant'
  BY <1>1, <1>2, <1>4, <1>5, <1>9, AskedForLess DEF ProviderInv, UnderTheGrant, Pressing
<1>15. MarkedOK'
  BY <1>1, <1>2, <1>3, <1>4, <1>5, <1>9, AskedForLess DEF ProviderInv, MarkedOK, Pressing
<1> QED  BY <1>5, <1>8, <1>10, <1>11, <1>12, <1>13, <1>14, <1>15 DEF ProviderInv


(* What the helper makes of its oldest request.                            *)
LEMMA Answered ==
    ASSUME ProviderInv, NEW h \in R!Helpers, R!Handle(h)
    PROVE  /\ queue[h] # <<>> /\ 1 \in DOMAIN queue[h] /\ Head(queue[h]) = queue[h][1]
           /\ queue[h][1] \in Requests /\ ForWaiting(h, 1)
           /\ h \in up /\ bound[h] # 0
           /\ queue' \in [R!Helpers -> Seq(Requests)]
           /\ \A g \in R!Helpers : g # h => queue'[g] = queue[g]
           /\ \A i \in DOMAIN queue'[h] : i \in Nat /\ i + 1 \in DOMAIN queue[h] /\ i + 1 # 1 /\ queue'[h][i] = queue[h][i + 1]
           /\ queue'[h] \in Seq(Requests)
<1> DEFINE s == queue[h]
<1>1. s \in Seq(Requests) /\ s # <<>> /\ queue' = [queue EXCEPT ![h] = Tail(@)]
  BY DEF R!Handle, ProviderInv, ProviderData
<1>2. Len(s) \in Nat /\ DOMAIN s = 1..Len(s) /\ Len(s) # 0
  BY <1>1, LenProperties, EmptySeq
<1>3. /\ Head(s) \in Requests /\ Tail(s) \in Seq(Requests)
      /\ Len(Tail(s)) = Len(s) - 1 /\ \A i \in 1..Len(Tail(s)) : Tail(s)[i] = s[i + 1]
  BY <1>1, HeadTailProperties
<1>4. Head(s) = s[1]
  BY <1>1
<1>5. DOMAIN Tail(s) = 1..Len(Tail(s))
  BY <1>3, LenProperties
<1>6. /\ queue' \in [R!Helpers -> Seq(Requests)] /\ queue'[h] = Tail(s)
      /\ \A g \in R!Helpers : g # h => queue'[g] = queue[g]
  BY <1>1, <1>3 DEF ProviderInv, ProviderData
<1>7. 1 \in DOMAIN s
  BY <1>2
<1>8. \A i \in 1..Len(s) - 1 : i \in Nat /\ i + 1 \in 1..Len(s) /\ i + 1 # 1
  BY <1>2
<1>9. h \in up /\ bound[h] # 0
  BY <1>1 DEF ProviderInv, HelpersOK
<1> QED  BY <1>1, <1>2, <1>3, <1>4, <1>5, <1>6, <1>7, <1>8, <1>9 DEF ProviderInv, QueuesOK

LEMMA WokenIs ==
    ASSUME ProviderInv, NEW h \in R!Helpers, R!Handle(h), queue[h][1].live
    PROVE  LET r == queue[h][1]
               t == r.by
           IN  /\ t \in R!Threads /\ th[t].h = h /\ th[t].at = (IF r.what = "press" THEN "wait" ELSE "await")
               /\ th' \in [R!Threads -> ThreadData] /\ ThreadsOK'
               /\ \A u \in R!Threads : u # t => th'[u] = th[u]
               /\ r.what = "press" => t = Writer /\ th'[t].at \in {"idle", "release"}
               /\ r.what # "press" => th'[t].at = "released"
<1> DEFINE r == queue[h][1]
           t == r.by
           ok == r.what = "release" \/ (r.grant = bound[h] /\ bound[h] = lease)
<1>1. r \in Requests /\ ForWaiting(h, 1) /\ Head(queue[h]) = r
  BY Answered
<1>2. t \in R!Threads /\ th[t].h = h /\ th[t].at = (IF r.what = "press" THEN "wait" ELSE "await")
      /\ r.what \in {"press", "release"}
  BY <1>1 DEF ForWaiting, Requests
<1>3. R!Wakes(r, ok)
  BY <1>1 DEF R!Handle
<1>4. th[t] \in ThreadData /\ ThreadOK(t, th[t]) /\ made' = made /\ made \in Nat
  BY <1>2, DevicesAssumption
     DEF R!Handle, R!helpervars, ProviderInv, ProviderData, ThreadsOK, R!TypeOK, R!ProviderAssumption
<1> HIDE DEF r, ok
<1>5. \E d \in ThreadData :
         /\ ThreadOK(t, d) /\ th' = [th EXCEPT ![t] = d]
         /\ r.what = "press" => t = Writer /\ d.at \in {"idle", "release"}
         /\ r.what # "press" => d.at = "released"
  <2>1. CASE r.what # "press"
    <3> DEFINE d == After(th[t], "released")
    <3>1. th' = [th EXCEPT ![t] = d]
      BY <1>2, <1>3, <2>1 DEF R!Wakes, R!Goes, After, r
    <3>2. d \in ThreadData /\ d.at = "released" /\ d.h = th[t].h /\ d.token = th[t].token /\ d.next = th[t].next
      <4>1. "released" \in ThreadPlaces
        BY DEF ThreadPlaces
      <4> QED  BY <1>4, <4>1, AfterIs
    <3> HIDE DEF d
    <3>3. ThreadOK(t, d)
      BY <1>2, <1>4, <2>1, <3>2 DEF ThreadOK
    <3> QED  BY <2>1, <3>1, <3>2, <3>3
  <2>2. CASE r.what = "press"
    <3>1. th[t].at = "wait" /\ t = Writer
      BY <1>2, <1>4, <2>2 DEF ThreadOK
    <3>2. CASE ok
      <4>1. th' = [th EXCEPT ![t] = R!Idle]
        BY <1>3, <3>1, <3>2 DEF R!Wakes, R!Ends, r
      <4> QED  BY <1>4, <2>2, <3>1, <4>1, IdleThread
    <3>3. CASE ~ok
      <4>1. R!Failed(t)
        BY <1>3, <3>1, <3>3 DEF R!Wakes, r
      <4> QED  BY <1>2, <2>2, <3>1, <4>1, FailedIs
    <3> QED  BY <3>2, <3>3
  <2> QED  BY <2>1, <2>2
<1>6. PICK d \in ThreadData :
         /\ ThreadOK(t, d) /\ th' = [th EXCEPT ![t] = d]
         /\ r.what = "press" => t = Writer /\ d.at \in {"idle", "release"}
         /\ r.what # "press" => d.at = "released"
  BY <1>5
<1>7. /\ th' \in [R!Threads -> ThreadData] /\ ThreadsOK'
      /\ th'[t] = d /\ \A u \in R!Threads : u # t => th'[u] = th[u]
  BY <1>2, <1>4, <1>6, Moves DEF ProviderInv
<1> QED  BY <1>2, <1>6, <1>7 DEF r

LEMMA HandleStep == ASSUME ProviderInv, NEW h \in R!Helpers, R!Handle(h) PROVE ProviderInv'
<1> DEFINE r == queue[h][1]
           t == r.by
           ok == r.what = "release" \/ (r.grant = bound[h] /\ bound[h] = lease)
           woken == IF r.live THEN {t} ELSE {}
<1>1. /\ queue[h] # <<>> /\ 1 \in DOMAIN queue[h] /\ Head(queue[h]) = r
      /\ r \in Requests /\ ForWaiting(h, 1)
      /\ h \in up /\ bound[h] # 0
  BY Answered
<1>2. /\ queue' \in [R!Helpers -> Seq(Requests)]
      /\ \A g \in R!Helpers : g # h => queue'[g] = queue[g]
      /\ \A i \in DOMAIN queue'[h] : i \in Nat /\ i + 1 \in DOMAIN queue[h] /\ i + 1 # 1 /\ queue'[h][i] = queue[h][i + 1]
      /\ queue'[h] \in Seq(Requests)
  BY Answered
<1>3. UNCHANGED <<lease, issued, client, served, hlock, made, up, used, bound, deaths>>
  BY DEF R!Handle, R!leasevars, R!helpervars
<1>4. /\ pressed' = IF r.what = "press" /\ ok THEN pressed \cup {h}
                    ELSE IF r.what = "release" THEN pressed \ {h} ELSE pressed
      /\ crossed' = IF r.what = "press" /\ \E u \in R!Threads : th[u].at \in {"ask", "await", "released"}
                    THEN crossed \cup {h} ELSE crossed
      /\ R!Wakes(r, ok)
  BY <1>1 DEF R!Handle
<1>5. /\ th' \in [R!Threads -> ThreadData] /\ ThreadsOK' /\ Writer \in R!Threads
      /\ \A u \in R!Threads : u \notin woken => th'[u] = th[u]
      /\ \A u \in woken : /\ u \in R!Threads /\ th[u].h = h
                          /\ th[u].at = (IF r.what = "press" THEN "wait" ELSE "await")
                          /\ r.what = "press" => u = Writer /\ th'[u].at \in {"idle", "release"}
                          /\ r.what # "press" => th'[u].at = "released"
  <2>1. CASE r.live
    BY <2>1, WokenIs, WriterIsThread
  <2>2. CASE ~r.live
    <3>1. UNCHANGED th
      BY <1>4, <2>2 DEF R!Wakes
    <3> QED  BY <1>3, <2>2, <3>1, WriterIsThread DEF ProviderInv, ProviderData, ThreadsOK, ThreadOK
  <2> QED  BY <2>1, <2>2
<1>6. ASSUME NEW g \in R!Helpers, NEW i \in DOMAIN queue[g], queue[g][i].live, g # h \/ i # 1
      PROVE  queue[g][i].by \notin woken
  <2>1. ForWaiting(g, i)
    BY DEF ProviderInv, QueuesOK
  <2> QED  BY <1>1, <1>5, <1>6, <2>1 DEF ForWaiting
<1> HIDE DEF woken
<1>7. \E from : Lessened(from, woken)
  <2> DEFINE from == [g \in R!Helpers |-> [i \in DOMAIN queue'[g] |-> IF g = h THEN i + 1 ELSE i]]
  <2>1. ASSUME NEW g \in R!Helpers
        PROVE  /\ \A i, j \in DOMAIN queue'[g] : from[g][i] = from[g][j] => i = j
               /\ \A i \in DOMAIN queue'[g] :
                     LET x == queue'[g][i]
                         q == queue[g][from[g][i]]
                     IN  /\ from[g][i] \in DOMAIN queue[g] /\ x.by = q.by /\ x.what = q.what /\ x.grant = q.grant
                         /\ x.live => q.live /\ q.by \notin woken
    <3>1. CASE g # h
      BY <1>2, <1>6, <3>1
    <3>2. CASE g = h
      <4>1. \A i \in DOMAIN queue'[g] : from[g][i] = i + 1 /\ i \in Nat
        BY <1>2, <3>2
      <4>2. \A i \in DOMAIN queue'[g] : i + 1 \in DOMAIN queue[g] /\ i + 1 # 1 /\ queue'[g][i] = queue[g][i + 1]
        BY <1>2, <3>2
      <4> HIDE DEF from
      <4>3. \A i, j \in DOMAIN queue'[g] : from[g][i] = from[g][j] => i = j
        BY <4>1
      <4> QED  BY <1>6, <4>1, <4>2, <4>3
    <3> QED  BY <3>1, <3>2
  <2>2. Lessened(from, woken)
    BY <2>1 DEF Lessened
  <2> QED  BY <2>2
<1>8. PICK from : Lessened(from, woken)
  BY <1>7
<1>9. QueuesOK'
  BY <1>5, <1>8, Shrunk DEF ProviderInv
<1>10. r.what \in {"press", "release"}
  BY <1>1 DEF Requests
<1> HIDE DEF r, ok
<1>11. ProviderData'
  <2>1. pressed' \subseteq R!Helpers /\ crossed' \subseteq R!Helpers
    BY <1>4 DEF ProviderInv, ProviderData, R!TypeOK
  <2> QED  BY <1>2, <1>3, <1>5, <2>1 DEF ProviderInv, ProviderData, R!TypeOK
<1>12. HelpersOK'
  BY <1>1, <1>2, <1>3, <1>4 DEF ProviderInv, HelpersOK
<1>13. R!NoStrayHelper'
  BY <1>3, <1>5 DEF ProviderInv, R!NoStrayHelper
<1>14. UnderTheGrant'
  <2>1. th'[Writer].at = "mark" \/ Pressing' => th'[Writer] = th[Writer]
    BY <1>5, <1>10 DEF Pressing
  <2> QED  BY <1>3, <1>8, <2>1, AskedForLess DEF ProviderInv, UnderTheGrant, Pressing
<1>15. MarkedOK'
  <2> SUFFICES ASSUME client \in R!Helpers, client \notin crossed'
               PROVE  /\ used \/ ~(Pressing' /\ th'[Writer].h = client)
                      /\ \A i \in DOMAIN queue'[client] : queue'[client][i].what = "press" => used
                      /\ client \in pressed' => /\ used
                                                /\ \A u \in R!Threads : /\ th'[u].at # "released"
                                                                        /\ th'[u].at \in {"ask", "await"} => th'[u].h = client
    BY <1>3 DEF MarkedOK
  <2>1. client \notin crossed
    BY <1>4
  <2>2. used \/ ~(Pressing' /\ th'[Writer].h = client)
    <3>1. Pressing' => th'[Writer] = th[Writer]
      BY <1>5, <1>10 DEF Pressing
    <3> QED  BY <2>1, <3>1 DEF ProviderInv, MarkedOK, Pressing
  <2>3. ASSUME NEW i \in DOMAIN queue'[client], queue'[client][i].what = "press" PROVE used
    BY <1>8, <2>1, <2>3, AskedForLess DEF ProviderInv, MarkedOK
  <2>4. ASSUME client \in pressed', NEW u \in R!Threads
        PROVE  used /\ th'[u].at # "released" /\ (th'[u].at \in {"ask", "await"} => th'[u].h = client)
    <3>1. CASE client \in pressed
      <4>1. /\ used
            /\ \A v \in R!Threads : th[v].at # "released" /\ (th[v].at \in {"ask", "await"} => th[v].h = client)
        BY <2>1, <3>1 DEF ProviderInv, MarkedOK
      <4>2. CASE u \in woken /\ r.what # "press"
        <5>1. r.what = "release" /\ th[u].at = "await" /\ th[u].h = h
          BY <1>5, <1>10, <4>2
        <5>2. h = client /\ client \notin pressed'
          BY <1>4, <4>1, <5>1
        <5> QED  BY <2>4, <5>2
      <4>3. CASE u \in woken /\ r.what = "press"
        BY <1>5, <4>1, <4>3
      <4>4. CASE u \notin woken
        BY <1>5, <4>1, <4>4
      <4> QED  BY <4>2, <4>3, <4>4
    <3>2. CASE client \notin pressed
      <4>1. client = h /\ r.what = "press"
        BY <1>4, <2>4, <3>2
      <4>2. \A v \in R!Threads : th[v].at \notin {"ask", "await", "released"}
        BY <1>4, <4>1
      <4>3. used
        BY <1>1, <2>1, <4>1 DEF ProviderInv, MarkedOK, r
      <4>4. CASE u \in woken
        BY <1>5, <4>1, <4>3, <4>4
      <4>5. CASE u \notin woken
        BY <1>5, <4>2, <4>3, <4>5
      <4> QED  BY <4>4, <4>5
    <3> QED  BY <3>1, <3>2
  <2> QED  BY <1>5, <2>2, <2>3, <2>4
<1> QED  BY <1>2, <1>5, <1>9, <1>11, <1>12, <1>13, <1>14, <1>15 DEF ProviderInv

LEMMA DieStep == ASSUME ProviderInv, NEW h \in R!Helpers, R!Die(h) PROVE ProviderInv'
<1> DEFINE told == {t \in R!Threads : th[t].at \in {"wait", "await"} /\ th[t].h = h}
<1>1. /\ pressed' = pressed \ {h} /\ queue' = [queue EXCEPT ![h] = <<>>] /\ bound' = [bound EXCEPT ![h] = 0]
      /\ deaths < MaxDeaths /\ deaths' = deaths + 1
      /\ UNCHANGED <<lease, issued, client, served, hlock, made, up, used, crossed>>
  BY DEF R!Die, R!leasevars, R!helpervars
<1>2. th' = [t \in R!Threads |->
                IF th[t].at = "await" /\ th[t].h = h THEN [th[t] EXCEPT !.at = "released"]
                ELSE IF th[t].at = "wait" /\ th[t].h = h THEN [th[t] EXCEPT !.at = "release", !.next = "idle"]
                ELSE th[t]]
  BY DEF R!Die
<1>3. ASSUME NEW t \in R!Threads
      PROVE  /\ th'[t] \in ThreadData /\ ThreadOK(t, th'[t])
             /\ t \notin told => th'[t] = th[t]
             /\ t \in told => th'[t].at = IF th[t].at = "await" THEN "released" ELSE "release"
  <2>1. th[t] \in ThreadData /\ ThreadOK(t, th[t])
    BY DEF ProviderInv, ProviderData, ThreadsOK
  <2>2. CASE th[t].at = "await" /\ th[t].h = h
    <3> DEFINE d == After(th[t], "released")
    <3>1. th'[t] = d
      BY <1>2, <2>2 DEF After
    <3>2. d \in ThreadData /\ d.at = "released" /\ d.h = th[t].h /\ d.token = th[t].token /\ d.next = th[t].next
      <4>1. "released" \in ThreadPlaces
        BY DEF ThreadPlaces
      <4> QED  BY <2>1, <4>1, AfterIs
    <3> HIDE DEF d
    <3>3. ThreadOK(t, d)
      BY <2>1, <2>2, <3>2 DEF ThreadOK
    <3> QED  BY <2>2, <3>1, <3>2, <3>3
  <2>3. CASE th[t].at = "wait" /\ th[t].h = h
    <3> DEFINE d == Then(th[t], "release", "idle")
    <3>1. th'[t] = d
      BY <1>2, <2>3 DEF Then
    <3>2. d \in ThreadData /\ d.at = "release" /\ d.h = th[t].h /\ d.token = th[t].token /\ d.next = "idle"
      <4>1. "release" \in ThreadPlaces /\ "idle" \in Nexts
        BY DEF ThreadPlaces, Nexts
      <4> QED  BY <2>1, <4>1, PlacedThen
    <3> HIDE DEF d
    <3>3. ThreadOK(t, d)
      BY <2>1, <2>3, <3>2 DEF ThreadOK
    <3> QED  BY <2>3, <3>1, <3>2, <3>3
  <2>4. CASE t \notin told
    <3>1. th'[t] = th[t]
      BY <1>2, <2>4
    <3> QED  BY <2>1, <2>4, <3>1
  <2> QED  BY <2>2, <2>3, <2>4
<1>4. th' \in [R!Threads -> ThreadData] /\ Writer \in R!Threads
  <2>1. DOMAIN th' = R!Threads /\ th' = [t \in R!Threads |-> th'[t]]
    BY <1>2
  <2> QED  BY <1>3, <2>1, WriterIsThread
<1> HIDE DEF told
<1>5. ThreadsOK'
  BY <1>1, <1>3 DEF ThreadsOK, ThreadOK
<1>6. /\ queue' \in [R!Helpers -> Seq(Requests)] /\ queue'[h] = <<>>
      /\ \A g \in R!Helpers : g # h => queue'[g] = queue[g]
  BY <1>1, EmptySeq DEF ProviderInv, ProviderData
<1>7. ProviderData'
  <2>1. deaths' \in 0..MaxDeaths
    BY <1>1, DevicesAssumption DEF ProviderInv, ProviderData, R!TypeOK, R!ProviderAssumption
  <2>2. bound' \in [R!Helpers -> 0..MaxGrants]
    BY <1>1, DevicesAssumption DEF ProviderInv, ProviderData, R!TypeOK, R!ProviderAssumption
  <2> QED  BY <1>1, <1>4, <1>6, <2>1, <2>2 DEF ProviderInv, ProviderData, R!TypeOK
<1>8. HelpersOK'
  <2>1. bound'[h] = 0 /\ \A g \in R!Helpers : g # h => bound'[g] = bound[g]
    BY <1>1 DEF ProviderInv, ProviderData, R!TypeOK
  <2> QED  BY <1>1, <1>6, <2>1 DEF ProviderInv, HelpersOK
<1>9. QueuesOK'
  <2> SUFFICES ASSUME NEW g \in R!Helpers, NEW i \in DOMAIN queue'[g] PROVE ForWaiting(g, i)'
    BY DEF QueuesOK
  <2>1. g # h /\ queue'[g] = queue[g]
    BY <1>6
  <2>2. queue[g][i] \in Requests /\ ForWaiting(g, i)
    BY <2>1 DEF ProviderInv, ProviderData, QueuesOK
  <2>3. queue[g][i].live => queue[g][i].by \in R!Threads /\ queue[g][i].by \notin told
    BY <2>1, <2>2 DEF ForWaiting, Requests, told
  <2> QED  BY <1>3, <2>1, <2>2, <2>3 DEF ForWaiting
<1>10. \A t \in told : th[t].at \in {"wait", "await"} /\ th[t].h = h
  BY DEF told
<1>11. R!NoStrayHelper'
  BY <1>1, <1>3, <1>10 DEF ProviderInv, R!NoStrayHelper
<1>12. th'[Writer].at \in {"mark", "send", "wait"} => th'[Writer] = th[Writer]
  BY <1>3, <1>4
<1>13. UnderTheGrant'
  BY <1>1, <1>6, <1>12 DEF ProviderInv, UnderTheGrant, Pressing
<1>14. MarkedOK'
  BY <1>1, <1>3, <1>6, <1>10, <1>12 DEF ProviderInv, MarkedOK, Pressing
<1> QED  BY <1>4, <1>5, <1>6, <1>7, <1>8, <1>9, <1>11, <1>13, <1>14 DEF ProviderInv

LEMMA ProviderStep == ASSUME ProviderInv, R!Next PROVE ProviderInv'
BY LeaseSteps, WriteStep, StartStep, FindStep, ReplaceStep, MarkStep, AskStep, ReleaseStep, ReleasedStep, CloseStep,
   ClosingStep, TimesOutStep, HandleStep, LetsGoStep, DieStep DEF R!Next, R!Step

(* Only a press that the helper handles puts a key down.                   *)
LEMMA PressedHow ==
    ASSUME ProviderInv, R!Next, NEW h \in R!Helpers, h \in pressed' \ pressed
    PROVE  bound[h] = lease /\ (h = client => served = lease)
<1>1. R!Handle(h)
  <2>1. ASSUME NEW g \in R!Helpers, R!Handle(g) PROVE g = h
    BY <2>1 DEF R!Handle
  <2>2. ASSUME NEW t \in R!Threads, R!Step(t) \/ R!TimesOut(t) PROVE pressed' \subseteq pressed
    BY <2>2 DEF R!Step, R!TimesOut, R!FindHelper, R!Replace, R!Mark, R!Ask, R!Release, R!Released, R!Close,
       R!Closing, R!procvars
  <2>3. ASSUME NEW t \in Others, R!SessionEnds(t) \/ R!Lock(t) PROVE pressed' \subseteq pressed
    BY <2>3 DEF R!SessionEnds, R!Lock, R!procvars
  <2>4. ASSUME NEW g \in R!Helpers, R!LetsGo(g) \/ R!Die(g) PROVE pressed' \subseteq pressed
    BY <2>4 DEF R!LetsGo, R!Die
  <2>5. ASSUME R!GrantElsewhere \/ R!GrantEnds \/ R!Write PROVE pressed' \subseteq pressed
    BY <2>5 DEF R!GrantElsewhere, R!GrantEnds, R!Write, R!procvars
  <2> QED  BY <2>1, <2>2, <2>3, <2>4, <2>5 DEF R!Next
<1> DEFINE r == Head(queue[h])
<1>2. r.what = "press" /\ (r.what = "release" \/ (r.grant = bound[h] /\ bound[h] = lease))
  BY <1>1 DEF R!Handle
<1>3. r = queue[h][1] /\ 1 \in DOMAIN queue[h]
  BY <1>1, Answered
<1>4. h = client => r.grant = served
  BY <1>2, <1>3 DEF ProviderInv, UnderTheGrant
<1> QED  BY <1>2, <1>4
-----------------------------------------------------------------------------
(* The four parts together.                                                *)
DevicesInv == DeviceInv /\ PointerInv /\ ProviderInv

LEMMA DevicesStart == DevicesInit => DevicesInv
BY DeviceInit, PointerInit, ProviderInit DEF DevicesInit, DevicesInv

LEMMA DevicesStep == DevicesInv /\ [DevicesNext]_<<part, vars, nvars, pvars, rvars>> => DevicesInv'
<1> SUFFICES ASSUME DevicesInv, [DevicesNext]_<<part, vars, nvars, pvars, rvars>> PROVE DevicesInv'
  OBVIOUS
<1> USE DEF DevicesInv
<1>1. DeviceInv'
  BY DeviceStep, DeviceStutter DEF DevicesNext
<1>2. PointerInv'
  BY PointerStep, PointerStutter DEF DevicesNext
<1>3. ProviderInv'
  BY ProviderStep, ProviderStutter DEF DevicesNext
<1> QED  BY <1>1, <1>2, <1>3

LEMMA DevicesInvariant == DevicesSpec => []DevicesInv
<1>1. DevicesSpec => DevicesInit /\ [][DevicesNext]_<<part, vars, nvars, pvars, rvars>>
  BY PTL DEF DevicesSpec
<1> QED  BY <1>1, DevicesStart, DevicesStep, PTL

(* Between the moves, what each backend of the pointer noted is where the  *)
(* cursor is, or it knows that it does not know, unless something else     *)
(* moved the cursor meanwhile.                                             *)
THEOREM NotesStayTrue == DevicesSpec => []NotesAreTrue
<1>1. DevicesInv => NotesAreTrue
  BY DEF DevicesInv, PointerInv, AtRest, OnTheWay, NotesAreTrue, P!NotesAreTrue
<1> QED  BY <1>1, DevicesInvariant, PTL

(* A device says what is down on it, and the provider of the helper would  *)
(* release what is down on its helper, unless a release met the press; no  *)
(* helper that runs is forgotten.                                          *)
THEOREM HoldsStayKnown == DevicesSpec => []HoldsAreKnown
<1>1. DevicesInv => N!HoldsAreKnown /\ R!TypeOK /\ R!NoStrayHelper
  BY DEF DevicesInv, DeviceInv, ProviderInv, ProviderData
<1>2. DevicesInv => R!HeldIsMarked
  BY DEF DevicesInv, ProviderInv, ProviderData, R!TypeOK, MarkedOK, R!HeldIsMarked
<1>3. DevicesInv => HoldsAreKnown
  BY <1>1, <1>2 DEF HoldsAreKnown
<1> QED  BY <1>3, DevicesInvariant, PTL

(* A key goes down on a helper only under the grant that is open, and on   *)
(* the current helper only when it serves that grant.                      *)
THEOREM PressesUnderGrant == DevicesSpec => GrantedPress
<1>1. DevicesInv /\ [DevicesNext]_<<part, vars, nvars, pvars, rvars>>
      => [\A h \in R!Helpers : h \in pressed' \ pressed => bound[h] = lease /\ (h = client => served = lease)]_(R!vars)
  <2> SUFFICES ASSUME DevicesInv, [DevicesNext]_<<part, vars, nvars, pvars, rvars>>,
                      NEW h \in R!Helpers, h \in pressed' \ pressed
               PROVE  bound[h] = lease /\ (h = client => served = lease)
    OBVIOUS
  <2>1. R!Next
    BY DEF DevicesNext, rvars
  <2> QED  BY <2>1, PressedHow DEF DevicesInv
<1>2. DevicesSpec => [][DevicesNext]_<<part, vars, nvars, pvars, rvars>>
  BY PTL DEF DevicesSpec
<1> QED  BY <1>1, <1>2, DevicesInvariant, PTL DEF GrantedPress, R!GrantedPress
=============================================================================
