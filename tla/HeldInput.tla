----------------------------- MODULE HeldInput -----------------------------
(***************************************************************************)
(* What the virtual keyboard and mouse hold down: InputBackend of          *)
(* pcbridge/desktop/input.py.                                              *)
(*                                                                         *)
(* One worker at a time sends input, the execution lock sees to that.  It  *)
(* writes to the device first and notes what it did afterwards, under      *)
(* _lock.  desktop_lock and the ends of sessions call release_all from     *)
(* other threads, and a countdown, started again whenever something is     *)
(* noted, calls it too.  Timers are threads: once its time is up a timer   *)
(* cannot be canceled any more, it waits for _lock and then releases.      *)
(*                                                                         *)
(* A command writes its keys one by one and any of these writes may fail;  *)
(* the command then ends with the error, without noting anything, and      *)
(* release_all passes over a key it cannot lift and forgets it with the    *)
(* others.  stuck remembers what such failures left down.                  *)
(***************************************************************************)
EXTENDS Integers, FiniteSets

CONSTANTS Keys, Buttons,   \* keys of the keyboard, buttons of the pointer
          HoldMax,         \* hold_max_seconds
          MaxTimers,       \* bound: timer threads alive at a time
          MaxStuck         \* bound: what failed writes leave down

ASSUME HeldInputAssumption ==
    /\ Keys \cap Buttons = {}
    /\ HoldMax \in Int
    /\ MaxTimers \in Nat \ {0} /\ MaxStuck \in Nat

VARIABLES down,     \* what the devices report as pressed
          held,     \* _held_keys and _held_buttons
          timer,    \* _timer
          timers,   \* every timer thread
          owner,    \* who is inside release_all and has _lock
          pc,       \* where the worker is
          cmd,      \* the keys or the button of its command
          kept,     \* what key() found held
          stuck     \* history: what writes that failed left down

countdown == <<timer, timers>>
worker == <<pc, cmd, kept>>
vars == <<down, held, countdown, owner, worker, stuck>>

Timers == 1..MaxTimers
NoTimer == 0
Free == 0
Other == MaxTimers + 1        \* any thread that is no timer
Releasers == Timers \cup {Other}

(* Chords of the keyboard, and single buttons.                             *)
Chords == SUBSET Keys \ {{}}
Clicks == {{b} : b \in Buttons}

Init == /\ down = {} /\ held = {}
        /\ timer = NoTimer /\ timers = [i \in Timers |-> "none"]
        /\ owner = Free
        /\ pc = "idle" /\ cmd = {} /\ kept = {} /\ stuck = {}
-----------------------------------------------------------------------------
(* Timer.cancel stops a timer whose time is not up.                        *)
Canceled == [i \in Timers |-> IF i = timer /\ timers[i] = "waiting" THEN "none"
                                                                    ELSE timers[i]]

(* _arm_timer, after _held_keys or _held_buttons has become h; a limit of  *)
(* zero or less means no countdown at all.                                 *)
Arm(h) == IF HoldMax <= 0 \/ h = {} THEN timer' = NoTimer /\ timers' = Canceled
          ELSE \E i \in Timers : /\ Canceled[i] = "none"
                                 /\ timer' = i
                                 /\ timers' = [Canceled EXCEPT ![i] = "waiting"]

(* The writes of a command; the next step of the worker is at where.       *)
Press(K, where) == /\ pc = "idle"
                   /\ down' = down \cup K /\ stuck' = stuck \ K
                   /\ cmd' = K /\ pc' = where
                   /\ UNCHANGED <<held, countdown, owner, kept>>

(* key_down and mouse_down, key, click; key_up and mouse_up.               *)
Hold(K) == Press(K, "track")
Tap(K) == Press(K, "snapshot")
Click(K) == Press(K, "click")
LetGo(K) == /\ pc = "idle"
            /\ down' = down \ K /\ stuck' = stuck \ K
            /\ cmd' = K /\ pc' = "untrack"
            /\ UNCHANGED <<held, countdown, owner, kept>>

(* Faulty variant: the set is changed without taking _lock.                *)
TrackUnlocked == /\ pc = "track"
                 /\ held' = held \cup cmd
                 /\ Arm(held')
                 /\ pc' = "idle"
                 /\ UNCHANGED <<down, owner, cmd, kept, stuck>>

(* Faulty variant: a countdown that runs already is left as it is.         *)
TrackArmedOnce == /\ pc = "track" /\ owner = Free
                  /\ held' = held \cup cmd
                  /\ pc' = "idle"
                  /\ UNCHANGED <<down, countdown, owner, cmd, kept, stuck>>

(* key_down and mouse_down: the second half.                               *)
Track == /\ pc = "track" /\ owner = Free
         /\ held' = held \cup cmd
         /\ Arm(held')
         /\ pc' = "idle"
         /\ UNCHANGED <<down, owner, cmd, kept, stuck>>

(* key_up and mouse_up: the second half.                                   *)
Untrack == /\ pc = "untrack" /\ owner = Free
           /\ held' = held \ cmd
           /\ Arm(held')
           /\ pc' = "idle"
           /\ UNCHANGED <<down, owner, cmd, kept, stuck>>

(* key looks at what is held after it pressed the chord ...                *)
Snapshot == /\ pc = "snapshot" /\ owner = Free
            /\ kept' = held
            /\ pc' = "lift"
            /\ UNCHANGED <<down, held, countdown, owner, cmd, stuck>>

(* Faulty variant: the whole chord goes up.                                *)
LiftAll == /\ pc = "lift"
           /\ down' = down \ cmd /\ stuck' = stuck \ cmd
           /\ pc' = "idle"
           /\ UNCHANGED <<held, countdown, owner, cmd, kept>>

(* ... and lifts the rest of it.                                           *)
Lift == /\ pc = "lift"
        /\ down' = down \ (cmd \ kept) /\ stuck' = stuck \ (cmd \ kept)
        /\ pc' = "idle"
        /\ UNCHANGED <<held, countdown, owner, cmd, kept>>

(* click lifts the button after the hold time, whether it was held or not. *)
ClickUp == /\ pc = "click"
           /\ down' = down \ cmd /\ stuck' = stuck \ cmd
           /\ pc' = "idle"
           /\ UNCHANGED <<held, countdown, owner, cmd, kept>>

(* A write of a command fails: those before it were taken, the command is  *)
(* over and has noted nothing.  What was pressed stays down, and so does   *)
(* what key and click did not come to lift; what key_up did not lift is    *)
(* still noted.                                                            *)
PressFails(K) == /\ pc = "idle"
                 /\ \E S \in SUBSET K : down' = down \cup S /\ stuck' = stuck \cup S
                 /\ Cardinality(stuck') <= MaxStuck
                 /\ UNCHANGED <<held, countdown, owner, worker>>

LetGoFails(K) == /\ pc = "idle"
                 /\ \E S \in SUBSET K : down' = down \ S /\ stuck' = stuck \ S
                 /\ UNCHANGED <<held, countdown, owner, worker>>

LiftFails == LET lifts == (IF pc = "lift" THEN cmd \ kept ELSE cmd) \cap down
             IN  /\ pc \in {"lift", "click"}
                 /\ \E S \in SUBSET lifts :
                        down' = down \ S /\ stuck' = (stuck \cup lifts) \ S
                 /\ Cardinality(stuck') <= MaxStuck
                 /\ pc' = "idle"
                 /\ UNCHANGED <<held, countdown, owner, cmd, kept>>

Begin == \/ \E K \in Chords : Hold(K) \/ Tap(K) \/ LetGo(K)
         \/ \E K \in Clicks : Hold(K) \/ Click(K) \/ LetGo(K)
         \/ \E K \in Chords \cup Clicks : PressFails(K) \/ LetGoFails(K)
Continue == Track \/ Untrack \/ Snapshot \/ Lift \/ ClickUp \/ LiftFails
-----------------------------------------------------------------------------
(* hold_max_seconds are over.                                              *)
TimeUp(i) == /\ timers[i] = "waiting"
             /\ timers' = [timers EXCEPT ![i] = "up"]
             /\ UNCHANGED <<down, held, timer, owner, worker, stuck>>

(* release_all takes _lock, cancels the countdown and lifts what is held,  *)
(* except where the device refuses the write.                              *)
Release(r) == /\ owner = Free
              /\ r \in Timers => timers[r] = "up"
              /\ owner' = r
              /\ timer' = NoTimer /\ timers' = Canceled
              /\ \E S \in SUBSET (held \cap down) :
                     down' = down \ S /\ stuck' = (stuck \cup (held \cap down)) \ S
              /\ Cardinality(stuck') <= MaxStuck
              /\ UNCHANGED <<held, worker>>

(* It forgets what it lifted and gives _lock back.                         *)
ReleaseEnds(r) == /\ owner = r
                  /\ held' = {}
                  /\ owner' = Free
                  /\ timers' = [i \in Timers |-> IF i = r THEN "none" ELSE timers[i]]
                  /\ UNCHANGED <<down, timer, worker, stuck>>

Next == \/ Begin \/ Continue
        \/ \E i \in Timers : TimeUp(i)
        \/ \E r \in Releasers : Release(r) \/ ReleaseEnds(r)

Spec == Init /\ [][Next]_vars

(* Threads are scheduled and time passes; nobody has to begin a command or *)
(* to call release_all from outside.                                       *)
FairSpec == /\ Spec
            /\ WF_vars(Continue)
            /\ \A i \in Timers : WF_vars(TimeUp(i)) /\ WF_vars(Release(i))
            /\ \A r \in Releasers : WF_vars(ReleaseEnds(r))
-----------------------------------------------------------------------------
All == Keys \cup Buttons

(* Types, and _timer is none or a timer thread that is still there.        *)
TypeOK == /\ down \subseteq All /\ held \subseteq All
          /\ timer \in Timers \cup {NoTimer}
          /\ timers \in [Timers -> {"none", "waiting", "up"}]
          /\ timer # NoTimer => timers[timer] # "none"
          /\ owner \in Releasers \cup {Free}
          /\ pc \in {"idle", "track", "untrack", "snapshot", "lift", "click"}
          /\ cmd \subseteq All /\ kept \subseteq All /\ stuck \subseteq All

(* "Everything left pressed is tracked": once a command is over, nothing   *)
(* is down that release_all would not find, although the writes and the    *)
(* sets are changed apart and others release in between.  The exception is *)
(* a write that failed: what it left down is noted nowhere.                *)
NothingDownUntracked == pc = "idle" => down \subseteq held \cup stuck

(* "A key held and never released is released": while something is held    *)
(* the countdown in _timer runs or is about to release; not when           *)
(* hold_max_seconds is switched off.                                       *)
CountdownRuns == HoldMax > 0 /\ owner = Free /\ held # {} => timer # NoTimer

(* "A combination does not release a key that is held": whoever released   *)
(* something meanwhile, key() leaves down what is still tracked.           *)
TapSparesHeld == [][pc = "lift" /\ pc' = "idle" => held \cap down \subseteq down']_vars

(* "A forgotten Ctrl makes the machine unusable": when the worker sends    *)
(* nothing any more, everything comes up that no failed write left down.   *)
ForgottenKeysRise ==
    HoldMax > 0 => (<>[](pc = "idle") => <>[](down \subseteq stuck))

=============================================================================
