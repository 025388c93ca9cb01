---------------------------- MODULE NativeInput ----------------------------
(***************************************************************************)
(* One virtual device of the native helper (platform/linux/input.rs and    *)
(* input/pointer.rs): a keyboard or a pointer, its mutex, the timer thread *)
(* that lets go of what was held too long and sleeps on a condition        *)
(* variable, and close(), which the dispatcher and a watchdog may call.    *)
(* A write to the device may fail at any time; the device is then given    *)
(* up, and the kernel lifts what was down on it.                           *)
(***************************************************************************)
EXTENDS Naturals, FiniteSets

CONSTANTS Codes,        \* keys or buttons
          NoOne

Closers == {"dispatcher", "watchdog"}

NativeInputAssumption == Codes # {} /\ NoOne \notin {"dispatcher"}

VARIABLES
    kind,      \* "keyboard" or "pointer"
    limited,   \* hold_max is not zero
    mutex,     \* who holds it over a sleep
    down,      \* what is down at the device
    held, transient,           \* of State
    deadline, due,             \* is there one, is it over
    closed,
    worker,    \* the timer thread: "look", "wait", "timed", "ended"
    at,        \* the dispatcher's command: "idle", "key", "click", "drag"
    combo,     \* what it presses
    closing,   \* per caller of close(): "no", "join"
    broke      \* history: a write failed and the device was given up

statevars == <<down, held, transient, deadline, due, closed, broke>>
vars == <<kind, limited, mutex, statevars, worker, at, combo, closing>>

Init ==
    /\ kind \in {"keyboard", "pointer"} /\ limited \in BOOLEAN /\ mutex = NoOne
    /\ down = {} /\ held = {} /\ transient = {} /\ deadline = FALSE /\ due = FALSE
    /\ closed = FALSE /\ broke = FALSE
    /\ worker = "look" /\ at = "idle" /\ combo = {} /\ closing = [c \in Closers |-> "no"]

Free == mutex = NoOne
Command == Free /\ at = "idle" /\ closing["dispatcher"] = "no"

(* A keyboard presses a combination, a pointer one button.                 *)
Combos == IF kind = "keyboard" THEN SUBSET Codes \ {{}} ELSE {{b} : b \in Codes}

Notify == worker' = IF worker \in {"wait", "timed"} THEN "look" ELSE worker
-----------------------------------------------------------------------------
(* A command finds the device closed.                                      *)
Refuse == closed /\ at' = "idle" /\ UNCHANGED <<kind, limited, mutex, statevars, worker, combo, closing>>

(* The device is given up; the keyboard does not wake its timer thread.    *)
GiveUp ==
    /\ closed' = TRUE /\ broke' = TRUE
    /\ down' = {} /\ held' = {} /\ transient' = {} /\ deadline' = FALSE /\ due' = FALSE

KeyboardFails ==
    /\ kind = "keyboard" /\ ~closed
    /\ GiveUp /\ mutex' = NoOne /\ at' = "idle"
    /\ UNCHANGED <<kind, limited, worker, combo, closing>>

PointerFails ==
    /\ kind = "pointer" /\ ~closed
    /\ GiveUp /\ Notify /\ mutex' = NoOne /\ at' = "idle"
    /\ UNCHANGED <<kind, limited, combo, closing>>

(* Any write of a command under way, or of one that begins.                *)
WriteFails ==
    /\ \/ Command
       \/ at # "idle" /\ (Free \/ at = "key")
    /\ KeyboardFails \/ PointerFails

(* arm_deadline, after the set of what is held changed.                    *)
Arm ==
    /\ deadline' = (limited /\ held' # {}) /\ due' = FALSE

(* key(): the mutex is held over the pause between the two writes.         *)
KeyPress ==
    /\ Command /\ kind = "keyboard" /\ ~closed
    /\ combo' \in Combos
    /\ down' = down \cup combo' /\ at' = "key" /\ mutex' = "dispatcher"
    /\ UNCHANGED <<kind, limited, held, transient, deadline, due, closed, broke, worker, closing>>

(* Faulty variant: the keys that are held are lifted too.                  *)
KeyLiftAll ==
    /\ at = "key"
    /\ down' = down \ combo /\ at' = "idle" /\ mutex' = NoOne
    /\ UNCHANGED <<kind, limited, held, transient, deadline, due, closed, broke, worker, combo, closing>>

KeyLift ==
    /\ at = "key"
    /\ down' = down \ (combo \ held) /\ at' = "idle" /\ mutex' = NoOne
    /\ UNCHANGED <<kind, limited, held, transient, deadline, due, closed, broke, worker, combo, closing>>

(* Faulty variant: the timer thread is not told.                           *)
DownSilently ==
    /\ Command /\ ~closed
    /\ \E cs \in Combos :
          /\ down' = down \cup cs /\ held' = held \cup cs
          /\ at' \in IF kind = "pointer" THEN {"idle", "drag"} ELSE {"idle"}
          /\ combo' = cs
    /\ Arm
    /\ UNCHANGED <<kind, limited, mutex, transient, closed, broke, worker, closing>>

(* key_down(), mouse_down(), and the latter as the first half of a drag.   *)
Down ==
    /\ Command /\ ~closed
    /\ \E cs \in Combos :
          /\ down' = down \cup cs /\ held' = held \cup cs
          /\ at' \in IF kind = "pointer" THEN {"idle", "drag"} ELSE {"idle"}
          /\ combo' = cs
    /\ Arm /\ Notify
    /\ UNCHANGED <<kind, limited, mutex, transient, closed, broke, closing>>

Up ==
    /\ Command /\ ~closed
    /\ \E cs \in Combos : down' = down \ cs /\ held' = held \ cs /\ combo' = cs
    /\ Arm /\ Notify
    /\ UNCHANGED <<kind, limited, mutex, transient, closed, broke, at, closing>>

(* The second half of a drag; moves in between write nothing that stays.   *)
DragUp ==
    /\ at = "drag" /\ Free
    /\ \/ Refuse
       \/ /\ ~closed /\ at' = "idle"
          /\ down' = down \ combo /\ held' = held \ combo
          /\ Arm /\ Notify
          /\ UNCHANGED <<kind, limited, mutex, transient, closed, broke, combo, closing>>

(* click(): the button is up again in a second critical section.           *)
ClickDown ==
    /\ Command /\ kind = "pointer" /\ ~closed
    /\ combo' \in Combos
    /\ down' = down \cup combo' /\ transient' = transient \cup combo' /\ at' = "click"
    /\ UNCHANGED <<kind, limited, mutex, held, deadline, due, closed, broke, worker, closing>>

ClickUp ==
    /\ at = "click" /\ Free
    /\ \/ Refuse
       \/ /\ ~closed /\ at' = "idle"
          /\ down' = down \ combo /\ transient' = transient \ combo
          /\ UNCHANGED <<kind, limited, mutex, held, deadline, due, closed, broke, worker, combo, closing>>
-----------------------------------------------------------------------------
(* release_locked.                                                         *)
ReleaseLocked ==
    /\ down' = down \ (held \cup transient) /\ held' = {} /\ transient' = {}
    /\ deadline' = FALSE /\ due' = FALSE

(* A device that is closed holds nothing; its timer thread is told anyway. *)
ReleaseAll ==
    /\ Command
    /\ ReleaseLocked /\ Notify
    /\ UNCHANGED <<kind, limited, mutex, closed, broke, at, combo, closing>>

(* timer_loop: end, release, or wait with or without a limit.              *)
TimerEnds ==
    /\ worker = "look" /\ Free /\ closed
    /\ worker' = "ended"
    /\ UNCHANGED <<kind, limited, mutex, statevars, at, combo, closing>>

TimerReleases ==
    /\ worker = "look" /\ Free /\ ~closed /\ deadline /\ due
    /\ \/ ReleaseLocked /\ UNCHANGED <<closed, broke>>
       \/ held \cup transient # {} /\ GiveUp
    /\ UNCHANGED <<kind, limited, mutex, worker, at, combo, closing>>

TimerWaits ==
    /\ worker = "look" /\ Free /\ ~closed /\ ~(deadline /\ due)
    /\ worker' = IF deadline THEN "timed" ELSE "wait"
    /\ UNCHANGED <<kind, limited, mutex, statevars, at, combo, closing>>

TimePasses ==
    /\ deadline /\ ~due /\ due' = TRUE
    /\ UNCHANGED <<kind, limited, mutex, down, held, transient, deadline, closed, broke, worker, at, combo, closing>>

(* The wait was for the deadline of its time, which may have moved or gone.*)
TimerWakes ==
    /\ worker = "timed" /\ Free /\ (deadline => due)
    /\ worker' = "look"
    /\ UNCHANGED <<kind, limited, mutex, statevars, at, combo, closing>>

Timer == TimerEnds \/ TimerReleases \/ TimerWaits \/ TimerWakes
-----------------------------------------------------------------------------
CloseOpen(c) ==
    /\ ~closed
    /\ ReleaseLocked /\ closed' = TRUE
    /\ Notify

(* A device that gave up by itself: only the pointer wakes its thread.     *)
CloseAgain(c) ==
    /\ closed
    /\ IF kind = "pointer" THEN Notify ELSE UNCHANGED worker
    /\ UNCHANGED <<down, held, transient, deadline, due, closed>>

(* close(): by a watchdog or by the dispatcher; both wait for the timer    *)
(* thread, the second one behind the first.                                *)
Close(c) ==
    /\ closing[c] = "no" /\ Free /\ (c = "dispatcher" => at = "idle")
    /\ CloseOpen(c) \/ CloseAgain(c)
    /\ closing' = [closing EXCEPT ![c] = "join"]
    /\ UNCHANGED <<kind, limited, mutex, broke, at, combo>>

Joined(c) ==
    /\ closing[c] = "join" /\ worker = "ended"
    /\ closing' = [closing EXCEPT ![c] = "no"]
    /\ UNCHANGED <<kind, limited, mutex, statevars, worker, at, combo>>
-----------------------------------------------------------------------------
Goes == KeyLift \/ DragUp \/ ClickUp

Next ==
    \/ KeyPress \/ Down \/ Up \/ ClickDown \/ ReleaseAll \/ WriteFails \/ Goes
    \/ Timer \/ TimePasses
    \/ \E c \in Closers : Close(c) \/ Joined(c)

Spec == Init /\ [][Next]_vars

(* Threads are scheduled, time passes, and sleeps end.  The dispatcher     *)
(* lets go of the mutex between any two requests, so the timer thread,     *)
(* which asks again and again, gets it in the end.                         *)
FairSpec ==
    /\ Spec
    /\ WF_vars(Goes) /\ SF_vars(Timer) /\ WF_vars(TimePasses)
    /\ \A c \in Closers : WF_vars(Joined(c))
-----------------------------------------------------------------------------
TypeOK ==
    /\ kind \in {"keyboard", "pointer"} /\ mutex \in {NoOne, "dispatcher"}
    /\ down \cup held \cup transient \cup combo \subseteq Codes
    /\ limited \in BOOLEAN /\ deadline \in BOOLEAN /\ due \in BOOLEAN /\ closed \in BOOLEAN /\ broke \in BOOLEAN
    /\ worker \in {"look", "wait", "timed", "ended"} /\ at \in {"idle", "key", "click", "drag"}
    /\ closing \in [Closers -> {"no", "join"}]
    /\ mutex = "dispatcher" <=> at = "key"
    /\ due => deadline

(* What is down when no command is in its middle is noted, so a release    *)
(* finds it, and a device that is closed has nothing down.                 *)
DownIsTracked ==
    /\ down \subseteq held \cup transient \cup (IF at = "key" THEN combo ELSE {})
    /\ transient # {} => at = "click"
    /\ closed => down = {}

(* A keyboard tap never lifts a key that is held.                          *)
HeldStaysDown == kind = "keyboard" => held \subseteq down

(* While something is held the timer thread counts, or is about to look:   *)
(* no wake-up is lost (input.rs: timer_loop and notify_all).               *)
HoldIsCounted == held # {} /\ limited => deadline /\ worker \in {"look", "timed"}

HoldsAreKnown == TypeOK /\ DownIsTracked /\ HeldStaysDown /\ HoldIsCounted

(* close() comes back: "Implementations must return promptly"              *)
(* (lifecycle.rs:84), since a watchdog calls it.                           *)
CloseReturns == \A c \in Closers : closing[c] = "join" ~> closing[c] # "join"

(* The same, but for a keyboard that gave itself up after a failed write   *)
(* and did not wake its timer thread.                                      *)
CloseReturnsUnlessBroken ==
    \A c \in Closers : closing[c] = "join" ~> closing[c] # "join" \/ (kind = "keyboard" /\ broke)

(* What is held too long is let go, or held anew.                          *)
HoldsEnd == due ~> ~due
=============================================================================
