------------------------------- MODULE Share -------------------------------
(***************************************************************************)
(* The screen share of a desktop grant (desktop/runtime.py, screencast.py, *)
(* python provider): desktop_unlock starts it, a timer of the runtime ends *)
(* it after the grant, desktop_lock and the next desktop call end it too.  *)
(* The lease is a file that other processes touch, renew and revoke; the   *)
(* share is a helper process that they find in /proc and kill.             *)
(***************************************************************************)
EXTENDS Naturals, FiniteSets

CONSTANTS Callers,    \* threads of the daemon that run desktop tools
          NoCaller

ShareAssumption == Callers # {} /\ NoCaller \notin Callers

VARIABLES
    lease,     \* "off", "last" (its last second, int(remaining) = 0) or "long"
    ceiling,   \* hard_until is so near that a touch gains nothing
    share,     \* the helper streams: the panel shows the sharing indicator
    open,      \* the handle has a live helper and its _monitors
    slock,     \* who holds ScreenCast._lock across a start
    timer,     \* _timer: "none", "armed", "fired"
    fired,     \* the timer's thread: "idle", "look", "rearm", "stop", "close"
    pc,        \* where each caller is
    cli,       \* `pcbridge lock` in another process: "idle" or "kill"
    bare       \* history: a refresh found the share on and the grant (almost) over

leasevars == <<lease, ceiling>>
vars == <<leasevars, share, open, slock, timer, fired, pc, cli, bare>>

Init ==
    /\ lease = "off" /\ ceiling = FALSE /\ share = FALSE /\ open = FALSE /\ slock = NoCaller
    /\ timer = "none" /\ fired = "idle" /\ cli = "idle" /\ bare = FALSE
    /\ pc = [c \in Callers |-> "idle"]

Free == slock = NoCaller                       \* ScreenCast._lock can be taken
Unlocked == lease = "long"                     \* is_unlocked: remaining_seconds() > 0
Goto(c, l) == pc' = [pc EXCEPT ![c] = l]
-----------------------------------------------------------------------------
(* Faulty variant: a refresh keeps a timer that is armed and sets none     *)
(* where there is none.                                                    *)
RearmOnce ==
    /\ Free
    /\ timer' = IF timer = "armed" /\ open THEN "armed" ELSE "none"
    /\ bare' = (open /\ ~Unlocked)
    /\ UNCHANGED <<leasevars, share, open, slock>>

(* refresh_capture_deadline: the timer is dropped first, and set anew only *)
(* if the share is on and whole seconds of the grant remain.               *)
Rearm ==
    /\ Free
    /\ timer' = IF open /\ Unlocked THEN "armed" ELSE "none"
    /\ bare' = (open /\ ~Unlocked)
    /\ UNCHANGED <<leasevars, share, open, slock>>

(* stop_capture and release_resources: first the timer, under the          *)
(* runtime's lock, ...                                                     *)
Disarm ==
    /\ timer' = "none"
    /\ UNCHANGED <<leasevars, share, open, slock, bare>>

(* ... then ScreenCast.close, which waits for a start that is under way.   *)
CloseShare ==
    /\ Free
    /\ share' = FALSE /\ open' = FALSE /\ bare' = FALSE
    /\ UNCHANGED <<leasevars, slock, timer>>
-----------------------------------------------------------------------------
(* desktop_unlock, _grant: a new deadline, then _open_screencast.          *)
Grant(c) ==
    /\ pc[c] = "idle"
    /\ lease' = "long" /\ ceiling' = FALSE
    /\ Goto(c, "start")
    /\ UNCHANGED <<share, open, slock, timer, fired, cli, bare>>

(* ScreenCast.start holds its lock; a share that is on is kept.            *)
Start(c) ==
    /\ pc[c] = "start" /\ Free
    /\ IF open
       THEN Goto(c, "refresh") /\ UNCHANGED <<slock, share>>
       ELSE Goto(c, "starting") /\ slock' = c /\ share' = TRUE
    /\ UNCHANGED <<leasevars, open, timer, fired, cli, bare>>

(* The helper answers, or start raises (a helper that was killed, no       *)
(* answer in time, a refusal): then no deadline is set.                    *)
Started(c) ==
    /\ pc[c] = "starting"
    /\ slock' = NoCaller
    /\ \/ share /\ open' = TRUE /\ Goto(c, "refresh") /\ UNCHANGED share
       \/ share' = FALSE /\ open' = FALSE /\ Goto(c, "idle")
    /\ UNCHANGED <<leasevars, timer, fired, cli, bare>>

Refresh(c) ==
    /\ pc[c] = "refresh"
    /\ Rearm /\ Goto(c, "idle")
    /\ UNCHANGED <<fired, cli>>

(* desktop_lock: revoke, release_resources, kill_helpers.                  *)
Lock(c) ==
    /\ pc[c] = "idle"
    /\ lease' = "off" /\ Goto(c, "release")
    /\ UNCHANGED <<ceiling, share, open, slock, timer, fired, cli, bare>>

Release(c) ==
    /\ pc[c] = "release"
    /\ Disarm /\ Goto(c, "close")
    /\ UNCHANGED <<fired, cli>>

Close(c) ==
    /\ pc[c] = "close"
    /\ CloseShare /\ Goto(c, "kill")
    /\ UNCHANGED <<fired, cli>>

(* close takes the lock; the scan of /proc does not.                       *)
Kill(c) ==
    /\ pc[c] = "kill"
    /\ share' = FALSE /\ open' = FALSE /\ bare' = FALSE /\ Goto(c, "idle")
    /\ UNCHANGED <<leasevars, slock, timer, fired, cli>>

(* Any other desktop tool, _guard: close_capture_if_locked looks at the    *)
(* lease and rearms or stops, ...                                          *)
Guard(c) ==
    /\ pc[c] = "idle"
    /\ Goto(c, IF Unlocked THEN "early" ELSE "stop")
    /\ UNCHANGED <<leasevars, share, open, slock, timer, fired, cli, bare>>

GuardRearms(c) ==
    /\ pc[c] = "early"
    /\ Rearm /\ Goto(c, "check")
    /\ UNCHANGED <<fired, cli>>

GuardStops(c) ==
    \/ pc[c] = "stop" /\ Disarm /\ Goto(c, "end") /\ UNCHANGED <<fired, cli>>
    \/ pc[c] = "end" /\ CloseShare /\ Goto(c, "check") /\ UNCHANGED <<fired, cli>>

(* ... gate.check admits on the lease itself and slides it, and the timer  *)
(* follows.  A sequence checks and refreshes so before each action.        *)
Check(c) ==
    /\ pc[c] \in {"check", "sequence"}
    /\ IF lease = "off"
       THEN Goto(c, "idle") /\ UNCHANGED lease
       ELSE /\ Goto(c, "checked")
            /\ lease' = IF ceiling THEN lease ELSE "long"
    /\ UNCHANGED <<ceiling, share, open, slock, timer, fired, cli, bare>>

Checked(c) ==
    /\ pc[c] = "checked"
    /\ Rearm /\ pc' \in {[pc EXCEPT ![c] = "sequence"], [pc EXCEPT ![c] = "idle"]}
    /\ UNCHANGED <<fired, cli>>
-----------------------------------------------------------------------------
(* The timer's thread: close_capture_if_locked, when the time it was given *)
(* is over or, if another process has since moved the deadline, before.    *)
Fire ==
    /\ timer = "armed" /\ fired = "idle"
    /\ timer' = "fired" /\ fired' = "look"
    /\ UNCHANGED <<leasevars, share, open, slock, pc, cli, bare>>

FiredLook ==
    /\ fired = "look"
    /\ fired' = IF Unlocked THEN "rearm" ELSE "stop"
    /\ UNCHANGED <<leasevars, share, open, slock, timer, pc, cli, bare>>

FiredRearms == fired = "rearm" /\ Rearm /\ fired' = "idle" /\ UNCHANGED <<pc, cli>>
FiredStops == fired = "stop" /\ Disarm /\ fired' = "close" /\ UNCHANGED <<pc, cli>>

(* Faulty variant: the thread leaves the share to others.                  *)
FiredClosesNothing == fired = "close" /\ fired' = "idle"
    /\ UNCHANGED <<leasevars, share, open, slock, timer, pc, cli, bare>>

FiredCloses == fired = "close" /\ CloseShare /\ fired' = "idle" /\ UNCHANGED <<pc, cli>>
-----------------------------------------------------------------------------
(* Time passes: the grant comes to its last second, and ends.              *)
Age ==
    /\ lease \in {"long", "last"}
    /\ lease' = IF lease = "long" THEN "last" ELSE "off"
    /\ ceiling' \in {ceiling, TRUE}
    /\ UNCHANGED <<share, open, slock, timer, fired, pc, cli, bare>>

(* Another process slides the lease, or renews it: its own timer, not ours.*)
TouchedElsewhere ==
    /\ \/ lease = "last" /\ ~ceiling /\ UNCHANGED ceiling
       \/ ceiling' = FALSE
    /\ lease' = "long"
    /\ UNCHANGED <<share, open, slock, timer, fired, pc, cli, bare>>

(* `pcbridge lock`: revoke, and kill whatever helpers run then.            *)
LockedElsewhere ==
    \/ /\ cli = "idle" /\ cli' = "kill" /\ lease' = "off"
       /\ UNCHANGED <<ceiling, share, open, slock, timer, fired, pc, bare>>
    \/ /\ cli = "kill" /\ cli' = "idle" /\ share' = FALSE /\ open' = FALSE /\ bare' = FALSE
       /\ UNCHANGED <<leasevars, slock, timer, fired, pc>>

(* The session or its helper ends: the handle may still call itself open.  *)
ShareDies ==
    /\ share
    /\ share' = FALSE /\ open' \in {open, FALSE}
    /\ UNCHANGED <<leasevars, slock, timer, fired, pc, cli, bare>>
-----------------------------------------------------------------------------
Call(c) ==
    \/ Start(c) \/ Started(c) \/ Refresh(c) \/ Release(c) \/ Close(c) \/ Kill(c)
    \/ GuardRearms(c) \/ GuardStops(c) \/ Check(c) \/ Checked(c)

Timer == Fire \/ FiredLook \/ FiredRearms \/ FiredStops \/ FiredCloses

Next ==
    \/ \E c \in Callers : Grant(c) \/ Lock(c) \/ Guard(c) \/ Call(c)
    \/ Timer
    \/ Age \/ TouchedElsewhere \/ LockedElsewhere \/ ShareDies

Spec == Init /\ [][Next]_vars

(* A call that was begun goes on and a timer that is set runs out: the     *)
(* threads are the operating system's, and every wait has a time limit.    *)
FairSpec ==
    /\ Spec
    /\ \A c \in Callers : WF_vars(Call(c))
    /\ WF_vars(Timer)
-----------------------------------------------------------------------------
TypeOK ==
    /\ lease \in {"off", "last", "long"} /\ {ceiling, share, open, bare} \subseteq BOOLEAN
    /\ slock \in Callers \cup {NoCaller} /\ (slock # NoCaller => pc[slock] = "starting")
    /\ timer \in {"none", "armed", "fired"}
    /\ fired \in {"idle", "look", "rearm", "stop", "close"} /\ cli \in {"idle", "kill"}
    /\ pc \in [Callers -> {"idle", "start", "starting", "refresh", "release", "close", "kill", "early",
                           "stop", "end", "check", "sequence", "checked"}]

(* A share that is on is on its way to an end or has a timer that ends it, *)
(* unless a refresh came upon it when the grant was over, or had not a     *)
(* whole second left, and took its timer away.                             *)
ShareIsWatched ==
    open => \/ timer = "armed" \/ fired # "idle" \/ bare
            \/ \E c \in Callers : pc[c] \in {"refresh", "close", "kill", "end"}

(* "The sharing indicator in the panel disappears when the grant closes"   *)
(* (tools.py:1526), but for the share that such a refresh left.            *)
ShareEndsWithGrant == share /\ lease = "off" ~> ~share \/ lease # "off" \/ bare

(* The same without the exception.                                         *)
ShareNeverOutlives == share /\ lease = "off" ~> ~share \/ lease # "off"
=============================================================================
