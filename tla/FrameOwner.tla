----------------------------- MODULE FrameOwner -----------------------------
(***************************************************************************)
(* The visible frame of a desktop grant (desktop/glowowner.py and the      *)
(* frame paths of desktop/safety.py): where the compositor needs one, the  *)
(* resident process grants, starts a frame process for that very grant and *)
(* waits until it shows; a thread watches the frame and retires the grant  *)
(* with it.  desktop_lock revokes first and then stops the frame.  Other   *)
(* processes revoke and renew the grant in the same lease file.            *)
(***************************************************************************)
EXTENDS Naturals, FiniteSets

CONSTANTS Callers,     \* threads of the resident process
          NoCaller,
          MaxGrants    \* bound: grants of this process and of others

FrameOwnerAssumption == NoCaller \notin Callers /\ MaxGrants \in Nat

VARIABLES
    lease,      \* the grant in force, 0 for none: its number is its token
    issued,     \* grants so far
    mine,       \* those that this process granted
    child,      \* per grant, its frame: "none", "starting", "shown", "exited"
    owned,      \* _process and _token: the grant whose frame the owner has, or 0
    stopped,    \* the grants whose supervisor was told to stop
    watch,      \* per grant, its supervisor: "none", "run", "retire", "done"
    framelock,  \* who holds _frame_lock
    pc, token,  \* per caller: where it is, and the grant that it opened
    locked      \* history: grants that are older than a desktop_lock that returned

ownvars == <<owned, stopped, watch>>
callvars == <<framelock, pc, token>>
vars == <<lease, issued, mine, child, ownvars, callvars, locked>>

Grants == 1..MaxGrants

Init ==
    /\ lease = 0 /\ issued = 0 /\ mine = {} /\ child = [g \in Grants |-> "none"]
    /\ owned = 0 /\ stopped = {} /\ watch = [g \in Grants |-> "none"]
    /\ framelock = NoCaller /\ locked = {}
    /\ pc = [c \in Callers |-> "idle"] /\ token = [c \in Callers |-> 0]

Alive(g) == g # 0 /\ child[g] \in {"starting", "shown"}
Goto(c, l) == pc' = [pc EXCEPT ![c] = l]

(* _retire, LeaseStore.revoke_if: only the grant that it was made for.     *)
Retire(g) == lease' = IF lease = g THEN 0 ELSE lease

-----------------------------------------------------------------------------
(* SafetyGate.unlock: _frame_lock, _grant, then FrameOwner.open.           *)
Enter(c) ==
    /\ pc[c] = "idle" /\ framelock = NoCaller /\ issued < MaxGrants
    /\ framelock' = c /\ Goto(c, "grant")
    /\ UNCHANGED <<lease, issued, mine, child, ownvars, token, locked>>

Grant(c) ==
    /\ pc[c] = "grant" /\ issued < MaxGrants
    /\ issued' = issued + 1 /\ lease' = issued' /\ mine' = mine \cup {issued'}
    /\ token' = [token EXCEPT ![c] = issued'] /\ Goto(c, "open")
    /\ UNCHANGED <<child, ownvars, framelock, locked>>

(* open: a token that is obsolete by now, or a lease that cannot be read,  *)
(* is refused before anything is stopped: the frame may be that of a newer *)
(* grant.  The frame of an older one is stopped.  (Every token comes fresh *)
(* from the grant before, so the owner never has a frame for it already.)  *)
Open(c) ==
    /\ pc[c] = "open"
    /\ \/ lease = token[c] /\ Goto(c, "stop")
       \/ Goto(c, "leave")
    /\ UNCHANGED <<lease, issued, mine, child, ownvars, framelock, token, locked>>

(* _stop_process: the supervisor is told, then the frame gets time to end  *)
(* by itself and is killed.                                                *)
Stop(c, from, to) ==
    /\ pc[c] = from
    /\ stopped' = stopped \cup {owned} /\ Goto(c, to)
    /\ UNCHANGED <<lease, issued, mine, child, owned, watch, framelock, token, locked>>

Reap(c, from, to) ==
    /\ pc[c] = from
    /\ child' = [g \in Grants |-> IF g = owned THEN "exited" ELSE child[g]]
    /\ owned' = 0 /\ Goto(c, to)
    /\ UNCHANGED <<lease, issued, mine, stopped, watch, framelock, token, locked>>

(* The frame process starts, or cannot be started.                         *)
Spawn(c) ==
    /\ pc[c] = "spawn"
    /\ \/ child' = [child EXCEPT ![token[c]] = "starting"] /\ owned' = token[c] /\ Goto(c, "await")
       \/ Goto(c, "fail") /\ UNCHANGED <<child, owned>>
    /\ UNCHANGED <<lease, issued, mine, stopped, watch, framelock, token, locked>>

(* Until it shows: the grant ended, the frame died, no time is left.  Once *)
(* it shows and the grant is still there, a supervisor takes over.         *)
Await(c) ==
    /\ pc[c] = "await"
    /\ \/ /\ lease = token[c] /\ child[token[c]] = "shown"
          /\ watch' = [watch EXCEPT ![token[c]] = "run"] /\ Goto(c, "decide")
       \/ Goto(c, "fail") /\ UNCHANGED watch
    /\ UNCHANGED <<lease, issued, mine, child, owned, stopped, framelock, token, locked>>

(* unlock, after open: screen lock, activity and frame decide once more.   *)
(* The grant stands, or is retired (its frame then sees that and ends).    *)
Decide(c) ==
    /\ pc[c] = "decide"
    /\ UNCHANGED lease \/ Retire(token[c])
    /\ framelock' = NoCaller /\ Goto(c, "idle")
    /\ UNCHANGED <<issued, mine, child, ownvars, token, locked>>

(* Whatever fails from here on retires the grant and stops the frame.      *)
Fail(c) ==
    /\ pc[c] = "fail"
    /\ Retire(token[c]) /\ Goto(c, "failstop")
    /\ UNCHANGED <<issued, mine, child, ownvars, framelock, token, locked>>

(* unlock, when open raised: the grant is taken back, as by open itself    *)
(* where it had begun.                                                     *)
Leave(c) ==
    /\ pc[c] = "leave"
    /\ Retire(token[c]) /\ framelock' = NoCaller /\ Goto(c, "idle")
    /\ UNCHANGED <<issued, mine, child, ownvars, token, locked>>
-----------------------------------------------------------------------------
(* SafetyGate.lock: the shared lease first, without the lock, ...          *)
Lock(c) ==
    /\ pc[c] = "idle"
    /\ lease' = 0 /\ Goto(c, "enterlock") /\ token' = [token EXCEPT ![c] = issued]
    /\ UNCHANGED <<issued, mine, child, ownvars, framelock, locked>>

EnterLock(c) ==
    /\ pc[c] = "enterlock" /\ framelock = NoCaller
    /\ framelock' = c /\ Goto(c, "close")
    /\ UNCHANGED <<lease, issued, mine, child, ownvars, token, locked>>

(* ... then FrameOwner.close: retire what it owns, and stop its frame.     *)
Close(c) ==
    /\ pc[c] = "close"
    /\ Retire(owned) /\ Goto(c, "closestop")
    /\ UNCHANGED <<issued, mine, child, ownvars, framelock, token, locked>>

Locked(c) ==
    /\ pc[c] = "closed"
    /\ locked' = 1..issued /\ framelock' = NoCaller /\ Goto(c, "idle")
    /\ UNCHANGED <<lease, issued, mine, child, ownvars, token>>
-----------------------------------------------------------------------------
(* _supervise: a look every 0.1 s.  A frame that ended takes its grant     *)
(* along; a supervisor that was told to stop looks no more, but one that   *)
(* has just looked still retires.                                          *)
Look(g) ==
    /\ watch[g] = "run"
    /\ \/ g \in stopped /\ watch' = [watch EXCEPT ![g] = "done"]
       \/ g \notin stopped /\ child[g] = "exited" /\ watch' = [watch EXCEPT ![g] = "retire"]
    /\ UNCHANGED <<lease, issued, mine, child, owned, stopped, callvars, locked>>

SuperviseRetires(g) ==
    /\ watch[g] = "retire"
    /\ Retire(g) /\ watch' = [watch EXCEPT ![g] = "done"]
    /\ UNCHANGED <<issued, mine, child, owned, stopped, callvars, locked>>
-----------------------------------------------------------------------------
(* The frame process shows, ends when its grant is no longer in force, and *)
(* may die.                                                                *)
Shows(g) ==
    /\ child[g] = "starting" /\ lease = g
    /\ child' = [child EXCEPT ![g] = "shown"]
    /\ UNCHANGED <<lease, issued, mine, ownvars, callvars, locked>>

Exits(g) ==
    /\ Alive(g)
    /\ child' = [child EXCEPT ![g] = "exited"]
    /\ UNCHANGED <<lease, issued, mine, ownvars, callvars, locked>>

(* The grant ends elsewhere (`pcbridge lock`, time), or is replaced by one *)
(* of another process, which has a frame of its own.                       *)
EndedElsewhere ==
    /\ lease # 0
    /\ lease' = 0
    /\ UNCHANGED <<issued, mine, child, ownvars, callvars, locked>>

GrantedElsewhere ==
    /\ issued < MaxGrants
    /\ issued' = issued + 1 /\ lease' = issued'
    /\ UNCHANGED <<mine, child, ownvars, callvars, locked>>
-----------------------------------------------------------------------------
Call(c) ==
    \/ Grant(c) \/ Open(c) \/ Spawn(c) \/ Await(c) \/ Decide(c) \/ Fail(c)
    \/ Stop(c, "stop", "reap") \/ Reap(c, "reap", "spawn")
    \/ Stop(c, "failstop", "failreap") \/ Reap(c, "failreap", "leave") \/ Leave(c)
    \/ EnterLock(c) \/ Close(c)
    \/ Stop(c, "closestop", "closereap") \/ Reap(c, "closereap", "closed") \/ Locked(c)

Supervise(g) == Look(g) \/ SuperviseRetires(g)

Next ==
    \/ \E c \in Callers : Enter(c) \/ Lock(c) \/ Call(c)
    \/ \E g \in Grants : Supervise(g) \/ Shows(g) \/ Exits(g)
    \/ EndedElsewhere \/ GrantedElsewhere

Spec == Init /\ [][Next]_vars

(* The threads of the resident process go on; all their waits are bounded. *)
FairSpec ==
    /\ Spec
    /\ \A c \in Callers : WF_vars(Call(c))
    /\ \A g \in Grants : WF_vars(Supervise(g))
-----------------------------------------------------------------------------
TypeOK ==
    /\ lease \in 0..issued /\ issued \in 0..MaxGrants /\ mine \subseteq 1..issued
    /\ child \in [Grants -> {"none", "starting", "shown", "exited"}] /\ owned \in 0..issued
    /\ watch \in [Grants -> {"none", "run", "retire", "done"}]
    /\ \A c \in Callers : pc[c] \notin {"idle", "enterlock"} <=> framelock = c

(* Once desktop_lock returned, every grant that this process had given is  *)
(* over and its frame gone, also one whose desktop_unlock was still under  *)
(* way when the lock was asked for.                                        *)
LockEndsGrants == \A g \in locked \cap mine : lease # g /\ ~Alive(g)

(* No frame stays behind that the owner does not know, and so never stops. *)
FramesAreOwned == \A g \in Grants : Alive(g) => owned = g

(* A grant whose frame is gone does not stay open.                         *)
FrameLossEndsGrant ==
    \A g \in Grants : lease = g /\ child[g] = "exited" ~> lease # g
=============================================================================
