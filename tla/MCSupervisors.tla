--------------------------- MODULE MCSupervisors ---------------------------
(***************************************************************************)
(* Small instances of five parts that hold something for as long as it is  *)
(* wanted: the inhibitor that keeps the machine awake while jobs run       *)
(* (KeepAwake), the screen share of a grant (Share) and its frame          *)
(* (FrameOwner), and in the native helper the share (NativeShare) and the  *)
(* stream of one capture (FrameSource).  None changes what another one     *)
(* holds: a host that needs the frame has no share, a daemon has one of    *)
(* the two backends, and the inhibitor knows of no grant.  So each         *)
(* behaviour moves one part and leaves the others where they started.      *)
(***************************************************************************)
EXTENDS Naturals, Sequences

CONSTANTS Parts,                                        \* of "awake", "share", "frame", "session", "stream"
          Methods, Unconfirmed, NoMethod, MaxDeaths,    \* KeepAwake
          NoCaller, c1, c2, MaxGrants,                  \* Share, FrameOwner
          Systems, MaxTurns, MaxShares,                 \* NativeShare
          Screens, NoNode, MaxSessions, MaxGiveUps      \* FrameSource

VARIABLES
    part,      \* which of the five moves
    jobs, enabled, installed, honored, poll, seen, proc, method, confirmed, aged, skip, misread, due, deaths,
    left, ceiling, share, open, slock, timer, fired, spc, cli, bare,
    lease, issued, mine, child, owned, stopped, watch, framelock, pc, token, locked,
    system, granted, unlocked, signals, turns, revoked, wasUnlocked, closer, blinked,
    flag, holder, state, path, layout, shares, made, leaked, missed, generation, began, late,
    job, want, at, fine,
    current, live, asked, step, reply, got, events, commands, outgoing, stream, attached, giveUps, lagging

MCMethods == <<"powerdevil", "logind">>
Callers == {c1, c2}

K == INSTANCE KeepAwake
S == INSTANCE Share WITH lease <- left, pc <- spc
F == INSTANCE FrameOwner
N == INSTANCE NativeShare
P == INSTANCE FrameSource

ASSUME PartsAssumption == K!KeepAwakeAssumption /\ S!ShareAssumption /\ F!FrameOwnerAssumption
ASSUME CaptureAssumption == N!NativeShareAssumption /\ P!FrameSourceAssumption

kvars == <<jobs, enabled, installed, honored, poll, seen, proc, method, confirmed, aged, skip, misread, due, deaths>>
svars == <<left, ceiling, share, open, slock, timer, fired, spc, cli, bare>>
fvars == <<lease, issued, mine, child, owned, stopped, watch, framelock, pc, token, locked>>
nvars == <<system, granted, unlocked, signals, turns, revoked, wasUnlocked, closer, blinked,
           flag, holder, state, path, layout, shares, made, leaked, missed, generation, began, late,
           job, want, at, fine>>
pvars == <<current, live, asked, step, reply, got, events, commands, outgoing, stream, attached, giveUps, lagging>>
vars == <<part, kvars, svars, fvars, nvars, pvars>>

Init ==
    /\ part \in Parts
    /\ K!Init /\ S!Init /\ F!Init /\ N!Init /\ P!Init
    /\ part # "awake" => ~enabled /\ installed = {} /\ honored = {}
    /\ part # "session" => system = CHOOSE s \in Systems : TRUE

Next ==
    \/ part = "awake" /\ K!Next /\ UNCHANGED <<part, svars, fvars, nvars, pvars>>
    \/ part = "share" /\ S!Next /\ UNCHANGED <<part, kvars, fvars, nvars, pvars>>
    \/ part = "frame" /\ F!Next /\ UNCHANGED <<part, kvars, svars, nvars, pvars>>
    \/ part = "session" /\ N!Next /\ UNCHANGED <<part, kvars, svars, fvars, pvars>>
    \/ part = "stream" /\ P!Next /\ UNCHANGED <<part, kvars, svars, fvars, nvars>>

(* The fairness of the first three, each as long as its part moves; the    *)
(* callers of the others need not do anything.                             *)
FairSpec ==
    /\ Init /\ [][Next]_vars
    /\ WF_kvars(part = "awake" /\ K!Count)
    /\ WF_kvars(part = "awake" /\ K!Update)
    /\ WF_kvars(part = "awake" /\ K!TimePasses)
    /\ \A c \in Callers : WF_svars(part = "share" /\ S!Call(c)) /\ WF_fvars(part = "frame" /\ F!Call(c))
    /\ WF_svars(part = "share" /\ S!Timer)
    /\ \A g \in 1..MaxGrants : WF_fvars(part = "frame" /\ F!Supervise(g))
-----------------------------------------------------------------------------
(* The properties of the five modules, stated and explained there.         *)
(* InhibitorFollowsJobs: jobs keep the machine awake where it can be, and  *)
(* it may sleep without them.                                              *)
JobsKeepAwake ==
    part = "awake" /\ jobs /\ enabled /\ (installed \cap honored) \ misread # {} ~> K!Took \/ ~jobs \/ ~enabled
InhibitorFollowsJobs == JobsKeepAwake /\ K!IdleSleeps

(* HeldIsKnown: no share and no frame is on that nothing will ever end,    *)
(* and the helper keeps none after its grant but as explained there.       *)
HeldIsKnown ==
    /\ K!TypeOK /\ S!TypeOK /\ F!TypeOK /\ N!TypeOK
    /\ S!ShareIsWatched /\ F!FramesAreOwned /\ F!LockEndsGrants
    /\ N!SharesAreKnown /\ N!RevokedShareEnds /\ N!LockedShareEnds

(* FramesAreTrue: a picture is of the screen that was asked for and taken  *)
(* under the grant, and no stream is left behind.                          *)
FramesAreTrue ==
    /\ P!TypeOK /\ P!FrameIsOfItsScreen /\ P!StreamsAreReleased
    /\ N!FramesUnderGrant

(* GrantHoldersEnd: with the grant the share ends, with the frame the      *)
(* grant.                                                                  *)
GrantHoldersEnd == S!ShareEndsWithGrant /\ F!FrameLossEndsGrant

(* ShareNeverOutlives: no share without a grant (violated).                *)
ShareNeverOutlives == S!ShareNeverOutlives
=============================================================================
