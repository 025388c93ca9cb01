------------------------------- MODULE MCDesk -------------------------------
(***************************************************************************)
(* Small instances of the layers an action passes on its way to the        *)
(* desktop: the runner of a list of actions (Batch), the steps of the      *)
(* actions that take several, an application that is brought to the front  *)
(* (Fronting) and a text that goes through the clipboard (TypeText), and   *)
(* the pipe to the native helper (NativeClient).  A layer sees of the next *)
(* one only that it answers or fails, and each module has that; so each    *)
(* behaviour moves one part and leaves the others where they started.      *)
(***************************************************************************)
EXTENDS Naturals, Sequences, TLC

CONSTANTS Parts,                                            \* of "client", "batch", "front", "text"
          Threads, NoThread, PendingLimit, MaxGens, MaxIds, \* NativeClient
          Windows, Nowhere, MaxLength, RepeatLimit, MaxSwitches,     \* Batch
          MaxUser, MaxCalls,                                \* Fronting
          Copies, Text, Nothing                             \* TypeText

VARIABLES
    part,      \* which of the four moves
    pc, kind, id, then, lifecycle, current, ready, closing, closed, entry, pending, result, made,
    queue, writer, hand, reader, loss, life, inbox, outbox, disk, canceled, dropped, strayed,
    notStarted, abandoned,
    plan, expect, tracking, focus, overview, held, phase, i, start, known, check, autoRaw,
    repeatOf, repeats, stopped, sent, switches, unseen, astray, drifted,
    app, front, search, fpc, fresult, bounded, starts, searchable, calls, meddled,
    opened, keys, spilled, early, away, listed, came, gone,
    clip, restore, saved, tpc, tresult, due, pasted, mine, between, readable, slipped, late

Symmetry == Permutations(Threads)

N == INSTANCE NativeClient
B == INSTANCE Batch
F == INSTANCE Fronting WITH focus <- front, pc <- fpc, result <- fresult
T == INSTANCE TypeText WITH pc <- tpc, result <- tresult

ASSUME DeskAssumption ==
    N!ClientAssumption /\ B!BatchAssumption /\ F!FrontingAssumption /\ T!TypeTextAssumption

nvars == <<pc, kind, id, then, lifecycle, current, ready, closing, closed, entry, pending, result, made,
           queue, writer, hand, reader, loss, life, inbox, outbox, disk, canceled, dropped,
           strayed, notStarted, abandoned>>
bvars == <<plan, expect, tracking, focus, overview, held, phase, i, start, known, check, autoRaw,
           repeatOf, repeats, stopped, sent, switches, unseen, astray, drifted>>
fvars == <<app, front, search, fpc, fresult, bounded, starts, searchable, calls, meddled,
           opened, keys, spilled, early, away, listed, came, gone>>
tvars == <<clip, restore, saved, tpc, tresult, due, pasted, mine, between, readable, slipped, late>>
vars == <<part, nvars, bvars, fvars, tvars>>

Init ==
    /\ part \in Parts
    /\ N!Init
    /\ B!Init
    /\ focus # "w2"                                     \* the windows are alike
    /\ (tracking \/ (expect = Nowhere /\ focus = Nowhere))  \* read only with tracking
    /\ \A n \in DOMAIN plan : plan[n] = "double_click"
                             => \E m \in 1..n - 1 : plan[m] = "click"  \* the targets are alike
    /\ (part # "batch" => plan = <<"wait">> /\ expect = Nowhere /\ ~tracking /\ focus = Nowhere)
    /\ F!Init /\ (part # "front" => app = "closed" /\ front = "none" /\ search = "shut" /\ ~searchable)
    /\ T!Init /\ (part # "text" => clip = Nothing /\ ~restore)

Next ==
    \/ part = "client" /\ N!Next /\ UNCHANGED <<part, bvars, fvars, tvars>>
    \/ part = "batch" /\ B!Next /\ UNCHANGED <<part, nvars, fvars, tvars>>
    \/ part = "front" /\ F!Next /\ UNCHANGED <<part, nvars, bvars, tvars>>
    \/ part = "text" /\ T!Next /\ UNCHANGED <<part, nvars, bvars, fvars>>

Spec == Init /\ [][Next]_vars
-----------------------------------------------------------------------------
(* The properties of the four modules, stated and explained there.         *)
(* PipeAccounted: a helper runs what is wanted, and requests, callers and  *)
(* helpers know of each other.                                             *)
PipeAccounted == N!RunsOnlyWhatIsWanted /\ N!RequestsAccounted /\ N!HelpersAccounted
BatchAccounted == B!BatchAccounted
KeysStayHome == B!KeysStayHome
KeysStayHomeUnlessRaw == B!KeysStayHomeUnlessRaw

(* FrontingTold: a success was seen, a refusal left a window if anything,  *)
(* no second window is opened, and the name goes to the search.            *)
FrontingTold == F!RefusedLeavesWindow /\ F!SuccessIsSeen /\ F!NoSecondWindow /\ F!NameStaysInShutSearch
RefusedDidNothing == F!RefusedDidNothing
TypingSparesClipboard == T!TypingSparesClipboard
=============================================================================
