---------------------------- MODULE MCHeldInput ----------------------------
(***************************************************************************)
(* Small instances of what is held down and pointed at: the keys and       *)
(* buttons of the Python backend (HeldInput), a device of the native       *)
(* helper (NativeInput), the daemon's side of that helper (Provider) and   *)
(* the place of the cursor (Pointer).  A machine uses one of the two       *)
(* backends, Provider sees of the helper only its requests and answers,    *)
(* and moving the cursor touches nothing that is held; so each behaviour   *)
(* moves one part and leaves the others where they started.                *)
(***************************************************************************)
EXTENDS HeldInput, Sequences

CONSTANTS Parts,                       \* of "python", "native", "pointer", "provider"
          Codes, NoOne,                \* NativeInput
          Backends, MaxWidth, Unknown, \* Pointer
          Writer, Others, NoThread, MaxGrants, MaxHelpers, MaxDeaths   \* Provider

VARIABLES
    part,      \* which of the four moves
    kind, limited, mutex, ndown, nheld, transient, deadline, due, closed, thread, at, combo, closing, broke,
    width, cursor, canvas, abs, pos, stale, file, path, target, moved,
    lease, issued, client, served, hlock, used, made, up, bound, queue, pressed, th, deaths, crossed

N == INSTANCE NativeInput WITH down <- ndown, held <- nheld, worker <- thread
P == INSTANCE Pointer
R == INSTANCE Provider WITH down <- pressed

ASSUME DevicesAssumption == N!NativeInputAssumption /\ P!PointerAssumption /\ R!ProviderAssumption

nvars == <<kind, limited, mutex, ndown, nheld, transient, deadline, due, closed, thread, at, combo, closing, broke>>
pvars == <<width, cursor, canvas, abs, pos, stale, file, path, target, moved>>
rvars == <<lease, issued, client, served, hlock, used, made, up, bound, queue, pressed, th, deaths, crossed>>

DevicesInit ==
    /\ part \in Parts /\ Init
    /\ N!Init /\ (part # "native" => kind = "pointer" /\ ~limited)
    /\ P!Init /\ (part # "pointer" => cursor = 0)
    /\ R!Init

DevicesNext ==
    \/ part = "python" /\ Next /\ UNCHANGED <<part, nvars, pvars, rvars>>
    \/ part = "native" /\ N!Next /\ UNCHANGED <<part, vars, pvars, rvars>>
    \/ part = "pointer" /\ P!Next /\ UNCHANGED <<part, vars, nvars, rvars>>
    \/ part = "provider" /\ R!Next /\ UNCHANGED <<part, vars, nvars, pvars>>

(* The fairness of HeldInput and of NativeInput, as long as they move; the *)
(* user, the callers of Pointer and those of Provider need not do anything.*)
DevicesSpec ==
    /\ DevicesInit /\ [][DevicesNext]_<<part, vars, nvars, pvars, rvars>>
    /\ WF_vars(part = "python" /\ Continue)
    /\ \A t \in Timers : WF_vars(part = "python" /\ TimeUp(t)) /\ WF_vars(part = "python" /\ Release(t))
    /\ \A r \in Releasers : WF_vars(part = "python" /\ ReleaseEnds(r))
    /\ WF_nvars(part = "native" /\ N!Goes)
    /\ SF_nvars(part = "native" /\ N!Timer)
    /\ WF_nvars(part = "native" /\ N!TimePasses)
    /\ \A c \in N!Closers : WF_nvars(part = "native" /\ N!Joined(c))
-----------------------------------------------------------------------------
(* The properties of the other modules, stated and explained there.        *)
HoldsAreKnown == N!HoldsAreKnown /\ R!TypeOK /\ R!HeldIsMarked /\ R!NoStrayHelper

(* DeviceLetsGo: what a caller forgot comes up, in Python (HeldInput) and  *)
(* in the helper, and close() returns unless the device broke.             *)
DeviceLetsGo == ForgottenKeysRise /\ N!HoldsEnd /\ N!CloseReturnsUnlessBroken

GrantedPress == R!GrantedPress
CloseReturns == N!CloseReturns
NotesAreTrue == P!TypeOK /\ P!NotesAreTrue
MoveArrives == P!MoveArrives
=============================================================================
