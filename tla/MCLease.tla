------------------------------ MODULE MCLease ------------------------------
(***************************************************************************)
(* Small instances of the grant that lets an action through (Lease), of    *)
(* the layout that says where a click lands (Coordinates) and of the guard *)
(* in the native helper (NativeGuard).  None knows of another: each        *)
(* behaviour moves one part and leaves the others where they started.  The *)
(* processes of the grant are interchangeable.                             *)
(***************************************************************************)
EXTENDS Lease, TLC

CONSTANTS Parts,                                       \* of "grant", "points", "helper"
          Layouts, LongEdges, CACHE_TTL, MinEdge, MaxChanges, None,
          Desktops, MaxDevices, MaxShifts

VARIABLES part, layout, cache, region, job, shot, taken, click, changes,
          desktop, valid, unlocked, good, shifts, queue, revoked, lost, wasUnlocked, saw, turn, sweep,
          registered, open, slot, asked, todo, stage, at, abandoned, late

ProcSymmetry == Permutations(Procs)

(* Two outputs, the first the primary one: as they are, with their places  *)
(* swapped, with another connector and a virtual output, which has no      *)
(* serial number, with two pixels for a unit of the desktop on the first,  *)
(* and with three for two on both.  And two that only their connectors     *)
(* tell apart, as on KDE, or that share a serial number; the same two with *)
(* their cables or their places swapped.                                   *)
Output(id, serial, port, x, w, scale, primary) ==
    [id |-> id, serial |-> serial, port |-> port, x |-> x, w |-> w, num |-> scale[1], den |-> scale[2],
     primary |-> primary]
Twins(serial, left, right) ==
    {Output(left, serial, "p1", 0, 2, <<1, 1>>, TRUE), Output(right, serial, "p2", 2, 2, <<1, 1>>, FALSE)}
MCLayouts ==
    {{Output("A", "A", "p1", 0, 3, <<1, 1>>, TRUE), Output("B", "B", "p2", 3, 3, <<1, 1>>, FALSE)},
     {Output("B", "B", "p2", 0, 3, <<1, 1>>, TRUE), Output("A", "A", "p1", 3, 3, <<1, 1>>, FALSE)},
     {Output("A", "A", "p3", 0, 3, <<1, 1>>, TRUE), Output("V", "", "p1", 3, 3, <<1, 1>>, FALSE)},
     {Output("A", "A", "p1", 0, 4, <<2, 1>>, TRUE), Output("B", "B", "p2", 4, 2, <<1, 1>>, FALSE)},
     {Output("A", "A", "p1", 0, 3, <<3, 2>>, TRUE), Output("B", "B", "p2", 3, 2, <<3, 2>>, FALSE)},
     Twins("", "C", "D"), Twins("", "D", "C"), Twins("S", "E", "F"),
     {[o EXCEPT !.x = 2 - @, !.primary = ~@] : o \in Twins("S", "E", "F")}}

(* A grant that ends, or a screen that is locked, and one change more; on  *)
(* Hyprland, where each look has four parts, one change.                   *)
MCShifts == [d \in Desktops |-> IF d = "gnome" THEN 2 ELSE 1]

C == INSTANCE Coordinates
H == INSTANCE NativeGuard

ASSUME PointsAssumption == C!CoordinatesAssumption
ASSUME GuardAssumption == H!NativeGuardAssumption

pointvars == <<layout, cache, region, job, shot, taken, click, changes>>

helpervars == <<desktop, valid, unlocked, good, shifts, queue, revoked, lost, wasUnlocked, saw, turn, sweep,
                registered, open, slot, asked, todo, stage, at, abandoned, late>>

PartsInit ==
    /\ part \in Parts /\ Init /\ C!Init /\ H!Init
    /\ part # "points" => layout = CHOOSE l \in Layouts : TRUE
    /\ part # "helper" => desktop = CHOOSE d \in Desktops : TRUE
    /\ part # "grant" => file = Empty

PartsNext ==
    \/ part = "grant" /\ Next /\ UNCHANGED <<part, pointvars, helpervars>>
    \/ part = "points" /\ C!Next /\ UNCHANGED <<part, vars, helpervars>>
    \/ part = "helper" /\ H!Next /\ UNCHANGED <<part, vars, pointvars>>

PartsSpec == PartsInit /\ [][PartsNext]_<<part, vars, pointvars, helpervars>>
-----------------------------------------------------------------------------
(* The property of Coordinates, stated and explained there.                *)
ClicksLand == C!CoordinatesAccounted

(* A helper that found its grant gone, or on Hyprland a signal missing,    *)
(* and closed its devices writes through none of them, and opens none that *)
(* stays open but the one explained in NativeGuard.                        *)
HelperStaysShut == H!TypeOK /\ H!DevicesAreHeld /\ H!RevokedStaysShut /\ H!LostStaysShut
=============================================================================
