------------------------------ MODULE Pointer ------------------------------
(***************************************************************************)
(* Where the virtual mouse of pcbridge/desktop/input.py puts the cursor.   *)
(* Two processes, the daemon and a pcb-do, have a backend each: an         *)
(* absolute device, a relative one and a note of the last position, which  *)
(* they share through a file; the execution lock lets one of them move at  *)
(* a time.  The kernel drops an absolute value that repeats the last one   *)
(* of its device, and the user has a mouse too.  Points lie on a line.     *)
(***************************************************************************)
EXTENDS Integers, Sequences

CONSTANTS Backends,       \* processes
          MaxWidth,       \* the widest canvas; the narrow one has a point less
          Unknown         \* no position

PointerAssumption == MaxWidth \in Nat \ {0, 1, 2} /\ Unknown \notin Nat

VARIABLES
    width,      \* of the canvas now
    cursor,     \* where the compositor has the cursor
    canvas,     \* per backend: the canvas of its absolute device, 0 if it has none
    abs,        \* per backend: the last value of that device
    pos,        \* per backend: _pos
    stale,      \* per backend: _abs_stale
    file,       \* the position file, or Unknown
    path,       \* per backend: points still to be written
    target,     \* per backend: of the last move, Unknown before it
    moved       \* history, per backend: what else moved the cursor since its last write

vars == <<width, cursor, canvas, abs, pos, stale, file, path, target, moved>>

Points == 0..MaxWidth - 1
Least(a, b) == IF a < b THEN a ELSE b
Clamp(x) == Least(x, width - 1)

Init ==
    /\ width = MaxWidth /\ cursor \in Points
    /\ canvas = [b \in Backends |-> 0] /\ abs = [b \in Backends |-> 0]
    /\ pos = [b \in Backends |-> Unknown] /\ stale = [b \in Backends |-> FALSE]
    /\ file = Unknown
    /\ path = [b \in Backends |-> <<>>] /\ target = [b \in Backends |-> Unknown]
    /\ moved = [b \in Backends |-> FALSE]
-----------------------------------------------------------------------------
(* move_path: never back, and the last point is where it goes; by way of   *)
(* every point in between or of none.                                      *)
Walk(a, z) == [i \in 1..(IF a < z THEN z - a ELSE a - z) |-> IF a < z THEN a + i ELSE a - i]
MovePaths(a, z) == {<<z>>, IF a = z THEN <<z>> ELSE Walk(a, z)}

Still == \A b \in Backends : path[b] = <<>>

(* _pointer and ensure: a device for the canvas of now, the position from  *)
(* the file.  A new device has the value 0 and has moved nothing.          *)
HasPointer(b) == canvas[b] = width
OpenPointer(b) ==
    /\ Still /\ ~HasPointer(b)
    /\ canvas' = [canvas EXCEPT ![b] = width] /\ abs' = [abs EXCEPT ![b] = 0]
    /\ pos' = [pos EXCEPT ![b] = file]
    /\ moved' = [moved EXCEPT ![b] = TRUE]
    /\ UNCHANGED <<width, cursor, stale, file, path, target>>

(* The path of move(), one pixel aside first after a relative motion.      *)
Aside(z) == IF z > 0 THEN z - 1 ELSE z + 1
PathOf(b, z) ==
    LET paths == IF pos[b] = Unknown THEN {<<z>>} ELSE MovePaths(pos[b], z)
    IN  IF stale[b] THEN {<<Aside(z)>> \o p : p \in paths} ELSE paths

Move(b, x) ==
    /\ Still /\ HasPointer(b)
    /\ path' \in {[path EXCEPT ![b] = p] : p \in PathOf(b, Clamp(x))}
    /\ target' = [target EXCEPT ![b] = Clamp(x)]
    /\ stale' = [stale EXCEPT ![b] = FALSE]
    /\ UNCHANGED <<width, cursor, canvas, abs, pos, file, moved>>

(* One absolute event; the kernel swallows a value that is not new.        *)
Write(b) ==
    /\ path[b] # <<>>
    /\ LET p == Head(path[b])
           arrives == p # abs[b]
       IN  /\ cursor' = IF arrives THEN p ELSE cursor
           /\ moved' = [c \in Backends |-> IF c = b THEN moved[b] /\ ~arrives ELSE moved[c] \/ arrives]
           /\ abs' = [abs EXCEPT ![b] = p] /\ pos' = [pos EXCEPT ![b] = p]
           /\ path' = [path EXCEPT ![b] = Tail(@)]
           /\ file' = IF Tail(path[b]) = <<>> THEN p ELSE file
    /\ UNCHANGED <<width, canvas, stale, target>>

(* Faulty variant: the note is corrected, the absolute device is not.      *)
ForgetPositionOnly(b) ==
    /\ pos' = [pos EXCEPT ![b] = Unknown] /\ file' = Unknown
    /\ UNCHANGED stale

(* _note_external_motion.                                                  *)
NoteExternalMotion(b) ==
    /\ pos' = [pos EXCEPT ![b] = Unknown] /\ file' = Unknown
    /\ stale' = [stale EXCEPT ![b] = TRUE]

(* move_by: any way along the line, through the relative device.  Only the *)
(* other backends are fooled by it.                                        *)
MoveBy(b) ==
    /\ Still
    /\ NoteExternalMotion(b)
    /\ cursor' \in 0..width - 1
    /\ target' = [target EXCEPT ![b] = Unknown]
    /\ moved' = [c \in Backends |-> IF c = b THEN moved[b] ELSE TRUE]
    /\ UNCHANGED <<width, canvas, abs, path>>

(* close(): desktop_lock, the end of a session or of the process.          *)
Close(b) ==
    /\ path[b] = <<>>
    /\ canvas' = [canvas EXCEPT ![b] = 0]
    /\ pos' = [pos EXCEPT ![b] = Unknown] /\ stale' = [stale EXCEPT ![b] = FALSE]
    /\ target' = [target EXCEPT ![b] = Unknown]
    /\ UNCHANGED <<width, cursor, abs, file, path, moved>>

(* The position file is too old, or the time for it is up.                 *)
FileAges == file # Unknown /\ file' = Unknown /\ UNCHANGED <<width, cursor, canvas, abs, pos, stale, path, target, moved>>
-----------------------------------------------------------------------------
(* The user's own mouse, and a monitor that is plugged in or out.          *)
UserMoves ==
    /\ cursor' \in (0..width - 1) \ {cursor}
    /\ moved' = [b \in Backends |-> TRUE]
    /\ UNCHANGED <<width, canvas, abs, pos, stale, file, path, target>>

CanvasChanges ==
    /\ Still
    /\ width' = IF width = MaxWidth THEN MaxWidth - 1 ELSE MaxWidth
    /\ cursor' = Least(cursor, width' - 1)
    /\ target' = [b \in Backends |-> Unknown] /\ moved' = [b \in Backends |-> TRUE]
    /\ UNCHANGED <<canvas, abs, pos, stale, file, path>>

Next ==
    \/ \E b \in Backends : OpenPointer(b) \/ Write(b) \/ MoveBy(b) \/ Close(b)
    \/ \E b \in Backends, x \in Points : Move(b, x)
    \/ FileAges \/ UserMoves \/ CanvasChanges

Spec == Init /\ [][Next]_vars
-----------------------------------------------------------------------------
Places == Points \cup {Unknown}

TypeOK ==
    /\ width \in {MaxWidth - 1, MaxWidth} /\ cursor \in 0..width - 1
    /\ canvas \in [Backends -> {0, MaxWidth - 1, MaxWidth}]
    /\ abs \in [Backends -> Points] /\ pos \in [Backends -> Places]
    /\ stale \in [Backends -> BOOLEAN] /\ moved \in [Backends -> BOOLEAN]
    /\ file \in Places /\ target \in [Backends -> Places]
    /\ path \in [Backends -> Seq(Points)]

(* A move ends at its target and the note says so, whatever the relative   *)
(* device did before, unless the user, another process or the opening of   *)
(* the device came after the last move that arrived (input.py: move,       *)
(* _note_external_motion).                                                 *)
NotesAreTrue ==
    \A b \in Backends : path[b] = <<>> =>
        \/ moved[b]
        \/ pos[b] \in {cursor, Unknown} /\ target[b] \in {cursor, Unknown}

(* "at worst the cursor jumps once, then moves smoothly" when the note is  *)
(* wrong (input.py:713-715): whoever moved the cursor, move() gets it to   *)
(* its target, but perhaps to the corner, where a new device believes to   *)
(* be.                                                                     *)
MoveArrives ==
    [][\A b \in Backends : path[b] # <<>> /\ path'[b] = <<>> /\ target[b] # 0 => cursor' = target[b]]_vars
=============================================================================
