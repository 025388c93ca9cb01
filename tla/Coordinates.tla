---------------------------- MODULE Coordinates ----------------------------
(***************************************************************************)
(* From a pixel of a screenshot to a point of the desktop, while the       *)
(* layout of the monitors may change (desktop/capture.py, monitors.py).    *)
(* The layout is read through a short cache; a record keeps the layout it  *)
(* was taken under and is refused under another.  One axis is modelled:    *)
(* an output has a place and a width on the desktop and a scale, which is  *)
(* a ratio of two numbers; a picture may be of a part of an output and is  *)
(* scaled down to a long edge.                                             *)
(***************************************************************************)
EXTENDS Naturals, Integers, FiniteSets, FiniteSetsExt

CONSTANTS Layouts,      \* sets of outputs [id, serial, port, x, w, num, den, primary]
          LongEdges,    \* screenshot_scale_long_edge, 0 for full resolution
          CACHE_TTL,
          MinEdge,      \* REGION_MIN_EDGE
          MaxChanges,   \* bound: changes of the layout
          None

Outputs == UNION Layouts
NoSerial == ""              \* of virtual outputs, and of every output on KDE and X11

(* No two outputs of a layout overlap or have one connector, and one of    *)
(* them reaches furthest.  Nothing is said of their serial numbers: an     *)
(* output may have none, or the one of another.                            *)
CoordinatesAssumption ==
    /\ CACHE_TTL \in Nat \ {0} /\ MinEdge \in Nat \ {0} /\ LongEdges \subseteq Nat /\ MaxChanges \in Nat
    /\ \A o \in Outputs : o.x \in Nat /\ o.w \in Nat \ {0} /\ o.num \in Nat \ {0} /\ o.den \in Nat \ {0}
    /\ \A l \in Layouts :
          /\ \E last \in l : \A o \in l : o.x + o.w <= last.x + last.w
          /\ \A o, p \in l : o # p => o.port # p.port /\ (o.x <= p.x => o.x + o.w <= p.x)

VARIABLES
    layout,    \* what the compositor has
    cache,     \* [table, age] of list_monitors
    region,    \* what resolve_region gave: [lo, hi, home, want], or None
    job,       \* the capture between its table and its frame, or None
    shot,      \* the record, or None
    taken,     \* history: what the picture really shows
    click,     \* a point that is converted or on its way to the device, or None
    changes

vars == <<layout, cache, region, job, shot, taken, click, changes>>

(* round_half_away of n/d, and the two ways to round outward.              *)
Rounded(n, d) == (2 * n + d) \div (2 * d)
Ceil(n, d) == (n + d - 1) \div d

Init ==
    /\ layout \in Layouts /\ cache = [table |-> layout, age |-> CACHE_TTL]
    /\ region = None /\ job = None /\ shot = None /\ taken = None /\ click = None
    /\ changes = 0
-----------------------------------------------------------------------------
(* monitors.py.                                                            *)
List == IF cache.age < CACHE_TTL THEN cache.table ELSE layout          \* list_monitors
Listed == cache' = IF cache.age < CACHE_TTL THEN cache ELSE [table |-> layout, age |-> 0]

topology_id(table) == {[x |-> o.x, w |-> o.w, num |-> o.num, den |-> o.den, primary |-> o.primary] : o \in table}
find_monitor(x, table) == {o \in table : o.x <= x /\ x < o.x + o.w}
source_pixel_size(o) == Rounded(o.w * o.num, o.den)
canvas_size(table) == Max({o.x + o.w : o \in table})

Change(l) ==
    /\ changes < MaxChanges /\ l # layout
    /\ layout' = l /\ changes' = changes + 1
    /\ UNCHANGED <<cache, region, job, shot, taken, click>>

Tick ==                                      \* the cache ages
    /\ cache.age < CACHE_TTL /\ cache' = [cache EXCEPT !.age = @ + 1]
    /\ UNCHANGED <<layout, region, job, shot, taken, click, changes>>
-----------------------------------------------------------------------------
(* Is the record's picture still of the output at its place?               *)
OutputMatches(table) ==                      \* _shot_output_matches
    \E here \in find_monitor(shot.offset, table) :
        LET same == {o \in table : o.serial = shot.serial}
        IN  IF shot.serial = NoSerial THEN here.port = shot.port
            ELSE \/ same = {here}
                 \/ Cardinality(same) > 1 /\ here \in same /\ here.port = shot.port

(* Faulty variant: only the geometry is compared.                          *)
SameGeometry(table) == shot.topology = topology_id(table)

Current(table) == shot.topology = topology_id(table) /\ OutputMatches(table)

(* resolve_region: a box inside one output, from pixels or from the canvas.*)
Region(lo, hi, table, want) ==
    /\ hi - lo > 0
    /\ \E home \in find_monitor(lo, table) :
          hi <= home.x + home.w /\ region' = [lo |-> lo, hi |-> hi, home |-> home, want |-> want]

RegionOfShot ==                              \* every pixel asked for, and no pixel outside the picture
    /\ shot # None /\ region = None /\ job = None /\ click = None
    /\ Listed /\ Current(List)
    /\ \E from \in 0..(shot.scaled - 1), to \in 1..shot.scaled :
          /\ to - from >= MinEdge
          /\ Region(shot.offset + (from * shot.desktop) \div shot.scaled,
                    shot.offset + Ceil(to * shot.desktop, shot.scaled), List, <<from, to>>)
    /\ UNCHANGED <<layout, job, shot, taken, click, changes>>

RegionOfCanvas ==                            \* global, or from the left of an output
    /\ region = None /\ job = None /\ click = None /\ Listed
    /\ \E o \in List : \E lo \in o.x..(o.x + o.w) : Region(lo, lo + MinEdge, List, <<>>)      \* bound: of one size
    /\ UNCHANGED <<layout, job, shot, taken, click, changes>>
-----------------------------------------------------------------------------
(* capture: the table first, the frame later.                              *)
Start(path, edge) ==
    /\ job = None /\ click = None /\ Listed     \* one thing at a time; the layout changes in between
    /\ \E target \in List :
          /\ region # None => [x |-> target.x, w |-> target.w] = [x |-> region.home.x, w |-> region.home.w]
          /\ job' = [path |-> path, edge |-> edge, table |-> List, target |-> target, region |-> region,
                     of |-> IF region # None /\ region.want # <<>> THEN taken ELSE None]
    /\ region' = None
    /\ UNCHANGED <<layout, shot, taken, click, changes>>

LayoutChanged ==                             \* ShotLayoutChanged: the region's output is gone
    /\ job = None /\ region # None /\ Listed
    /\ ~\E o \in List : o.x = region.home.x /\ o.w = region.home.w
    /\ region' = None
    /\ UNCHANGED <<layout, job, shot, taken, click, changes>>

Scaled(size, edge) == IF edge = 0 \/ size <= edge THEN size ELSE edge      \* _scaled_size

(* Do serial numbers tell this one from every other output?                *)
CanBeTold(serial) ==
    serial # NoSerial /\ \E id \in {o.id : o \in Outputs} : \A o \in Outputs : o.serial = serial => o.id = id

(* Is o the output t was taken of, as far as the code can tell?            *)
Same(o, t) ==
    /\ CanBeTold(t.serial) => o.id = t.id
    /\ t.serial = NoSerial => o.port = t.port

(* History: a frame has per pixels for w units of the desktop, and places  *)
(* in it are in w-ths of a pixel.  Of a region chosen on a picture, does   *)
(* the new frame, from lo to hi, show it all?  But for half a pixel of     *)
(* each of the two frames.                                                 *)
Shows(out, per, w, lo, hi) ==
    LET old == job.of
        edge(p) == 2 * per * (old.lo * old.scaled + p * old.size * old.w)
        slack == old.scaled * (old.per * w + per * old.w)
    IN  old = None \/ ~old.steady \/
          /\ Same(out, old)
          /\ 2 * lo * old.per * old.scaled - slack <= edge(job.region.want[1])
          /\ 2 * hi * old.per * old.scaled + slack >= edge(job.region.want[2])

(* What is written: the box of the output's frame, from pixel lo to pixel  *)
(* hi, and what it is of; the output begins at left.  A box without a      *)
(* pixel cannot be written.                                                *)
Record(out, per, w, left, lo, hi) ==
    LET mon == job.target
        box == [lo |-> IF job.region = None THEN mon.x ELSE job.region.lo,
                hi |-> IF job.region = None THEN mon.x + mon.w ELSE job.region.hi]
    IN  /\ lo < hi
        /\ shot' = [offset |-> box.lo, desktop |-> box.hi - box.lo, size |-> hi - lo,
                    scaled |-> Scaled(hi - lo, job.edge), topology |-> topology_id(job.table),
                    port |-> mon.port, serial |-> mon.serial]
        /\ taken' = [id |-> out.id, port |-> out.port, serial |-> out.serial,
                     per |-> per, w |-> w, lo |-> lo * w - left, size |-> hi - lo,
                     scaled |-> Scaled(hi - lo, job.edge),
                     steady |-> job.table = layout /\ (job.region = None \/ job.region.home \in layout),
                     whole |-> Shows(out, per, w, lo * w - left, hi * w - left)]
        /\ job' = None

FrameBox(frame) ==                           \* _frame_box: in pixels of the frame
    LET mon == job.target
        px(x) == Rounded((x - mon.x) * frame, mon.w)
    IN  IF job.region = None THEN [lo |-> 0, hi |-> frame]
        ELSE [lo |-> px(job.region.lo), hi |-> px(job.region.hi)]

Frame ==                                     \* of the stream of the target's connector
    /\ job # None /\ job.path \in {"stream", "native"}
    /\ \E out \in layout, frame \in {source_pixel_size(o) : o \in layout} :
          /\ out.port = job.target.port /\ frame = source_pixel_size(out)
          /\ frame \in {job.target.w, source_pixel_size(job.target)}          \* check_source_size
          /\ job.path = "native" => topology_id(List) = topology_id(layout)   \* the helper compares
          /\ Record(out, frame, out.w, 0, FrameBox(frame).lo, FrameBox(frame).hi)
    /\ IF job.path = "native" THEN Listed ELSE UNCHANGED cache
    /\ UNCHANGED <<layout, region, click, changes>>

(* canvas_pixel_ratio: a pixel for a unit, or the one scale of all.        *)
Ratios(table, width) ==
    IF width = canvas_size(table) THEN {[num |-> 1, den |-> 1]}
    ELSE {[num |-> o.num, den |-> o.den] : o \in {p \in table :
            /\ \A q \in table : q.num * p.den = p.num * q.den
            /\ width = Rounded(canvas_size(table) * p.num, p.den)}}

(* gnome-screenshot: one picture of everything, in units of the desktop or *)
(* at the scale of an output, cropped.                                     *)
Canvas ==
    /\ job # None /\ job.path = "canvas"
    /\ \E real \in {[num |-> 1, den |-> 1]} \cup {[num |-> o.num, den |-> o.den] : o \in layout} :
       \E ratio \in Ratios(job.table, Rounded(canvas_size(layout) * real.num, real.den)) :
       \E out \in find_monitor(job.target.x, layout) :
          LET px(x) == Rounded(x * ratio.num, ratio.den)
          IN  Record(out, real.num, real.den, out.x * real.num,
                     px(IF job.region = None THEN job.target.x ELSE job.region.lo),
                     px(IF job.region = None THEN job.target.x + job.target.w ELSE job.region.hi))
    /\ UNCHANGED <<layout, cache, region, click, changes>>

NoFrame ==                                   \* refused, or none came in time
    /\ job # None /\ job' = None
    /\ UNCHANGED <<layout, cache, region, shot, taken, click, changes>>
-----------------------------------------------------------------------------
(* to_global and the action that follows it.                               *)
ToGlobal(pixel) == shot.offset + Rounded(pixel * shot.desktop, shot.scaled)

Click ==                                     \* a pixel of the picture
    /\ shot # None /\ click = None /\ job = None /\ region = None
    /\ Listed /\ Current(List)
    /\ \E pixel \in 0..(shot.scaled - 1) :
          click' = [point |-> ToGlobal(pixel), table |-> List, pixel |-> pixel, looked |-> FALSE]
    /\ UNCHANGED <<layout, region, job, shot, taken, changes>>

OnAMonitor ==                                \* _on_a_monitor lists again; a table that cannot be read is no reason
    /\ click # None /\ ~click.looked
    /\ click' = [click EXCEPT !.looked = TRUE]
    /\ (Listed /\ find_monitor(click.point, List) # {}) \/ UNCHANGED cache
    /\ UNCHANGED <<layout, region, job, shot, taken, changes>>

OffTheMonitors ==                            \* refused
    /\ click # None /\ ~click.looked /\ Listed /\ find_monitor(click.point, List) = {}
    /\ click' = None
    /\ UNCHANGED <<layout, region, job, shot, taken, changes>>

Act ==                                       \* the device moves there
    /\ click # None /\ click.looked /\ click' = None
    /\ UNCHANGED <<layout, cache, region, job, shot, taken, changes>>
-----------------------------------------------------------------------------
Next ==
    \/ \E l \in Layouts : Change(l)
    \/ Tick \/ RegionOfShot \/ RegionOfCanvas \/ LayoutChanged
    \/ \E path \in {"stream", "native", "canvas"}, edge \in LongEdges : Start(path, edge)
    \/ Frame \/ Canvas \/ NoFrame \/ Click \/ OnAMonitor \/ OffTheMonitors \/ Act

Spec == Init /\ [][Next]_vars
-----------------------------------------------------------------------------
TypeOK ==
    /\ layout \in Layouts /\ cache.table \in Layouts /\ cache.age \in 0..CACHE_TTL
    /\ changes \in 0..MaxChanges
    /\ shot # None => shot.scaled \in 1..shot.size /\ shot.desktop > 0

(* Safety: a click on a pixel goes to where that pixel was, on the output  *)
(* the picture is of: to half a desktop unit and half a pixel of its       *)
(* frame.  However the outputs were moved, swapped or renamed since, as    *)
(* long as the layout does not change between a table and its use.  It     *)
(* stays on that output, but for a pixel less than half a unit wide at the *)
(* picture's right edge.  An output without a serial number, or with one   *)
(* that another shares, is known by its connector alone: it is the output  *)
(* with that connector, and may be another one of the same place and size. *)
ClickHitsWhatWasSeen ==
    click # None /\ click.table = layout /\ taken.steady =>
        \E o \in layout :
            LET was == taken.lo * taken.scaled + click.pixel * taken.size * taken.w
                slack == taken.scaled * (taken.per + taken.w)
            IN  /\ Same(o, taken)
                /\ (\E p \in layout \ {o} : p.serial = taken.serial) => o.port = taken.port
                /\ 2 * ((click.point - o.x) * taken.scaled * taken.per - was) \in -slack..slack
                /\ 2 * shot.desktop * (shot.scaled - click.pixel) > shot.scaled => o \in find_monitor(click.point, layout)

(* Safety: a part of a picture shows all that was asked for, to a pixel of *)
(* the frames.                                                             *)
RegionShowsAsked == taken # None /\ taken.steady => taken.whole

CoordinatesAccounted == TypeOK /\ ClickHitsWhatWasSeen /\ RegionShowsAsked
=============================================================================
