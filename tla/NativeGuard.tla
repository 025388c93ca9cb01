---------------------------- MODULE NativeGuard ----------------------------
(***************************************************************************)
(* The native helper's own guard (lifecycle.rs) over the virtual devices   *)
(* that its dispatcher opens (dispatch.rs).  Three watchdogs look at the   *)
(* grant, at the screen and, on Hyprland, at the grant's frame; the one    *)
(* thread that serves requests looks at them too, before it opens a device *)
(* and again after the wait for it.  Who finds a loss first closes every   *)
(* device registered so far, one after the other, while the others go on.  *)
(* What a device does with keys and buttons is in NativeInput.  A helper   *)
(* started without a grant refuses every request (matches_token) and is    *)
(* left out, as are requests for another grant.                            *)
(***************************************************************************)
EXTENDS Naturals, Sequences

CONSTANTS Desktops,      \* of "gnome" (and KDE: D-Bus), "hyprland"
          MaxDevices,    \* bound: devices opened by one helper
          MaxShifts      \* bounds: by desktop, changes of the grant, the screen and the frame, and failed looks

NativeGuardAssumption ==
    Desktops \subseteq {"gnome", "hyprland"} /\ MaxDevices \in Nat /\ MaxShifts \in [Desktops -> Nat]

Kinds == {"keyboard", "pointer", "relative"}
Watchdogs == {"lease", "screen", "frame"}
Threads == Watchdogs \cup {"request"}
Signals == 1..2                     \* Hyprland: the frame is shown, the idle time is known

(* What a request opens, in this order; the last three are pointer.ensure. *)
Opens == [key |-> <<"keyboard">>, move |-> <<"pointer">>, nudge |-> <<"relative">>,
          ensure |-> <<"pointer">>, ensureRelative |-> <<"relative">>, both |-> <<"pointer", "relative">>]
Requests == DOMAIN Opens

(* What it closes when the second look finds a loss.                       *)
Closes == [key |-> {"keyboard"}, move |-> {"pointer"}, nudge |-> {"relative"},
           ensure |-> {"pointer", "relative"}, ensureRelative |-> {"pointer", "relative"},
          both |-> {"pointer", "relative"}]

VARIABLES
    desktop, valid, unlocked, good, shifts,   \* the world: good is the set of Signals that are there
    queue,                   \* ActiveChanged signals not yet read: is it unlocked
    revoked, lost,           \* latches: the grant is gone for good; a signal was missing
    wasUnlocked,             \* of the screen watchdog
    saw, turn,               \* per thread: what it read of the grant or a signal, and of which signal
    sweep,                   \* per thread: <<next, last>> of the devices it is closing
    registered,              \* the registry: devices 1..registered
    open, slot,              \* the devices that are open; the dispatcher's fields, 0 for None
    asked, todo, stage, at,  \* the request being served
    abandoned, late          \* history: see the end of the module

world == <<desktop, valid, unlocked, good, shifts, queue>>
guard == <<revoked, lost, wasUnlocked, saw, turn, sweep>>
devices == <<registered, open, slot, abandoned, late>>
serving == <<asked, todo, stage, at>>
vars == <<world, guard, devices, serving>>

NoSweep == <<1, 0>>
Sweeping(t) == sweep[t] # NoSweep

Init ==
    /\ desktop \in Desktops /\ valid = TRUE /\ unlocked = TRUE /\ good = Signals /\ shifts = 0
    /\ queue = <<>> /\ revoked = FALSE /\ lost = {} /\ wasUnlocked = TRUE
    /\ saw = [t \in Threads |-> "nothing"] /\ turn = [t \in Threads |-> 1]
    /\ sweep = [t \in Threads |-> NoSweep]
    /\ registered = 0 /\ open = {} /\ slot = [k \in Kinds |-> 0] /\ abandoned = {} /\ late = {}
    /\ asked = "key" /\ todo = <<>> /\ stage = "before" /\ at = "idle"
-----------------------------------------------------------------------------
(* The world: the grant ends, or a touch that began before it ran out      *)
(* prolongs it; the user locks the screen and comes back; the frame goes   *)
(* and returns.                                                            *)
Change ==
    /\ shifts < MaxShifts[desktop] /\ shifts' = shifts + 1
    /\ \/ valid' = ~valid /\ UNCHANGED <<unlocked, queue, good>>
       \/ /\ unlocked' = ~unlocked
          /\ queue' = IF desktop = "gnome" THEN Append(queue, ~unlocked) ELSE queue
          /\ UNCHANGED <<valid, good>>
       \/ /\ desktop = "hyprland"
          /\ \E s \in Signals : good' = (good \ {s}) \cup ({s} \ good)
          /\ UNCHANGED <<valid, unlocked, queue>>
    /\ UNCHANGED <<desktop, guard, devices, serving>>

(* A look at the screen or at a signal; one that fails reads as a loss.    *)
Look(there, seen) ==
    \/ seen = there /\ UNCHANGED shifts
    \/ there /\ ~seen /\ shifts < MaxShifts[desktop] /\ shifts' = shifts + 1

(* close_all begins with a snapshot of the registry.                       *)
CloseAll(t) == sweep' = [sweep EXCEPT ![t] = IF registered = 0 THEN NoSweep ELSE <<1, registered>>]

(* Who sets the latch closes.                                              *)
LatchRevoked(t) ==
    /\ revoked' = TRUE
    /\ IF revoked THEN UNCHANGED sweep ELSE CloseAll(t)

LatchSignal(t) ==
    /\ lost' = lost \cup {turn[t]}
    /\ IF turn[t] \in lost THEN UNCHANGED sweep ELSE CloseAll(t)

(* One device after the other, each under its own lock.                    *)
Close(t) ==
    /\ Sweeping(t)
    /\ open' = open \ {sweep[t][1]}
    /\ sweep' = [sweep EXCEPT ![t] = IF @[1] = @[2] THEN NoSweep ELSE <<@[1] + 1, @[2]>>]
    /\ UNCHANGED <<world, revoked, lost, wasUnlocked, saw, turn, registered, slot, abandoned, late, serving>>
-----------------------------------------------------------------------------
(* The lease watchdog reads the file, and then sets the latch.             *)
LeaseLook ==
    /\ ~Sweeping("lease") /\ saw["lease"] = "nothing" /\ ~valid
    /\ saw' = [saw EXCEPT !["lease"] = "bad"]
    /\ UNCHANGED <<world, revoked, lost, wasUnlocked, turn, sweep, devices, serving>>

LeaseLatch ==
    /\ saw["lease"] = "bad"
    /\ saw' = [saw EXCEPT !["lease"] = "nothing"]
    /\ LatchRevoked("lease")
    /\ UNCHANGED <<world, lost, wasUnlocked, turn, devices, serving>>

(* The screen watchdog takes a signal that is waiting, however old it is,  *)
(* or asks; only the edge closes, and nothing latches.                     *)
ScreenSees(seen) ==
    /\ wasUnlocked' = seen
    /\ IF wasUnlocked /\ ~seen THEN CloseAll("screen") ELSE UNCHANGED sweep
    /\ UNCHANGED <<desktop, valid, unlocked, good, revoked, lost, saw, turn, devices, serving>>

ScreenSignal ==
    /\ ~Sweeping("screen") /\ queue # <<>>
    /\ queue' = Tail(queue) /\ ScreenSees(Head(queue)) /\ UNCHANGED shifts

ScreenLook ==
    /\ ~Sweeping("screen") /\ queue = <<>>
    /\ \E seen \in BOOLEAN : Look(unlocked, seen) /\ ScreenSees(seen)
    /\ UNCHANGED queue

(* The frame watchdog looks at one signal after the other: it reads, and   *)
(* then clears or sets the latch.                                          *)
FrameLook ==
    /\ desktop = "hyprland" /\ ~Sweeping("frame") /\ saw["frame"] = "nothing"
    /\ saw' = [saw EXCEPT !["frame"] = IF turn["frame"] \in good THEN "good" ELSE "bad"]
    /\ UNCHANGED <<world, revoked, lost, wasUnlocked, turn, sweep, devices, serving>>

FrameMark ==
    /\ saw["frame"] # "nothing"
    /\ \/ saw["frame"] = "good" /\ lost' = lost \ {turn["frame"]} /\ UNCHANGED sweep
       \/ saw["frame"] = "bad" /\ LatchSignal("frame")
    /\ saw' = [saw EXCEPT !["frame"] = "nothing"]
    /\ turn' = [turn EXCEPT !["frame"] = 3 - @]
    /\ UNCHANGED <<world, revoked, wasUnlocked, devices, serving>>
-----------------------------------------------------------------------------
(* The dispatcher takes a request and looks for the first time.            *)
Begin ==
    /\ at = "idle"
    /\ asked' \in Requests
    /\ todo' = Opens[asked'] /\ stage' = "before" /\ at' = "flag"
    /\ UNCHANGED <<world, guard, devices>>

(* The request is answered.                                                *)
Answer == at' = "idle" /\ asked' = "key" /\ todo' = <<>> /\ stage' = "before"

(* Devices of these kinds are closed and forgotten.                        *)
Drop(kinds) ==
    /\ open' = open \ {slot[k] : k \in kinds}
    /\ slot' = [k \in Kinds |-> IF k \in kinds THEN 0 ELSE slot[k]]
    /\ UNCHANGED <<registered, abandoned, late>>

(* The look found a loss: before anything was opened the request is        *)
(* refused, after the wait its devices are closed, and a device that was   *)
(* just registered is closed while the request goes on.                    *)
Refuse ==
    \/ stage = "before" /\ Answer /\ UNCHANGED devices
    \/ /\ stage = "register" /\ at' = "open"
       /\ open' = open \ {registered}
       /\ UNCHANGED <<asked, todo, stage, registered, slot, abandoned, late>>
    \/ stage = "after" /\ Answer /\ Drop(Closes[asked])

(* The look found nothing missing.                                         *)
Pass ==
    /\ at' = CASE stage = "after" -> IF asked \in {"key", "nudge"} THEN "write" ELSE "geometry"
               [] OTHER -> "open"
    /\ UNCHANGED <<asked, todo, stage>>

(* validate_now: the latch, the file, the screen, the signals.             *)
CheckFlag ==
    /\ at = "flag"
    /\ \/ revoked /\ Refuse
       \/ ~revoked /\ at' = "token" /\ UNCHANGED <<asked, todo, stage, devices>>
    /\ UNCHANGED <<world, guard>>

CheckToken ==
    /\ at = "token"
    /\ at' = IF valid THEN "screen" ELSE "latch"
    /\ UNCHANGED <<world, guard, devices, asked, todo, stage>>

(* The request may be the one that sets the latch; then it closes.         *)
CheckLatch ==
    /\ at = "latch"
    /\ LatchRevoked("request") /\ at' = "closing"
    /\ UNCHANGED <<world, lost, wasUnlocked, saw, turn, devices, asked, todo, stage>>

CheckClosed ==
    /\ at = "closing" /\ ~Sweeping("request")
    /\ Refuse
    /\ UNCHANGED <<world, guard>>

CheckScreen ==
    /\ at = "screen"
    /\ \E seen \in BOOLEAN :
          /\ Look(unlocked, seen)
          /\ \/ ~seen /\ Refuse
             \/ seen /\ desktop = "gnome" /\ Pass /\ UNCHANGED devices
             \/ seen /\ desktop = "hyprland" /\ at' = "signal" /\ UNCHANGED <<asked, todo, stage, devices>>
    /\ UNCHANGED <<desktop, valid, unlocked, good, queue, guard>>

CheckSignal ==
    /\ at = "signal" /\ saw["request"] = "nothing"
    /\ \E seen \in BOOLEAN :
          /\ Look(turn["request"] \in good, seen)
          /\ saw' = [saw EXCEPT !["request"] = IF seen THEN "good" ELSE "bad"]
    /\ UNCHANGED <<desktop, valid, unlocked, good, queue, revoked, lost, wasUnlocked, turn, sweep, devices, serving>>

CheckMark ==
    /\ at = "signal" /\ saw["request"] # "nothing"
    /\ saw' = [saw EXCEPT !["request"] = "nothing"]
    /\ \/ /\ saw["request"] = "good" /\ turn["request"] = 1
          /\ lost' = lost \ {1} /\ turn' = [turn EXCEPT !["request"] = 2]
          /\ UNCHANGED <<sweep, serving>>
       \/ /\ saw["request"] = "good" /\ turn["request"] = 2
          /\ lost' = lost \ {2} /\ turn' = [turn EXCEPT !["request"] = 1]
          /\ Pass /\ UNCHANGED sweep
       \/ /\ saw["request"] = "bad"
          /\ LatchSignal("request") /\ turn' = [turn EXCEPT !["request"] = 1]
          /\ at' = "closing" /\ UNCHANGED <<asked, todo, stage>>
    /\ UNCHANGED <<world, revoked, wasUnlocked, devices>>
-----------------------------------------------------------------------------
(* ensure_keyboard, ensure_pointer, ensure_relative: an open device is     *)
(* used again.                                                             *)
Reuse ==
    /\ at = "open" /\ todo # <<>> /\ slot[Head(todo)] \in open
    /\ todo' = Tail(todo)
    /\ UNCHANGED <<world, guard, devices, asked, stage, at>>

(* A device that closed itself is replaced; so is a pointer of an earlier  *)
(* layout, which is closed first.  The new one is not registered yet.      *)
Create ==
    /\ at = "open" /\ todo # <<>> /\ registered < MaxDevices
    /\ slot[Head(todo)] \in open => Head(todo) = "pointer"
    /\ open' = (open \ {slot[Head(todo)]}) \cup {registered + 1}
    /\ slot' = [slot EXCEPT ![Head(todo)] = 0]
    /\ at' = "register"
    /\ UNCHANGED <<world, guard, registered, abandoned, late, asked, todo, stage>>

(* The layout is not the request's or unknown, the settings differ, or     *)
(* /dev/uinput refuses.  pointer.ensure leaves what it has opened so far.  *)
OpenFails ==
    /\ at = "open" /\ todo # <<>>
    /\ \/ UNCHANGED <<open, slot>>
       \/ /\ Head(todo) = "pointer" /\ slot["pointer"] # 0
          /\ open' = open \ {slot["pointer"]} /\ slot' = [slot EXCEPT !["pointer"] = 0]
    /\ abandoned' = abandoned \cup (IF asked = "both" /\ todo = <<"relative">> THEN {slot["pointer"]} ELSE {})
    /\ Answer
    /\ UNCHANGED <<world, guard, registered, late>>

(* Faulty variant: a late device is not looked at again on Hyprland.       *)
RegisterOnly ==
    /\ at = "register"
    /\ registered' = registered + 1
    /\ slot' = [slot EXCEPT ![Head(todo)] = registered + 1]
    /\ late' = late \cup (IF revoked THEN {registered + 1} ELSE {})
    /\ todo' = Tail(todo) /\ at' = "open"
    /\ UNCHANGED <<world, guard, open, abandoned, asked, stage>>

(* register_fail_closed: on Hyprland it looks again at once.               *)
Register ==
    /\ at = "register"
    /\ registered' = registered + 1
    /\ slot' = [slot EXCEPT ![Head(todo)] = registered + 1]
    /\ late' = late \cup (IF revoked THEN {registered + 1} ELSE {})
    /\ todo' = Tail(todo)
    /\ IF desktop = "hyprland" THEN stage' = "register" /\ at' = "flag"
                               ELSE stage' = stage /\ at' = "open"
    /\ UNCHANGED <<world, guard, open, abandoned, asked>>

(* Everything is open; after the wait the request looks again.             *)
Settle ==
    /\ at = "open" /\ todo = <<>>
    /\ stage' = "after" /\ at' = "flag"
    /\ UNCHANGED <<world, guard, devices, asked, todo>>

(* The layout is read again: a pointer of another one is closed.           *)
Geometry ==
    /\ at = "geometry"
    /\ \/ asked = "move" /\ at' = "write" /\ UNCHANGED <<asked, todo, stage, devices>>
       \/ asked # "move" /\ Answer /\ UNCHANGED devices
       \/ asked # "ensureRelative" /\ Answer /\ Drop(Closes[asked])
    /\ UNCHANGED <<world, guard>>

Target == slot[Opens[asked][1]]

(* The request writes, if its device is still open; a write that fails     *)
(* gives the device up.                                                    *)
Write ==
    /\ at = "write"
    /\ Answer
    /\ open' \in {open, open \ {Target}}
    /\ UNCHANGED <<world, guard, registered, slot, abandoned, late>>

(* shutdown, and the end of the input.                                     *)
Shutdown ==
    /\ at = "idle"
    /\ Drop(Kinds) /\ at' = "gone"
    /\ UNCHANGED <<world, guard, asked, todo, stage>>
-----------------------------------------------------------------------------
Check == CheckFlag \/ CheckToken \/ CheckLatch \/ CheckClosed \/ CheckScreen \/ CheckSignal \/ CheckMark
Watch == LeaseLook \/ LeaseLatch \/ ScreenSignal \/ ScreenLook \/ FrameLook \/ FrameMark

Next ==
    \/ Change \/ Watch \/ Check
    \/ \E t \in Threads : Close(t)
    \/ Begin \/ Reuse \/ Create \/ OpenFails \/ Register \/ Settle \/ Geometry \/ Write \/ Shutdown

Spec == Init /\ [][Next]_vars
-----------------------------------------------------------------------------
Sweeps(n) == {NoSweep} \cup {s \in (1..n) \X (1..n) : s[1] <= s[2]}

WorldTypes ==
    /\ desktop \in Desktops /\ valid \in BOOLEAN /\ unlocked \in BOOLEAN /\ good \subseteq Signals
    /\ shifts \in 0..MaxShifts[desktop] /\ queue \in Seq(BOOLEAN)
GuardTypes ==
    /\ revoked \in BOOLEAN /\ lost \subseteq Signals /\ wasUnlocked \in BOOLEAN
    /\ saw \in [Threads -> {"nothing", "good", "bad"}] /\ turn \in [Threads -> Signals]
    /\ sweep \in [Threads -> Sweeps(registered)]
DeviceTypes ==
    /\ registered \in 0..MaxDevices /\ (at = "register" => registered < MaxDevices)
    /\ open \subseteq 1..(IF at = "register" THEN registered + 1 ELSE registered)
    /\ slot \in [Kinds -> 0..registered] /\ abandoned \subseteq 0..registered /\ late \subseteq 1..registered
ServingTypes ==
    /\ asked \in Requests /\ stage \in {"before", "register", "after"}
    /\ todo \in {Opens[asked], <<>>} \/ (asked = "both" /\ todo = <<"relative">>)
    /\ at \in {"idle", "flag", "token", "latch", "closing", "screen", "signal", "open", "register",
               "geometry", "write", "gone"}

TypeOK == WorldTypes /\ GuardTypes /\ DeviceTypes /\ ServingTypes

Quiet == \A t \in Threads : ~Sweeping(t)

(* No device is open that nobody would close: each is the dispatcher's, or *)
(* about to be.                                                            *)
DevicesAreHeld == open \subseteq {slot[k] : k \in Kinds} \cup (IF at = "register" THEN {registered + 1} ELSE {})

(* Once the grant was found gone and everything was closed, no request     *)
(* writes, and between requests no device is open: "A revoke [...] must be *)
(* followed by no key" (dispatch.rs:1154).  But for a pointer that         *)
(* pointer.ensure left when it could not open the second device: on GNOME  *)
(* and KDE it may have been registered after the closing.                  *)
RevokedStaysShut ==
    revoked /\ Quiet =>
        /\ at = "write" => Target \notin open
        /\ at \in {"idle", "gone"} => open \subseteq (IF desktop = "gnome" THEN abandoned \cap late ELSE {})

(* The same for a signal of Hyprland, as long as it is known to be missing.*)
LostStaysShut ==
    lost # {} /\ Quiet =>
        /\ at = "write" => Target \notin open
        /\ at \in {"idle", "gone"} => open = {}
=============================================================================
