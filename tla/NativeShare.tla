----------------------------- MODULE NativeShare -----------------------------
(***************************************************************************)
(* What the native helper shares of the screen (session.rs, capture.rs,    *)
(* image_copy.rs, dispatch.rs).  On GNOME a session of the compositor      *)
(* stays open between captures, and the user sees that it does; one thread *)
(* opens and uses it, and the watchdogs of the grant and of the screen     *)
(* close it at any moment.  On KDE and Hyprland nothing stays open; there  *)
(* a watchdog can only cancel the capture that runs (Hyprland).  How the   *)
(* watchdogs and the check come to what they see is in NativeGuard, how a  *)
(* frame comes through PipeWire in FrameSource.                            *)
(***************************************************************************)
EXTENDS Naturals, Sequences

CONSTANTS Systems,       \* of "gnome", "kde", "hyprland"
          MaxTurns,      \* bound: changes of the grant and the screen, and failed looks
          MaxShares      \* bound: sessions that the compositor makes

NativeShareAssumption == Systems \subseteq {"gnome", "kde", "hyprland"} /\ MaxTurns \in Nat /\ MaxShares \in Nat

Closers == {"lease", "screen", "request"}
Layouts == {"before", "after"}       \* what a session was opened for: monitors, pointer, topology

VARIABLES
    system, granted, unlocked, signals, turns,   \* the world; signals of the screen not yet read
    revoked, wasUnlocked,    \* the latch of the grant; what the screen watchdog saw last
    closer,                  \* close_fail_closed of each thread: "no", "raise", "close"
    flag,                    \* FailClosedFlag
    generation,              \* of ImageCopy
    holder,                  \* the session's mutex is the request's
    state, path, layout,     \* CaptureSession; path is 0 for None
    shares, made,            \* the compositor's sessions, and their number so far
    job, want, at, fine,     \* the request: "open" or "frame", for which layout, where, did it open
    began,                   \* the generation in which a capture began
    leaked, missed, blinked, late    \* history: see the end of the module

world == <<system, granted, unlocked, signals, turns>>
watch == <<revoked, wasUnlocked, closer, blinked>>
session == <<flag, holder, state, path, layout, shares, made, leaked, missed>>
frame == <<generation, began, late>>
request == <<job, want, at, fine>>
vars == <<world, watch, session, frame, request>>

Init ==
    /\ system \in Systems /\ granted = TRUE /\ unlocked = TRUE /\ signals = <<>> /\ turns = 0
    /\ revoked = FALSE /\ wasUnlocked = TRUE /\ closer = [t \in Closers |-> "no"] /\ blinked = FALSE
    /\ flag = FALSE /\ holder = FALSE /\ state = "closed" /\ path = 0 /\ layout = "before"
    /\ shares = {} /\ made = 0 /\ leaked = {} /\ missed = FALSE
    /\ generation = 0 /\ began = 0 /\ late = FALSE
    /\ job = "open" /\ want = "before" /\ at = "idle" /\ fine = FALSE
-----------------------------------------------------------------------------
(* The grant ends, or is prolonged by a touch that began before; the user  *)
(* locks the screen and comes back.                                        *)
Change ==
    /\ turns < MaxTurns /\ turns' = turns + 1
    /\ \/ granted' = ~granted /\ UNCHANGED <<unlocked, signals>>
       \/ /\ unlocked' = ~unlocked /\ UNCHANGED granted
          /\ signals' = IF system = "hyprland" THEN signals ELSE Append(signals, ~unlocked)
    /\ late' = (late /\ ~(granted' /\ unlocked' /\ ~revoked))
    /\ UNCHANGED <<system, watch, session, generation, began, request>>

(* On KDE nothing is registered to be closed.                              *)
StartClosing(t) == closer' = [closer EXCEPT ![t] = IF system = "kde" THEN "no" ELSE "raise"]

LeaseWatchdog ==
    /\ closer["lease"] = "no" /\ ~granted /\ ~revoked
    /\ revoked' = TRUE /\ StartClosing("lease")
    /\ UNCHANGED <<world, wasUnlocked, blinked, session, frame, request>>

(* Only the edge closes.                                                   *)
ScreenSees(seen) ==
    /\ wasUnlocked' = seen
    /\ IF wasUnlocked /\ ~seen THEN StartClosing("screen") ELSE UNCHANGED closer
    /\ UNCHANGED <<system, granted, unlocked, revoked, session, frame, request>>

ScreenSignal ==
    /\ closer["screen"] = "no" /\ signals # <<>>
    /\ signals' = Tail(signals) /\ ScreenSees(Head(signals))
    /\ blinked' = (blinked /\ ~Head(signals)) /\ UNCHANGED turns

(* It asks; a question without an answer reads as a lock.                  *)
ScreenLook ==
    /\ closer["screen"] = "no" /\ signals = <<>>
    /\ \/ ScreenSees(unlocked) /\ blinked' = (blinked /\ ~unlocked) /\ UNCHANGED turns
       \/ unlocked /\ ScreenSees(FALSE) /\ blinked' = TRUE /\ turns < MaxTurns /\ turns' = turns + 1
    /\ UNCHANGED signals
-----------------------------------------------------------------------------
(* stop: the session is forgotten, whatever the compositor answers.        *)
LetGo ==
    /\ path' = 0 /\ missed' = FALSE
    /\ \/ shares' = shares \ {path} /\ UNCHANGED leaked
       \/ leaked' = leaked \cup ({path} \ {0}) /\ UNCHANGED shares

(* close_fail_closed: on Hyprland the running capture is canceled; else    *)
(* the flag is raised, and then ...                                        *)
Raise(t) ==
    /\ closer[t] = "raise"
    /\ IF system = "hyprland"
       THEN closer' = [closer EXCEPT ![t] = "no"] /\ generation' = generation + 1 /\ UNCHANGED flag
       ELSE closer' = [closer EXCEPT ![t] = "close"] /\ flag' = TRUE /\ UNCHANGED generation
    /\ UNCHANGED <<world, revoked, wasUnlocked, blinked, holder, state, path, layout, shares, made, leaked, missed,
                   began, late, request>>

(* ... the session is stopped, unless its mutex is held.                   *)
CloseSession(t) ==
    /\ closer[t] = "close"
    /\ closer' = [closer EXCEPT ![t] = "no"]
    /\ IF holder
       THEN /\ missed' = (missed \/ (at = "unlock" /\ path # 0))
            /\ UNCHANGED <<state, path, shares, leaked>>
       ELSE LetGo /\ state' = "closed"
    /\ UNCHANGED <<world, revoked, wasUnlocked, blinked, flag, holder, layout, made, frame, request>>
-----------------------------------------------------------------------------
(* The request goes on when its own close is over.                         *)
At(l) == at = l /\ closer["request"] = "no"

Goto(l) == at' = l /\ UNCHANGED <<job, want, fine>>

(* Lifecycle::check, here in one look; one that fails refuses.             *)
Passes == granted /\ unlocked /\ ~revoked /\ UNCHANGED <<turns, revoked, closer>>

(* It may be the one that finds the grant gone, and closes.                *)
Refuses ==
    \/ (~unlocked \/ revoked) /\ UNCHANGED <<turns, revoked, closer>>
    \/ ~granted /\ ~revoked /\ revoked' = TRUE /\ StartClosing("request") /\ UNCHANGED turns
    \/ granted /\ unlocked /\ turns < MaxTurns /\ turns' = turns + 1 /\ UNCHANGED <<revoked, closer>>

unlooked == <<system, granted, unlocked, signals, wasUnlocked, blinked>>

(* capture.session_open, capture.frame.                                    *)
Begin ==
    /\ at = "idle" /\ closer["request"] = "no"
    /\ job' \in {"open", "frame"} /\ want' \in Layouts /\ at' = "check" /\ fine' = FALSE
    /\ UNCHANGED <<world, watch, session, frame>>

(* A refusal before anything was opened.                                   *)
Turned ==
    /\ At("check") \/ At("again")
    /\ Refuses /\ Goto("idle")
    /\ UNCHANGED <<unlooked, session, frame>>

(* capture, or open_session; the layout or the display may be unknown.     *)
First ==
    /\ At("check") /\ Passes
    /\ \/ Goto("idle")
       \/ Goto(CASE system = "gnome" /\ job = "open" -> "lock"
                 [] (system = "gnome") # (job = "open") -> "again"
                 [] system = "kde" /\ job = "frame" -> "worker"
                 [] system = "hyprland" /\ job = "frame" -> "load")
    /\ UNCHANGED <<unlooked, session, frame>>

(* open_session checks by itself; where there is no session, that is all.  *)
Again ==
    /\ At("again") /\ Passes
    /\ Goto(IF system = "gnome" THEN "lock" ELSE "idle")
    /\ UNCHANGED <<unlooked, session, frame>>

(* open takes the mutex and clears the flag; a session for the same layout *)
(* is used again, one for another layout is stopped first.                 *)
Lock ==
    /\ At("lock") /\ ~holder
    /\ holder' = TRUE /\ flag' = FALSE
    /\ \/ /\ state = "ready" /\ layout = want
          /\ at' = "unlock" /\ fine' = TRUE
          /\ UNCHANGED <<state, path, shares, leaked, missed>>
       \/ /\ state = "ready" /\ layout # want
          /\ LetGo /\ state' = "starting" /\ at' = "create" /\ UNCHANGED fine
       \/ /\ state \in {"closed", "failed"}
          /\ state' = "starting" /\ at' = "create"
          /\ UNCHANGED <<path, shares, leaked, missed, fine>>
    /\ UNCHANGED <<world, watch, layout, made, frame, job, want>>
-----------------------------------------------------------------------------
(* checkpoint: the flag, then the check.                                   *)
Checkpoint == ~flag /\ Passes
Stops ==
    \/ flag /\ UNCHANGED <<turns, revoked, closer>>
    \/ ~flag /\ Refuses

(* abort: what was created is stopped.  Should the check have closed       *)
(* before, that came to nothing: this very request has the mutex.          *)
Abort ==
    /\ LetGo /\ state' = "failed" /\ Goto("unlock")
    /\ UNCHANGED <<unlooked, flag, holder, layout, made, frame>>

Stopped ==
    /\ At("create") \/ At("record") \/ At("start") \/ At("last")
    /\ Stops /\ Abort

(* A call fails; a bus that is lost cannot be told to stop.                *)
CallFails ==
    /\ \/ (At("record") \/ At("start")) /\ Checkpoint
       \/ At("nodes") /\ UNCHANGED <<turns, revoked, closer>>
    /\ Abort

(* CreateSession, which may have made one and not have said so.            *)
CreateFails ==
    /\ At("create") /\ Checkpoint /\ made < MaxShares
    /\ \/ UNCHANGED <<shares, made, leaked>>
       \/ made' = made + 1 /\ shares' = shares \cup {made + 1} /\ leaked' = leaked \cup {made + 1}
    /\ state' = "failed" /\ Goto("unlock")
    /\ UNCHANGED <<unlooked, flag, holder, path, layout, missed, frame>>

Create ==
    /\ At("create") /\ Checkpoint /\ made < MaxShares
    /\ made' = made + 1 /\ path' = made + 1 /\ shares' = shares \cup {made + 1}
    /\ Goto("record")
    /\ UNCHANGED <<unlooked, flag, holder, state, layout, leaked, missed, frame>>

(* RecordMonitor for one monitor after the other, and Start.               *)
Record ==
    /\ At("record") /\ Checkpoint
    /\ Goto("record") \/ Goto("start")
    /\ UNCHANGED <<unlooked, session, frame>>

Start ==
    /\ At("start") /\ Checkpoint
    /\ Goto("nodes")
    /\ UNCHANGED <<unlooked, session, frame>>

(* Every stream has been announced in time.                                *)
Announced ==
    /\ At("nodes") /\ Goto("last")
    /\ UNCHANGED <<world, watch, session, frame>>

Last ==
    /\ At("last") /\ Checkpoint
    /\ state' = "ready" /\ layout' = want
    /\ at' = "unlock" /\ fine' = TRUE /\ UNCHANGED <<job, want>>
    /\ UNCHANGED <<unlooked, flag, holder, path, shares, made, leaked, missed, frame>>

Unlock ==
    /\ At("unlock")
    /\ holder' = FALSE
    /\ Goto(IF fine /\ job = "frame" THEN "node" ELSE "idle")
    /\ UNCHANGED <<world, watch, flag, state, path, layout, shares, made, leaked, missed, frame>>
-----------------------------------------------------------------------------
(* node_for takes the mutex again; the session may be gone.                *)
NodeFor ==
    /\ At("node") /\ ~holder
    /\ \/ state = "ready" /\ Goto("worker")
       \/ Goto("idle")
    /\ UNCHANGED <<world, watch, session, frame>>

(* ImageCopy::capture notes the generation.                                *)
Load ==
    /\ At("load")
    /\ began' = generation /\ Goto("worker")
    /\ UNCHANGED <<world, watch, session, generation, late>>

Canceled == system = "hyprland" /\ generation # began

(* The checks before and while a frame is waited for.                      *)
Wait ==
    /\ At("worker") /\ ~Canceled /\ Passes
    /\ Goto("collect")
    /\ UNCHANGED <<unlooked, session, frame>>

(* The frame is composed.                                                  *)
Compose ==
    /\ At("collect")
    /\ late' = ~(granted /\ unlocked /\ ~revoked)
    /\ Goto("final")
    /\ UNCHANGED <<world, watch, session, generation, began>>

(* The look at the frame that was waited for; on Hyprland there is another *)
(* one after it was encoded.                                               *)
Final ==
    /\ At("final") /\ ~Canceled /\ Passes
    /\ Goto(IF system = "hyprland" THEN "encoded" ELSE "answer")
    /\ UNCHANGED <<unlooked, session, frame>>

Encoded ==
    /\ At("encoded") /\ Passes
    /\ Goto("answer")
    /\ UNCHANGED <<unlooked, session, frame>>

(* No frame in time, or not one that can be used; a capture that failed    *)
(* stops the session.                                                      *)
Worse == Goto(IF system = "gnome" THEN "stop" ELSE "idle")

FrameFails ==
    /\ \/ (At("worker") \/ At("collect") \/ At("final")) /\ UNCHANGED <<turns, revoked, closer>>
       \/ (At("worker") \/ At("collect") \/ At("final") \/ At("encoded")) /\ Refuses
    /\ Worse
    /\ UNCHANGED <<unlooked, session, frame>>

StopSession ==
    /\ At("stop") /\ ~holder
    /\ LetGo /\ state' = "closed" /\ Goto("idle")
    /\ UNCHANGED <<world, watch, flag, holder, layout, made, frame>>

Answered ==
    /\ At("answer") /\ Goto("idle")
    /\ UNCHANGED <<world, watch, session, frame>>
-----------------------------------------------------------------------------
Open == Lock \/ Stopped \/ CallFails \/ CreateFails \/ Create \/ Record \/ Start \/ Announced \/ Last \/ Unlock
Capture == NodeFor \/ Load \/ Wait \/ Compose \/ Final \/ Encoded \/ FrameFails \/ StopSession \/ Answered

Next ==
    \/ Change \/ LeaseWatchdog \/ ScreenSignal \/ ScreenLook
    \/ \E t \in Closers : Raise(t) \/ CloseSession(t)
    \/ Begin \/ Turned \/ First \/ Again \/ Open \/ Capture

Spec == Init /\ [][Next]_vars
-----------------------------------------------------------------------------
WorldTypes ==
    /\ system \in Systems /\ granted \in BOOLEAN /\ unlocked \in BOOLEAN
    /\ signals \in Seq(BOOLEAN) /\ turns \in 0..MaxTurns
WatchTypes ==
    /\ revoked \in BOOLEAN /\ wasUnlocked \in BOOLEAN /\ blinked \in BOOLEAN
    /\ closer \in [Closers -> {"no", "raise", "close"}]
SessionTypes ==
    /\ flag \in BOOLEAN /\ holder \in BOOLEAN /\ state \in {"closed", "starting", "ready", "failed"}
    /\ made \in 0..MaxShares /\ path \in 0..made /\ layout \in Layouts
    /\ shares \subseteq 1..made /\ leaked \subseteq 1..made /\ missed \in BOOLEAN
RequestTypes ==
    /\ generation \in Nat /\ began \in Nat /\ late \in BOOLEAN
    /\ job \in {"open", "frame"} /\ want \in Layouts /\ fine \in BOOLEAN
    /\ at \in {"idle", "check", "again", "lock", "create", "record", "start", "nodes", "last", "unlock", "node",
               "load", "worker", "collect", "final", "encoded", "stop", "answer"}

TypeOK == WorldTypes /\ WatchTypes /\ SessionTypes /\ RequestTypes

Quiet == \A t \in Closers : closer[t] = "no"

(* "The failure path needs to know what exists" (session.rs:23): the       *)
(* compositor has no session but the one the helper knows, those it was    *)
(* asked in vain to stop, and those it was made to forget.                 *)
SharesAreKnown == shares \subseteq {path} \cup leaked

(* "Every closure trigger [...] has to end in `Closed`" (session.rs:18):   *)
(* between requests no session is open after the grant was found gone, or  *)
(* while the screen is known to be locked.  But for one that was to be     *)
(* closed when the request that opened it had looked for the last time and *)
(* not let go of the mutex; and, for the screen, one that was opened while *)
(* the watchdog took a failed look for a lock, and so sees no edge.        *)
RevokedShareEnds == revoked /\ Quiet /\ at = "idle" => path = 0 \/ missed

LockedShareEnds ==
    ~unlocked /\ ~wasUnlocked /\ signals = <<>> /\ Quiet /\ at = "idle" => path = 0 \/ missed \/ blinked

(* "Never publish pixels after the initialized grant stops validating"     *)
(* (capture.rs:369): when a frame is answered, the grant was there and the *)
(* screen unlocked when it was composed, or after.                         *)
FramesUnderGrant == at = "answer" => ~late
=============================================================================
