------------------------------ MODULE Fronting ------------------------------
(***************************************************************************)
(* Bringing an application to the front (pcbridge/desktop/apps.py):        *)
(* bring_to_front asks the compositor, looks whether the window is there   *)
(* already, starts a closed application and watches for its window, and as *)
(* a last resort types the name into the desktop search.  A call may have  *)
(* a deadline; slow steps that do not fit it are not begun.  Windows come  *)
(* and go, and the user works on the same desktop.  One application is the *)
(* target; "other" is any other window.                                    *)
(***************************************************************************)
EXTENDS Naturals

CONSTANTS MaxUser,       \* interventions of the user
          MaxCalls       \* calls, one after the other

FrontingAssumption == {MaxUser, MaxCalls} \subseteq Nat

VARIABLES
    app,         \* the target: "closed", "starting", "shown" (a window is listed)
    focus,       \* "target", "other", "none"
    search,      \* the overview: "shut", "empty", "typed"
    pc, result,  \* of bring_to_front
    bounded,     \* the call has a deadline
    starts,      \* it is launch_application, which is content with a window
    searchable,  \* the desktop has a search
    calls, meddled,
    opened,      \* history of the call: it started the application
    keys,        \* history of the call: it sent keys
    spilled,     \* history: the name or Return reached a window
    early,       \* history: the user meddled since the first key
    away,        \* history: the overview was open when the first key went out
    listed,      \* of _watch: a window was seen in the list
    came, gone   \* history: a window came since the look at the list; one went
                 \* since the call began

desk == <<app, focus, search>>
call == <<bounded, starts, searchable, calls, meddled>>
told == <<spilled, early, away>>                       \* about the keys
seen == <<listed, came, gone>>                         \* about the windows
past == <<opened, keys, told, seen>>
vars == <<desk, pc, result, call, past>>

Init ==
    /\ app \in {"closed", "starting", "shown"} /\ focus \in {"other", "none"}
    /\ search \in {"shut", "empty"} /\ (search = "empty" => focus = "none")
    /\ pc = "idle" /\ result = "none" /\ bounded = FALSE /\ starts = FALSE /\ searchable \in BOOLEAN
    /\ calls = 0 /\ meddled = 0
    /\ opened = FALSE /\ keys = FALSE /\ spilled = FALSE /\ early = FALSE /\ away = FALSE
    /\ listed = FALSE /\ came = FALSE /\ gone = FALSE

(* What the focus reads: nothing is in front while the search is open.     *)
InFront == IF search # "shut" THEN "none" ELSE focus

Return(r) == pc' = "idle" /\ result' = r
-----------------------------------------------------------------------------
Begin ==
    /\ pc = "idle" /\ calls < MaxCalls
    /\ calls' = calls + 1 /\ bounded' \in BOOLEAN
    /\ starts' \in BOOLEAN
    /\ pc' = (IF starts' THEN "launch" ELSE "activate") /\ result' = "none"
    /\ opened' = FALSE /\ keys' = FALSE /\ early' = FALSE /\ away' = FALSE
    /\ listed' = FALSE /\ came' = FALSE /\ gone' = FALSE
    /\ UNCHANGED <<desk, searchable, meddled, spilled>>

(* activate_window: false when there is no extension or it finds no window.*)
Activated == app = "shown" /\ focus' = "target" /\ search' = "shut" /\ UNCHANGED app

Activate ==
    /\ pc = "activate"
    /\ \/ Activated /\ Return("extension")
       \/ pc' = "observe" /\ UNCHANGED <<desk, result>>
    /\ UNCHANGED <<call, past>>

(* observe_focus: an unreadable focus refuses the call.                    *)
Observe ==
    /\ pc = "observe"
    /\ \/ InFront = "target" /\ Return("already")
       \/ InFront # "target" /\ pc' = "list" /\ UNCHANGED result
       \/ Return("refused")
    /\ UNCHANGED <<desk, call, past>>

(* Faulty variant: a list that cannot be read is taken for an empty one.   *)
ListBlindly ==
    /\ pc = "list"
    /\ pc' \in {"launch", "fits"}
    /\ came' = FALSE
    /\ UNCHANGED <<desk, result, call, opened, keys, told, listed, gone>>

(* _windows_of: no window of the application in the list, or some, or the  *)
(* list cannot be read, which is not the same as an empty one.             *)
List ==
    /\ pc = "list"
    /\ \/ app # "shown" /\ pc' = "launch"
       \/ pc' = "fits"
    /\ came' = FALSE
    /\ UNCHANGED <<desk, result, call, opened, keys, told, listed, gone>>

(* _check_time and _gtk_launch, which fails without knowing what it did.   *)
Launch ==
    /\ pc = "launch"
    /\ \/ bounded /\ Return("noTime") /\ UNCHANGED <<app, opened>>
       \/ Return("refused") /\ UNCHANGED <<app, opened>>               \* no gtk-launch
       \/ /\ opened' = TRUE /\ app' = IF app = "closed" THEN "starting" ELSE app
          /\ Return("unknown") \/ (pc' = "watch" /\ UNCHANGED result)
    /\ UNCHANGED <<focus, search, call, keys, told, seen>>

(* _watch reads the focus, which may be unreadable.                        *)
WatchFocus ==
    /\ pc = "watch"
    /\ \/ InFront = "target" /\ Return("launch")
       \/ pc' = "watchList" /\ UNCHANGED result
    /\ UNCHANGED <<desk, call, past>>

(* It reads the list until it once saw a window there, and never again;    *)
(* then, or later, it stops waiting for the focus.  A list it cannot read  *)
(* is read again, until the time is over.                                  *)
WatchList ==
    /\ pc = "watchList"
    /\ listed' \in {listed, listed \/ app = "shown"}
    /\ \/ pc' = "watch" /\ UNCHANGED result
       \/ listed' /\ starts /\ Return("launched")
       \/ listed' /\ ~starts /\ pc' = "again" /\ UNCHANGED result
       \/ ~listed' /\ Return("unknown")
    /\ UNCHANGED <<desk, call, opened, keys, told, came, gone>>

ActivateAgain ==
    /\ pc = "again"
    /\ \/ Activated /\ Return("launch")
       \/ pc' = "fits" /\ UNCHANGED <<desk, result>>
    /\ UNCHANGED <<call, past>>

(* _check_time before the search, and a desktop that has none.             *)
SearchFits ==
    /\ pc = "fits"
    /\ \/ bounded /\ Return("noTime")
       \/ ~searchable /\ Return("refused")
       \/ searchable /\ pc' = "super" /\ UNCHANGED result
    /\ UNCHANGED <<desk, call, past>>
-----------------------------------------------------------------------------
(* _search: super, the name as raw keys, Return; each may fail.            *)
KeyFails == Return("error") /\ UNCHANGED <<desk, past>>

Super ==
    /\ pc = "super"
    /\ \/ KeyFails
       \/ /\ search' = IF search = "shut" THEN "empty" ELSE "shut"
          /\ away' = (search # "shut") /\ early' = FALSE
          /\ keys' = TRUE /\ pc' = "type" /\ UNCHANGED <<app, focus, result, opened, spilled, seen>>
    /\ UNCHANGED call

TypeName ==
    /\ pc = "type"
    /\ \/ KeyFails
       \/ /\ search' = IF search = "shut" THEN "shut" ELSE "typed"
          /\ spilled' = (spilled \/ search = "shut")
          /\ pc' = "return" /\ UNCHANGED <<app, focus, result, opened, keys, early, away, seen>>
    /\ UNCHANGED call

(* Return opens the first result: the application, something else, or, if  *)
(* nothing was found, leaves the search open.                              *)
Enter ==
    /\ pc = "return"
    /\ \/ KeyFails
       \/ /\ \/ search = "shut" /\ UNCHANGED desk
             \/ search # "shut" /\ search' = "shut" /\ app' = "shown" /\ focus' = "target"
             \/ search # "shut" /\ search' = "shut" /\ focus' = "other" /\ UNCHANGED app
             \/ search # "shut" /\ UNCHANGED desk
          /\ spilled' = (spilled \/ search = "shut")
          /\ pc' = "verify" /\ UNCHANGED <<result, opened, keys, early, away, seen>>
    /\ UNCHANGED call

Verify ==
    /\ pc = "verify"
    /\ \/ InFront = "target" /\ Return("search")
       \/ pc' = "escape" /\ UNCHANGED result                           \* another one, or unreadable
    /\ UNCHANGED <<desk, call, past>>

(* _escape: Escape twice, the text and the overview; errors are dropped.   *)
EscapeTwice ==
    /\ pc = "escape"
    /\ \/ search' = "shut"
       \/ UNCHANGED search
    /\ Return("unknown")
    /\ UNCHANGED <<app, focus, call, past>>
-----------------------------------------------------------------------------
(* The window shows up, with or without the focus, or the start comes to   *)
(* nothing.                                                                *)
WindowShows ==
    /\ app = "starting"
    /\ \/ app' = "shown" /\ focus' \in {focus, "target"} /\ came' = TRUE
       \/ app' = "closed" /\ UNCHANGED <<focus, came>>
    /\ UNCHANGED <<search, pc, result, call, opened, keys, told, listed, gone>>

UserMeddles ==
    /\ meddled < MaxUser /\ meddled' = meddled + 1
    /\ \/ search' \in {"shut", "empty"} \ {search} /\ UNCHANGED <<app, focus, gone>>
       \/ search' = "shut" /\ focus' \in {"target", "other", "none"}
          /\ (focus' = "target" => app = "shown") /\ UNCHANGED <<app, gone>>
       \/ /\ app = "shown" /\ app' = "closed" /\ focus' \in {"other", "none"}
          /\ gone' = TRUE /\ UNCHANGED search
    /\ early' = TRUE
    /\ UNCHANGED <<pc, result, bounded, starts, searchable, calls, opened, keys, spilled, away, listed, came>>

Step ==
    \/ Activate \/ Observe \/ List \/ Launch \/ WatchFocus \/ WatchList \/ ActivateAgain \/ SearchFits
    \/ Super \/ TypeName \/ Enter \/ Verify \/ EscapeTwice

Next == Begin \/ Step \/ WindowShows \/ UserMeddles

Spec == Init /\ [][Next]_vars
-----------------------------------------------------------------------------
TypeOK ==
    /\ app \in {"closed", "starting", "shown"} /\ focus \in {"target", "other", "none"}
    /\ search \in {"shut", "empty", "typed"}
    /\ result \in {"none", "extension", "already", "launch", "launched", "search", "refused", "noTime", "unknown", "error"}
    /\ {bounded, starts, searchable, opened, keys, spilled, early, away, listed, came, gone} \subseteq BOOLEAN
    /\ focus = "target" => app = "shown"

(* "NOTHING was done. Only raised BEFORE an irreversible step" (apps.py:   *)
(* NoTimeLeft), "neither did a key go out nor was an application started"  *)
(* (_refused): the batch puts such an action among those not done.         *)
RefusedDidNothing == pc = "idle" /\ result \in {"refused", "noTime"} => ~opened /\ ~keys

(* What remains true of it: no key went out, and an application that was   *)
(* started nevertheless has its window, unless the user closed it, so that *)
(* the same call again finds it instead of starting a second one.          *)
RefusedLeavesWindow ==
    [][pc # "idle" /\ pc' = "idle" /\ result' \in {"refused", "noTime"} =>
       ~keys' /\ (opened' => app' = "shown" \/ gone')]_vars

(* gtk-launch returning 0 is no success (apps.py, launch_application): a   *)
(* call that reports success has seen the window, and nobody closed it     *)
(* unseen but the user; one that reports it in front had it in front when  *)
(* it last looked, whatever the window did before.                         *)
SuccessIsSeen ==
    [][pc # "idle" /\ pc' = "idle" =>
       /\ result' \in {"extension", "already", "launch", "search"} => focus' = "target" /\ search' = "shut"
       /\ result' = "launched" => app' = "shown" \/ gone']_vars

(* bring_to_front opens no second window of an application that has one,   *)
(* also when the list cannot be read; a window that comes after the look   *)
(* at the list is the exception (apps.py:1042).                            *)
NoSecondWindow == [][opened' /\ ~opened /\ ~starts /\ app = "shown" => came]_vars

(* "only the name of an installed application is typed into the search     *)
(* box" (apps.py:32-36): the name and Return go to the search and to no    *)
(* window, unless the user meddles or the overview was open already, when  *)
(* `super` shuts it.                                                       *)
NameStaysInShutSearch == [][spilled' /\ ~spilled => early \/ away]_vars
=============================================================================
