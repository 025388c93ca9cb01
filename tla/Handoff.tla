------------------------------ MODULE Handoff ------------------------------
(***************************************************************************)
(* Who has the pcbridge browser, the agent or the user (browser/control.py,*)
(* handoff.py, remote.py, mcptools.py).  A record on disk says that the    *)
(* user has it.  The agent's tool and `pcbridge browser pause` write it;   *)
(* the command line, the terminal UI, the phone's page, the button of the  *)
(* notification, a stop and a new launch remove it; and the notification   *)
(* writes its own number into it, after reading it.  No lock is taken, so  *)
(* each read and each replace is a step.  Agent calls look at the record   *)
(* once, when they begin.  Hand-overs are numbered (`since`).              *)
(***************************************************************************)
EXTENDS Naturals, FiniteSets

CONSTANTS Agents,       \* calls of agents that run at a time
          Cli, Page,    \* places to give back from: a command, the phone
          MaxGives      \* bound: hand-overs

HandoffAssumption == MaxGives \in Nat /\ IsFiniteSet(Agents) /\ {Cli, Page} \cap 1..MaxGives = {}

VARIABLES
    running,   \* the browser runs
    win,       \* its window: "none" yet, "hidden", "shown"
    wanted,    \* view.json
    record,    \* control.json: the hand-over and the notification, 0 for none
    given,     \* hand-overs so far
    gone,      \* those that were given back
    stage,     \* how far the call of each hand-over is
    copy,      \* the record its thread read
    shown,     \* notifications on the screen, with a thread that listens
    link,      \* the hand-over the take-over link is for, 0 for none
    back,      \* a give_back (bound: one at a time): whose, where, and the record it read
    call,      \* the agent calls: in or not, and the hand-overs there were when they began
    early,     \* history: hand-overs that began or ended while the call of one was under way
    clashed    \* history: hand-overs in which a call acted that began later

browservars == <<running, win, wanted>>
giving == <<stage, copy>>
history == <<early, clashed>>
vars == <<browservars, record, given, gone, giving, shown, link, back, call, history>>

Gives == 1..MaxGives
None == [id |-> 0, note |-> 0]
Idle == [by |-> 0, at |-> "idle", got |-> None]
Out == [in |-> FALSE, seen |-> 0]
Givers == {Cli, Page} \cup Gives             \* a notification gives back by itself

Init ==
    /\ running \in BOOLEAN /\ win = (IF running THEN "hidden" ELSE "none")
    /\ wanted = FALSE
    /\ record = None /\ given = 0 /\ gone = {}
    /\ stage = [h \in Gives |-> "none"] /\ copy = [h \in Gives |-> None]
    /\ shown = {} /\ link = 0
    /\ back = Idle
    /\ call = [a \in Agents |-> Out]
    /\ early = {} /\ clashed = {}

UserHasIt == record # None
Busy == {h \in Gives : stage[h] \in {"show", "notify", "note", "write"}}
Ending == ({copy[h].id : h \in Busy} \ {0}) \cup Busy    \* what a call under way may still write about
LinkValid == link # 0 /\ record.id = link
-----------------------------------------------------------------------------
(* Handing over: record, window, notification, link.                       *)
Give(by) ==                             \* the agent's tool, or pause
    /\ running /\ given < MaxGives
    /\ given' = given + 1
    /\ record' = [id |-> given', note |-> 0]
    /\ stage' = [stage EXCEPT ![given'] = IF by = "agent" THEN "show" ELSE "take"]
    /\ early' = early \cup (IF Busy = {} THEN {} ELSE Ending \cup {given'})
    /\ UNCHANGED <<browservars, gone, copy, shown, link, back, call, clashed>>

View(visible) ==                        \* no window is found before the browser has one
    /\ wanted' = visible
    /\ win' = IF win = "none" THEN win ELSE IF visible THEN "shown" ELSE "hidden"
    /\ UNCHANGED running

Show(h) ==
    /\ stage[h] \in {"show", "take"}
    /\ IF running THEN View(TRUE) ELSE UNCHANGED browservars
    /\ stage' = [stage EXCEPT ![h] = IF @ = "show" THEN "notify" ELSE "over"]
    /\ UNCHANGED <<record, given, gone, copy, shown, link, back, call, history>>

Notify(h) ==                            \* or a plain one without a button
    /\ stage[h] = "notify"
    /\ \/ shown' = shown \cup {h} /\ stage' = [stage EXCEPT ![h] = "note"]
       \/ shown' = shown /\ stage' = [stage EXCEPT ![h] = "link"]
    /\ UNCHANGED <<browservars, record, given, gone, copy, link, back, call, history>>

NoteRead(h) ==                          \* whichever hand-over the record is of
    /\ stage[h] = "note"
    /\ copy' = [copy EXCEPT ![h] = IF UserHasIt THEN [record EXCEPT !.note = h] ELSE None]
    /\ stage' = [stage EXCEPT ![h] = IF UserHasIt THEN "write" ELSE "link"]
    /\ UNCHANGED <<browservars, record, given, gone, shown, link, back, call, history>>

NoteWrite(h) ==
    /\ stage[h] = "write"
    /\ record' = copy[h]
    /\ copy' = [copy EXCEPT ![h] = None] /\ stage' = [stage EXCEPT ![h] = "link"]
    /\ UNCHANGED <<browservars, given, gone, shown, link, back, call, history>>

CreateLink(h) ==                        \* for the hand-over there is now
    /\ stage[h] = "link" /\ stage' = [stage EXCEPT ![h] = "over"]
    /\ link' = IF UserHasIt THEN record.id ELSE link
    /\ UNCHANGED <<browservars, record, given, gone, copy, shown, back, call, history>>

LinkExpires == link # 0 /\ link' = 0
               /\ UNCHANGED <<browservars, record, given, gone, giving, shown, back, call, history>>
-----------------------------------------------------------------------------
(* Giving back: read the record, remove it, close the notification in it.  *)
BackBegins(b) ==
    /\ back = Idle
    /\ b = Page => LinkValid
    /\ b \in Gives => b \in shown       \* a click on the button, which closes it
    /\ back' = [Idle EXCEPT !.by = b, !.at = "read"]
    /\ shown' = shown \ {b}
    /\ UNCHANGED <<browservars, record, given, gone, giving, link, call, history>>

BackReads ==
    /\ back.at = "read"
    /\ back' = [back EXCEPT !.at = "unlink", !.got = record]
    /\ UNCHANGED <<browservars, record, given, gone, giving, shown, link, call, history>>

Removed(got) ==
    /\ record' = None
    /\ gone' = gone \cup ({record.id} \ {0})
    /\ early' = early \cup (IF record = got THEN Ending ELSE Ending \cup ({record.id} \ {0}))

(* Faulty variant: the notification is left to the one that has it.        *)
BackOnlyUnlinks ==
    /\ back.at = "unlink" /\ Removed(back.got) /\ UNCHANGED shown
    /\ back' = Idle
    /\ UNCHANGED <<browservars, given, giving, link, call, clashed>>

BackUnlinks ==                          \* the page revokes its link as well
    /\ back.at = "unlink" /\ Removed(back.got) /\ shown' = shown \ {back.got.note}
    /\ back' = Idle
    /\ link' = IF back.by = Page THEN 0 ELSE link
    /\ UNCHANGED <<browservars, given, giving, call, clashed>>
-----------------------------------------------------------------------------
(* The agent: one look at the record, then as many requests as it takes.   *)
Check(a) ==
    /\ ~call[a].in /\ ~UserHasIt
    /\ call' = [call EXCEPT ![a] = [in |-> TRUE, seen |-> given]]
    /\ UNCHANGED <<browservars, record, given, gone, giving, shown, link, back, history>>

Clash(a) == clashed' = IF record.id # 0 /\ call[a].seen >= record.id THEN clashed \cup {record.id} ELSE clashed

Act(a) ==                               \* browser_act, browser_navigate
    /\ call[a].in /\ running /\ Clash(a)
    /\ UNCHANGED <<browservars, record, given, gone, giving, shown, link, back, call, early>>

Hide(a) ==                              \* browser_visibility
    /\ call[a].in /\ running /\ View(FALSE) /\ Clash(a)
    /\ call' = [call EXCEPT ![a] = Out]
    /\ UNCHANGED <<record, given, gone, giving, shown, link, back, early>>

Launch(a) ==                            \* hidden, and a hand-over ends with its browser
    /\ call[a].in /\ ~running
    /\ running' = TRUE /\ win' = "none" /\ wanted' = FALSE
    /\ Removed(record) /\ shown' = shown \ {record.note}
    /\ UNCHANGED <<given, giving, link, back, call, clashed>>

Done(a) ==
    /\ call[a].in /\ call' = [call EXCEPT ![a] = Out]
    /\ UNCHANGED <<browservars, record, given, gone, giving, shown, link, back, history>>
-----------------------------------------------------------------------------
(* The browser, the desktop and the daemon.                                *)
WindowAppears ==                        \* GNOME hides it by view.json, hide_new on the others in any case
    /\ running /\ win = "none"
    /\ win' \in IF wanted THEN {"hidden", "shown"} ELSE {"hidden"}
    /\ UNCHANGED <<running, wanted, record, given, gone, giving, shown, link, back, call, history>>

BrowserEnds ==                          \* the record stays
    /\ running /\ running' = FALSE /\ win' = "none"
    /\ UNCHANGED <<wanted, record, given, gone, giving, shown, link, back, call, history>>

Stop ==                                 \* pcbridge browser stop
    /\ running /\ running' = FALSE /\ win' = "none"
    /\ Removed(record) /\ shown' = shown \ {record.note}
    /\ UNCHANGED <<wanted, given, giving, link, back, call, clashed>>

DaemonRestarts ==                       \* its threads, its link, its calls; the notifications close
    /\ call' = [a \in Agents |-> Out]
    /\ stage' = [h \in Gives |-> IF stage[h] \in {"none", "take"} THEN stage[h] ELSE "over"]
    /\ copy' = [h \in Gives |-> None]
    /\ shown' = {} /\ link' = 0
    /\ back' = IF back.by = Cli THEN back ELSE Idle
    /\ UNCHANGED <<running, win, wanted, record, given, gone, history>>
-----------------------------------------------------------------------------
Next ==
    \/ \E by \in {"agent", "user"} : Give(by)
    \/ \E h \in Gives : Show(h) \/ Notify(h) \/ NoteRead(h) \/ NoteWrite(h) \/ CreateLink(h)
    \/ \E b \in Givers : BackBegins(b)
    \/ BackReads \/ BackUnlinks
    \/ \E a \in Agents : Check(a) \/ Act(a) \/ Hide(a) \/ Launch(a) \/ Done(a)
    \/ LinkExpires \/ WindowAppears \/ BrowserEnds \/ Stop \/ DaemonRestarts

Spec == Init /\ [][Next]_vars
-----------------------------------------------------------------------------
TypeOK ==
    /\ win \in {"none", "hidden", "shown"} /\ {running, wanted} \subseteq BOOLEAN
    /\ record.id \in 0..given /\ record.note \in 0..MaxGives /\ given \in 0..MaxGives
    /\ gone \subseteq 1..given /\ shown \subseteq 1..given /\ link \in 0..given
    /\ \A h \in Gives : stage[h] \in {"none", "take", "show", "notify", "note", "write", "link", "over"}

(* Safety: once the user gave the browser back, or a newer hand-over took  *)
(* its place, the record does not come back; unless that was while a call  *)
(* that hands over had not returned, which notes its notification by       *)
(* writing back what it read.                                              *)
BackIsBack == record.id \in gone \/ record.id \notin {0, given} => record.id \in early

(* Safety: no call of an agent acts or hides the window in a hand-over     *)
(* that was there when the call began (same exception).                    *)
AgentKeepsOut == clashed \subseteq early

(* Safety: after a hand-over was given back, from anywhere, its            *)
(* notification is not on the screen (same exception).                     *)
NotificationEnds == shown \cap gone \subseteq early

HandoffAccounted == BackIsBack /\ AgentKeepsOut /\ NotificationEnds
=============================================================================
