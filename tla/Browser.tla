------------------------------ MODULE Browser ------------------------------
(***************************************************************************)
(* The pcbridge browser and its keeper (browser/manager.py, keeper.py).    *)
(* The keeper holds the browser's pipe so that the browser outlives the    *)
(* daemon, and answers on a socket of one fixed path; a record on disk     *)
(* names it.  The daemon launches it when status() finds none, and does    *)
(* not wait longer than 20 s; a keeper that is slower goes on by itself,   *)
(* and so does one whose daemon is restarted.  A browser whose profile is  *)
(* already in use exits at once.  The calls of agents run side by side on  *)
(* one connection; of the pages only the number of tabs, and the document  *)
(* of the one in use, are modelled.                                        *)
(***************************************************************************)
EXTENDS Naturals, FiniteSets

CONSTANTS Calls,        \* of agents, at a time
          MaxKeepers,   \* bound: launches
          MaxTabs,      \* bound
          MaxDocs       \* bound: documents of the tab in use

BrowserAssumption ==
    IsFiniteSet(Calls) /\ MaxKeepers \in Nat /\ MaxTabs \in Nat \ {0, 1} /\ MaxDocs \in Nat \ {0}

VARIABLES
    keeper,    \* each: "none", "forked", "bound", "up", "closing", "unlinked", "gone"
    alive,     \* keepers whose browser runs
    stray,     \* those whose browser found the profile in use
    info,      \* the keeper the record names, 0 for none
    sock,      \* the keeper that listens at the path, 0 for no file there
    launching, \* the keeper the daemon waits for, 0 for none
    conn,      \* the keeper the daemon is connected to, 0 for none
    tabs,
    doc,       \* the document of the tab in use
    call,      \* the calls: what, the document of their ref, and the browser they began in
    ref,       \* the document the last browser_read saw
    overlap,   \* history: a keeper was launched while another one was starting or closing
    crossed,   \* calls under way during which a tab was closed elsewhere, or the page changed
    blunder    \* history: a call that was not crossed closed the last tab, or acted on another document

procvars == <<keeper, alive, stray, info, sock>>
pagevars == <<tabs, doc, ref>>
history == <<overlap, crossed, blunder>>
vars == <<procvars, launching, conn, pagevars, call, history>>

Keepers == 1..MaxKeepers
Live == {k \in Keepers : keeper[k] \notin {"none", "gone"}}
Free == [what |-> "none", doc |-> 0, of |-> 0]

Init ==
    /\ keeper = [k \in Keepers |-> "none"] /\ alive = {} /\ stray = {}
    /\ info = 0 /\ sock = 0 /\ launching = 0 /\ conn = 0
    /\ tabs = 0 /\ doc = 1 /\ ref = 0
    /\ call = [c \in Calls |-> Free]
    /\ overlap = FALSE /\ crossed = {} /\ blunder = FALSE
-----------------------------------------------------------------------------
(* The daemon.  status: the record, if its keeper lives and its socket is  *)
(* there; a record without a socket is removed.                            *)
Running == info \in Live /\ sock # 0
Cleaned == IF info \in Live /\ sock = 0 THEN 0 ELSE info

Reached ==                              \* whoever listens at the path, if it does
    IF sock \in Live THEN conn' = sock ELSE conn' = 0

Connect ==
    /\ launching = 0 /\ conn = 0 /\ Running
    /\ Reached
    /\ UNCHANGED <<procvars, launching, pagevars, call, history>>

Launch ==
    /\ launching = 0 /\ conn = 0 /\ ~Running
    /\ \E k \in Keepers :
          /\ keeper[k] = "none" /\ \A j \in Keepers : keeper[j] = "none" => k <= j
          /\ keeper' = [keeper EXCEPT ![k] = "forked"] /\ launching' = k
    /\ info' = 0
    /\ overlap' = (overlap \/ \E k \in Live : keeper[k] # "unlinked")
    /\ UNCHANGED <<alive, stray, sock, conn, pagevars, call, crossed, blunder>>

Launched ==                             \* any record will do
    /\ launching # 0 /\ Running
    /\ launching' = 0 /\ Reached
    /\ UNCHANGED <<procvars, pagevars, call, history>>

LaunchFails ==                          \* 20 s are over, or it exited
    /\ launching # 0 /\ ~Running
    /\ launching' = 0 /\ info' = Cleaned
    /\ UNCHANGED <<keeper, alive, stray, sock, conn, pagevars, call, history>>

DaemonRestarts ==
    /\ launching # 0 \/ conn # 0
    /\ launching' = 0 /\ conn' = 0 /\ call' = [c \in Calls |-> Free] /\ crossed' = {}
    /\ UNCHANGED <<procvars, pagevars, overlap, blunder>>

Stop ==                                 \* a command, or the daemon: SIGTERM to the keeper of the record
    /\ Running /\ keeper[info] = "up"
    /\ keeper' = [keeper EXCEPT ![info] = "closing"]
    /\ UNCHANGED <<alive, stray, info, sock, launching, conn, pagevars, call, history>>
-----------------------------------------------------------------------------
(* The keeper: socket, browser, record; at the end the other way round.    *)
Bind(k) ==                              \* removes what is at the path
    /\ keeper[k] = "forked"
    /\ keeper' = [keeper EXCEPT ![k] = "bound"] /\ sock' = k
    /\ UNCHANGED <<alive, stray, info, launching, conn, pagevars, call, history>>

StartBrowser(k) ==
    /\ keeper[k] = "bound"
    /\ keeper' = [keeper EXCEPT ![k] = "up"] /\ info' = k
    /\ IF alive = {} THEN alive' = {k} /\ tabs' = 1 /\ UNCHANGED stray
                     ELSE stray' = stray \cup {k} /\ UNCHANGED <<alive, tabs>>
    /\ UNCHANGED <<sock, launching, conn, doc, ref, call, history>>

(* The browser of k is gone: the keeper sees it and unlinks its socket.    *)
Unlink(k) ==
    /\ keeper[k] \in {"up", "closing"} /\ k \notin alive
    /\ keeper' = [keeper EXCEPT ![k] = "unlinked"] /\ sock' = 0
    /\ conn' = IF conn = k THEN 0 ELSE conn
    /\ UNCHANGED <<alive, stray, info, launching, pagevars, call, history>>

Ends(k) ==                              \* the record only if it is its own
    /\ keeper[k] = "unlinked"
    /\ keeper' = [keeper EXCEPT ![k] = "gone"]
    /\ info' = IF info = k THEN 0 ELSE info
    /\ UNCHANGED <<alive, stray, sock, launching, conn, pagevars, call, history>>

Killed(k) ==                            \* leaves both; the browser ends with the pipe
    /\ k \in Live
    /\ keeper' = [keeper EXCEPT ![k] = "gone"]
    /\ alive' = alive \ {k} /\ tabs' = IF k \in alive THEN 0 ELSE tabs
    /\ conn' = IF conn = k THEN 0 ELSE conn
    /\ UNCHANGED <<stray, info, sock, launching, doc, ref, call, history>>

BrowserEnds(k) ==                       \* closed by the keeper or the user, or crashed
    /\ k \in alive /\ alive' = {} /\ tabs' = 0
    /\ UNCHANGED <<keeper, stray, info, sock, launching, conn, doc, ref, call, history>>

StatusCleans ==                         \* by any process that asks
    /\ info # Cleaned /\ info' = Cleaned
    /\ UNCHANGED <<keeper, alive, stray, sock, launching, conn, pagevars, call, history>>
-----------------------------------------------------------------------------
(* The calls of agents.                                                    *)
Connected == conn \in alive
Others(c) == {d \in Calls \ {c} : call[d].what # "none"}
Begin(c, what, seen) == call[c] = Free /\ Connected /\ call' = [call EXCEPT ![c] = [what |-> what, doc |-> seen, of |-> conn]]
Still(c) == Connected /\ call[c].of = conn      \* a target is unknown to another browser
Over(c) == call' = [call EXCEPT ![c] = Free]

Open(c) ==                              \* in a new tab, or in the one in use
    /\ call[c] = Free /\ Connected
    /\ \/ tabs < MaxTabs /\ tabs' = tabs + 1 /\ UNCHANGED <<doc, crossed>>
       \/ doc < MaxDocs /\ doc' = doc + 1 /\ crossed' = crossed \cup Others(c) /\ UNCHANGED tabs
    /\ UNCHANGED <<procvars, launching, conn, ref, call, overlap, blunder>>

Read(c) ==
    /\ call[c] = Free /\ Connected /\ ref' = doc
    /\ UNCHANGED <<procvars, launching, conn, tabs, doc, call, history>>

CloseBegins(c) ==                       \* the last tab gets a successor first
    /\ Begin(c, "close", 0)
    /\ tabs' = IF tabs = 1 THEN 2 ELSE tabs
    /\ UNCHANGED <<procvars, launching, conn, doc, ref, history>>

TabCloses == tabs' = tabs - 1 /\ (IF tabs = 1 THEN alive' = {} ELSE UNCHANGED alive)

CloseEnds(c) ==
    /\ call[c].what = "close" /\ Over(c)
    /\ IF ~Still(c) THEN crossed' = crossed \ {c} /\ UNCHANGED <<alive, tabs, blunder>>
       ELSE /\ TabCloses
            /\ crossed' = (crossed \cup Others(c)) \ {c}
            /\ blunder' = (blunder \/ (tabs = 1 /\ c \notin crossed))
    /\ UNCHANGED <<keeper, stray, info, sock, launching, conn, doc, ref, overlap>>

Node(c) ==                              \* the element is still in the document
    /\ ref = doc /\ Begin(c, "act", ref)
    /\ UNCHANGED <<procvars, launching, conn, pagevars, history>>

Act(c) ==                               \* click, type, choose, press: several requests
    /\ call[c].what = "act" /\ Over(c)
    /\ blunder' = (blunder \/ (Still(c) /\ call[c].doc # doc /\ c \notin crossed))
    /\ \/ crossed' = crossed \ {c} /\ UNCHANGED doc
       \/ Still(c) /\ doc < MaxDocs /\ doc' = doc + 1 /\ crossed' = (crossed \cup Others(c)) \ {c}
    /\ UNCHANGED <<procvars, launching, conn, tabs, ref, overlap>>

PageChanges ==                          \* by itself or by the user
    /\ alive # {}
    /\ \/ doc < MaxDocs /\ doc' = doc + 1 /\ UNCHANGED <<tabs, alive>>
       \/ TabCloses /\ UNCHANGED doc
    /\ crossed' = crossed \cup {c \in Calls : call[c].what # "none"}
    /\ UNCHANGED <<keeper, stray, info, sock, launching, conn, ref, call, overlap, blunder>>
-----------------------------------------------------------------------------
Next ==
    \/ Connect \/ Launch \/ Launched \/ LaunchFails \/ DaemonRestarts \/ Stop \/ StatusCleans
    \/ \E k \in Keepers : Bind(k) \/ StartBrowser(k) \/ Unlink(k) \/ Ends(k) \/ Killed(k) \/ BrowserEnds(k)
    \/ \E c \in Calls : Open(c) \/ Read(c) \/ CloseBegins(c) \/ CloseEnds(c) \/ Node(c) \/ Act(c)
    \/ PageChanges

Spec == Init /\ [][Next]_vars
-----------------------------------------------------------------------------
TypeOK ==
    /\ \A k \in Keepers : keeper[k] \in {"none", "forked", "bound", "up", "closing", "unlinked", "gone"}
    /\ alive \subseteq Keepers /\ stray \subseteq Keepers /\ {info, sock, launching, conn} \subseteq 0..MaxKeepers
    /\ tabs \in 0..MaxTabs /\ doc \in 1..MaxDocs /\ ref \in 0..MaxDocs

(* Safety: a browser that runs under a keeper that is up can be found: the *)
(* record names that keeper and the path leads to it.  (Unless a keeper    *)
(* was launched while another one was still starting, after a restart of   *)
(* the daemon or a timeout: the second takes the path over, and removes it *)
(* when its browser finds the profile in use.)                             *)
BrowserIsFound == \A k \in alive : keeper[k] = "up" /\ ~overlap => info = k /\ sock = k

(* Safety: the daemon's connection is to the keeper of the record.         *)
ConnectedToRecord == conn \in alive /\ keeper[conn] = "up" /\ ~overlap => info = conn

(* Safety: a call of an agent does not close the last tab, which ends the  *)
(* browser, and does not act on another document than the one its ref came *)
(* from, unless a tab was closed or the page changed during the call.      *)
CallsKeepPage == ~blunder

BrowserAccounted == BrowserIsFound /\ ConnectedToRecord /\ CallsKeepPage
=============================================================================
