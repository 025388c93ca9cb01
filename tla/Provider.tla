------------------------------ MODULE Provider ------------------------------
(***************************************************************************)
(* The native input provider (desktop/backends/rust.py) between the calls  *)
(* of the daemon and the helper process that holds the devices.  A helper  *)
(* serves one grant and is replaced when a call comes with another; a flag *)
(* says whether there is anything to release.  One write sequence runs at  *)
(* a time; other threads release and close without its lock: the end of a  *)
(* session (daemon.py) and desktop_lock (tools.py), and what closes the    *)
(* resources of a grant.  The helper answers in order, and may be too slow *)
(* or die.  Grants are numbered; the keyboard has one key, which a write   *)
(* presses, and the pointer is treated as the keyboard is.                 *)
(***************************************************************************)
EXTENDS Naturals, Sequences, SequencesExt

CONSTANTS Writer,       \* the thread of the write sequence
          Others,       \* threads that release and close
          NoThread,
          MaxGrants,    \* bound
          MaxHelpers,   \* bound: helpers created
          MaxDeaths     \* bound: helpers that die by themselves

Threads == {Writer} \cup Others

ProviderAssumption ==
    /\ Writer \notin Others /\ NoThread \notin Threads
    /\ MaxGrants \in Nat /\ MaxHelpers \in Nat /\ MaxDeaths \in Nat

VARIABLES
    lease,     \* the grant in the lease file, 0 if none is open
    issued,    \* grants made so far
    client,    \* GrantBoundHelper._client, 0 for none
    served,    \* its _grant, 0 for none
    hlock,     \* who has its _lock
    used,      \* _keyboard_used
    made,      \* helpers created so far
    up,        \* those that close() was not called on
    bound,     \* the grant each process read when it started, 0 before that
    queue,     \* what each was sent and has not handled
    down,      \* those with the key down
    th,        \* the threads: where, under which grant, with which helper, what comes after a release
    deaths,
    crossed    \* history: helpers on which a release and a press met, or a release was not answered

leasevars == <<lease, issued>>
helpervars == <<client, served, hlock, made, up>>
procvars == <<bound, queue, down, deaths>>
vars == <<leasevars, helpervars, used, procvars, th, crossed>>

Helpers == 1..MaxHelpers
Idle == [at |-> "idle", token |-> 0, h |-> 0, next |-> "idle"]

Init ==
    /\ lease = 0 /\ issued = 0
    /\ client = 0 /\ served = 0 /\ hlock = NoThread /\ used = FALSE
    /\ made = 0 /\ up = {}
    /\ bound = [h \in Helpers |-> 0] /\ queue = [h \in Helpers |-> <<>>] /\ down = {}
    /\ th = [t \in Threads |-> Idle]
    /\ deaths = 0 /\ crossed = {}

Ends(t) == th' = [th EXCEPT ![t] = Idle]
Goes(t, at) == th' = [th EXCEPT ![t] =
    CASE at = "idle"  -> Idle
      [] at = "again" -> [Idle EXCEPT !.at = "release", !.next = "close"]     \* close() releases by itself
      [] OTHER        -> [@ EXCEPT !.at = at]]

(* What a release that ends now may have met on helper h.                  *)
Crossed(h) ==
    \/ th[Writer].at \in {"mark", "send", "wait"} /\ th[Writer].h = h
    \/ \E r \in ToSet(queue[h]) : r.what = "press"
-----------------------------------------------------------------------------
(* The lease file, which any process may change.                           *)
Opened == lease' = issued + 1 /\ issued' = issued + 1

GrantElsewhere == issued < MaxGrants /\ Opened /\ UNCHANGED <<helpervars, used, procvars, th, crossed>>

GrantEnds == lease # 0 /\ lease' = 0 /\ UNCHANGED <<issued, helpervars, used, procvars, th, crossed>>
-----------------------------------------------------------------------------
(* A write: find the helper of the grant, mark, ask once.                  *)
Write ==                                     \* admitted under the open grant
    /\ th[Writer].at = "idle" /\ lease # 0
    /\ th' = [th EXCEPT ![Writer] = [Idle EXCEPT !.at = "find", !.token = lease]]
    /\ UNCHANGED <<leasevars, helpervars, used, procvars, crossed>>

New(t) ==                                    \* _create
    /\ made < MaxHelpers /\ made' = made + 1
    /\ client' = made' /\ served' = th[t].token
    /\ th' = [th EXCEPT ![t].at = "mark", ![t].h = made']

(* Faulty variant: the helper there is serves, whatever grant it was for.  *)
FindAnyHelper(t) ==
    /\ th[t].at = "find" /\ hlock = NoThread
    /\ \/ /\ client # 0 /\ th' = [th EXCEPT ![t].at = "mark", ![t].h = client]
          /\ UNCHANGED <<client, served, made, up>>
       \/ /\ client = 0 /\ New(t) /\ up' = up \cup {made'}
    /\ UNCHANGED <<leasevars, hlock, used, procvars, crossed>>

FindHelper(t) ==                             \* for_grant; a superseded helper is released first
    /\ th[t].at = "find" /\ hlock = NoThread
    /\ \/ /\ client # 0 /\ served \notin {0, th[t].token} /\ made < MaxHelpers
          /\ hlock' = t /\ th' = [th EXCEPT ![t].at = "release", ![t].next = "replace"]
          /\ UNCHANGED <<client, served, made, up>>
       \/ /\ client # 0 /\ served \in {0, th[t].token}
          /\ served' = th[t].token /\ th' = [th EXCEPT ![t].at = "mark", ![t].h = client]
          /\ UNCHANGED <<client, hlock, made, up>>
       \/ /\ client = 0 /\ New(t)
          /\ up' = up \cup {made'} /\ UNCHANGED hlock
    /\ UNCHANGED <<leasevars, used, procvars, crossed>>

Replace(t) ==                                \* whether the release worked or not
    /\ th[t].at = "replace" /\ hlock' = NoThread
    /\ New(t) /\ up' = (up \ {client}) \cup {made'}
    /\ down' = down \ {client} /\ queue' = [queue EXCEPT ![client] = <<>>]
    /\ UNCHANGED <<leasevars, used, bound, deaths, crossed>>

Mark(t) ==
    /\ th[t].at = "mark" /\ used' = TRUE /\ Goes(t, "send")
    /\ UNCHANGED <<leasevars, helpervars, procvars, crossed>>

Failed(t) ==                                 \* of a write: the sequence unwinds
    IF t = Writer /\ th[t].at \in {"send", "wait"}
    THEN th' = [th EXCEPT ![t].at = "release", ![t].next = "idle"]
    ELSE Goes(t, "released")

Ask(t) ==                                    \* the first request of a process starts it
    LET h == th[t].h
        what == IF t = Writer /\ th[t].at = "send" THEN "press" ELSE "release"
        started == IF bound[h] = 0 THEN lease ELSE bound[h]
    IN  /\ th[t].at \in {"send", "ask"}
        /\ \/ /\ h \notin up \/ started = 0     \* closed, or it finds no grant
              /\ Failed(t) /\ UNCHANGED <<bound, queue>>
           \/ /\ h \in up /\ started # 0
              /\ bound' = [bound EXCEPT ![h] = started]
              /\ queue' = [queue EXCEPT ![h] = Append(@, [by |-> t, what |-> what, grant |-> th[t].token, live |-> TRUE])]
              /\ Goes(t, IF th[t].at = "send" THEN "wait" ELSE "await")
        /\ UNCHANGED <<leasevars, helpervars, used, down, deaths, crossed>>

TimesOut(t) ==                               \* the helper may still do it
    /\ th[t].at \in {"wait", "await"}
    /\ Failed(t)
    /\ crossed' = IF th[t].at = "await" THEN crossed \cup {th[t].h} ELSE crossed
    /\ LET h == th[t].h
           mine == {i \in DOMAIN queue[h] : queue[h][i].live /\ queue[h][i].by = t}
       IN  \/ mine = {} /\ UNCHANGED queue      \* the helper was closed meanwhile
           \/ \E i \in mine : queue' = [queue EXCEPT ![h] = RemoveAt(@, i)]
           \/ /\ \A r \in ToSet(queue[h]) : r.live     \* bound: one is late
              /\ \E i \in mine : queue' = [queue EXCEPT ![h][i].live = FALSE]
    /\ UNCHANGED <<leasevars, helpervars, used, bound, down, deaths>>
-----------------------------------------------------------------------------
(* release_all: ask the helper if there was a write, and unmark.           *)
Release(t) ==
    /\ th[t].at = "release"
    /\ \/ ~used /\ Goes(t, th[t].next) /\ UNCHANGED <<used, crossed>>
       \/ /\ used /\ client \in {h \in up : bound[h] # 0}
          /\ th' = [th EXCEPT ![t].at = "ask", ![t].h = client] /\ UNCHANGED <<used, crossed>>
       \/ /\ used /\ client \notin {h \in up : bound[h] # 0}     \* no process
          /\ used' = FALSE /\ Goes(t, th[t].next)
          /\ crossed' = crossed \cup {h \in Helpers : Crossed(h)}
    /\ UNCHANGED <<leasevars, helpervars, procvars>>

Released(t) ==
    /\ th[t].at = "released"
    /\ used' = FALSE /\ Goes(t, th[t].next)
    /\ crossed' = crossed \cup {h \in Helpers : Crossed(h)}
    /\ UNCHANGED <<leasevars, helpervars, procvars>>

Close(t) ==                                  \* GrantBoundHelper.close: take it out ...
    /\ th[t].at = "close" /\ hlock = NoThread
    /\ client' = 0 /\ served' = 0
    /\ th' = [th EXCEPT ![t].at = "closing", ![t].h = client]
    /\ UNCHANGED <<leasevars, hlock, made, up, used, procvars, crossed>>

Closing(t) ==                                \* ... and close it, without the lock
    /\ th[t].at = "closing"
    /\ up' = up \ {th[t].h} /\ down' = down \ {th[t].h}
    /\ queue' = [h \in Helpers |-> IF h = th[t].h THEN <<>> ELSE queue[h]]
    /\ Ends(t)
    /\ UNCHANGED <<leasevars, client, served, hlock, made, used, bound, deaths, crossed>>
-----------------------------------------------------------------------------
(* The other threads.                                                      *)
Starts(t, at, next) == th[t].at = "idle" /\ th' = [th EXCEPT ![t] = [Idle EXCEPT !.at = at, !.next = next]]

SessionEnds(t) == Starts(t, "release", "idle") /\ UNCHANGED <<leasevars, helpervars, used, procvars, crossed>>

Lock(t) ==                                   \* desktop_lock: revoke, release, close (which releases again)
    /\ Starts(t, "release", "again") /\ lease' = 0
    /\ UNCHANGED <<issued, helpervars, used, procvars, crossed>>
-----------------------------------------------------------------------------
(* The helper: requests in order; its watchdog; its limit on holding.      *)
Wakes(r, ok) ==
    IF ~r.live THEN UNCHANGED th
    ELSE IF th[r.by].at = "await" THEN Goes(r.by, "released")
    ELSE IF ok THEN Ends(r.by)
    ELSE Failed(r.by)

Handle(h) ==
    /\ queue[h] # <<>>
    /\ LET r == Head(queue[h])
           ok == r.what = "release" \/ (r.grant = bound[h] /\ bound[h] = lease)
       IN  /\ down' = IF r.what = "press" /\ ok THEN down \cup {h}
                      ELSE IF r.what = "release" THEN down \ {h} ELSE down
           /\ Wakes(r, ok)
           /\ crossed' = IF r.what = "press" /\ \E t \in Threads : th[t].at \in {"ask", "await", "released"}
                         THEN crossed \cup {h} ELSE crossed
    /\ queue' = [queue EXCEPT ![h] = Tail(@)]
    /\ UNCHANGED <<leasevars, helpervars, used, bound, deaths>>

LetsGo(h) ==                                 \* held too long, or its grant ended
    /\ h \in down /\ down' = down \ {h}
    /\ UNCHANGED <<leasevars, helpervars, used, bound, queue, deaths, th, crossed>>

Die(h) ==                                    \* whoever waits is told
    /\ deaths < MaxDeaths /\ h \in up /\ bound[h] # 0
    /\ deaths' = deaths + 1
    /\ down' = down \ {h} /\ queue' = [queue EXCEPT ![h] = <<>>] /\ bound' = [bound EXCEPT ![h] = 0]
    /\ th' = [t \in Threads |->
                IF th[t].at = "await" /\ th[t].h = h THEN [th[t] EXCEPT !.at = "released"]
                ELSE IF th[t].at = "wait" /\ th[t].h = h THEN [th[t] EXCEPT !.at = "release", !.next = "idle"]
                ELSE th[t]]
    /\ UNCHANGED <<leasevars, helpervars, used, crossed>>
-----------------------------------------------------------------------------
Step(t) == \/ FindHelper(t) \/ Replace(t) \/ Mark(t) \/ Ask(t)
           \/ Release(t) \/ Released(t) \/ Close(t) \/ Closing(t)

Next ==
    \/ GrantElsewhere \/ GrantEnds \/ Write
    \/ \E t \in Threads : Step(t) \/ TimesOut(t)
    \/ \E t \in Others : SessionEnds(t) \/ Lock(t)
    \/ \E h \in Helpers : Handle(h) \/ LetsGo(h) \/ Die(h)

Spec == Init /\ [][Next]_vars
-----------------------------------------------------------------------------
TypeOK ==
    /\ lease \in 0..MaxGrants /\ issued \in 0..MaxGrants
    /\ client \in 0..MaxHelpers /\ served \in 0..MaxGrants /\ hlock \in Threads \cup {NoThread}
    /\ used \in BOOLEAN /\ made \in 0..MaxHelpers /\ up \subseteq Helpers
    /\ bound \in [Helpers -> 0..MaxGrants] /\ down \subseteq Helpers
    /\ DOMAIN th = Threads /\ deaths \in 0..MaxDeaths /\ crossed \subseteq Helpers

(* Safety: a key that is down on the current helper is one the provider    *)
(* would release, unless a release met the press or was not answered.      *)
(* (Then only the helper's own limit lifts it: a second release_all sends  *)
(* nothing, and held() names nothing.)                                     *)
HeldIsMarked == client \in down /\ ~used => client \in crossed

(* Safety: a helper that runs is the current one, or some thread is about  *)
(* to close it.  None stays behind under a grant that is over because      *)
(* another took its place.                                                 *)
NoStrayHelper == \A h \in up : h = client \/ \E t \in Threads : th[t].at = "closing" /\ th[t].h = h

(* Safety: a key goes down only under the grant that is open.              *)
GrantedPress == [][\A h \in Helpers : h \in down' \ down => bound[h] = lease /\ (h = client => served = lease)]_vars
=============================================================================
