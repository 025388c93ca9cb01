------------------------------- MODULE Shots -------------------------------
(***************************************************************************)
(* Publishing screenshots (desktop/capture.py): the server and `pcb-shot`, *)
(* one process each, put a picture per monitor in a directory and a record *)
(* that shot= finds in one or two.  A file appears by a hard link, or is   *)
(* copied where links are refused, and never replaces one; a capture       *)
(* publishes all of its files or takes them back.  A process may be        *)
(* killed, and old files are swept.  A name is a random suffix, the        *)
(* monitor and, for a picture, the second; what a file holds is the        *)
(* capture it is from.                                                     *)
(***************************************************************************)
EXTENDS Naturals, Sequences, FiniteSets, SequencesExt

CONSTANTS Calls,             \* captures, in the order they are begun
          Screens,           \* the monitors, a sequence
          Tokens,            \* what secrets.token_hex gives
          Seconds,           \* strftime's
          NoLinks,           \* the directories where hard links are refused
          PUBLISH_ATTEMPTS

ShotsAssumption ==
    /\ PUBLISH_ATTEMPTS \in Nat \ {0} /\ NoLinks \subseteq {"state", "shots", "away"}
    /\ Screens \in Seq(ToSet(Screens)) \ {<<>>} /\ IsInjective(Screens)

(* Who captures: where the pictures go, where the records go, and which    *)
(* directories a new id must be free in.                                   *)
Hosts == {"server", "cli", "out"}
OutDir(host) == CASE host = "server" -> "state" [] host = "cli" -> "shots" [] host = "out" -> "away"
MetaDirs(host) == IF host = "out" THEN <<"away", "shots">> ELSE <<OutDir(host)>>
SearchDirs == <<"state", "shots">>                  \* what shot= looks through
LookupDirs(host) == ToSet(MetaDirs(host)) \cup ToSet(SearchDirs)

VARIABLES
    disk,      \* the files: where, and which capture's
    staging,   \* the captures with a staging directory
    pc,        \* [Calls -> where they are]
    call,      \* what each knows: host, screens, suffix, second, published, tries
    half,      \* the captures whose last file is there but not copied yet
    aged,      \* captures old enough to sweep: 1 the pictures, 2 the records too
    met        \* history: with which captures each overlapped

vars == <<disk, staging, pc, call, half, aged, met>>

Blank == ""
Fresh == [host |-> "server", screens |-> <<>>, suffix |-> Blank, second |-> Blank, published |-> <<>>, tries |-> 0]

Init ==
    /\ disk = {} /\ staging = {}
    /\ pc = [c \in Calls |-> "idle"] /\ call = [c \in Calls |-> Fresh]
    /\ half = {} /\ aged = [c \in Calls |-> 0]
    /\ met = [c \in Calls |-> {}]

Png(c, s) == [kind |-> "png", dir |-> OutDir(call[c].host), screen |-> s, suffix |-> call[c].suffix, second |-> call[c].second]
Record(c, d, s) == [kind |-> "record", dir |-> d, screen |-> s, suffix |-> call[c].suffix, second |-> Blank]
Taken(p) == \E f \in disk : f.path = p
Id(c, s) == <<s, call[c].suffix>>

(* The files of a capture in the order they are published: the pictures,   *)
(* then for each of them its records.                                      *)
Files(c) ==
    LET screens == call[c].screens
        dirs == MetaDirs(call[c].host)
        record(i) == Record(c, dirs[(i % Len(dirs)) + 1], screens[(i \div Len(dirs)) + 1])
    IN  [k \in 1..(Len(screens) + Len(screens) * Len(dirs)) |->
            IF k <= Len(screens) THEN Png(c, screens[k]) ELSE record(k - Len(screens) - 1)]

Goes(c, where) == pc' = [pc EXCEPT ![c] = where]
Dead == {"killed", "torn"}                  \* the second while it took files back
Active == {c \in Calls : pc[c] \in {"publish", "withdraw", "retry"}}
-----------------------------------------------------------------------------
(* capture().                                                              *)
Begin(c) ==                                 \* directories, then the staging directory
    /\ pc[c] = "idle"
    /\ \E host \in Hosts, screens \in {Screens, <<Head(Screens)>>} :      \* all, or one
          call' = [call EXCEPT ![c] = [Fresh EXCEPT !.host = host, !.screens = screens]]
    /\ \/ Goes(c, "render") /\ staging' = staging \cup {c}
       \/ Goes(c, "error") /\ UNCHANGED staging
    /\ UNCHANGED <<disk, half, aged, met>>

Render(c) ==                                \* all the pictures, in the staging directory
    /\ pc[c] = "render"
    /\ Goes(c, "draw") \/ Goes(c, "clean")
    /\ UNCHANGED <<disk, staging, call, half, aged, met>>

Occupied(c, suffix, second) ==
    \E s \in ToSet(call[c].screens) :
        \/ Taken([Png(c, s) EXCEPT !.suffix = suffix, !.second = second])
        \/ \E d \in LookupDirs(call[c].host) : Taken([Record(c, d, s) EXCEPT !.suffix = suffix])

Draw(c) ==                                  \* a suffix and a name nobody uses
    /\ pc[c] = "draw"
    /\ IF call[c].tries = PUBLISH_ATTEMPTS
       THEN Goes(c, "clean") /\ UNCHANGED <<call, met>>
       ELSE \E suffix \in Tokens, second \in Seconds :
              IF Occupied(c, suffix, second)
              THEN call' = [call EXCEPT ![c].tries = @ + 1] /\ UNCHANGED <<pc, met>>
              ELSE /\ call' = [call EXCEPT ![c] = [@ EXCEPT !.tries = call[c].tries + 1, !.suffix = suffix, !.second = second,
                                                          !.published = <<>>]]
                   /\ Goes(c, "publish")
                   /\ met' = [d \in Calls |-> IF d = c THEN met[c] \cup Active
                                              ELSE IF d \in Active THEN met[d] \cup {c} ELSE met[d]]
    /\ UNCHANGED <<disk, staging, half, aged>>

(* Faulty variant: a file counts as published before the link.             *)
PublishNoted(c) ==
    LET p == Files(c)[Len(call[c].published) + 1]
    IN  /\ pc[c] = "publish" /\ Len(call[c].published) < Len(Files(c))
        /\ call' = [call EXCEPT ![c].published = Append(@, p)]
        /\ \/ /\ ~Taken(p)
              /\ disk' = disk \cup {[path |-> p, of |-> c]} /\ UNCHANGED pc
           \/ Taken(p) /\ Goes(c, "retry") /\ UNCHANGED disk
        /\ UNCHANGED <<staging, half, aged, met>>

Publish(c) ==                               \* one more file, unless the guard or the link refuses
    LET p == Files(c)[Len(call[c].published) + 1]
    IN  /\ pc[c] = "publish" /\ c \notin half /\ Len(call[c].published) < Len(Files(c))
        /\ \/ /\ ~Taken(p)
              /\ disk' = disk \cup {[path |-> p, of |-> c]}
              /\ call' = [call EXCEPT ![c].published = Append(@, p)] /\ UNCHANGED pc
              /\ half' = IF p.dir \in NoLinks THEN half \cup {c} ELSE half    \* created for a copy, or linked
           \/ Taken(p) /\ Goes(c, "retry") /\ UNCHANGED <<disk, call, half>>
           \/ Goes(c, "withdraw") /\ UNCHANGED <<disk, call, half>>
        /\ UNCHANGED <<staging, aged, met>>

Copy(c) ==                                  \* the copy is whole, or it fails and goes first
    /\ pc[c] = "publish" /\ c \in half
    /\ \/ half' = half \ {c} /\ UNCHANGED pc
       \/ Goes(c, "withdraw") /\ UNCHANGED half
    /\ UNCHANGED <<disk, staging, call, aged, met>>

Published(c) ==                             \* the guard once more
    /\ pc[c] = "publish" /\ c \notin half /\ Len(call[c].published) = Len(Files(c))
    /\ Goes(c, "ok") \/ Goes(c, "withdraw")
    /\ UNCHANGED <<disk, staging, call, half, aged, met>>

Withdraw(c) ==                              \* one by one, the first published first, but a broken copy before
    LET published == call[c].published
    IN  /\ pc[c] \in {"withdraw", "retry"}
        /\ IF published = <<>>
           THEN Goes(c, IF pc[c] = "retry" THEN "draw" ELSE "clean") /\ UNCHANGED <<disk, call>>
           ELSE /\ disk' = {f \in disk : f.path # IF c \in half THEN Last(published) ELSE Head(published)}
                /\ call' = [call EXCEPT ![c].published = IF c \in half THEN Front(@) ELSE Tail(@)]
                /\ UNCHANGED pc
        /\ half' = half \ {c}
        /\ UNCHANGED <<staging, aged, met>>

Clean(c) ==                                 \* the staging directory goes, however it ended
    /\ pc[c] \in {"ok", "clean"}
    /\ staging' = staging \ {c} /\ Goes(c, IF pc[c] = "ok" THEN "done" ELSE "error")
    /\ call' = [call EXCEPT ![c] = [@ EXCEPT !.published = <<>>, !.tries = 0]]
    /\ UNCHANGED <<disk, half, aged, met>>

Kill(c) ==                                  \* the process is killed
    /\ pc[c] \notin {"idle", "done", "error"} \cup Dead
    /\ Goes(c, IF pc[c] \in {"withdraw", "retry"} THEN "torn" ELSE "killed") /\ UNCHANGED <<disk, staging, call, half, aged, met>>
-----------------------------------------------------------------------------
Ages(c) ==                                  \* hours pass, captures take seconds; a picture is older than its record
    /\ pc[c] \in {"done"} \cup Dead /\ aged[c] < 2
    /\ \A d \in Calls : pc[d] \in {"idle", "done", "error"} \cup Dead
    /\ aged' = [aged EXCEPT ![c] = @ + 1] /\ UNCHANGED <<disk, staging, pc, call, half, met>>

Old(f) == aged[f.of] >= IF f.path.kind = "png" THEN 1 ELSE 2

Sweep(d) ==                                 \* of one directory, with what was left there to stage
    /\ disk' = {f \in disk : f.path.dir = d => ~Old(f)}
    /\ staging' = {c \in staging : OutDir(call[c].host) = d => pc[c] \notin Dead \/ aged[c] = 0}
    /\ <<disk, staging>>' # <<disk, staging>>
    /\ UNCHANGED <<pc, call, half, aged, met>>

Step(c) == \/ Begin(c) \/ Render(c) \/ Draw(c) \/ Publish(c) \/ Copy(c) \/ Published(c) \/ Withdraw(c) \/ Clean(c)
           \/ Kill(c) \/ Ages(c)

Next == (\E c \in Calls : Step(c)) \/ \E d \in {"state", "shots", "away"} : Sweep(d)

Spec == Init /\ [][Next]_vars
-----------------------------------------------------------------------------
(* load_shot: the first directory that has a record of the id.             *)
Found(id) ==
    LET has(d) == {f \in disk : f.path.kind = "record" /\ f.path.dir = d /\ <<f.path.screen, f.path.suffix>> = id}
    IN  {f.of : f \in IF has(SearchDirs[1]) # {} THEN has(SearchDirs[1]) ELSE has(SearchDirs[2])}

TypeOK ==
    /\ staging \subseteq Calls /\ DOMAIN pc = Calls /\ DOMAIN call = Calls
    /\ \A f \in disk : f.of \in Calls /\ f.path.kind \in {"png", "record"}
    /\ \A f, g \in disk : f.path = g.path => f = g
    /\ half \subseteq Calls /\ aged \in [Calls -> 0..2] /\ met \in [Calls -> SUBSET Calls]

(* Safety: a capture that succeeded has every picture and every record it  *)
(* published, and none is half a copy, as long as nothing is swept: no     *)
(* other capture replaces or takes back one of its files.                  *)
SuccessIsWhole ==
    \A c \in Calls : pc[c] \in {"ok", "done"} /\ aged[c] = 0 =>
        /\ c \notin half
        /\ \A p \in ToSet(Files(c)) : [path |-> p, of |-> c] \in disk

(* Safety: a capture that failed left no file and no staging directory,    *)
(* and only a killed one leaves either behind.                             *)
FailureLeavesNothing ==
    \A c \in Calls : pc[c] = "error" => c \notin staging /\ \A f \in disk : f.of # c

(* Safety: a record that can be found has its picture, unless the capture  *)
(* is being taken back (which starts with the pictures) or was killed then,*)
(* or is old: a sweep may take the pictures alone.                         *)
RecordsHavePictures ==
    \A f \in disk : f.path.kind = "record" =>
        \/ [path |-> Png(f.of, f.path.screen), of |-> f.of] \in disk
        \/ pc[f.of] \in {"withdraw", "retry", "torn"}
        \/ aged[f.of] > 0

(* Safety: an id names one capture, wherever shot= looks, unless two       *)
(* captures drew it at the same time.                                      *)
OneShotPerId ==
    \A c, d \in Calls : \A s \in ToSet(Screens) :
        /\ c # d /\ Id(c, s) = Id(d, s) /\ pc[c] = "done" /\ pc[d] = "done" /\ aged[c] = 0 /\ aged[d] = 0
        /\ s \in ToSet(call[c].screens) \cap ToSet(call[d].screens)
        => c \in met[d] /\ Cardinality(Found(Id(c, s))) = 1

ShotsAccounted == TypeOK /\ SuccessIsWhole /\ FailureLeavesNothing /\ RecordsHavePictures /\ OneShotPerId
=============================================================================
