----------------------------- MODULE FileLinks -----------------------------
(***************************************************************************)
(* One-time file links: LinkStore and the download and upload routes of    *)
(* pcbridge/filelinks.py, which the tools fs_download_link and             *)
(* fs_upload_link and the HTTP server share.                               *)
(*                                                                         *)
(* A link is a record that both its table entry and a transfer point to:   *)
(* _sweep forgets the entry, the transfer keeps the record.  Files are     *)
(* numbers, one per content; 0 is an absent file.  Other programs change,  *)
(* replace and remove files between any two steps of a transfer, and the   *)
(* daemon may die in any of them.                                          *)
(***************************************************************************)
EXTENDS Integers, FiniteSets

CONSTANTS Transfers,     \* HTTP requests served at a time
          Paths,         \* the files
          HardLinks,     \* those on a file system that has hard links
          MAX_LIVE,      \* open links allowed
          Ttl,           \* link_ttl_seconds
          Remember,      \* REMEMBER_SECONDS
          MaxLinks,      \* bound: links made
          MaxTime,       \* bound: the clock stops here
          MaxContent     \* bound: contents written

FileLinksAssumption ==
    /\ HardLinks \subseteq Paths /\ Paths # {}
    /\ MAX_LIVE \in Nat \ {0} /\ Ttl \in Nat \ {0} /\ Remember \in Nat
    /\ MaxLinks \in Nat /\ MaxTime \in Nat /\ MaxContent \in Nat \ {0}

Absent == 0

VARIABLES now,       \* time.time()
          links,     \* the links made so far, by number
          table,     \* LinkStore._links: the numbers it still knows
          made,      \* how many links were made
          disk,      \* the content of every path
          written,   \* contents used so far
          pc,        \* where each transfer is
          uses,      \* the link each transfer claimed
          content,   \* what it sends or has received
          completed  \* history: complete transfers of each link

transfers == <<pc, uses, content>>
vars == <<now, links, table, made, disk, written, transfers, completed>>

LinkIds == 1..MaxLinks
NoLink == [direction |-> "none", path |-> CHOOSE p \in Paths : TRUE,
           overwrite |-> FALSE, expires |-> 0, state |-> "spent", was |-> Absent]

Init == /\ now = 0
        /\ links = [l \in LinkIds |-> NoLink]
        /\ table = {} /\ made = 0
        /\ disk \in [Paths -> {Absent, 1}] /\ written = 1
        /\ pc = [t \in Transfers |-> "idle"]
        /\ uses = [t \in Transfers |-> 0]
        /\ content = [t \in Transfers |-> Absent]
        /\ completed = [l \in LinkIds |-> 0]

Active == {t \in Transfers : pc[t] # "idle"}
-----------------------------------------------------------------------------
(* The links LinkStore.live counts.                                        *)
Live(known) == {l \in known : \/ links[l].state = "busy"
                              \/ links[l].state = "ready" /\ links[l].expires > now}

(* LinkStore._sweep                                                        *)
Kept == {l \in table : links[l].expires + Remember >= now}

(* LinkStore._add, under the store's lock.                                 *)
Add(direction, p, overwrite, was) ==
    /\ made < MaxLinks
    /\ IF Cardinality(Live(Kept)) >= MAX_LIVE
       THEN table' = Kept /\ UNCHANGED <<links, made>>
       ELSE /\ made' = made + 1
            /\ table' = Kept \cup {made + 1}
            /\ links' = [links EXCEPT ![made + 1] =
                           [direction |-> direction, path |-> p, overwrite |-> overwrite,
                            expires |-> now + Ttl, state |-> "ready", was |-> was]]
    /\ UNCHANGED <<now, disk, written, transfers, completed>>

(* The file is hashed before _add; a change in between shows only in the   *)
(* stamp, as a change after it does.                                       *)
CreateDownload(p) == disk[p] # Absent /\ Add("download", p, FALSE, disk[p])

CreateUpload(p, overwrite) ==
    /\ overwrite \/ disk[p] = Absent
    /\ Add("upload", p, overwrite, Absent)

SetState(l, s) == links' = [links EXCEPT ![l].state = s]
Goto(t, where) == pc' = [pc EXCEPT ![t] = where]

(* LinkStore.claim; a lookup for a page changes nothing.                   *)
Claim(t) ==
    /\ pc[t] = "idle"
    /\ \E l \in table : /\ links[l].state = "ready" /\ links[l].expires > now
                        /\ SetState(l, "busy")
                        /\ uses' = [uses EXCEPT ![t] = l]
    /\ Goto(t, "claimed")
    /\ UNCHANGED <<now, table, made, disk, written, content, completed>>

(* The request is over: LinkStore.release or spend, and the temporary file *)
(* of an upload is unlinked.                                               *)
End(t, s) == /\ Goto(t, "idle")
             /\ uses' = [uses EXCEPT ![t] = 0]
             /\ content' = [content EXCEPT ![t] = Absent]
             /\ SetState(uses[t], s)

Mine(t) == links[uses[t]]
Is(t, direction, where) == pc[t] = where /\ Mine(t).direction = direction

(* download_file: a file that is gone or changed spends the link.          *)
OpenFile(t) ==
    /\ Is(t, "download", "claimed")
    /\ IF disk[Mine(t).path] = Absent \/ disk[Mine(t).path] # Mine(t).was
       THEN End(t, "spent")
       ELSE /\ Goto(t, "streaming")
            /\ content' = [content EXCEPT ![t] = disk[Mine(t).path]]
            /\ UNCHANGED <<links, uses>>
    /\ UNCHANGED <<now, table, made, disk, written, completed>>

(* Faulty variant: the end of the stream is taken for a broken one.        *)
DownloadReleased(t) ==
    /\ Is(t, "download", "streaming")
    /\ completed' = [completed EXCEPT ![uses[t]] = @ + 1]
    /\ End(t, "ready")
    /\ UNCHANGED <<now, table, made, disk, written>>

(* _FileStream: the last byte was handed over ...                          *)
DownloadComplete(t) ==
    /\ Is(t, "download", "streaming")
    /\ completed' = [completed EXCEPT ![uses[t]] = @ + 1]
    /\ End(t, "spent")
    /\ UNCHANGED <<now, table, made, disk, written>>

(* ... or the connection broke, or the file got shorter.                   *)
DownloadBroken(t) ==
    /\ Is(t, "download", "streaming")
    /\ End(t, "ready")
    /\ UNCHANGED <<now, table, made, disk, written, completed>>

(* upload_receive before the body: a bad Content-Length gives the link     *)
(* back; the size limit, too little space and a directory that cannot be   *)
(* written spend it.                                                       *)
ReceiveNothing(t) ==
    /\ Is(t, "upload", "claimed")
    /\ End(t, "ready") \/ End(t, "spent")
    /\ UNCHANGED <<now, table, made, disk, written, completed>>

Receive(t) ==
    /\ Is(t, "upload", "claimed")
    /\ Goto(t, "streaming")
    /\ UNCHANGED <<now, links, table, made, disk, written, uses, content, completed>>

(* The whole body is in the temporary file and its hash is the expected.   *)
BodyComplete(t) ==
    /\ Is(t, "upload", "streaming") /\ written < MaxContent
    /\ written' = written + 1
    /\ content' = [content EXCEPT ![t] = written + 1]
    /\ Goto(t, "place")
    /\ UNCHANGED <<now, links, table, made, disk, uses, completed>>

(* A disconnect or a wrong hash gives the link back; the limit or an error *)
(* of the disk spends it.                                                  *)
BodyRefused(t) ==
    /\ Is(t, "upload", "streaming")
    /\ End(t, "ready") \/ End(t, "spent")
    /\ UNCHANGED <<now, table, made, disk, written, completed>>

Put(t) == disk' = [disk EXCEPT ![Mine(t).path] = content[t]]

(* Faulty variant: renamed over whatever is there.                         *)
PlaceOver(t) ==
    /\ pc[t] = "place"
    /\ Put(t) /\ Goto(t, "placed") /\ UNCHANGED links
    /\ UNCHANGED <<now, table, made, written, uses, content, completed>>

(* _place: a rename with overwrite, else a hard link, which fails when the *)
(* path exists; without hard links it is a look and then a rename.  Any    *)
(* other error of the file system spends the link too.                     *)
Place(t) ==
    LET there == disk[Mine(t).path] # Absent
        linkable == Mine(t).path \in HardLinks IN
    /\ pc[t] = "place"
    /\ \/ /\ Mine(t).overwrite \/ (linkable /\ ~there)
          /\ Put(t) /\ Goto(t, "placed") /\ UNCHANGED <<links, uses, content>>
       \/ /\ ~Mine(t).overwrite /\ ~linkable /\ ~there
          /\ Goto(t, "rename") /\ UNCHANGED <<disk, links, uses, content>>
       \/ End(t, "spent") /\ UNCHANGED disk
    /\ UNCHANGED <<now, table, made, written, completed>>

PlaceRename(t) ==
    /\ pc[t] = "rename"
    /\ Put(t) /\ Goto(t, "placed")
    /\ UNCHANGED <<now, links, table, made, written, uses, content, completed>>

UploadComplete(t) ==
    /\ pc[t] = "placed"
    /\ completed' = [completed EXCEPT ![uses[t]] = @ + 1]
    /\ End(t, "spent")
    /\ UNCHANGED <<now, table, made, disk, written>>
-----------------------------------------------------------------------------
(* A program of the user creates, changes or removes a file.               *)
Others(p) ==
    /\ \/ disk[p] # Absent /\ disk' = [disk EXCEPT ![p] = Absent] /\ UNCHANGED written
       \/ /\ written < MaxContent
          /\ written' = written + 1
          /\ disk' = [disk EXCEPT ![p] = written + 1]
    /\ UNCHANGED <<now, links, table, made, transfers, completed>>

(* The daemon restarts: "kept in memory only", so every link is gone.      *)
Restart ==
    /\ table # {} \/ Active # {}
    /\ table' = {}
    /\ links' = [l \in LinkIds |-> [links[l] EXCEPT !.state = "spent"]]
    /\ pc' = [t \in Transfers |-> "idle"]
    /\ uses' = [t \in Transfers |-> 0]
    /\ content' = [t \in Transfers |-> Absent]
    /\ UNCHANGED <<now, made, disk, written, completed>>

Tick == now < MaxTime /\ now' = now + 1
        /\ UNCHANGED <<links, table, made, disk, written, transfers, completed>>

Transfer(t) == \/ Claim(t) \/ OpenFile(t) \/ DownloadComplete(t) \/ DownloadBroken(t)
               \/ ReceiveNothing(t) \/ Receive(t) \/ BodyComplete(t) \/ BodyRefused(t)
               \/ Place(t) \/ PlaceRename(t) \/ UploadComplete(t)

Next == \/ \E p \in Paths : \/ CreateDownload(p) \/ Others(p)
                            \/ \E o \in BOOLEAN : CreateUpload(p, o)
        \/ \E t \in Transfers : Transfer(t)
        \/ Restart \/ Tick

Spec == Init /\ [][Next]_vars
-----------------------------------------------------------------------------
(* Types; a download that streams has a file open.                         *)
TypeOK ==
    /\ now \in 0..MaxTime /\ made \in 0..MaxLinks /\ table \subseteq 1..made
    /\ links \in [LinkIds -> [direction : {"none", "download", "upload"}, path : Paths,
                              overwrite : BOOLEAN, expires : Nat,
                              state : {"ready", "busy", "spent"}, was : Nat]]
    /\ disk \in [Paths -> 0..written] /\ written \in 1..MaxContent
    /\ pc \in [Transfers -> {"idle", "claimed", "streaming", "place", "rename", "placed"}]
    /\ uses \in [Transfers -> 0..made] /\ content \in [Transfers -> 0..written]
    /\ completed \in [LinkIds -> Nat]
    /\ \A t \in Transfers : Is(t, "download", "streaming") => content[t] # Absent

(* "Only one transfer runs per link at a time", and every way out of a     *)
(* transfer gives the link back or spends it: a link is busy exactly while *)
(* one request holds it, also after the table forgot it.                   *)
BusyWhileTransferred ==
    /\ \A t, u \in Active : uses[t] = uses[u] => t = u
    /\ \A l \in LinkIds : links[l].state = "busy" <=> \E t \in Active : uses[t] = l

(* "The link works for one complete transfer": whatever broke off before.  *)
OneCompleteTransfer == \A l \in LinkIds : completed[l] <= 1

(* The store never knows more than MAX_LIVE open links.                    *)
KnownWithinLimit == Cardinality(Live(table)) <= MAX_LIVE

(* A link is in one hand at a time, works once, and counts as long as it   *)
(* is known.                                                               *)
LinksAccounted == TypeOK /\ BusyWhileTransferred /\ OneCompleteTransfer /\ KnownWithinLimit

(* "Never clobber without overwrite": a file that appeared meanwhile stays *)
(* as it is, where the file system has hard links; elsewhere a file that   *)
(* appears between the look and the rename is replaced.                    *)
NeverClobbers ==
    [][\A t \in Transfers :
          pc'[t] = "placed" /\ pc[t] # "placed" /\ ~Mine(t).overwrite
            => disk[Mine(t).path] = Absent \/ Mine(t).path \notin HardLinks]_vars
=============================================================================
