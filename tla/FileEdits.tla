------------------------------ MODULE FileEdits -----------------------------
(***************************************************************************)
(* fs_write, fs_edit and fs_read on one path (files.py and their tools in  *)
(* tools.py).  Tools run in worker threads and take no lock: they read the *)
(* file, write a copy, look at the file again and replace it.  Chunked     *)
(* uploads share one staging file per path.  A file's content is the       *)
(* sequence of what was written: the number of a call, or a chunk.         *)
(***************************************************************************)
EXTENDS Naturals, Sequences, FiniteSets, SequencesExt

CONSTANTS Threads,      \* worker threads
          Upload,       \* the file that is uploaded, chunk by chunk
          Original,     \* what is in the file at first
          OneUploader,  \* a chunk is sent when the answer to the last has come
          NoFile, NoText,
          MaxCalls      \* bound

Inodes == 1..(Cardinality(Threads) + 3)     \* one more than two names and all threads use

ASSUME FileEditsAssumption ==
    /\ IsFiniteSet(Threads) /\ Upload \in Seq(Nat \ 0..MaxCalls) /\ Len(Upload) > 1
    /\ Original \in Seq(Nat \ (0..MaxCalls \cup ToSet(Upload)))
    /\ OneUploader \in BOOLEAN /\ NoFile \notin Inodes /\ NoText \notin Seq(Nat) /\ MaxCalls \in Nat

(* What a caller may ask: fs_edit; fs_write; a chunk with its offset and,  *)
(* when it is the last, final_sha256; the first chunk of something else    *)
(* for the same path.  "same": with expected_sha256; "new": create_only.   *)
Requests ==
    {[op |-> "edit", cond |-> "same"], [op |-> "append", cond |-> "any"]}
        \cup {[op |-> "write", cond |-> c] : c \in {"any", "same", "new"}}
        \cup {[op |-> "chunk", cond |-> "any", at |-> i, bytes |-> Upload[i + 1]] : i \in 0..(Len(Upload) - 2)}
        \cup {[op |-> "chunk", cond |-> c, at |-> Len(Upload) - 1, bytes |-> Last(Upload)] : c \in {"any", "same", "new"}}
        \cup {[op |-> "chunk", cond |-> "any", at |-> 0, bytes |-> 0]}

Idle == [pc |-> "idle", req |-> [op |-> "none", cond |-> "any"], id |-> 0, fd |-> NoFile,
         want |-> NoText, before |-> NoText, landed |-> {}]

VARIABLES
    target, staging, \* the inodes that the path and its staging file name
    data,            \* the contents of inodes
    calls,           \* calls so far
    call,            \* per thread [pc, req, id, fd, want, before, landed]: its
                     \* open file, the content whose hash was passed, the
                     \* content it read, what others wrote since its last look
    reader,          \* a client that pages [at, hash, offset, snap, got], and whether
                     \* the file left what was read and came back to it
    upset            \* history: what conditional writes dropped unseen

filevars == <<target, staging, data>>
vars == <<filevars, calls, call, reader, upset>>

Text(inode) == IF inode = NoFile THEN NoText ELSE data[inode]
Current == Text(target)
InUse == ({target, staging} \cup {call[t].fd : t \in Threads}) \ {NoFile}
Fresh == CHOOSE i \in Inodes \ InUse : TRUE

Init ==
    /\ target = 1 /\ staging = NoFile /\ data = [i \in Inodes |-> IF i = 1 THEN Original ELSE <<>>]
    /\ calls = 0 /\ call = [t \in Threads |-> Idle]
    /\ reader = [at |-> "between", hash |-> NoText, offset |-> 0, snap |-> NoText, got |-> <<>>,
                 again |-> FALSE]
    /\ upset = {}

To(t, step) == call' = [call EXCEPT ![t].pc = step]
Return(t) == call' = [call EXCEPT ![t] = Idle]

(* The numbers come into the file behind the last look of u.               *)
Unseen(u, numbers) ==
    [call[u] EXCEPT !.landed = @ \cup (IF call[u].pc \in {"replace", "place"} THEN numbers ELSE {})]

(* The call of thread t ends by making the file hold text.                 *)
Lands(t, text) ==
    LET seen   == IF call[t].req.op = "edit" THEN {} ELSE ToSet(call[t].want)
        lost   == IF Current = NoText THEN {} ELSE ToSet(Current) \ ToSet(text)
    IN  /\ upset' = IF call[t].req.cond = "same" THEN upset \cup (lost \ (seen \cup call[t].landed)) ELSE upset
        /\ call' = [u \in Threads |-> IF u = t THEN Idle ELSE Unseen(u, ToSet(text))]

(* History: the file holds what the reader's cursor names, and did not     *)
(* before.                                                                 *)
ReaderSees ==
    LET now == IF target' = NoFile THEN NoText ELSE data'[target'] IN
    reader' = IF now # Current /\ now \in {reader.snap, reader.hash} \ {NoText}
              THEN [reader EXCEPT !.again = TRUE] ELSE reader
-----------------------------------------------------------------------------
(* A caller that passes a hash has read the file at some time before.      *)
Call(t, r) ==
    /\ call[t].pc = "idle" /\ calls < MaxCalls /\ calls' = calls + 1
    /\ r.op = "chunk" /\ OneUploader => \A u \in Threads : call[u].req.op # "chunk"
    /\ r.cond = "same" => Current # NoText
    /\ call' = [call EXCEPT ![t] = [Idle EXCEPT !.pc = "called", !.req = r, !.id = calls + 1,
                                   !.want = IF r.cond = "same" THEN Current ELSE NoText]]
    /\ UNCHANGED <<filevars, reader, upset>>

(* fs_edit: apply_edits and check_expected; fs_write: the looks before.    *)
Read(t) ==
    LET r == call[t].req IN
    /\ call[t].pc = "called" /\ r.op # "chunk"
    /\ IF \/ r.op = "edit" /\ Current = NoText
          \/ r.op = "write" /\ r.cond = "new" /\ Current # NoText
          \/ r.op = "write" /\ r.cond = "same" /\ Current # call[t].want
       THEN Return(t)
       ELSE call' = [call EXCEPT ![t].before = Current,
                        ![t].pc = IF r.op = "append" /\ Current # NoText THEN "append" ELSE "look"]
    /\ UNCHANGED <<filevars, calls, reader, upset>>

(* Faulty variant: the file is not compared with what the edit began with. *)
LookAside(t) ==
    /\ call[t].pc = "look"
    /\ To(t, "replace")
    /\ UNCHANGED <<filevars, calls, reader, upset>>

(* atomic_write: the copy is on disk, and the file is read once more ...   *)
Look(t) ==
    /\ call[t].pc = "look"
    /\ IF call[t].req.cond = "same" /\ Current # call[t].before THEN Return(t) ELSE To(t, "replace")
    /\ UNCHANGED <<filevars, calls, reader, upset>>

Replace(t) ==             \* ... os.replace
    /\ call[t].pc = "replace"
    /\ LET text == IF call[t].req.op = "edit" THEN Append(call[t].before, call[t].id) ELSE <<call[t].id>> IN
       /\ target' = Fresh /\ data' = [data EXCEPT ![Fresh] = text]
       /\ Lands(t, text)
    /\ UNCHANGED <<staging, calls>> /\ ReaderSees

OpenAppend(t) ==          \* fs_write with append, a file that is there
    /\ call[t].pc = "append" /\ target # NoFile
    /\ call' = [call EXCEPT ![t].pc = "put", ![t].fd = target]
    /\ UNCHANGED <<filevars, calls, reader, upset>>

OpenAppendNew(t) ==       \* it is not there any more
    /\ call[t].pc = "append" /\ target = NoFile
    /\ target' = Fresh /\ data' = [data EXCEPT ![Fresh] = <<>>]
    /\ call' = [call EXCEPT ![t].pc = "put", ![t].fd = Fresh]
    /\ UNCHANGED <<staging, calls, upset>> /\ ReaderSees

PutAppend(t) ==
    /\ call[t].pc = "put" /\ call[t].req.op = "append"
    /\ data' = [data EXCEPT ![call[t].fd] = Append(@, call[t].id)]
    /\ IF call[t].fd = target THEN Lands(t, Append(Current, call[t].id)) ELSE Return(t) /\ UNCHANGED upset
    /\ UNCHANGED <<target, staging, calls>> /\ ReaderSees
-----------------------------------------------------------------------------
(* upload_chunk: out of order, or go on.                                   *)
Stat(t) ==
    /\ call[t].pc = "called" /\ call[t].req.op = "chunk"
    /\ IF call[t].req.at > 0 /\ (staging = NoFile \/ Len(Text(staging)) # call[t].req.at)
       THEN Return(t) ELSE To(t, "open")
    /\ UNCHANGED <<filevars, calls, reader, upset>>

OpenStage(t) ==           \* a first chunk truncates what is staged
    /\ call[t].pc = "open"
    /\ LET i == IF staging = NoFile THEN Fresh ELSE staging IN
       /\ staging' = i
       /\ data' = IF staging = NoFile \/ call[t].req.at = 0 THEN [data EXCEPT ![i] = <<>>] ELSE data
       /\ call' = [call EXCEPT ![t].pc = "put", ![t].fd = i]
    /\ UNCHANGED <<target, calls, reader, upset>>

PutChunk(t) ==
    LET r == call[t].req IN
    /\ call[t].pc = "put" /\ r.op = "chunk"
    /\ data' = [data EXCEPT ![call[t].fd] = IF r.at = 0 THEN <<r.bytes>> \o SubSeq(@, 2, Len(@))
                                                        ELSE Append(@, r.bytes)]
    /\ LET next == IF r.at = Len(Upload) - 1 /\ staging # NoFile
                   THEN [call[t] EXCEPT !.pc = "hash", !.fd = NoFile] ELSE Idle
           in   == IF call[t].fd = target THEN {r.bytes} ELSE {}           \* it was placed meanwhile
       IN  call' = [u \in Threads |-> IF u = t THEN next ELSE Unseen(u, in)]
    /\ UNCHANGED <<target, staging, calls, upset>> /\ ReaderSees

Discard(t) == staging' = NoFile /\ Return(t)

(* Faulty variant: the bytes are not compared with final_sha256.           *)
HashAny(t) ==
    /\ call[t].pc = "hash"
    /\ IF staging = NoFile THEN Return(t) /\ UNCHANGED staging
       ELSE To(t, "check") /\ UNCHANGED staging
    /\ UNCHANGED <<target, data, calls, reader, upset>>

Hash(t) ==                \* the whole of it, against final_sha256
    /\ call[t].pc = "hash"
    /\ IF staging = NoFile THEN Return(t) /\ UNCHANGED staging
       ELSE IF Text(staging) # Upload THEN Discard(t)
       ELSE To(t, "check") /\ UNCHANGED staging
    /\ UNCHANGED <<target, data, calls, reader, upset>>

CheckTarget(t) ==         \* create_only, expected_sha256
    LET r == call[t].req IN
    /\ call[t].pc = "check"
    /\ IF (r.cond = "new" /\ Current # NoText) \/ (r.cond = "same" /\ Current # call[t].want)
       THEN Discard(t) ELSE To(t, "place") /\ UNCHANGED staging
    /\ UNCHANGED <<target, data, calls, reader, upset>>

Place(t) ==
    /\ call[t].pc = "place"
    /\ IF staging = NoFile
       THEN Return(t) /\ UNCHANGED <<target, staging, upset>>
       ELSE target' = staging /\ staging' = NoFile /\ Lands(t, Text(staging))
    /\ UNCHANGED <<data, calls>> /\ ReaderSees
-----------------------------------------------------------------------------
Vanish ==                 \* somebody deletes the file
    /\ target # NoFile /\ calls < MaxCalls /\ calls' = calls + 1
    /\ target' = NoFile
    /\ UNCHANGED <<staging, data, call, reader, upset>>

Die ==                    \* the daemon, with all its threads; files stay
    /\ \E t \in Threads : call[t] # Idle
    /\ call' = [t \in Threads |-> Idle]
    /\ UNCHANGED <<filevars, calls, reader, upset>>
-----------------------------------------------------------------------------
(* fs_read: snapshot, and parse_cursor for every page but the first ...    *)
Snapshot ==
    /\ reader.at = "between" /\ target # NoFile
    /\ reader' = IF reader.hash # NoText /\ reader.hash # Current
                 THEN [at |-> "refused", hash |-> NoText, offset |-> 0, snap |-> NoText, got |-> <<>>, again |-> FALSE]
                 ELSE [reader EXCEPT !.at = "page", !.snap = Current]
    /\ UNCHANGED <<filevars, calls, call, upset>>

(* ... then the page itself, from the file as it is by then, one number;   *)
(* the cursor to the next names the snapshot.                              *)
ReadPage ==
    /\ reader.at = "page" /\ target # NoFile
    /\ LET page == IF reader.offset < Len(Current) THEN <<Current[reader.offset + 1]>> ELSE <<>>
           end  == reader.offset + Len(page)
       IN  reader' = [reader EXCEPT !.at = IF end < Len(reader.snap) THEN "between" ELSE "end",
                        !.hash = reader.snap, !.offset = end, !.got = @ \o page]
    /\ UNCHANGED <<filevars, calls, call, upset>>

PageGone ==               \* an error; the client may ask again
    /\ reader.at = "page" /\ target = NoFile
    /\ reader' = [reader EXCEPT !.at = "between", !.snap = NoText]
    /\ UNCHANGED <<filevars, calls, call, upset>>
-----------------------------------------------------------------------------
Step(t) ==
    \/ \E r \in Requests : Call(t, r)
    \/ Read(t) \/ Look(t) \/ Replace(t) \/ OpenAppend(t) \/ OpenAppendNew(t) \/ PutAppend(t)
    \/ Stat(t) \/ OpenStage(t) \/ PutChunk(t) \/ Hash(t) \/ CheckTarget(t) \/ Place(t)

Next == (\E t \in Threads : Step(t)) \/ Vanish \/ Die \/ Snapshot \/ ReadPage \/ PageGone

Spec == Init /\ [][Next]_vars
-----------------------------------------------------------------------------
TypeOK ==
    /\ {target, staging} \subseteq Inodes \cup {NoFile} /\ (target = staging => target = NoFile)
    /\ data \in [Inodes -> Seq(Nat)] /\ calls \in 0..MaxCalls
    /\ \A t \in Threads :
          /\ call[t].pc \in {"idle", "called", "look", "replace", "append", "put", "open", "hash", "check", "place"}
          /\ call[t].fd \in Inodes \cup {NoFile} /\ (call[t].pc = "put" <=> call[t].fd # NoFile)
    /\ reader.at \in {"between", "page", "refused", "end"}

(* A write made for a content (fs_edit, expected_sha256) drops nothing     *)
(* that it has not seen, except what came after its last look: "a change   *)
(* made in between is a conflict, not a silent overwrite" (files.py:321),  *)
(* short of that last moment.                                              *)
DropsOnlyUnseen == upset = {}

(* "The last chunk carries final_sha256, so the file appears only once     *)
(* every byte arrived intact" (tools.py:1177): the file is never a part of *)
(* the upload, nor the upload with some of it twice.  So it is while one   *)
(* call uploads at a time: nothing keeps a second one from the staging     *)
(* file between the comparison of the first with the hash and its rename.  *)
UploadIntact ==
    target # NoFile /\ ToSet(Current) \cap ToSet(Upload) # {} => IsPrefix(Upload, Current)
        /\ \A i \in (Len(Upload) + 1)..Len(Current) : Current[i] \notin ToSet(Upload)

(* A client that has followed the cursors to the end has read pages of one *)
(* content, except that the last page may be of a later one (the code      *)
(* compares the file with the cursor and then reads the page), unless the  *)
(* file came back to that content on the way: a page between may be of     *)
(* what it held meanwhile.                                                 *)
PagesAgree ==
    reader.at = "end" /\ ~reader.again => IsPrefix(SubSeq(reader.got, 1, Len(reader.got) - 1), reader.snap)
=============================================================================
