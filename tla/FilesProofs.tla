----------------------------- MODULE FilesProofs -----------------------------
(***************************************************************************)
(* Proofs about the files: fs_read, fs_write and fs_edit (FileEdits), the  *)
(* one-time links (FileLinks), the configuration (Settings) and the        *)
(* screenshots (Shots), for any threads, transfers, editors, calls and     *)
(* bounds.                                                                 *)
(***************************************************************************)
EXTENDS MCFiles, FiniteSetTheorems, SequenceTheorems, TLAPS

filesvars == <<part, vars, linkvars, shotvars, configvars>>
-----------------------------------------------------------------------------
(* FileEdits.  A conditional write that has had its last look knows all    *)
(* that is in the file, apart from what came in since (landed).            *)
Reqs == Requests \cup {Idle.req}
Contents == Seq(Nat) \cup {NoText}
Steps == {"idle", "called", "look", "replace", "append", "put", "open", "hash", "check", "place"}
CallRecords == [pc : Steps, req : Reqs, id : Nat, fd : Inodes \cup {NoFile},
                want : Contents, before : Contents, landed : SUBSET Nat]
Known(c) == IF c.req.op = "chunk" THEN c.want ELSE c.before
Conditional(c) == c.req.cond = "same"

Inside == IF target = NoFile THEN {} ELSE ToSet(data[target])

EditTypes ==
    /\ target \in Inodes \cup {NoFile} /\ staging \in Inodes \cup {NoFile}
    /\ target = staging => target = NoFile
    /\ data \in [Inodes -> Seq(Nat)] /\ calls \in Nat
    /\ call \in [Threads -> CallRecords]

CallOK(c, inside) ==
    /\ c.pc = "put" => c.fd # NoFile /\ c.req.op \in {"append", "chunk"}
    /\ c.pc = "append" => c.req.op = "append"
    /\ c.pc \in {"open", "hash", "check", "place"} => c.req.op = "chunk"
    /\ c.pc \in {"look", "replace"} => c.req.op # "chunk"
    /\ c.pc \in {"look", "replace"} /\ c.req.op = "edit" => c.before # NoText
    /\ c.pc \in {"look", "replace"} /\ Conditional(c) /\ c.req.op # "edit" => c.want = c.before
    /\ c.pc \in {"replace", "place"} /\ Conditional(c) => inside \subseteq ToSet(Known(c)) \cup c.landed

LooksOK == \A t \in Threads : CallOK(call[t], Inside)

EditInv == EditTypes /\ LooksOK /\ DropsOnlyUnseen

(* What a caller may ask: its chunk is numbered, and only these calls are  *)
(* made for a content.                                                     *)
LEMMA RequestFacts ==
    \A r \in Reqs : /\ r.op = "chunk" => r.at \in Nat /\ r.bytes \in Nat
                    /\ r.cond = "same" => r.op \in {"edit", "write", "chunk"}
  <1>1. Last(Upload) \in Nat /\ \A i \in 0..(Len(Upload) - 2) : Upload[i + 1] \in Nat
    BY FileEditsAssumption DEF Last
  <1>2. Len(Upload) - 1 \in Nat
    BY FileEditsAssumption
  <1> QED
    BY <1>1, <1>2 DEF Reqs, Requests, Idle

LEMMA IdleIsRecord == Idle \in CallRecords
  <1>1. Idle.req \in Reqs
    BY DEF Reqs
  <1>2. Idle = [pc |-> "idle", req |-> Idle.req, id |-> 0, fd |-> NoFile, want |-> NoText,
                before |-> NoText, landed |-> {}]
    BY DEF Idle
  <1>3. NoText \in Contents /\ NoFile \in Inodes \cup {NoFile} /\ {} \in SUBSET Nat /\ "idle" \in Steps
    BY Zenon DEF Contents, Steps
  <1> HIDE DEF Idle
  <1> QED
    BY <1>1, <1>2, <1>3 DEF CallRecords

(* What a sequence holds after it was appended to, or begun anew with its  *)
(* first element replaced.                                                 *)
LEMMA ToSetAppend ==
  ASSUME NEW s \in Seq(Nat), NEW e \in Nat
  PROVE  /\ ToSet(Append(s, e)) = ToSet(s) \cup {e}
         /\ ToSet(<<e>>) = {e} /\ ToSet(<<>>) = {}
  <1> DEFINE z == Append(s, e)
  <1>1. /\ z \in Seq(Nat) /\ DOMAIN z = 1..(Len(s) + 1) /\ DOMAIN s = 1..Len(s) /\ Len(s) \in Nat
        /\ \A i \in 1..Len(s) : z[i] = s[i]
        /\ z[Len(s) + 1] = e
    OBVIOUS
  <1>2. \A i \in DOMAIN z : i \in DOMAIN s \/ i = Len(s) + 1
    BY <1>1
  <1>3. {z[i] : i \in DOMAIN z} = {s[i] : i \in DOMAIN s} \cup {e}
    <2> HIDE DEF z
    <2>1. \A i \in DOMAIN z : z[i] \in {s[j] : j \in DOMAIN s} \cup {e}
      BY <1>1, <1>2
    <2>2. \A i \in DOMAIN s : i \in DOMAIN z /\ s[i] = z[i]
      BY <1>1
    <2>3. Len(s) + 1 \in DOMAIN z
      BY <1>1
    <2> QED
      BY <1>1, <2>1, <2>2, <2>3
  <1>4. DOMAIN <<e>> = {1} /\ <<e>>[1] = e /\ DOMAIN <<>> = {}
    OBVIOUS
  <1> QED
    BY <1>3, <1>4 DEF ToSet

LEMMA ToSetOverwrite ==
  ASSUME NEW s \in Seq(Nat), NEW e \in Nat
  PROVE  /\ <<e>> \o SubSeq(s, 2, Len(s)) \in Seq(Nat)
         /\ ToSet(<<e>> \o SubSeq(s, 2, Len(s))) \subseteq ToSet(s) \cup {e}
  <1> DEFINE r == SubSeq(s, 2, Len(s))
             z == <<e>> \o r
  <1>1. r \in Seq(Nat) /\ \A i \in DOMAIN r : i + 1 \in DOMAIN s /\ r[i] = s[i + 1]
    BY SubSeqProperties
  <1>2. z \in Seq(Nat) /\ \A i \in DOMAIN z : z[i] = e \/ (i - 1 \in DOMAIN r /\ z[i] = r[i - 1])
    <2> HIDE DEF r
    <2>1. <<e>> \in Seq(Nat) /\ Len(<<e>>) = 1 /\ <<e>>[1] = e
      OBVIOUS
    <2>2. /\ z \in Seq(Nat) /\ Len(z) = 1 + Len(r)
          /\ \A i \in 1..Len(z) : z[i] = IF i <= 1 THEN <<e>>[i] ELSE r[i - 1]
      BY <1>1, <2>1, ConcatProperties
    <2> QED
      BY <1>1, <2>1, <2>2
  <1>3. \A i \in DOMAIN z : z[i] \in {s[j] : j \in DOMAIN s} \cup {e}
    <2> HIDE DEF r, z
    <2> QED
      BY <1>1, <1>2
  <1> QED
    BY <1>2, <1>3 DEF ToSet

(* There is always a number for a new file.                                *)
LEMMA FreshIsFree == EditTypes => Fresh \in Inodes \ InUse
  <1> SUFFICES ASSUME EditTypes PROVE \E i \in Inodes : i \notin InUse
    BY DEF Fresh
  <1> DEFINE fds == [t \in Threads |-> call[t].fd]
             open == {call[t].fd : t \in Threads}
             names == open \cup {target}
             used == names \cup {staging}
  <1>1. IsFiniteSet(Threads) /\ Cardinality(Threads) \in Nat
    BY FileEditsAssumption, FS_CardinalityType
  <1>2. IsFiniteSet(open) /\ Cardinality(open) <= Cardinality(Threads) /\ Cardinality(open) \in Nat
    <2>1. fds \in Surjection(Threads, open)
      BY DEF Surjection
    <2> QED
      BY <1>1, <2>1, FS_Surjection, FS_CardinalityType
  <1>3. IsFiniteSet(names) /\ Cardinality(names) <= Cardinality(Threads) + 1 /\ Cardinality(names) \in Nat
    <2>1. Cardinality(names) = IF target \in open THEN Cardinality(open) ELSE Cardinality(open) + 1
      BY <1>2, FS_AddElement, Zenon
    <2>2. IsFiniteSet(names)
      BY <1>2, FS_AddElement, Zenon
    <2> QED
      BY <1>1, <1>2, <2>1, <2>2
  <1>4. IsFiniteSet(used) /\ Cardinality(used) <= Cardinality(Threads) + 2 /\ Cardinality(used) \in Nat
    <2>1. Cardinality(used) = IF staging \in names THEN Cardinality(names) ELSE Cardinality(names) + 1
      BY <1>3, FS_AddElement, Zenon
    <2>2. IsFiniteSet(used)
      BY <1>3, FS_AddElement, Zenon
    <2> QED
      BY <1>1, <1>3, <2>1, <2>2
  <1>5. IsFiniteSet(Inodes) /\ Cardinality(Inodes) = Cardinality(Threads) + 3
    BY <1>1, FS_Interval DEF Inodes
  <1>6. ~(Inodes \subseteq used)
    <2> SUFFICES ASSUME Inodes \subseteq used PROVE FALSE
      OBVIOUS
    <2>1. Cardinality(Inodes) <= Cardinality(used)
      BY <1>4, FS_Subset
    <2> QED
      BY <1>1, <1>4, <1>5, <2>1
  <1> QED
    BY <1>6 DEF InUse
(* Thread t goes on to the record c, and what came into the file is noted  *)
(* for the others.                                                         *)
LEMMA OthersStay ==
  ASSUME EditInv, NEW t \in Threads, NEW c \in CallRecords, NEW new \in SUBSET Nat,
         call' = [u \in Threads |-> IF u = t THEN c ELSE Unseen(u, new)],
         Inside' \subseteq Inside \cup new, CallOK(c, Inside')
  PROVE  call' \in [Threads -> CallRecords] /\ LooksOK'
  <1> USE DEF EditInv, EditTypes, LooksOK, CallOK, Known, Conditional
  <1>1. ASSUME NEW u \in Threads, u # t
        PROVE  call'[u] \in CallRecords /\ CallOK(call'[u], Inside')
    <2>1. call'[u] = Unseen(u, new) /\ call[u] \in CallRecords
      BY <1>1
    <2>2. /\ call'[u] \in CallRecords
          /\ call'[u].pc = call[u].pc /\ call'[u].req = call[u].req /\ call'[u].fd = call[u].fd
          /\ call'[u].want = call[u].want /\ call'[u].before = call[u].before
          /\ call[u].landed \subseteq call'[u].landed
          /\ call'[u].pc \in {"replace", "place"} => new \subseteq call'[u].landed
      <3> DEFINE more == IF call[u].pc \in {"replace", "place"} THEN new ELSE {}
      <3>1. call'[u] = [call[u] EXCEPT !.landed = @ \cup more] /\ more \in SUBSET Nat
        BY <2>1 DEF Unseen
      <3> HIDE DEF more
      <3>2. /\ call'[u] \in CallRecords
            /\ call'[u].pc = call[u].pc /\ call'[u].req = call[u].req /\ call'[u].fd = call[u].fd
            /\ call'[u].want = call[u].want /\ call'[u].before = call[u].before
            /\ call'[u].landed = call[u].landed \cup more
        <4> SUFFICES ASSUME NEW d \in CallRecords, NEW e, e = [d EXCEPT !.landed = @ \cup more]
                     PROVE  /\ e \in CallRecords
                            /\ e.pc = d.pc /\ e.req = d.req /\ e.fd = d.fd
                            /\ e.want = d.want /\ e.before = d.before /\ e.landed = d.landed \cup more
          BY <2>1, <3>1
        <4> QED
          BY <3>1 DEF CallRecords
      <3> QED
        BY <3>2 DEF more
    <2>3. CallOK(call[u], Inside)
      OBVIOUS
    <2>4. Known(call'[u]) = Known(call[u])
      BY <2>2
    <2> HIDE DEF Known
    <2> QED
      BY <2>2, <2>3, <2>4
  <1>2. call'[t] = c
    OBVIOUS
  <1> QED
    BY <1>1, <1>2

LEMMA Moves ==
  ASSUME EditInv, NEW t \in Threads, NEW c \in CallRecords, call' = [call EXCEPT ![t] = c],
         Inside' \subseteq Inside, CallOK(c, Inside')
  PROVE  call' \in [Threads -> CallRecords] /\ LooksOK'
  <1> USE DEF EditInv, EditTypes, LooksOK
  <1>1. ASSUME NEW u \in Threads, u # t PROVE CallOK(call'[u], Inside')
    BY <1>1 DEF CallOK
  <1> QED
    BY <1>1

(* A call that lands its text drops nothing of what it has not seen.       *)
LEMMA Landing ==
  ASSUME EditInv, NEW t \in Threads, NEW text \in Seq(Nat), Lands(t, text), Inside' = ToSet(text),
         Conditional(call[t]) =>
            /\ call[t].pc \in {"replace", "place"}
            /\ call[t].req.op = "edit" => ToSet(call[t].before) \subseteq ToSet(text)
  PROVE  call' \in [Threads -> CallRecords] /\ LooksOK' /\ DropsOnlyUnseen'
  <1>1. call' \in [Threads -> CallRecords] /\ LooksOK'
    <2>1. ToSet(text) \in SUBSET Nat
      BY DEF ToSet
    <2>2. CallOK(Idle, Inside')
      BY DEF CallOK, Idle, Conditional
    <2> QED
      BY <2>1, <2>2, IdleIsRecord, OthersStay DEF Lands
  <1>2. DropsOnlyUnseen'
    <2> USE DEF EditInv, DropsOnlyUnseen, Conditional
    <2>1. CASE ~(call[t].req.cond = "same")
      BY <2>1 DEF Lands
    <2>2. CASE call[t].req.cond = "same" /\ target = NoFile
      BY <2>2 DEF Lands, Current, Text
    <2>3. CASE call[t].req.cond = "same" /\ target # NoFile
      <3>1. Current = data[target] /\ Current # NoText
        BY <2>3, FileEditsAssumption DEF Current, Text, EditTypes
      <3>2. ToSet(Current) \subseteq ToSet(Known(call[t])) \cup call[t].landed
        BY <2>3, <3>1 DEF LooksOK, CallOK, Inside
      <3>3. CASE call[t].req.op = "edit"
        BY <2>3, <3>2, <3>3 DEF Lands, Known
      <3>4. CASE call[t].req.op # "edit"
        <4>1. Known(call[t]) = call[t].want
          BY <2>3, <3>4 DEF LooksOK, CallOK, Known
        <4> QED
          BY <2>3, <3>2, <3>4, <4>1 DEF Lands
      <3> QED
        BY <3>3, <3>4
    <2> QED
      BY <2>1, <2>2, <2>3
  <1> QED
    BY <1>1, <1>2
(* Every step of the file tools keeps the invariant.                       *)
LEMMA NextEdits == EditInv /\ [Next]_vars => EditInv'
  <1> SUFFICES ASSUME EditInv, [Next]_vars PROVE EditInv'
    OBVIOUS
  <1>t. EditTypes /\ LooksOK /\ DropsOnlyUnseen /\ CallOK(Idle, Inside')
    BY DEF EditInv, CallOK, Idle, Conditional
  <1>c. Current \in Contents /\ (Current # NoText <=> target # NoFile) /\ (target # NoFile => Inside = ToSet(Current))
    BY <1>t, FileEditsAssumption DEF EditTypes, Contents, Current, Text, Inside
  <1>same. UNCHANGED <<target, data>> => Inside' = Inside
    BY DEF Inside
  <1>i. ASSUME NEW t \in Threads, NEW c \in CallRecords, call' = [call EXCEPT ![t] = c],
               UNCHANGED <<calls, upset>>, Inside' \subseteq Inside, CallOK(c, Inside'),
               target' \in Inodes \cup {NoFile}, staging' \in Inodes \cup {NoFile},
               target' = staging' => target' = NoFile, data' \in [Inodes -> Seq(Nat)]
        PROVE  EditInv'
    BY <1>t, <1>i, Moves DEF EditInv, EditTypes, DropsOnlyUnseen
  <1>1. ASSUME NEW t \in Threads, \E r \in Requests : Call(t, r) PROVE EditInv'
    <2>1. PICK r \in Requests : Call(t, r)
      BY <1>1
    <2> DEFINE c == [Idle EXCEPT !.pc = "called", !.req = r, !.id = calls + 1,
                                 !.want = IF r.cond = "same" THEN Current ELSE NoText]
    <2>2. /\ call' = [call EXCEPT ![t] = c] /\ calls' = calls + 1
          /\ UNCHANGED <<target, staging, data, upset>>
      BY <2>1 DEF Call, filevars
    <2>3. c \in CallRecords /\ c.pc = "called"
      <3>1. r \in Reqs /\ NoText \in Contents
        BY DEF Reqs, Contents
      <3>2. calls + 1 \in Nat
        BY <1>t DEF EditTypes
      <3> QED
        BY <1>c, <3>1, <3>2, IdleIsRecord DEF CallRecords, Steps
    <2>4. CallOK(c, Inside')
      BY <2>3 DEF CallOK
    <2>5. call' \in [Threads -> CallRecords] /\ LooksOK'
      BY <1>same, <2>2, <2>3, <2>4, Moves
    <2> QED
      BY <1>t, <2>2, <2>5 DEF EditInv, EditTypes, DropsOnlyUnseen
  <1>2. ASSUME NEW t \in Threads, Read(t) PROVE EditInv'
    <2>1. UNCHANGED <<target, data, calls, upset>> /\ staging' \in {staging, NoFile}
      BY <1>2 DEF Read, Discard, filevars
    <2>2. call[t] \in CallRecords /\ CallOK(call[t], Inside)
      BY <1>t DEF EditTypes, LooksOK
    <2>3. \/ call' = [call EXCEPT ![t] = Idle]
          \/ call' = [call EXCEPT ![t] = [call[t] EXCEPT !.before = Current, !.pc = "append"]]
             /\ call[t].req.op = "append"
          \/ call' = [call EXCEPT ![t] = [call[t] EXCEPT !.before = Current, !.pc = "look"]]
             /\ call[t].req.op # "chunk" /\ (call[t].req.op = "edit" => Current # NoText)
             /\ (call[t].req.op = "write" /\ Conditional(call[t]) => Current = call[t].want)
      BY <1>2 DEF Read, Discard, Return, To, Conditional
    <2>4. CASE call' = [call EXCEPT ![t] = Idle]
      BY <1>t, <1>i, <1>same, <2>1, <2>4, IdleIsRecord DEF EditTypes
    <2>5. CASE call' = [call EXCEPT ![t] = [call[t] EXCEPT !.before = Current, !.pc = "append"]]
            /\ call[t].req.op = "append"
      <3>1. [call[t] EXCEPT !.before = Current, !.pc = "append"] \in CallRecords
        BY <1>c, <2>2 DEF CallRecords, Steps
      <3>2. CallOK([call[t] EXCEPT !.before = Current, !.pc = "append"], Inside)
        BY <1>c, <2>2, <2>5, RequestFacts DEF CallOK, CallRecords, Conditional, Known, Inside
      <3> QED
        BY <1>t, <1>i, <1>same, <2>1, <2>5, <3>1, <3>2 DEF EditTypes
    <2>6. CASE call' = [call EXCEPT ![t] = [call[t] EXCEPT !.before = Current, !.pc = "look"]]
             /\ call[t].req.op # "chunk" /\ (call[t].req.op = "edit" => Current # NoText)
             /\ (call[t].req.op = "write" /\ Conditional(call[t]) => Current = call[t].want)
      <3>1. [call[t] EXCEPT !.before = Current, !.pc = "look"] \in CallRecords
        BY <1>c, <2>2 DEF CallRecords, Steps
      <3>2. CallOK([call[t] EXCEPT !.before = Current, !.pc = "look"], Inside)
        BY <1>c, <2>2, <2>6, RequestFacts DEF CallOK, CallRecords, Conditional, Known, Inside
      <3> QED
        BY <1>t, <1>i, <1>same, <2>1, <2>6, <3>1, <3>2 DEF EditTypes
    <2> QED
      BY <2>3, <2>4, <2>5, <2>6
  <1>3. ASSUME NEW t \in Threads, Look(t) PROVE EditInv'
    <2>1. UNCHANGED <<target, data, calls, upset>> /\ staging' \in {staging, NoFile}
      BY <1>3 DEF Look, Discard, filevars
    <2>2. call[t] \in CallRecords /\ CallOK(call[t], Inside)
      BY <1>t DEF EditTypes, LooksOK
    <2>3. \/ call' = [call EXCEPT ![t] = Idle]
          \/ call' = [call EXCEPT ![t] = [call[t] EXCEPT !.pc = "replace"]]
             /\ call[t].pc = "look" /\ (Conditional(call[t]) => Current = call[t].before)
      BY <1>3 DEF Look, Discard, Return, To, Conditional
    <2>4. CASE call' = [call EXCEPT ![t] = Idle]
      BY <1>t, <1>i, <1>same, <2>1, <2>4, IdleIsRecord DEF EditTypes
    <2>5. CASE call' = [call EXCEPT ![t] = [call[t] EXCEPT !.pc = "replace"]]
            /\ call[t].pc = "look" /\ (Conditional(call[t]) => Current = call[t].before)
      <3>1. [call[t] EXCEPT !.pc = "replace"] \in CallRecords
        BY <1>c, <2>2 DEF CallRecords, Steps
      <3>2. CallOK([call[t] EXCEPT !.pc = "replace"], Inside)
        BY <1>c, <2>2, <2>5, RequestFacts DEF CallOK, CallRecords, Conditional, Known, Inside
      <3> QED
        BY <1>t, <1>i, <1>same, <2>1, <2>5, <3>1, <3>2 DEF EditTypes
    <2> QED
      BY <2>3, <2>4, <2>5
  <1>4. ASSUME NEW t \in Threads, Replace(t) PROVE EditInv'
    <2> DEFINE text == IF call[t].req.op = "edit" THEN Append(call[t].before, call[t].id) ELSE <<call[t].id>>
    <2>1. call[t] \in CallRecords /\ CallOK(call[t], Inside) /\ call[t].pc = "replace"
      BY <1>4, <1>t DEF Replace, EditTypes, LooksOK
    <2>2. /\ text \in Seq(Nat)
          /\ call[t].req.op = "edit" => ToSet(call[t].before) \subseteq ToSet(text)
      BY <2>1, ToSetAppend DEF CallOK, CallRecords, Contents
    <2>3. Fresh \in Inodes /\ Fresh \notin {target, staging, NoFile}
      BY <1>t, FreshIsFree, FileEditsAssumption DEF InUse
    <2>4. /\ target' = Fresh /\ data' = [data EXCEPT ![Fresh] = text] /\ Lands(t, text)
          /\ UNCHANGED <<staging, calls>>
      BY <1>4 DEF Replace
    <2> HIDE DEF text
    <2>5. data' \in [Inodes -> Seq(Nat)] /\ Inside' = ToSet(text)
      BY <1>t, <2>2, <2>3, <2>4 DEF EditTypes, Inside
    <2>6. call' \in [Threads -> CallRecords] /\ LooksOK' /\ DropsOnlyUnseen'
      BY <2>1, <2>2, <2>4, <2>5, Landing
    <2> QED
      BY <1>t, <2>3, <2>4, <2>5, <2>6 DEF EditInv, EditTypes
  <1>5. ASSUME NEW t \in Threads, OpenAppend(t) PROVE EditInv'
    <2>1. call[t] \in CallRecords /\ CallOK(call[t], Inside)
      BY <1>t DEF EditTypes, LooksOK
    <2> DEFINE c == [call[t] EXCEPT !.pc = "put", !.fd = target]
    <2>2. call' = [call EXCEPT ![t] = c] /\ UNCHANGED <<target, staging, data, calls, upset>>
      BY <1>5 DEF OpenAppend, filevars
    <2>3. c \in CallRecords /\ CallOK(c, Inside)
      BY <1>5, <1>t, <2>1 DEF OpenAppend, EditTypes, CallOK, CallRecords, Steps
    <2> QED
      BY <1>t, <1>i, <1>same, <2>2, <2>3 DEF EditTypes
  <1>6. ASSUME NEW t \in Threads, OpenAppendNew(t) PROVE EditInv'
    <2>1. call[t] \in CallRecords /\ CallOK(call[t], Inside)
      BY <1>t DEF EditTypes, LooksOK
    <2>2. Fresh \in Inodes /\ Fresh \notin {target, staging, NoFile}
      BY <1>t, FreshIsFree, FileEditsAssumption DEF InUse
    <2> DEFINE c == [call[t] EXCEPT !.pc = "put", !.fd = Fresh]
    <2>3. /\ call' = [call EXCEPT ![t] = c] /\ target' = Fresh /\ data' = [data EXCEPT ![Fresh] = <<>>]
          /\ UNCHANGED <<staging, calls, upset>>
      BY <1>6 DEF OpenAppendNew
    <2>4. data' \in [Inodes -> Seq(Nat)] /\ Inside' = {}
      BY <1>t, <2>2, <2>3 DEF EditTypes, Inside, ToSet
    <2>5. c \in CallRecords /\ CallOK(c, Inside')
      BY <1>6, <2>1, <2>2 DEF OpenAppendNew, CallOK, CallRecords, Steps
    <2> QED
      BY <1>t, <1>i, <2>2, <2>3, <2>4, <2>5 DEF EditTypes
  <1>7. ASSUME NEW t \in Threads, PutAppend(t) PROVE EditInv'
    <2>1. /\ call[t] \in CallRecords /\ CallOK(call[t], Inside)
          /\ call[t].pc = "put" /\ call[t].req.op = "append"
      BY <1>7, <1>t DEF PutAppend, EditTypes, LooksOK
    <2>2. call[t].fd \in Inodes /\ ~Conditional(call[t]) /\ call[t].id \in Nat
      BY <2>1, RequestFacts DEF CallOK, CallRecords, Conditional
    <2>3. data' = [data EXCEPT ![call[t].fd] = Append(data[call[t].fd], call[t].id)] /\ UNCHANGED <<target, staging, calls>>
      BY <1>7 DEF PutAppend
    <2>4. data' \in [Inodes -> Seq(Nat)]
      BY <1>t, <2>2, <2>3 DEF EditTypes
    <2>5. CASE call[t].fd = target
      <3>1. Current \in Seq(Nat) /\ target \in Inodes /\ target # NoFile /\ data'[target] = Append(Current, call[t].id)
        BY <1>t, <2>2, <2>3, <2>5, FileEditsAssumption DEF EditTypes, Current, Text
      <3>2. Append(Current, call[t].id) \in Seq(Nat) /\ Lands(t, Append(Current, call[t].id))
        BY <1>7, <2>2, <2>5, <3>1 DEF PutAppend
      <3>3. Inside' = ToSet(Append(Current, call[t].id))
        BY <2>3, <3>1 DEF Inside
      <3>4. call' \in [Threads -> CallRecords] /\ LooksOK' /\ DropsOnlyUnseen'
        BY <2>2, <3>2, <3>3, Landing
      <3> QED
        BY <1>t, <2>3, <2>4, <3>4 DEF EditInv, EditTypes
    <2>6. CASE call[t].fd # target
      <3>1. call' = [call EXCEPT ![t] = Idle] /\ upset' = upset
        BY <1>7, <2>6 DEF PutAppend, Return
      <3>2. Inside' = Inside
        BY <1>t, <2>2, <2>3, <2>6 DEF Inside, EditTypes
      <3> QED
        BY <1>t, <1>i, <2>3, <2>4, <3>1, <3>2, IdleIsRecord DEF EditTypes
    <2> QED
      BY <2>5, <2>6
  <1>8. ASSUME NEW t \in Threads, Stat(t) PROVE EditInv'
    <2>1. UNCHANGED <<target, data, calls, upset>> /\ staging' \in {staging, NoFile}
      BY <1>8 DEF Stat, Discard, filevars
    <2>2. call[t] \in CallRecords /\ CallOK(call[t], Inside)
      BY <1>t DEF EditTypes, LooksOK
    <2>3. \/ call' = [call EXCEPT ![t] = Idle]
          \/ call' = [call EXCEPT ![t] = [call[t] EXCEPT !.pc = "open"]]
             /\ call[t].req.op = "chunk"
      BY <1>8 DEF Stat, Discard, Return, To, Conditional
    <2>4. CASE call' = [call EXCEPT ![t] = Idle]
      BY <1>t, <1>i, <1>same, <2>1, <2>4, IdleIsRecord DEF EditTypes
    <2>5. CASE call' = [call EXCEPT ![t] = [call[t] EXCEPT !.pc = "open"]]
            /\ call[t].req.op = "chunk"
      <3>1. [call[t] EXCEPT !.pc = "open"] \in CallRecords
        BY <1>c, <2>2 DEF CallRecords, Steps
      <3>2. CallOK([call[t] EXCEPT !.pc = "open"], Inside)
        BY <1>c, <2>2, <2>5, RequestFacts DEF CallOK, CallRecords, Conditional, Known, Inside
      <3> QED
        BY <1>t, <1>i, <1>same, <2>1, <2>5, <3>1, <3>2 DEF EditTypes
    <2> QED
      BY <2>3, <2>4, <2>5
  <1>9. ASSUME NEW t \in Threads, OpenStage(t) PROVE EditInv'
    <2>1. call[t] \in CallRecords /\ CallOK(call[t], Inside) /\ call[t].pc = "open"
      BY <1>9, <1>t DEF OpenStage, EditTypes, LooksOK
    <2> DEFINE i == IF staging = NoFile THEN Fresh ELSE staging
               c == [call[t] EXCEPT !.pc = "put", !.fd = i]
    <2>2. i \in Inodes /\ i # target /\ i # NoFile
      BY <1>t, FreshIsFree, FileEditsAssumption DEF InUse, EditTypes
    <2>3. /\ call' = [call EXCEPT ![t] = c] /\ staging' = i
          /\ data' = data \/ data' = [data EXCEPT ![i] = <<>>]
          /\ UNCHANGED <<target, calls, upset>>
      BY <1>9 DEF OpenStage
    <2> HIDE DEF i
    <2>4. data' \in [Inodes -> Seq(Nat)]
      <3>1. <<>> \in Seq(Nat)
        OBVIOUS
      <3>2. CASE data' = [data EXCEPT ![i] = <<>>]
        BY <1>t, <2>2, <3>1, <3>2 DEF EditTypes
      <3> QED
        BY <1>t, <2>3, <3>2 DEF EditTypes
    <2>6. target' = target /\ (target # NoFile => data'[target] = data[target])
      BY <1>t, <2>2, <2>3 DEF EditTypes
    <2>7. Inside' = Inside
      BY <2>6 DEF Inside
    <2>5. c \in CallRecords /\ CallOK(c, Inside')
      BY <2>1, <2>2 DEF CallOK, CallRecords, Steps
    <2> QED
      BY <1>t, <1>i, <2>2, <2>3, <2>4, <2>5, <2>7 DEF EditTypes
  <1>10. ASSUME NEW t \in Threads, PutChunk(t) PROVE EditInv'
    <2> DEFINE r == call[t].req
               old == data[call[t].fd]
               text == IF r.at = 0 THEN <<r.bytes>> \o SubSeq(old, 2, Len(old)) ELSE Append(old, r.bytes)
               new == IF call[t].fd = target THEN {r.bytes} ELSE {}
               c == IF r.at = Len(Upload) - 1 /\ staging # NoFile
                    THEN [call[t] EXCEPT !.pc = "hash", !.fd = NoFile] ELSE Idle
    <2>1. /\ call[t] \in CallRecords /\ CallOK(call[t], Inside)
          /\ call[t].pc = "put" /\ r.op = "chunk"
      BY <1>10, <1>t DEF PutChunk, EditTypes, LooksOK
    <2>2. call[t].fd \in Inodes /\ r.bytes \in Nat /\ old \in Seq(Nat)
      BY <1>t, <2>1, RequestFacts DEF CallOK, CallRecords, EditTypes
    <2>3. /\ data' = [data EXCEPT ![call[t].fd] = text] /\ UNCHANGED <<target, staging, calls, upset>>
          /\ call' = [u \in Threads |-> IF u = t THEN c ELSE Unseen(u, new)]
      BY <1>10, Zenon DEF PutChunk
    <2>4. text \in Seq(Nat) /\ ToSet(text) \subseteq ToSet(old) \cup {r.bytes}
      BY <2>2, ToSetAppend, ToSetOverwrite
    <2>5. c \in CallRecords /\ CallOK(c, Inside')
      <3>1. [call[t] EXCEPT !.pc = "hash", !.fd = NoFile] \in CallRecords
        BY <2>1 DEF CallRecords, Steps
      <3>2. CallOK([call[t] EXCEPT !.pc = "hash", !.fd = NoFile], Inside')
        BY <2>1 DEF CallOK, CallRecords
      <3> QED
        BY <1>t, <3>1, <3>2, IdleIsRecord
    <2> HIDE DEF text, c
    <2>6. data' \in [Inodes -> Seq(Nat)]
      BY <1>t, <2>2, <2>3, <2>4 DEF EditTypes
    <2>7. Inside' \subseteq Inside \cup new /\ new \in SUBSET Nat
      BY <1>t, <2>2, <2>3, <2>4 DEF EditTypes, Inside
    <2> HIDE DEF new
    <2>8. call' \in [Threads -> CallRecords] /\ LooksOK'
      BY <2>3, <2>5, <2>7, OthersStay
    <2> QED
      BY <1>t, <2>3, <2>6, <2>8 DEF EditInv, EditTypes, DropsOnlyUnseen
  <1>11. ASSUME NEW t \in Threads, Hash(t) PROVE EditInv'
    <2>1. UNCHANGED <<target, data, calls, upset>> /\ staging' \in {staging, NoFile}
      BY <1>11 DEF Hash, Discard, filevars
    <2>2. call[t] \in CallRecords /\ CallOK(call[t], Inside)
      BY <1>t DEF EditTypes, LooksOK
    <2>3. \/ call' = [call EXCEPT ![t] = Idle]
          \/ call' = [call EXCEPT ![t] = [call[t] EXCEPT !.pc = "check"]]
             /\ call[t].pc = "hash"
      BY <1>11 DEF Hash, Discard, Return, To, Conditional
    <2>4. CASE call' = [call EXCEPT ![t] = Idle]
      BY <1>t, <1>i, <1>same, <2>1, <2>4, IdleIsRecord DEF EditTypes
    <2>5. CASE call' = [call EXCEPT ![t] = [call[t] EXCEPT !.pc = "check"]]
            /\ call[t].pc = "hash"
      <3>1. [call[t] EXCEPT !.pc = "check"] \in CallRecords
        BY <1>c, <2>2 DEF CallRecords, Steps
      <3>2. CallOK([call[t] EXCEPT !.pc = "check"], Inside)
        BY <1>c, <2>2, <2>5, RequestFacts DEF CallOK, CallRecords, Conditional, Known, Inside
      <3> QED
        BY <1>t, <1>i, <1>same, <2>1, <2>5, <3>1, <3>2 DEF EditTypes
    <2> QED
      BY <2>3, <2>4, <2>5
  <1>12. ASSUME NEW t \in Threads, CheckTarget(t) PROVE EditInv'
    <2>1. UNCHANGED <<target, data, calls, upset>> /\ staging' \in {staging, NoFile}
      BY <1>12 DEF CheckTarget, Discard, filevars
    <2>2. call[t] \in CallRecords /\ CallOK(call[t], Inside)
      BY <1>t DEF EditTypes, LooksOK
    <2>3. \/ call' = [call EXCEPT ![t] = Idle]
          \/ call' = [call EXCEPT ![t] = [call[t] EXCEPT !.pc = "place"]]
             /\ call[t].pc = "check" /\ (Conditional(call[t]) => Current = call[t].want)
      BY <1>12 DEF CheckTarget, Discard, Return, To, Conditional
    <2>4. CASE call' = [call EXCEPT ![t] = Idle]
      BY <1>t, <1>i, <1>same, <2>1, <2>4, IdleIsRecord DEF EditTypes
    <2>5. CASE call' = [call EXCEPT ![t] = [call[t] EXCEPT !.pc = "place"]]
            /\ call[t].pc = "check" /\ (Conditional(call[t]) => Current = call[t].want)
      <3>1. [call[t] EXCEPT !.pc = "place"] \in CallRecords
        BY <1>c, <2>2 DEF CallRecords, Steps
      <3>2. CallOK([call[t] EXCEPT !.pc = "place"], Inside)
        BY <1>c, <2>2, <2>5, RequestFacts DEF CallOK, CallRecords, Conditional, Known, Inside
      <3> QED
        BY <1>t, <1>i, <1>same, <2>1, <2>5, <3>1, <3>2 DEF EditTypes
    <2> QED
      BY <2>3, <2>4, <2>5
  <1>13. ASSUME NEW t \in Threads, Place(t) PROVE EditInv'
    <2>1. /\ call[t] \in CallRecords /\ CallOK(call[t], Inside) /\ call[t].pc = "place"
          /\ call[t].req.op = "chunk"
      BY <1>13, <1>t DEF Place, EditTypes, LooksOK, CallOK
    <2>2. CASE staging = NoFile
      BY <1>13, <1>t, <1>i, <1>same, <2>2, IdleIsRecord DEF Place, Return, EditTypes
    <2>3. CASE staging # NoFile
      <3>1. /\ target' = staging /\ staging' = NoFile /\ Lands(t, Text(staging))
            /\ UNCHANGED <<data, calls>>
        BY <1>13, <2>3 DEF Place
      <3>2. Text(staging) \in Seq(Nat) /\ Inside' = ToSet(Text(staging))
        BY <1>t, <2>3, <3>1 DEF EditTypes, Text, Inside
      <3>3. call' \in [Threads -> CallRecords] /\ LooksOK' /\ DropsOnlyUnseen'
        BY <2>1, <3>1, <3>2, Landing
      <3> QED
        BY <1>t, <2>3, <3>1, <3>3 DEF EditInv, EditTypes
    <2> QED
      BY <2>2, <2>3
  <1>14. ASSUME Vanish PROVE EditInv'
    <2>1. /\ target' = NoFile /\ calls' = calls + 1
          /\ UNCHANGED <<staging, data, call, upset>>
      BY <1>14 DEF Vanish
    <2>2. Inside' \subseteq Inside
      BY <2>1 DEF Inside
    <2>3. LooksOK'
      BY <1>t, <2>1, <2>2 DEF LooksOK, CallOK
    <2> QED
      BY <1>t, <2>1, <2>3 DEF EditInv, EditTypes, DropsOnlyUnseen
  <1>15. ASSUME Die PROVE EditInv'
    <2>1. call' = [t \in Threads |-> Idle] /\ UNCHANGED <<target, staging, data, calls, upset>>
      BY <1>15 DEF Die, filevars
    <2>2. call' \in [Threads -> CallRecords] /\ LooksOK'
      BY <1>t, <2>1, IdleIsRecord DEF LooksOK
    <2> QED
      BY <1>t, <2>1, <2>2 DEF EditInv, EditTypes, DropsOnlyUnseen
  <1>16. ASSUME Snapshot \/ ReadPage \/ PageGone \/ UNCHANGED vars PROVE EditInv'
    <2>1. UNCHANGED <<target, staging, data, calls, call, upset>>
      BY <1>16 DEF Snapshot, ReadPage, PageGone, vars, filevars
    <2> QED
      BY <1>t, <1>same, <2>1 DEF EditInv, EditTypes, LooksOK, DropsOnlyUnseen
  <1> QED
    BY <1>1, <1>2, <1>3, <1>4, <1>5, <1>6, <1>7, <1>8, <1>9, <1>10, <1>11, <1>12, <1>13, <1>14, <1>15, <1>16
       DEF Next, Step

LEMMA EditStarts == Init => EditInv
  <1> SUFFICES ASSUME Init PROVE EditInv
    OBVIOUS
  <1>1. Cardinality(Threads) + 3 \in Nat /\ 1 \in Inodes /\ Inodes \subseteq Nat
    BY FileEditsAssumption, FS_CardinalityType DEF Inodes
  <1>2. Original \in Seq(Nat) /\ <<>> \in Seq(Nat)
    BY FileEditsAssumption
  <1>3. EditTypes
    BY <1>1, <1>2, FileEditsAssumption, IdleIsRecord DEF Init, EditTypes
  <1>4. LooksOK
    BY DEF Init, LooksOK, CallOK, Idle, Conditional
  <1> QED
    BY <1>3, <1>4 DEF Init, EditInv, DropsOnlyUnseen

(* The other parts leave what the file tools use alone.                    *)
LEMMA FilesMoveEdits == [FilesNext]_filesvars => [Next]_vars
  BY DEF FilesNext, filesvars

(* fs_edit and a conditional fs_write replace nothing they have not seen,  *)
(* but what came after their last look.                                    *)
THEOREM NothingUnseenIsDropped == FilesSpec => []DropsOnlyUnseen
  <1>1. FilesInit => EditInv
    BY EditStarts DEF FilesInit
  <1>2. EditInv /\ [FilesNext]_filesvars => EditInv'
    BY FilesMoveEdits, NextEdits
  <1>3. EditInv => DropsOnlyUnseen
    BY DEF EditInv
  <1> QED
    BY <1>1, <1>2, <1>3, PTL DEF FilesSpec, filesvars
-----------------------------------------------------------------------------
(* FileEdits, the client that pages.  A cursor names a content; what was   *)
(* read with it is of that content, but for the last page, which is of it  *)
(* as well if the file still holds it.                                     *)
Readers == [at : {"between", "page", "refused", "end"}, hash : Contents, offset : Nat,
            snap : Contents, got : Seq(Nat), again : BOOLEAN]
Agrees(g, n, s) == n <= Len(s) /\ \A i \in 1..n : g[i] = s[i]

ReaderTypes ==
    /\ reader \in Readers /\ reader.offset = Len(reader.got)
    /\ reader.at \in {"page", "end"} => reader.snap # NoText
    /\ reader.hash = NoText /\ reader.at \in {"between", "page"} => reader.offset = 0

ReadOfOne ==
    /\ reader.at = "between" /\ reader.hash # NoText =>
          /\ Agrees(reader.got, reader.offset - 1, reader.hash)
          /\ Current = reader.hash => Agrees(reader.got, reader.offset, reader.hash)
    /\ reader.at = "page" =>
          /\ reader.hash \in {NoText, reader.snap}
          /\ Agrees(reader.got, reader.offset, reader.snap)
    /\ reader.at = "end" => Agrees(reader.got, reader.offset - 1, reader.snap)

ReaderInv == ReaderTypes /\ (~reader.again => ReadOfOne)

LEMMA PrefixBy ==
  ASSUME NEW p \in Seq(Nat), NEW s \in Seq(Nat), Len(p) <= Len(s), \A i \in 1..Len(p) : p[i] = s[i]
  PROVE  IsPrefix(p, s)
  <1>1. Len(p) \in Nat /\ Len(s) \in Nat
    BY LenProperties
  <1>2. \A q \in {p, s} : /\ SubSeq(q, 1, Len(p)) \in Seq(Nat) /\ Len(SubSeq(q, 1, Len(p))) = Len(p)
                          /\ \A i \in 1..Len(p) : SubSeq(q, 1, Len(p))[i] = q[i]
    <2> SUFFICES ASSUME NEW q \in {p, s}
                 PROVE  /\ SubSeq(q, 1, Len(p)) \in Seq(Nat) /\ Len(SubSeq(q, 1, Len(p))) = Len(p)
                        /\ \A i \in 1..Len(p) : SubSeq(q, 1, Len(p))[i] = q[i]
      OBVIOUS
    <2>1. \A i \in 1..Len(p) : q[i] \in Nat
      BY <1>1
    <2>2. /\ SubSeq(q, 1, Len(p)) \in Seq(Nat)
          /\ Len(SubSeq(q, 1, Len(p))) = IF 1 <= Len(p) THEN Len(p) - 1 + 1 ELSE 0
          /\ \A i \in 1..(Len(p) - 1 + 1) : SubSeq(q, 1, Len(p))[i] = q[1 + i - 1]
      BY <1>1, <2>1, SubSeqProperties
    <2> QED
      BY <1>1, <2>2
  <1>3. /\ Len(SubSeq(p, 1, Len(p))) = Len(SubSeq(s, 1, Len(p)))
        /\ \A i \in 1..Len(SubSeq(p, 1, Len(p))) : SubSeq(p, 1, Len(p))[i] = SubSeq(s, 1, Len(p))[i]
    BY <1>1, <1>2
  <1>4. SubSeq(p, 1, Len(p)) = SubSeq(s, 1, Len(p))
    BY <1>2, <1>3, SeqEqual
  <1> QED
    BY <1>4 DEF IsPrefix

LEMMA AgreesIsPrefix ==
  ASSUME NEW g \in Seq(Nat), NEW s \in Seq(Nat), Agrees(g, Len(g) - 1, s)
  PROVE  IsPrefix(SubSeq(g, 1, Len(g) - 1), s)
  <1> DEFINE n == Len(g) - 1
             p == SubSeq(g, 1, n)
  <1>1. Len(g) \in Nat /\ Len(s) \in Nat /\ n \in Int /\ n <= Len(s) /\ \A i \in 1..n : g[i] = s[i] /\ g[i] \in Nat
    BY LenProperties DEF Agrees
  <1> HIDE DEF n
  <1>2. /\ p \in Seq(Nat) /\ Len(p) = IF 1 <= n THEN n - 1 + 1 ELSE 0
        /\ \A i \in 1..(n - 1 + 1) : p[i] = g[1 + i - 1]
    <2>1. \A i \in 1..n : g[i] \in Nat
      BY <1>1
    <2> QED
      BY <1>1, <2>1, SubSeqProperties
  <1> HIDE DEF p
  <1>3. Len(p) <= Len(s) /\ \A i \in 1..Len(p) : p[i] = s[i]
    BY <1>1, <1>2
  <1>4. IsPrefix(p, s)
    BY <1>2, <1>3, PrefixBy
  <1> QED
    BY <1>4 DEF p, n

LEMMA ReaderInvGives == ReaderInv => PagesAgree
  <1> SUFFICES ASSUME ReaderInv, reader.at = "end", ~reader.again
               PROVE  IsPrefix(SubSeq(reader.got, 1, Len(reader.got) - 1), reader.snap)
    BY DEF PagesAgree
  <1>1. reader.got \in Seq(Nat) /\ reader.snap \in Seq(Nat)
    BY DEF ReaderInv, ReaderTypes, Readers, Contents
  <1>2. Agrees(reader.got, Len(reader.got) - 1, reader.snap)
    BY DEF ReaderInv, ReaderTypes, ReadOfOne
  <1> QED
    BY <1>1, <1>2, AgreesIsPrefix

(* A step that moves files either does not come to what the cursor names,  *)
(* or is noted.                                                            *)
LEMMA ReaderKept ==
  ASSUME ReaderInv, ReaderSees \/ (UNCHANGED reader /\ Current' \in {Current, NoText})
  PROVE  ReaderInv'
  <1>1. ASSUME UNCHANGED reader, Current' = NoText \/ Current' = Current \/ Current' \notin {reader.snap, reader.hash} \ {NoText}
        PROVE  ReaderInv'
    <2>1. ReaderTypes'
      BY <1>1 DEF ReaderInv, ReaderTypes
    <2>2. ASSUME ~reader.again PROVE ReadOfOne'
      BY <1>1, <2>2 DEF ReaderInv, ReadOfOne
    <2> QED
      BY <1>1, <2>1, <2>2 DEF ReaderInv
  <1>2. ASSUME reader' = [reader EXCEPT !.again = TRUE] PROVE ReaderInv'
    <2>1. reader \in Readers
      BY DEF ReaderInv, ReaderTypes
    <2>2. /\ reader' \in Readers /\ reader'.again /\ reader'.at = reader.at /\ reader'.hash = reader.hash
          /\ reader'.offset = reader.offset /\ reader'.snap = reader.snap /\ reader'.got = reader.got
      BY <1>2, <2>1 DEF Readers
    <2>3. ReaderTypes'
      BY <2>2 DEF ReaderInv, ReaderTypes
    <2> QED
      BY <2>2, <2>3 DEF ReaderInv
  <1>3. CASE UNCHANGED reader /\ Current' \in {Current, NoText}
    BY <1>1, <1>3
  <1>4. CASE ReaderSees
    <2>1. Current' = IF target' = NoFile THEN NoText ELSE data'[target']
      BY DEF Current, Text
    <2> QED
      BY <1>1, <1>2, <1>4, <2>1 DEF ReaderSees
  <1> QED
    BY <1>3, <1>4

LEMMA ReaderSnapshot ==
  ASSUME EditInv, ReaderInv, Snapshot
  PROVE  ReaderInv'
  <1>t. /\ reader \in Readers /\ reader.offset = Len(reader.got) /\ reader.at = "between"
        /\ Current \in Seq(Nat) /\ Current \in Contents /\ Current # NoText /\ NoText \in Contents
    BY FileEditsAssumption DEF ReaderInv, ReaderTypes, Snapshot, Current, Text, EditInv, EditTypes, Contents
  <1>c. Current' = Current
    BY DEF Snapshot, filevars, Current, Text
  <1>1. CASE reader.hash # NoText /\ reader.hash # Current
    <2>1. reader' = [at |-> "refused", hash |-> NoText, offset |-> 0, snap |-> NoText, got |-> <<>>, again |-> FALSE]
      BY <1>1 DEF Snapshot
    <2>2. <<>> \in Seq(Nat) /\ Len(<<>>) = 0
      BY EmptySeq
    <2>3. /\ reader' \in Readers /\ reader'.at = "refused" /\ reader'.offset = 0 /\ reader'.got = <<>>
      BY <1>t, <2>1, <2>2 DEF Readers
    <2> QED
      BY <2>2, <2>3 DEF ReaderInv, ReaderTypes, ReadOfOne
  <1>2. CASE ~(reader.hash # NoText /\ reader.hash # Current)
    <2>1. reader' = [reader EXCEPT !.at = "page", !.snap = Current]
      BY <1>2 DEF Snapshot
    <2>2. /\ reader' \in Readers /\ reader'.at = "page" /\ reader'.snap = Current /\ reader'.hash = reader.hash
          /\ reader'.offset = reader.offset /\ reader'.got = reader.got /\ reader'.again = reader.again
      BY <1>t, <2>1 DEF Readers
    <2>3. ReaderTypes'
      BY <1>t, <2>2 DEF ReaderInv, ReaderTypes
    <2>4. ASSUME ~reader.again PROVE Agrees(reader.got, reader.offset, Current)
      <3>1. CASE reader.hash = NoText
        <4>1. reader.offset = 0 /\ Len(Current) \in Nat
          BY <1>t, <3>1, LenProperties DEF ReaderInv, ReaderTypes
        <4> QED
          BY <4>1 DEF Agrees
      <3>2. CASE reader.hash = Current
        BY <1>t, <2>4, <3>2 DEF ReaderInv, ReadOfOne
      <3> QED
        BY <1>2, <3>1, <3>2
    <2>5. ASSUME ~reader.again PROVE ReadOfOne'
      BY <1>2, <2>2, <2>4, <2>5 DEF ReadOfOne
    <2> QED
      BY <2>2, <2>3, <2>5 DEF ReaderInv
  <1> QED
    BY <1>1, <1>2

LEMMA ReaderReads ==
  ASSUME EditInv, ReaderInv, ReadPage
  PROVE  ReaderInv'
  <1> DEFINE g == reader.got
             n == reader.offset
             page == IF n < Len(Current) THEN <<Current[n + 1]>> ELSE <<>>
             end == n + Len(page)
             z == g \o page
             step == IF end < Len(reader.snap) THEN "between" ELSE "end"
  <1>t. /\ reader \in Readers /\ n = Len(g) /\ n \in Nat /\ g \in Seq(Nat) /\ reader.at = "page"
        /\ reader.snap \in Seq(Nat) /\ reader.snap # NoText /\ Len(reader.snap) \in Nat
        /\ Current \in Seq(Nat) /\ Len(Current) \in Nat
    <2>1. reader.snap \in Seq(Nat) /\ Current \in Seq(Nat)
      BY FileEditsAssumption DEF ReaderInv, ReaderTypes, Readers, ReadPage, Current, Text, EditInv, EditTypes,
         Contents
    <2> QED
      BY <2>1, LenProperties DEF ReaderInv, ReaderTypes, Readers, ReadPage
  <1>c. Current' = Current
    BY DEF ReadPage, filevars, Current, Text
  <1>r. reader' = [reader EXCEPT !.at = step, !.hash = reader.snap, !.offset = end, !.got = z]
    BY DEF ReadPage
  <1>p. /\ page \in Seq(Nat) /\ Len(page) \in {0, 1}
        /\ Len(page) = 1 => n < Len(Current) /\ page[1] = Current[n + 1]
        /\ n < Len(Current) => Len(page) = 1
    <2>1. CASE n < Len(Current)
      <3>1. Current[n + 1] \in Nat
        BY <1>t, <2>1, ElementOfSeq
      <3>2. page = <<Current[n + 1]>>
        BY <2>1
      <3> QED
        BY <2>1, <3>1, <3>2
    <2>2. CASE ~(n < Len(Current))
      BY <2>2, EmptySeq
    <2> QED
      BY <2>1, <2>2
  <1> HIDE DEF page
  <1>z. /\ z \in Seq(Nat) /\ Len(z) = end /\ end \in Nat /\ (end = n \/ end = n + 1)
        /\ \A i \in 1..n : z[i] = g[i]
        /\ end = n + 1 => n < Len(Current) /\ z[n + 1] = Current[n + 1]
    <2>1. /\ z \in Seq(Nat) /\ Len(z) = n + Len(page)
          /\ \A i \in 1..(n + Len(page)) : z[i] = IF i <= n THEN g[i] ELSE page[i - n]
      BY <1>t, <1>p, ConcatProperties
    <2> HIDE DEF z, g, n
    <2>2. \A i \in 1..n : i \in 1..(n + Len(page)) /\ i <= n
      BY <1>t, <1>p
    <2>3. \A i \in 1..n : z[i] = g[i]
      BY <2>1, <2>2
    <2>4. ASSUME Len(page) = 1 PROVE n < Len(Current) /\ z[n + 1] = Current[n + 1]
      BY <1>t, <1>p, <2>1, <2>4
    <2>5. end \in Nat /\ (end = n \/ end = n + 1) /\ (end = n + 1 => Len(page) = 1)
      <3>1. \A m \in Nat, k \in {0, 1} : m + k \in Nat /\ (m + k = m \/ m + k = m + 1) /\ (m + k = m + 1 => k = 1)
        OBVIOUS
      <3> QED
        BY <1>t, <1>p, <3>1, Zenon
    <2>6. Len(z) = end
      BY <2>1
    <2> HIDE DEF end
    <2> QED
      BY <2>1, <2>3, <2>4, <2>5, <2>6
  <1>s. step \in {"between", "end"} /\ (step = "between" <=> end < Len(reader.snap))
    OBVIOUS
  <1> HIDE DEF step, end, z
  <1>1. /\ reader' \in Readers /\ reader'.at = step /\ reader'.hash = reader.snap /\ reader'.snap = reader.snap
        /\ reader'.offset = end /\ reader'.got = z /\ reader'.again = reader.again
    BY <1>t, <1>r, <1>z, <1>s DEF Readers
  <1>2. ReaderTypes'
    BY <1>t, <1>1, <1>z, <1>s DEF ReaderTypes
  <1>3. ASSUME ~reader.again PROVE ReadOfOne'
    <2>1. n <= Len(reader.snap) /\ \A i \in 1..n : g[i] = reader.snap[i]
      BY <1>t, <1>3 DEF ReaderInv, ReadOfOne, Agrees
    <2> HIDE DEF g, n
    <2>2. \A i \in 1..n : z[i] = reader.snap[i]
      BY <1>z, <2>1
    <2>3. Agrees(z, end - 1, reader.snap)
      <3>1. end - 1 <= n /\ n <= Len(reader.snap) /\ \A i \in 1..(end - 1) : i \in 1..n
        BY <1>t, <1>z, <2>1
      <3>2. end - 1 <= Len(reader.snap)
        BY <1>t, <1>z, <3>1
      <3> QED
        BY <2>2, <3>1, <3>2 DEF Agrees
    <2>4. ASSUME end < Len(reader.snap), Current = reader.snap PROVE Agrees(z, end, reader.snap)
      <3>1. \A i \in 1..end : i \in 1..n \/ (end = n + 1 /\ i = n + 1)
        BY <1>t, <1>z
      <3>2. end <= Len(reader.snap)
        BY <1>t, <1>z, <2>4
      <3> QED
        BY <1>z, <2>2, <2>4, <3>1, <3>2 DEF Agrees
    <2> QED
      BY <1>1, <1>c, <1>s, <2>3, <2>4 DEF ReadOfOne
  <1> QED
    BY <1>1, <1>2, <1>3 DEF ReaderInv

LEMMA ReaderFails ==
  ASSUME EditInv, ReaderInv, PageGone
  PROVE  ReaderInv'
  <1>1. /\ reader \in Readers /\ reader.at = "page" /\ reader' = [reader EXCEPT !.at = "between", !.snap = NoText]
        /\ NoText \in Contents
    BY DEF ReaderInv, ReaderTypes, PageGone, Contents
  <1>2. /\ reader' \in Readers /\ reader'.at = "between" /\ reader'.hash = reader.hash /\ reader'.got = reader.got
        /\ reader'.offset = reader.offset /\ reader'.again = reader.again
    BY <1>1 DEF Readers
  <1>3. ReaderTypes'
    BY <1>1, <1>2 DEF ReaderInv, ReaderTypes
  <1>4. ASSUME ~reader.again, reader.hash # NoText
        PROVE  Agrees(reader.got, reader.offset, reader.hash) /\ Agrees(reader.got, reader.offset - 1, reader.hash)
    <2>1. Agrees(reader.got, reader.offset, reader.hash)
      BY <1>1, <1>4 DEF ReaderInv, ReadOfOne
    <2>2. reader.offset \in Nat /\ reader.hash \in Seq(Nat) /\ Len(reader.hash) \in Nat
      BY <1>1, <1>4, LenProperties DEF Readers, Contents
    <2> QED
      BY <2>1, <2>2 DEF Agrees
  <1> QED
    BY <1>2, <1>3, <1>4 DEF ReaderInv, ReadOfOne

LEMMA NextReader == EditInv /\ ReaderInv /\ [Next]_vars => ReaderInv'
  <1> SUFFICES ASSUME EditInv, ReaderInv, [Next]_vars PROVE ReaderInv'
    OBVIOUS
  <1>same. ASSUME UNCHANGED <<target, data, reader>> PROVE ReaderInv'
    <2>1. Current' = Current
      BY <1>same DEF Current, Text
    <2> QED
      BY <1>same, <2>1, ReaderKept
  <1>1. ASSUME NEW t \in Threads, Replace(t) \/ OpenAppendNew(t) \/ PutAppend(t) \/ PutChunk(t) \/ Place(t) PROVE ReaderInv'
    <2>1. ReaderSees
      BY <1>1 DEF Replace, OpenAppendNew, PutAppend, PutChunk, Place
    <2> QED
      BY <2>1, ReaderKept
  <1>2. ASSUME NEW t \in Threads,
               (\E r \in Requests : Call(t, r)) \/ Read(t) \/ Look(t) \/ OpenAppend(t) \/ Stat(t) \/ Hash(t) \/ CheckTarget(t)
        PROVE  ReaderInv'
    <2>1. UNCHANGED <<target, data, reader>>
      BY <1>2 DEF Call, Read, Look, OpenAppend, Stat, Hash, CheckTarget, filevars
    <2> QED
      BY <1>same, <2>1
  <1>3. ASSUME NEW t \in Threads, OpenStage(t) PROVE ReaderInv'
    <2> DEFINE i == IF staging = NoFile THEN Fresh ELSE staging
    <2>1. i # target
      BY FreshIsFree, FileEditsAssumption DEF EditInv, InUse, EditTypes
    <2>2. (data' = data \/ data' = [data EXCEPT ![i] = <<>>]) /\ UNCHANGED <<target, reader>>
      BY <1>3 DEF OpenStage
    <2> HIDE DEF i
    <2>3. target # NoFile => data'[target] = data[target]
      BY <2>1, <2>2 DEF EditInv, EditTypes
    <2>4. Current' = Current
      BY <2>2, <2>3 DEF Current, Text
    <2> QED
      BY <2>2, <2>4, ReaderKept
  <1>4. ASSUME Vanish PROVE ReaderInv'
    <2>1. UNCHANGED reader /\ Current' = NoText
      BY <1>4 DEF Vanish, Current, Text
    <2> QED
      BY <2>1, ReaderKept
  <1>5. ASSUME Die \/ UNCHANGED vars PROVE ReaderInv'
    BY <1>5, <1>same DEF Die, vars, filevars
  <1> QED
    BY <1>1, <1>2, <1>3, <1>4, <1>5, ReaderSnapshot, ReaderReads, ReaderFails DEF Next, Step

LEMMA ReaderStarts == Init => ReaderInv
  <1> SUFFICES ASSUME Init PROVE ReaderInv
    OBVIOUS
  <1>1. <<>> \in Seq(Nat) /\ Len(<<>>) = 0
    BY EmptySeq
  <1>2. /\ reader \in Readers /\ reader.at = "between" /\ reader.hash = NoText /\ reader.offset = 0 /\ reader.got = <<>>
    BY <1>1 DEF Init, Readers, Contents
  <1> QED
    BY <1>1, <1>2 DEF ReaderInv, ReaderTypes, ReadOfOne

-----------------------------------------------------------------------------
(* FileEdits, chunked uploads, one call at a time: what was compared is    *)
(* what is staged, and nothing but the upload's own call writes there.     *)
Chunks == ToSet(Upload)
Foreign(s) == \A i \in 1..Len(s) : s[i] \notin Chunks
UploadFirst(s) ==
    /\ Len(Upload) <= Len(s) /\ \A i \in 1..Len(Upload) : s[i] = Upload[i]
    /\ \A i \in (Len(Upload) + 1)..Len(s) : s[i] \notin Chunks
Whole(s) == Foreign(s) \/ UploadFirst(s)

UploadCallOK(c, stage, text) ==
    /\ c.id \in 0..MaxCalls
    /\ c.before # NoText => Whole(c.before)
    /\ c.pc = "put" /\ c.req.op = "append" => c.fd # stage
    /\ c.pc = "put" /\ c.req.op = "chunk" => c.fd = stage
    /\ c.pc \in {"check", "place"} => stage # NoFile /\ text[stage] = Upload

UploadInv ==
    /\ calls \in 0..MaxCalls
    /\ target # NoFile => Whole(data[target])
    /\ \A t \in Threads : UploadCallOK(call[t], staging, data)
    /\ \A t, u \in Threads : call[t].req.op = "chunk" /\ call[u].req.op = "chunk" => t = u

LEMMA UploadConstants ==
  /\ Upload \in Seq(Nat) /\ Len(Upload) \in Nat /\ MaxCalls \in Nat
  /\ \A e \in 0..MaxCalls : e \in Nat /\ e \notin Chunks
  /\ Original \in Seq(Nat) /\ Whole(Original) /\ Whole(Upload)
  <1>1. Upload \in Seq(Nat \ 0..MaxCalls) /\ MaxCalls \in Nat
    BY FileEditsAssumption
  <1>2. /\ Upload \in Seq(Nat) /\ Len(Upload) \in Nat /\ DOMAIN Upload = 1..Len(Upload)
        /\ \A i \in 1..Len(Upload) : Upload[i] \in Nat \ 0..MaxCalls
    <2>1. Len(Upload) \in Nat /\ DOMAIN Upload = 1..Len(Upload) /\ \A i \in 1..Len(Upload) : Upload[i] \in Nat \ 0..MaxCalls
      BY <1>1, LenProperties, ElementOfSeq
    <2> QED
      BY <1>1, <2>1
  <1>3. \A e \in 0..MaxCalls : e \in Nat /\ e \notin Chunks
    BY <1>1, <1>2 DEF Chunks, ToSet
  <1>4. Original \in Seq(Nat) /\ Foreign(Original)
    <2>1. Original \in Seq(Nat \ (0..MaxCalls \cup Chunks))
      BY FileEditsAssumption DEF Chunks
    <2>2. \A i \in 1..Len(Original) : Original[i] \in Nat \ (0..MaxCalls \cup Chunks)
      BY <2>1, ElementOfSeq
    <2> QED
      BY <2>1, <2>2 DEF Foreign
  <1>5. UploadFirst(Upload)
    BY <1>2 DEF UploadFirst
  <1> QED
    BY <1>1, <1>2, <1>3, <1>4, <1>5 DEF Whole

(* What a call writes by its number leaves the upload as it is.            *)
LEMMA NumbersKeepWhole ==
  ASSUME NEW s \in Seq(Nat), NEW e \in 0..MaxCalls
  PROVE  /\ Whole(<<>>) /\ Whole(<<e>>)
         /\ Append(s, e) \in Seq(Nat) /\ (Whole(s) => Whole(Append(s, e)))
  <1>1. e \in Nat /\ e \notin Chunks /\ Len(Upload) \in Nat /\ Len(s) \in Nat
    BY UploadConstants, LenProperties
  <1>2. Foreign(<<>>) /\ Foreign(<<e>>)
    <2>1. Len(<<>>) = 0 /\ Len(<<e>>) = 1 /\ <<e>>[1] = e
      BY EmptySeq
    <2> QED
      BY <1>1, <2>1 DEF Foreign
  <1> DEFINE z == Append(s, e)
  <1>3. /\ z \in Seq(Nat) /\ Len(z) = Len(s) + 1 /\ z[Len(s) + 1] = e
        /\ \A i \in 1..Len(s) : z[i] = s[i]
    BY <1>1, AppendProperties
  <1> HIDE DEF z
  <1>4. \A i \in 1..Len(z) : i \in 1..Len(s) \/ i = Len(s) + 1
    BY <1>1, <1>3
  <1>5. ASSUME Foreign(s) PROVE Foreign(z)
    BY <1>1, <1>3, <1>4, <1>5 DEF Foreign
  <1>6. ASSUME UploadFirst(s) PROVE UploadFirst(z)
    <2>1. Len(Upload) <= Len(z) /\ \A i \in 1..Len(Upload) : i \in 1..Len(s)
      BY <1>1, <1>3, <1>6 DEF UploadFirst
    <2>2. \A i \in 1..Len(Upload) : z[i] = Upload[i]
      BY <1>3, <1>6, <2>1 DEF UploadFirst
    <2>3. \A i \in (Len(Upload) + 1)..Len(z) : i \in (Len(Upload) + 1)..Len(s) \/ i = Len(s) + 1
      BY <1>1, <1>3
    <2>4. \A i \in (Len(Upload) + 1)..Len(s) : i \in 1..Len(s) /\ s[i] \notin Chunks
      BY <1>1, <1>6 DEF UploadFirst
    <2>5. \A i \in (Len(Upload) + 1)..Len(z) : z[i] \notin Chunks
      BY <1>1, <1>3, <2>3, <2>4
    <2> QED
      BY <2>1, <2>2, <2>5 DEF UploadFirst
  <1>7. z \in Seq(Nat)
    BY <1>3
  <1> QED
    BY <1>2, <1>5, <1>6, <1>7 DEF Whole, z

LEMMA UploadInvGives == EditInv /\ UploadInv => UploadIntact
  <1> SUFFICES ASSUME EditInv, UploadInv, target # NoFile, ToSet(Current) \cap ToSet(Upload) # {}
               PROVE  IsPrefix(Upload, Current) /\ \A i \in (Len(Upload) + 1)..Len(Current) : Current[i] \notin ToSet(Upload)
    BY DEF UploadIntact
  <1>1. Current \in Seq(Nat) /\ Whole(Current)
    BY DEF EditInv, EditTypes, UploadInv, Current, Text
  <1>2. ~Foreign(Current)
    <2>1. DOMAIN Current = 1..Len(Current)
      BY <1>1, LenProperties
    <2> QED
      BY <2>1 DEF Foreign, Chunks, ToSet
  <1>3. UploadFirst(Current)
    BY <1>1, <1>2 DEF Whole
  <1>4. IsPrefix(Upload, Current)
    BY <1>1, <1>3, UploadConstants, PrefixBy DEF UploadFirst
  <1> QED
    BY <1>3, <1>4 DEF UploadFirst, Chunks

(* What others wrote is all that a call notes of them.                     *)
LEMMA UnseenIsSame ==
  ASSUME NEW u \in Threads, call[u] \in CallRecords, NEW new \in SUBSET Nat, NEW d, d = Unseen(u, new)
  PROVE  d.pc = call[u].pc /\ d.req = call[u].req /\ d.id = call[u].id /\ d.fd = call[u].fd /\ d.before = call[u].before
  <1> DEFINE more == IF call[u].pc \in {"replace", "place"} THEN new ELSE {}
  <1>1. d = [call[u] EXCEPT !.landed = @ \cup more]
    BY DEF Unseen
  <1> HIDE DEF more
  <1> QED
    BY <1>1 DEF CallRecords

(* Thread t moves; the others' calls note no more than what was written.   *)
OthersSame(t) ==
    \A u \in Threads \ {t} :
        /\ call'[u].pc = call[u].pc /\ call'[u].req = call[u].req /\ call'[u].id = call[u].id
        /\ call'[u].fd = call[u].fd /\ call'[u].before = call[u].before

LEMMA UploadKept ==
  ASSUME EditInv, UploadInv, NEW t \in Threads, OthersSame(t),
         UploadCallOK(call'[t], staging', data'),
         call'[t].req.op = "chunk" => \A u \in Threads \ {t} : call[u].req.op # "chunk",
         calls' \in 0..MaxCalls, target' # NoFile => Whole(data'[target']),
         staging' \in {staging, NoFile} \/ \A u \in Threads : call[u].fd # staging',
         call[t].req.op # "chunk" => staging' = staging /\ (staging # NoFile => data'[staging] = data[staging])
  PROVE  UploadInv'
  <1> USE DEF EditInv, EditTypes, LooksOK, CallOK, OthersSame
  <1>1. ASSUME NEW u \in Threads, u # t PROVE UploadCallOK(call'[u], staging', data')
    <2>1. UploadCallOK(call[u], staging, data) /\ CallOK(call[u], Inside)
      BY DEF UploadInv
    <2>2. call[u].req.op = "chunk" => call[t].req.op # "chunk"
      BY <1>1 DEF UploadInv
    <2>3. call[u].pc = "put" /\ call[u].req.op = "append" => call[u].fd # staging'
      BY <2>1 DEF UploadCallOK
    <2>4. call[u].pc = "put" /\ call[u].req.op = "chunk" => call[u].fd = staging'
      BY <2>1, <2>2 DEF UploadCallOK
    <2>5. call[u].pc \in {"check", "place"} => staging' # NoFile /\ data'[staging'] = Upload
      BY <2>1, <2>2 DEF UploadCallOK
    <2> QED
      BY <1>1, <2>1, <2>3, <2>4, <2>5 DEF UploadCallOK
  <1>2. ASSUME NEW u \in Threads, NEW v \in Threads, call'[u].req.op = "chunk", call'[v].req.op = "chunk" PROVE u = v
    BY <1>2 DEF UploadInv
  <1> QED
    BY <1>1, <1>2 DEF UploadInv

(* Thread t goes on with the same request or ends, and leaves the files.   *)
LEMMA UploadGoesOn ==
  ASSUME EditInv, UploadInv, NEW t \in Threads, NEW c, call' = [call EXCEPT ![t] = c],
         c.req = call[t].req \/ c.req.op # "chunk",
         UNCHANGED <<target, data, calls>>,
         staging' = staging \/ (staging' = NoFile /\ call[t].req.op = "chunk"),
         UploadCallOK(c, staging', data)
  PROVE  UploadInv'
  <1>1. call'[t] = c /\ OthersSame(t)
    BY DEF OthersSame, EditInv, EditTypes
  <1>2. calls' \in 0..MaxCalls /\ (target' # NoFile => Whole(data'[target']))
    BY DEF UploadInv
  <1>3. c.req.op = "chunk" => \A u \in Threads \ {t} : call[u].req.op # "chunk"
    BY DEF UploadInv
  <1> QED
    BY <1>1, <1>2, <1>3, UploadKept

LEMMA IdleUploads == \A stage, text : UploadCallOK(Idle, stage, text)
  BY UploadConstants DEF UploadCallOK, Idle

(* A call lands, and the others note what it wrote.                        *)
LEMMA UploadLands ==
  ASSUME EditInv, UploadInv, NEW t \in Threads, NEW c, NEW new \in SUBSET Nat,
         call' = [u \in Threads |-> IF u = t THEN c ELSE Unseen(u, new)],
         c.req = call[t].req \/ c.req.op # "chunk",
         UploadCallOK(c, staging', data'), calls' = calls, target' # NoFile => Whole(data'[target']),
         staging' \in {staging, NoFile},
         call[t].req.op # "chunk" => staging' = staging /\ (staging # NoFile => data'[staging] = data[staging])
  PROVE  UploadInv'
  <1>1. ASSUME NEW u \in Threads \ {t}
        PROVE  /\ call'[u].pc = call[u].pc /\ call'[u].req = call[u].req /\ call'[u].id = call[u].id
               /\ call'[u].fd = call[u].fd /\ call'[u].before = call[u].before
    <2>1. call'[u] = Unseen(u, new) /\ u \in Threads /\ call[u] \in CallRecords
      BY <1>1 DEF EditInv, EditTypes
    <2> QED
      BY <2>1, UnseenIsSame
  <1>2. OthersSame(t) /\ call'[t] = c
    BY <1>1 DEF OthersSame
  <1>3. c.req.op = "chunk" => \A u \in Threads \ {t} : call[u].req.op # "chunk"
    BY DEF UploadInv
  <1>4. calls' \in 0..MaxCalls
    BY DEF UploadInv
  <1> QED
    BY <1>2, <1>3, <1>4, UploadKept

LEMMA NextUploads ==
  ASSUME OneUploader, EditInv, UploadInv, [Next]_vars
  PROVE  UploadInv'
  <1>i. UploadCallOK(Idle, staging, data) /\ Idle.req.op # "chunk" /\ UploadCallOK(Idle, staging', data')
        /\ UploadCallOK(Idle, staging', data)
    BY IdleUploads DEF Idle
  <1>t. EditTypes /\ LooksOK
    BY DEF EditInv
  <1>c. ASSUME NEW t \in Threads
        PROVE  call[t] \in CallRecords /\ CallOK(call[t], Inside) /\ UploadCallOK(call[t], staging, data)
               /\ call[t].id \in 0..MaxCalls
    BY <1>t DEF EditTypes, LooksOK, UploadInv, UploadCallOK
  <1>w. target # NoFile => Current = data[target] /\ Current \in Seq(Nat) /\ Whole(Current)
    BY <1>t DEF Current, Text, EditTypes, UploadInv
  <1>f. Fresh \in Inodes /\ Fresh # target /\ Fresh # staging /\ Fresh # NoFile /\ \A u \in Threads : call[u].fd # Fresh
    <2>1. Fresh \in Inodes \ InUse
      BY <1>t, FreshIsFree
    <2>2. NoFile \notin Inodes
      BY FileEditsAssumption
    <2> QED
      BY <2>1, <2>2 DEF InUse
  <1>1. ASSUME NEW t \in Threads, \E r \in Requests : Call(t, r) PROVE UploadInv'
    <2>1. PICK r \in Requests : Call(t, r)
      BY <1>1
    <2> DEFINE c == [Idle EXCEPT !.pc = "called", !.req = r, !.id = calls + 1,
                               !.want = IF r.cond = "same" THEN Current ELSE NoText]
    <2>2. /\ call' = [call EXCEPT ![t] = c] /\ calls < MaxCalls /\ calls' = calls + 1 /\ call[t].pc = "idle"
          /\ r.op = "chunk" => \A u \in Threads : call[u].req.op # "chunk"
          /\ UNCHANGED <<target, staging, data>>
      BY <2>1 DEF Call, filevars
    <2>3. c.pc = "called" /\ c.req = r /\ c.id = calls + 1 /\ c.before = NoText
      BY DEF Idle
    <2> HIDE DEF c
    <2>4. calls' \in 0..MaxCalls
      BY <2>2, UploadConstants DEF UploadInv
    <2>5. UploadCallOK(c, staging', data')
      BY <2>2, <2>3, <2>4 DEF UploadCallOK
    <2>6. call'[t] = c /\ OthersSame(t)
      BY <1>t, <2>2 DEF OthersSame, EditTypes
    <2>7. target' # NoFile => Whole(data'[target'])
      BY <2>2 DEF UploadInv
    <2> QED
      BY <2>2, <2>3, <2>4, <2>5, <2>6, <2>7, UploadKept
  <1>2. ASSUME NEW t \in Threads, Read(t) PROVE UploadInv'
    <2>1. UNCHANGED <<target, staging, data, calls>>
      BY <1>2 DEF Read, filevars
    <2>2. CASE call' = [call EXCEPT ![t] = Idle]
      BY <1>i, <2>1, <2>2, UploadGoesOn
    <2> DEFINE c == [call[t] EXCEPT !.before = Current,
                         !.pc = IF call[t].req.op = "append" /\ Current # NoText THEN "append" ELSE "look"]
    <2>3. CASE call' = [call EXCEPT ![t] = c]
      <3>1. c.before = Current /\ c.pc \in {"append", "look"} /\ c.req = call[t].req /\ c.id = call[t].id
        BY <1>c DEF CallRecords
      <3>2. Current # NoText => Whole(Current)
        BY <1>w DEF Current, Text
      <3>3. UploadCallOK(c, staging', data)
        BY <1>c, <3>1, <3>2 DEF UploadCallOK
      <3> HIDE DEF c
      <3> QED
        BY <2>1, <2>3, <3>1, <3>3, UploadGoesOn
    <2>4. call' = [call EXCEPT ![t] = Idle] \/ call' = [call EXCEPT ![t] = c]
      BY <1>2, <1>t DEF Read, Return, EditTypes
    <2> QED
      BY <2>2, <2>3, <2>4
  <1>to. ASSUME NEW t \in Threads, NEW step \in {"replace", "open", "check", "place"}, To(t, step),
                UNCHANGED <<target, staging, data, calls>>,
                step \in {"check", "place"} => staging # NoFile /\ data[staging] = Upload
         PROVE  UploadInv'
    <2> DEFINE c == [call[t] EXCEPT !.pc = step]
    <2>1. call' = [call EXCEPT ![t] = c]
      BY <1>to, <1>t DEF To, EditTypes
    <2>2. c.pc = step /\ c.req = call[t].req /\ c.id = call[t].id /\ c.before = call[t].before
      BY <1>c DEF CallRecords
    <2>3. UploadCallOK(c, staging', data)
      BY <1>to, <1>c, <2>2 DEF UploadCallOK
    <2> HIDE DEF c
    <2> QED
      BY <1>to, <2>1, <2>2, <2>3, UploadGoesOn
  <1>ret. ASSUME NEW t \in Threads, Return(t), UNCHANGED <<target, data, calls>>,
                 staging' = staging \/ (staging' = NoFile /\ call[t].req.op = "chunk")
          PROVE  UploadInv'
    BY <1>ret, <1>i, UploadGoesOn DEF Return
  <1>3. ASSUME NEW t \in Threads, Look(t) PROVE UploadInv'
    <2>1. UNCHANGED <<target, staging, data, calls>> /\ (Return(t) \/ To(t, "replace"))
      BY <1>3 DEF Look, filevars
    <2> QED
      BY <2>1, <1>to, <1>ret
  <1>4. ASSUME NEW t \in Threads, Replace(t) PROVE UploadInv'
    <2> DEFINE text == IF call[t].req.op = "edit" THEN Append(call[t].before, call[t].id) ELSE <<call[t].id>>
    <2>1. /\ target' = Fresh /\ data' = [data EXCEPT ![Fresh] = text] /\ Lands(t, text)
          /\ UNCHANGED <<staging, calls>> /\ call[t].pc = "replace"
      BY <1>4 DEF Replace
    <2>2. text \in Seq(Nat) /\ Whole(text)
      <3>1. CASE call[t].req.op = "edit"
        <4>1. call[t].before \in Seq(Nat) /\ Whole(call[t].before)
          BY <1>c, <2>1, <3>1 DEF CallOK, CallRecords, Contents, UploadCallOK
        <4>2. text = Append(call[t].before, call[t].id)
          BY <3>1
        <4>3. call[t].id \in 0..MaxCalls
          BY <1>c
        <4> HIDE DEF text
        <4> QED
          BY <4>1, <4>2, <4>3, NumbersKeepWhole
      <3>2. CASE call[t].req.op # "edit"
        <4>1. text = <<call[t].id>> /\ text \in Seq(Nat) /\ <<>> \in Seq(Nat)
          BY <1>c, <3>2, UploadConstants
        <4>2. call[t].id \in 0..MaxCalls
          BY <1>c
        <4> HIDE DEF text
        <4> QED
          BY <4>1, <4>2, NumbersKeepWhole
      <3> QED
        BY <3>1, <3>2
    <2> HIDE DEF text
    <2>3. Whole(data'[target']) /\ (staging # NoFile => data'[staging] = data[staging])
      BY <1>t, <1>f, <2>1, <2>2 DEF EditTypes
    <2>4. call' = [u \in Threads |-> IF u = t THEN Idle ELSE Unseen(u, ToSet(text))] /\ ToSet(text) \in SUBSET Nat
      BY <2>1, <2>2 DEF Lands, ToSet
    <2> QED
      BY <1>i, <2>1, <2>3, <2>4, UploadLands
  <1>put. ASSUME NEW t \in Threads, NEW i \in Inodes, call[t].pc \in {"append", "open"},
                 call' = [call EXCEPT ![t].pc = "put", ![t].fd = i], calls' = calls,
                 call[t].req.op = "chunk" => staging' = i,
                 call[t].req.op # "chunk" => i # staging /\ staging' = staging,
                 staging' = staging \/ \A u \in Threads : call[u].fd # staging',
                 call[t].req.op # "chunk" => data' = data \/ data' = [data EXCEPT ![i] = <<>>],
                 target' # NoFile => Whole(data'[target'])
          PROVE  UploadInv'
    <2> DEFINE c == [call[t] EXCEPT !.pc = "put", !.fd = i]
    <2>1. call'[t] = c /\ OthersSame(t)
      BY <1>put, <1>t DEF OthersSame, EditTypes
    <2>2. c.pc = "put" /\ c.fd = i /\ c.req = call[t].req /\ c.id = call[t].id /\ c.before = call[t].before
      BY <1>c DEF CallRecords
    <2> HIDE DEF c
    <2>3. UploadCallOK(c, staging', data')
      BY <1>put, <1>c, <2>2 DEF UploadCallOK
    <2>4. c.req.op = "chunk" => \A u \in Threads \ {t} : call[u].req.op # "chunk"
      BY <2>2 DEF UploadInv
    <2>5. calls' \in 0..MaxCalls
      BY <1>put DEF UploadInv
    <2>6. call[t].req.op # "chunk" => staging' = staging /\ (staging # NoFile => data'[staging] = data[staging])
      BY <1>put, <1>t DEF EditTypes
    <2> QED
      BY <1>put, <2>1, <2>3, <2>4, <2>5, <2>6, UploadKept
  <1>5. ASSUME NEW t \in Threads, OpenAppend(t) PROVE UploadInv'
    <2>1. /\ call[t].pc = "append" /\ target # NoFile /\ UNCHANGED <<target, staging, data, calls>>
          /\ call' = [call EXCEPT ![t].pc = "put", ![t].fd = target] /\ call[t].req.op = "append"
      BY <1>5, <1>c DEF OpenAppend, filevars, CallOK
    <2>2. target \in Inodes /\ target # staging
      BY <1>t, <2>1 DEF EditTypes
    <2> QED
      BY <1>w, <2>1, <2>2, <1>put
  <1>6. ASSUME NEW t \in Threads, OpenAppendNew(t) PROVE UploadInv'
    <2>1. /\ call[t].pc = "append" /\ UNCHANGED <<staging, calls>> /\ call[t].req.op = "append"
          /\ target' = Fresh /\ data' = [data EXCEPT ![Fresh] = <<>>]
          /\ call' = [call EXCEPT ![t].pc = "put", ![t].fd = Fresh]
      BY <1>6, <1>c DEF OpenAppendNew, CallOK
    <2>2. Whole(<<>>)
      <3>1. <<>> \in Seq(Nat) /\ 0 \in 0..MaxCalls
        BY UploadConstants
      <3> QED
        BY <3>1, NumbersKeepWhole
    <2>3. Whole(data'[target'])
      BY <1>t, <1>f, <2>1, <2>2 DEF EditTypes
    <2> QED
      BY <1>f, <2>1, <2>3, <1>put
  <1>7. ASSUME NEW t \in Threads, PutAppend(t) PROVE UploadInv'
    <2> DEFINE own == call[t].fd
               text == Append(data[own], call[t].id)
    <2>1. /\ call[t].pc = "put" /\ call[t].req.op = "append" /\ data' = [data EXCEPT ![own] = text]
          /\ UNCHANGED <<target, staging, calls>>
          /\ IF own = target THEN Lands(t, Append(Current, call[t].id)) ELSE Return(t)
      BY <1>7 DEF PutAppend
    <2>2. own \in Inodes /\ data[own] \in Seq(Nat) /\ own # staging
      BY <1>t, <1>c, <2>1 DEF EditTypes, CallOK, CallRecords, UploadCallOK
    <2>3. text \in Seq(Nat) /\ (Whole(data[own]) => Whole(text))
      <3>1. call[t].id \in 0..MaxCalls
        BY <1>c
      <3> QED
        BY <2>2, <3>1, NumbersKeepWhole
    <2> HIDE DEF text, own
    <2>4. target' # NoFile => Whole(data'[target'])
      BY <1>t, <2>1, <2>2, <2>3 DEF EditTypes, UploadInv
    <2>5. staging # NoFile => data'[staging] = data[staging]
      BY <1>t, <2>1, <2>2 DEF EditTypes
    <2>6. CASE own = target
      <3>1. Current = data[own]
        BY <2>2, <2>6, <1>w, FileEditsAssumption
      <3>2. Append(Current, call[t].id) = text
        BY <3>1 DEF text
      <3>3. call' = [u \in Threads |-> IF u = t THEN Idle ELSE Unseen(u, ToSet(text))] /\ ToSet(text) \in SUBSET Nat
        BY <2>1, <2>3, <2>6, <3>2 DEF Lands, ToSet
      <3> QED
        BY <1>i, <2>1, <2>4, <2>5, <3>3, UploadLands
    <2>7. CASE own # target
      <3>1. call'[t] = Idle /\ OthersSame(t)
        BY <1>t, <2>1, <2>7 DEF Return, OthersSame, EditTypes
      <3>2. calls' \in 0..MaxCalls
        BY <2>1 DEF UploadInv
      <3> QED
        BY <1>i, <2>1, <2>4, <2>5, <3>1, <3>2, UploadKept
    <2> QED
      BY <2>6, <2>7
  <1>8. ASSUME NEW t \in Threads, Stat(t) PROVE UploadInv'
    <2>1. UNCHANGED <<target, staging, data, calls>> /\ (Return(t) \/ To(t, "open"))
      BY <1>8 DEF Stat, filevars
    <2> QED
      BY <2>1, <1>to, <1>ret
  <1>9. ASSUME NEW t \in Threads, OpenStage(t) PROVE UploadInv'
    <2> DEFINE i == IF staging = NoFile THEN Fresh ELSE staging
    <2>1. /\ call[t].pc = "open" /\ call[t].req.op = "chunk" /\ staging' = i /\ UNCHANGED <<target, calls>>
          /\ call' = [call EXCEPT ![t].pc = "put", ![t].fd = i]
          /\ data' = data \/ data' = [data EXCEPT ![i] = <<>>]
      BY <1>9, <1>c DEF OpenStage, CallOK
    <2>2. i \in Inodes /\ i # target /\ (i = staging \/ \A u \in Threads : call[u].fd # i)
      BY <1>t, <1>f DEF EditTypes
    <2> HIDE DEF i
    <2>3. target' # NoFile => Whole(data'[target'])
      BY <1>t, <2>1, <2>2 DEF EditTypes, UploadInv
    <2> QED
      BY <2>1, <2>2, <2>3, <1>put
  <1>10. ASSUME NEW t \in Threads, PutChunk(t) PROVE UploadInv'
    <2> DEFINE r == call[t].req
               c == IF r.at = Len(Upload) - 1 /\ staging # NoFile
                    THEN [call[t] EXCEPT !.pc = "hash", !.fd = NoFile] ELSE Idle
               new == IF call[t].fd = target THEN {r.bytes} ELSE {}
    <2>1. /\ call[t].pc = "put" /\ r.op = "chunk" /\ UNCHANGED <<target, staging, calls>>
          /\ \E text : data' = [data EXCEPT ![call[t].fd] = text]
          /\ call' = [u \in Threads |-> IF u = t THEN c ELSE Unseen(u, new)]
      BY <1>10, Zenon DEF PutChunk
    <2>2. call[t].fd = staging /\ staging \in Inodes /\ staging # target /\ r.bytes \in Nat
      BY <1>t, <1>c, <2>1, RequestFacts DEF EditTypes, CallOK, CallRecords, UploadCallOK
    <2>3. target' # NoFile => Whole(data'[target'])
      BY <1>t, <2>1, <2>2 DEF EditTypes, UploadInv
    <2>4. UploadCallOK(c, staging', data') /\ (c.req = r \/ c.req.op # "chunk")
      <3>1. CASE c = Idle
        BY <1>i, <3>1
      <3>2. CASE c = [call[t] EXCEPT !.pc = "hash", !.fd = NoFile]
        <4>1. c.pc = "hash" /\ c.req = r /\ c.id = call[t].id /\ c.before = call[t].before
          BY <1>c, <3>2 DEF CallRecords
        <4> HIDE DEF c
        <4> QED
          BY <1>c, <4>1 DEF UploadCallOK
      <3> QED
        BY <3>1, <3>2
    <2>5. new \in SUBSET Nat
      BY <2>2
    <2> HIDE DEF c, new
    <2> QED
      BY <2>1, <2>3, <2>4, <2>5, UploadLands
  <1>11. ASSUME NEW t \in Threads, Hash(t) PROVE UploadInv'
    <2>1. UNCHANGED <<target, data, calls>> /\ call[t].req.op = "chunk"
      BY <1>11, <1>c DEF Hash, CallOK
    <2>2. \/ Return(t) /\ staging' \in {staging, NoFile}
          \/ To(t, "check") /\ staging' = staging /\ staging # NoFile /\ data[staging] = Upload
      BY <1>11 DEF Hash, Discard, Text
    <2> QED
      BY <2>1, <2>2, <1>to, <1>ret
  <1>12. ASSUME NEW t \in Threads, CheckTarget(t) PROVE UploadInv'
    <2>1. UNCHANGED <<target, data, calls>> /\ call[t].req.op = "chunk" /\ staging # NoFile /\ data[staging] = Upload
      BY <1>12, <1>c DEF CheckTarget, CallOK, UploadCallOK
    <2>2. \/ Return(t) /\ staging' \in {staging, NoFile}
          \/ To(t, "place") /\ staging' = staging
      BY <1>12 DEF CheckTarget, Discard
    <2> QED
      BY <2>1, <2>2, <1>to, <1>ret
  <1>13. ASSUME NEW t \in Threads, Place(t) PROVE UploadInv'
    <2>1. staging # NoFile /\ data[staging] = Upload /\ call[t].req.op = "chunk"
      BY <1>13, <1>c DEF Place, CallOK, UploadCallOK
    <2>2. /\ target' = staging /\ staging' = NoFile /\ Lands(t, Upload) /\ UNCHANGED <<data, calls>>
      BY <1>13, <2>1 DEF Place, Text
    <2>3. Whole(data'[target'])
      BY <2>1, <2>2, UploadConstants
    <2>4. call' = [u \in Threads |-> IF u = t THEN Idle ELSE Unseen(u, ToSet(Upload))] /\ ToSet(Upload) \in SUBSET Nat
      BY <2>2, UploadConstants DEF Lands, ToSet
    <2> QED
      BY <1>i, <2>1, <2>2, <2>3, <2>4, UploadLands
  <1>14. ASSUME Vanish PROVE UploadInv'
    <2>1. target' = NoFile /\ calls < MaxCalls /\ calls' = calls + 1 /\ UNCHANGED <<staging, data, call>>
      BY <1>14 DEF Vanish
    <2>2. calls' \in 0..MaxCalls
      BY <2>1, UploadConstants DEF UploadInv
    <2> QED
      BY <2>1, <2>2 DEF UploadInv
  <1>15. ASSUME Die PROVE UploadInv'
    <2>1. call' = [t \in Threads |-> Idle] /\ UNCHANGED <<target, staging, data, calls>>
      BY <1>15 DEF Die, filevars
    <2>2. \A t \in Threads : UploadCallOK(call'[t], staging', data') /\ call'[t].req.op # "chunk"
      BY <1>i, <2>1
    <2> QED
      BY <2>1, <2>2 DEF UploadInv
  <1>16. ASSUME Snapshot \/ ReadPage \/ PageGone \/ UNCHANGED vars PROVE UploadInv'
    <2>1. UNCHANGED <<target, staging, data, calls, call>>
      BY <1>16 DEF Snapshot, ReadPage, PageGone, vars, filevars
    <2> QED
      BY <2>1 DEF UploadInv
  <1> QED
    BY <1>1, <1>2, <1>3, <1>4, <1>5, <1>6, <1>7, <1>8, <1>9, <1>10, <1>11, <1>12, <1>13, <1>14, <1>15, <1>16
       DEF Next, Step

LEMMA EditsStart == FilesInit => EditInv /\ ReaderInv /\ UploadInv
  <1> SUFFICES ASSUME Init PROVE EditInv /\ ReaderInv /\ UploadInv
    BY DEF FilesInit
  <1>1. UploadInv
    <2>1. data[target] = Original /\ calls \in 0..MaxCalls
      <3>1. 1 \in Inodes
        BY FileEditsAssumption, FS_CardinalityType DEF Inodes
      <3> QED
        BY <3>1, UploadConstants DEF Init
    <2>2. \A t \in Threads : UploadCallOK(call[t], staging, data) /\ call[t].req.op # "chunk"
      BY IdleUploads DEF Init, Idle
    <2> QED
      BY <2>1, <2>2, UploadConstants DEF UploadInv
  <1> QED
    BY <1>1, EditStarts, ReaderStarts

(* A client that follows the cursors to the end has pages of one content,  *)
(* but for the last: also when several calls upload at a time.             *)
THEOREM PagesOfOneContent == FilesSpec => []PagesAgree
  <1>1. EditInv /\ ReaderInv /\ [FilesNext]_filesvars => (EditInv /\ ReaderInv)'
    BY FilesMoveEdits, NextEdits, NextReader
  <1> QED
    BY <1>1, EditsStart, ReaderInvGives, PTL DEF FilesSpec, filesvars

(* While one call uploads at a time, the file at the path is never a part  *)
(* of the upload, and never holds some of it twice; and pages agree.       *)
THEOREM FilesStayIntact == ASSUME OneUploader PROVE FilesSpec => []FilesIntact
  <1> DEFINE Inv == EditInv /\ ReaderInv /\ UploadInv
  <1>1. Inv /\ [FilesNext]_filesvars => Inv'
    BY FilesMoveEdits, NextEdits, NextReader, NextUploads
  <1>2. Inv => FilesIntact
    BY UploadInvGives, ReaderInvGives DEF FilesIntact
  <1>3. FilesInit => Inv
    BY EditsStart
  <1> HIDE DEF Inv
  <1> QED
    BY <1>1, <1>2, <1>3, PTL DEF FilesSpec, filesvars
-----------------------------------------------------------------------------
(* FileLinks.  A link is busy exactly while one transfer holds it, so the  *)
(* one that completes it finds it uncompleted, and spends it.              *)
LinkRecords == [direction : {"none", "download", "upload"}, path : Paths, overwrite : BOOLEAN,
                expires : Nat, state : {"ready", "busy", "spent"}, was : Nat]
TransferSteps == {"idle", "claimed", "streaming", "place", "rename", "placed"}

LinkTypes ==
    /\ now \in 0..MaxTime /\ made \in 0..MaxLinks /\ table \subseteq 1..made
    /\ links \in [1..MaxLinks -> LinkRecords]
    /\ disk \in [Paths -> 0..written] /\ written \in 1..MaxContent
    /\ pc \in [Transfers -> TransferSteps]
    /\ uses \in [Transfers -> 0..made] /\ content \in [Transfers -> 0..written]
    /\ completed \in [1..MaxLinks -> Nat]

InTransfer(t) == pc[t] # "idle"

UseOK ==
    /\ \A t \in Transfers : InTransfer(t) => uses[t] \in 1..made
    /\ \A t, u \in Transfers : InTransfer(t) /\ InTransfer(u) /\ uses[t] = uses[u] => t = u
    /\ \A l \in 1..MaxLinks : links[l].state = "busy" <=> \E t \in Transfers : InTransfer(t) /\ uses[t] = l
    /\ \A l \in 1..MaxLinks : completed[l] <= 1 /\ (completed[l] = 1 => links[l].state = "spent")
    /\ \A l \in 1..MaxLinks : l > made => completed[l] = 0

(* A transfer streams what it opened, and renames only where there are no  *)
(* hard links.                                                             *)
StepsOK ==
    \A t \in Transfers :
        /\ pc[t] = "streaming" /\ links[uses[t]].direction = "download" => content[t] # 0
        /\ pc[t] = "rename" => links[uses[t]].path \notin HardLinks

LinkInv == LinkTypes /\ UseOK /\ StepsOK /\ L!KnownWithinLimit

LEMMA LinkConstants ==
    /\ MaxLinks \in Nat /\ MaxTime \in Nat /\ MaxContent \in Nat \ {0} /\ MAX_LIVE \in Nat \ {0}
    /\ Ttl \in Nat \ {0} /\ Remember \in Nat /\ Paths # {}
    /\ \A set : L!Cardinality(set) = Cardinality(set)
  BY PartsAssumption DEF L!FileLinksAssumption, L!Cardinality, Cardinality

LEMMA LinkInvGives == LinkInv => LinksAccounted
  BY DEF LinkInv, LinkTypes, UseOK, StepsOK, InTransfer, LinkRecords, TransferSteps, LinksAccounted,
     L!LinksAccounted,
         L!TypeOK, L!BusyWhileTransferred, L!OneCompleteTransfer, L!Active, L!LinkIds, L!Is, L!Mine, L!Absent

(* The links that count are few as long as none is added to them.          *)
LEMMA LiveShrinks ==
  ASSUME LinkTypes, L!KnownWithinLimit, L!Live(table)' \subseteq L!Live(table)
  PROVE  L!KnownWithinLimit'
  <1>1. IsFiniteSet(1..made) /\ L!Live(table) \in SUBSET (1..made)
    <2>1. made \in Int /\ table \subseteq 1..made
      BY LinkConstants DEF LinkTypes
    <2>2. L!Live(table) \subseteq table
      BY Zenon DEF L!Live
    <2>3. IsFiniteSet(1..made)
      BY <2>1, FS_Interval
    <2> QED
      BY <2>1, <2>2, <2>3, Zenon
  <1>2. IsFiniteSet(L!Live(table)) /\ Cardinality(L!Live(table)) \in Nat
    BY <1>1, FS_Subset, FS_CardinalityType
  <1>3. Cardinality(L!Live(table)') <= Cardinality(L!Live(table)) /\ Cardinality(L!Live(table)') \in Nat
    BY <1>2, FS_Subset, FS_CardinalityType
  <1> QED
    <2> DEFINE before == Cardinality(L!Live(table))
               after == Cardinality(L!Live(table)')
    <2>1. before <= MAX_LIVE
      BY LinkConstants DEF L!KnownWithinLimit
    <2>2. before \in Nat /\ after \in Nat /\ after <= before /\ MAX_LIVE \in Nat
      BY <1>2, <1>3, LinkConstants
    <2>3. after <= MAX_LIVE
      <3> HIDE DEF before, after
      <3> QED
        BY <2>1, <2>2
    <2> QED
      BY <2>3, LinkConstants DEF L!KnownWithinLimit

(* A transfer goes on, or it ends and gives its link back or spends it.    *)
LEMMA TransferGoesOn ==
  ASSUME LinkInv, NEW t \in Transfers, InTransfer(t), NEW step \in TransferSteps \ {"idle"},
         pc' = [pc EXCEPT ![t] = step], UNCHANGED <<now, links, table, made, uses, completed>>,
         written' \in 1..MaxContent, disk' \in [Paths -> 0..written'],
         content' \in [Transfers -> 0..written'], \A u \in Transfers : u # t => content'[u] = content[u],
         step = "streaming" /\ links[uses[t]].direction = "download" => content'[t] # 0,
         step = "rename" => links[uses[t]].path \notin HardLinks
  PROVE  LinkInv'
  <1>1. LinkTypes'
    BY DEF LinkInv, LinkTypes
  <1>2. UseOK'
    <2>1. \A u \in Transfers : InTransfer(u)' <=> InTransfer(u)
      BY DEF LinkInv, LinkTypes, InTransfer
    <2> QED
      BY <2>1 DEF LinkInv, UseOK
  <1>3. StepsOK'
    BY DEF LinkInv, LinkTypes, StepsOK
  <1>4. L!Live(table)' \subseteq L!Live(table)
    BY DEF L!Live
  <1> QED
    BY <1>1, <1>2, <1>3, <1>4, LiveShrinks DEF LinkInv

(* A link that is another one but for its state.                           *)
WithState(d, e, s) ==
    /\ e \in LinkRecords /\ e.direction = d.direction /\ e.path = d.path /\ e.expires = d.expires /\ e.state = s

LEMMA TransferEnds ==
  ASSUME LinkInv, NEW t \in Transfers, InTransfer(t), NEW s \in {"ready", "spent"}, L!End(t, s),
         UNCHANGED <<now, table, made, disk, written>>,
         completed' = completed \/ (s = "spent" /\ completed' = [completed EXCEPT ![uses[t]] = @ + 1])
  PROVE  LinkInv'
  <1> USE DEF LinkInv
  <1> USE LinkConstants
  <1>1. /\ pc' = [pc EXCEPT ![t] = "idle"] /\ uses' = [uses EXCEPT ![t] = 0]
        /\ content' = [content EXCEPT ![t] = 0]
        /\ links' = [links EXCEPT ![uses[t]].state = s]
    BY DEF L!End, L!Goto, L!SetState, L!Absent
  <1>2. uses[t] \in 1..made /\ uses[t] \in 1..MaxLinks /\ links[uses[t]].state = "busy" /\ completed[uses[t]] = 0
    BY LinkConstants DEF UseOK, LinkTypes
  <1>3. \A l \in 1..MaxLinks : /\ links'[l] \in LinkRecords
                               /\ links'[l].direction = links[l].direction /\ links'[l].path = links[l].path
                               /\ links'[l].expires = links[l].expires
                               /\ links'[l].state = IF l = uses[t] THEN s ELSE links[l].state
    <2>1. \A l \in 1..MaxLinks :
             /\ links[l] \in LinkRecords
             /\ links'[l] = IF l = uses[t] THEN [links[l] EXCEPT !.state = s] ELSE links[l]
      BY <1>1, <1>2 DEF LinkTypes
    <2>2. \A d \in LinkRecords : WithState(d, [d EXCEPT !.state = s], s) /\ WithState(d, d, d.state)
      BY DEF WithState, LinkRecords
    <2>3. \A l \in 1..MaxLinks : WithState(links[l], links'[l], IF l = uses[t] THEN s ELSE links[l].state)
      BY <2>1, <2>2
    <2> QED
      BY <2>3 DEF WithState
  <1>4. LinkTypes'
    <2>1. links' \in [1..MaxLinks -> LinkRecords]
      BY <1>1, <1>3 DEF LinkTypes
    <2>2. completed' \in [1..MaxLinks -> Nat]
      <3>1. CASE completed' = completed
        BY <3>1 DEF LinkTypes
      <3>2. CASE completed' = [completed EXCEPT ![uses[t]] = @ + 1]
        <4>1. completed \in [1..MaxLinks -> Nat]
          BY DEF LinkTypes
        <4>2. completed[uses[t]] + 1 = 1 /\ 1 \in Nat
          BY <1>2
        <4> QED
          BY <3>2, <4>1, <4>2
      <3> QED
        BY <3>1, <3>2
    <2>3. 0 \in 0..made /\ 0 \in 0..written
      BY DEF LinkTypes
    <2>4. uses' \in [Transfers -> 0..made] /\ content' \in [Transfers -> 0..written]
          /\ pc' \in [Transfers -> TransferSteps]
      BY <1>1, <2>3 DEF LinkTypes, TransferSteps
    <2> QED
      BY <2>1, <2>2, <2>4 DEF LinkTypes
  <1>5. UseOK'
    <2>1. \A u \in Transfers : /\ InTransfer(u)' <=> InTransfer(u) /\ u # t
                               /\ u # t => uses'[u] = uses[u]
      BY <1>1 DEF InTransfer, LinkTypes
    <2>2. \A l \in 1..MaxLinks : completed'[l] = IF l = uses[t] THEN completed'[l] ELSE completed[l]
      BY <1>2 DEF LinkTypes
    <2>3. completed'[uses[t]] <= 1 /\ (completed'[uses[t]] = 1 => s = "spent")
      BY <1>2 DEF LinkTypes
    <2> QED
      <3>1. \A u \in Transfers : InTransfer(u)' => uses'[u] \in 1..made'
        BY <2>1 DEF UseOK
      <3>2. \A u, v \in Transfers : InTransfer(u)' /\ InTransfer(v)' /\ uses'[u] = uses'[v] => u = v
        BY <2>1 DEF UseOK
      <3>3. ASSUME NEW l \in 1..MaxLinks
            PROVE  links'[l].state = "busy" <=> \E u \in Transfers : InTransfer(u)' /\ uses'[u] = l
        <4>1. CASE l = uses[t]
          BY <1>3, <2>1, <4>1 DEF UseOK
        <4>2. CASE l # uses[t]
          <5>1. links'[l].state = links[l].state
            BY <1>3, <4>2
          <5>2. \A u \in Transfers : InTransfer(u)' /\ uses'[u] = l <=> InTransfer(u) /\ uses[u] = l
            BY <2>1, <4>2
          <5> QED
            BY <5>1, <5>2 DEF UseOK
        <4> QED
          BY <4>1, <4>2
      <3>4. ASSUME NEW l \in 1..MaxLinks
            PROVE  /\ completed'[l] <= 1 /\ (completed'[l] = 1 => links'[l].state = "spent")
                   /\ l > made' => completed'[l] = 0
        <4>1. CASE l = uses[t]
          <5>1. ~(l > made')
            BY <1>2, <4>1 DEF LinkTypes
          <5> QED
            BY <1>3, <2>3, <4>1, <5>1
        <4>2. CASE l # uses[t]
          BY <1>3, <2>2, <4>2 DEF UseOK
        <4> QED
          BY <4>1, <4>2
      <3> QED
        BY <3>1, <3>2, <3>3, <3>4 DEF UseOK
  <1>6. StepsOK'
    <2>1. \A u \in Transfers : u # t => /\ pc'[u] = pc[u] /\ uses'[u] = uses[u] /\ content'[u] = content[u]
                                        /\ pc[u] # "idle" => uses[u] \in 1..MaxLinks
      BY <1>1 DEF LinkTypes, UseOK, InTransfer
    <2>2. pc'[t] = "idle"
      BY <1>1 DEF LinkTypes
    <2> QED
      BY <1>3, <2>1, <2>2 DEF StepsOK
  <1>7. L!Live(table)' \subseteq L!Live(table)
    <2> SUFFICES ASSUME NEW l \in table, l \in L!Live(table)'
                 PROVE  l \in L!Live(table)
      BY DEF L!Live
    <2>1. l \in 1..MaxLinks
      BY DEF LinkTypes
    <2>2. links'[l].state = "busy" => links[l].state = "busy"
      BY <1>3, <2>1
    <2>3. links'[l].state = "ready" => links[l].state = "ready" \/ links[l].state = "busy"
      BY <1>2, <1>3, <2>1
    <2> QED
      BY <1>3, <2>1, <2>2, <2>3 DEF L!Live
  <1> QED
    BY <1>4, <1>5, <1>6, <1>7, LiveShrinks

LEMMA Forgets ==
  ASSUME LinkInv, table' = L!Kept, UNCHANGED <<now, links, made, disk, written, pc, uses, content, completed>>
  PROVE  LinkInv'
  <1>1. L!Kept \subseteq table
    BY Zenon DEF L!Kept
  <1>2. LinkTypes'
    BY <1>1 DEF LinkInv, LinkTypes
  <1>3. L!Live(table)' \subseteq L!Live(table)
    BY <1>1 DEF L!Live
  <1>4. UseOK' /\ StepsOK'
    BY DEF LinkInv, UseOK, StepsOK, InTransfer
  <1> QED
    BY <1>2, <1>3, <1>4, LiveShrinks DEF LinkInv

(* A link is added only while fewer than MAX_LIVE count.                   *)
LEMMA Adds ==
  ASSUME LinkInv, NEW direction \in {"download", "upload"}, NEW p \in Paths, NEW overwrite \in BOOLEAN,
         NEW was \in Nat, L!Add(direction, p, overwrite, was)
  PROVE  LinkInv'
  <1> DEFINE new == [direction |-> direction, path |-> p, overwrite |-> overwrite,
                     expires |-> now + Ttl, state |-> "ready", was |-> was]
  <1> USE LinkConstants DEF LinkInv
  <1>0. UNCHANGED <<now, disk, written, pc, uses, content, completed>> /\ made < MaxLinks
    BY Zenon DEF L!Add, L!transfers
  <1>1. \/ table' = L!Kept /\ UNCHANGED <<links, made>>
        \/ /\ ~(L!Cardinality(L!Live(L!Kept)) >= MAX_LIVE)
           /\ made' = made + 1 /\ table' = L!Kept \cup {made + 1}
           /\ links' = [links EXCEPT ![made + 1] = new]
    BY Zenon DEF L!Add
  <1>2. CASE table' = L!Kept /\ UNCHANGED <<links, made>>
    BY <1>0, <1>2, Forgets
  <1>3. CASE /\ ~(L!Cardinality(L!Live(L!Kept)) >= MAX_LIVE)
             /\ made' = made + 1 /\ table' = L!Kept \cup {made + 1}
             /\ links' = [links EXCEPT ![made + 1] = new]
    <2>1. L!Kept \subseteq table /\ table \subseteq 1..made /\ made \in Nat
      <3>1. L!Kept \subseteq table
        BY Zenon DEF L!Kept
      <3> QED
        BY <3>1 DEF LinkTypes
    <2>2. new \in LinkRecords
      BY DEF LinkRecords, LinkTypes
    <2>3. made + 1 \in 1..MaxLinks
      BY <1>0, <2>1
    <2>4. \A l \in 1..MaxLinks : links'[l] = IF l = made + 1 THEN new ELSE links[l]
      BY <1>3 DEF LinkTypes
    <2>5. LinkTypes'
      <3>1. links' \in [1..MaxLinks -> LinkRecords]
        BY <1>3, <2>2, <2>3 DEF LinkTypes
      <3>2. made' \in 0..MaxLinks /\ table' \subseteq 1..made' /\ 0..made \subseteq 0..made'
        BY <1>3, <2>1, <2>3
      <3> QED
        BY <1>0, <3>1, <3>2 DEF LinkTypes
    <2>6. \A t \in Transfers : pc[t] # "idle" => uses[t] \in 1..made /\ uses[t] # made + 1 /\ uses[t] \in 1..MaxLinks
      BY <2>1, <2>3 DEF UseOK, InTransfer, LinkTypes
    <2>7. UseOK'
      <3>1. \A t \in Transfers : InTransfer(t)' => uses'[t] \in 1..made'
        BY <1>0, <1>3, <2>1, <2>6 DEF InTransfer
      <3>2. \A t, u \in Transfers : InTransfer(t)' /\ InTransfer(u)' /\ uses'[t] = uses'[u] => t = u
        BY <1>0 DEF InTransfer, UseOK
      <3>3. ASSUME NEW l \in 1..MaxLinks
            PROVE  /\ links'[l].state = "busy" <=> \E t \in Transfers : InTransfer(t)' /\ uses'[t] = l
                   /\ completed'[l] <= 1 /\ (completed'[l] = 1 => links'[l].state = "spent")
                   /\ l > made' => completed'[l] = 0
        <4>1. CASE l = made + 1
          <5>1. completed'[l] = 0 /\ links'[l].state = "ready"
            BY <1>0, <2>1, <2>4, <4>1 DEF UseOK
          <5> QED
            BY <1>0, <2>6, <4>1, <5>1 DEF InTransfer
        <4>2. CASE l # made + 1
          <5>1. links'[l] = links[l] /\ (l > made' => l > made)
            BY <1>3, <2>1, <2>4, <4>2
          <5> QED
            BY <1>0, <5>1 DEF UseOK, InTransfer
        <4> QED
          BY <4>1, <4>2
      <3> QED
        BY <3>1, <3>2, <3>3 DEF UseOK
    <2>8. StepsOK'
      BY <1>0, <2>4, <2>6 DEF StepsOK
    <2>9. L!KnownWithinLimit'
      <3> DEFINE counted == L!Live(L!Kept)
      <3>1. L!Live(table)' \subseteq counted \cup {made + 1}
        <4> SUFFICES ASSUME NEW l \in L!Live(table)', l # made + 1
                     PROVE  l \in counted
          OBVIOUS
        <4>1. l \in L!Kept
          BY <1>3, Zenon DEF L!Live
        <4>2. links'[l] = links[l] /\ now' = now
          BY <1>0, <2>1, <2>4, <4>1 DEF LinkTypes
        <4> QED
          BY <4>1, <4>2 DEF L!Live
      <3>2. IsFiniteSet(counted) /\ Cardinality(counted) \in Nat
        <4>1. counted \in SUBSET (1..made)
          BY <2>1, Zenon DEF L!Live
        <4>2. IsFiniteSet(1..made)
          BY <2>1, FS_Interval
        <4> QED
          BY <4>1, <4>2, FS_Subset, FS_CardinalityType, Zenon
      <3>3. /\ IsFiniteSet(counted \cup {made + 1})
            /\ Cardinality(counted \cup {made + 1}) =
                 IF made + 1 \in counted THEN Cardinality(counted) ELSE Cardinality(counted) + 1
        BY <3>2, FS_AddElement, Zenon
      <3>4. Cardinality(counted) < MAX_LIVE
        <4>1. L!Cardinality(counted) = Cardinality(counted)
          BY LinkConstants
        <4> HIDE DEF counted
        <4> QED
          BY <1>3, <3>2, <4>1 DEF counted
      <3>5. /\ Cardinality(L!Live(table)') \in Nat
            /\ Cardinality(L!Live(table)') <= Cardinality(counted \cup {made + 1})
        BY <3>1, <3>3, FS_Subset, FS_CardinalityType, Zenon
      <3>6. Cardinality(L!Live(table)') <= MAX_LIVE
        <4> DEFINE few == Cardinality(counted)
                   more == Cardinality(counted \cup {made + 1})
                   after == Cardinality(L!Live(table)')
        <4>1. few \in Nat /\ more \in {few, few + 1} /\ few < MAX_LIVE /\ after \in Nat /\ after <= more
          BY <3>2, <3>3, <3>4, <3>5
        <4> HIDE DEF few, more, after
        <4>2. after <= MAX_LIVE
          BY <4>1
        <4> QED
          BY <4>2 DEF after
      <3> QED
        BY <3>6, LinkConstants DEF L!KnownWithinLimit
    <2> QED
      BY <2>5, <2>7, <2>8, <2>9
  <1> QED
    BY <1>1, <1>2, <1>3

LEMMA Claims ==
  ASSUME LinkInv, NEW t \in Transfers, L!Claim(t)
  PROVE  LinkInv'
  <1> USE LinkConstants DEF LinkInv
  <1>1. PICK k \in table : /\ links[k].state = "ready" /\ links[k].expires > now
                           /\ links' = [links EXCEPT ![k].state = "busy"]
                           /\ uses' = [uses EXCEPT ![t] = k]
    BY Zenon DEF L!Claim, L!SetState
  <1>2. pc[t] = "idle" /\ pc' = [pc EXCEPT ![t] = "claimed"]
        /\ UNCHANGED <<now, table, made, disk, written, content, completed>>
    BY Zenon DEF L!Claim, L!Goto
  <1>3. k \in 1..made /\ k \in 1..MaxLinks
    BY DEF LinkTypes
  <1>4. \A l \in 1..MaxLinks : /\ links'[l] \in LinkRecords
                               /\ links'[l].direction = links[l].direction /\ links'[l].path = links[l].path
                               /\ links'[l].expires = links[l].expires
                               /\ links'[l].state = IF l = k THEN "busy" ELSE links[l].state
    <2>1. \A l \in 1..MaxLinks :
             /\ links[l] \in LinkRecords
             /\ links'[l] = IF l = k THEN [links[l] EXCEPT !.state = "busy"] ELSE links[l]
      BY <1>1, <1>3 DEF LinkTypes
    <2>2. \A d \in LinkRecords : WithState(d, [d EXCEPT !.state = "busy"], "busy") /\ WithState(d, d, d.state)
      BY DEF WithState, LinkRecords
    <2>3. \A l \in 1..MaxLinks : WithState(links[l], links'[l], IF l = k THEN "busy" ELSE links[l].state)
      BY <2>1, <2>2
    <2> QED
      BY <2>3 DEF WithState
  <1>5. LinkTypes'
    <2>1. links' \in [1..MaxLinks -> LinkRecords]
      BY <1>1, <1>4 DEF LinkTypes
    <2>2. uses' \in [Transfers -> 0..made] /\ pc' \in [Transfers -> TransferSteps]
      BY <1>1, <1>2, <1>3 DEF LinkTypes, TransferSteps
    <2> QED
      BY <1>2, <2>1, <2>2 DEF LinkTypes
  <1>6. \A u \in Transfers : /\ u # t => pc'[u] = pc[u] /\ uses'[u] = uses[u]
                             /\ pc'[t] = "claimed" /\ uses'[t] = k
                             /\ pc[u] # "idle" => uses[u] # k /\ uses[u] \in 1..MaxLinks
    <2>1. \A u \in Transfers : u # t => pc'[u] = pc[u] /\ uses'[u] = uses[u]
      BY <1>1, <1>2 DEF LinkTypes
    <2>2. pc'[t] = "claimed" /\ uses'[t] = k
      BY <1>1, <1>2 DEF LinkTypes
    <2>3. \A u \in Transfers : pc[u] # "idle" => uses[u] \in 1..MaxLinks
      BY DEF LinkTypes, UseOK, InTransfer
    <2>4. \A u \in Transfers : pc[u] # "idle" => links[uses[u]].state = "busy"
      BY <2>3 DEF UseOK, InTransfer
    <2> QED
      BY <1>1, <2>1, <2>2, <2>3, <2>4
  <1>7. UseOK'
    <2>1. \A u \in Transfers : InTransfer(u)' => uses'[u] \in 1..made'
      BY <1>2, <1>3, <1>6 DEF UseOK, InTransfer
    <2>2. \A u, v \in Transfers : InTransfer(u)' /\ InTransfer(v)' /\ uses'[u] = uses'[v] => u = v
      BY <1>2, <1>6 DEF UseOK, InTransfer
    <2>3. ASSUME NEW l \in 1..MaxLinks
          PROVE  /\ links'[l].state = "busy" <=> \E u \in Transfers : InTransfer(u)' /\ uses'[u] = l
                 /\ completed'[l] <= 1 /\ (completed'[l] = 1 => links'[l].state = "spent")
                 /\ l > made' => completed'[l] = 0
      <3>1. CASE l = k
        <4>1. completed[l] = 0
          BY <1>1, <3>1 DEF UseOK, LinkTypes
        <4> QED
          BY <1>2, <1>4, <1>6, <3>1, <4>1 DEF InTransfer
      <3>2. CASE l # k
        <4>1. links'[l].state = links[l].state
          BY <1>4, <3>2
        <4>2. \A u \in Transfers : InTransfer(u)' /\ uses'[u] = l <=> InTransfer(u) /\ uses[u] = l
          BY <1>2, <1>6, <3>2 DEF InTransfer
        <4> QED
          BY <1>2, <4>1, <4>2 DEF UseOK
      <3> QED
        BY <3>1, <3>2
    <2> QED
      BY <2>1, <2>2, <2>3 DEF UseOK
  <1>8. StepsOK'
    <2>1. \A u \in Transfers : pc'[u] \in {"streaming", "rename"} => u # t /\ pc[u] # "idle"
      BY <1>6
    <2> QED
      BY <1>2, <1>4, <1>6, <2>1 DEF StepsOK
  <1>9. L!KnownWithinLimit'
    <2>1. L!Live(table)' \subseteq L!Live(table)
      <3> SUFFICES ASSUME NEW l \in table, l \in L!Live(table)'
                   PROVE  l \in L!Live(table)
        BY <1>2 DEF L!Live
      <3>1. l \in 1..MaxLinks
        BY DEF LinkTypes
      <3>2. l = k => links[l].state = "ready" /\ links[l].expires > now
        BY <1>1
      <3> QED
        BY <1>2, <1>4, <3>1, <3>2 DEF L!Live
    <2> QED
      BY <2>1, LiveShrinks
  <1> QED
    BY <1>5, <1>7, <1>8, <1>9

LEMMA NextLinks ==
  ASSUME LinkInv, [L!Next]_linkvars
  PROVE  LinkInv'
  <1> USE LinkConstants
  <1>1. ASSUME NEW p \in Paths, L!CreateDownload(p)
        PROVE  LinkInv'
    <2>1. disk[p] \in Nat
      BY DEF LinkInv, LinkTypes
    <2> QED
      BY <1>1, <2>1, Adds DEF L!CreateDownload
  <1>2. ASSUME NEW p \in Paths, NEW o \in BOOLEAN, L!CreateUpload(p, o)
        PROVE  LinkInv'
    BY <1>2, Adds DEF L!CreateUpload, L!Absent
  <1>3. ASSUME NEW p \in Paths, L!Others(p)
        PROVE  LinkInv'
    <2>1. UNCHANGED <<now, links, table, made, pc, uses, content, completed>>
      BY <1>3, Zenon DEF L!Others, L!transfers
    <2>2. written' \in 1..MaxContent /\ written <= written' /\ disk' \in [Paths -> 0..written']
      <3>1. written \in 1..MaxContent /\ MaxContent \in Nat /\ disk \in [Paths -> 0..written]
        BY LinkConstants DEF LinkInv, LinkTypes
      <3>2. \/ disk' = [disk EXCEPT ![p] = 0] /\ written' = written
            \/ written < MaxContent /\ written' = written + 1 /\ disk' = [disk EXCEPT ![p] = written + 1]
        BY <1>3 DEF L!Others, L!Absent
      <3> QED
        BY <3>1, <3>2
    <2>3. LinkTypes'
      <3>1. \A n \in 0..written : n \in 0..written'
        BY <2>2 DEF LinkInv, LinkTypes
      <3>2. content' \in [Transfers -> 0..written']
        BY <2>1, <3>1 DEF LinkInv, LinkTypes
      <3> QED
        BY <2>1, <2>2, <3>2 DEF LinkInv, LinkTypes
    <2>4. UseOK' /\ StepsOK' /\ L!KnownWithinLimit'
      BY <2>1 DEF LinkInv, UseOK, StepsOK, InTransfer, L!KnownWithinLimit, L!Live
    <2> QED
      BY <2>3, <2>4 DEF LinkInv
  <1>4. ASSUME NEW t \in Transfers, L!Claim(t)
        PROVE  LinkInv'
    BY <1>4, Claims
  <1>5. ASSUME NEW t \in Transfers, L!OpenFile(t)
        PROVE  LinkInv'
    <2>1. InTransfer(t) /\ UNCHANGED <<now, table, made, disk, written, completed>>
      BY <1>5 DEF L!OpenFile, L!Is, InTransfer
    <2>2. CASE L!End(t, "spent")
      BY <2>1, <2>2, TransferEnds
    <2>3. CASE ~L!End(t, "spent")
      <3>1. /\ disk[links[uses[t]].path] # 0
            /\ pc' = [pc EXCEPT ![t] = "streaming"]
            /\ content' = [content EXCEPT ![t] = disk[links[uses[t]].path]]
            /\ UNCHANGED <<links, uses>>
        BY <1>5, <2>3 DEF L!OpenFile, L!Goto, L!Mine, L!Absent
      <3>2. disk[links[uses[t]].path] \in 0..written
        <4>1. uses[t] \in 1..MaxLinks
          BY <2>1 DEF LinkInv, LinkTypes, UseOK
        <4>2. links[uses[t]].path \in Paths
          BY <4>1 DEF LinkInv, LinkTypes, LinkRecords
        <4> QED
          BY <4>2 DEF LinkInv, LinkTypes
      <3>3. /\ content' \in [Transfers -> 0..written]
            /\ \A u \in Transfers : u # t => content'[u] = content[u]
            /\ content'[t] # 0
        BY <3>1, <3>2 DEF LinkInv, LinkTypes
      <3>4. "streaming" \in TransferSteps \ {"idle"}
        BY DEF TransferSteps
      <3>5. written' \in 1..MaxContent /\ disk' \in [Paths -> 0..written'] /\ written' = written
        BY <2>1 DEF LinkInv, LinkTypes
      <3> QED
        BY <2>1, <3>1, <3>3, <3>4, <3>5, TransferGoesOn
    <2> QED
      BY <2>2, <2>3
  <1>6. ASSUME NEW t \in Transfers, L!DownloadComplete(t) \/ L!UploadComplete(t)
        PROVE  LinkInv'
    <2>1. /\ InTransfer(t) /\ UNCHANGED <<now, table, made, disk, written>> /\ L!End(t, "spent")
          /\ completed' = [completed EXCEPT ![uses[t]] = @ + 1]
      BY <1>6 DEF L!DownloadComplete, L!UploadComplete, L!Is, InTransfer
    <2> QED
      BY <2>1, TransferEnds
  <1>7. ASSUME NEW t \in Transfers, L!DownloadBroken(t) \/ L!ReceiveNothing(t) \/ L!BodyRefused(t)
        PROVE  LinkInv'
    <2>1. /\ InTransfer(t) /\ UNCHANGED <<now, table, made, disk, written, completed>>
          /\ L!End(t, "ready") \/ L!End(t, "spent")
      BY <1>7 DEF L!DownloadBroken, L!ReceiveNothing, L!BodyRefused, L!Is, InTransfer
    <2> QED
      BY <2>1, TransferEnds
  <1>8. ASSUME NEW t \in Transfers, L!Receive(t)
        PROVE  LinkInv'
    <2>1. /\ InTransfer(t) /\ pc' = [pc EXCEPT ![t] = "streaming"] /\ links[uses[t]].direction = "upload"
          /\ UNCHANGED <<now, links, table, made, disk, written, uses, content, completed>>
      BY <1>8 DEF L!Receive, L!Is, L!Mine, L!Goto, InTransfer
    <2>2. "streaming" \in TransferSteps \ {"idle"}
      BY DEF TransferSteps
    <2>3. written' \in 1..MaxContent /\ disk' \in [Paths -> 0..written'] /\ content' \in [Transfers -> 0..written']
      BY <2>1 DEF LinkInv, LinkTypes
    <2> QED
      BY <2>1, <2>2, <2>3, TransferGoesOn
  <1>9. ASSUME NEW t \in Transfers, L!BodyComplete(t)
        PROVE  LinkInv'
    <2>1. /\ InTransfer(t) /\ pc' = [pc EXCEPT ![t] = "place"] /\ written < MaxContent
          /\ written' = written + 1 /\ content' = [content EXCEPT ![t] = written + 1]
          /\ UNCHANGED <<now, links, table, made, disk, uses, completed>>
      BY <1>9 DEF L!BodyComplete, L!Is, L!Mine, L!Goto, InTransfer
    <2>2. "place" \in TransferSteps \ {"idle"}
      BY DEF TransferSteps
    <2>3. written' \in 1..MaxContent /\ written + 1 \in 0..written' /\ 0..written \subseteq 0..written'
      BY <2>1 DEF LinkInv, LinkTypes
    <2>4. disk' \in [Paths -> 0..written'] /\ content' \in [Transfers -> 0..written']
          /\ \A u \in Transfers : u # t => content'[u] = content[u]
      BY <2>1, <2>3 DEF LinkInv, LinkTypes
    <2> QED
      BY <2>1, <2>2, <2>3, <2>4, TransferGoesOn
  <1>10. ASSUME NEW t \in Transfers, L!Place(t)
         PROVE  LinkInv'
    <2>1. InTransfer(t) /\ UNCHANGED <<now, table, made, written, completed>>
      BY <1>10 DEF L!Place, InTransfer
    <2>2. written' \in 1..MaxContent /\ written' = written
      BY <2>1 DEF LinkInv, LinkTypes
    <2>3. CASE L!Put(t) /\ L!Goto(t, "placed") /\ UNCHANGED <<links, uses, content>>
      <3>1. disk' = [disk EXCEPT ![links[uses[t]].path] = content[t]] /\ pc' = [pc EXCEPT ![t] = "placed"]
        BY <2>3 DEF L!Put, L!Mine, L!Goto
      <3>2. disk' \in [Paths -> 0..written'] /\ content' \in [Transfers -> 0..written']
        BY <2>1, <2>3, <3>1 DEF LinkInv, LinkTypes
      <3>3. "placed" \in TransferSteps \ {"idle"}
        BY DEF TransferSteps
      <3> QED
        BY <2>1, <2>2, <2>3, <3>1, <3>2, <3>3, TransferGoesOn
    <2>4. CASE L!Mine(t).path \notin HardLinks /\ L!Goto(t, "rename") /\ UNCHANGED <<disk, links, uses, content>>
      <3>1. pc' = [pc EXCEPT ![t] = "rename"] /\ links[uses[t]].path \notin HardLinks
        BY <2>4 DEF L!Mine, L!Goto
      <3>2. disk' \in [Paths -> 0..written'] /\ content' \in [Transfers -> 0..written']
        BY <2>1, <2>4 DEF LinkInv, LinkTypes
      <3>3. "rename" \in TransferSteps \ {"idle"}
        BY DEF TransferSteps
      <3> QED
        BY <2>1, <2>2, <2>4, <3>1, <3>2, <3>3, TransferGoesOn
    <2>5. CASE L!End(t, "spent") /\ UNCHANGED disk
      BY <2>1, <2>5, TransferEnds
    <2> QED
      BY <1>10, <2>3, <2>4, <2>5, Zenon DEF L!Place
  <1>11. ASSUME NEW t \in Transfers, L!PlaceRename(t)
         PROVE  LinkInv'
    <2>1. /\ InTransfer(t) /\ pc' = [pc EXCEPT ![t] = "placed"]
          /\ disk' = [disk EXCEPT ![links[uses[t]].path] = content[t]]
          /\ UNCHANGED <<now, links, table, made, written, uses, content, completed>>
      BY <1>11 DEF L!PlaceRename, L!Put, L!Mine, L!Goto, InTransfer
    <2>2. /\ disk' \in [Paths -> 0..written'] /\ content' \in [Transfers -> 0..written']
          /\ written' \in 1..MaxContent
      BY <2>1 DEF LinkInv, LinkTypes
    <2>3. "placed" \in TransferSteps \ {"idle"}
      BY DEF TransferSteps
    <2> QED
      BY <2>1, <2>2, <2>3, TransferGoesOn
  <1>12. ASSUME L!Restart
         PROVE  LinkInv'
    <2>1. /\ table' = {} /\ UNCHANGED <<now, made, disk, written, completed>>
          /\ links' = [l \in 1..MaxLinks |-> [links[l] EXCEPT !.state = "spent"]]
          /\ pc' = [t \in Transfers |-> "idle"]
          /\ uses' = [t \in Transfers |-> 0] /\ content' = [t \in Transfers |-> 0]
      BY <1>12 DEF L!Restart, L!LinkIds, L!Absent
    <2>2. \A l \in 1..MaxLinks : links'[l] \in LinkRecords /\ links'[l].state = "spent"
      <3> SUFFICES ASSUME NEW l \in 1..MaxLinks, NEW d \in LinkRecords, d = links[l],
                          NEW e, e = [d EXCEPT !.state = "spent"]
                   PROVE  e \in LinkRecords /\ e.state = "spent"
        BY <2>1 DEF LinkInv, LinkTypes
      <3> QED
        BY DEF LinkRecords
    <2>3. LinkTypes'
      <3>1. links' \in [1..MaxLinks -> LinkRecords]
        BY <2>1, <2>2
      <3>2. "idle" \in TransferSteps /\ 0 \in 0..made /\ 0 \in 0..written
        BY DEF TransferSteps, LinkInv, LinkTypes
      <3>3. /\ pc' \in [Transfers -> TransferSteps]
            /\ uses' \in [Transfers -> 0..made] /\ content' \in [Transfers -> 0..written]
        BY <2>1, <3>2
      <3> QED
        BY <2>1, <3>1, <3>3 DEF LinkInv, LinkTypes
    <2>4. \A t \in Transfers : pc'[t] = "idle"
      BY <2>1
    <2>5. UseOK' /\ StepsOK'
      BY <2>1, <2>2, <2>4 DEF LinkInv, UseOK, StepsOK, InTransfer
    <2>6. L!Live(table)' \subseteq L!Live(table)
      BY <2>1 DEF L!Live
    <2> QED
      BY <2>3, <2>5, <2>6, LiveShrinks DEF LinkInv
  <1>13. ASSUME L!Tick
         PROVE  LinkInv'
    <2>1. now' = now + 1 /\ now < MaxTime
          /\ UNCHANGED <<links, table, made, disk, written, pc, uses, content, completed>>
      BY <1>13 DEF L!Tick, L!transfers
    <2>2. LinkTypes'
      BY <2>1 DEF LinkInv, LinkTypes
    <2>3. UseOK' /\ StepsOK'
      BY <2>1 DEF LinkInv, UseOK, StepsOK, InTransfer
    <2>4. L!Live(table)' \subseteq L!Live(table)
      <3>1. \A l \in table : links[l].expires \in Nat
        BY DEF LinkInv, LinkTypes, LinkRecords
      <3> QED
        <4>1. \A e \in Nat : e > now' => e > now
          BY <2>1 DEF LinkInv, LinkTypes
        <4>2. links' = links /\ table' = table
          BY <2>1
        <4> QED
          BY <3>1, <4>1, <4>2 DEF L!Live
    <2> QED
      BY <2>2, <2>3, <2>4, LiveShrinks DEF LinkInv
  <1>14. CASE UNCHANGED linkvars
    BY <1>14 DEF linkvars, LinkInv, LinkTypes, UseOK, StepsOK, InTransfer, L!KnownWithinLimit, L!Live
  <1> QED
    BY <1>1, <1>2, <1>3, <1>4, <1>5, <1>6, <1>7, <1>8, <1>9, <1>10, <1>11, <1>12, <1>13, <1>14, Zenon
       DEF L!Next, L!Transfer

LEMMA LinksStart == FilesInit => LinkInv
  <1> SUFFICES ASSUME FilesInit
               PROVE  LinkInv
    OBVIOUS
  <1> USE LinkConstants
  <1>1. L!Init
    BY DEF FilesInit
  <1>2. L!NoLink \in LinkRecords /\ L!NoLink.state = "spent"
    BY DEF L!NoLink, L!Absent, LinkRecords
  <1>3. LinkTypes
    BY <1>1, <1>2 DEF L!Init, LinkTypes, L!LinkIds, L!Absent, TransferSteps
  <1>4. UseOK /\ StepsOK
    BY <1>1, <1>2 DEF L!Init, UseOK, StepsOK, InTransfer, L!LinkIds
  <1>5. L!KnownWithinLimit
    <2>1. L!Live(table) = {}
      BY <1>1 DEF L!Init, L!Live
    <2> QED
      BY <2>1, FS_EmptySet DEF L!KnownWithinLimit
  <1> QED
    BY <1>3, <1>4, <1>5 DEF LinkInv

LEMMA FilesMoveLinks == LinkInv /\ [FilesNext]_filesvars => LinkInv'
  <1>1. [FilesNext]_filesvars => [L!Next]_linkvars
    BY Zenon DEF FilesNext, filesvars, linkvars
  <1> QED
    BY <1>1, NextLinks

(* A link is in one hand at a time, works once, and counts as long as it   *)
(* is known: for any transfers, paths and limits (filelinks.py).           *)
THEOREM LinksInOneHand == FilesSpec => []LinksAccounted
  <1>1. LinkInv => LinksAccounted
    BY LinkInvGives
  <1> QED
    BY <1>1, LinksStart, FilesMoveLinks, PTL DEF FilesSpec, filesvars

(* "Never clobber without overwrite": an upload puts its file only where   *)
(* nothing is, on every file system that has hard links (filelinks.py,     *)
(* _place).                                                                *)
THEOREM UploadsNeverClobber == FilesSpec => NeverClobbers
  <1> DEFINE Spares ==
        \A t \in Transfers :
          pc'[t] = "placed" /\ pc[t] # "placed" /\ ~L!Mine(t).overwrite
            => disk[L!Mine(t).path] = L!Absent \/ L!Mine(t).path \notin HardLinks
  <1>1. FilesSpec => []LinkInv
    <2>1. FilesInit => LinkInv
      BY LinksStart
    <2>2. LinkInv /\ [FilesNext]_filesvars => LinkInv'
      BY FilesMoveLinks
    <2> QED
      BY <2>1, <2>2, PTL DEF FilesSpec, filesvars
  <1>2. LinkInv /\ [FilesNext]_filesvars => [Spares]_(L!vars)
    <2> SUFFICES ASSUME LinkInv, [FilesNext]_filesvars, NEW t \in Transfers,
                        pc'[t] = "placed", pc[t] # "placed", ~L!Mine(t).overwrite
                 PROVE  disk[L!Mine(t).path] = L!Absent \/ L!Mine(t).path \notin HardLinks
      OBVIOUS
    <2>1. L!Next
      <3>1. [L!Next]_linkvars
        BY Zenon DEF FilesNext, filesvars, linkvars
      <3> QED
        BY <3>1 DEF linkvars
    <2>2. L!Place(t) \/ L!PlaceRename(t)
      <3>1. ASSUME NEW u \in Transfers, NEW step, pc' = [pc EXCEPT ![u] = step]
            PROVE  u = t /\ step = "placed"
        BY <3>1 DEF LinkInv, LinkTypes
      <3>2. pc' # pc /\ pc' # [u \in Transfers |-> "idle"]
        OBVIOUS
      <3>3. PICK u \in Transfers : L!Transfer(u)
        BY <2>1, <3>2, Zenon DEF L!Next, L!CreateDownload, L!CreateUpload, L!Add, L!Others, L!Restart, L!Tick,
           L!transfers
      <3>4. L!Place(u) \/ L!PlaceRename(u)
        BY <3>1, <3>2, <3>3 DEF L!Transfer, L!Claim, L!OpenFile, L!DownloadComplete, L!DownloadBroken,
           L!ReceiveNothing,
           L!Receive, L!BodyComplete, L!BodyRefused, L!UploadComplete, L!End, L!Goto
      <3>5. u = t
        BY <3>1, <3>4 DEF L!Place, L!PlaceRename, L!End, L!Goto
      <3> QED
        BY <3>4, <3>5
    <2>3. CASE L!PlaceRename(t)
      BY <2>3 DEF L!PlaceRename, L!Mine, LinkInv, StepsOK
    <2>4. CASE L!Place(t)
      <3>1. ~L!End(t, "spent") /\ ~L!Goto(t, "rename")
        BY DEF L!End, L!Goto, LinkInv, LinkTypes
      <3> QED
        BY <2>4, <3>1 DEF L!Place
    <2> QED
      BY <2>2, <2>3, <2>4
  <1> QED
    BY <1>1, <1>2, PTL DEF FilesSpec, filesvars, NeverClobbers, L!NeverClobbers
-----------------------------------------------------------------------------
(* Settings.  A save that nobody wrote past replaces the text it started   *)
(* from; what it writes stays as it was checked and backed up.             *)
ConfigTypes ==
    /\ files \in [1..MaxFiles -> C!Texts] /\ config \in 1..MaxFiles /\ beside \in 0..MaxFiles
    /\ beside # config
    /\ backup \in [C!Savers -> C!Texts]
    /\ saving \in [C!Savers -> {"idle", "editing", "read", "saving", "checked", "backed up", "open", "written"}]
    /\ base \in [Editors -> C!Texts] /\ doc \in [C!Savers -> C!Texts]
    /\ changed \in [Editors -> SUBSET (C!Keys \cup {"secret"})]
    /\ fd \in [C!Savers -> 0..MaxFiles]
    /\ alone \in [C!Savers -> BOOLEAN] /\ torn \subseteq 1..MaxFiles

StageOK(s) ==
    /\ fd[s] # 0 <=> saving[s] \in {"open", "written"}
    /\ saving[s] = "editing" => s \in Editors
    /\ C!Saving(s) => doc[s].secret # "plain"
    /\ backup[s].loads # "broken" \/ s = Daemon => backup[s].secret # "plain"

(* What it knows of config.toml while it is alone.                         *)
Knows(s, stage, text, copy, now_there) ==
    /\ s = Daemon => text = C!Hardened(now_there)
    /\ s # Daemon => now_there.loads # "broken"
    /\ s = Setup => text = C!Hardened(C!Migrated(now_there))
    /\ s # Daemon /\ stage \in {"backed up", "open", "written"} => copy = C!Hardened(now_there)

AloneOK(s) ==
    C!Saving(s) /\ alone[s] =>
        /\ Knows(s, saving[s], doc[s], backup[s], C!Text)
        /\ s \in Editors => base[s] = C!Text

(* The file beside is its own as long as no other had it open, and one     *)
(* that is written after it was renamed is torn.                           *)
BesideOK(s) ==
    /\ fd[s] # 0 /\ fd[s] = beside /\ beside \notin torn =>
        /\ saving[s] = "open" => files[fd[s]] = C!Empty
        /\ saving[s] = "written" => files[fd[s]] = doc[s]
        /\ \A o \in C!Savers : fd[o] = fd[s] => o = s
    /\ fd[s] = config => config \in torn

EditorOK(e) ==
    saving[e] # "idle" =>
        /\ base[e].loads # "broken" /\ doc[e].loads # "broken" /\ doc[e].version = base[e].version
        /\ \A k \in C!Keys \ changed[e] : doc[e].key[k] = base[e].key[k]
        /\ "secret" \notin changed[e] => doc[e].secret \in {base[e].secret, C!Hardened(base[e]).secret}
        /\ saving[e] \in {"checked", "backed up", "open", "written"} => C!Loads(doc[e])

SettingsInv ==
    /\ ConfigTypes
    /\ \A s \in C!Savers : StageOK(s) /\ AloneOK(s) /\ BesideOK(s)
    /\ \A e \in Editors : EditorOK(e)
    /\ beside # 0 => files[beside].secret # "plain"
    /\ config \notin torn => C!Text = wrote

LEMMA SettingsConstants ==
    /\ UserTexts \subseteq C!Texts /\ CONFIG_VERSION \in Nat \ {0} /\ MaxFiles \in Nat \ {0}
    /\ Unset \notin {"old", "new"} /\ Setup # Daemon /\ Setup \notin Editors /\ Daemon \notin Editors
    /\ C!Savers = Editors \cup {Daemon, Setup}
  BY PartsAssumption DEF C!SettingsAssumption, C!Savers

(* Hashing a text's secret changes nothing else, and bringing it up to     *)
(* date changes nothing that it means.                                     *)
LEMMA HardenedText ==
  ASSUME NEW t \in C!Texts
  PROVE  /\ C!Hardened(t) \in C!Texts
         /\ C!Hardened(t).loads = t.loads /\ C!Hardened(t).version = t.version /\ C!Hardened(t).key = t.key
         /\ t.loads # "broken" => C!Hardened(t).secret # "plain"
         /\ C!Hardened(t) # t => t.loads # "broken"
         /\ t.secret # "plain" => C!Hardened(t) = t
         /\ t.loads # "broken" /\ t.secret = "plain" => C!Hardened(t).secret = "hash"
  BY DEF C!Hardened, C!Texts

LEMMA MigratedText ==
  ASSUME NEW t \in C!Texts
  PROVE  /\ C!Migrated(t) \in C!Texts
         /\ C!Migrated(t).loads = t.loads /\ C!Migrated(t).secret = t.secret
         /\ \A k \in C!Keys : C!Value(C!Migrated(t), k) = C!Value(t, k)
  <1>1. \A k \in C!Keys : C!Default(k, t.version) \in {"old", "new"}
    BY DEF C!Default
  <1>2. \A k \in C!Keys : t.key[k] \in {Unset, "old", "new"}
    BY DEF C!Texts
  <1> DEFINE K == [k \in C!Keys |->
        IF t.key[k] = Unset /\ C!Default(k, t.version) # C!Default(k, CONFIG_VERSION)
        THEN C!Value(t, k) ELSE t.key[k]]
  <1>3. K \in [C!Keys -> {Unset, "old", "new"}]
    BY <1>1, <1>2 DEF C!Value
  <1>4. C!Migrated(t) = [t EXCEPT !.version = CONFIG_VERSION, !.key = K]
    BY Zenon DEF C!Migrated
  <1>5. /\ C!Migrated(t) \in C!Texts /\ C!Migrated(t).version = CONFIG_VERSION /\ C!Migrated(t).key = K
        /\ C!Migrated(t).loads = t.loads /\ C!Migrated(t).secret = t.secret
    <2> HIDE DEF K
    <2>1. CONFIG_VERSION \in 1..CONFIG_VERSION
      BY SettingsConstants
    <2>2. /\ t = [version |-> t.version, key |-> t.key, secret |-> t.secret, loads |-> t.loads]
          /\ t.secret \in {"none", "plain", "hash"} /\ t.loads \in {"yes", "bad", "broken"}
      BY DEF C!Texts
    <2>3. C!Migrated(t) = [version |-> CONFIG_VERSION, key |-> K, secret |-> t.secret, loads |-> t.loads]
      BY <1>4, <2>2
    <2> QED
      BY <1>3, <2>1, <2>2, <2>3 DEF C!Texts
  <1>6. ASSUME NEW k \in C!Keys
        PROVE  C!Value(C!Migrated(t), k) = C!Value(t, k)
    BY <1>1, <1>5, SettingsConstants DEF C!Value
  <1> QED
    BY <1>5, <1>6

LEMMA EmptyText == C!Empty \in C!Texts /\ C!Empty.secret # "plain" /\ C!Hardened(C!Empty) = C!Empty
  <1>1. C!Empty \in C!Texts /\ C!Empty.secret = "none"
    BY SettingsConstants DEF C!Empty, C!Texts
  <1> QED
    BY <1>1, HardenedText

LEMMA MixedText ==
  ASSUME NEW t \in C!Texts
  PROVE  C!Mixed(t) \in C!Texts /\ C!Mixed(t).secret = t.secret
  BY DEF C!Mixed, C!Texts

Values == {Unset, "old", "new"}
Loadings == {"yes", "bad"}
KeySet(d, k, v, loads) == [d EXCEPT !.key[k] = v, !.loads = loads]
SecretSet(d) == [d EXCEPT !.secret = "hash"]

(* What setting a key, or the secret, of the text d gives.                 *)
KeyIsSet(d, e, k) ==
    /\ e \in C!Texts /\ e.version = d.version /\ e.secret = d.secret /\ e.loads # "broken"
    /\ \A j \in C!Keys : j # k => e.key[j] = d.key[j]
SecretIsSet(d, e) ==
    /\ e \in C!Texts /\ e.version = d.version /\ e.loads = d.loads /\ e.key = d.key /\ e.secret = "hash"

LEMMA SetText ==
  ASSUME NEW d \in C!Texts, NEW k \in C!Keys, NEW v \in Values, NEW loads \in Loadings
  PROVE  KeyIsSet(d, KeySet(d, k, v, loads), k) /\ SecretIsSet(d, SecretSet(d))
  <1>1. /\ d = [version |-> d.version, key |-> d.key, secret |-> d.secret, loads |-> d.loads]
        /\ d.version \in 1..CONFIG_VERSION /\ d.key \in [C!Keys -> {Unset, "old", "new"}]
        /\ d.secret \in {"none", "plain", "hash"} /\ d.loads \in {"yes", "bad", "broken"}
    BY DEF C!Texts
  <1>2. /\ KeySet(d, k, v, loads) \in C!Texts /\ KeySet(d, k, v, loads).version = d.version
        /\ KeySet(d, k, v, loads).secret = d.secret /\ KeySet(d, k, v, loads).loads = loads
        /\ \A j \in C!Keys : j # k => KeySet(d, k, v, loads).key[j] = d.key[j]
    <2> DEFINE K == [d.key EXCEPT ![k] = v]
    <2>1. K \in [C!Keys -> {Unset, "old", "new"}] /\ \A j \in C!Keys : j # k => K[j] = d.key[j]
      BY <1>1 DEF Values
    <2>2. KeySet(d, k, v, loads) = [version |-> d.version, key |-> K, secret |-> d.secret, loads |-> loads]
      <3> DEFINE d1 == [d EXCEPT !.key = K]
      <3>1. KeySet(d, k, v, loads) = [d1 EXCEPT !.loads = loads]
        BY Zenon DEF KeySet
      <3> HIDE DEF K
      <3>2. d1 = [version |-> d.version, key |-> K, secret |-> d.secret, loads |-> d.loads]
        BY <1>1
      <3> HIDE DEF d1
      <3> QED
        BY <3>1, <3>2
    <2> HIDE DEF K
    <2> QED
      BY <1>1, <2>1, <2>2 DEF C!Texts, Loadings
  <1>3. /\ SecretSet(d) \in C!Texts /\ SecretSet(d).version = d.version /\ SecretSet(d).loads = d.loads
        /\ SecretSet(d).key = d.key /\ SecretSet(d).secret = "hash"
    BY <1>1 DEF C!Texts, SecretSet
  <1> QED
    BY <1>2, <1>3 DEF Loadings, KeyIsSet, SecretIsSet

LEMMA SettingsInvGives == SettingsInv => SettingsAccounted
  <1> SUFFICES ASSUME SettingsInv
               PROVE  SettingsAccounted
    OBVIOUS
  <1> USE DEF SettingsInv
  <1>0. C!Text \in C!Texts /\ \A e \in Editors : e \in C!Savers
    BY SettingsConstants DEF ConfigTypes, C!Text
  <1>1. C!TypeOK
    BY DEF C!TypeOK, ConfigTypes
  <1>2. C!CopiesAreHashed
    <2>1. ASSUME NEW s \in C!Savers, backup[s].secret = "plain"
          PROVE  /\ backup[s].loads = "broken"
                 /\ saving[s] \in {"backed up", "open", "written"} => ~alone[s]
      <3>1. backup[s].loads = "broken" /\ s # Daemon
        BY <2>1 DEF StageOK
      <3>2. ASSUME saving[s] \in {"backed up", "open", "written"}, alone[s]
            PROVE  FALSE
        <4>1. C!Saving(s) /\ AloneOK(s)
          BY <3>2 DEF C!Saving
        <4>2. C!Text.loads # "broken" /\ backup[s] = C!Hardened(C!Text)
          BY <3>1, <3>2, <4>1 DEF AloneOK, Knows
        <4> QED
          BY <1>0, <3>1, <4>2, HardenedText
      <3> QED
        BY <3>1, <3>2
    <2> QED
      BY <2>1, Zenon DEF C!CopiesAreHashed
  <1>3. C!SavesAreWhole
    <2>1. ASSUME NEW e \in Editors, saving[e] = "written"
          PROVE  C!Loads(doc[e]) /\ (alone[e] => C!Hardened(C!Text) = backup[e])
      <3>1. C!Saving(e) /\ e # Daemon
        BY <2>1, SettingsConstants DEF C!Saving
      <3>2. EditorOK(e) /\ AloneOK(e)
        BY <1>0
      <3> QED
        BY <2>1, <3>1, <3>2 DEF EditorOK, AloneOK, Knows
    <2> QED
      BY <2>1 DEF C!SavesAreWhole
  <1>4. C!OnlyWhatWasSet
    <2> SUFFICES ASSUME NEW s \in C!Savers, C!Saving(s), alone[s],
                        NEW set, set = IF s \in Editors THEN changed[s] ELSE {}
                 PROVE  /\ \A k \in C!Keys \ set : C!Value(doc[s], k) = C!Value(C!Text, k)
                        /\ "secret" \notin set => doc[s].secret = C!Hardened(C!Text).secret
      BY Zenon DEF C!OnlyWhatWasSet
    <2>1. CASE s = Daemon
      <3>1. doc[s] = C!Hardened(C!Text)
        BY <2>1 DEF AloneOK, Knows
      <3> QED
        BY <1>0, <3>1, HardenedText DEF C!Value
    <2>2. CASE s = Setup
      <3>1. doc[s] = C!Hardened(C!Migrated(C!Text))
        BY <2>2 DEF AloneOK, Knows
      <3>2. /\ C!Migrated(C!Text) \in C!Texts /\ C!Migrated(C!Text).loads = C!Text.loads
            /\ C!Migrated(C!Text).secret = C!Text.secret
            /\ \A k \in C!Keys : C!Value(C!Migrated(C!Text), k) = C!Value(C!Text, k)
        BY <1>0, MigratedText
      <3>3. \A k \in C!Keys : C!Value(doc[s], k) = C!Value(C!Text, k)
        BY <3>1, <3>2, HardenedText DEF C!Value
      <3>4. doc[s].secret = C!Hardened(C!Text).secret
        <4> DEFINE m == C!Migrated(C!Text)
        <4>1. C!Hardened(m).secret = IF m.secret = "plain" /\ m.loads # "broken" THEN "hash" ELSE m.secret
          BY <3>2, HardenedText
        <4>2. C!Hardened(C!Text).secret =
                IF C!Text.secret = "plain" /\ C!Text.loads # "broken" THEN "hash" ELSE C!Text.secret
          BY <1>0, HardenedText
        <4> QED
          BY <3>1, <3>2, <4>1, <4>2
      <3> QED
        BY <3>3, <3>4
    <2>3. CASE s \in Editors
      <3>1. C!Text = base[s] /\ EditorOK(s) /\ saving[s] # "idle" /\ set = changed[s] /\ doc[s].secret # "plain"
        BY <2>3 DEF AloneOK, StageOK, C!Saving
      <3>2. base[s] \in C!Texts
        BY <2>3 DEF ConfigTypes
      <3> QED
        BY <3>1, <3>2, HardenedText DEF EditorOK, C!Value
    <2> QED
      BY <2>1, <2>2, <2>3, SettingsConstants
  <1> QED
    BY <1>1, <1>2, <1>3, <1>4 DEF SettingsAccounted, C!SettingsAccounted

(* A step of one saver leaves what the others know: the text they started  *)
(* from is still there, or they are no longer alone.                       *)
Spared(o) == /\ saving'[o] = saving[o] /\ doc'[o] = doc[o] /\ backup'[o] = backup[o]
             /\ alone'[o] => alone[o] /\ C!Text' = C!Text

LEMMA OthersKeep ==
  ASSUME SettingsInv, NEW s,
         \A o \in C!Savers : o # s => Spared(o) /\ fd'[o] = fd[o],
         \A e \in Editors : e # s => base'[e] = base[e] /\ changed'[e] = changed[e]
  PROVE  /\ \A o \in C!Savers : o # s => StageOK(o)' /\ AloneOK(o)'
         /\ \A e \in Editors : e # s => EditorOK(e)'
  <1>0. ASSUME NEW o \in C!Savers, o # s
        PROVE  /\ StageOK(o) /\ AloneOK(o) /\ fd'[o] = fd[o]
               /\ saving'[o] = saving[o] /\ doc'[o] = doc[o] /\ backup'[o] = backup[o]
               /\ alone'[o] => alone[o] /\ C!Text' = C!Text
    BY <1>0, Zenon DEF SettingsInv, Spared
  <1>1. ASSUME NEW o \in C!Savers, o # s
        PROVE  StageOK(o)'
    <2>1. /\ StageOK(o) /\ fd'[o] = fd[o]
          /\ saving'[o] = saving[o] /\ doc'[o] = doc[o] /\ backup'[o] = backup[o]
      BY <1>0, <1>1
    <2> QED
      BY <2>1 DEF StageOK, C!Saving
  <1>2. ASSUME NEW o \in C!Savers, o # s
        PROVE  AloneOK(o)'
    <2> SUFFICES ASSUME C!Saving(o)', alone'[o]
                 PROVE  /\ Knows(o, saving'[o], doc'[o], backup'[o], C!Text')
                        /\ o \in Editors => base'[o] = C!Text'
      BY Zenon DEF AloneOK
    <2>1. /\ alone[o] /\ C!Text' = C!Text /\ AloneOK(o)
          /\ saving'[o] = saving[o] /\ doc'[o] = doc[o] /\ backup'[o] = backup[o]
          /\ o \in Editors => base'[o] = base[o]
      BY <1>0, <1>2
    <2>2. C!Saving(o)
      BY <2>1 DEF C!Saving
    <2> QED
      BY <2>1, <2>2 DEF AloneOK
  <1>3. ASSUME NEW e \in Editors, e # s
        PROVE  EditorOK(e)'
    <2>1. e \in C!Savers
      BY SettingsConstants
    <2>2. /\ EditorOK(e) /\ base'[e] = base[e] /\ changed'[e] = changed[e]
          /\ saving'[e] = saving[e] /\ doc'[e] = doc[e]
      BY <1>0, <1>3, <2>1 DEF SettingsInv
    <2> QED
      BY <2>2 DEF EditorOK
  <1> QED
    BY <1>1, <1>2, <1>3

LEMMA OneSaverMoves ==
  ASSUME SettingsInv, NEW s \in C!Savers, fd[s] = 0, UNCHANGED <<files, config, beside, fd, wrote, torn>>,
         \A o \in C!Savers : o # s => Spared(o),
         \A e \in Editors : e # s => base'[e] = base[e] /\ changed'[e] = changed[e],
         ConfigTypes', StageOK(s)', AloneOK(s)', s \in Editors => EditorOK(s)'
  PROVE  SettingsInv'
  <1>1. /\ \A o \in C!Savers : o # s => StageOK(o)' /\ AloneOK(o)'
        /\ \A e \in Editors : e # s => EditorOK(e)'
    BY OthersKeep
  <1>2. ASSUME NEW o \in C!Savers
        PROVE  BesideOK(o)'
    BY DEF SettingsInv, BesideOK, Spared
  <1>3. beside' # 0 => files'[beside'].secret # "plain"
    BY DEF SettingsInv
  <1>4. config' \notin torn' => C!Text' = wrote'
    BY DEF SettingsInv, C!Text
  <1> QED
    BY <1>1, <1>2, <1>3, <1>4 DEF SettingsInv

LEMMA TextThere ==
  ASSUME SettingsInv
  PROVE  C!Text \in C!Texts
  BY DEF SettingsInv, ConfigTypes, C!Text

LEMMA Loading ==
  ASSUME SettingsInv, NEW e \in Editors, C!Load(e)
  PROVE  SettingsInv'
  <1>1. /\ saving[e] \in {"idle", "editing"} /\ C!Text.loads # "broken"
        /\ base' = [base EXCEPT ![e] = C!Text] /\ doc' = [doc EXCEPT ![e] = C!Text]
        /\ changed' = [changed EXCEPT ![e] = {}] /\ saving' = [saving EXCEPT ![e] = "editing"]
        /\ UNCHANGED <<files, config, beside, backup, fd, alone, wrote, torn>>
    BY Zenon DEF C!Load, C!Goes
  <1>2. e \in C!Savers /\ C!Text' = C!Text /\ C!Text \in C!Texts
    BY <1>1, TextThere, SettingsConstants DEF C!Text
  <1>3. ConfigTypes'
    BY <1>1, <1>2 DEF SettingsInv, ConfigTypes
  <1>4. /\ saving'[e] = "editing" /\ doc'[e] = C!Text /\ base'[e] = C!Text /\ changed'[e] = {}
        /\ \A o \in C!Savers : o # e => saving'[o] = saving[o] /\ doc'[o] = doc[o]
        /\ \A o \in Editors : o # e => base'[o] = base[o] /\ changed'[o] = changed[o]
    BY <1>1, <1>2 DEF SettingsInv, ConfigTypes
  <1>5. fd[e] = 0
    BY <1>1, <1>2 DEF SettingsInv, StageOK
  <1>6. StageOK(e)' /\ AloneOK(e)' /\ EditorOK(e)'
    BY <1>1, <1>2, <1>4, <1>5 DEF SettingsInv, StageOK, AloneOK, Knows, EditorOK, C!Saving
  <1>7. \A o \in C!Savers : o # e => Spared(o)
    BY <1>1, <1>2, <1>4 DEF Spared
  <1> QED
    BY <1>1, <1>2, <1>3, <1>4, <1>5, <1>6, <1>7, OneSaverMoves

LEMMA Setting ==
  ASSUME SettingsInv, NEW e \in Editors, C!Set(e)
  PROVE  SettingsInv'
  <1>1. saving[e] = "editing" /\ UNCHANGED <<files, config, beside, backup, saving, base, fd, alone, wrote, torn>>
    BY Zenon DEF C!Set
  <1>2. e \in C!Savers /\ C!Text' = C!Text /\ doc[e] \in C!Texts /\ base[e] \in C!Texts /\ fd[e] = 0
    BY <1>1, SettingsConstants DEF C!Text, SettingsInv, ConfigTypes, StageOK
  <1>3. PICK k \in C!Keys, v \in Values, loads \in Loadings : \E d, c :
          /\ (d = KeySet(doc[e], k, v, loads) /\ c = k) \/ (d = SecretSet(doc[e]) /\ c = "secret")
          /\ doc' = [doc EXCEPT ![e] = d] /\ changed' = [changed EXCEPT ![e] = @ \cup {c}]
    <2>1. CASE \E k \in C!Keys, v \in Values, loads \in Loadings :
                 /\ doc' = [doc EXCEPT ![e].key[k] = v, ![e].loads = loads]
                 /\ changed' = [changed EXCEPT ![e] = @ \cup {k}]
      <3>1. PICK k \in C!Keys, v \in Values, loads \in Loadings :
                 /\ doc' = [doc EXCEPT ![e].key[k] = v, ![e].loads = loads]
                 /\ changed' = [changed EXCEPT ![e] = @ \cup {k}]
        BY <2>1, Zenon
      <3>2. doc' = [doc EXCEPT ![e] = KeySet(doc[e], k, v, loads)]
        BY <1>2, <3>1 DEF SettingsInv, ConfigTypes, KeySet
      <3> QED
        BY <3>1, <3>2
    <2>2. CASE /\ doc' = [doc EXCEPT ![e].secret = "hash"]
               /\ changed' = [changed EXCEPT ![e] = @ \cup {"secret"}]
      <3>1. doc' = [doc EXCEPT ![e] = SecretSet(doc[e])]
        BY <2>2 DEF SecretSet
      <3>2. "live" \in C!Keys /\ "old" \in Values /\ "yes" \in Loadings
        BY DEF C!Keys, Values, Loadings
      <3> QED
        BY <2>2, <3>1, <3>2
    <2> QED
      BY <2>1, <2>2, Zenon DEF C!Set, Values, Loadings
  <1>10. PICK d, c :
          /\ (d = KeySet(doc[e], k, v, loads) /\ c = k) \/ (d = SecretSet(doc[e]) /\ c = "secret")
          /\ doc' = [doc EXCEPT ![e] = d] /\ changed' = [changed EXCEPT ![e] = @ \cup {c}]
    BY <1>3
  <1>4. /\ d \in C!Texts /\ d.version = doc[e].version
        /\ c = k => d.loads # "broken" /\ d.secret = doc[e].secret /\ \A j \in C!Keys : j # k => d.key[j] = doc[e].key[j]
        /\ c = "secret" => d.loads = doc[e].loads /\ d.key = doc[e].key /\ d.secret = "hash"
        /\ c \in C!Keys \cup {"secret"} /\ (c = k \/ c = "secret")
    <2>1. k # "secret"
      BY DEF C!Keys
    <2>2. CASE d = KeySet(doc[e], k, v, loads) /\ c = k
      <3>1. /\ d \in C!Texts /\ d.version = doc[e].version /\ d.secret = doc[e].secret /\ d.loads # "broken"
            /\ \A j \in C!Keys : j # k => d.key[j] = doc[e].key[j]
        <4> DEFINE d0 == doc[e]
        <4>1. d0 \in C!Texts
          BY <1>2
        <4> HIDE DEF d0
        <4>2. /\ KeySet(d0, k, v, loads) \in C!Texts /\ KeySet(d0, k, v, loads).version = d0.version
              /\ KeySet(d0, k, v, loads).secret = d0.secret /\ KeySet(d0, k, v, loads).loads # "broken"
              /\ \A j \in C!Keys : j # k => KeySet(d0, k, v, loads).key[j] = d0.key[j]
          <5>1. KeyIsSet(d0, KeySet(d0, k, v, loads), k)
            BY <4>1, SetText
          <5> QED
            BY <5>1 DEF KeyIsSet
        <4> QED
          BY <2>2, <4>2, Zenon DEF d0
      <3> QED
        BY <2>1, <2>2, <3>1
    <2>3. CASE d = SecretSet(doc[e]) /\ c = "secret"
      <3>1. SecretIsSet(doc[e], SecretSet(doc[e]))
        BY <1>2, SetText
      <3> QED
        BY <2>1, <2>3, <3>1 DEF SecretIsSet
    <2> QED
      BY <1>10, <2>2, <2>3
  <1>5. /\ doc'[e] = d /\ changed'[e] = changed[e] \cup {c}
        /\ \A o \in C!Savers : o # e => doc'[o] = doc[o]
        /\ \A o \in Editors : o # e => changed'[o] = changed[o]
    BY <1>2, <1>10 DEF SettingsInv, ConfigTypes
  <1>6. ConfigTypes'
    <2>1. doc' \in [C!Savers -> C!Texts]
      BY <1>2, <1>10, <1>4 DEF SettingsInv, ConfigTypes
    <2>2. changed' \in [Editors -> SUBSET (C!Keys \cup {"secret"})]
      BY <1>10, <1>4 DEF SettingsInv, ConfigTypes
    <2> QED
      BY <1>1, <2>1, <2>2 DEF SettingsInv, ConfigTypes
  <1>7. StageOK(e)' /\ AloneOK(e)'
    BY <1>1, <1>2 DEF SettingsInv, StageOK, AloneOK, Knows, C!Saving
  <1>8. EditorOK(e)'
    <2>1. EditorOK(e) /\ saving[e] = "editing" /\ saving'[e] = "editing" /\ base'[e] = base[e]
      BY <1>1 DEF SettingsInv
    <2>2. /\ base[e].loads # "broken" /\ d.loads # "broken" /\ d.version = base[e].version
          /\ \A j \in C!Keys \ (changed[e] \cup {c}) : d.key[j] = base[e].key[j]
          /\ "secret" \notin changed[e] \cup {c} => d.secret \in {base[e].secret, C!Hardened(base[e]).secret}
      BY <1>4, <2>1 DEF EditorOK
    <2> QED
      BY <1>5, <2>1, <2>2 DEF EditorOK
  <1>9. \A o \in C!Savers : o # e => Spared(o)
    BY <1>1, <1>2, <1>5 DEF Spared
  <1> QED
    BY <1>1, <1>2, <1>5, <1>6, <1>7, <1>8, <1>9, OneSaverMoves

LEMMA Comparing ==
  ASSUME SettingsInv, NEW e \in Editors, C!Compare(e)
  PROVE  SettingsInv'
  <1>1. /\ saving[e] = "editing" /\ C!Text = base[e]
        /\ doc' = [doc EXCEPT ![e] = C!Hardened(@)]
        /\ saving' = [saving EXCEPT ![e] = "saving"] /\ alone' = [alone EXCEPT ![e] = TRUE]
        /\ UNCHANGED <<files, config, beside, backup, base, changed, fd, wrote, torn>>
    BY Zenon DEF C!Compare, C!Begins, C!Goes
  <1>2. e \in C!Savers /\ C!Text' = C!Text /\ doc[e] \in C!Texts /\ base[e] \in C!Texts /\ fd[e] = 0
        /\ e # Daemon /\ e # Setup
    BY <1>1, SettingsConstants DEF C!Text, SettingsInv, ConfigTypes, StageOK
  <1>3. /\ doc'[e] = C!Hardened(doc[e]) /\ saving'[e] = "saving" /\ alone'[e] = TRUE
        /\ \A o \in C!Savers : o # e => doc'[o] = doc[o] /\ saving'[o] = saving[o] /\ alone'[o] = alone[o]
    BY <1>1, <1>2 DEF SettingsInv, ConfigTypes
  <1>4. ConfigTypes'
    <2>1. doc' \in [C!Savers -> C!Texts]
      BY <1>1, <1>2, HardenedText DEF SettingsInv, ConfigTypes
    <2> QED
      BY <1>1, <2>1 DEF SettingsInv, ConfigTypes
  <1>5. EditorOK(e)
    BY DEF SettingsInv
  <1>6. /\ C!Hardened(doc[e]).secret # "plain" /\ C!Hardened(doc[e]).loads = doc[e].loads
        /\ C!Hardened(doc[e]).key = doc[e].key /\ C!Hardened(doc[e]).version = doc[e].version
        /\ C!Hardened(doc[e]).secret = IF doc[e].secret = "plain" THEN "hash" ELSE doc[e].secret
        /\ C!Hardened(base[e]).secret = IF base[e].secret = "plain" THEN "hash" ELSE base[e].secret
    BY <1>1, <1>2, <1>5, HardenedText DEF EditorOK
  <1>7. StageOK(e)' /\ AloneOK(e)'
    <2>1. StageOK(e)'
      BY <1>1, <1>2, <1>3, <1>6 DEF SettingsInv, StageOK, C!Saving
    <2>2. C!Text.loads # "broken"
      BY <1>1, <1>5 DEF EditorOK
    <2> QED
      BY <1>1, <1>2, <1>3, <2>1, <2>2 DEF AloneOK, Knows
  <1>8. EditorOK(e)'
    <2>1. base'[e] = base[e] /\ changed'[e] = changed[e]
      BY <1>1
    <2>2. /\ base[e].loads # "broken" /\ doc[e].loads # "broken" /\ doc[e].version = base[e].version
          /\ \A k \in C!Keys \ changed[e] : doc[e].key[k] = base[e].key[k]
          /\ "secret" \notin changed[e] => doc[e].secret \in {base[e].secret, C!Hardened(base[e]).secret}
      BY <1>1, <1>5 DEF EditorOK
    <2>3. doc[e].secret \in {base[e].secret, C!Hardened(base[e]).secret}
            => C!Hardened(doc[e]).secret = C!Hardened(base[e]).secret
      BY <1>6
    <2> QED
      BY <1>3, <1>6, <2>1, <2>2, <2>3 DEF EditorOK
  <1>9. \A o \in C!Savers : o # e => Spared(o)
    BY <1>1, <1>2, <1>3 DEF Spared
  <1> QED
    BY <1>1, <1>2, <1>4, <1>7, <1>8, <1>9, OneSaverMoves

LEMMA FilesBeside == MaxFiles \in Nat /\ \A n \in 0..MaxFiles : n # 0 => n \in 1..MaxFiles
  BY SettingsConstants

LEMMA Validating ==
  ASSUME SettingsInv, NEW e \in C!Savers, C!Validate(e)
  PROVE  SettingsInv'
  <1>1. /\ e \in Editors /\ saving[e] = "saving"
        /\ saving' = [saving EXCEPT ![e] = IF C!Loads(doc[e]) THEN "checked" ELSE "editing"]
        /\ UNCHANGED <<files, config, beside, backup, base, doc, changed, fd, alone, wrote, torn>>
    BY Zenon DEF C!Validate, C!Goes
  <1>2. C!Text' = C!Text /\ fd[e] = 0 /\ e # Daemon /\ e # Setup
    BY <1>1, SettingsConstants DEF C!Text, SettingsInv, StageOK
  <1>3. /\ saving'[e] = (IF C!Loads(doc[e]) THEN "checked" ELSE "editing")
        /\ \A o \in C!Savers : o # e => saving'[o] = saving[o]
    BY <1>1 DEF SettingsInv, ConfigTypes
  <1>4. ConfigTypes'
    BY <1>1 DEF SettingsInv, ConfigTypes
  <1>5. saving'[e] \in {"checked", "editing"} /\ (saving'[e] = "checked" => C!Loads(doc[e]))
    BY <1>3
  <1>6. StageOK(e)' /\ AloneOK(e)' /\ EditorOK(e)'
    <2>1. StageOK(e)'
      BY <1>1, <1>2, <1>5 DEF SettingsInv, StageOK, C!Saving
    <2>2. AloneOK(e)'
      BY <1>1, <1>2, <1>5 DEF SettingsInv, AloneOK, Knows, C!Saving
    <2>3. EditorOK(e)
      BY <1>1 DEF SettingsInv
    <2>4. EditorOK(e)'
      BY <1>1, <1>5, <2>3 DEF EditorOK
    <2> QED
      BY <2>1, <2>2, <2>4
  <1>7. \A o \in C!Savers : o # e => Spared(o)
    BY <1>1, <1>2, <1>3 DEF Spared
  <1> QED
    BY <1>1, <1>2, <1>4, <1>6, <1>7, OneSaverMoves

LEMMA BackingUp ==
  ASSUME SettingsInv, NEW s \in C!Savers, C!Backup(s)
  PROVE  SettingsInv'
  <1>1. /\ s # Daemon /\ saving[s] = "checked" /\ saving' = [saving EXCEPT ![s] = "backed up"]
        /\ backup' = [backup EXCEPT ![s] = C!Hardened(C!Text)]
        /\ UNCHANGED <<files, config, beside, base, doc, changed, fd, alone, wrote, torn>>
    BY Zenon DEF C!Backup, C!Goes
  <1>2. C!Text' = C!Text /\ fd[s] = 0 /\ C!Text \in C!Texts
    BY <1>1, TextThere DEF C!Text, SettingsInv, StageOK
  <1>3. /\ saving'[s] = "backed up" /\ backup'[s] = C!Hardened(C!Text)
        /\ \A o \in C!Savers : o # s => saving'[o] = saving[o] /\ backup'[o] = backup[o]
    BY <1>1 DEF SettingsInv, ConfigTypes
  <1>4. /\ C!Hardened(C!Text) \in C!Texts
        /\ C!Hardened(C!Text).loads # "broken" => C!Hardened(C!Text).secret # "plain"
    BY <1>2, HardenedText
  <1>5. ConfigTypes'
    BY <1>1, <1>4 DEF SettingsInv, ConfigTypes
  <1>6. StageOK(s)'
    BY <1>1, <1>2, <1>3, <1>4 DEF SettingsInv, StageOK, C!Saving
  <1>7. AloneOK(s)'
    BY <1>1, <1>2, <1>3 DEF SettingsInv, AloneOK, Knows, C!Saving
  <1>8. s \in Editors => EditorOK(s)'
    BY <1>1, <1>3 DEF SettingsInv, EditorOK
  <1>9. \A o \in C!Savers : o # s => Spared(o)
    BY <1>1, <1>2, <1>3 DEF Spared
  <1> QED
    BY <1>1, <1>2, <1>5, <1>6, <1>7, <1>8, <1>9, OneSaverMoves

(* The daemon and `pcbridge setup` start from what the file is.            *)
LEMMA Beginning ==
  ASSUME SettingsInv, NEW s \in {Daemon, Setup}, saving[s] = "idle", NEW t \in C!Texts, t.secret # "plain",
         NEW where \in {"read", "backed up"},
         doc' = [doc EXCEPT ![s] = t], C!Begins(s, where),
         UNCHANGED <<files, config, beside, backup, base, changed, fd, wrote, torn>>,
         Knows(s, where, t, backup[s], C!Text)
  PROVE  SettingsInv'
  <1>1. /\ s \in C!Savers /\ s \notin Editors /\ saving' = [saving EXCEPT ![s] = where]
        /\ alone' = [alone EXCEPT ![s] = TRUE] /\ C!Text' = C!Text
    BY SettingsConstants DEF C!Begins, C!Goes, C!Text
  <1>2. /\ fd[s] = 0 /\ saving'[s] = where /\ doc'[s] = t
        /\ \A o \in C!Savers : o # s => saving'[o] = saving[o] /\ doc'[o] = doc[o] /\ alone'[o] = alone[o]
    BY <1>1 DEF SettingsInv, ConfigTypes, StageOK
  <1>3. ConfigTypes'
    BY <1>1 DEF SettingsInv, ConfigTypes
  <1>4. StageOK(s)'
    BY <1>1, <1>2 DEF SettingsInv, StageOK, C!Saving
  <1>5. AloneOK(s)'
    BY <1>1, <1>2 DEF AloneOK
  <1>6. \A o \in C!Savers : o # s => Spared(o)
    BY <1>1, <1>2 DEF Spared
  <1> QED
    BY <1>1, <1>2, <1>3, <1>4, <1>5, <1>6, OneSaverMoves

LEMMA Hardening ==
  ASSUME SettingsInv, C!Harden
  PROVE  SettingsInv'
  <1>1. C!Text \in C!Texts
    BY TextThere
  <1>2. /\ saving[Daemon] = "idle" /\ C!Hardened(C!Text) # C!Text
        /\ doc' = [doc EXCEPT ![Daemon] = C!Hardened(C!Text)] /\ C!Begins(Daemon, "backed up")
        /\ UNCHANGED <<files, config, beside, backup, base, changed, fd, wrote, torn>>
    BY Zenon DEF C!Harden
  <1>3. C!Hardened(C!Text) \in C!Texts /\ C!Hardened(C!Text).secret # "plain"
    BY <1>1, <1>2, HardenedText
  <1>4. Knows(Daemon, "backed up", C!Hardened(C!Text), backup[Daemon], C!Text)
    BY SettingsConstants DEF Knows
  <1> QED
    BY <1>2, <1>3, <1>4, Beginning

LEMMA Migrating ==
  ASSUME SettingsInv, C!Migrate
  PROVE  SettingsInv'
  <1>1. C!Text \in C!Texts
    BY TextThere
  <1>2. /\ saving[Setup] = "idle" /\ C!Text.loads # "broken"
        /\ doc' = [doc EXCEPT ![Setup] = C!Hardened(C!Migrated(C!Text))] /\ C!Begins(Setup, "read")
        /\ UNCHANGED <<files, config, beside, backup, base, changed, fd, wrote, torn>>
    BY Zenon DEF C!Migrate
  <1>3. C!Migrated(C!Text) \in C!Texts /\ C!Migrated(C!Text).loads # "broken"
    BY <1>1, <1>2, MigratedText
  <1>4. C!Hardened(C!Migrated(C!Text)) \in C!Texts /\ C!Hardened(C!Migrated(C!Text)).secret # "plain"
    BY <1>3, HardenedText
  <1>5. Knows(Setup, "read", C!Hardened(C!Migrated(C!Text)), backup[Setup], C!Text)
    BY <1>2, SettingsConstants DEF Knows
  <1> QED
    BY <1>2, <1>4, <1>5, Beginning

LEMMA SavingEnds ==
  ASSUME SettingsInv, NEW s \in C!Savers, C!Ended(s), alone' = [alone EXCEPT ![s] = FALSE],
         fd' = [fd EXCEPT ![s] = 0], UNCHANGED <<files, config, beside, wrote, torn>>
  PROVE  SettingsInv'
  <1>1. /\ saving' = [saving EXCEPT ![s] = "idle"] /\ doc' = [doc EXCEPT ![s] = C!Empty]
        /\ backup' = [backup EXCEPT ![s] = C!Empty]
        /\ base' = [e \in Editors |-> IF e = s THEN C!Empty ELSE base[e]]
        /\ changed' = [e \in Editors |-> IF e = s THEN {} ELSE changed[e]]
        /\ fd' = [fd EXCEPT ![s] = 0] /\ alone' = [alone EXCEPT ![s] = FALSE]
        /\ UNCHANGED <<files, config, beside, wrote, torn>>
    BY Zenon DEF C!Ended, C!Goes
  <1>2. /\ saving'[s] = "idle" /\ backup'[s] = C!Empty /\ fd'[s] = 0
        /\ \A o \in C!Savers : o # s => /\ saving'[o] = saving[o] /\ doc'[o] = doc[o] /\ backup'[o] = backup[o]
                                        /\ fd'[o] = fd[o] /\ alone'[o] = alone[o]
        /\ \A e \in Editors : e # s => base'[e] = base[e] /\ changed'[e] = changed[e]
    BY <1>1 DEF SettingsInv, ConfigTypes
  <1>3. ConfigTypes'
    <2>1. saving' \in [C!Savers -> {"idle", "editing", "read", "saving", "checked", "backed up", "open", "written"}]
      BY <1>1 DEF SettingsInv, ConfigTypes
    <2>2. doc' \in [C!Savers -> C!Texts] /\ backup' \in [C!Savers -> C!Texts]
      BY <1>1, EmptyText DEF SettingsInv, ConfigTypes
    <2>3. base' \in [Editors -> C!Texts]
      BY <1>1, EmptyText DEF SettingsInv, ConfigTypes
    <2>4. changed' \in [Editors -> SUBSET (C!Keys \cup {"secret"})]
      BY <1>1 DEF SettingsInv, ConfigTypes
    <2>5. 0 \in 0..MaxFiles
      BY FilesBeside
    <2>6. fd' \in [C!Savers -> 0..MaxFiles] /\ alone' \in [C!Savers -> BOOLEAN]
      BY <1>1, <2>5 DEF SettingsInv, ConfigTypes
    <2> QED
      BY <1>1, <2>1, <2>2, <2>3, <2>4, <2>6 DEF SettingsInv, ConfigTypes
  <1>4. C!Text' = C!Text
    BY <1>1 DEF C!Text
  <1>5. \A o \in C!Savers : o # s => Spared(o)
    BY <1>2, <1>4 DEF Spared
  <1>6. /\ \A o \in C!Savers : o # s => StageOK(o)' /\ AloneOK(o)'
        /\ \A e \in Editors : e # s => EditorOK(e)'
    BY <1>2, <1>5, OthersKeep
  <1>7. StageOK(s)' /\ AloneOK(s)' /\ (s \in Editors => EditorOK(s)')
    BY <1>2, EmptyText DEF StageOK, AloneOK, EditorOK, C!Saving
  <1>8. ASSUME NEW o \in C!Savers
        PROVE  BesideOK(o)'
    <2>1. config # 0 /\ BesideOK(o)
      <3>1. config \in 1..MaxFiles /\ BesideOK(o)
        BY Zenon DEF SettingsInv, ConfigTypes
      <3> QED
        BY <3>1
    <2>2. CASE o = s
      BY <1>1, <1>2, <2>1, <2>2 DEF BesideOK
    <2>3. CASE o # s
      <3>1. \A x \in C!Savers : fd'[x] # 0 => fd'[x] = fd[x]
        BY <1>2
      <3>2. fd'[o] = fd[o] /\ saving'[o] = saving[o] /\ doc'[o] = doc[o]
        BY <1>2, <2>3
      <3> QED
        BY <1>1, <2>1, <3>1, <3>2 DEF BesideOK
    <2> QED
      BY <2>2, <2>3
  <1> QED
    BY <1>1, <1>3, <1>4, <1>6, <1>7, <1>8 DEF SettingsInv

LEMMA Renewing ==
  ASSUME SettingsInv, C!Renew
  PROVE  SettingsInv'
  <1>1. saving[Setup] = "read" /\ UNCHANGED <<files, config, beside, fd, wrote, torn>>
    BY Zenon DEF C!Renew
  <1>2. Setup \in C!Savers /\ Setup \notin Editors /\ Setup # Daemon /\ C!Text' = C!Text
    BY <1>1, SettingsConstants DEF C!Text
  <1>3. fd[Setup] = 0
    BY <1>1, <1>2 DEF SettingsInv, StageOK
  <1>4. CASE C!Ended(Setup) /\ alone' = [alone EXCEPT ![Setup] = FALSE]
    <2>1. fd' = [fd EXCEPT ![Setup] = 0]
      BY <1>1, <1>2, <1>3 DEF SettingsInv, ConfigTypes
    <2> QED
      BY <1>1, <1>2, <1>4, <2>1, SavingEnds
  <1>5. CASE C!Goes(Setup, "checked") /\ UNCHANGED <<backup, base, doc, changed, alone>>
    <2>1. saving' = [saving EXCEPT ![Setup] = "checked"]
      BY <1>5, Zenon DEF C!Goes
    <2>2. saving'[Setup] = "checked" /\ \A o \in C!Savers : o # Setup => saving'[o] = saving[o]
      BY <1>2, <2>1 DEF SettingsInv, ConfigTypes
    <2>3. ConfigTypes'
      BY <1>1, <1>5, <2>1 DEF SettingsInv, ConfigTypes
    <2>4. StageOK(Setup)'
      BY <1>1, <1>2, <1>3, <1>5, <2>2 DEF SettingsInv, StageOK, C!Saving
    <2>5. AloneOK(Setup)'
      BY <1>1, <1>2, <1>5, <2>2 DEF SettingsInv, AloneOK, Knows, C!Saving
    <2>6. \A o \in C!Savers : o # Setup => Spared(o)
      BY <1>2, <1>5, <2>2 DEF Spared
    <2> QED
      BY <1>1, <1>2, <1>3, <1>5, <2>3, <2>4, <2>5, <2>6, OneSaverMoves
  <1> QED
    BY <1>4, <1>5, Zenon DEF C!Renew

LEMMA Opening ==
  ASSUME SettingsInv, NEW s \in C!Savers, C!Open(s)
  PROVE  SettingsInv'
  <1>1. /\ saving[s] = "backed up" /\ saving' = [saving EXCEPT ![s] = "open"]
        /\ files' = [files EXCEPT ![fd'[s]] = C!Empty]
        /\ torn' = IF \E o \in C!Savers : fd[o] = fd'[s] THEN torn \cup {fd'[s]} ELSE torn \ {fd'[s]}
        /\ UNCHANGED <<config, backup, base, doc, changed, alone, wrote>>
    BY Zenon DEF C!Open, C!Goes
  <1>2. PICK n \in 1..MaxFiles : n # config /\ beside' = n /\ fd' = [fd EXCEPT ![s] = n]
    <2>1. CASE beside # 0
      <3>1. beside \in 1..MaxFiles /\ beside # config
        BY <2>1, FilesBeside DEF SettingsInv, ConfigTypes
      <3> QED
        BY <2>1, <3>1 DEF C!Open
    <2>2. CASE beside = 0
      BY <2>2, Zenon DEF C!Open
    <2> QED
      BY <2>1, <2>2
  <1>3. /\ fd'[s] = n /\ n # 0 /\ saving'[s] = "open"
        /\ \A o \in C!Savers : o # s => fd'[o] = fd[o] /\ saving'[o] = saving[o]
    <2>1. n # 0
      OBVIOUS
    <2>2. fd'[s] = n /\ \A o \in C!Savers : o # s => fd'[o] = fd[o]
      BY <1>2 DEF SettingsInv, ConfigTypes
    <2>3. saving'[s] = "open" /\ \A o \in C!Savers : o # s => saving'[o] = saving[o]
      BY <1>1 DEF SettingsInv, ConfigTypes
    <2> QED
      BY <2>1, <2>2, <2>3
  <1>4. files' = [files EXCEPT ![n] = C!Empty] /\ files'[n] = C!Empty /\ C!Text' = C!Text
    BY <1>1, <1>2, <1>3 DEF SettingsInv, ConfigTypes, C!Text
  <1>5. ConfigTypes'
    <2>1. files' \in [1..MaxFiles -> C!Texts]
      BY <1>4, EmptyText DEF SettingsInv, ConfigTypes
    <2>2. fd' \in [C!Savers -> 0..MaxFiles]
      <3>1. n \in 0..MaxFiles
        BY FilesBeside
      <3>2. fd \in [C!Savers -> 0..MaxFiles]
        BY DEF SettingsInv, ConfigTypes
      <3> QED
        BY <1>2, <3>1, <3>2
    <2>3. torn' \subseteq 1..MaxFiles
      BY <1>1, <1>3 DEF SettingsInv, ConfigTypes
    <2> QED
      BY <1>1, <1>2, <2>1, <2>2, <2>3 DEF SettingsInv, ConfigTypes
  <1>6. \A o \in C!Savers : o # s => Spared(o)
    BY <1>1, <1>3, <1>4 DEF Spared
  <1>7. /\ \A o \in C!Savers : o # s => StageOK(o)' /\ AloneOK(o)'
        /\ \A e \in Editors : e # s => EditorOK(e)'
    BY <1>1, <1>3, <1>6, OthersKeep
  <1>8. StageOK(s)'
    BY <1>1, <1>3 DEF SettingsInv, StageOK, C!Saving
  <1>9. AloneOK(s)' /\ (s \in Editors => EditorOK(s)')
    BY <1>1, <1>3, <1>4 DEF SettingsInv, AloneOK, Knows, EditorOK, C!Saving
  <1>10. /\ \A m \in 1..MaxFiles : m # n => (m \in torn' <=> m \in torn)
         /\ n \notin torn' => \A o \in C!Savers : fd[o] # n
    BY <1>1, <1>3
  <1>11. ASSUME NEW o \in C!Savers
         PROVE  BesideOK(o)'
    <2>1. ASSUME fd'[o] = n, n \notin torn'
          PROVE  o = s
      BY <1>3, <1>10, <2>1
    <2>2. n \notin torn' => \A x \in C!Savers : fd'[x] = n => x = s
      BY <1>3, <1>10
    <2>3. fd'[o] = config => config \in torn'
      <3> SUFFICES ASSUME fd'[o] = config
                   PROVE  config \in torn'
        OBVIOUS
      <3>1. o # s /\ fd[o] = config
        BY <1>2, <1>3
      <3>2. config \in torn
        BY <3>1 DEF SettingsInv, BesideOK
      <3>3. config \in 1..MaxFiles
        BY DEF SettingsInv, ConfigTypes
      <3> QED
        BY <1>2, <1>10, <3>2, <3>3
    <2>4. config' = config /\ beside' = n
      BY <1>1, <1>2
    <2> QED
      BY <1>3, <1>4, <2>1, <2>2, <2>3, <2>4 DEF BesideOK
  <1>12. files'[beside'].secret # "plain"
    BY <1>2, <1>4, EmptyText
  <1>13. config' \notin torn' => C!Text' = wrote'
    <2>1. config \in 1..MaxFiles
      BY DEF SettingsInv, ConfigTypes
    <2>2. config \in torn' <=> config \in torn
      BY <1>2, <1>10, <2>1
    <2> QED
      BY <1>1, <1>4, <2>2 DEF SettingsInv
  <1> QED
    BY <1>5, <1>7, <1>8, <1>9, <1>11, <1>12, <1>13 DEF SettingsInv

LEMMA Writing ==
  ASSUME SettingsInv, NEW s \in C!Savers, C!Write(s)
  PROVE  SettingsInv'
  <1>1. /\ saving[s] = "open" /\ saving' = [saving EXCEPT ![s] = "written"]
        /\ alone' = [o \in C!Savers |-> alone[o] /\ fd[s] # config]
        /\ UNCHANGED <<config, beside, backup, base, doc, changed, fd, wrote, torn>>
    BY Zenon DEF C!Write, C!Goes
  <1>2. fd[s] # 0 /\ fd[s] \in 1..MaxFiles /\ doc[s] \in C!Texts /\ doc[s].secret # "plain"
    BY <1>1, FilesBeside DEF SettingsInv, ConfigTypes, StageOK, C!Saving
  <1>3. PICK t : /\ files' = [files EXCEPT ![fd[s]] = t]
                 /\ t \in {doc[s], C!Mixed(doc[s])}
                 /\ files[fd[s]] = C!Empty => t = doc[s]
    BY DEF C!Write
  <1>4. t \in C!Texts /\ t.secret # "plain"
    BY <1>2, <1>3, MixedText
  <1>5. /\ files'[fd[s]] = t /\ \A n \in 1..MaxFiles : n # fd[s] => files'[n] = files[n]
    BY <1>2, <1>3 DEF SettingsInv, ConfigTypes
  <1>6. /\ saving'[s] = "written" /\ \A o \in C!Savers : o # s => saving'[o] = saving[o]
        /\ fd[s] # config => C!Text' = C!Text
        /\ \A o \in C!Savers : alone'[o] => alone[o] /\ fd[s] # config
    BY <1>1, <1>5 DEF SettingsInv, ConfigTypes, C!Text
  <1>7. ConfigTypes'
    <2>1. files' \in [1..MaxFiles -> C!Texts]
      BY <1>3, <1>4 DEF SettingsInv, ConfigTypes
    <2>2. alone' \in [C!Savers -> BOOLEAN]
      BY <1>1 DEF SettingsInv, ConfigTypes
    <2> QED
      BY <1>1, <2>1, <2>2 DEF SettingsInv, ConfigTypes
  <1>8. \A o \in C!Savers : o # s => Spared(o)
    BY <1>1, <1>6 DEF Spared
  <1>9. /\ \A o \in C!Savers : o # s => StageOK(o)' /\ AloneOK(o)'
        /\ \A e \in Editors : e # s => EditorOK(e)'
    BY <1>1, <1>8, OthersKeep
  <1>10. StageOK(s)'
    BY <1>1, <1>2, <1>6 DEF SettingsInv, StageOK, C!Saving
  <1>11. AloneOK(s)'
    <2> SUFFICES ASSUME alone'[s]
                 PROVE  /\ Knows(s, saving'[s], doc'[s], backup'[s], C!Text')
                        /\ s \in Editors => base'[s] = C!Text'
      BY Zenon DEF AloneOK
    <2>1. alone[s] /\ C!Text' = C!Text /\ AloneOK(s)
      BY <1>6 DEF SettingsInv
    <2> QED
      BY <1>1, <1>6, <2>1 DEF AloneOK, Knows, C!Saving
  <1>12. s \in Editors => EditorOK(s)'
    BY <1>1, <1>6 DEF SettingsInv, EditorOK
  <1>13. ASSUME NEW o \in C!Savers
         PROVE  BesideOK(o)'
    <2>1. ASSUME fd[o] # 0, fd[o] = beside, beside \notin torn
          PROVE  /\ saving'[o] = "open" => files'[fd[o]] = C!Empty
                 /\ saving'[o] = "written" => files'[fd[o]] = doc[o]
                 /\ \A x \in C!Savers : fd[x] = fd[o] => x = o
      <3>1. /\ saving[o] = "open" => files[fd[o]] = C!Empty
            /\ saving[o] = "written" => files[fd[o]] = doc[o]
            /\ \A x \in C!Savers : fd[x] = fd[o] => x = o
        BY <2>1 DEF SettingsInv, BesideOK
      <3>2. CASE o = s
        BY <1>1, <1>3, <1>5, <1>6, <3>1, <3>2
      <3>3. CASE o # s
        <4>1. fd[o] \in 1..MaxFiles /\ fd[o] # fd[s]
          BY <2>1, <3>1, <3>3, FilesBeside DEF SettingsInv, ConfigTypes
        <4> QED
          BY <1>5, <1>6, <3>1, <3>3, <4>1
      <3> QED
        BY <3>2, <3>3
    <2>2. fd[o] = config => config \in torn
      BY DEF SettingsInv, BesideOK
    <2> QED
      BY <1>1, <2>1, <2>2, Zenon DEF BesideOK
  <1>14. beside' # 0 => files'[beside'].secret # "plain"
    BY <1>1, <1>4, <1>5, FilesBeside DEF SettingsInv, ConfigTypes
  <1>15. config' \notin torn' => C!Text' = wrote'
    <2> SUFFICES ASSUME config \notin torn
                 PROVE  C!Text' = wrote
      BY <1>1
    <2>1. fd[s] # config
      BY DEF SettingsInv, BesideOK
    <2> QED
      BY <1>6, <2>1 DEF SettingsInv
  <1> QED
    BY <1>7, <1>9, <1>10, <1>11, <1>12, <1>13, <1>14, <1>15 DEF SettingsInv

(* What an editor notes after a save, or a call forgets.                   *)
LEMMA Replacing ==
  ASSUME SettingsInv, NEW s \in C!Savers, C!Replace(s)
  PROVE  SettingsInv'
  <1>1. /\ saving[s] = "written" /\ beside # 0
        /\ config' = beside /\ beside' = 0 /\ files' = [files EXCEPT ![config] = C!Empty]
        /\ alone' = [o \in C!Savers |-> FALSE] /\ wrote' = doc[s] /\ fd' = [fd EXCEPT ![s] = 0]
        /\ torn' = (torn \ {config}) \cup ({beside} \ {fd[s]})
    BY Zenon DEF C!Replace
  <1>2. /\ fd[s] # 0 /\ beside \in 1..MaxFiles /\ beside # config /\ doc[s] \in C!Texts
    BY <1>1, FilesBeside DEF SettingsInv, ConfigTypes, StageOK
  <1>3. /\ fd'[s] = 0 /\ \A o \in C!Savers : o # s => fd'[o] = fd[o]
    BY <1>1 DEF SettingsInv, ConfigTypes
  <1>4. files'[beside] = files[beside] /\ C!Text' = files[beside] /\ files' \in [1..MaxFiles -> C!Texts]
    BY <1>1, <1>2, EmptyText DEF SettingsInv, ConfigTypes, C!Text
  <1>5. /\ saving' = [saving EXCEPT ![s] = IF s \in Editors THEN "editing" ELSE "idle"]
        /\ doc' = [doc EXCEPT ![s] = IF s \in Editors THEN @ ELSE C!Empty]
        /\ backup' = [backup EXCEPT ![s] = IF s \in Editors THEN @ ELSE C!Empty]
        /\ \A e \in Editors : base'[e] = IF e = s THEN doc[s] ELSE base[e]
        /\ \A e \in Editors : changed'[e] = IF e = s THEN {} ELSE changed[e]
        /\ base' \in [Editors -> C!Texts] /\ changed' \in [Editors -> SUBSET (C!Keys \cup {"secret"})]
    <2>1. CASE s \in Editors
      <3>1. /\ base' = [base EXCEPT ![s] = doc[s]] /\ changed' = [changed EXCEPT ![s] = {}]
            /\ saving' = [saving EXCEPT ![s] = "editing"] /\ UNCHANGED <<doc, backup>>
        BY <2>1, Zenon DEF C!Replace, C!Goes
      <3>2. base' \in [Editors -> C!Texts] /\ changed' \in [Editors -> SUBSET (C!Keys \cup {"secret"})]
        BY <1>2, <3>1 DEF SettingsInv, ConfigTypes
      <3>3. doc = [doc EXCEPT ![s] = doc[s]] /\ backup = [backup EXCEPT ![s] = backup[s]]
        BY DEF SettingsInv, ConfigTypes
      <3> QED
        BY <2>1, <3>1, <3>2, <3>3 DEF SettingsInv, ConfigTypes
    <2>2. CASE s \notin Editors
      <3>1. C!Ended(s)
        BY <2>2, Zenon DEF C!Replace
      <3>2. /\ saving' = [saving EXCEPT ![s] = "idle"] /\ doc' = [doc EXCEPT ![s] = C!Empty]
            /\ backup' = [backup EXCEPT ![s] = C!Empty]
            /\ base' = [e \in Editors |-> IF e = s THEN C!Empty ELSE base[e]]
            /\ changed' = [e \in Editors |-> IF e = s THEN {} ELSE changed[e]]
        BY <3>1, Zenon DEF C!Ended, C!Goes
      <3>3. base' = [e \in Editors |-> base[e]] /\ changed' = [e \in Editors |-> changed[e]]
        BY <2>2, <3>2
      <3>4. base' = base /\ changed' = changed
        BY <3>3 DEF SettingsInv, ConfigTypes
      <3> QED
        BY <2>2, <3>2, <3>4 DEF SettingsInv, ConfigTypes
    <2> QED
      BY <2>1, <2>2
  <1>6. /\ saving'[s] = (IF s \in Editors THEN "editing" ELSE "idle")
        /\ s \in Editors => doc'[s] = doc[s] /\ backup'[s] = backup[s]
        /\ s \notin Editors => backup'[s] = C!Empty
        /\ \A o \in C!Savers : o # s => saving'[o] = saving[o] /\ doc'[o] = doc[o] /\ backup'[o] = backup[o]
    BY <1>5 DEF SettingsInv, ConfigTypes
  <1>7. ConfigTypes'
    <2>1. saving' \in [C!Savers -> {"idle", "editing", "read", "saving", "checked", "backed up", "open", "written"}]
      BY <1>5 DEF SettingsInv, ConfigTypes
    <2>2. doc' \in [C!Savers -> C!Texts] /\ backup' \in [C!Savers -> C!Texts]
      BY <1>5, EmptyText DEF SettingsInv, ConfigTypes
    <2>3. 0 \in 0..MaxFiles
      BY FilesBeside
    <2>4. fd' \in [C!Savers -> 0..MaxFiles] /\ alone' \in [C!Savers -> BOOLEAN] /\ torn' \subseteq 1..MaxFiles
      BY <1>1, <1>2, <2>3 DEF SettingsInv, ConfigTypes
    <2>5. config' \in 1..MaxFiles /\ beside' \in 0..MaxFiles /\ beside' # config'
      BY <1>1, <1>2, <2>3
    <2> QED
      BY <1>4, <1>5, <2>1, <2>2, <2>4, <2>5 DEF ConfigTypes
  <1>8. \A o \in C!Savers : ~alone'[o]
    BY <1>1
  <1>9. /\ \A o \in C!Savers : o # s => StageOK(o)' /\ AloneOK(o)'
        /\ \A e \in Editors : e # s => EditorOK(e)'
    <2>1. \A o \in C!Savers : o # s => Spared(o)
      BY <1>6, <1>8 DEF Spared
    <2> QED
      BY <1>3, <1>5, <2>1, OthersKeep
  <1>10. StageOK(s)'
    BY <1>3, <1>6, EmptyText DEF SettingsInv, StageOK, C!Saving
  <1>11. AloneOK(s)'
    BY <1>8 DEF AloneOK
  <1>12. s \in Editors => EditorOK(s)'
    <2> SUFFICES ASSUME s \in Editors
                 PROVE  EditorOK(s)'
      OBVIOUS
    <2>1. EditorOK(s)
      BY DEF SettingsInv
    <2>2. doc[s].loads # "broken"
      BY <1>1, <2>1 DEF EditorOK
    <2>3. saving'[s] = "editing" /\ base'[s] = doc[s] /\ doc'[s] = doc[s]
      BY <1>5, <1>6
    <2> QED
      BY <2>2, <2>3 DEF EditorOK
  <1>13. ASSUME NEW o \in C!Savers
         PROVE  BesideOK(o)'
    <2>1. fd'[o] = beside => beside \in torn'
      <3> SUFFICES ASSUME fd'[o] = beside, beside = fd[s]
                   PROVE  beside \in torn'
        BY <1>1
      <3>1. o # s /\ fd[o] = fd[s]
        BY <1>2, <1>3
      <3>2. beside \in torn
        BY <1>2, <3>1 DEF SettingsInv, BesideOK
      <3> QED
        BY <1>1, <1>2, <3>2
    <2> QED
      BY <1>1, <2>1 DEF BesideOK
  <1>14. config' \notin torn' => C!Text' = wrote'
    <2> SUFFICES ASSUME beside \notin torn'
                 PROVE  files[beside] = doc[s]
      BY <1>1, <1>4
    <2>1. beside = fd[s] /\ beside \notin torn
      BY <1>1, <1>2
    <2> QED
      BY <1>1, <1>2, <2>1 DEF SettingsInv, BesideOK
  <1> QED
    BY <1>1, <1>7, <1>9, <1>10, <1>11, <1>12, <1>13, <1>14 DEF SettingsInv

LEMMA Leaving ==
  ASSUME SettingsInv, NEW s \in C!Savers, C!Gone(s)
  PROVE  SettingsInv'
  <1>1. /\ C!Ended(s) /\ alone' = [alone EXCEPT ![s] = FALSE] /\ fd' = [fd EXCEPT ![s] = 0]
        /\ UNCHANGED <<files, config, beside, wrote, torn>>
    BY Zenon DEF C!Gone
  <1> QED
    BY <1>1, SavingEnds

LEMMA TheUserWrites ==
  ASSUME SettingsInv, NEW t \in UserTexts, C!UserWrites(t)
  PROVE  SettingsInv'
  <1>1. /\ files' = [files EXCEPT ![config] = t] /\ alone' = [s \in C!Savers |-> FALSE] /\ wrote' = t
        /\ UNCHANGED <<config, beside, backup, saving, base, doc, changed, fd, torn>>
    BY Zenon DEF C!UserWrites
  <1>2. /\ t \in C!Texts /\ C!Text' = t
        /\ \A n \in 1..MaxFiles : n # config => files'[n] = files[n]
    BY <1>1, SettingsConstants DEF C!Text, SettingsInv, ConfigTypes
  <1>3. ConfigTypes'
    BY <1>1, <1>2 DEF SettingsInv, ConfigTypes
  <1>4. \A o \in C!Savers : ~alone'[o]
    BY <1>1
  <1>5. \A o \in C!Savers : StageOK(o)' /\ AloneOK(o)'
    BY <1>1, <1>4 DEF SettingsInv, StageOK, AloneOK, C!Saving
  <1>6. \A e \in Editors : EditorOK(e)'
    BY <1>1 DEF SettingsInv, EditorOK
  <1>7. beside # 0 => files'[beside] = files[beside]
    BY <1>2, FilesBeside DEF SettingsInv, ConfigTypes
  <1>8. \A o \in C!Savers : BesideOK(o)'
    BY <1>1, <1>7 DEF SettingsInv, BesideOK
  <1> QED
    BY <1>1, <1>2, <1>3, <1>5, <1>6, <1>7, <1>8 DEF SettingsInv

LEMMA NextSettings ==
  ASSUME SettingsInv, [C!Next]_configvars
  PROVE  SettingsInv'
  <1>1. CASE C!Next
    <2>1. Editors \subseteq C!Savers
      BY SettingsConstants
    <2>2. ASSUME NEW e \in Editors, C!Load(e) \/ C!Set(e) \/ C!Compare(e)
          PROVE  SettingsInv'
      BY <2>2, Loading, Setting, Comparing
    <2>3. ASSUME NEW s \in C!Savers, C!Save(s)
          PROVE  SettingsInv'
      BY <2>3, Validating, BackingUp, Opening, Writing, Replacing, Leaving DEF C!Save
    <2>4. CASE C!Harden \/ C!Migrate \/ C!Renew
      BY <2>4, Hardening, Migrating, Renewing
    <2>5. ASSUME NEW t \in UserTexts, C!UserWrites(t)
          PROVE  SettingsInv'
      BY <2>5, TheUserWrites
    <2> QED
      BY <1>1, <2>2, <2>3, <2>4, <2>5, Zenon DEF C!Next
  <1>2. CASE UNCHANGED configvars
    <2>1. UNCHANGED <<files, config, beside, backup, saving, base, doc, changed, fd, alone, wrote, torn>>
      BY <1>2 DEF configvars
    <2>2. C!Text' = C!Text
      BY <2>1 DEF C!Text
    <2>5. /\ \A s \in C!Savers : StageOK(s)' /\ AloneOK(s)'
          /\ \A e \in Editors : EditorOK(e)'
      BY <2>1, <2>2 DEF SettingsInv, StageOK, AloneOK, EditorOK, C!Saving
    <2>6. ConfigTypes'
      BY <2>1 DEF SettingsInv, ConfigTypes
    <2>7. \A s \in C!Savers : BesideOK(s)'
      BY <2>1 DEF SettingsInv, BesideOK
    <2> QED
      BY <2>1, <2>2, <2>5, <2>6, <2>7 DEF SettingsInv
  <1> QED
    BY <1>1, <1>2

(* The only copy of the configuration with a secret in plain text is the   *)
(* backup of a file that someone made unparseable since the save compared  *)
(* it; a save that nobody wrote past changes only what was set; and        *)
(* config.toml is what someone wrote in full unless two had just that file *)
(* open, or one renamed it under another: for any number of editors, texts *)
(* and files (settings.py, hashing.py, config.py).                         *)
THEOREM SettingsSaved == FilesSpec => []SettingsAccounted
  <1>1. FilesInit => SettingsInv
    <2> SUFFICES ASSUME FilesInit
                 PROVE  SettingsInv
      OBVIOUS
    <2>1. C!Init
      BY DEF FilesInit
    <2>2. PICK t \in UserTexts : files = [n \in 1..MaxFiles |-> IF n = 1 THEN t ELSE C!Empty]
      BY <2>1, Zenon DEF C!Init
    <2>3. t \in C!Texts /\ 1 \in 1..MaxFiles /\ 0 \in 0..MaxFiles
      BY SettingsConstants
    <2>4. files \in [1..MaxFiles -> C!Texts] /\ files[1] = t
      BY <2>2, <2>3, EmptyText
    <2>5. ConfigTypes
      <3>1. /\ backup \in [C!Savers -> C!Texts] /\ base \in [Editors -> C!Texts] /\ doc \in [C!Savers -> C!Texts]
        BY <2>1, EmptyText, Zenon DEF C!Init
      <3>2. /\ changed \in [Editors -> SUBSET (C!Keys \cup {"secret"})] /\ fd \in [C!Savers -> 0..MaxFiles]
            /\ alone \in [C!Savers -> BOOLEAN] /\ torn \subseteq 1..MaxFiles
        BY <2>1, <2>3 DEF C!Init
      <3>3. saving \in [C!Savers -> {"idle", "editing", "read", "saving", "checked", "backed up", "open", "written"}]
        BY <2>1 DEF C!Init
      <3>4. config \in 1..MaxFiles /\ beside \in 0..MaxFiles /\ beside # config
        BY <2>1, <2>3 DEF C!Init
      <3> QED
        BY <2>4, <3>1, <3>2, <3>3, <3>4 DEF ConfigTypes
    <2>6. \A s \in C!Savers : StageOK(s) /\ AloneOK(s) /\ BesideOK(s)
      BY <2>1, EmptyText DEF C!Init, StageOK, AloneOK, BesideOK, C!Saving
    <2>7. \A e \in Editors : EditorOK(e)
      BY <2>1, SettingsConstants DEF C!Init, EditorOK
    <2> QED
      BY <2>1, <2>5, <2>6, <2>7 DEF SettingsInv, C!Init, C!Text
  <1>2. SettingsInv /\ [FilesNext]_filesvars => SettingsInv'
    <2>1. [FilesNext]_filesvars => [C!Next]_configvars
      BY Zenon DEF FilesNext, filesvars, configvars
    <2> QED
      BY <2>1, NextSettings
  <1>3. SettingsInv => SettingsAccounted
    BY SettingsInvGives
  <1> QED
    BY <1>1, <1>2, <1>3, PTL DEF FilesSpec, filesvars
------------------------------------------------------------------------------
(* Screenshots.  The invariant says whose each file is, and what of a      *)
(* capture's files is there at each point of publishing them and of taking *)
(* them back: the order of Files, pictures first, is what keeps a record's *)
(* picture there, and the draw's look into every directory is what keeps   *)
(* an id one capture's, because a capture that succeeded has a record in   *)
(* one of them.                                                            *)
AllScreens == {Screens[i] : i \in DOMAIN Screens}
ScreenLists == {<<>>, Screens, <<Head(Screens)>>}
AllDirs == {"state", "shots", "away"}
FileNames == [kind : {"png", "record"}, dir : AllDirs, screen : AllScreens,
              suffix : Tokens \cup {S!Blank}, second : Seconds \cup {S!Blank}]
ShotCalls == [host : S!Hosts, screens : ScreenLists, suffix : Tokens \cup {S!Blank},
              second : Seconds \cup {S!Blank}, published : Seq(FileNames), tries : Nat]
ShotSteps == {"idle", "render", "draw", "publish", "withdraw", "retry", "ok", "clean", "done", "error", "killed", "torn"}
ScreensOf(c) == {shooting[c].screens[i] : i \in DOMAIN shooting[c].screens}
Names(c) == {S!Files(c)[k] : k \in DOMAIN S!Files(c)}
Publishing == {"publish", "withdraw", "retry"}

(* The shape of the state: one file to a name.                             *)
ShotTypes ==
    /\ sstaging \subseteq Calls /\ half \subseteq Calls
    /\ at \in [Calls -> ShotSteps] /\ shooting \in [Calls -> ShotCalls]
    /\ aged \in [Calls -> 0..2] /\ met \in [Calls -> SUBSET Calls]
    /\ pictures \subseteq [path : FileNames, of : Calls]
    /\ \A f, g \in pictures : f.path = g.path => f = g

(* Where a call can be that has a staging directory, or that has aged.     *)
StagingOK ==
    \A c \in Calls :
        /\ c \in half => at[c] \in {"publish", "withdraw", "killed", "torn"}
        /\ c \in sstaging => at[c] \notin {"idle", "done", "error"}
        /\ aged[c] > 0 => at[c] \in {"done", "killed", "torn"}

(* A file on the disk is one of its capture's, and a capture that is       *)
(* publishing or taking back has noted it.                                 *)
FileOwned(f) ==
    /\ f.path \in Names(f.of)
    /\ at[f.of] \notin {"idle", "render", "draw", "clean", "error"}
    /\ at[f.of] \in Publishing =>
          \E i \in 1..Len(shooting[f.of].published) : shooting[f.of].published[i] = f.path

(* What a capture has noted is on the disk, and while it publishes they    *)
(* are the first of its files, in their order.                             *)
NotedOK(c) ==
    at[c] \in Publishing =>
        LET noted == shooting[c].published
        IN  /\ \A i, j \in 1..Len(noted) : noted[i] = noted[j] => i = j
            /\ \A i \in 1..Len(noted) : [path |-> noted[i], of |-> c] \in pictures
            /\ at[c] = "publish" => /\ Len(noted) <= Len(S!Files(c))
                                    /\ \A i \in 1..Len(noted) : noted[i] = S!Files(c)[i]

OwnersOK == (\A f \in pictures : FileOwned(f)) /\ (\A c \in Calls : NotedOK(c))

WholeOK(c) ==
    at[c] \in {"ok", "done"} /\ aged[c] = 0 =>
        \A k \in 1..Len(S!Files(c)) : [path |-> S!Files(c)[k], of |-> c] \in pictures

PictureOK(f) ==
    f.path.kind = "record" =>
        \/ [path |-> S!Png(f.of, f.path.screen), of |-> f.of] \in pictures
        \/ at[f.of] \in {"withdraw", "retry", "torn"}
        \/ aged[f.of] > 0

(* Two captures that drew one id for one monitor overlapped.               *)
Standing(c) == at[c] \in {"publish", "ok", "done"} /\ aged[c] = 0
MetOK(c, d) ==
    /\ c # d /\ Standing(c) /\ Standing(d) /\ shooting[c].suffix = shooting[d].suffix
    /\ ScreensOf(c) \cap ScreensOf(d) # {}
    => c \in met[d]

ShotInv ==
    /\ ShotTypes /\ StagingOK /\ OwnersOK
    /\ \A c \in Calls : WholeOK(c)
    /\ \A f \in pictures : PictureOK(f)
    /\ \A c, d \in Calls : MetOK(c, d)

(* How the records of n pictures in one directory, or two, are numbered.   *)
Numbered(n, m) ==
    /\ n + n * m \in Nat /\ n <= n + n * m
    /\ \A k \in 1..(n + n * m) : k > n =>
          /\ ((k - n - 1) % m) + 1 \in 1..m
          /\ ((k - n - 1) \div m) + 1 \in 1..n
    /\ \A j, k \in 1..(n + n * m) :
          /\ j > n /\ k > n /\ (j - n - 1) % m = (k - n - 1) % m /\ (j - n - 1) \div m = (k - n - 1) \div m
          => j = k
    /\ \A i \in 1..n, d \in 1..m : \E k \in 1..(n + n * m) :
          k > n /\ ((k - n - 1) % m) + 1 = d /\ ((k - n - 1) \div m) + 1 = i

(* The records after the n pictures, n times m of them, each stand for one *)
(* picture and one of the m directories.                                   *)
LEMMA RecordNumbers ==
  ASSUME NEW n \in Nat, NEW m \in {1, 2}
  PROVE  Numbered(n, m)
  <1> USE DEF Numbered
  <1>1. CASE m = 1
    <2>1. n + n * m = n + n
      BY <1>1
    <2>2. \A k \in 1..(n + n) : k > n => (k - n - 1) % 1 = 0 /\ (k - n - 1) \div 1 = k - n - 1
      OBVIOUS
    <2>3. \A i \in 1..n, d \in 1..1 : n + i \in 1..(n + n) /\ n + i > n /\ ((n + i - n - 1) % 1) + 1 = d
                                      /\ ((n + i - n - 1) \div 1) + 1 = i
      OBVIOUS
    <2> QED
      BY <1>1, <2>1, <2>2, <2>3
  <1>2. CASE m = 2
    <2>1. n + n * m = 3 * n
      BY <1>2
    <2>2. \A k \in 1..(3 * n) : k > n =>
               /\ ((k - n - 1) % 2) + 1 \in 1..2
               /\ ((k - n - 1) \div 2) + 1 \in 1..n
      OBVIOUS
    <2>3. \A j, k \in 1..(3 * n) :
               /\ j > n /\ k > n /\ (j - n - 1) % 2 = (k - n - 1) % 2 /\ (j - n - 1) \div 2 = (k - n - 1) \div 2
               => j = k
      OBVIOUS
    <2>4. ASSUME NEW i \in 1..n, NEW d \in 1..2
          PROVE  \E k \in 1..(3 * n) : k > n /\ ((k - n - 1) % 2) + 1 = d /\ ((k - n - 1) \div 2) + 1 = i
      <3> DEFINE k == n + 2 * i - 2 + d
      <3>1. k \in 1..(3 * n) /\ k > n /\ ((k - n - 1) % 2) + 1 = d /\ ((k - n - 1) \div 2) + 1 = i
        OBVIOUS
      <3> QED
        BY <3>1
    <2> QED
      BY <1>2, <2>1, <2>2, <2>3, <2>4
  <1> QED
    BY <1>1, <1>2

(* What is captured is a list of monitors without repetition.              *)
LEMMA ScreenListFacts ==
  ASSUME S!ShotsAssumption, NEW sc \in ScreenLists
  PROVE  /\ Len(sc) \in Nat /\ DOMAIN sc = 1..Len(sc)
         /\ \A i \in 1..Len(sc) : sc[i] \in AllScreens
         /\ \A i, j \in 1..Len(sc) : sc[i] = sc[j] => i = j
  <1>1. /\ Screens \in Seq(AllScreens) /\ Screens # <<>>
        /\ \A i, j \in DOMAIN Screens : Screens[i] = Screens[j] => i = j
    BY DEF S!ShotsAssumption, AllScreens, S!ToSet, S!IsInjective
  <1>2. Len(Screens) \in Nat /\ DOMAIN Screens = 1..Len(Screens) /\ Len(Screens) > 0
    BY <1>1, EmptySeq, LenProperties
  <1>3. CASE sc = <<>>
    BY <1>3
  <1>4. CASE sc = Screens
    BY <1>1, <1>2, <1>4
  <1>5. CASE sc = <<Head(Screens)>>
    <2>1. Head(Screens) \in AllScreens
      BY <1>1, HeadTailProperties
    <2> QED
      BY <1>5, <2>1
  <1> QED
    BY <1>3, <1>4, <1>5 DEF ScreenLists

(* Whoever captures puts records where shot= looks, and an id is looked    *)
(* for there before it is drawn.                                           *)
LEMMA MetaDirFacts ==
  ASSUME NEW host \in S!Hosts
  PROVE  /\ Len(S!MetaDirs(host)) \in {1, 2} /\ DOMAIN S!MetaDirs(host) = 1..Len(S!MetaDirs(host))
         /\ \A j \in 1..Len(S!MetaDirs(host)) : S!MetaDirs(host)[j] \in AllDirs
         /\ \A i, j \in 1..Len(S!MetaDirs(host)) : S!MetaDirs(host)[i] = S!MetaDirs(host)[j] => i = j
         /\ \E j \in 1..Len(S!MetaDirs(host)) : S!MetaDirs(host)[j] \in {"state", "shots"}
         /\ S!OutDir(host) \in AllDirs
         /\ {"state", "shots"} \subseteq S!LookupDirs(host)
  <1>1. \/ host = "out" /\ S!MetaDirs(host) = <<"away", "shots">> /\ S!OutDir(host) = "away"
        \/ host = "server" /\ S!MetaDirs(host) = <<"state">> /\ S!OutDir(host) = "state"
        \/ host = "cli" /\ S!MetaDirs(host) = <<"shots">> /\ S!OutDir(host) = "shots"
    BY DEF S!MetaDirs, S!OutDir, S!Hosts
  <1>2. {"state", "shots"} \subseteq S!LookupDirs(host)
    <2>1. S!SearchDirs[1] = "state" /\ S!SearchDirs[2] = "shots" /\ DOMAIN S!SearchDirs = 1..2
      BY DEF S!SearchDirs
    <2> QED
      BY <2>1 DEF S!LookupDirs, S!ToSet
  <1> QED
    BY <1>1, <1>2 DEF AllDirs

(* The files of a capture (capture.py's list of pending files): all        *)
(* different, a record after its picture, and for each monitor a record    *)
(* that shot= finds.                                                       *)
LEMMA FilesFacts ==
  ASSUME S!ShotsAssumption, NEW c \in Calls, shooting[c] \in ShotCalls
  PROVE  /\ S!Files(c) \in Seq(FileNames) /\ Len(S!Files(c)) \in Nat /\ DOMAIN S!Files(c) = 1..Len(S!Files(c))
         /\ \A i, j \in 1..Len(S!Files(c)) : S!Files(c)[i] = S!Files(c)[j] => i = j
         /\ \A k \in 1..Len(S!Files(c)) :
               \/ \E s \in ScreensOf(c) : S!Files(c)[k] = S!Png(c, s)
               \/ \E s \in ScreensOf(c), d \in AllDirs : /\ S!Files(c)[k] = S!Record(c, d, s)
                                                         /\ \E j \in 1..(k - 1) : S!Files(c)[j] = S!Png(c, s)
         /\ \A s \in ScreensOf(c) : \E d \in {"state", "shots"} : S!Record(c, d, s) \in Names(c)
  <1> DEFINE sc == shooting[c].screens  host == shooting[c].host  dirs == S!MetaDirs(host)
             n == Len(sc)  m == Len(dirs)
             rec(k) == S!Record(c, dirs[((k - n - 1) % m) + 1], sc[((k - n - 1) \div m) + 1])
  <1>1. sc \in ScreenLists /\ host \in S!Hosts
    BY DEF ShotCalls
  <1>2. /\ n \in Nat /\ DOMAIN sc = 1..n /\ \A i \in 1..n : sc[i] \in AllScreens
        /\ \A i, j \in 1..n : sc[i] = sc[j] => i = j
    BY <1>1, ScreenListFacts
  <1>3. /\ m \in {1, 2} /\ DOMAIN dirs = 1..m /\ \A j \in 1..m : dirs[j] \in AllDirs
        /\ \A i, j \in 1..m : dirs[i] = dirs[j] => i = j
        /\ \E j \in 1..m : dirs[j] \in {"state", "shots"}
        /\ S!OutDir(host) \in AllDirs
    BY <1>1, MetaDirFacts
  <1>4. S!Files(c) = [k \in 1..(n + n * m) |-> IF k <= n THEN S!Png(c, sc[k]) ELSE rec(k)]
    BY DEF S!Files
  <1>5. /\ \A s \in AllScreens : S!Png(c, s) \in FileNames /\ S!Png(c, s).kind = "png" /\ S!Png(c, s).screen = s
        /\ \A s \in AllScreens, d \in AllDirs :
              /\ S!Record(c, d, s) \in FileNames /\ S!Record(c, d, s).kind = "record"
              /\ S!Record(c, d, s).screen = s /\ S!Record(c, d, s).dir = d
    BY <1>3 DEF S!Png, S!Record, FileNames, ShotCalls
  <1> HIDE DEF sc, host, dirs, n, m
  <1>6. /\ n + n * m \in Nat /\ n <= n + n * m
        /\ \A k \in 1..(n + n * m) : k > n =>
              /\ ((k - n - 1) % m) + 1 \in 1..m
              /\ ((k - n - 1) \div m) + 1 \in 1..n
        /\ \A j, k \in 1..(n + n * m) :
              /\ j > n /\ k > n /\ (j - n - 1) % m = (k - n - 1) % m /\ (j - n - 1) \div m = (k - n - 1) \div m
              => j = k
        /\ \A i \in 1..n, d \in 1..m : \E k \in 1..(n + n * m) :
              k > n /\ ((k - n - 1) % m) + 1 = d /\ ((k - n - 1) \div m) + 1 = i
    <2>1. Numbered(n, m)
      BY <1>2, <1>3, RecordNumbers
    <2> QED
      BY <2>1 DEF Numbered
  <1> DEFINE F == S!Files(c)  N == n + n * m  D(k) == ((k - n - 1) % m) + 1  I(k) == ((k - n - 1) \div m) + 1
  <1>7. /\ N \in Nat /\ n <= N
        /\ \A k \in 1..N : k > n => D(k) \in 1..m /\ I(k) \in 1..n
        /\ \A i \in 1..n, d \in 1..m : \E k \in 1..N : k > n /\ D(k) = d /\ I(k) = i
    BY <1>6
  <1>8. \A j, k \in 1..N : j > n /\ k > n /\ D(j) = D(k) /\ I(j) = I(k) => j = k
    <2> SUFFICES ASSUME NEW j \in 1..N, NEW k \in 1..N, j > n, k > n, D(j) = D(k), I(j) = I(k)
                 PROVE  j = k
      OBVIOUS
    <2>1. D(j) - 1 = (j - n - 1) % m /\ D(k) - 1 = (k - n - 1) % m
          /\ I(j) - 1 = (j - n - 1) \div m /\ I(k) - 1 = (k - n - 1) \div m
      BY <1>2, <1>3
    <2> QED
      BY <1>6, <2>1
  <1>9. /\ DOMAIN F = 1..N
        /\ \A k \in 1..N : k <= n => F[k] = S!Png(c, sc[k]) /\ sc[k] \in AllScreens
        /\ \A k \in 1..N : k > n => F[k] = S!Record(c, dirs[D(k)], sc[I(k)])
                                    /\ dirs[D(k)] \in AllDirs /\ sc[I(k)] \in AllScreens
    BY <1>2, <1>3, <1>4, <1>7
  <1> HIDE DEF N, D, I, F
  <1>10. \A k \in 1..N : k <= n \/ k > n
    BY <1>2, <1>7
  <1>11. \A k \in 1..N : F[k] \in FileNames
    BY <1>5, <1>9, <1>10
  <1>12. F \in Seq(FileNames) /\ Len(F) = N
    <2>1. F = [k \in 1..N |-> F[k]]
      BY <1>4, <1>9 DEF F
    <2>2. F \in [1..N -> FileNames]
      BY <1>11, <2>1
    <2> QED
      BY <1>7, <2>2, <1>9, LenProperties
  <1>13. ASSUME NEW i \in 1..N, NEW j \in 1..N, F[i] = F[j]
         PROVE  i = j
    <2>1. CASE i <= n /\ j <= n
      <3>1. sc[i] = sc[j]
        BY <1>5, <1>9, <1>13, <2>1
      <3> QED
        BY <1>2, <2>1, <3>1
    <2>2. CASE i > n /\ j > n
      <3>1. dirs[D(i)] = dirs[D(j)] /\ sc[I(i)] = sc[I(j)]
        BY <1>5, <1>9, <1>13, <2>2
      <3>2. D(i) = D(j) /\ I(i) = I(j)
        BY <1>2, <1>3, <1>7, <2>2, <3>1
      <3> QED
        BY <1>8, <2>2, <3>2
    <2>3. CASE (i <= n /\ j > n) \/ (i > n /\ j <= n)
      <3>1. F[i].kind # F[j].kind
        BY <1>5, <1>9, <2>3
      <3> QED
        BY <1>13, <3>1
    <2> QED
      BY <1>10, <2>1, <2>2, <2>3
  <1>14. ASSUME NEW k \in 1..N
         PROVE  \/ \E s \in ScreensOf(c) : F[k] = S!Png(c, s)
                \/ \E s \in ScreensOf(c), d \in AllDirs : /\ F[k] = S!Record(c, d, s)
                                                          /\ \E j \in 1..(k - 1) : F[j] = S!Png(c, s)
    <2>0. \A i \in 1..n : sc[i] \in ScreensOf(c)
      BY <1>2 DEF ScreensOf, sc
    <2>1. CASE k <= n
      BY <1>2, <1>9, <2>0, <2>1
    <2>2. CASE k > n
      <3>1. I(k) \in 1..n /\ I(k) \in 1..N /\ I(k) <= n /\ I(k) \in 1..(k - 1)
        BY <1>2, <1>7, <2>2
      <3>2. F[I(k)] = S!Png(c, sc[I(k)])
        BY <1>9, <3>1
      <3> QED
        BY <1>9, <2>0, <2>2, <3>1, <3>2
    <2> QED
      BY <1>10, <2>1, <2>2
  <1>15. ASSUME NEW s \in ScreensOf(c)
         PROVE  \E d \in {"state", "shots"} : S!Record(c, d, s) \in Names(c)
    <2>1. PICK i \in 1..n : s = sc[i]
      BY <1>2 DEF ScreensOf, sc
    <2>2. PICK j \in 1..m : dirs[j] \in {"state", "shots"}
      BY <1>3
    <2>3. PICK k \in 1..N : k > n /\ D(k) = j /\ I(k) = i
      BY <1>7
    <2>4. F[k] = S!Record(c, dirs[j], s) /\ k \in DOMAIN F
      BY <1>9, <2>1, <2>3
    <2> QED
      BY <2>2, <2>4 DEF Names, F
  <1> QED
    BY <1>7, <1>9, <1>12, <1>13, <1>14, <1>15 DEF F

(* All but the last element of a sequence.                                 *)
LEMMA FrontFacts ==
  ASSUME NEW T, NEW q \in Seq(T), q # <<>>
  PROVE  /\ Len(q) \in Nat \ {0} /\ S!Last(q) = q[Len(q)]
         /\ S!Front(q) \in Seq(T) /\ Len(S!Front(q)) = Len(q) - 1
         /\ \A k \in 1..(Len(q) - 1) : S!Front(q)[k] = q[k]
  <1>1. Len(q) \in Nat /\ Len(q) # 0 /\ DOMAIN q = 1..Len(q)
    BY EmptySeq, LenProperties
  <1>2. \A k \in 1..(Len(q) - 1) : k \in 1..Len(q) /\ q[k] \in T
    BY <1>1
  <1>3. S!Front(q) = [k \in 1..(Len(q) - 1) |-> q[k]]
    BY <1>1 DEF S!Front
  <1>4. Len(q) - 1 \in Nat
    BY <1>1
  <1>5. S!Front(q) \in Seq(T)
    BY <1>2, <1>3, <1>4
  <1> QED
    BY <1>1, <1>3, <1>4, <1>5 DEF S!Last

(* The steps of one capture.                                               *)
LEMMA ShotActions ==
  ASSUME NEW c \in Calls, S!Step(c)
  PROVE  S!Begin(c) \/ S!Render(c) \/ S!Draw(c) \/ S!Publish(c) \/ S!Copy(c) \/ S!Published(c) \/ S!Withdraw(c)
         \/ S!Clean(c) \/ S!Kill(c) \/ S!Ages(c)
  BY DEF S!Step

(* A capture's step leaves the other captures where they are.              *)
LEMMA OthersAlone ==
  ASSUME ShotTypes, NEW c \in Calls, S!Step(c), NEW d \in Calls, d # c
  PROVE  at'[d] = at[d] /\ shooting'[d] = shooting[d] /\ aged'[d] = aged[d]
  <1> USE DEF ShotTypes, S!Goes
  <1>1. CASE S!Begin(c)
    BY <1>1 DEF S!Begin
  <1>2. CASE S!Render(c)
    BY <1>2 DEF S!Render
  <1>3. CASE S!Draw(c)
    BY <1>3 DEF S!Draw
  <1>4. CASE S!Publish(c)
    BY <1>4 DEF S!Publish
  <1>5. CASE S!Published(c)
    BY <1>5 DEF S!Published
  <1>10. CASE S!Copy(c)
    BY <1>10 DEF S!Copy
  <1>6. CASE S!Withdraw(c)
    BY <1>6 DEF S!Withdraw
  <1>7. CASE S!Clean(c)
    BY <1>7 DEF S!Clean
  <1>8. CASE S!Kill(c)
    BY <1>8 DEF S!Kill
  <1>9. CASE S!Ages(c)
    BY <1>9 DEF S!Ages
  <1> QED
    BY ShotActions, <1>1, <1>2, <1>3, <1>4, <1>5, <1>6, <1>7, <1>8, <1>9, <1>10

(* What a capture asks for, and the id it drew.                            *)
SameShot(d) ==
    /\ shooting'[d].host = shooting[d].host /\ shooting'[d].screens = shooting[d].screens
    /\ shooting'[d].suffix = shooting[d].suffix /\ shooting'[d].second = shooting[d].second

SameNames(d) ==
    /\ S!Files(d)' = S!Files(d) /\ Names(d)' = Names(d) /\ ScreensOf(d)' = ScreensOf(d)
    /\ \A s : S!Png(d, s)' = S!Png(d, s)
    /\ \A dir, s : S!Record(d, dir, s)' = S!Record(d, dir, s)

(* The names of a capture's files follow from what it asks for and the id  *)
(* it drew.                                                                *)
LEMMA NamesFollow ==
  ASSUME NEW d \in Calls, SameShot(d)
  PROVE  SameNames(d)
  <1>1. \A s : S!Png(d, s)' = S!Png(d, s)
    BY DEF S!Png, SameShot
  <1>2. \A dir, s : S!Record(d, dir, s)' = S!Record(d, dir, s)
    BY DEF S!Record, SameShot
  <1>3. S!Files(d)' = S!Files(d)
    BY DEF S!Files, S!Png, S!Record, SameShot
  <1> QED
    BY <1>1, <1>2, <1>3 DEF SameNames, Names, ScreensOf, SameShot

(* Only the beginning and the draw change what names a capture's files.    *)
LEMMA ShotKept ==
  ASSUME ShotTypes, NEW c \in Calls, S!Step(c), NEW d \in Calls, d # c \/ at[c] \notin {"idle", "draw"}
  PROVE  SameShot(d)
  <1>0. CASE d # c
    BY <1>0, OthersAlone DEF SameShot
  <1> SUFFICES ASSUME d = c, at[c] \notin {"idle", "draw"}
               PROVE  SameShot(c)
    BY <1>0
  <1>a. shooting[c] \in ShotCalls
    BY DEF ShotTypes
  <1> USE DEF ShotTypes, ShotCalls, SameShot
  <1>1. CASE S!Begin(c)
    BY <1>1 DEF S!Begin
  <1>2. CASE S!Render(c)
    BY <1>2 DEF S!Render
  <1>3. CASE S!Draw(c)
    BY <1>3 DEF S!Draw
  <1>4. CASE S!Publish(c)
    BY <1>4, <1>a DEF S!Publish
  <1>5. CASE S!Published(c)
    BY <1>5 DEF S!Published
  <1>10. CASE S!Copy(c)
    BY <1>10 DEF S!Copy
  <1>6. CASE S!Withdraw(c)
    BY <1>6, <1>a DEF S!Withdraw
  <1>7. CASE S!Clean(c)
    BY <1>7, <1>a DEF S!Clean
  <1>8. CASE S!Kill(c)
    BY <1>8 DEF S!Kill
  <1>9. CASE S!Ages(c)
    BY <1>9 DEF S!Ages
  <1> QED
    BY ShotActions, <1>1, <1>2, <1>3, <1>4, <1>5, <1>6, <1>7, <1>8, <1>9, <1>10

(* A capture's record with one more field set is one still.                *)
LEMMA CallFields ==
  ASSUME NEW r \in ShotCalls
  PROVE  /\ \A n \in Nat : [r EXCEPT !.tries = n] \in ShotCalls
         /\ \A x \in Tokens : [r EXCEPT !.suffix = x] \in ShotCalls
         /\ \A x \in Seconds : [r EXCEPT !.second = x] \in ShotCalls
         /\ \A x \in Seq(FileNames) : [r EXCEPT !.published = x] \in ShotCalls
  <1> USE DEF ShotCalls
  <1>1. ASSUME NEW n \in Nat PROVE [r EXCEPT !.tries = n] \in ShotCalls
    OBVIOUS
  <1>2. ASSUME NEW x \in Tokens PROVE [r EXCEPT !.suffix = x] \in ShotCalls
    OBVIOUS
  <1>3. ASSUME NEW x \in Seconds PROVE [r EXCEPT !.second = x] \in ShotCalls
    OBVIOUS
  <1>4. ASSUME NEW x \in Seq(FileNames) PROVE [r EXCEPT !.published = x] \in ShotCalls
    OBVIOUS
  <1> QED
    BY <1>1, <1>2, <1>3, <1>4

(* The shape of the state is kept by every step of a capture.              *)
LEMMA ShotTypesStay ==
  ASSUME S!ShotsAssumption, ShotTypes, OwnersOK, NEW c \in Calls, S!Step(c)
  PROVE  ShotTypes'
  <1> DEFINE shot == shooting[c]
  <1>a. shot \in ShotCalls /\ DOMAIN shooting = Calls /\ DOMAIN at = Calls
    BY DEF ShotTypes
  <1>b. /\ shot.published \in Seq(FileNames) /\ shot.tries \in Nat /\ DOMAIN shot = {"host", "screens", "suffix", "second", "published", "tries"}
        /\ Len(shot.published) \in Nat
    BY <1>a, LenProperties DEF ShotCalls
  <1>c. <<>> \in Seq(FileNames)
    BY EmptySeq
  <1>1. CASE S!Begin(c)
    <2>1. PICK host \in S!Hosts, screens \in {Screens, <<Head(Screens)>>} :
             shooting' = [shooting EXCEPT ![c] = [S!Fresh EXCEPT !.host = host, !.screens = screens]]
      BY <1>1 DEF S!Begin
    <2>2. [S!Fresh EXCEPT !.host = host, !.screens = screens] \in ShotCalls
      BY <1>c DEF S!Fresh, ShotCalls, ScreenLists
    <2>3. shooting' \in [Calls -> ShotCalls]
      BY <2>1, <2>2, <1>a DEF ShotTypes
    <2> QED
      BY <1>1, <2>3 DEF S!Begin, S!Goes, ShotTypes, ShotSteps
  <1>2. CASE S!Render(c)
    BY <1>2 DEF S!Render, S!Goes, ShotTypes, ShotSteps
  <1>3. CASE S!Draw(c)
    <2>1. shooting' \in [Calls -> ShotCalls]
      <3>1. shot.tries + 1 \in Nat
        BY <1>b
      <3>2. [shot EXCEPT !.tries = shot.tries + 1] \in ShotCalls
        BY <1>a, <3>1, CallFields
      <3>3. ASSUME NEW suffix \in Tokens, NEW second \in Seconds
            PROVE  [shot EXCEPT !.tries = shot.tries + 1, !.suffix = suffix, !.second = second, !.published = <<>>] \in ShotCalls
        <4>1. [shot EXCEPT !.tries = shot.tries + 1, !.suffix = suffix] \in ShotCalls
          BY <3>2, CallFields
        <4>2. [shot EXCEPT !.tries = shot.tries + 1, !.suffix = suffix, !.second = second] \in ShotCalls
          BY <4>1, CallFields
        <4> QED
          BY <4>2, <1>c, CallFields
      <3>4. \/ shooting' = shooting
            \/ shooting' = [shooting EXCEPT ![c] = [shot EXCEPT !.tries = shot.tries + 1]]
            \/ \E suffix \in Tokens, second \in Seconds :
                  shooting' = [shooting EXCEPT ![c] = [shot EXCEPT !.tries = shot.tries + 1, !.suffix = suffix, !.second = second,
                                                                   !.published = <<>>]]
        BY <1>3, <1>a DEF S!Draw
      <3> HIDE DEF shot
      <3> QED
        <4>1. \A r \in ShotCalls : [shooting EXCEPT ![c] = r] \in [Calls -> ShotCalls]
          BY DEF ShotTypes
        <4>2. shooting \in [Calls -> ShotCalls]
          BY DEF ShotTypes
        <4> QED
          BY <3>2, <3>3, <3>4, <4>1, <4>2
    <2>2. at' \in [Calls -> ShotSteps]
      <3>1. at' = at \/ S!Goes(c, "clean") \/ S!Goes(c, "publish")
        BY <1>3 DEF S!Draw
      <3> QED
        BY <3>1 DEF S!Goes, ShotTypes, ShotSteps
    <2>3. met' \in [Calls -> SUBSET Calls]
      <3>1. \/ met' = met
            \/ met' = [d \in Calls |-> IF d = c THEN met[c] \cup S!Active
                                       ELSE IF d \in S!Active THEN met[d] \cup {c} ELSE met[d]]
        BY <1>3 DEF S!Draw
      <3>2. met \in [Calls -> SUBSET Calls] /\ S!Active \subseteq Calls
        BY DEF ShotTypes, S!Active
      <3> QED
        BY <3>1, <3>2
    <2> QED
      BY <1>3, <2>1, <2>2, <2>3 DEF S!Draw, ShotTypes
  <1>4. CASE S!Publish(c)
    <2> DEFINE p == S!Files(c)[Len(shot.published) + 1]
    <2>1. p \in FileNames
      <3>1. Len(shot.published) + 1 \in 1..Len(S!Files(c))
        BY <1>4, <1>a, <1>b, FilesFacts DEF S!Publish
      <3> QED
        BY <1>a, <3>1, FilesFacts
    <2> HIDE DEF p
    <2>2. [shot EXCEPT !.published = Append(@, p)] \in ShotCalls
      <3>1. Append(shot.published, p) \in Seq(FileNames)
        BY <1>b, <2>1, AppendProperties
      <3> QED
        BY <1>a, <3>1, CallFields
    <2>3. shooting' \in [Calls -> ShotCalls]
      BY <1>4, <1>a, <2>2 DEF S!Publish, ShotTypes, p
    <2>4. at' \in [Calls -> ShotSteps]
      BY <1>4 DEF S!Publish, S!Goes, ShotTypes, ShotSteps
    <2>5. \/ pictures' = pictures
          \/ pictures' = pictures \cup {[path |-> p, of |-> c]} /\ ~S!Taken(p)
      BY <1>4 DEF S!Publish, p
    <2>6. /\ pictures' \subseteq [path : FileNames, of : Calls]
          /\ \A f, g \in pictures' : f.path = g.path => f = g
      BY <2>1, <2>5 DEF ShotTypes, S!Taken
    <2> QED
      BY <1>4, <2>3, <2>4, <2>6 DEF S!Publish, ShotTypes
  <1>5. CASE S!Published(c)
    BY <1>5 DEF S!Published, S!Goes, ShotTypes, ShotSteps
  <1>10. CASE S!Copy(c)
    BY <1>10 DEF S!Copy, S!Goes, ShotTypes, ShotSteps
  <1>6. CASE S!Withdraw(c)
    <2>1. CASE shot.published = <<>>
      BY <1>6, <2>1 DEF S!Withdraw, S!Goes, ShotTypes, ShotSteps
    <2>2. CASE shot.published # <<>>
      <3>1. Tail(shot.published) \in Seq(FileNames) /\ S!Front(shot.published) \in Seq(FileNames)
        BY <1>b, <2>2, HeadTailProperties, FrontFacts
      <3> DEFINE rest == IF c \in half THEN S!Front(shot.published) ELSE Tail(shot.published)
      <3>2. [shot EXCEPT !.published = rest] \in ShotCalls
        BY <1>a, <1>b, <3>1 DEF ShotCalls
      <3>3. shooting' \in [Calls -> ShotCalls]
        BY <1>6, <1>a, <2>2, <3>2 DEF S!Withdraw, ShotTypes
      <3> QED
        BY <1>6, <2>2, <3>3 DEF S!Withdraw, ShotTypes
    <2> QED
      BY <2>1, <2>2
  <1>7. CASE S!Clean(c)
    <2>1. [shot EXCEPT !.published = <<>>, !.tries = 0] \in ShotCalls
      BY <1>a, <1>b, <1>c DEF ShotCalls
    <2>2. shooting' \in [Calls -> ShotCalls]
      BY <1>7, <1>a, <2>1 DEF S!Clean, ShotTypes
    <2> QED
      BY <1>7, <2>2 DEF S!Clean, S!Goes, ShotTypes, ShotSteps
  <1>8. CASE S!Kill(c)
    BY <1>8 DEF S!Kill, S!Goes, ShotTypes, ShotSteps
  <1>9. CASE S!Ages(c)
    BY <1>9 DEF S!Ages, ShotTypes
  <1> QED
    BY ShotActions, <1>1, <1>2, <1>3, <1>4, <1>5, <1>6, <1>7, <1>8, <1>9, <1>10

(* A staging directory is there only while its capture runs or was killed. *)
LEMMA StagingStays ==
  ASSUME ShotTypes, StagingOK, NEW c \in Calls, S!Step(c)
  PROVE  StagingOK'
  <1> SUFFICES ASSUME NEW d \in Calls
               PROVE  /\ d \in half' => at'[d] \in {"publish", "withdraw", "killed", "torn"}
                      /\ d \in sstaging' => at'[d] \notin {"idle", "done", "error"}
                      /\ aged'[d] > 0 => at'[d] \in {"done", "killed", "torn"}
    BY DEF StagingOK
  <1> USE DEF StagingOK, ShotTypes, S!Goes
  <1>a. aged[d] \in 0..2
    OBVIOUS
  <1>1. CASE S!Begin(c)
    BY <1>1 DEF S!Begin
  <1>2. CASE S!Render(c)
    BY <1>2 DEF S!Render
  <1>3. CASE S!Draw(c)
    BY <1>3 DEF S!Draw
  <1>4. CASE S!Publish(c)
    BY <1>4 DEF S!Publish
  <1>5. CASE S!Published(c)
    BY <1>5 DEF S!Published
  <1>10. CASE S!Copy(c)
    BY <1>10 DEF S!Copy
  <1>6. CASE S!Withdraw(c)
    BY <1>6 DEF S!Withdraw
  <1>7. CASE S!Clean(c)
    BY <1>7 DEF S!Clean
  <1>8. CASE S!Kill(c)
    BY <1>8 DEF S!Kill, S!Dead
  <1>9. CASE S!Ages(c)
    BY <1>9 DEF S!Ages, S!Dead
  <1> QED
    BY ShotActions, <1>1, <1>2, <1>3, <1>4, <1>5, <1>6, <1>7, <1>8, <1>9, <1>10

(* What is drawn, if it is, is an id that is free in every directory.      *)
LEMMA Drawing ==
  ASSUME ShotTypes, NEW c \in Calls, S!Draw(c)
  PROVE  /\ at[c] = "draw" /\ pictures' = pictures /\ aged' = aged
         /\ \/ at'[c] \in {"draw", "clean"} /\ met' = met
            \/ /\ at'[c] = "publish" /\ shooting'[c].published = <<>>
               /\ shooting'[c].host = shooting[c].host /\ shooting'[c].screens = shooting[c].screens
               /\ ~S!Occupied(c, shooting'[c].suffix, shooting'[c].second)
               /\ met' = [d \in Calls |-> IF d = c THEN met[c] \cup S!Active
                                          ELSE IF d \in S!Active THEN met[d] \cup {c} ELSE met[d]]
  <1> DEFINE shot == shooting[c]
  <1>1. shot \in ShotCalls /\ DOMAIN shooting = Calls /\ DOMAIN at = Calls
    BY DEF ShotTypes
  <1>2. at[c] = "draw" /\ pictures' = pictures /\ aged' = aged
    BY DEF S!Draw
  <1>3. CASE shooting[c].tries = PUBLISH_ATTEMPTS
    BY <1>1, <1>2, <1>3 DEF S!Draw, S!Goes
  <1>4. CASE shooting[c].tries # PUBLISH_ATTEMPTS
    <2>1. PICK suffix \in Tokens, second \in Seconds :
             IF S!Occupied(c, suffix, second)
             THEN UNCHANGED <<at, met>>
             ELSE /\ shooting' = [shooting EXCEPT ![c] = [shot EXCEPT !.tries = shot.tries + 1, !.suffix = suffix,
                                                                     !.second = second, !.published = <<>>]]
                  /\ S!Goes(c, "publish")
                  /\ met' = [d \in Calls |-> IF d = c THEN met[c] \cup S!Active
                                             ELSE IF d \in S!Active THEN met[d] \cup {c} ELSE met[d]]
      BY <1>4 DEF S!Draw
    <2>2. CASE S!Occupied(c, suffix, second)
      BY <1>2, <2>1, <2>2
    <2>3. CASE ~S!Occupied(c, suffix, second)
      <3>1. shooting'[c] = [shot EXCEPT !.tries = shot.tries + 1, !.suffix = suffix, !.second = second, !.published = <<>>]
        BY <1>1, <2>1, <2>3
      <3>2. /\ shooting'[c].published = <<>> /\ shooting'[c].host = shot.host /\ shooting'[c].screens = shot.screens
            /\ shooting'[c].suffix = suffix /\ shooting'[c].second = second
        BY <1>1, <3>1 DEF ShotCalls
      <3>3. at'[c] = "publish"
        BY <1>1, <2>1, <2>3 DEF S!Goes
      <3> QED
        BY <1>2, <2>1, <2>3, <3>2, <3>3
    <2> QED
      BY <2>2, <2>3
  <1> QED
    BY <1>3, <1>4

(* What a capture has noted as published is a sequence of names.           *)
LEMMA NotedFacts ==
  ASSUME ShotTypes, NEW c \in Calls
  PROVE  /\ shooting[c] \in ShotCalls /\ DOMAIN shooting = Calls /\ DOMAIN at = Calls
         /\ shooting[c].published \in Seq(FileNames) /\ Len(shooting[c].published) \in Nat
         /\ \A i \in 1..Len(shooting[c].published) : shooting[c].published[i] \in FileNames
  <1>1. shooting[c] \in ShotCalls /\ DOMAIN shooting = Calls /\ DOMAIN at = Calls
    BY DEF ShotTypes
  <1>2. shooting[c].published \in Seq(FileNames)
    BY <1>1 DEF ShotCalls
  <1> QED
    BY <1>1, <1>2, LenProperties

(* Publishing a file adds it, and notes it, or does neither.               *)
LEMMA PublishGives ==
  ASSUME S!ShotsAssumption, ShotTypes, NEW c \in Calls, S!Publish(c)
  PROVE  LET noted == shooting[c].published
             p == S!Files(c)[Len(noted) + 1]
         IN  /\ at[c] = "publish" /\ Len(noted) + 1 \in 1..Len(S!Files(c)) /\ p \in Names(c)
             /\ \/ /\ at'[c] = "publish" /\ pictures' = pictures \cup {[path |-> p, of |-> c]}
                   /\ \A f \in pictures : f.path # p
                   /\ Len(shooting'[c].published) = Len(noted) + 1
                   /\ shooting'[c].published[Len(noted) + 1] = p
                   /\ \A i \in 1..Len(noted) : shooting'[c].published[i] = noted[i]
                \/ at'[c] \in {"retry", "withdraw"} /\ pictures' = pictures /\ shooting' = shooting
  <1> DEFINE noted == shooting[c].published  p == S!Files(c)[Len(noted) + 1]
  <1>1. /\ shooting[c] \in ShotCalls /\ DOMAIN shooting = Calls /\ DOMAIN at = Calls
        /\ noted \in Seq(FileNames) /\ Len(noted) \in Nat
    BY NotedFacts
  <1>2. /\ DOMAIN S!Files(c) = 1..Len(S!Files(c)) /\ Len(S!Files(c)) \in Nat
        /\ \A k \in 1..Len(S!Files(c)) : S!Files(c)[k] \in FileNames
    BY <1>1, FilesFacts
  <1>3. at[c] = "publish" /\ Len(noted) + 1 \in 1..Len(S!Files(c))
    BY <1>1, <1>2 DEF S!Publish
  <1>4. p \in Names(c) /\ p \in FileNames
    BY <1>2, <1>3 DEF Names
  <1>5. \/ /\ ~S!Taken(p) /\ pictures' = pictures \cup {[path |-> p, of |-> c]} /\ at' = at
           /\ shooting' = [shooting EXCEPT ![c].published = Append(@, p)]
        \/ (S!Goes(c, "retry") \/ S!Goes(c, "withdraw")) /\ pictures' = pictures /\ shooting' = shooting
    BY DEF S!Publish
  <1>6. CASE /\ ~S!Taken(p) /\ pictures' = pictures \cup {[path |-> p, of |-> c]} /\ at' = at
             /\ shooting' = [shooting EXCEPT ![c].published = Append(@, p)]
    <2>1. shooting'[c].published = Append(noted, p)
      BY <1>1, <1>6 DEF ShotCalls
    <2>2. /\ Len(Append(noted, p)) = Len(noted) + 1 /\ Append(noted, p)[Len(noted) + 1] = p
          /\ \A i \in 1..Len(noted) : Append(noted, p)[i] = noted[i]
      BY <1>1, <1>4, AppendProperties
    <2>3. \A f \in pictures : f.path # p
      BY <1>6 DEF S!Taken
    <2> QED
      BY <1>3, <1>4, <1>6, <2>1, <2>2, <2>3
  <1>7. CASE (S!Goes(c, "retry") \/ S!Goes(c, "withdraw")) /\ pictures' = pictures /\ shooting' = shooting
    BY <1>1, <1>3, <1>4, <1>7 DEF S!Goes
  <1> QED
    BY <1>5, <1>6, <1>7

(* Without the k-th element: the places of the others.                     *)
Skip(k, i) == IF i < k THEN i ELSE i + 1

(* Taking back removes one of the files that are noted, and its note.      *)
LEMMA WithdrawGives ==
  ASSUME ShotTypes, NEW c \in Calls, S!Withdraw(c)
  PROVE  LET noted == shooting[c].published
         IN  /\ at[c] \in {"withdraw", "retry"}
             /\ \/ Len(noted) = 0 /\ at'[c] \in {"draw", "clean"} /\ pictures' = pictures
                \/ /\ Len(noted) > 0 /\ at'[c] = at[c]
                   /\ Len(shooting'[c].published) = Len(noted) - 1
                   /\ \E k \in 1..Len(noted) :
                         /\ pictures' = {f \in pictures : f.path # noted[k]}
                         /\ \A i \in 1..(Len(noted) - 1) : shooting'[c].published[i] = noted[Skip(k, i)]
  <1> DEFINE noted == shooting[c].published
  <1>1. /\ shooting[c] \in ShotCalls /\ DOMAIN shooting = Calls /\ DOMAIN at = Calls
        /\ noted \in Seq(FileNames) /\ Len(noted) \in Nat
    BY NotedFacts
  <1>2. at[c] \in {"withdraw", "retry"}
    BY DEF S!Withdraw
  <1>3. CASE noted = <<>>
    <2>1. Len(noted) = 0
      BY <1>3
    <2> QED
      BY <1>1, <1>2, <1>3, <2>1 DEF S!Withdraw, S!Goes
  <1>4. CASE noted # <<>>
    <2>1. Len(noted) > 0
      BY <1>1, <1>4, EmptySeq
    <2>2. /\ Head(noted) = noted[1] /\ Len(Tail(noted)) = Len(noted) - 1
          /\ \A i \in 1..(Len(noted) - 1) : Tail(noted)[i] = noted[Skip(1, i)]
      <3>1. /\ Head(noted) = noted[1] /\ Len(Tail(noted)) = Len(noted) - 1
            /\ \A i \in 1..(Len(noted) - 1) : Tail(noted)[i] = noted[i + 1]
        BY <1>1, <1>4, <2>1, HeadTailProperties
      <3>2. \A i \in 1..(Len(noted) - 1) : Skip(1, i) = i + 1
        BY <1>1 DEF Skip
      <3> QED
        BY <3>1, <3>2
    <2>3. /\ S!Last(noted) = noted[Len(noted)] /\ Len(S!Front(noted)) = Len(noted) - 1
          /\ \A i \in 1..(Len(noted) - 1) : S!Front(noted)[i] = noted[Skip(Len(noted), i)]
      <3>1. \A i \in 1..(Len(noted) - 1) : Skip(Len(noted), i) = i
        BY <1>1 DEF Skip
      <3> QED
        BY <1>1, <1>4, <3>1, FrontFacts
    <2>4. /\ pictures' = {f \in pictures : f.path # IF c \in half THEN S!Last(noted) ELSE Head(noted)}
          /\ at' = at
          /\ shooting' = [shooting EXCEPT ![c].published = IF c \in half THEN S!Front(noted) ELSE Tail(noted)]
      BY <1>1, <1>4 DEF S!Withdraw
    <2>5. shooting'[c].published = IF c \in half THEN S!Front(noted) ELSE Tail(noted)
      BY <1>1, <2>4 DEF ShotCalls
    <2>6. 1 \in 1..Len(noted) /\ Len(noted) \in 1..Len(noted)
      BY <1>1, <2>1
    <2> HIDE DEF noted
    <2>7. CASE c \in half
      BY <1>2, <2>1, <2>3, <2>4, <2>5, <2>6, <2>7 DEF noted
    <2>8. CASE c \notin half
      BY <1>2, <2>1, <2>2, <2>4, <2>5, <2>6, <2>8 DEF noted
    <2> QED
      BY <2>7, <2>8
  <1> QED
    BY <1>3, <1>4

(* The other steps of a call leave the disk alone.                         *)
LEMMA DiskStays ==
  ASSUME NEW c \in Calls, S!Step(c), ~S!Publish(c), ~S!Withdraw(c)
  PROVE  pictures' = pictures
  BY ShotActions DEF S!Begin, S!Render, S!Draw, S!Copy, S!Published, S!Clean, S!Kill, S!Ages

(* A call adds files of its own alone, and takes back nothing else.        *)
LEMMA DiskMoves ==
  ASSUME S!ShotsAssumption, ShotTypes, OwnersOK, NEW c \in Calls, S!Step(c)
  PROVE  /\ \A f \in pictures : f \in pictures' \/ (f.of = c /\ at[c] \in {"withdraw", "retry"})
         /\ \A f \in pictures' : f \in pictures \/ f.of = c
  <1>1. CASE S!Publish(c)
    BY <1>1, PublishGives
  <1>2. CASE S!Withdraw(c)
    <2> DEFINE noted == shooting[c].published
    <2>1. CASE Len(noted) = 0
      BY <1>2, <2>1, WithdrawGives
    <2>2. CASE Len(noted) > 0
      <3>0. at[c] \in {"withdraw", "retry"}
        BY <1>2, WithdrawGives
      <3>1. PICK k \in 1..Len(noted) : pictures' = {f \in pictures : f.path # noted[k]}
        <4>1. Len(noted) # 0
          BY <2>2
        <4> QED
          BY <1>2, <4>1, WithdrawGives, Zenon
      <3>2. [path |-> noted[k], of |-> c] \in pictures
        BY <3>0 DEF OwnersOK, NotedOK, Publishing
      <3>3. ASSUME NEW f \in pictures, f.path = noted[k]
            PROVE  f.of = c
        <4>1. f = [path |-> noted[k], of |-> c]
          BY <3>2, <3>3 DEF ShotTypes
        <4> QED
          BY <4>1
      <3> QED
        BY <3>0, <3>1, <3>3
    <2> QED
      BY <2>1, <2>2, NotedFacts
  <1> QED
    BY <1>1, <1>2, DiskStays

(* A file keeps being one of its capture's.                                *)
LEMMA FileOwnedStays ==
  ASSUME S!ShotsAssumption, ShotTypes, OwnersOK, NEW c \in Calls, S!Step(c), NEW f \in pictures'
  PROVE  FileOwned(f)'
  <1> DEFINE d == f.of  noted == shooting[c].published
  <1>1. CASE d # c
    <2>1. f \in pictures /\ d \in Calls /\ FileOwned(f)
      BY <1>1, DiskMoves DEF ShotTypes, OwnersOK
    <2>2. at'[d] = at[d] /\ shooting'[d] = shooting[d] /\ SameNames(d)
      BY <1>1, <2>1, OthersAlone, ShotKept, NamesFollow
    <2> QED
      BY <2>1, <2>2 DEF FileOwned, SameNames
  <1>2. CASE d = c /\ S!Publish(c)
    <2> DEFINE p == S!Files(c)[Len(noted) + 1]
    <2>1. SameNames(c) /\ p \in Names(c) /\ at'[c] \in {"publish", "retry", "withdraw"} /\ at[c] = "publish"
      BY <1>2, PublishGives, ShotKept, NamesFollow
    <2>2. f \in pictures \/ f = [path |-> p, of |-> c]
      BY <1>2, PublishGives
    <2>3. CASE f \in pictures
      <3>1. FileOwned(f)
        BY <2>3 DEF OwnersOK
      <3>2. PICK i \in 1..Len(noted) : noted[i] = f.path
        BY <1>2, <2>1, <3>1 DEF FileOwned, Publishing
      <3>3. i \in 1..Len(shooting'[c].published) /\ shooting'[c].published[i] = f.path
        BY <1>2, <3>2, PublishGives, NotedFacts
      <3> QED
        BY <1>2, <2>1, <3>1, <3>3 DEF FileOwned, SameNames
    <2>4. CASE f \notin pictures
      <3>1. f.path = p /\ pictures' # pictures
        BY <2>2, <2>4
      <3>2. Len(noted) + 1 \in 1..Len(shooting'[c].published) /\ shooting'[c].published[Len(noted) + 1] = p
        BY <1>2, <3>1, PublishGives, NotedFacts
      <3> QED
        BY <1>2, <2>1, <3>1, <3>2 DEF FileOwned, SameNames
    <2> QED
      BY <2>3, <2>4
  <1>3. CASE d = c /\ S!Withdraw(c)
    <2>1. SameNames(c) /\ at[c] \in {"withdraw", "retry"} /\ f \in pictures
      BY <1>3, WithdrawGives, ShotKept, NamesFollow
    <2>2. FileOwned(f)
      BY <2>1 DEF OwnersOK
    <2>3. PICK i \in 1..Len(noted) : noted[i] = f.path
      BY <1>3, <2>1, <2>2 DEF FileOwned, Publishing
    <2>4. Len(noted) \in Nat
      BY NotedFacts
    <2>5. /\ Len(noted) > 0 /\ at'[c] = at[c] /\ Len(shooting'[c].published) = Len(noted) - 1
          /\ \E k \in 1..Len(noted) :
                /\ pictures' = {g \in pictures : g.path # noted[k]}
                /\ \A j \in 1..(Len(noted) - 1) : shooting'[c].published[j] = noted[Skip(k, j)]
      <3>1. Len(noted) # 0
        BY <2>3, <2>4
      <3> QED
        BY <1>3, <3>1, WithdrawGives, Zenon
    <2>6. PICK k \in 1..Len(noted) :
             /\ pictures' = {g \in pictures : g.path # noted[k]}
             /\ \A j \in 1..(Len(noted) - 1) : shooting'[c].published[j] = noted[Skip(k, j)]
      BY <2>5
    <2>7. \E j \in 1..Len(shooting'[c].published) : shooting'[c].published[j] = f.path
      <3> DEFINE j == IF i < k THEN i ELSE i - 1
      <3>1. i # k
        BY <2>3, <2>6
      <3>2. j \in 1..(Len(noted) - 1) /\ Skip(k, j) = i
        BY <2>4, <3>1 DEF Skip
      <3> QED
        BY <2>3, <2>5, <2>6, <3>2
    <2> QED
      BY <1>3, <2>1, <2>2, <2>5, <2>7 DEF FileOwned, SameNames
  <1>4. CASE d = c /\ ~S!Publish(c) /\ ~S!Withdraw(c)
    <2>1. f \in pictures /\ FileOwned(f)
      BY <1>4, DiskStays DEF OwnersOK
    <2>2. /\ f.path \in Names(c) /\ at[c] \notin {"idle", "render", "draw", "clean", "error"}
          /\ at[c] \in Publishing => \E i \in 1..Len(noted) : noted[i] = f.path
      BY <1>4, <2>1 DEF FileOwned
    <2>3. SameNames(c)
      BY <2>2, ShotKept, NamesFollow
    <2>4. /\ at'[c] \notin {"idle", "render", "draw", "clean", "error"}
          /\ at'[c] \in Publishing => at[c] \in Publishing /\ shooting' = shooting
      <3> USE DEF S!Goes, Publishing
      <3>1. CASE S!Begin(c) \/ S!Render(c) \/ S!Draw(c)
        BY <2>2, <3>1 DEF S!Begin, S!Render, S!Draw
      <3>2. CASE S!Published(c)
        BY <3>2, NotedFacts DEF S!Published
      <3>6. CASE S!Copy(c)
        BY <3>6, NotedFacts DEF S!Copy
      <3>3. CASE S!Clean(c)
        BY <2>2, <3>3, NotedFacts DEF S!Clean
      <3>4. CASE S!Kill(c)
        BY <3>4, NotedFacts DEF S!Kill
      <3>5. CASE S!Ages(c)
        BY <2>2, <3>5 DEF S!Ages
      <3> QED
        BY <1>4, ShotActions, <3>1, <3>2, <3>3, <3>4, <3>5, <3>6
    <2> QED
      BY <1>4, <2>2, <2>3, <2>4 DEF FileOwned, SameNames
  <1> QED
    BY <1>1, <1>2, <1>3, <1>4

(* What is noted keeps being on the disk: nobody else takes it back, and   *)
(* the sweeps wait until the capture is done with.                         *)
LEMMA NotedStays ==
  ASSUME S!ShotsAssumption, ShotTypes, OwnersOK, NEW c \in Calls, S!Step(c), NEW d \in Calls
  PROVE  NotedOK(d)'
  <1> DEFINE noted == shooting[c].published
  <1>0. Len(noted) \in Nat /\ NotedOK(d)
    BY NotedFacts DEF OwnersOK
  <1>1. CASE d # c
    <2>1. at'[d] = at[d] /\ shooting'[d] = shooting[d] /\ SameNames(d)
      BY <1>1, OthersAlone, ShotKept, NamesFollow
    <2>2. \A x : [path |-> x, of |-> d] \in pictures => [path |-> x, of |-> d] \in pictures'
      BY <1>1, DiskMoves
    <2> QED
      BY <1>0, <2>1, <2>2 DEF NotedOK, SameNames
  <1>2. CASE d = c /\ S!Publish(c)
    <2> DEFINE p == S!Files(c)[Len(noted) + 1]
    <2>1. SameNames(c) /\ at[c] = "publish" /\ Len(noted) + 1 \in 1..Len(S!Files(c)) /\ Len(S!Files(c)) \in Nat
      BY <1>2, PublishGives, ShotKept, NamesFollow, NotedFacts, FilesFacts
    <2>2. /\ \A i, j \in 1..Len(noted) : noted[i] = noted[j] => i = j
          /\ \A i \in 1..Len(noted) : [path |-> noted[i], of |-> c] \in pictures
          /\ \A i \in 1..Len(noted) : noted[i] = S!Files(c)[i]
      BY <1>0, <1>2, <2>1 DEF NotedOK, Publishing
    <2>3. CASE at'[c] \in {"retry", "withdraw"} /\ pictures' = pictures /\ shooting' = shooting
      BY <1>2, <2>2, <2>3 DEF NotedOK
    <2>4. CASE /\ at'[c] = "publish" /\ pictures' = pictures \cup {[path |-> p, of |-> c]}
               /\ \A f \in pictures : f.path # p
               /\ Len(shooting'[c].published) = Len(noted) + 1
               /\ shooting'[c].published[Len(noted) + 1] = p
               /\ \A i \in 1..Len(noted) : shooting'[c].published[i] = noted[i]
      <3> DEFINE later == shooting'[c].published
      <3>1. \A i \in 1..Len(later) : i \in 1..Len(noted) \/ i = Len(noted) + 1
        BY <1>0, <2>4
      <3>2. \A i \in 1..Len(noted) : later[i] = noted[i] /\ noted[i] # p
        BY <2>2, <2>4
      <3>3. \A i, j \in 1..Len(later) : later[i] = later[j] => i = j
        BY <2>2, <2>4, <3>1, <3>2
      <3>4. \A i \in 1..Len(later) : [path |-> later[i], of |-> c] \in pictures'
        BY <2>2, <2>4, <3>1
      <3>5. Len(later) <= Len(S!Files(c)) /\ \A i \in 1..Len(later) : later[i] = S!Files(c)[i]
        BY <1>0, <2>1, <2>2, <2>4, <3>1
      <3> QED
        BY <1>2, <2>1, <3>3, <3>4, <3>5 DEF NotedOK, SameNames
    <2> QED
      BY <1>2, <2>3, <2>4, PublishGives
  <1>3. CASE d = c /\ S!Withdraw(c)
    <2>1. at[c] \in {"withdraw", "retry"}
      BY <1>3, WithdrawGives
    <2>2. /\ \A i, j \in 1..Len(noted) : noted[i] = noted[j] => i = j
          /\ \A i \in 1..Len(noted) : [path |-> noted[i], of |-> c] \in pictures
      BY <1>0, <1>3, <2>1 DEF NotedOK, Publishing
    <2>3. CASE Len(noted) = 0
      BY <1>3, <2>3, WithdrawGives DEF NotedOK, Publishing
    <2>4. CASE Len(noted) > 0
      <3> DEFINE later == shooting'[c].published
      <3>1. /\ at'[c] = at[c] /\ Len(later) = Len(noted) - 1
            /\ \E k \in 1..Len(noted) :
                  /\ pictures' = {f \in pictures : f.path # noted[k]}
                  /\ \A i \in 1..(Len(noted) - 1) : later[i] = noted[Skip(k, i)]
        <4>1. Len(noted) # 0
          BY <2>4
        <4> QED
          BY <1>3, <4>1, WithdrawGives, Zenon
      <3>2. PICK k \in 1..Len(noted) :
               /\ pictures' = {f \in pictures : f.path # noted[k]}
               /\ \A i \in 1..(Len(noted) - 1) : later[i] = noted[Skip(k, i)]
        BY <3>1
      <3>3. /\ \A i \in 1..Len(later) : Skip(k, i) \in 1..Len(noted) /\ later[i] = noted[Skip(k, i)] /\ Skip(k, i) # k
            /\ \A i, j \in 1..Len(later) : Skip(k, i) = Skip(k, j) => i = j
        BY <1>0, <3>1, <3>2 DEF Skip
      <3>4. ASSUME NEW i \in 1..Len(later), NEW j \in 1..Len(later), later[i] = later[j]
            PROVE  i = j
        <4>1. Skip(k, i) = Skip(k, j)
          BY <2>2, <3>3, <3>4
        <4> QED
          BY <3>3, <4>1
      <3>5. ASSUME NEW i \in 1..Len(later)
            PROVE  [path |-> later[i], of |-> c] \in pictures'
        <4>1. [path |-> later[i], of |-> c] \in pictures /\ later[i] # noted[k]
          BY <2>2, <3>3
        <4> QED
          BY <3>2, <4>1
      <3> QED
        BY <1>3, <2>1, <3>1, <3>4, <3>5 DEF NotedOK
    <2> QED
      BY <1>0, <2>3, <2>4
  <1>4. CASE d = c /\ S!Draw(c)
    BY <1>4, Drawing, FilesFacts, ShotTypesStay, NotedFacts DEF NotedOK, Publishing
  <1>5. CASE d = c /\ ~S!Publish(c) /\ ~S!Withdraw(c) /\ ~S!Draw(c)
    <2>1. pictures' = pictures /\ DOMAIN at = Calls
      BY <1>5, DiskStays, NotedFacts
    <2>2. at'[c] \in Publishing => at[c] = "publish" /\ shooting' = shooting /\ SameNames(c)
      <3> USE DEF S!Goes, Publishing
      <3>1. CASE S!Begin(c)
        BY <2>1, <3>1 DEF S!Begin
      <3>2. CASE S!Render(c)
        BY <2>1, <3>2 DEF S!Render
      <3>3. CASE S!Published(c)
        BY <2>1, <3>3, ShotKept, NamesFollow DEF S!Published
      <3>7. CASE S!Copy(c)
        BY <2>1, <3>7, ShotKept, NamesFollow DEF S!Copy
      <3>4. CASE S!Clean(c)
        BY <2>1, <3>4 DEF S!Clean
      <3>5. CASE S!Kill(c)
        BY <2>1, <3>5 DEF S!Kill
      <3>6. CASE S!Ages(c)
        BY <3>6 DEF S!Ages, S!Dead
      <3> QED
        BY <1>5, ShotActions, <3>1, <3>2, <3>3, <3>4, <3>5, <3>6, <3>7
    <2>3. CASE at'[c] \in Publishing
      BY <1>0, <1>5, <2>1, <2>2, <2>3 DEF NotedOK, Publishing, SameNames
    <2> QED
      BY <1>5, <2>3 DEF NotedOK
  <1> QED
    BY <1>1, <1>2, <1>3, <1>4, <1>5

(* So the two agree about every file.                                      *)
LEMMA OwnersStay ==
  ASSUME S!ShotsAssumption, ShotTypes, OwnersOK, NEW c \in Calls, S!Step(c)
  PROVE  OwnersOK'
  BY FileOwnedStays, NotedStays DEF OwnersOK

(* While a capture is done with, or publishes, it is the one it was.       *)
LEMMA StandingComes ==
  ASSUME ShotTypes, NEW c \in Calls, S!Step(c), at'[c] \in {"publish", "ok", "done"}, aged'[c] = 0
  PROVE  \/ S!Draw(c) /\ at'[c] = "publish"
         \/ /\ at[c] \in {"publish", "ok", "done"} /\ aged[c] = 0 /\ SameNames(c) /\ SameShot(c) /\ met' = met
            /\ at'[c] = "ok" => S!Published(c)
            /\ at'[c] = "done" => at[c] = "ok"
  <1> DEFINE Found == /\ at[c] \in {"publish", "ok", "done"} /\ aged[c] = 0 /\ met' = met
                      /\ at'[c] = "ok" => S!Published(c)
                      /\ at'[c] = "done" => at[c] = "ok"
  <1>0. DOMAIN at = Calls /\ DOMAIN aged = Calls /\ aged[c] \in 0..2
    BY DEF ShotTypes
  <1> USE DEF S!Goes
  <1>1. CASE S!Begin(c)
    BY <1>0, <1>1 DEF S!Begin
  <1>2. CASE S!Render(c)
    BY <1>0, <1>2 DEF S!Render
  <1>3. CASE S!Draw(c)
    BY <1>3, Drawing
  <1>4. CASE S!Publish(c)
    <2>1. Found
      BY <1>0, <1>4 DEF S!Publish
    <2> QED
      BY <2>1, ShotKept, NamesFollow
  <1>5. CASE S!Published(c)
    <2>1. Found
      BY <1>0, <1>5 DEF S!Published
    <2> QED
      BY <2>1, ShotKept, NamesFollow
  <1>10. CASE S!Copy(c)
    <2>1. Found
      BY <1>0, <1>10 DEF S!Copy
    <2> QED
      BY <2>1, ShotKept, NamesFollow
  <1>6. CASE S!Withdraw(c)
    BY <1>6, WithdrawGives
  <1>7. CASE S!Clean(c)
    <2>1. Found
      BY <1>0, <1>7 DEF S!Clean
    <2> QED
      BY <2>1, ShotKept, NamesFollow
  <1>8. CASE S!Kill(c)
    BY <1>0, <1>8 DEF S!Kill
  <1>9. CASE S!Ages(c)
    BY <1>0, <1>9 DEF S!Ages
  <1> QED
    BY ShotActions, <1>1, <1>2, <1>3, <1>4, <1>5, <1>6, <1>7, <1>8, <1>9, <1>10

(* A capture that succeeded keeps its files while they are not old.        *)
LEMMA WholeStays ==
  ASSUME S!ShotsAssumption, ShotInv, NEW c \in Calls, S!Step(c), NEW d \in Calls
  PROVE  WholeOK(d)'
  <1>0. ShotTypes /\ OwnersOK /\ WholeOK(d) /\ NotedOK(d)
    BY DEF ShotInv, OwnersOK
  <1>1. CASE d # c
    <2>1. at'[d] = at[d] /\ shooting'[d] = shooting[d] /\ aged'[d] = aged[d] /\ SameNames(d)
      BY <1>0, <1>1, OthersAlone, ShotKept, NamesFollow
    <2>2. \A x : [path |-> x, of |-> d] \in pictures => [path |-> x, of |-> d] \in pictures'
      BY <1>0, <1>1, DiskMoves
    <2> QED
      BY <1>0, <2>1, <2>2 DEF WholeOK, SameNames
  <1>2. CASE d = c
    <2> SUFFICES ASSUME at'[c] \in {"ok", "done"}, aged'[c] = 0
                 PROVE  \A k \in 1..Len(S!Files(c)') : [path |-> S!Files(c)'[k], of |-> c] \in pictures'
      BY <1>2 DEF WholeOK
    <2>1. /\ at[c] \in {"publish", "ok", "done"} /\ aged[c] = 0 /\ S!Files(c)' = S!Files(c)
          /\ at'[c] = "ok" => S!Published(c)
          /\ at'[c] = "done" => at[c] = "ok"
      BY <1>0, StandingComes DEF SameNames
    <2>2. \A x : [path |-> x, of |-> c] \in pictures => [path |-> x, of |-> c] \in pictures'
      BY <1>0, <2>1, DiskMoves
    <2>3. CASE at'[c] = "ok"
      <3>1. at[c] = "publish" /\ Len(shooting[c].published) = Len(S!Files(c))
        BY <2>1, <2>3 DEF S!Published
      <3>2. \A k \in 1..Len(S!Files(c)) : [path |-> S!Files(c)[k], of |-> c] \in pictures
        BY <1>0, <1>2, <3>1 DEF NotedOK, Publishing
      <3> QED
        BY <2>1, <2>2, <3>2
    <2>4. CASE at'[c] = "done"
      BY <1>0, <1>2, <2>1, <2>2, <2>4 DEF WholeOK
    <2> QED
      BY <2>3, <2>4
  <1> QED
    BY <1>1, <1>2

(* A record keeps its picture until its capture takes it back or is old.   *)
LEMMA PictureStays ==
  ASSUME S!ShotsAssumption, ShotInv, NEW c \in Calls, S!Step(c), NEW f \in pictures'
  PROVE  PictureOK(f)'
  <1> DEFINE d == f.of  noted == shooting[c].published
  <1>0. ShotTypes /\ OwnersOK /\ StagingOK /\ FileOwned(f)'
    BY FileOwnedStays DEF ShotInv
  <1>1. SUFFICES ASSUME f.path.kind = "record"
                 PROVE  \/ [path |-> S!Png(d, f.path.screen)', of |-> d] \in pictures'
                        \/ at'[d] \in {"withdraw", "retry", "torn"}
                        \/ aged'[d] > 0
    BY DEF PictureOK
  <1>2. CASE d # c
    <2>1. f \in pictures /\ d \in Calls /\ PictureOK(f)
      BY <1>0, <1>2, DiskMoves DEF ShotTypes, ShotInv
    <2>2. at'[d] = at[d] /\ aged'[d] = aged[d] /\ SameNames(d)
      BY <1>0, <1>2, <2>1, OthersAlone, ShotKept, NamesFollow
    <2>3. \A x : [path |-> x, of |-> d] \in pictures => [path |-> x, of |-> d] \in pictures'
      BY <1>0, <1>2, DiskMoves
    <2> QED
      BY <1>1, <2>1, <2>2, <2>3 DEF PictureOK, SameNames
  <1>3. CASE d = c /\ S!Publish(c)
    <2> DEFINE p == S!Files(c)[Len(noted) + 1]
    <2>1. /\ SameNames(c) /\ at[c] = "publish" /\ Len(noted) + 1 \in 1..Len(S!Files(c))
          /\ pictures \subseteq pictures' /\ aged' = aged
          /\ pictures' = pictures \/ pictures' = pictures \cup {[path |-> p, of |-> c]}
      BY <1>0, <1>3, PublishGives, ShotKept, NamesFollow DEF S!Publish
    <2>2. CASE f \in pictures
      <3>1. PictureOK(f) /\ at[c] \notin {"withdraw", "retry", "torn"}
        BY <2>1, <2>2 DEF ShotInv
      <3> QED
        BY <1>1, <1>3, <2>1, <3>1 DEF PictureOK, SameNames
    <2>3. CASE f \notin pictures
      <3>1. f.path = p
        BY <2>1, <2>3
      <3>2. PICK s \in ScreensOf(c), dir \in AllDirs :
               p = S!Record(c, dir, s) /\ \E j \in 1..Len(noted) : S!Files(c)[j] = S!Png(c, s)
        <4>1. \A s : S!Png(c, s).kind = "png"
          BY DEF S!Png
        <4>2. shooting[c] \in ShotCalls /\ Len(noted) \in Nat /\ Len(noted) + 1 - 1 = Len(noted)
          BY <1>0, NotedFacts
        <4>3. \/ \E s \in ScreensOf(c) : p = S!Png(c, s)
              \/ \E s \in ScreensOf(c), dir \in AllDirs : /\ p = S!Record(c, dir, s)
                                                           /\ \E j \in 1..(Len(noted) + 1 - 1) : S!Files(c)[j] = S!Png(c, s)
          <5>1. S!ShotsAssumption /\ shooting[c] \in ShotCalls /\ Len(noted) + 1 \in 1..Len(S!Files(c))
            BY <2>1, <4>2
          <5> HIDE DEF noted
          <5> QED
            BY <5>1, FilesFacts
        <4> QED
          BY <1>1, <3>1, <4>1, <4>2, <4>3
      <3>3. p.screen = s
        BY <3>2 DEF S!Record
      <3>4. PICK j \in 1..Len(noted) : S!Files(c)[j] = S!Png(c, s)
        BY <3>2
      <3>5. [path |-> S!Png(c, s), of |-> c] \in pictures
        BY <1>0, <2>1, <3>4 DEF OwnersOK, NotedOK, Publishing
      <3> QED
        BY <1>3, <2>1, <3>1, <3>3, <3>5 DEF SameNames
    <2> QED
      BY <2>2, <2>3
  <1>4. CASE d = c /\ S!Withdraw(c)
    BY <1>0, <1>4, WithdrawGives DEF FileOwned
  <1>5. CASE d = c /\ ~S!Publish(c) /\ ~S!Withdraw(c)
    <2>1. pictures' = pictures /\ f \in pictures /\ PictureOK(f) /\ FileOwned(f)
      BY <1>0, <1>5, DiskStays DEF ShotInv, OwnersOK
    <2>2. at[c] \notin {"idle", "draw"}
      BY <1>5, <2>1 DEF FileOwned
    <2>3. SameNames(c)
      BY <1>0, <2>2, ShotKept, NamesFollow
    <2>4. /\ at[c] \in {"withdraw", "retry", "torn"} => at'[c] \in {"withdraw", "retry", "torn"}
          /\ aged[c] > 0 => aged'[c] > 0
      <3>1. DOMAIN at = Calls /\ DOMAIN aged = Calls /\ aged[c] \in 0..2
        BY <1>0 DEF ShotTypes
      <3>2. CASE S!Kill(c)
        BY <3>1, <3>2 DEF S!Kill, S!Goes, S!Dead
      <3>3. CASE S!Ages(c)
        BY <3>1, <3>3 DEF S!Ages
      <3>4. CASE ~S!Kill(c) /\ ~S!Ages(c)
        BY <1>5, <2>2, <3>4, ShotActions DEF S!Begin, S!Render, S!Draw, S!Copy, S!Published, S!Clean
      <3> QED
        BY <3>2, <3>3, <3>4
    <2> QED
      BY <1>1, <1>5, <2>1, <2>3, <2>4 DEF PictureOK, SameNames
  <1> QED
    BY <1>2, <1>3, <1>4, <1>5

(* An id that is drawn is of no capture whose files are all there.         *)
LEMMA DrawnIsNew ==
  ASSUME S!ShotsAssumption, ShotInv, NEW c \in Calls, S!Draw(c), at'[c] = "publish", NEW d \in Calls,
         at[d] \in {"ok", "done"}, aged[d] = 0, shooting'[c].suffix = shooting[d].suffix,
         NEW s \in ScreensOf(c) \cap ScreensOf(d)
  PROVE  FALSE
  <1> DEFINE host == shooting[c].host  suffix == shooting'[c].suffix
  <1>1. shooting[c] \in ShotCalls /\ shooting[d] \in ShotCalls /\ host \in S!Hosts
    BY DEF ShotInv, ShotTypes, ShotCalls
  <1>2. PICK dir \in {"state", "shots"} : S!Record(d, dir, s) \in Names(d)
    BY <1>1, FilesFacts
  <1>3. S!Taken(S!Record(d, dir, s))
    <2>1. PICK k \in 1..Len(S!Files(d)) : S!Files(d)[k] = S!Record(d, dir, s)
      BY <1>1, <1>2, FilesFacts DEF Names
    <2>2. [path |-> S!Files(d)[k], of |-> d] \in pictures
      BY DEF ShotInv, WholeOK
    <2> QED
      BY <2>1, <2>2 DEF S!Taken
  <1>4. [S!Record(c, dir, s) EXCEPT !.suffix = suffix] = S!Record(d, dir, s)
    BY DEF S!Record
  <1>5. dir \in S!LookupDirs(host)
    BY <1>1, MetaDirFacts
  <1>6. s \in S!ToSet(shooting[c].screens)
    BY DEF ScreensOf, S!ToSet
  <1>7. S!Occupied(c, suffix, shooting'[c].second)
    BY <1>3, <1>4, <1>5, <1>6 DEF S!Occupied
  <1> QED
    BY <1>7, Drawing DEF ShotInv

(* Two captures with one id for a monitor drew it while both ran.          *)
LEMMA MetStays ==
  ASSUME S!ShotsAssumption, ShotInv, NEW c \in Calls, S!Step(c), NEW a \in Calls, NEW b \in Calls
  PROVE  MetOK(a, b)'
  <1>0. ShotTypes /\ MetOK(a, b) /\ DOMAIN met = Calls
    BY DEF ShotInv, ShotTypes
  <1>1. SUFFICES ASSUME a # b, Standing(a)', Standing(b)', shooting'[a].suffix = shooting'[b].suffix,
                        NEW s \in ScreensOf(a)' \cap ScreensOf(b)'
                 PROVE  a \in met'[b]
    BY DEF MetOK
  <1>2. ASSUME NEW d \in Calls, d # c \/ ~S!Draw(c), Standing(d)'
        PROVE  Standing(d) /\ ScreensOf(d)' = ScreensOf(d) /\ shooting'[d].suffix = shooting[d].suffix
    <2>1. CASE d # c
      <3>1. at'[d] = at[d] /\ aged'[d] = aged[d] /\ shooting'[d] = shooting[d]
        BY <1>0, <2>1, OthersAlone
      <3> QED
        BY <1>2, <3>1 DEF Standing, ScreensOf
    <2>2. CASE d = c /\ ~S!Draw(c)
      BY <1>0, <1>2, <2>2, StandingComes DEF Standing, SameNames, SameShot
    <2> QED
      BY <1>2, <2>1, <2>2
  <1>3. CASE (a # c /\ b # c) \/ ~S!Draw(c)
    <2>1. a \in met[b]
      BY <1>0, <1>1, <1>2, <1>3 DEF MetOK
    <2>2. met' = met \/ met'[b] = met[b] \/ met'[b] = met[b] \cup {c}
      <3>1. CASE S!Draw(c)
        BY <1>0, <1>3, <3>1, Drawing
      <3>2. CASE ~S!Draw(c)
        BY <3>2, ShotActions DEF S!Begin, S!Render, S!Publish, S!Copy, S!Published, S!Withdraw, S!Clean,
           S!Kill, S!Ages
      <3> QED
        BY <3>1, <3>2
    <2> QED
      BY <2>1, <2>2
  <1>4. CASE S!Draw(c) /\ (a = c \/ b = c)
    <2>1. at'[c] = "publish"
      BY <1>0, <1>1, <1>4, Drawing DEF Standing
    <2>2. /\ met' = [d \in Calls |-> IF d = c THEN met[c] \cup S!Active
                                     ELSE IF d \in S!Active THEN met[d] \cup {c} ELSE met[d]]
          /\ ScreensOf(c)' = ScreensOf(c)
      BY <1>0, <1>4, <2>1, Drawing DEF ScreensOf
    <2>3. PICK d \in Calls : d # c /\ ((a = c /\ b = d) \/ (a = d /\ b = c))
      BY <1>1, <1>4
    <2>4. Standing(d) /\ ScreensOf(d)' = ScreensOf(d) /\ shooting'[d].suffix = shooting[d].suffix
      BY <1>1, <1>2, <2>3
    <2>5. at[d] \notin {"ok", "done"}
      <3>1. s \in ScreensOf(c) \cap ScreensOf(d) /\ shooting'[c].suffix = shooting[d].suffix
        BY <1>1, <2>2, <2>3, <2>4
      <3> QED
        BY <1>4, <2>1, <2>4, <3>1, DrawnIsNew DEF Standing
    <2>6. d \in S!Active
      BY <2>4, <2>5 DEF Standing, S!Active
    <2> QED
      BY <2>2, <2>3, <2>6
  <1> QED
    BY <1>3, <1>4

(* The invariant and the steps of a capture.                               *)
LEMMA CallsKeepShots ==
  ASSUME S!ShotsAssumption, ShotInv, NEW c \in Calls, S!Step(c)
  PROVE  ShotInv'
  <1>1. ShotTypes /\ StagingOK /\ OwnersOK
    BY DEF ShotInv
  <1>2. ShotTypes' /\ StagingOK' /\ OwnersOK'
    BY <1>1, ShotTypesStay, StagingStays, OwnersStay
  <1>3. (\A d \in Calls : WholeOK(d)') /\ (\A f \in pictures' : PictureOK(f)')
    BY WholeStays, PictureStays
  <1>4. \A a, b \in Calls : MetOK(a, b)'
    BY MetStays
  <1> QED
    BY <1>2, <1>3, <1>4 DEF ShotInv

(* The invariant and a sweep: what is not old stays.                       *)
LEMMA SweepsKeepShots ==
  ASSUME S!ShotsAssumption, ShotInv, NEW dir, S!Sweep(dir)
  PROVE  ShotInv'
  <1>1. /\ pictures' \subseteq pictures /\ sstaging' \subseteq sstaging
        /\ \A f \in pictures : f \in pictures' \/ S!Old(f)
        /\ at' = at /\ shooting' = shooting /\ half' = half /\ aged' = aged /\ met' = met
    BY DEF S!Sweep
  <1>2. \A d : SameNames(d)
    BY <1>1 DEF SameNames, S!Files, S!Png, S!Record, Names, ScreensOf
  <1>3. ASSUME NEW d \in Calls, aged[d] = 0
        PROVE  \A x : [path |-> x, of |-> d] \in pictures => [path |-> x, of |-> d] \in pictures'
    BY <1>1, <1>3 DEF S!Old
  <1>4. ShotTypes' /\ StagingOK'
    BY <1>1 DEF ShotInv, ShotTypes, StagingOK
  <1>5. ASSUME NEW f \in pictures'
        PROVE  FileOwned(f)' /\ PictureOK(f)'
    <2>1. f \in pictures /\ f.of \in Calls /\ FileOwned(f) /\ PictureOK(f) /\ aged[f.of] \in 0..2
      BY <1>1 DEF ShotInv, OwnersOK, ShotTypes
    <2>2. FileOwned(f)'
      BY <1>1, <1>2, <2>1 DEF FileOwned, SameNames
    <2>3. aged[f.of] = 0 \/ aged[f.of] > 0
      BY <2>1
    <2>4. PictureOK(f)'
      BY <1>1, <1>2, <1>3, <2>1, <2>3 DEF PictureOK, SameNames
    <2> QED
      BY <2>2, <2>4
  <1>6. ASSUME NEW d \in Calls
        PROVE  NotedOK(d)' /\ WholeOK(d)'
    <2>1. NotedOK(d) /\ WholeOK(d)
      BY DEF ShotInv, OwnersOK
    <2>2. at[d] \in Publishing => aged[d] = 0
      BY DEF ShotInv, StagingOK, ShotTypes, Publishing
    <2>3. NotedOK(d)'
      BY <1>1, <1>2, <1>3, <2>1, <2>2 DEF NotedOK, SameNames
    <2>4. WholeOK(d)'
      BY <1>1, <1>2, <1>3, <2>1 DEF WholeOK, SameNames
    <2> QED
      BY <2>3, <2>4
  <1>7. \A a, b \in Calls : MetOK(a, b)'
    BY <1>1, <1>2 DEF ShotInv, MetOK, Standing, SameNames
  <1> QED
    BY <1>4, <1>5, <1>6, <1>7 DEF ShotInv, OwnersOK

(* The instance's Cardinality of one element.                              *)
LEMMA OneOf == \A x : S!Cardinality({x}) = 1
  <1>1. \A x : Cardinality({x}) = 1
    BY FS_Singleton
  <1>2. \A x : S!Cardinality({x}) = Cardinality({x})
    BY DEF S!Cardinality, Cardinality
  <1> QED
    BY <1>1, <1>2

(* The id of a capture that succeeded finds exactly one capture's record:  *)
(* two records of one id in a directory would have one name.               *)
LEMMA IdNamesOne ==
  ASSUME S!ShotsAssumption, ShotInv, NEW c \in Calls, WholeOK(c), at[c] \in {"ok", "done"}, aged[c] = 0,
         NEW s \in ScreensOf(c)
  PROVE  S!Cardinality(S!Found(S!Id(c, s))) = 1
  <1> DEFINE id == S!Id(c, s)
             has(d) == {f \in pictures : f.path.kind = "record" /\ f.path.dir = d /\ <<f.path.screen, f.path.suffix>> = id}
  <1>1. shooting[c] \in ShotCalls
    BY DEF ShotInv, ShotTypes
  <1>2. PICK dir \in {"state", "shots"} : S!Record(c, dir, s) \in Names(c)
    BY <1>1, FilesFacts
  <1>3. [path |-> S!Record(c, dir, s), of |-> c] \in pictures
    <2>1. PICK k \in 1..Len(S!Files(c)) : S!Files(c)[k] = S!Record(c, dir, s)
      BY <1>1, <1>2, FilesFacts DEF Names
    <2> QED
      BY <2>1 DEF WholeOK
  <1>4. has(dir) # {}
    BY <1>3 DEF S!Record, S!Id
  <1>5. ASSUME NEW f \in pictures, f.path.kind = "record"
        PROVE  /\ f.path = [kind |-> "record", dir |-> f.path.dir, screen |-> f.path.screen, suffix |-> f.path.suffix,
                            second |-> S!Blank]
    <2>1. f.of \in Calls /\ f.path \in Names(f.of) /\ shooting[f.of] \in ShotCalls
      BY DEF ShotInv, ShotTypes, OwnersOK, FileOwned
    <2>2. (\E x \in ScreensOf(f.of) : f.path = S!Png(f.of, x))
          \/ (\E x \in ScreensOf(f.of), d \in AllDirs : f.path = S!Record(f.of, d, x))
      BY <2>1, FilesFacts DEF Names
    <2>3. \A x : S!Png(f.of, x).kind = "png"
      BY DEF S!Png
    <2>4. PICK x \in ScreensOf(f.of), d \in AllDirs : f.path = S!Record(f.of, d, x)
      BY <1>5, <2>2, <2>3
    <2> QED
      BY <2>4 DEF S!Record
  <1>6. ASSUME NEW d, NEW f \in has(d), NEW g \in has(d)
        PROVE  f = g
    <2>1. ASSUME NEW x \in has(d)
          PROVE  x.path = [kind |-> "record", dir |-> d, screen |-> s, suffix |-> shooting[c].suffix, second |-> S!Blank]
      <3>1. x \in pictures /\ x.path.kind = "record" /\ x.path.dir = d
            /\ x.path.screen = s /\ x.path.suffix = shooting[c].suffix
        BY DEF S!Id
      <3> QED
        BY <1>5, <3>1
    <2>2. f.path = g.path
      BY <2>1
    <2> QED
      BY <2>2 DEF ShotInv, ShotTypes
  <1>7. \E d : has(d) # {} /\ S!Found(id) = {f.of : f \in has(d)}
    <2>1. S!SearchDirs[1] = "state" /\ S!SearchDirs[2] = "shots"
      BY DEF S!SearchDirs
    <2>2. S!Found(id) = {f.of : f \in IF has("state") # {} THEN has("state") ELSE has("shots")}
      BY <2>1 DEF S!Found
    <2> QED
      BY <1>4, <2>2
  <1>8. PICK d : has(d) # {} /\ S!Found(id) = {f.of : f \in has(d)}
    BY <1>7
  <1>9. PICK f \in has(d) : has(d) = {f}
    <2>1. PICK f \in has(d) : TRUE
      BY <1>8
    <2>2. \A g \in has(d) : g = f
      BY <1>6
    <2> HIDE DEF has
    <2>3. has(d) = {f}
      BY <2>2
    <2> QED
      BY <2>3
  <1>10. S!Found(id) = {f.of}
    BY <1>8, <1>9
  <1> QED
    BY <1>10, OneOf

(* What the invariant says of the screenshots.                             *)
LEMMA ShotInvGives ==
  ASSUME S!ShotsAssumption, ShotInv
  PROVE  ShotsAccounted
  <1>1. \A c \in Calls : WholeOK(c) /\ shooting[c] \in ShotCalls
    BY DEF ShotInv, ShotTypes
  <1>2. S!TypeOK
    <2>1. \A f \in pictures : f.of \in Calls /\ f.path.kind \in {"png", "record"}
      BY DEF ShotInv, ShotTypes, FileNames
    <2> QED
      BY <2>1 DEF S!TypeOK, ShotInv, ShotTypes
  <1>3. S!SuccessIsWhole
    <2>1. ASSUME NEW c \in Calls, at[c] \in {"ok", "done"}, aged[c] = 0, NEW p \in S!ToSet(S!Files(c))
          PROVE  [path |-> p, of |-> c] \in pictures
      <3>1. PICK k \in 1..Len(S!Files(c)) : p = S!Files(c)[k]
        BY <1>1, FilesFacts DEF S!ToSet
      <3> QED
        BY <1>1, <2>1, <3>1 DEF WholeOK
    <2>2. \A c \in Calls : at[c] \in {"ok", "done"} => c \notin half
      BY DEF ShotInv, StagingOK
    <2> QED
      BY <2>1, <2>2 DEF S!SuccessIsWhole
  <1>4. S!FailureLeavesNothing
    BY DEF S!FailureLeavesNothing, ShotInv, StagingOK, OwnersOK, FileOwned
  <1>5. S!RecordsHavePictures
    BY DEF S!RecordsHavePictures, ShotInv, PictureOK
  <1>6. S!OneShotPerId
    <2> SUFFICES ASSUME NEW c \in Calls, NEW d \in Calls, NEW s \in S!ToSet(Screens), c # d, S!Id(c, s) = S!Id(d, s),
                        at[c] = "done", at[d] = "done", aged[c] = 0, aged[d] = 0,
                        s \in S!ToSet(shooting[c].screens) \cap S!ToSet(shooting[d].screens)
                 PROVE  c \in met[d] /\ S!Cardinality(S!Found(S!Id(c, s))) = 1
      BY DEF S!OneShotPerId
    <2>1. s \in ScreensOf(c) \cap ScreensOf(d)
      BY DEF ScreensOf, S!ToSet
    <2>2. shooting[c].suffix = shooting[d].suffix
      BY DEF S!Id
    <2>3. MetOK(c, d)
      BY DEF ShotInv
    <2>4. c \in met[d]
      BY <2>1, <2>2, <2>3 DEF MetOK, Standing
    <2>5. S!Cardinality(S!Found(S!Id(c, s))) = 1
      BY <1>1, <2>1, IdNamesOne
    <2> QED
      BY <2>4, <2>5
  <1> QED
    BY <1>2, <1>3, <1>4, <1>5, <1>6 DEF ShotsAccounted, S!ShotsAccounted

(* The invariant and every step of the screenshots.                        *)
LEMMA NextShots ==
  ASSUME ShotInv, [S!Next]_shotvars
  PROVE  ShotInv'
  <1>1. S!ShotsAssumption
    BY PartsAssumption
  <1>2. CASE S!Next
    <2>1. (\E c \in Calls : S!Step(c)) \/ (\E d \in {"state", "shots", "away"} : S!Sweep(d))
      BY <1>2, Zenon DEF S!Next
    <2> QED
      BY <1>1, <2>1, CallsKeepShots, SweepsKeepShots
  <1>3. CASE UNCHANGED shotvars
    <2>1. UNCHANGED <<pictures, sstaging, at, shooting, half, aged, met>>
      BY <1>3 DEF shotvars
    <2>2. \A d : SameNames(d)
      BY <2>1 DEF SameNames, S!Files, S!Png, S!Record, Names, ScreensOf
    <2>3. ShotTypes' /\ StagingOK'
      BY <2>1 DEF ShotInv, ShotTypes, StagingOK
    <2>4. \A f \in pictures' : FileOwned(f)' /\ PictureOK(f)'
      BY <2>1, <2>2 DEF ShotInv, OwnersOK, FileOwned, PictureOK, SameNames
    <2>5. \A d \in Calls : NotedOK(d)'
      BY <2>1, <2>2 DEF ShotInv, OwnersOK, NotedOK, SameNames
    <2>6. \A d \in Calls : WholeOK(d)'
      BY <2>1, <2>2 DEF ShotInv, WholeOK, SameNames
    <2>7. \A a, b \in Calls : MetOK(a, b)'
      BY <2>1, <2>2 DEF ShotInv, MetOK, Standing, SameNames
    <2> QED
      BY <2>3, <2>4, <2>5, <2>6, <2>7 DEF ShotInv, OwnersOK
  <1> QED
    BY <1>2, <1>3

(* A capture that succeeded has every picture and record it published, one *)
(* that failed left nothing, a record that is found has its picture, and   *)
(* an id names one capture unless two drew it at once: for any number of   *)
(* captures, monitors, ids and attempts, with processes killed anywhere    *)
(* (capture.py's publishing, the clients' sweeps).                         *)
THEOREM ShotsPublished == FilesSpec => []ShotsAccounted
  <1>1. FilesInit => ShotInv
    <2> SUFFICES ASSUME FilesInit
                 PROVE  ShotInv
      OBVIOUS
    <2>1. /\ pictures = {} /\ sstaging = {} /\ half = {} /\ at = [c \in Calls |-> "idle"] /\ shooting = [c \in Calls |-> S!Fresh]
          /\ aged = [c \in Calls |-> 0] /\ met = [c \in Calls |-> {}]
      BY DEF FilesInit, S!Init
    <2>2. S!Fresh \in ShotCalls
      BY EmptySeq DEF S!Fresh, ShotCalls, ScreenLists, S!Hosts
    <2>3. ShotTypes
      BY <2>1, <2>2 DEF ShotTypes, ShotSteps
    <2>4. StagingOK /\ OwnersOK
      BY <2>1 DEF StagingOK, OwnersOK, NotedOK, Publishing
    <2>5. (\A c \in Calls : WholeOK(c)) /\ (\A a, b \in Calls : MetOK(a, b))
      BY <2>1 DEF WholeOK, MetOK, Standing
    <2> QED
      BY <2>1, <2>3, <2>4, <2>5 DEF ShotInv
  <1>2. ShotInv /\ [FilesNext]_filesvars => ShotInv'
    <2>1. [FilesNext]_filesvars => [S!Next]_shotvars
      BY Zenon DEF FilesNext, filesvars, shotvars
    <2> QED
      BY <2>1, NextShots
  <1>3. ShotInv => ShotsAccounted
    BY PartsAssumption, ShotInvGives
  <1> QED
    BY <1>1, <1>2, <1>3, PTL DEF FilesSpec, filesvars
==============================================================================
