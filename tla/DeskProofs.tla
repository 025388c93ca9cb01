----------------------------- MODULE DeskProofs -----------------------------
(***************************************************************************)
(* Proofs about what an action passes on its way to the desktop: a text    *)
(* that goes through the clipboard, the runner of a list of actions, an    *)
(* application that is brought to the front, and the pipe to the native    *)
(* helper.                                                                 *)
(***************************************************************************)
EXTENDS MCDesk, FiniteSets, SequenceTheorems, FiniteSetTheorems, TLAPS

LEMMA Assumed == B!BatchAssumption /\ F!FrontingAssumption /\ T!TypeTextAssumption
  BY DeskAssumption
-----------------------------------------------------------------------------
(* The clipboard.  Where the user copied last says how much of what the    *)
(* call does came after.                                                   *)
CopyOK ==
    /\ between # "before" => mine \in Copies
    /\ tpc = "save" => between \in {"before", "save"}
    /\ tpc = "put" => between \in {"before", "save", "put"}
    /\ tpc = "paste" => between \in {"before", "save", "put", "paste"}
    /\ tpc = "check" => between \in {"before", "save", "put", "paste", "check"}
    /\ tpc = "restore" => between \in {"before", "save", "put", "restore"}

(* A copy after the text was put there is what the clipboard has, and then *)
(* the call does not come to restore.                                      *)
TheirsOK ==
    /\ between \in {"paste", "check", "done"} => tpc \in {"paste", "check", "done"} /\ clip = mine
    /\ tpc \in {"paste", "check"} /\ between \in {"before", "save", "put"} => clip = Text
    /\ tpc = "restore" /\ between \in {"before", "save"} => clip = Text

(* What was kept is what the user had, and until it is put back the        *)
(* clipboard has that or the text.                                         *)
SavedOK ==
    between \in {"before", "save"} =>
        /\ tpc \in {"save", "put"} => clip = mine
        /\ tpc \in {"put", "paste", "check", "restore"} => saved = mine \/ (saved = Nothing /\ ~readable)

ReadOK ==
    /\ tpc \in {"check", "restore"} => restore
    /\ due => tpc \in {"check", "restore", "done"}
    /\ due /\ (tpc = "check" \/ (tpc = "done" /\ ~restore)) => clip = Text \/ between \in {"paste", "check", "done"}
    /\ pasted # Nothing => tpc \in {"check", "restore", "done"}

TextInv == T!TypingSparesClipboard /\ CopyOK /\ TheirsOK /\ SavedOK /\ ReadOK

LEMMA TextStarts == T!Init => TextInv
  <1> SUFFICES ASSUME T!Init
               PROVE  TextInv
    OBVIOUS
  <1> USE Assumed DEF T!TypeTextAssumption
  <1>1. /\ clip \in Copies \cup {Nothing} /\ saved = Nothing /\ tpc = "save" /\ tresult = "none"
        /\ due = FALSE /\ pasted = Nothing /\ mine = clip /\ between = "before" /\ readable = FALSE
        /\ restore \in BOOLEAN /\ slipped = FALSE /\ late = FALSE
    BY Zenon DEF T!Init
  <1>2. T!TypeOK
    BY <1>1 DEF T!TypeOK
  <1> QED
    BY <1>1, <1>2 DEF TextInv, T!TypingSparesClipboard, T!LaterCopyStays, T!ContentComesBack, T!PastesTheText,
       CopyOK, TheirsOK, SavedOK, ReadOK

LEMMA TextSteps ==
  ASSUME TextInv, [T!Next]_tvars
  PROVE  TextInv'
  <1> USE Assumed DEF T!TypeTextAssumption, TextInv, T!TypingSparesClipboard, T!TypeOK, T!LaterCopyStays,
          T!ContentComesBack, T!PastesTheText, CopyOK, TheirsOK, SavedOK, ReadOK
  <1>1. CASE T!Save
    BY <1>1 DEF T!Save, T!Done, T!noted
  <1>2. CASE T!PutText
    BY <1>2 DEF T!PutText, T!Done, T!noted
  <1>3. CASE T!Paste
    BY <1>3 DEF T!Paste, T!Done, T!noted
  <1>4. CASE T!Check
    BY <1>4 DEF T!Check, T!Done, T!noted
  <1>5. CASE T!Restore
    BY <1>5 DEF T!Restore, T!Done, T!noted
  <1>6. CASE T!WindowReads
    <2>1. /\ due /\ due' = FALSE /\ pasted' = clip /\ late' = (tpc = "restore" \/ (tpc = "done" /\ restore))
          /\ UNCHANGED <<clip, restore, saved, tpc, tresult, mine, between, readable, slipped>>
      BY <1>6, Zenon DEF T!WindowReads
    <2>2. ~late' => clip = Text \/ between \in {"paste", "check", "done"}
      BY <2>1, Zenon
    <2>3. T!TypeOK'
      <3>1. late' \in BOOLEAN
        BY <2>1, Zenon
      <3> QED
        BY <2>1, <3>1
    <2>4. T!LaterCopyStays' /\ T!ContentComesBack' /\ T!PastesTheText'
      BY <2>1, <2>2, Zenon
    <2>5. CopyOK' /\ TheirsOK' /\ SavedOK'
      BY <2>1, Zenon
    <2>6. ReadOK'
      BY <2>1
    <2> QED
      BY <2>3, <2>4, <2>5, <2>6, Zenon
  <1>7. CASE T!UserCopies
    BY <1>7 DEF T!UserCopies
  <1>8. CASE UNCHANGED tvars
    BY <1>8 DEF tvars
  <1> QED
    BY <1>1, <1>2, <1>3, <1>4, <1>5, <1>6, <1>7, <1>8, Zenon DEF T!Next

(* For any copies of the user, at any step, and whenever the window reads: *)
(* what he copies between the text and the second look stays there; else   *)
(* what was there comes back, unless an error, an unreadable clipboard or  *)
(* a wl-copy that failed unnoticed left the text there; and a window that  *)
(* reads before the second look reads nothing older than the text          *)
(* (_type_clipboard, clipboard.py).                                        *)
THEOREM PastesSpareCopies == Spec => []TypingSparesClipboard
  <1>1. Init => TextInv
    BY TextStarts DEF Init
  <1>2. TextInv /\ [Next]_vars => TextInv'
    <2> SUFFICES ASSUME TextInv, [Next]_vars
                 PROVE  TextInv'
      OBVIOUS
    <2>1. [T!Next]_tvars
      BY Zenon DEF Next, vars
    <2> QED
      BY <2>1, TextSteps
  <1>3. TextInv => TypingSparesClipboard
    BY DEF TextInv, TypingSparesClipboard
  <1> QED
    BY <1>1, <1>2, <1>3, PTL DEF Spec
-----------------------------------------------------------------------------
(* The runner of a list.                                                   *)
LEMMA SameCardinality == \A set : B!Cardinality(set) = Cardinality(set)
  BY DEF B!Cardinality, Cardinality

Plain ==
    /\ plan \in B!Plans /\ expect \in Windows \cup {Nowhere}
    /\ focus \in Windows \cup {Nowhere} /\ start \in Windows \cup {Nowhere}
    /\ phase \in {"plan", "top", "look", "send", "after", "finish", "done"}
    /\ repeatOf \in B!Clicks \cup {Nowhere}
    /\ stopped \in {"no", "budget", "error", "focus", "repeat", "safety"}
    /\ switches \in 0..MaxSwitches

Flags ==
    /\ tracking \in BOOLEAN /\ overview \in BOOLEAN /\ held \in BOOLEAN
    /\ known \in BOOLEAN /\ check \in BOOLEAN /\ autoRaw \in BOOLEAN
    /\ unseen \in BOOLEAN /\ astray \in BOOLEAN /\ drifted \in BOOLEAN

Numbers ==
    /\ i \in 1..Len(plan) + 1 /\ repeats \in 0..Len(plan)
    /\ phase \in {"look", "send", "after"} => i <= Len(plan)
    /\ phase \in {"top", "look", "send", "after"} => repeats < RepeatLimit
    /\ phase = "top" => repeats <= i - 1
    /\ phase \in {"look", "send", "after"} => repeats <= i
    /\ phase = "plan" => i = 1 /\ repeats = 0

BatchTypes == Plain /\ Flags /\ Numbers

(* The action that is on its way is the only one that may have been sent   *)
(* and still be the next, and a launch that was refused late.              *)
UpTo(n) == [m \in 1..n |-> m]
InOrder == sent = UpTo(IF phase = "after" THEN i ELSE i - 1)
SentOK == InOrder \/ (phase \in {"finish", "done"} /\ B!LaunchedLate)

(* The row of clicks that repeats counts, up to the last action that was   *)
(* considered.                                                             *)
RowsOK ==
    \A k \in B!Clicks :
        /\ phase = "top" => Cardinality(B!Row(k, i - 1)) <= IF repeatOf = k THEN repeats ELSE 0
        /\ phase \in {"look", "send", "after"} => Cardinality(B!Row(k, i)) <= IF repeatOf = k THEN repeats ELSE 0

(* A click that took the focus away is found out before the next action.   *)
DriftOK ==
    drifted => \/ phase = "after" /\ check /\ plan[i] \in B!Clicks /\ focus \notin {start, expect}
               \/ phase \in {"finish", "done"}
               \/ phase = "top" /\ i > Len(plan)

LookedOK == phase = "send" /\ B!Looks /\ ~unseen => focus = start

BatchInv ==
    /\ BatchTypes /\ SentOK /\ RowsOK /\ DriftOK /\ LookedOK
    /\ B!NoHammering /\ B!StopsReleased

LEMMA PlanLen ==
  ASSUME Plain
  PROVE  /\ Len(plan) \in 1..MaxLength /\ DOMAIN plan = 1..Len(plan)
         /\ \A n \in 1..Len(plan) : plan[n] \in B!Kinds
  <1>1. PICK n \in 1..MaxLength : plan \in [1..n -> B!Kinds]
    BY DEF Plain, B!Plans
  <1> QED
    BY <1>1, Assumed DEF B!BatchAssumption

(* A row is of the clicks that are the last but for waits.                 *)
LEMMA RowEmpty ==
  ASSUME NEW k \in B!Clicks
  PROVE  Cardinality(B!Row(k, 0)) = 0
  <1>1. B!Row(k, 0) = {}
    BY DEF B!Row
  <1> QED
    BY <1>1, FS_EmptySet

LEMMA RowFinite ==
  ASSUME NEW k \in B!Clicks, NEW n \in Nat
  PROVE  IsFiniteSet(B!Row(k, n)) /\ Cardinality(B!Row(k, n)) \in Nat
  <1>1. B!Row(k, n) \subseteq 1..n
    BY DEF B!Row
  <1>2. IsFiniteSet(1..n)
    BY FS_Interval
  <1>3. IsFiniteSet(B!Row(k, n))
    BY <1>1, <1>2, FS_Subset, Zenon
  <1> QED
    BY <1>3, FS_CardinalityType

LEMMA RowGrows ==
  ASSUME NEW k \in B!Clicks, NEW n \in Nat \ {0}
  PROVE  /\ plan[n] = k => Cardinality(B!Row(k, n)) = Cardinality(B!Row(k, n - 1)) + 1
         /\ plan[n] = "wait" => Cardinality(B!Row(k, n)) = Cardinality(B!Row(k, n - 1))
         /\ plan[n] \notin {k, "wait"} => Cardinality(B!Row(k, n)) = 0
  <1> USE DEF B!Row
  <1>0. k # "wait" /\ n - 1 \in Nat
    BY DEF B!Clicks
  <1>1. CASE plan[n] = k
    <2>1. B!Row(k, n) = B!Row(k, n - 1) \cup {n}
      <3>1. ASSUME NEW a \in B!Row(k, n), a # n
            PROVE  a \in B!Row(k, n - 1)
        <4>1. a \in 1..n - 1
          BY <3>1
        <4>2. \A b \in a..n - 1 : b \in a..n
          BY <4>1
        <4> QED
          BY <3>1, <4>1, <4>2
      <3>2. ASSUME NEW a \in B!Row(k, n - 1)
            PROVE  a \in B!Row(k, n)
        <4>1. a \in 1..n
          BY <3>2
        <4>2. \A b \in a..n : b = n \/ b \in a..n - 1
          BY <4>1
        <4> QED
          BY <1>1, <3>2, <4>1, <4>2
      <3>3. n \in B!Row(k, n)
        <4>1. \A b \in n..n : b = n
          OBVIOUS
        <4> QED
          BY <1>1, <4>1
      <3> QED
        BY <3>1, <3>2, <3>3, Zenon
    <2>2. n \notin B!Row(k, n - 1)
      OBVIOUS
    <2> HIDE DEF B!Row
    <2>3. IsFiniteSet(B!Row(k, n - 1))
      BY <1>0, RowFinite
    <2>4. Cardinality(B!Row(k, n - 1) \cup {n}) = Cardinality(B!Row(k, n - 1)) + 1
      BY <2>2, <2>3, FS_AddElement
    <2> QED
      BY <1>0, <1>1, <2>1, <2>4
  <1>2. CASE plan[n] = "wait"
    <2>1. B!Row(k, n) = B!Row(k, n - 1)
      <3>1. ASSUME NEW a \in B!Row(k, n)
            PROVE  a \in B!Row(k, n - 1)
        <4>1. a \in 1..n - 1
          BY <1>0, <1>2, <3>1
        <4>2. \A b \in a..n - 1 : b \in a..n
          BY <4>1
        <4> QED
          BY <3>1, <4>1, <4>2
      <3>2. ASSUME NEW a \in B!Row(k, n - 1)
            PROVE  a \in B!Row(k, n)
        <4>1. a \in 1..n
          BY <3>2
        <4>2. \A b \in a..n : b = n \/ b \in a..n - 1
          BY <4>1
        <4> QED
          BY <1>2, <3>2, <4>1, <4>2
      <3> QED
        BY <3>1, <3>2, Zenon
    <2> HIDE DEF B!Row
    <2> QED
      BY <1>0, <1>2, <2>1
  <1>3. CASE plan[n] \notin {k, "wait"}
    <2>1. B!Row(k, n) = {}
      <3>1. \A a \in 1..n : n \in a..n
        OBVIOUS
      <3> QED
        BY <1>3, <3>1
    <2> HIDE DEF B!Row
    <2> QED
      BY <1>0, <1>3, <2>1, FS_EmptySet
  <1> HIDE DEF B!Row
  <1> QED
    BY <1>1, <1>2, <1>3, Zenon
LEMMA PlainStays ==
  ASSUME Plain, [B!Next]_bvars
  PROVE  Plain'
  <1> USE Assumed DEF B!BatchAssumption, Plain
  <1>1. CASE B!RefusePlan
    BY <1>1 DEF B!RefusePlan, B!call
  <1>2. CASE B!ReadBaseline
    BY <1>2 DEF B!ReadBaseline, B!Readable, B!call
  <1>3. CASE B!NoBaseline
    BY <1>3 DEF B!NoBaseline, B!InPlan, B!Stop, B!call
  <1>4. CASE B!OutOfTime
    BY <1>4 DEF B!OutOfTime, B!Stop, B!call
  <1>5. CASE B!AllSent
    BY <1>5 DEF B!AllSent, B!call
  <1>6. CASE B!Consider
    BY <1>6 DEF B!Consider, B!CountRepeats, B!Stop, B!Act, B!call
  <1>7. CASE B!Look
    BY <1>7 DEF B!Look, B!Looks, B!Stop, B!call, B!Act
  <1>8. CASE B!Send
    BY <1>8 DEF B!Send, B!Effect, B!Wandered, B!Act, B!call
  <1>9. CASE B!Fail
    BY <1>9 DEF B!Fail, B!Effect, B!Wandered, B!Stop, B!Act, B!call
  <1>10. CASE B!TooLate
    BY <1>10 DEF B!TooLate, B!Effect, B!Stop, B!Act, B!call
  <1>11. CASE B!NewBaseline
    BY <1>11 DEF B!NewBaseline, B!Readable, B!Act, B!call
  <1>12. CASE B!LookAfterClick
    BY <1>12 DEF B!LookAfterClick, B!Readable, B!Drifted, B!Stop, B!Act, B!call
  <1>13. CASE B!GoOn
    BY <1>13 DEF B!GoOn, B!Act, B!call
  <1>14. CASE B!Finish
    BY <1>14 DEF B!Finish, B!call
  <1>15. CASE B!UserSwitches
    <2>1. switches < MaxSwitches /\ switches' = switches + 1 /\ focus' \in Windows \cup {Nowhere}
      BY <1>15, Zenon DEF B!UserSwitches
    <2>2. UNCHANGED <<plan, expect, start, phase, repeatOf, stopped>>
      BY <1>15, Zenon DEF B!UserSwitches, B!call
    <2>3. MaxSwitches \in Nat /\ switches \in 0..MaxSwitches
      BY Zenon
    <2>4. switches' \in 0..MaxSwitches
      <3> HIDE Assumed DEF Plain
      <3> QED
        BY <2>1, <2>3
    <2> QED
      BY <2>1, <2>2, <2>4, Zenon
  <1>16. CASE UNCHANGED bvars
    BY <1>16 DEF bvars
  <1> QED
    BY <1>1, <1>2, <1>3, <1>4, <1>5, <1>6, <1>7, <1>8, <1>9, <1>10, <1>11, <1>12, <1>13, <1>14, <1>15, <1>16,
       Zenon DEF B!Next

LEMMA FlagsStay ==
  ASSUME Flags, [B!Next]_bvars
  PROVE  Flags'
  <1>1. CASE B!RefusePlan
    BY <1>1, Zenon DEF B!RefusePlan, B!call, Flags
  <1>2. CASE B!ReadBaseline
    BY <1>2, Zenon DEF B!ReadBaseline, B!Readable, B!call, Flags
  <1>3. CASE B!NoBaseline
    BY <1>3, Zenon DEF B!NoBaseline, B!InPlan, B!Stop, B!call, Flags
  <1>4. CASE B!OutOfTime
    BY <1>4, Zenon DEF B!OutOfTime, B!Stop, B!call, Flags
  <1>5. CASE B!AllSent
    BY <1>5, Zenon DEF B!AllSent, B!call, Flags
  <1>6. CASE B!Consider
    BY <1>6, Zenon DEF B!Consider, B!CountRepeats, B!Stop, B!Act, B!call, Flags
  <1>7. CASE B!Look
    BY <1>7, Zenon DEF B!Look, B!Looks, B!Stop, B!call, B!Act, Flags
  <1>8. CASE B!Send
    BY <1>8, Zenon DEF B!Send, B!Effect, B!Wandered, B!Act, B!call, Flags
  <1>9. CASE B!Fail
    BY <1>9, Zenon DEF B!Fail, B!Effect, B!Wandered, B!Stop, B!Act, B!call, Flags
  <1>10. CASE B!TooLate
    BY <1>10, Zenon DEF B!TooLate, B!Effect, B!Stop, B!Act, B!call, Flags
  <1>11. CASE B!NewBaseline
    BY <1>11, Zenon DEF B!NewBaseline, B!Readable, B!Act, B!call, Flags
  <1>12. CASE B!LookAfterClick
    BY <1>12, Zenon DEF B!LookAfterClick, B!Readable, B!Drifted, B!Stop, B!Act, B!call, Flags
  <1>13. CASE B!GoOn
    BY <1>13, Zenon DEF B!GoOn, B!Act, B!call, Flags
  <1>14. CASE B!Finish
    BY <1>14, Zenon DEF B!Finish, B!call, Flags
  <1>15. CASE B!UserSwitches
    BY <1>15, Zenon DEF B!UserSwitches, B!call, Flags
  <1>16. CASE UNCHANGED bvars
    BY <1>16, Zenon DEF bvars, Flags
  <1> QED
    BY <1>1, <1>2, <1>3, <1>4, <1>5, <1>6, <1>7, <1>8, <1>9, <1>10, <1>11, <1>12, <1>13, <1>14, <1>15, <1>16,
       Zenon DEF B!Next

LEMMA NumbersStay ==
  ASSUME NEW n \in Nat \ {0}, Len(plan) = n, Numbers, [B!Next]_bvars
  PROVE  Numbers'
  <1>0. RepeatLimit \in Nat \ {0}
    BY Assumed DEF B!BatchAssumption
  <1> USE <1>0 DEF Numbers
  <1>1. CASE B!RefusePlan
    BY <1>1 DEF B!RefusePlan, B!call
  <1>2. CASE B!ReadBaseline
    BY <1>2 DEF B!ReadBaseline, B!Readable, B!call
  <1>3. CASE B!NoBaseline
    BY <1>3 DEF B!NoBaseline, B!InPlan, B!Stop, B!call
  <1>4. CASE B!OutOfTime
    BY <1>4 DEF B!OutOfTime, B!Stop, B!call
  <1>5. CASE B!AllSent
    BY <1>5 DEF B!AllSent, B!call
  <1>6. CASE B!Consider
    BY <1>6 DEF B!Consider, B!CountRepeats, B!Stop, B!Act, B!call
  <1>7. CASE B!Look
    BY <1>7 DEF B!Look, B!Looks, B!Stop, B!call, B!Act
  <1>8. CASE B!Send
    BY <1>8 DEF B!Send, B!Effect, B!Wandered, B!Act, B!call
  <1>9. CASE B!Fail
    BY <1>9 DEF B!Fail, B!Effect, B!Wandered, B!Stop, B!Act, B!call
  <1>10. CASE B!TooLate
    BY <1>10 DEF B!TooLate, B!Effect, B!Stop, B!Act, B!call
  <1>11. CASE B!NewBaseline
    BY <1>11 DEF B!NewBaseline, B!Readable, B!Act, B!call
  <1>12. CASE B!LookAfterClick
    BY <1>12 DEF B!LookAfterClick, B!Readable, B!Drifted, B!Stop, B!Act, B!call
  <1>13. CASE B!GoOn
    BY <1>13 DEF B!GoOn, B!Act, B!call
  <1>14. CASE B!Finish
    BY <1>14 DEF B!Finish, B!call
  <1>15. CASE B!UserSwitches
    BY <1>15 DEF B!UserSwitches, B!call
  <1>16. CASE UNCHANGED bvars
    BY <1>16 DEF bvars
  <1> QED
    BY <1>1, <1>2, <1>3, <1>4, <1>5, <1>6, <1>7, <1>8, <1>9, <1>10, <1>11, <1>12, <1>13, <1>14, <1>15, <1>16,
       Zenon DEF B!Next

LEMMA TypesFollow == BatchTypes => B!TypeOK
  <1> SUFFICES ASSUME BatchTypes
               PROVE  B!TypeOK
    OBVIOUS
  <1>1. {tracking, overview, held, known, check, autoRaw, unseen, astray, drifted} \subseteq BOOLEAN
    BY Zenon DEF BatchTypes, Flags
  <1>2. repeats \in 0..MaxLength
    BY PlanLen, Assumed DEF BatchTypes, Numbers, B!BatchAssumption
  <1> QED
    BY <1>1, <1>2 DEF BatchTypes, Plain, Numbers, B!TypeOK

LEMMA UpToAppend ==
  ASSUME NEW n \in Nat
  PROVE  Append(UpTo(n), n + 1) = UpTo(n + 1)
  BY DEF UpTo

LEMMA InOrderStays ==
  ASSUME i \in Nat \ {0}, InOrder, [B!Next]_bvars, ~B!TooLate
  PROVE  InOrder'
  <1> USE DEF InOrder
  <1>1. CASE B!RefusePlan
    BY <1>1 DEF B!RefusePlan, B!call
  <1>2. CASE B!ReadBaseline
    BY <1>2 DEF B!ReadBaseline, B!Readable, B!call
  <1>3. CASE B!NoBaseline
    BY <1>3 DEF B!NoBaseline, B!InPlan, B!Stop, B!call
  <1>4. CASE B!OutOfTime
    BY <1>4 DEF B!OutOfTime, B!Stop, B!call
  <1>5. CASE B!AllSent
    BY <1>5 DEF B!AllSent, B!call
  <1>6. CASE B!Consider
    BY <1>6 DEF B!Consider, B!CountRepeats, B!Stop, B!Act, B!call
  <1>7. CASE B!Look
    BY <1>7 DEF B!Look, B!Looks, B!Stop, B!call, B!Act
  <1>8. CASE B!Send
    <2>1. sent = UpTo(i - 1) /\ sent' = Append(sent, i) /\ i' = i /\ phase' = "after"
      BY <1>8 DEF B!Send
    <2>2. i - 1 \in Nat /\ (i - 1) + 1 = i
      OBVIOUS
    <2>3. Append(UpTo(i - 1), (i - 1) + 1) = UpTo((i - 1) + 1)
      BY <2>2, UpToAppend
    <2>4. sent' = UpTo(i) /\ (i + 1) - 1 = i
      BY <2>1, <2>2, <2>3
    <2> QED
      BY <2>1, <2>4
  <1>9. CASE B!Fail
    <2>1. sent = UpTo(i - 1) /\ sent' = Append(sent, i) /\ i' = i + 1 /\ phase' = "finish"
      BY <1>9 DEF B!Fail, B!Stop
    <2>2. i - 1 \in Nat /\ (i - 1) + 1 = i
      OBVIOUS
    <2>3. Append(UpTo(i - 1), (i - 1) + 1) = UpTo((i - 1) + 1)
      BY <2>2, UpToAppend
    <2>4. sent' = UpTo(i) /\ (i + 1) - 1 = i
      BY <2>1, <2>2, <2>3
    <2> QED
      BY <2>1, <2>4
  <1>11. CASE B!NewBaseline
    BY <1>11 DEF B!NewBaseline, B!Readable, B!Act, B!call
  <1>12. CASE B!LookAfterClick
    BY <1>12 DEF B!LookAfterClick, B!Readable, B!Drifted, B!Stop, B!Act, B!call
  <1>13. CASE B!GoOn
    BY <1>13 DEF B!GoOn, B!Act, B!call
  <1>14. CASE B!Finish
    BY <1>14 DEF B!Finish, B!call
  <1>15. CASE B!UserSwitches
    BY <1>15 DEF B!UserSwitches, B!call
  <1>16. CASE UNCHANGED bvars
    BY <1>16 DEF bvars
  <1> QED
    BY <1>1, <1>2, <1>3, <1>4, <1>5, <1>6, <1>7, <1>8, <1>9, <1>11, <1>12, <1>13, <1>14, <1>15, <1>16, Zenon
       DEF B!Next

LEMMA SentStays ==
  ASSUME i \in Nat \ {0}, phase = "send" => i \in DOMAIN plan, SentOK, [B!Next]_bvars
  PROVE  SentOK'
  <1>1. CASE B!TooLate
    <2>1. InOrder /\ phase = "send" /\ plan[i] = "launch" /\ i \in DOMAIN plan
      BY <1>1 DEF B!TooLate, B!Act, SentOK
    <2>2. sent = UpTo(i - 1) /\ i - 1 \in Nat /\ (i - 1) + 1 = i
      BY <2>1 DEF InOrder
    <2>3. phase' = "finish" /\ stopped' = "budget" /\ i' = i /\ plan' = plan
      BY <1>1 DEF B!TooLate, B!Stop, B!call
    <2>4. CASE sent' = sent
      BY <2>2, <2>3, <2>4 DEF SentOK, InOrder
    <2>5. CASE sent' = Append(sent, i)
      <3>1. Append(UpTo(i - 1), (i - 1) + 1) = UpTo((i - 1) + 1)
        BY <2>2, UpToAppend
      <3>2. sent' = UpTo(i)
        BY <2>2, <2>5, <3>1
      <3> QED
        BY <2>1, <2>3, <3>2 DEF SentOK, B!LaunchedLate, B!Act, UpTo
    <2> QED
      BY <1>1, <2>4, <2>5 DEF B!TooLate
  <1>2. CASE ~B!TooLate /\ InOrder
    BY <1>2, InOrderStays DEF SentOK
  <1>3. CASE ~B!TooLate /\ phase \in {"finish", "done"} /\ B!LaunchedLate
    <2>1. phase' \in {"finish", "done"} /\ UNCHANGED <<plan, i, sent, stopped>>
      BY <1>3 DEF B!Next, bvars, B!RefusePlan, B!ReadBaseline, B!NoBaseline, B!OutOfTime, B!AllSent, B!Consider,
         B!Look, B!Send, B!Fail, B!NewBaseline, B!LookAfterClick, B!GoOn, B!Finish, B!UserSwitches, B!call
    <2> QED
      BY <1>3, <2>1 DEF SentOK, B!LaunchedLate, B!Act
  <1> QED
    BY <1>1, <1>2, <1>3 DEF SentOK

LEMMA DriftStays ==
  ASSUME NEW n \in Nat \ {0}, Len(plan) = n, i \in 1..n + 1,
         phase \in {"look", "send", "after"} => i <= n,
         DriftOK, [B!Next]_bvars
  PROVE  DriftOK'
  <1> USE DEF DriftOK, B!Clicks
  <1>1. CASE B!RefusePlan
    BY <1>1 DEF B!RefusePlan, B!call
  <1>2. CASE B!ReadBaseline
    BY <1>2 DEF B!ReadBaseline, B!Readable, B!call
  <1>3. CASE B!NoBaseline
    BY <1>3 DEF B!NoBaseline, B!InPlan, B!Stop, B!call
  <1>4. CASE B!OutOfTime
    BY <1>4 DEF B!OutOfTime, B!Stop, B!call
  <1>5. CASE B!AllSent
    BY <1>5 DEF B!AllSent, B!call
  <1>6. CASE B!Consider
    <2>1. phase = "top" /\ i <= Len(plan) /\ UNCHANGED drifted
      BY <1>6, Zenon DEF B!Consider
    <2>2. ~(i > Len(plan)) /\ phase = "top"
      BY <2>1
    <2> QED
      BY <2>1, <2>2, Zenon
  <1>7. CASE B!Look
    BY <1>7 DEF B!Look, B!Looks, B!Stop, B!call, B!Act
  <1>8. CASE B!Send
    BY <1>8 DEF B!Send, B!Effect, B!Wandered, B!Act, B!call
  <1>9. CASE B!Fail
    BY <1>9 DEF B!Fail, B!Effect, B!Wandered, B!Stop, B!Act, B!call
  <1>10. CASE B!TooLate
    BY <1>10 DEF B!TooLate, B!Effect, B!Stop, B!Act, B!call
  <1>11. CASE B!NewBaseline
    BY <1>11 DEF B!NewBaseline, B!Readable, B!Act, B!call
  <1>12. CASE B!LookAfterClick
    <2>1. phase = "after" /\ UNCHANGED <<plan, expect, focus, check, drifted>>
      BY <1>12, Zenon DEF B!LookAfterClick, B!call
    <2>2. \/ phase' = "finish"
          \/ phase' = "top" /\ focus \in {start, expect}
          \/ phase' = "top" /\ i' = i + 1 /\ ~(i < Len(plan))
      BY <1>12, Zenon DEF B!LookAfterClick, B!Drifted, B!Stop
    <2>3. CASE ~drifted
      BY <2>1, <2>3, Zenon
    <2>4. CASE drifted
      <3>1. phase' = "finish" \/ (phase' = "top" /\ i' = i + 1 /\ ~(i < Len(plan)) /\ plan' = plan)
        BY <2>1, <2>2, <2>4
      <3>2. i + 1 > Len(plan) \/ i < Len(plan)
        OBVIOUS
      <3>3. phase' = "finish" \/ (phase' = "top" /\ i' > Len(plan'))
        BY <3>1, <3>2, Zenon
      <3> QED
        BY <3>3, Zenon
    <2> QED
      BY <2>3, <2>4
  <1>13. CASE B!GoOn
    BY <1>13 DEF B!GoOn, B!Act, B!call
  <1>14. CASE B!Finish
    BY <1>14 DEF B!Finish, B!call
  <1>15. CASE B!UserSwitches
    BY <1>15 DEF B!UserSwitches, B!call
  <1>16. CASE UNCHANGED bvars
    BY <1>16 DEF bvars
  <1> QED
    BY <1>1, <1>2, <1>3, <1>4, <1>5, <1>6, <1>7, <1>8, <1>9, <1>10, <1>11, <1>12, <1>13, <1>14, <1>15, <1>16,
       Zenon DEF B!Next

LEMMA LookedStays ==
  ASSUME BatchTypes, LookedOK, [B!Next]_bvars
  PROVE  LookedOK'
  <1> USE DEF LookedOK, B!Looks, B!Act
  <1>1. CASE B!RefusePlan
    BY <1>1 DEF B!RefusePlan, B!call
  <1>2. CASE B!ReadBaseline
    BY <1>2 DEF B!ReadBaseline, B!Readable, B!call
  <1>3. CASE B!NoBaseline
    BY <1>3 DEF B!NoBaseline, B!InPlan, B!Stop, B!call
  <1>4. CASE B!OutOfTime
    BY <1>4 DEF B!OutOfTime, B!Stop, B!call
  <1>5. CASE B!AllSent
    BY <1>5 DEF B!AllSent, B!call
  <1>6. CASE B!Consider
    BY <1>6 DEF B!Consider, B!CountRepeats, B!Stop, B!Act, B!call
  <1>7. CASE B!Look
    BY <1>7 DEF B!Look, B!Looks, B!Stop, B!call, B!Act
  <1>8. CASE B!Send
    BY <1>8 DEF B!Send, B!Effect, B!Wandered, B!Act, B!call
  <1>9. CASE B!Fail
    BY <1>9 DEF B!Fail, B!Effect, B!Wandered, B!Stop, B!Act, B!call
  <1>10. CASE B!TooLate
    BY <1>10 DEF B!TooLate, B!Effect, B!Stop, B!Act, B!call
  <1>11. CASE B!NewBaseline
    BY <1>11 DEF B!NewBaseline, B!Readable, B!Act, B!call
  <1>12. CASE B!LookAfterClick
    BY <1>12 DEF B!LookAfterClick, B!Readable, B!Drifted, B!Stop, B!Act, B!call
  <1>13. CASE B!GoOn
    BY <1>13 DEF B!GoOn, B!Act, B!call
  <1>14. CASE B!Finish
    BY <1>14 DEF B!Finish, B!call
  <1>15. CASE B!UserSwitches
    BY <1>15 DEF B!UserSwitches, B!call
  <1>16. CASE UNCHANGED bvars
    BY <1>16 DEF bvars
  <1> QED
    BY <1>1, <1>2, <1>3, <1>4, <1>5, <1>6, <1>7, <1>8, <1>9, <1>10, <1>11, <1>12, <1>13, <1>14, <1>15, <1>16,
       Zenon DEF B!Next

LEMMA StopsStay ==
  ASSUME B!StopsReleased, phase = "plan" => sent = <<>>, Flags, [B!Next]_bvars
  PROVE  B!StopsReleased'
  <1> USE DEF B!StopsReleased
  <1>1. CASE B!RefusePlan
    BY <1>1, Zenon DEF B!RefusePlan
  <1>2. CASE B!Finish
    BY <1>2, Zenon DEF B!Finish
  <1>3. CASE UNCHANGED bvars
    BY <1>3, Zenon DEF bvars
  <1>4. CASE ~(B!RefusePlan \/ B!Finish \/ UNCHANGED bvars)
    <2>1. phase' # "done"
      BY <1>4, Zenon DEF B!Next, B!ReadBaseline, B!NoBaseline, B!OutOfTime, B!AllSent, B!Consider, B!Look, B!Send,
         B!Fail, B!TooLate, B!NewBaseline, B!LookAfterClick, B!Drifted, B!GoOn, B!UserSwitches, B!Stop
    <2> QED
      BY <2>1, Zenon
  <1> QED
    BY <1>1, <1>2, <1>3, <1>4, Zenon

(* What is counted when an action is considered.                           *)
LEMMA RowsStay ==
  ASSUME BatchTypes, RowsOK, [B!Next]_bvars
  PROVE  RowsOK'
  <1> DEFINE Bound(k) == IF repeatOf = k THEN repeats ELSE 0
  <1>1. i \in Nat \ {0} /\ repeats \in Nat
    BY PlanLen DEF BatchTypes, Numbers
  <1>2. CASE B!Consider
    <2> SUFFICES ASSUME NEW k \in B!Clicks, phase' = "look"
                 PROVE  Cardinality(B!Row(k, i)) <= Bound(k)'
      BY <1>2 DEF RowsOK, B!Consider, B!Stop, B!call, B!Row
    <2>1. Cardinality(B!Row(k, i - 1)) <= Bound(k) /\ Cardinality(B!Row(k, i - 1)) \in Nat
      BY <1>1, <1>2, RowFinite DEF RowsOK, B!Consider
    <2>2. B!CountRepeats /\ plan[i] \in B!Kinds
      BY <1>2, PlanLen DEF B!Consider, BatchTypes, Numbers
    <2>3. CASE plan[i] = k
      BY <1>1, <2>1, <2>2, <2>3, RowGrows DEF B!CountRepeats, B!Act
    <2>4. CASE plan[i] \in B!Clicks \ {k}
      BY <1>1, <2>2, <2>4, RowGrows DEF B!CountRepeats, B!Act, B!Clicks
    <2>5. CASE plan[i] = "wait"
      BY <1>1, <2>1, <2>2, <2>5, RowGrows DEF B!CountRepeats, B!Act, B!Clicks
    <2>6. CASE plan[i] \notin B!Clicks \cup {"wait"}
      BY <1>1, <2>2, <2>6, RowGrows DEF B!CountRepeats, B!Act
    <2> QED
      BY <2>3, <2>4, <2>5, <2>6
  <1>3. CASE ~B!Consider
    <2>1. UNCHANGED <<plan, repeats, repeatOf>>
      BY <1>3, Zenon DEF B!Next, bvars, B!RefusePlan, B!ReadBaseline, B!NoBaseline, B!OutOfTime, B!AllSent,
         B!Look, B!Send,
         B!Fail, B!TooLate, B!NewBaseline, B!LookAfterClick, B!GoOn, B!Finish, B!UserSwitches, B!call
    <2>2. \/ phase' \notin {"top", "look", "send", "after"}
          \/ phase = "plan" /\ phase' = "top" /\ i' = i
          \/ phase = "after" /\ phase' = "top" /\ i' = i + 1
          \/ phase \in {"look", "send", "after"} /\ phase' \in {"look", "send", "after"} /\ i' = i
          \/ phase' = phase /\ i' = i
      BY <1>3 DEF B!Next, bvars, B!RefusePlan, B!ReadBaseline, B!NoBaseline, B!OutOfTime, B!AllSent, B!Look,
         B!Send,
         B!Fail, B!TooLate, B!NewBaseline, B!LookAfterClick, B!Drifted, B!GoOn, B!Finish, B!UserSwitches, B!Stop, B!call
    <2>3. CASE phase = "plan" /\ phase' = "top" /\ i' = i
      <3>1. i - 1 = 0 /\ repeats = 0
        BY <2>3 DEF BatchTypes, Numbers
      <3> QED
        BY <2>1, <2>3, <3>1, RowEmpty DEF RowsOK, B!Row
    <2>4. CASE phase = "after" /\ phase' = "top" /\ i' = i + 1
      <3>1. i' - 1 = i
        BY <1>1, <2>4
      <3> QED
        BY <2>1, <2>4, <3>1 DEF RowsOK, B!Row
    <2>5. CASE phase \in {"look", "send", "after"} /\ phase' \in {"look", "send", "after"} /\ i' = i
      BY <2>1, <2>5 DEF RowsOK, B!Row
    <2>6. CASE phase' = phase /\ i' = i
      BY <2>1, <2>6 DEF RowsOK, B!Row
    <2> QED
      BY <2>2, <2>3, <2>4, <2>5, <2>6 DEF RowsOK
  <1> QED
    BY <1>2, <1>3

LEMMA HammeringStays ==
  ASSUME BatchTypes, SentOK, RowsOK, B!NoHammering, [B!Next]_bvars
  PROVE  B!NoHammering'
  <1>1. i \in Nat \ {0} /\ repeats \in Nat /\ RepeatLimit \in Nat \ {0}
    BY PlanLen, Assumed DEF BatchTypes, Numbers, B!BatchAssumption
  <1>2. plan' = plan
    BY Zenon DEF B!Next, bvars, B!RefusePlan, B!ReadBaseline, B!NoBaseline, B!OutOfTime, B!AllSent,
       B!Consider, B!Look,
       B!Send, B!Fail, B!TooLate, B!NewBaseline, B!LookAfterClick, B!GoOn, B!Finish, B!UserSwitches, B!call
  <1>3. CASE phase = "send" /\ sent' = Append(sent, i)
    <2>1. sent = UpTo(i - 1)
      BY <1>3 DEF SentOK, InOrder
    <2>2. i - 1 \in Nat /\ (i - 1) + 1 = i
      BY <1>1
    <2>3. sent' = UpTo(i)
      <3>1. Append(UpTo(i - 1), (i - 1) + 1) = UpTo((i - 1) + 1)
        BY <2>2, UpToAppend
      <3> QED
        BY <1>3, <2>1, <2>2, <3>1
    <2>4. \A k \in B!Clicks : Cardinality(B!Row(k, i)) < RepeatLimit
      <3> SUFFICES ASSUME NEW k \in B!Clicks
                   PROVE  Cardinality(B!Row(k, i)) < RepeatLimit
        OBVIOUS
      <3>1. repeats < RepeatLimit /\ Cardinality(B!Row(k, i)) <= IF repeatOf = k THEN repeats ELSE 0
        BY <1>3 DEF RowsOK, BatchTypes, Numbers
      <3>2. Cardinality(B!Row(k, i)) \in Nat
        BY <1>1, RowFinite
      <3> QED
        BY <1>1, <3>1, <3>2
    <2>5. \A m \in 1..i - 1 : \A k \in B!Clicks : Cardinality(B!Row(k, m)) < RepeatLimit
      <3>1. DOMAIN sent = 1..i - 1 /\ \A m \in 1..i - 1 : sent[m] = m
        BY <2>1 DEF UpTo
      <3> SUFFICES ASSUME NEW m \in 1..i - 1, NEW k \in B!Clicks
                   PROVE  Cardinality(B!Row(k, m)) < RepeatLimit
        OBVIOUS
      <3>2. Cardinality(B!Row(k, sent[m])) < RepeatLimit
        BY <3>1, SameCardinality, Zenon DEF B!NoHammering
      <3> QED
        BY <3>1, <3>2, Zenon
    <2>6. \A m \in 1..i : \A k \in B!Clicks : Cardinality(B!Row(k, m)) < RepeatLimit
      <3>1. \A m \in 1..i : m = i \/ m \in 1..i - 1
        BY <1>1
      <3> QED
        BY <2>4, <2>5, <3>1, Zenon
    <2>7. DOMAIN sent' = 1..i /\ \A m \in 1..i : sent'[m] = m
      BY <2>3 DEF UpTo
    <2> SUFFICES ASSUME NEW m \in DOMAIN sent', NEW k \in B!Clicks
                 PROVE  Cardinality(B!Row(k, sent[m])') < RepeatLimit
      BY SameCardinality, Zenon DEF B!NoHammering
    <2>8. B!Row(k, sent[m])' = B!Row(k, m)
      <3>1. sent'[m] = m
        BY <2>7
      <3> QED
        BY <1>2, <3>1, Zenon DEF B!Row
    <2> QED
      BY <2>6, <2>7, <2>8, Zenon
  <1>4. CASE sent' = sent
    BY <1>2, <1>4 DEF B!NoHammering, B!Row
  <1> QED
    <2>1. sent' = sent \/ (phase = "send" /\ sent' = Append(sent, i))
      BY Zenon DEF B!Next, bvars, B!RefusePlan, B!ReadBaseline, B!NoBaseline, B!OutOfTime, B!AllSent,
         B!Consider, B!Look,
         B!Send, B!Fail, B!TooLate, B!NewBaseline, B!LookAfterClick, B!GoOn, B!Finish, B!UserSwitches
    <2> QED
      BY <1>3, <1>4, <2>1

LEMMA BatchStarts == B!Init => BatchInv
  <1> SUFFICES ASSUME B!Init
               PROVE  BatchInv
    OBVIOUS
  <1>1. /\ plan \in B!Plans /\ expect \in Windows \cup {Nowhere} /\ focus \in Windows \cup {Nowhere}
        /\ phase = "plan" /\ i = 1 /\ start = Nowhere /\ repeatOf = Nowhere /\ repeats = 0
        /\ stopped = "no" /\ sent = <<>> /\ switches = 0
    BY Zenon DEF B!Init
  <1>2. Plain
    <2>1. switches \in 0..MaxSwitches
      BY <1>1, Assumed DEF B!BatchAssumption
    <2> QED
      BY <1>1, <2>1 DEF Plain
  <1>3. Flags /\ ~drifted /\ ~held
    BY Zenon DEF B!Init, Flags
  <1>4. Numbers
    <2>1. Len(plan) \in Nat \ {0}
      BY <1>2, PlanLen, Assumed DEF B!BatchAssumption
    <2> QED
      BY <1>1, <2>1 DEF Numbers
  <1>5. SentOK
    <2>1. UpTo(0) = <<>> /\ i - 1 = 0
      BY <1>1 DEF UpTo
    <2> QED
      BY <1>1, <2>1 DEF SentOK, InOrder
  <1>6. RowsOK /\ LookedOK
    BY <1>1 DEF RowsOK, LookedOK
  <1>7. DriftOK
    BY <1>3, Zenon DEF DriftOK
  <1>8. B!NoHammering /\ B!StopsReleased
    <2>1. DOMAIN sent = {}
      BY <1>1
    <2> QED
      BY <1>1, <2>1, Zenon DEF B!NoHammering, B!StopsReleased
  <1> QED
    BY <1>2, <1>3, <1>4, <1>5, <1>6, <1>7, <1>8, Zenon DEF BatchInv, BatchTypes

LEMMA BatchSteps ==
  ASSUME BatchInv, [B!Next]_bvars
  PROVE  BatchInv'
  <1>1. BatchTypes /\ SentOK /\ RowsOK /\ DriftOK /\ LookedOK /\ B!NoHammering /\ B!StopsReleased /\ Plain /\ Flags /\ Numbers
    BY Zenon DEF BatchInv, BatchTypes
  <1>2. /\ Len(plan) \in Nat \ {0} /\ i \in 1..Len(plan) + 1 /\ i \in Nat \ {0}
        /\ phase \in {"look", "send", "after"} => i <= Len(plan)
        /\ phase = "plan" => i = 1
    BY <1>1, PlanLen, Assumed DEF Numbers, B!BatchAssumption
  <1>3. phase = "plan" => sent = <<>>
    BY <1>1, <1>2 DEF SentOK, InOrder, UpTo
  <1>7. phase = "send" => i \in DOMAIN plan
    BY <1>1, <1>2, PlanLen
  <1>4. BatchTypes'
    BY <1>1, <1>2, PlainStays, FlagsStay, NumbersStay DEF BatchTypes
  <1>5. SentOK' /\ DriftOK' /\ LookedOK'
    BY <1>1, <1>2, <1>7, SentStays, DriftStays, LookedStays
  <1>6. RowsOK' /\ B!NoHammering' /\ B!StopsReleased'
    BY <1>1, <1>3, RowsStay, HammeringStays, StopsStay
  <1> QED
    BY <1>4, <1>5, <1>6, Zenon DEF BatchInv

LEMMA BatchInvariant == Spec => []BatchInv
  <1>1. Init => BatchInv
    BY BatchStarts DEF Init
  <1>2. BatchInv /\ [Next]_vars => BatchInv'
    <2> SUFFICES ASSUME BatchInv, [Next]_vars
                 PROVE  BatchInv'
      OBVIOUS
    <2>1. [B!Next]_bvars
      BY Zenon DEF Next, vars
    <2> QED
      BY <2>1, BatchSteps
  <1> QED
    BY <1>1, <1>2, PTL DEF Spec

(* For any windows, lists and limits, whatever the user does meanwhile:    *)
(* what comes back as not done was not sent and what does not come back    *)
(* was sent once, except a launch that was refused late; nothing follows   *)
(* a click that took the focus away; no target is clicked RepeatLimit      *)
(* times in a row; and a list that stopped early holds nothing (batch.py). *)
THEOREM ListsAccounted == Spec => []BatchAccounted
  <1>1. BatchInv => BatchAccounted
    <2> SUFFICES ASSUME BatchInv
                 PROVE  BatchAccounted
      OBVIOUS
    <2>1. BatchTypes /\ SentOK /\ DriftOK /\ B!NoHammering /\ B!StopsReleased
      BY Zenon DEF BatchInv
    <2>2. B!TypeOK
      BY <2>1, TypesFollow
    <2>3. B!RestIsUnsent
      BY <2>1 DEF SentOK, InOrder, B!RestIsUnsent, UpTo
    <2>4. B!NothingAfterDrift
      BY <2>1, Zenon DEF DriftOK, B!NothingAfterDrift
    <2> QED
      BY <2>1, <2>2, <2>3, <2>4, Zenon DEF BatchAccounted, B!BatchAccounted
  <1> QED
    BY <1>1, BatchInvariant, PTL

(* For any windows and lists: while the list has not opened the overview,  *)
(* a key goes to another window than the start only if the user switched   *)
(* after the place where the code looks (batch.py).                        *)
THEOREM KeysStay == Spec => KeysStayHomeUnlessRaw
  <1>1. BatchInv /\ [Next]_vars => [astray' /\ ~astray => autoRaw]_(B!vars)
    <2> SUFFICES ASSUME BatchInv, [Next]_vars, astray', ~astray
                 PROVE  autoRaw
      BY Zenon
    <2>1. [B!Next]_bvars
      BY Zenon DEF Next, vars
    <2>2. phase = "send" /\ B!Wandered /\ ~unseen
      BY <2>1, Zenon DEF B!Next, bvars, B!RefusePlan, B!ReadBaseline, B!NoBaseline, B!OutOfTime, B!AllSent,
         B!Consider, B!Look,
         B!Send, B!Fail, B!TooLate, B!NewBaseline, B!LookAfterClick, B!GoOn, B!Finish, B!UserSwitches
    <2>3. ~autoRaw => B!Looks
      BY <2>2, Zenon DEF B!Wandered, B!Looks
    <2>4. LookedOK /\ focus # start
      BY <2>2, Zenon DEF BatchInv, B!Wandered
    <2> QED
      BY <2>2, <2>3, <2>4, Zenon DEF LookedOK
  <1> QED
    BY <1>1, BatchInvariant, PTL DEF Spec, KeysStayHomeUnlessRaw, B!KeysStayHomeUnlessRaw
-----------------------------------------------------------------------------
(* Bringing an application to the front.  The target has the focus only    *)
(* with a window; before it was looked for nothing was done; what was      *)
(* started waits for its window, which from then on is there unless it was *)
(* closed; behind the look at the list a window is one that came; and once *)
(* the overview was toggled, it is open, unless it was open already or the *)
(* user meddled since.                                                     *)
WindowOK ==
    /\ app \in {"closed", "starting", "shown"} /\ search \in {"shut", "empty", "typed"}
    /\ front = "target" => app = "shown"
    /\ {starts, listed, came, gone} \subseteq BOOLEAN
UntouchedOK ==
    /\ fpc \in {"activate", "observe", "list", "launch"} => ~opened /\ ~keys
    /\ fpc \in {"watch", "watchList", "again", "fits", "super"} => ~keys
ListedOK ==
    /\ fpc = "again" => listed
    /\ fpc = "fits" /\ opened => listed
    /\ fpc \notin {"idle", "activate", "observe", "list"} /\ listed => app = "shown" \/ gone
    /\ fpc \in {"activate", "observe", "list", "launch"} => ~listed /\ ~opened
LaunchOK == fpc = "launch" /\ ~starts /\ app = "shown" => came
SearchOK == fpc \in {"type", "return"} => search # "shut" \/ early \/ away

FrontInv == WindowOK /\ UntouchedOK /\ ListedOK /\ LaunchOK /\ SearchOK

LEMMA WindowsStay ==
  ASSUME WindowOK, [F!Next]_fvars
  PROVE  WindowOK'
  <1>1. CASE F!Begin
    BY <1>1 DEF F!Begin, F!Return, F!Activated, F!KeyFails, F!desk, F!call, F!told, F!seen, F!past, F!InFront,
       WindowOK
  <1>2. CASE F!Activate
    BY <1>2 DEF F!Activate, F!Return, F!Activated, F!KeyFails, F!desk, F!call, F!told, F!seen, F!past,
       F!InFront, WindowOK
  <1>3. CASE F!Observe
    BY <1>3 DEF F!Observe, F!Return, F!Activated, F!KeyFails, F!desk, F!call, F!told, F!seen, F!past,
       F!InFront, WindowOK
  <1>4. CASE F!List
    BY <1>4 DEF F!List, F!Return, F!Activated, F!KeyFails, F!desk, F!call, F!told, F!seen, F!past, F!InFront,
       WindowOK
  <1>5. CASE F!Launch
    BY <1>5 DEF F!Launch, F!Return, F!Activated, F!KeyFails, F!desk, F!call, F!told, F!seen, F!past,
       F!InFront, WindowOK
  <1>6. CASE F!WatchFocus
    BY <1>6 DEF F!WatchFocus, F!Return, F!Activated, F!KeyFails, F!desk, F!call, F!told, F!seen, F!past,
       F!InFront, WindowOK
  <1>7. CASE F!WatchList
    BY <1>7 DEF F!WatchList, F!Return, F!Activated, F!KeyFails, F!desk, F!call, F!told, F!seen, F!past,
       F!InFront, WindowOK
  <1>8. CASE F!ActivateAgain
    BY <1>8 DEF F!ActivateAgain, F!Return, F!Activated, F!KeyFails, F!desk, F!call, F!told, F!seen, F!past,
       F!InFront, WindowOK
  <1>9. CASE F!SearchFits
    BY <1>9 DEF F!SearchFits, F!Return, F!Activated, F!KeyFails, F!desk, F!call, F!told, F!seen, F!past,
       F!InFront, WindowOK
  <1>10. CASE F!Super
    BY <1>10 DEF F!Super, F!Return, F!Activated, F!KeyFails, F!desk, F!call, F!told, F!seen, F!past,
       F!InFront, WindowOK
  <1>11. CASE F!TypeName
    BY <1>11 DEF F!TypeName, F!Return, F!Activated, F!KeyFails, F!desk, F!call, F!told, F!seen, F!past,
       F!InFront, WindowOK
  <1>12. CASE F!Enter
    BY <1>12 DEF F!Enter, F!Return, F!Activated, F!KeyFails, F!desk, F!call, F!told, F!seen, F!past,
       F!InFront, WindowOK
  <1>13. CASE F!Verify
    BY <1>13 DEF F!Verify, F!Return, F!Activated, F!KeyFails, F!desk, F!call, F!told, F!seen, F!past,
       F!InFront, WindowOK
  <1>14. CASE F!EscapeTwice
    BY <1>14 DEF F!EscapeTwice, F!Return, F!Activated, F!KeyFails, F!desk, F!call, F!told, F!seen, F!past,
       F!InFront, WindowOK
  <1>15. CASE F!WindowShows
    BY <1>15 DEF F!WindowShows, F!Return, F!Activated, F!KeyFails, F!desk, F!call, F!told, F!seen, F!past,
       F!InFront, WindowOK
  <1>16. CASE F!UserMeddles
    BY <1>16 DEF F!UserMeddles, F!Return, F!Activated, F!KeyFails, F!desk, F!call, F!told, F!seen, F!past,
       F!InFront, WindowOK
  <1>17. CASE UNCHANGED fvars
    BY <1>17 DEF fvars, WindowOK
  <1> QED
    BY <1>1, <1>2, <1>3, <1>4, <1>5, <1>6, <1>7, <1>8, <1>9, <1>10, <1>11, <1>12, <1>13, <1>14, <1>15, <1>16,
       <1>17, Zenon DEF F!Next, F!Step

LEMMA UntouchedStays ==
  ASSUME UntouchedOK, [F!Next]_fvars
  PROVE  UntouchedOK'
  <1>1. CASE F!Begin
    BY <1>1 DEF F!Begin, F!Return, F!Activated, F!KeyFails, F!desk, F!call, F!told, F!seen, F!past, F!InFront,
       UntouchedOK
  <1>2. CASE F!Activate
    BY <1>2 DEF F!Activate, F!Return, F!Activated, F!KeyFails, F!desk, F!call, F!told, F!seen, F!past,
       F!InFront, UntouchedOK
  <1>3. CASE F!Observe
    BY <1>3 DEF F!Observe, F!Return, F!Activated, F!KeyFails, F!desk, F!call, F!told, F!seen, F!past,
       F!InFront, UntouchedOK
  <1>4. CASE F!List
    BY <1>4 DEF F!List, F!Return, F!Activated, F!KeyFails, F!desk, F!call, F!told, F!seen, F!past, F!InFront,
       UntouchedOK
  <1>5. CASE F!Launch
    BY <1>5 DEF F!Launch, F!Return, F!Activated, F!KeyFails, F!desk, F!call, F!told, F!seen, F!past,
       F!InFront, UntouchedOK
  <1>6. CASE F!WatchFocus
    BY <1>6 DEF F!WatchFocus, F!Return, F!Activated, F!KeyFails, F!desk, F!call, F!told, F!seen, F!past,
       F!InFront, UntouchedOK
  <1>7. CASE F!WatchList
    BY <1>7 DEF F!WatchList, F!Return, F!Activated, F!KeyFails, F!desk, F!call, F!told, F!seen, F!past,
       F!InFront, UntouchedOK
  <1>8. CASE F!ActivateAgain
    BY <1>8 DEF F!ActivateAgain, F!Return, F!Activated, F!KeyFails, F!desk, F!call, F!told, F!seen, F!past,
       F!InFront, UntouchedOK
  <1>9. CASE F!SearchFits
    BY <1>9 DEF F!SearchFits, F!Return, F!Activated, F!KeyFails, F!desk, F!call, F!told, F!seen, F!past,
       F!InFront, UntouchedOK
  <1>10. CASE F!Super
    BY <1>10 DEF F!Super, F!Return, F!Activated, F!KeyFails, F!desk, F!call, F!told, F!seen, F!past,
       F!InFront, UntouchedOK
  <1>11. CASE F!TypeName
    BY <1>11 DEF F!TypeName, F!Return, F!Activated, F!KeyFails, F!desk, F!call, F!told, F!seen, F!past,
       F!InFront, UntouchedOK
  <1>12. CASE F!Enter
    BY <1>12 DEF F!Enter, F!Return, F!Activated, F!KeyFails, F!desk, F!call, F!told, F!seen, F!past,
       F!InFront, UntouchedOK
  <1>13. CASE F!Verify
    BY <1>13 DEF F!Verify, F!Return, F!Activated, F!KeyFails, F!desk, F!call, F!told, F!seen, F!past,
       F!InFront, UntouchedOK
  <1>14. CASE F!EscapeTwice
    BY <1>14 DEF F!EscapeTwice, F!Return, F!Activated, F!KeyFails, F!desk, F!call, F!told, F!seen, F!past,
       F!InFront, UntouchedOK
  <1>15. CASE F!WindowShows
    BY <1>15 DEF F!WindowShows, F!Return, F!Activated, F!KeyFails, F!desk, F!call, F!told, F!seen, F!past,
       F!InFront, UntouchedOK
  <1>16. CASE F!UserMeddles
    BY <1>16 DEF F!UserMeddles, F!Return, F!Activated, F!KeyFails, F!desk, F!call, F!told, F!seen, F!past,
       F!InFront, UntouchedOK
  <1>17. CASE UNCHANGED fvars
    BY <1>17 DEF fvars, UntouchedOK
  <1> QED
    BY <1>1, <1>2, <1>3, <1>4, <1>5, <1>6, <1>7, <1>8, <1>9, <1>10, <1>11, <1>12, <1>13, <1>14, <1>15, <1>16,
       <1>17, Zenon DEF F!Next, F!Step

LEMMA ListedStays ==
  ASSUME WindowOK, ListedOK, [F!Next]_fvars
  PROVE  ListedOK'
  <1>1. CASE F!Begin
    BY <1>1 DEF F!Begin, F!Return, F!Activated, F!KeyFails, F!desk, F!call, F!told, F!seen, F!past, F!InFront,
       ListedOK
  <1>2. CASE F!Activate
    BY <1>2 DEF F!Activate, F!Return, F!Activated, F!KeyFails, F!desk, F!call, F!told, F!seen, F!past,
       F!InFront, ListedOK
  <1>3. CASE F!Observe
    BY <1>3 DEF F!Observe, F!Return, F!Activated, F!KeyFails, F!desk, F!call, F!told, F!seen, F!past,
       F!InFront, ListedOK
  <1>4. CASE F!List
    BY <1>4 DEF F!List, F!Return, F!Activated, F!KeyFails, F!desk, F!call, F!told, F!seen, F!past, F!InFront,
       ListedOK
  <1>5. CASE F!Launch
    BY <1>5 DEF F!Launch, F!Return, F!Activated, F!KeyFails, F!desk, F!call, F!told, F!seen, F!past,
       F!InFront, ListedOK
  <1>6. CASE F!WatchFocus
    BY <1>6 DEF F!WatchFocus, F!Return, F!Activated, F!KeyFails, F!desk, F!call, F!told, F!seen, F!past,
       F!InFront, ListedOK
  <1>7. CASE F!WatchList
    BY <1>7 DEF F!WatchList, F!Return, F!Activated, F!KeyFails, F!desk, F!call, F!told, F!seen, F!past,
       F!InFront, ListedOK
  <1>8. CASE F!ActivateAgain
    BY <1>8 DEF F!ActivateAgain, F!Return, F!Activated, F!KeyFails, F!desk, F!call, F!told, F!seen, F!past,
       F!InFront, ListedOK
  <1>9. CASE F!SearchFits
    BY <1>9 DEF F!SearchFits, F!Return, F!Activated, F!KeyFails, F!desk, F!call, F!told, F!seen, F!past,
       F!InFront, ListedOK
  <1>10. CASE F!Super
    BY <1>10 DEF F!Super, F!Return, F!Activated, F!KeyFails, F!desk, F!call, F!told, F!seen, F!past,
       F!InFront, ListedOK
  <1>11. CASE F!TypeName
    BY <1>11 DEF F!TypeName, F!Return, F!Activated, F!KeyFails, F!desk, F!call, F!told, F!seen, F!past,
       F!InFront, ListedOK
  <1>12. CASE F!Enter
    BY <1>12 DEF F!Enter, F!Return, F!Activated, F!KeyFails, F!desk, F!call, F!told, F!seen, F!past,
       F!InFront, ListedOK
  <1>13. CASE F!Verify
    BY <1>13 DEF F!Verify, F!Return, F!Activated, F!KeyFails, F!desk, F!call, F!told, F!seen, F!past,
       F!InFront, ListedOK
  <1>14. CASE F!EscapeTwice
    BY <1>14 DEF F!EscapeTwice, F!Return, F!Activated, F!KeyFails, F!desk, F!call, F!told, F!seen, F!past,
       F!InFront, ListedOK
  <1>15. CASE F!WindowShows
    BY <1>15 DEF F!WindowShows, F!Return, F!Activated, F!KeyFails, F!desk, F!call, F!told, F!seen, F!past,
       F!InFront, ListedOK
  <1>16. CASE F!UserMeddles
    BY <1>16 DEF F!UserMeddles, F!Return, F!Activated, F!KeyFails, F!desk, F!call, F!told, F!seen, F!past,
       F!InFront, ListedOK
  <1>17. CASE UNCHANGED fvars
    BY <1>17 DEF fvars, ListedOK
  <1> QED
    BY <1>1, <1>2, <1>3, <1>4, <1>5, <1>6, <1>7, <1>8, <1>9, <1>10, <1>11, <1>12, <1>13, <1>14, <1>15, <1>16,
       <1>17, Zenon DEF F!Next, F!Step

LEMMA LaunchStays ==
  ASSUME LaunchOK, [F!Next]_fvars
  PROVE  LaunchOK'
  <1>1. CASE F!Begin
    BY <1>1 DEF F!Begin, F!Return, F!Activated, F!KeyFails, F!desk, F!call, F!told, F!seen, F!past, F!InFront,
       LaunchOK
  <1>2. CASE F!Activate
    BY <1>2 DEF F!Activate, F!Return, F!Activated, F!KeyFails, F!desk, F!call, F!told, F!seen, F!past,
       F!InFront, LaunchOK
  <1>3. CASE F!Observe
    BY <1>3 DEF F!Observe, F!Return, F!Activated, F!KeyFails, F!desk, F!call, F!told, F!seen, F!past,
       F!InFront, LaunchOK
  <1>4. CASE F!List
    BY <1>4 DEF F!List, F!Return, F!Activated, F!KeyFails, F!desk, F!call, F!told, F!seen, F!past, F!InFront,
       LaunchOK
  <1>5. CASE F!Launch
    BY <1>5 DEF F!Launch, F!Return, F!Activated, F!KeyFails, F!desk, F!call, F!told, F!seen, F!past,
       F!InFront, LaunchOK
  <1>6. CASE F!WatchFocus
    BY <1>6 DEF F!WatchFocus, F!Return, F!Activated, F!KeyFails, F!desk, F!call, F!told, F!seen, F!past,
       F!InFront, LaunchOK
  <1>7. CASE F!WatchList
    BY <1>7 DEF F!WatchList, F!Return, F!Activated, F!KeyFails, F!desk, F!call, F!told, F!seen, F!past,
       F!InFront, LaunchOK
  <1>8. CASE F!ActivateAgain
    BY <1>8 DEF F!ActivateAgain, F!Return, F!Activated, F!KeyFails, F!desk, F!call, F!told, F!seen, F!past,
       F!InFront, LaunchOK
  <1>9. CASE F!SearchFits
    BY <1>9 DEF F!SearchFits, F!Return, F!Activated, F!KeyFails, F!desk, F!call, F!told, F!seen, F!past,
       F!InFront, LaunchOK
  <1>10. CASE F!Super
    BY <1>10 DEF F!Super, F!Return, F!Activated, F!KeyFails, F!desk, F!call, F!told, F!seen, F!past,
       F!InFront, LaunchOK
  <1>11. CASE F!TypeName
    BY <1>11 DEF F!TypeName, F!Return, F!Activated, F!KeyFails, F!desk, F!call, F!told, F!seen, F!past,
       F!InFront, LaunchOK
  <1>12. CASE F!Enter
    BY <1>12 DEF F!Enter, F!Return, F!Activated, F!KeyFails, F!desk, F!call, F!told, F!seen, F!past,
       F!InFront, LaunchOK
  <1>13. CASE F!Verify
    BY <1>13 DEF F!Verify, F!Return, F!Activated, F!KeyFails, F!desk, F!call, F!told, F!seen, F!past,
       F!InFront, LaunchOK
  <1>14. CASE F!EscapeTwice
    BY <1>14 DEF F!EscapeTwice, F!Return, F!Activated, F!KeyFails, F!desk, F!call, F!told, F!seen, F!past,
       F!InFront, LaunchOK
  <1>15. CASE F!WindowShows
    BY <1>15 DEF F!WindowShows, F!Return, F!Activated, F!KeyFails, F!desk, F!call, F!told, F!seen, F!past,
       F!InFront, LaunchOK
  <1>16. CASE F!UserMeddles
    BY <1>16 DEF F!UserMeddles, F!Return, F!Activated, F!KeyFails, F!desk, F!call, F!told, F!seen, F!past,
       F!InFront, LaunchOK
  <1>17. CASE UNCHANGED fvars
    BY <1>17 DEF fvars, LaunchOK
  <1> QED
    BY <1>1, <1>2, <1>3, <1>4, <1>5, <1>6, <1>7, <1>8, <1>9, <1>10, <1>11, <1>12, <1>13, <1>14, <1>15, <1>16,
       <1>17, Zenon DEF F!Next, F!Step

LEMMA SearchStays ==
  ASSUME SearchOK, [F!Next]_fvars
  PROVE  SearchOK'
  <1>1. CASE F!Begin
    BY <1>1, Zenon DEF F!Begin, F!Return, F!Activated, F!KeyFails, F!desk, F!call, F!told, F!seen, F!past,
       F!InFront, SearchOK
  <1>2. CASE F!Activate
    BY <1>2, Zenon DEF F!Activate, F!Return, F!Activated, F!KeyFails, F!desk, F!call, F!told, F!seen, F!past,
       F!InFront, SearchOK
  <1>3. CASE F!Observe
    BY <1>3, Zenon DEF F!Observe, F!Return, F!Activated, F!KeyFails, F!desk, F!call, F!told, F!seen, F!past,
       F!InFront, SearchOK
  <1>4. CASE F!List
    BY <1>4, Zenon DEF F!List, F!Return, F!Activated, F!KeyFails, F!desk, F!call, F!told, F!seen, F!past,
       F!InFront, SearchOK
  <1>5. CASE F!Launch
    BY <1>5, Zenon DEF F!Launch, F!Return, F!Activated, F!KeyFails, F!desk, F!call, F!told, F!seen, F!past,
       F!InFront, SearchOK
  <1>6. CASE F!WatchFocus
    BY <1>6, Zenon DEF F!WatchFocus, F!Return, F!Activated, F!KeyFails, F!desk, F!call, F!told, F!seen,
       F!past, F!InFront, SearchOK
  <1>7. CASE F!WatchList
    BY <1>7, Zenon DEF F!WatchList, F!Return, F!Activated, F!KeyFails, F!desk, F!call, F!told, F!seen, F!past,
       F!InFront, SearchOK
  <1>8. CASE F!ActivateAgain
    BY <1>8, Zenon DEF F!ActivateAgain, F!Return, F!Activated, F!KeyFails, F!desk, F!call, F!told, F!seen,
       F!past, F!InFront, SearchOK
  <1>9. CASE F!SearchFits
    BY <1>9, Zenon DEF F!SearchFits, F!Return, F!Activated, F!KeyFails, F!desk, F!call, F!told, F!seen,
       F!past, F!InFront, SearchOK
  <1>10. CASE F!Super
    BY <1>10, Zenon DEF F!Super, F!Return, F!Activated, F!KeyFails, F!desk, F!call, F!told, F!seen, F!past,
       F!InFront, SearchOK
  <1>11. CASE F!TypeName
    BY <1>11, Zenon DEF F!TypeName, F!Return, F!Activated, F!KeyFails, F!desk, F!call, F!told, F!seen, F!past,
       F!InFront, SearchOK
  <1>12. CASE F!Enter
    BY <1>12, Zenon DEF F!Enter, F!Return, F!Activated, F!KeyFails, F!desk, F!call, F!told, F!seen, F!past,
       F!InFront, SearchOK
  <1>13. CASE F!Verify
    BY <1>13, Zenon DEF F!Verify, F!Return, F!Activated, F!KeyFails, F!desk, F!call, F!told, F!seen, F!past,
       F!InFront, SearchOK
  <1>14. CASE F!EscapeTwice
    BY <1>14, Zenon DEF F!EscapeTwice, F!Return, F!Activated, F!KeyFails, F!desk, F!call, F!told, F!seen,
       F!past, F!InFront, SearchOK
  <1>15. CASE F!WindowShows
    BY <1>15, Zenon DEF F!WindowShows, F!Return, F!Activated, F!KeyFails, F!desk, F!call, F!told, F!seen,
       F!past, F!InFront, SearchOK
  <1>16. CASE F!UserMeddles
    BY <1>16, Zenon DEF F!UserMeddles, F!Return, F!Activated, F!KeyFails, F!desk, F!call, F!told, F!seen,
       F!past, F!InFront, SearchOK
  <1>17. CASE UNCHANGED fvars
    BY <1>17, Zenon DEF fvars, SearchOK
  <1> QED
    BY <1>1, <1>2, <1>3, <1>4, <1>5, <1>6, <1>7, <1>8, <1>9, <1>10, <1>11, <1>12, <1>13, <1>14, <1>15, <1>16,
       <1>17, Zenon DEF F!Next, F!Step

LEMMA FrontInvariant == Spec => []FrontInv
  <1>1. Init => FrontInv
    <2> SUFFICES ASSUME Init
                 PROVE  FrontInv
      OBVIOUS
    <2>1. /\ app \in {"closed", "starting", "shown"} /\ front \in {"other", "none"} /\ search \in {"shut", "empty"}
          /\ fpc = "idle" /\ starts = FALSE /\ listed = FALSE /\ came = FALSE /\ gone = FALSE
      BY Zenon DEF Init, F!Init
    <2> QED
      BY <2>1 DEF FrontInv, WindowOK, UntouchedOK, ListedOK, LaunchOK, SearchOK
  <1>2. FrontInv /\ [Next]_vars => FrontInv'
    <2> SUFFICES ASSUME FrontInv, [Next]_vars
                 PROVE  FrontInv'
      OBVIOUS
    <2>1. [F!Next]_fvars
      BY Zenon DEF Next, vars
    <2> QED
      BY <2>1, WindowsStay, UntouchedStays, ListedStays, LaunchStays, SearchStays DEF FrontInv
  <1> QED
    BY <1>1, <1>2, PTL DEF Spec

(* For any number of calls and interventions of the user: a call that is   *)
(* refused sent no key and left nothing but a window, a call that reports  *)
(* success has seen the window, an application that has one is not started *)
(* again unless the list was read too early, and the name that is typed    *)
(* into the search goes to no window (bring_to_front, apps.py).            *)
THEOREM FrontingTellsTrue == Spec => FrontingTold
  <1> DEFINE Refused == fpc # "idle" /\ fpc' = "idle" /\ fresult' \in {"refused", "noTime"} =>
                 ~keys' /\ (opened' => app' = "shown" \/ gone')
             Seen == fpc # "idle" /\ fpc' = "idle" =>
                 /\ fresult' \in {"extension", "already", "launch", "search"} => front' = "target" /\ search' = "shut"
                 /\ fresult' = "launched" => app' = "shown" \/ gone'
             Once == opened' /\ ~opened /\ ~starts /\ app = "shown" => came
             Stays == spilled' /\ ~spilled => early \/ away
  <1>1. FrontInv /\ [Next]_vars => [F!Next]_fvars /\ WindowOK /\ UntouchedOK /\ ListedOK /\ LaunchOK /\ SearchOK
    BY Zenon DEF Next, vars, FrontInv
  <1>2. UntouchedOK /\ ListedOK /\ [F!Next]_fvars => Refused
    <2> SUFFICES ASSUME UntouchedOK /\ ListedOK, [F!Next]_fvars, fpc # "idle", fpc' = "idle"
                 PROVE  Refused
      BY Zenon
    <2>1. CASE F!Begin
      BY <2>1 DEF F!Begin, F!Return, F!Activated, F!KeyFails, F!desk, F!call, F!told, F!seen, F!past,
         F!InFront, UntouchedOK, ListedOK
    <2>2. CASE F!Activate
      BY <2>2 DEF F!Activate, F!Return, F!Activated, F!KeyFails, F!desk, F!call, F!told, F!seen, F!past,
         F!InFront, UntouchedOK, ListedOK
    <2>3. CASE F!Observe
      BY <2>3 DEF F!Observe, F!Return, F!Activated, F!KeyFails, F!desk, F!call, F!told, F!seen, F!past,
         F!InFront, UntouchedOK, ListedOK
    <2>4. CASE F!List
      BY <2>4 DEF F!List, F!Return, F!Activated, F!KeyFails, F!desk, F!call, F!told, F!seen, F!past,
         F!InFront, UntouchedOK, ListedOK
    <2>5. CASE F!Launch
      BY <2>5 DEF F!Launch, F!Return, F!Activated, F!KeyFails, F!desk, F!call, F!told, F!seen, F!past,
         F!InFront, UntouchedOK, ListedOK
    <2>6. CASE F!WatchFocus
      BY <2>6 DEF F!WatchFocus, F!Return, F!Activated, F!KeyFails, F!desk, F!call, F!told, F!seen, F!past,
         F!InFront, UntouchedOK, ListedOK
    <2>7. CASE F!WatchList
      BY <2>7 DEF F!WatchList, F!Return, F!Activated, F!KeyFails, F!desk, F!call, F!told, F!seen, F!past,
         F!InFront, UntouchedOK, ListedOK
    <2>8. CASE F!ActivateAgain
      BY <2>8 DEF F!ActivateAgain, F!Return, F!Activated, F!KeyFails, F!desk, F!call, F!told, F!seen, F!past,
         F!InFront, UntouchedOK, ListedOK
    <2>9. CASE F!SearchFits
      BY <2>9 DEF F!SearchFits, F!Return, F!Activated, F!KeyFails, F!desk, F!call, F!told, F!seen, F!past,
         F!InFront, UntouchedOK, ListedOK
    <2>10. CASE F!Super
      BY <2>10 DEF F!Super, F!Return, F!Activated, F!KeyFails, F!desk, F!call, F!told, F!seen, F!past,
         F!InFront, UntouchedOK, ListedOK
    <2>11. CASE F!TypeName
      BY <2>11 DEF F!TypeName, F!Return, F!Activated, F!KeyFails, F!desk, F!call, F!told, F!seen, F!past,
         F!InFront, UntouchedOK, ListedOK
    <2>12. CASE F!Enter
      BY <2>12 DEF F!Enter, F!Return, F!Activated, F!KeyFails, F!desk, F!call, F!told, F!seen, F!past,
         F!InFront, UntouchedOK, ListedOK
    <2>13. CASE F!Verify
      BY <2>13 DEF F!Verify, F!Return, F!Activated, F!KeyFails, F!desk, F!call, F!told, F!seen, F!past,
         F!InFront, UntouchedOK, ListedOK
    <2>14. CASE F!EscapeTwice
      BY <2>14 DEF F!EscapeTwice, F!Return, F!Activated, F!KeyFails, F!desk, F!call, F!told, F!seen, F!past,
         F!InFront, UntouchedOK, ListedOK
    <2>15. CASE F!WindowShows
      BY <2>15 DEF F!WindowShows, F!Return, F!Activated, F!KeyFails, F!desk, F!call, F!told, F!seen, F!past,
         F!InFront, UntouchedOK, ListedOK
    <2>16. CASE F!UserMeddles
      BY <2>16 DEF F!UserMeddles, F!Return, F!Activated, F!KeyFails, F!desk, F!call, F!told, F!seen, F!past,
         F!InFront, UntouchedOK, ListedOK
    <2>17. CASE UNCHANGED fvars
      BY <2>17 DEF fvars, UntouchedOK, ListedOK
    <2> QED
      BY <2>1, <2>2, <2>3, <2>4, <2>5, <2>6, <2>7, <2>8, <2>9, <2>10, <2>11, <2>12, <2>13, <2>14, <2>15,
         <2>16, <2>17, Zenon DEF F!Next, F!Step
  <1>3. WindowOK /\ ListedOK /\ [F!Next]_fvars => Seen
    <2> SUFFICES ASSUME WindowOK /\ ListedOK, [F!Next]_fvars, fpc # "idle", fpc' = "idle"
                 PROVE  Seen
      BY Zenon
    <2>1. CASE F!Begin
      BY <2>1 DEF F!Begin, F!Return, F!Activated, F!KeyFails, F!desk, F!call, F!told, F!seen, F!past,
         F!InFront, WindowOK, ListedOK
    <2>2. CASE F!Activate
      BY <2>2 DEF F!Activate, F!Return, F!Activated, F!KeyFails, F!desk, F!call, F!told, F!seen, F!past,
         F!InFront, WindowOK, ListedOK
    <2>3. CASE F!Observe
      BY <2>3 DEF F!Observe, F!Return, F!Activated, F!KeyFails, F!desk, F!call, F!told, F!seen, F!past,
         F!InFront, WindowOK, ListedOK
    <2>4. CASE F!List
      BY <2>4 DEF F!List, F!Return, F!Activated, F!KeyFails, F!desk, F!call, F!told, F!seen, F!past,
         F!InFront, WindowOK, ListedOK
    <2>5. CASE F!Launch
      BY <2>5 DEF F!Launch, F!Return, F!Activated, F!KeyFails, F!desk, F!call, F!told, F!seen, F!past,
         F!InFront, WindowOK, ListedOK
    <2>6. CASE F!WatchFocus
      BY <2>6 DEF F!WatchFocus, F!Return, F!Activated, F!KeyFails, F!desk, F!call, F!told, F!seen, F!past,
         F!InFront, WindowOK, ListedOK
    <2>7. CASE F!WatchList
      BY <2>7 DEF F!WatchList, F!Return, F!Activated, F!KeyFails, F!desk, F!call, F!told, F!seen, F!past,
         F!InFront, WindowOK, ListedOK
    <2>8. CASE F!ActivateAgain
      BY <2>8 DEF F!ActivateAgain, F!Return, F!Activated, F!KeyFails, F!desk, F!call, F!told, F!seen, F!past,
         F!InFront, WindowOK, ListedOK
    <2>9. CASE F!SearchFits
      BY <2>9 DEF F!SearchFits, F!Return, F!Activated, F!KeyFails, F!desk, F!call, F!told, F!seen, F!past,
         F!InFront, WindowOK, ListedOK
    <2>10. CASE F!Super
      BY <2>10 DEF F!Super, F!Return, F!Activated, F!KeyFails, F!desk, F!call, F!told, F!seen, F!past,
         F!InFront, WindowOK, ListedOK
    <2>11. CASE F!TypeName
      BY <2>11 DEF F!TypeName, F!Return, F!Activated, F!KeyFails, F!desk, F!call, F!told, F!seen, F!past,
         F!InFront, WindowOK, ListedOK
    <2>12. CASE F!Enter
      BY <2>12 DEF F!Enter, F!Return, F!Activated, F!KeyFails, F!desk, F!call, F!told, F!seen, F!past,
         F!InFront, WindowOK, ListedOK
    <2>13. CASE F!Verify
      BY <2>13 DEF F!Verify, F!Return, F!Activated, F!KeyFails, F!desk, F!call, F!told, F!seen, F!past,
         F!InFront, WindowOK, ListedOK
    <2>14. CASE F!EscapeTwice
      BY <2>14 DEF F!EscapeTwice, F!Return, F!Activated, F!KeyFails, F!desk, F!call, F!told, F!seen, F!past,
         F!InFront, WindowOK, ListedOK
    <2>15. CASE F!WindowShows
      BY <2>15 DEF F!WindowShows, F!Return, F!Activated, F!KeyFails, F!desk, F!call, F!told, F!seen, F!past,
         F!InFront, WindowOK, ListedOK
    <2>16. CASE F!UserMeddles
      BY <2>16 DEF F!UserMeddles, F!Return, F!Activated, F!KeyFails, F!desk, F!call, F!told, F!seen, F!past,
         F!InFront, WindowOK, ListedOK
    <2>17. CASE UNCHANGED fvars
      BY <2>17 DEF fvars, WindowOK, ListedOK
    <2> QED
      BY <2>1, <2>2, <2>3, <2>4, <2>5, <2>6, <2>7, <2>8, <2>9, <2>10, <2>11, <2>12, <2>13, <2>14, <2>15,
         <2>16, <2>17, Zenon DEF F!Next, F!Step
  <1>4. SearchOK /\ [F!Next]_fvars => Stays
    <2> SUFFICES ASSUME SearchOK, [F!Next]_fvars, spilled', ~spilled
                 PROVE  early \/ away
      OBVIOUS
    <2>1. fpc \in {"type", "return"} /\ search = "shut"
      BY Zenon DEF F!Next, F!Step, fvars, F!Begin, F!Activate, F!Observe, F!List, F!Launch, F!WatchFocus,
         F!WatchList, F!ActivateAgain, F!SearchFits, F!Super, F!TypeName, F!Enter, F!Verify, F!EscapeTwice,
         F!WindowShows, F!UserMeddles, F!KeyFails, F!Return, F!Activated, F!call, F!past, F!seen, F!told,
         F!desk
    <2> QED
      BY <2>1, Zenon DEF SearchOK
  <1>5. LaunchOK /\ [F!Next]_fvars => Once
    <2> SUFFICES ASSUME LaunchOK, [F!Next]_fvars, opened', ~opened, ~starts, app = "shown"
                 PROVE  came
      OBVIOUS
    <2>1. fpc = "launch"
      BY Zenon DEF F!Next, F!Step, fvars, F!Begin, F!Activate, F!Observe, F!List, F!Launch, F!WatchFocus,
         F!WatchList, F!ActivateAgain, F!SearchFits, F!Super, F!TypeName, F!Enter, F!Verify, F!EscapeTwice,
         F!WindowShows, F!UserMeddles, F!KeyFails, F!Return, F!Activated, F!call, F!past, F!seen, F!told,
         F!desk
    <2> QED
      BY <2>1, Zenon DEF LaunchOK
  <1>6. FrontInv /\ [Next]_vars => [Refused]_(F!vars) /\ [Seen]_(F!vars) /\ [Once]_(F!vars) /\ [Stays]_(F!vars)
    BY <1>1, <1>2, <1>3, <1>4, <1>5, Zenon
  <1> QED
    BY <1>6, FrontInvariant, PTL DEF Spec, FrontingTold, F!RefusedLeavesWindow, F!SuccessIsSeen,
       F!NoSecondWindow, F!NameStaysInShutSearch
-----------------------------------------------------------------------------
(* The pipe to the native helper.                                          *)
ClientTypes ==
    /\ pc \in [Threads -> {"idle", "ensure", "start", "enqueue", "wait", "cancel", "register",
                           "publish", "gone", "stop", "reap", "forget", "unregister", "wake", "closed"}]
    /\ kind \in [Threads -> {"user", "initialize", "shutdown"}]
    /\ id \in [Threads -> 0..MaxIds] /\ then \in [Threads -> {"start", "raise", "closed"}]
    /\ lifecycle \in Threads \cup {NoThread}
    /\ current \in 0..MaxGens /\ entry \in {0, current}
    /\ ready \in BOOLEAN /\ closing \in BOOLEAN /\ closed \in BOOLEAN

RequestTypes ==
    /\ made \in Seq(0..MaxGens) /\ pending \subseteq N!Ids
    /\ result \in [N!Ids -> {"none", "answer", "crashed", "canceled"}]
    /\ loss \in [{"reader", "writer"} -> [N!Gens -> SUBSET N!Ids]]
    /\ abandoned \subseteq N!Ids /\ notStarted \subseteq N!Ids

QueueTypes == queue \in [N!Gens -> Seq(0..2 * MaxIds)] /\ hand \in [N!Gens -> 0..2 * MaxIds]

ChildTypes ==
    /\ writer \in [N!Gens -> {"none", "get", "write", "unregister", "fail", "end"}]
    /\ reader \in [N!Gens -> {"none", "read", "unregister", "fail", "end"}]
    /\ life \in [N!Gens -> {"none", "up", "dead"}]
    /\ inbox \in [N!Gens -> SUBSET N!Ids] /\ outbox \in [N!Gens -> SUBSET N!Ids]
    /\ disk \subseteq N!Gens

LateTypes == canceled \subseteq N!Ids /\ dropped \in 0..MaxGens /\ strayed \subseteq N!Gens

(* Who starts, initializes, stops or closes has the lifecycle lock, and    *)
(* knows whether there is a child.                                         *)
Requests(t) == pc[t] \in {"enqueue", "wait", "cancel"}
WithChild(t) == pc[t] \in {"register", "publish", "gone", "stop", "reap", "forget"} \/ (Requests(t) /\ kind[t] # "user")
Childless(t) == pc[t] \in {"start", "unregister", "closed"}
Closing(t) ==
    \/ Requests(t) /\ kind[t] = "shutdown"
    \/ pc[t] \in {"stop", "reap", "forget", "unregister"} /\ then[t] = "closed"
    \/ pc[t] \in {"wake", "closed"}

LockOK ==
    \A t \in Threads :
        /\ WithChild(t) \/ Childless(t) \/ pc[t] = "wake" => lifecycle = t /\ ~closed
        /\ WithChild(t) => current # 0
        /\ Childless(t) => current = 0
ChildOK ==
    /\ ready => current # 0
    /\ closed => current = 0 /\ ~ready
    /\ \A t \in Threads : pc[t] = "forget" => life[current] = "dead"
    /\ \A g \in N!Gens : life[g] = "up" => g = current
ClosingOK ==
    /\ \A t \in Threads : Closing(t) => closing /\ pending \subseteq (IF pc[t] = "wait" THEN {id[t]} ELSE {})
    /\ closed => pending = {}

(* Children are numbered in the order of their start, and have no threads  *)
(* before.                                                                 *)
OrderOK == \E k \in 0..MaxGens : \A g \in N!Gens : life[g] # "none" <=> g <= k
FreshOK == \A g \in N!Gens : life[g] = "none" => g # current /\ reader[g] = "none" /\ writer[g] = "none"

(* Every call keeps what it may still use of the ids.                      *)
Restarts(t) == pc[t] \in {"stop", "reap", "forget", "unregister"} /\ then[t] = "start"
One == {t \in Threads : pc[t] \in {"ensure", "start", "enqueue", "register", "publish", "wake"}
                        \/ (pc[t] = "wait" /\ kind[t] = "initialize") \/ Restarts(t)}
Two == {t \in Threads : pc[t] \in {"ensure", "start", "wake"}
                        \/ (pc[t] = "enqueue" /\ kind[t] = "initialize") \/ Restarts(t)}
RoomOK == Len(made) + Cardinality(One) + Cardinality(Two) <= MaxIds

(* Who waits for which request, and what is not yet used.                  *)
Made == 1..Len(made)
WaitOK ==
    /\ \A t \in Threads : pc[t] \in {"wait", "cancel"} => id[t] \in Made /\ made[id[t]] \in N!Gens
    /\ \A t \in Threads, u \in Threads : pc[t] = "wait" /\ pc[u] = "wait" /\ id[t] = id[u] => t = u
KnownOK ==
    /\ pending \subseteq Made /\ abandoned \subseteq Made /\ abandoned \cap pending = {}
    /\ \A r \in N!Ids : result[r] # "none" => r \in Made \ pending
    /\ \A x \in {"reader", "writer"}, g \in N!Gens : loss[x][g] \subseteq Made \ pending
    /\ \A r \in notStarted : r \in Made /\ made[r] = 0
CanceledOK == canceled \subseteq Made \ pending
LossOK ==
    \A g \in N!Gens :
        /\ loss["reader"][g] # {} => reader[g] \in {"unregister", "fail"}
        /\ loss["writer"][g] # {} => writer[g] \in {"unregister", "fail"}

(* A request is at one place of the pipe of the child it was made for.     *)
QueueOK ==
    \A g \in N!Gens :
        /\ Len(queue[g]) <= PendingLimit + 1
        /\ \A n \in 1..Len(queue[g]) : queue[g][n] \in N!Ids =>
             /\ queue[g][n] \in Made /\ made[queue[g][n]] = g
             /\ queue[g][n] # hand[g] /\ queue[g][n] \notin inbox[g]
        /\ \A m \in 1..Len(queue[g]), n \in 1..Len(queue[g]) :
             queue[g][m] \in N!Ids /\ queue[g][m] = queue[g][n] => m = n
PipeOK ==
    \A g \in N!Gens :
        /\ hand[g] \in N!Ids => hand[g] \in Made /\ made[hand[g]] = g /\ hand[g] \notin abandoned
        /\ \A r \in inbox[g] : r \in Made /\ made[r] = g /\ r \notin abandoned

PipeInv ==
    /\ ClientTypes /\ RequestTypes /\ QueueTypes /\ ChildTypes /\ LateTypes
    /\ LockOK /\ ChildOK /\ ClosingOK /\ OrderOK /\ FreshOK /\ RoomOK
    /\ WaitOK /\ KnownOK /\ CanceledOK /\ LossOK /\ QueueOK /\ PipeOK
    /\ N!PendingHasWaiter /\ N!UnlimitedWaitIsOwed /\ N!EntryAccounted

LEMMA PipeAssumed ==
  /\ IsFiniteSet(Threads) /\ NoThread \notin Threads
  /\ PendingLimit \in Nat \ {0} /\ MaxGens \in Nat /\ MaxIds \in Nat
  BY DeskAssumption DEF N!ClientAssumption, N!IsFiniteSet, IsFiniteSet

LEMMA PipeCardinality == \A set : N!Cardinality(set) = Cardinality(set)
  BY DEF N!Cardinality, Cardinality

LEMMA Ranges ==
  /\ N!Ids = 1..MaxIds /\ N!Gens = 1..MaxGens
  /\ \A r \in N!Ids : r \in Nat \ {0}
  /\ \A g \in N!Gens : g \in Nat \ {0}
  BY PipeAssumed DEF N!Ids, N!Gens

(* The next child is numbered after the others.                            *)
LEMMA NextChild ==
  ASSUME OrderOK
  PROVE  \E k \in 0..MaxGens : N!Started = k /\ \A g \in N!Gens : life[g] # "none" <=> g <= k
  <1>1. PICK k \in 0..MaxGens : \A g \in N!Gens : life[g] # "none" <=> g <= k
    BY DEF OrderOK
  <1>2. {g \in N!Gens : life[g] # "none"} = 1..k
    BY <1>1, PipeAssumed DEF N!Gens
  <1>3. Cardinality(1..k) = k
    BY <1>1, PipeAssumed, FS_Interval
  <1> QED
    BY <1>1, <1>2, <1>3, PipeCardinality DEF N!Started

(* Who is about to make a request has an id for it.                        *)
LEMMA RoomForOne ==
  ASSUME RequestTypes, RoomOK, NEW t \in Threads, pc[t] = "enqueue"
  PROVE  Len(made) \in Nat /\ Len(made) + 1 \in N!Ids
  <1>1. t \in One
    BY Zenon DEF One
  <1>2. IsFiniteSet(One) /\ IsFiniteSet(Two)
    <2>1. One \subseteq Threads /\ Two \subseteq Threads
      BY Zenon DEF One, Two
    <2> QED
      BY <2>1, PipeAssumed, FS_Subset
  <1>3. Cardinality(One) \in Nat /\ Cardinality(Two) \in Nat
    BY <1>2, FS_CardinalityType
  <1>4. Cardinality(One) # 0
    BY <1>1, <1>2, FS_EmptySet
  <1>5. Len(made) \in Nat
    BY DEF RequestTypes
  <1>6. Len(made) + Cardinality(One) + Cardinality(Two) <= MaxIds
    BY DEF RoomOK
  <1> QED
    BY <1>3, <1>4, <1>5, <1>6, PipeAssumed DEF N!Ids

(* What a queue may be replaced with.                                      *)
LEMMA QueueStep ==
  ASSUME QueueTypes, NEW g, NEW q \in Seq(0..2 * MaxIds), queue' = [queue EXCEPT ![g] = q]
  PROVE  queue' \in [N!Gens -> Seq(0..2 * MaxIds)]
  BY DEF QueueTypes

LEMMA SentinelStep ==
  ASSUME NEW q \in Seq(0..2 * MaxIds)
  PROVE  N!Sentinel(q) \in Seq(0..2 * MaxIds)
  <1>1. 0 \in 0..2 * MaxIds
    BY PipeAssumed
  <1>2. Append(q, 0) \in Seq(0..2 * MaxIds)
    BY <1>1, AppendProperties, Zenon
  <1> QED
    BY <1>2, Zenon DEF N!Sentinel, N!Stop

(* What is used of the room a call keeps.                                  *)
LEMMA RoomSizes ==
  /\ One \subseteq Threads /\ IsFiniteSet(One) /\ Cardinality(One) \in Nat
  /\ Two \subseteq Threads /\ IsFiniteSet(Two) /\ Cardinality(Two) \in Nat
  <1>1. One \subseteq Threads /\ Two \subseteq Threads
    BY Zenon DEF One, Two
  <1>2. IsFiniteSet(One) /\ IsFiniteSet(Two)
    BY <1>1, PipeAssumed, FS_Subset
  <1> QED
    BY <1>1, <1>2, FS_CardinalityType

LEMMA RoomKept ==
  ASSUME RequestTypes, RoomOK, One' \subseteq One, Two' \subseteq Two, Len(made') = Len(made)
  PROVE  RoomOK'
  <1>1. Cardinality(One') <= Cardinality(One) /\ Cardinality(One') \in Nat
    BY RoomSizes, FS_Subset, FS_CardinalityType
  <1>2. Cardinality(Two') <= Cardinality(Two) /\ Cardinality(Two') \in Nat
    BY RoomSizes, FS_Subset, FS_CardinalityType
  <1>3. Cardinality(One) \in Nat /\ Cardinality(Two) \in Nat /\ Len(made) \in Nat
    BY RoomSizes DEF RequestTypes
  <1>4. Len(made) + Cardinality(One) + Cardinality(Two) <= MaxIds
    BY DEF RoomOK
  <1>5. Len(made') + Cardinality(One') + Cardinality(Two') <= MaxIds
    BY <1>1, <1>2, <1>3, <1>4, PipeAssumed
  <1> QED
    BY <1>5 DEF RoomOK

LEMMA RoomUsed ==
  ASSUME RequestTypes, RoomOK, Len(made') = Len(made) + 1, NEW t,
         \/ t \in Two /\ Two' \subseteq Two \ {t} /\ One' \subseteq One
         \/ t \in One /\ One' \subseteq One \ {t} /\ Two' \subseteq Two
  PROVE  RoomOK'
  <1>1. Cardinality(One) \in Nat /\ Cardinality(Two) \in Nat /\ Len(made) \in Nat
    BY RoomSizes DEF RequestTypes
  <1>2. Len(made) + Cardinality(One) + Cardinality(Two) <= MaxIds
    BY DEF RoomOK
  <1>3. /\ Cardinality(One') \in Nat /\ Cardinality(Two') \in Nat
        /\ Cardinality(One') + Cardinality(Two') + 1 <= Cardinality(One) + Cardinality(Two)
    <2>1. CASE t \in Two /\ Two' \subseteq Two \ {t} /\ One' \subseteq One
      <3>1. Cardinality(One') <= Cardinality(One) /\ Cardinality(One') \in Nat
        BY <2>1, RoomSizes, FS_Subset, FS_CardinalityType
      <3>2. IsFiniteSet(Two \ {t}) /\ Cardinality(Two \ {t}) = Cardinality(Two) - 1
        BY <2>1, RoomSizes, FS_RemoveElement
      <3>3. Cardinality(Two') <= Cardinality(Two \ {t}) /\ Cardinality(Two') \in Nat
        BY <2>1, <3>2, FS_Subset, FS_CardinalityType
      <3> QED
        BY <1>1, <3>1, <3>2, <3>3
    <2>2. CASE t \in One /\ One' \subseteq One \ {t} /\ Two' \subseteq Two
      <3>1. Cardinality(Two') <= Cardinality(Two) /\ Cardinality(Two') \in Nat
        BY <2>2, RoomSizes, FS_Subset, FS_CardinalityType
      <3>2. IsFiniteSet(One \ {t}) /\ Cardinality(One \ {t}) = Cardinality(One) - 1
        BY <2>2, RoomSizes, FS_RemoveElement
      <3>3. Cardinality(One') <= Cardinality(One \ {t}) /\ Cardinality(One') \in Nat
        BY <2>2, <3>2, FS_Subset, FS_CardinalityType
      <3> QED
        BY <1>1, <3>1, <3>2, <3>3
    <2> QED
      BY <2>1, <2>2
  <1>4. Len(made') + Cardinality(One') + Cardinality(Two') <= MaxIds
    BY <1>1, <1>2, <1>3, PipeAssumed
  <1> QED
    BY <1>4 DEF RoomOK

LEMMA RoomTaken ==
  ASSUME RequestTypes, N!Room, NEW t \in Threads, Len(made') = Len(made),
         \A u \in Threads : pc'[u] # "idle" => pc[u] # "idle" \/ u = t
  PROVE  RoomOK'
  <1> DEFINE awake == {u \in Threads : pc[u] # "idle"}
  <1>1. IsFiniteSet(awake) /\ Cardinality(awake) \in Nat
    <2>1. awake \subseteq Threads
      OBVIOUS
    <2> QED
      BY <2>1, PipeAssumed, FS_Subset, FS_CardinalityType
  <1>2. /\ IsFiniteSet(awake \cup {t}) /\ Cardinality(awake \cup {t}) \in Nat
        /\ Cardinality(awake \cup {t}) <= Cardinality(awake) + 1
    <2> HIDE DEF awake
    <2>1. /\ IsFiniteSet(awake \cup {t})
          /\ Cardinality(awake \cup {t}) = IF t \in awake THEN Cardinality(awake) ELSE Cardinality(awake) + 1
      BY <1>1, FS_AddElement
    <2> QED
      BY <1>1, <2>1
  <1>3. One' \subseteq awake \cup {t} /\ Two' \subseteq awake \cup {t}
    <2>1. One' \subseteq {u \in Threads : pc'[u] # "idle"} /\ Two' \subseteq {u \in Threads : pc'[u] # "idle"}
      BY DEF One, Two, Restarts
    <2>2. {u \in Threads : pc'[u] # "idle"} \subseteq awake \cup {t}
      OBVIOUS
    <2> HIDE DEF awake
    <2> QED
      BY <2>1, <2>2
  <1>4. Len(made) + 2 * (1 + Cardinality(awake)) <= MaxIds
    BY PipeCardinality DEF N!Room
  <1> HIDE DEF awake
  <1>5. /\ Cardinality(One') <= Cardinality(awake) + 1 /\ Cardinality(One') \in Nat
        /\ Cardinality(Two') <= Cardinality(awake) + 1 /\ Cardinality(Two') \in Nat
    BY <1>1, <1>2, <1>3, FS_Subset, FS_CardinalityType
  <1>6. Len(made) \in Nat
    BY DEF RequestTypes
  <1>7. Len(made') + Cardinality(One') + Cardinality(Two') <= MaxIds
    BY <1>1, <1>4, <1>5, <1>6, PipeAssumed
  <1> QED
    BY <1>7 DEF RoomOK

(* A new child has no threads left over.                                   *)
LEMMA FreshStart ==
  ASSUME ClientTypes, ChildTypes, LockOK, OrderOK, FreshOK, NEW t \in Threads, N!Start(t)
  PROVE  /\ current = 0 /\ lifecycle = t
         /\ \E g \in N!Gens : /\ reader[g] = "none" /\ writer[g] = "none"
                            /\ reader' = [reader EXCEPT ![g] = "read"] /\ writer' = [writer EXCEPT ![g] = "get"]
  <1>1. PICK k \in 0..MaxGens : N!Started = k /\ \A g \in N!Gens : life[g] # "none" <=> g <= k
    BY NextChild, Zenon
  <1>2. k < MaxGens /\ reader' = [reader EXCEPT ![k + 1] = "read"] /\ writer' = [writer EXCEPT ![k + 1] = "get"]
    BY <1>1 DEF N!Start
  <1>3. k + 1 \in N!Gens /\ life[k + 1] = "none"
    BY <1>1, <1>2, PipeAssumed DEF N!Gens
  <1>4. reader[k + 1] = "none" /\ writer[k + 1] = "none"
    BY <1>3, Zenon DEF FreshOK
  <1>5. current = 0 /\ lifecycle = t
    BY Zenon DEF N!Start, LockOK, Childless
  <1> QED
    BY <1>2, <1>3, <1>4, <1>5, Zenon

LEMMA WaitedFor ==
  ASSUME ClientTypes, WaitOK, NEW t \in Threads, pc[t] = "wait"
  PROVE  id[t] \in N!Ids /\ \A u \in Threads : pc[u] = "wait" /\ u # t => id[u] # id[t]
  BY DEF ClientTypes, WaitOK, Made, N!Ids

(* Somebody is about to wake who waits for request r, or has done so.      *)
Wakes(r) ==
    \E g \in N!Gens :
        \/ reader[g] \in {"unregister", "fail"} /\ r \in loss["reader"][g]
        \/ writer[g] \in {"unregister", "fail"} /\ r \in loss["writer"][g]
Wanted(r) == r \in pending \/ result[r] # "none" \/ Wakes(r)
Recalled(r) == r \in canceled /\ \E u \in Threads : pc[u] = "wake"

LEMMA OwedKept ==
  ASSUME ClientTypes, WaitOK, N!UnlimitedWaitIsOwed,
         \A r \in N!Ids : Recalled(r) => Recalled(r)' \/ result'[r] # "none",
         \A u \in Threads : pc'[u] = "wait" => pc[u] = "wait" /\ id'[u] = id[u],
         \A r \in N!Ids : Wanted(r) /\ (\E u \in Threads : pc'[u] = "wait" /\ id[u] = r)
                          => Wanted(r)' \/ Recalled(r)'
  PROVE  N!UnlimitedWaitIsOwed'
  <1> SUFFICES ASSUME NEW u \in Threads, pc'[u] = "wait"
               PROVE  \/ id'[u] \in pending' \/ result'[id'[u]] # "none"
                      \/ id'[u] \in canceled' /\ \E v \in Threads : pc'[v] = "wake"
                      \/ \E g \in N!Gens :
                           \/ reader'[g] \in {"unregister", "fail"} /\ id'[u] \in loss'["reader"][g]
                           \/ writer'[g] \in {"unregister", "fail"} /\ id'[u] \in loss'["writer"][g]
    BY Zenon DEF N!UnlimitedWaitIsOwed
  <1>1. pc[u] = "wait" /\ id'[u] = id[u]
    BY Zenon
  <1>2. id[u] \in N!Ids
    BY <1>1, WaitedFor
  <1>3. Wanted(id[u]) \/ Recalled(id[u])
    BY <1>1, Zenon DEF N!UnlimitedWaitIsOwed, Wanted, Wakes, Recalled
  <1>4. PICK r \in N!Ids : r = id[u]
    BY <1>2
  <1>5. Wanted(r) \/ Recalled(r)
    BY <1>3, <1>4 DEF Wanted, Wakes, Recalled
  <1>6. Wanted(r)' \/ Recalled(r)'
    <2>1. CASE Wanted(r)
      BY <1>1, <1>4, <2>1, Zenon
    <2>2. CASE Recalled(r)
      BY <2>2, Zenon DEF Wanted
    <2> QED
      BY <1>5, <2>1, <2>2
  <1> QED
    BY <1>1, <1>4, <1>6 DEF Wanted, Wakes, Recalled

(* Whatever is not an id may join a queue, and a frame may go on to the    *)
(* child or be dropped.                                                    *)
LEMMA QueueKept ==
  ASSUME QueueTypes, QueueOK, NEW f \in Nat, f \notin N!Ids,
         \A g \in N!Gens : \/ queue'[g] = queue[g] \/ queue'[g] = <<>>
                           \/ queue'[g] = Append(queue[g], f) /\ Len(queue[g]) <= PendingLimit,
         \A g \in N!Gens : hand'[g] \in {hand[g], 0},
         \A g \in N!Gens : \A r \in inbox'[g] : r \in inbox[g] \/ r = hand[g],
         \A r \in Made : r \in Made' /\ made'[r] = made[r]
  PROVE  QueueOK'
  <1> SUFFICES ASSUME NEW g \in N!Gens
               PROVE  /\ Len(queue'[g]) <= PendingLimit + 1
                      /\ \A n \in 1..Len(queue'[g]) : queue'[g][n] \in N!Ids =>
                           /\ queue'[g][n] \in Made' /\ made'[queue'[g][n]] = g
                           /\ queue'[g][n] # hand'[g] /\ queue'[g][n] \notin inbox'[g]
                      /\ \A m \in 1..Len(queue'[g]), n \in 1..Len(queue'[g]) :
                           queue'[g][m] \in N!Ids /\ queue'[g][m] = queue'[g][n] => m = n
    BY Zenon DEF QueueOK
  <1>1. queue[g] \in Seq(0..2 * MaxIds) /\ Len(queue[g]) <= PendingLimit + 1 /\ Len(queue[g]) \in Nat
    BY DEF QueueTypes, QueueOK
  <1>2. \A n \in 1..Len(queue[g]) : queue[g][n] \in N!Ids =>
           /\ queue[g][n] \in Made' /\ made'[queue[g][n]] = g
           /\ queue[g][n] # hand'[g] /\ queue[g][n] \notin inbox'[g]
    BY Ranges DEF QueueOK
  <1>3. \A m \in 1..Len(queue[g]), n \in 1..Len(queue[g]) : queue[g][m] \in N!Ids /\ queue[g][m] = queue[g][n] => m = n
    BY DEF QueueOK
  <1>4. CASE queue'[g] = queue[g]
    BY <1>1, <1>2, <1>3, <1>4, Zenon
  <1>5. CASE queue'[g] = <<>>
    <2>1. Len(queue'[g]) = 0
      BY <1>5
    <2>2. 0 <= PendingLimit + 1 /\ 1..0 = {}
      BY PipeAssumed
    <2> QED
      BY <2>1, <2>2, Zenon
  <1>6. CASE queue'[g] = Append(queue[g], f) /\ Len(queue[g]) <= PendingLimit
    <2>1. /\ Len(queue'[g]) = Len(queue[g]) + 1 /\ queue'[g][Len(queue[g]) + 1] = f
          /\ \A n \in 1..Len(queue[g]) : queue'[g][n] = queue[g][n]
      BY <1>1, <1>6, PipeAssumed
    <2>2. \A n \in 1..Len(queue'[g]) : n \in 1..Len(queue[g]) \/ n = Len(queue[g]) + 1
      BY <1>1, <2>1
    <2>3. \A n \in 1..Len(queue'[g]) : queue'[g][n] \in N!Ids => n \in 1..Len(queue[g]) /\ queue'[g][n] = queue[g][n]
      BY <2>1, <2>2, Zenon
    <2>4. \A m \in 1..Len(queue'[g]), n \in 1..Len(queue'[g]) :
             queue'[g][m] \in N!Ids /\ queue'[g][m] = queue'[g][n] => m = n
      <3> SUFFICES ASSUME NEW m \in 1..Len(queue'[g]), NEW n \in 1..Len(queue'[g]),
                          queue'[g][m] \in N!Ids, queue'[g][m] = queue'[g][n]
                   PROVE  m = n
        BY Zenon
      <3>1. /\ m \in 1..Len(queue[g]) /\ queue'[g][m] = queue[g][m]
            /\ n \in 1..Len(queue[g]) /\ queue'[g][n] = queue[g][n]
        BY <2>3, Zenon
      <3> QED
        BY <1>3, <3>1, Zenon
    <2>5. Len(queue'[g]) <= PendingLimit + 1
      BY <1>1, <1>6, <2>1, PipeAssumed
    <2> QED
      BY <1>2, <2>3, <2>4, <2>5, Zenon
  <1> QED
    BY <1>4, <1>5, <1>6, Zenon

(* What is given up in a queue is not further on.                          *)
LEMMA GivenUpEarly ==
  ASSUME RequestTypes, QueueTypes, QueueOK, PipeOK, N!GiveUp, NEW g \in N!Gens
  PROVE  /\ hand[g] \in N!Ids => hand[g] \notin abandoned'
         /\ \A r \in inbox[g] : r \notin abandoned'
  <1>1. \A r \in abandoned' : r \notin abandoned =>
           r \in N!Ids /\ \E h \in N!Gens : made[r] = h /\ r # hand[h] /\ r \notin inbox[h]
    <2> SUFFICES ASSUME NEW r \in abandoned', r \notin abandoned
                 PROVE  r \in N!Ids /\ \E h \in N!Gens : made[r] = h /\ r # hand[h] /\ r \notin inbox[h]
      OBVIOUS
    <2>1. r \in pending /\ \E h \in N!Gens : r \in N!Queued(h)
      BY DEF N!GiveUp
    <2>2. PICK h \in N!Gens : r \in N!Queued(h)
      BY <2>1, Zenon
    <2>3. PICK n \in 1..Len(queue[h]) : r = queue[h][n]
      BY <2>2, Zenon DEF N!Queued
    <2>4. r \in N!Ids
      BY <2>1 DEF RequestTypes
    <2> QED
      BY <2>3, <2>4, Zenon DEF QueueOK
  <1>2. \A r \in inbox[g] : r \in Made /\ made[r] = g /\ r \notin abandoned
    BY Zenon DEF PipeOK
  <1>3. hand[g] \in N!Ids => made[hand[g]] = g /\ hand[g] \notin abandoned
    BY Zenon DEF PipeOK
  <1>4. ASSUME NEW r \in abandoned', r \notin abandoned, made[r] = g
        PROVE  r # hand[g] /\ r \notin inbox[g]
    BY <1>1, <1>4, Zenon
  <1> QED
    BY <1>2, <1>3, <1>4, Zenon

LEMMA PipeKept ==
  ASSUME RequestTypes, QueueTypes, QueueOK, PipeOK, N!GiveUp,
         \A g \in N!Gens : hand'[g] \in {hand[g], 0},
         \A g \in N!Gens : \A r \in inbox'[g] : r \in inbox[g] \/ (r = hand[g] /\ r \in N!Ids),
         \A r \in Made : r \in Made' /\ made'[r] = made[r]
  PROVE  PipeOK'
  <1> SUFFICES ASSUME NEW g \in N!Gens
               PROVE  /\ hand'[g] \in N!Ids => hand'[g] \in Made' /\ made'[hand'[g]] = g /\ hand'[g] \notin abandoned'
                      /\ \A r \in inbox'[g] : r \in Made' /\ made'[r] = g /\ r \notin abandoned'
    BY Zenon DEF PipeOK
  <1>1. 0 \notin N!Ids
    BY Ranges
  <1>2. hand[g] \in N!Ids => hand[g] \in Made' /\ made'[hand[g]] = g /\ hand[g] \notin abandoned'
    BY GivenUpEarly, Zenon DEF PipeOK
  <1>3. \A r \in inbox[g] : r \in Made' /\ made'[r] = g /\ r \notin abandoned'
    BY GivenUpEarly, Zenon DEF PipeOK
  <1>4. hand'[g] = hand[g] \/ hand'[g] = 0
    OBVIOUS
  <1> QED
    BY <1>1, <1>2, <1>3, <1>4, Zenon

LEMMA HeadIsFirst ==
  ASSUME NEW q \in Seq(0..2 * MaxIds), q # <<>>
  PROVE  Head(q) = q[1]
  OBVIOUS

(* Each part of the invariant is kept by every action: the actions that    *)
(* leave its variables alone first, then one case for each of the others.  *)
LEMMA ClientTypesStay ==
  ASSUME ClientTypes, RequestTypes, LockOK, OrderOK, RoomOK, [N!Next]_nvars
  PROVE  ClientTypes'
  <1>1. CASE UNCHANGED <<pc, kind, id, then, lifecycle, current, ready, closing, closed, entry>>
    BY <1>1 DEF ClientTypes
  <1>2. ASSUME NEW g \in N!Gens, N!GiveUp, N!ReadAnswer(g) \/ N!WriterTakes(g) \/ N!WriterWrites(g) \/
     N!ThreadFails(g) \/ N!ChildAnswers(g) \/ N!ChildDies(g)
         PROVE  UNCHANGED <<pc, kind, id, then, lifecycle, current, ready, closing, closed, entry>>
    BY <1>2, Zenon DEF N!ReadAnswer, N!WriterTakes, N!Taken, N!WriterWrites, N!ThreadFails, N!Unregister,
       N!WakeFailed, N!Sentinel, N!ChildAnswers, N!ChildDies, N!threadvars, N!clientvars, N!readvars,
       N!pipevars, N!childvars
  <1>3. ASSUME NEW t \in Threads, N!Call(t), N!GiveUp
         PROVE  ClientTypes'
    BY <1>3 DEF N!Call, N!Goto, ClientTypes, N!threadvars, N!clientvars, N!readvars, N!pipevars, N!childvars
  <1>4. ASSUME NEW t \in Threads, N!Close(t), N!GiveUp
         PROVE  ClientTypes'
    BY <1>4 DEF N!Close, N!Goto, N!Running, N!Exited, ClientTypes, N!threadvars, N!clientvars,
       N!readvars, N!pipevars, N!childvars
  <1>5. ASSUME NEW t \in Threads, N!EnsureClosed(t), N!GiveUp
         PROVE  ClientTypes'
    BY <1>5 DEF N!EnsureClosed, N!Goto, ClientTypes, N!threadvars, N!clientvars, N!readvars, N!pipevars,
       N!childvars
  <1>6. ASSUME NEW t \in Threads, N!EnsureReady(t), N!GiveUp
         PROVE  ClientTypes'
    BY <1>6 DEF N!EnsureReady, N!Goto, N!Running, N!Exited, ClientTypes, N!threadvars, N!clientvars, N!readvars,
       N!pipevars, N!childvars
  <1>7. ASSUME NEW t \in Threads, N!EnsureRestart(t), N!GiveUp
         PROVE  ClientTypes'
    BY <1>7 DEF N!EnsureRestart, N!Goto, ClientTypes, N!threadvars, N!clientvars, N!readvars, N!pipevars,
       N!childvars
  <1>8. ASSUME NEW t \in Threads, N!Start(t), N!GiveUp
         PROVE  ClientTypes'
    <2>1. N!Started + 1 \in 0..MaxGens
      BY <1>8, NextChild, PipeAssumed DEF N!Start
    <2>2. entry = 0
      BY <1>8 DEF N!Start, LockOK, Childless, ClientTypes
    <2> QED
      BY <1>8, <2>1, <2>2 DEF N!Start, N!Goto, ClientTypes
  <1>9. ASSUME NEW t \in Threads, N!StartFails(t), N!GiveUp
         PROVE  ClientTypes'
    BY <1>9 DEF N!StartFails, N!Goto, ClientTypes, N!threadvars, N!clientvars, N!readvars, N!pipevars,
       N!childvars
  <1>10. ASSUME NEW t \in Threads, N!Refuse(t), N!GiveUp
         PROVE  ClientTypes'
    BY <1>10 DEF N!Refuse, N!Unsent, N!Failed, N!Goto, ClientTypes, N!threadvars, N!clientvars, N!readvars,
       N!pipevars, N!childvars
  <1>11. ASSUME NEW t \in Threads, N!BeBusy(t), N!GiveUp
         PROVE  ClientTypes'
    BY <1>11 DEF N!BeBusy, N!Unsent, N!Failed, N!Goto, ClientTypes, N!threadvars, N!clientvars, N!readvars,
       N!pipevars, N!childvars
  <1>12. ASSUME NEW t \in Threads, N!Enqueue(t), N!GiveUp
         PROVE  ClientTypes'
    <2>1. Len(made) + 1 \in 0..MaxIds
      BY <1>12, RoomForOne, Ranges, PipeAssumed DEF N!Enqueue
    <2>2. id' = [id EXCEPT ![t] = Len(made) + 1] /\ pc' = [pc EXCEPT ![t] = "wait"]
      BY <1>12, Zenon DEF N!Enqueue, N!Goto
    <2>3. UNCHANGED <<kind, then, lifecycle, current, ready, closing, closed, entry>>
      BY <1>12, Zenon DEF N!Enqueue
    <2> QED
      BY <2>1, <2>2, <2>3 DEF ClientTypes
  <1>13. ASSUME NEW t \in Threads, N!Done(t), N!GiveUp
         PROVE  ClientTypes'
    BY <1>13, PipeAssumed DEF N!Done, N!Failed, N!Goto, ClientTypes, N!threadvars, N!clientvars, N!readvars,
       N!pipevars, N!childvars
  <1>14. ASSUME NEW t \in Threads, N!TimeOut(t), N!GiveUp
         PROVE  ClientTypes'
    BY <1>14 DEF N!TimeOut, N!Goto, ClientTypes, N!threadvars, N!clientvars, N!readvars, N!pipevars, N!childvars
  <1>15. ASSUME NEW t \in Threads, N!SendCancel(t), N!GiveUp
         PROVE  ClientTypes'
    BY <1>15, PipeAssumed DEF N!SendCancel, N!Failed, N!Goto, N!CancelFrame, ClientTypes, N!threadvars,
       N!clientvars, N!readvars, N!pipevars, N!childvars
  <1>16. ASSUME NEW t \in Threads, N!Register(t), N!GiveUp
         PROVE  ClientTypes'
    BY <1>16 DEF N!Register, N!Goto, ClientTypes, N!threadvars, N!clientvars, N!readvars, N!pipevars,
       N!childvars
  <1>17. ASSUME NEW t \in Threads, N!Publish(t), N!GiveUp
         PROVE  ClientTypes'
    BY <1>17 DEF N!Publish, N!Goto, N!Running, N!Exited, ClientTypes, N!threadvars, N!clientvars, N!readvars,
       N!pipevars, N!childvars
  <1>18. ASSUME NEW t \in Threads, N!PublishGone(t), N!GiveUp
         PROVE  ClientTypes'
    BY <1>18 DEF N!PublishGone, N!Goto, ClientTypes, N!threadvars, N!clientvars, N!readvars, N!pipevars,
       N!childvars
  <1>19. ASSUME NEW t \in Threads, N!StopProcess(t), N!GiveUp
         PROVE  ClientTypes'
    BY <1>19 DEF N!StopProcess, N!Goto, N!Sentinel, ClientTypes, N!threadvars, N!clientvars, N!readvars,
       N!pipevars, N!childvars
  <1>20. ASSUME NEW t \in Threads, N!Reap(t), N!GiveUp
         PROVE  ClientTypes'
    BY <1>20 DEF N!Reap, N!Goto, ClientTypes, N!threadvars, N!clientvars, N!readvars, N!pipevars, N!childvars
  <1>21. ASSUME NEW t \in Threads, N!Forget(t), N!GiveUp
         PROVE  ClientTypes'
    <2>1. current' = 0 /\ ready' = FALSE /\ entry' = 0 /\ UNCHANGED <<id, kind, then, lifecycle, closing, closed>>
      BY <1>21, Zenon DEF N!Forget
    <2>2. pc' = [pc EXCEPT ![t] = "unregister"]
      BY <1>21, Zenon DEF N!Forget, N!Goto
    <2>3. current' \in 0..MaxGens /\ entry' \in {0, current'} /\ ready' \in BOOLEAN
      <3>1. current' = 0 /\ entry' = 0
        BY <2>1, Zenon
      <3>2. ready' \in BOOLEAN
        BY <2>1, Zenon
      <3> QED
        BY <3>1, <3>2, PipeAssumed
    <2> QED
      BY <2>1, <2>2, <2>3 DEF ClientTypes
  <1>22. ASSUME NEW t \in Threads, N!Closed(t), N!GiveUp
         PROVE  ClientTypes'
    BY <1>22 DEF N!Closed, N!Goto, ClientTypes, N!threadvars, N!clientvars, N!readvars, N!pipevars, N!childvars
  <1>23. ASSUME NEW g \in N!Gens, N!ReadFails(g), N!GiveUp
         PROVE  ClientTypes'
    BY <1>23 DEF N!ReadFails, N!FailGeneration, N!Exited, ClientTypes, N!threadvars, N!clientvars, N!readvars,
       N!pipevars, N!childvars
  <1>24. ASSUME NEW g \in N!Gens, N!WriterBreaks(g), N!GiveUp
         PROVE  ClientTypes'
    BY <1>24 DEF N!WriterBreaks, N!FailGeneration, N!Exited, ClientTypes, N!threadvars, N!clientvars,
       N!readvars, N!pipevars, N!childvars
  <1>30. ASSUME NEW t \in Threads, N!Withdraw(t), N!GiveUp
         PROVE  ClientTypes'
    BY <1>30 DEF N!Withdraw, N!Goto, ClientTypes, N!threadvars, N!clientvars, N!readvars, N!pipevars,
       N!childvars
  <1>31. ASSUME NEW t \in Threads, N!Unlist(t), N!GiveUp
         PROVE  ClientTypes'
    <2>1. UNCHANGED <<id, current, entry, ready, closing, closed>>
      BY <1>31, Zenon DEF N!Unlist, N!clientvars
    <2>2. \E l \in {"start", "idle", "closed"} : pc' = [pc EXCEPT ![t] = l]
      <3>1. then[t] \in {"start", "raise", "closed"}
        BY <1>31 DEF ClientTypes
      <3> QED
        BY <1>31, <3>1 DEF N!Unlist, N!Goto
    <2>3. lifecycle' \in {lifecycle, NoThread} /\ kind' \in {kind, [kind EXCEPT ![t] = "user"]}
          /\ then' = [then EXCEPT ![t] = "start"]
      BY <1>31 DEF N!Unlist
    <2>4. pc' \in [Threads -> {"idle", "ensure", "start", "enqueue", "wait", "cancel", "register",
                            "publish", "gone", "stop", "reap", "forget", "unregister", "wake", "closed"}]
      <3>1. PICK l \in {"start", "idle", "closed"} : pc' = [pc EXCEPT ![t] = l]
        BY <2>2
      <3> QED
        BY <3>1 DEF ClientTypes
    <2>5. kind' \in [Threads -> {"user", "initialize", "shutdown"}]
      <3>1. [kind EXCEPT ![t] = "user"] \in [Threads -> {"user", "initialize", "shutdown"}]
        BY DEF ClientTypes
      <3> QED
        BY <2>3, <3>1, Zenon DEF ClientTypes
    <2>6. then' \in [Threads -> {"start", "raise", "closed"}] /\ lifecycle' \in Threads \cup {NoThread}
      BY <2>3 DEF ClientTypes
    <2>7. current' \in 0..MaxGens /\ entry' \in {0, current'} /\ ready' \in BOOLEAN
      BY <2>1, Zenon DEF ClientTypes
    <2> QED
      BY <2>1, <2>4, <2>5, <2>6, <2>7, Zenon DEF ClientTypes
  <1>32. ASSUME NEW t \in Threads, N!Wake(t), N!GiveUp
         PROVE  ClientTypes'
    BY <1>32 DEF N!Wake, N!Goto, N!Running, N!Exited, ClientTypes, N!threadvars, N!clientvars,
       N!readvars, N!pipevars, N!childvars
  <1> QED
    BY <1>1, <1>2, <1>3, <1>4, <1>5, <1>6, <1>7, <1>8, <1>9, <1>10, <1>11, <1>12, <1>13, <1>14, <1>15, <1>16,
       <1>17, <1>18, <1>19, <1>20, <1>21, <1>22, <1>23, <1>24, <1>30, <1>31, <1>32, Zenon DEF N!Next, N!Proceed, N!Threading, nvars

LEMMA RequestTypesStay ==
  ASSUME ClientTypes, RequestTypes, RoomOK, [N!Next]_nvars
  PROVE  RequestTypes'
  <1>1. CASE UNCHANGED <<made, pending, result, loss, abandoned, notStarted>>
    BY <1>1 DEF RequestTypes
  <1>2. ASSUME NEW t \in Threads, N!GiveUp, N!Call(t) \/ N!Unlist(t) \/ N!Withdraw(t) \/ N!EnsureClosed(t) \/ N!EnsureReady(t) \/
     N!EnsureRestart(t) \/ N!Start(t) \/ N!StartFails(t) \/ N!SendCancel(t) \/ N!Register(t) \/ N!Publish(t) \/
     N!PublishGone(t) \/ N!StopProcess(t) \/ N!Reap(t) \/ N!Forget(t) \/ N!Closed(t)
         PROVE  UNCHANGED <<made, pending, result, loss, abandoned, notStarted>>
    BY <1>2, Zenon DEF N!Call, N!Unlist, N!Withdraw, N!Goto, N!EnsureClosed, N!EnsureReady, N!Running,
       N!Exited, N!EnsureRestart,
       N!Start, N!StartFails, N!SendCancel, N!Failed, N!CancelFrame, N!Register, N!Publish, N!PublishGone,
       N!StopProcess, N!Sentinel, N!Reap, N!Forget, N!Closed, N!GiveUp, N!threadvars, N!clientvars, N!readvars,
       N!pipevars, N!childvars
  <1>3. ASSUME NEW g \in N!Gens, N!GiveUp, N!WriterTakes(g) \/ N!WriterWrites(g) \/ N!ChildAnswers(g) \/
     N!ChildDies(g)
         PROVE  UNCHANGED <<made, pending, result, loss, abandoned, notStarted>>
    BY <1>3, Zenon DEF N!WriterTakes, N!Taken, N!WriterWrites, N!ChildAnswers, N!ChildDies, N!GiveUp,
       N!threadvars, N!clientvars, N!readvars, N!pipevars, N!childvars
  <1>4. ASSUME NEW t \in Threads, N!Close(t), N!GiveUp
         PROVE  RequestTypes'
    BY <1>4 DEF N!Close, N!Goto, N!Running, N!Exited, RequestTypes, N!threadvars, N!clientvars,
       N!readvars, N!pipevars, N!childvars, N!GiveUp
  <1>5. ASSUME NEW t \in Threads, N!Refuse(t), N!GiveUp
         PROVE  RequestTypes'
    BY <1>5, RoomForOne, PipeAssumed DEF N!Refuse, N!Unsent, N!Failed, N!Goto, RequestTypes, N!threadvars,
       N!clientvars, N!readvars, N!pipevars, N!childvars, N!GiveUp
  <1>6. ASSUME NEW t \in Threads, N!BeBusy(t), N!GiveUp
         PROVE  RequestTypes'
    BY <1>6, RoomForOne, PipeAssumed DEF N!BeBusy, N!Unsent, N!Failed, N!Goto, RequestTypes, N!threadvars,
       N!clientvars, N!readvars, N!pipevars, N!childvars, N!GiveUp
  <1>7. ASSUME NEW t \in Threads, N!Enqueue(t), N!GiveUp
         PROVE  RequestTypes'
    <2>1. Len(made) + 1 \in N!Ids
      BY <1>7, RoomForOne DEF N!Enqueue
    <2>2. made' = Append(made, current) /\ pending' = pending \cup {Len(made) + 1}
      BY <1>7, Zenon DEF N!Enqueue
    <2>3. UNCHANGED <<result, loss, notStarted>> /\ abandoned' = abandoned
      <3>1. UNCHANGED <<result, loss, notStarted>>
        BY <1>7, Zenon DEF N!Enqueue, N!readvars
      <3>2. pending \ pending' = {}
        BY <2>2
      <3> QED
        BY <1>7, <3>1, <3>2 DEF N!GiveUp
    <2>4. current \in 0..MaxGens
      BY DEF ClientTypes
    <2> QED
      BY <2>1, <2>2, <2>3, <2>4 DEF RequestTypes
  <1>8. ASSUME NEW t \in Threads, N!Done(t), N!GiveUp
         PROVE  RequestTypes'
    BY <1>8 DEF N!Done, N!Failed, N!Goto, RequestTypes, N!threadvars, N!clientvars, N!readvars, N!pipevars,
       N!childvars, N!GiveUp
  <1>9. ASSUME NEW t \in Threads, N!TimeOut(t), N!GiveUp
         PROVE  RequestTypes'
    BY <1>9 DEF N!TimeOut, N!Goto, RequestTypes, N!threadvars, N!clientvars, N!readvars, N!pipevars,
       N!childvars, N!GiveUp
  <1>10. ASSUME NEW g \in N!Gens, N!ReadAnswer(g), N!GiveUp
         PROVE  RequestTypes'
    BY <1>10 DEF N!ReadAnswer, RequestTypes, N!threadvars, N!clientvars, N!readvars, N!pipevars, N!childvars,
       N!GiveUp
  <1>11. ASSUME NEW g \in N!Gens, N!ReadFails(g), N!GiveUp
         PROVE  RequestTypes'
    BY <1>11 DEF N!ReadFails, N!FailGeneration, N!Exited, RequestTypes, N!threadvars, N!clientvars, N!readvars,
       N!pipevars, N!childvars, N!GiveUp
  <1>12. ASSUME NEW g \in N!Gens, N!WriterBreaks(g), N!GiveUp
         PROVE  RequestTypes'
    BY <1>12 DEF N!WriterBreaks, N!FailGeneration, N!Exited, RequestTypes, N!threadvars, N!clientvars,
       N!readvars, N!pipevars, N!childvars, N!GiveUp
  <1>13. ASSUME NEW g \in N!Gens, N!ThreadFails(g), N!GiveUp
         PROVE  RequestTypes'
    <2>1. UNCHANGED <<made, pending, notStarted>>
      BY <1>13, Zenon DEF N!ThreadFails
    <2>2. abandoned' = abandoned
      BY <1>13, <2>1 DEF N!GiveUp
    <2>3. result' \in [N!Ids -> {"none", "answer", "crashed", "canceled"}]
      BY <1>13 DEF N!ThreadFails, N!Unregister, N!WakeFailed, RequestTypes
    <2>4. loss' \in [{"reader", "writer"} -> [N!Gens -> SUBSET N!Ids]]
      BY <1>13 DEF N!ThreadFails, N!Unregister, N!WakeFailed, RequestTypes
    <2> QED
      BY <2>1, <2>2, <2>3, <2>4, Zenon DEF RequestTypes
  <1>32. ASSUME NEW t \in Threads, N!Wake(t), N!GiveUp
         PROVE  RequestTypes'
    <2>1. UNCHANGED <<made, pending, loss, notStarted>>
      BY <1>32, Zenon DEF N!Wake, N!pipevars, N!readvars
    <2>2. abandoned' = abandoned
      BY <1>32, <2>1 DEF N!GiveUp
    <2>3. result' \in [N!Ids -> {"none", "answer", "crashed", "canceled"}]
      BY <1>32 DEF N!Wake, RequestTypes
    <2> QED
      BY <2>1, <2>2, <2>3, Zenon DEF RequestTypes
  <1> QED
    BY <1>1, <1>2, <1>3, <1>4, <1>5, <1>6, <1>7, <1>8, <1>9, <1>10, <1>11, <1>12, <1>13, <1>32, Zenon DEF N!Next,
       N!Proceed, N!Threading, nvars

LEMMA QueueTypesStay ==
  ASSUME ClientTypes, RequestTypes, QueueTypes, RoomOK, WaitOK, [N!Next]_nvars
  PROVE  QueueTypes'
  <1>1. CASE UNCHANGED <<queue, hand>>
    BY <1>1 DEF QueueTypes
  <1>2. ASSUME NEW t \in Threads, N!GiveUp, N!Call(t) \/ N!Wake(t) \/ N!Unlist(t) \/ N!Withdraw(t) \/ N!Close(t) \/ N!EnsureClosed(t) \/ N!EnsureReady(t) \/
     N!EnsureRestart(t) \/ N!Start(t) \/ N!StartFails(t) \/ N!Refuse(t) \/ N!BeBusy(t) \/ N!Done(t) \/
     N!TimeOut(t) \/ N!Register(t) \/ N!Publish(t) \/ N!PublishGone(t) \/ N!Reap(t) \/ N!Closed(t)
         PROVE  UNCHANGED <<queue, hand>>
    BY <1>2, Zenon DEF N!Call, N!Wake, N!Unlist, N!Withdraw, N!Goto, N!Close, N!Running, N!Exited, N!EnsureClosed,
       N!EnsureReady, N!EnsureRestart, N!Start, N!StartFails, N!Refuse, N!Unsent, N!Failed, N!BeBusy, N!Done,
       N!TimeOut, N!Register, N!Publish, N!PublishGone, N!Reap, N!Closed, N!threadvars, N!clientvars,
       N!readvars, N!pipevars, N!childvars
  <1>3. ASSUME NEW g \in N!Gens, N!GiveUp, N!ReadAnswer(g) \/ N!ReadFails(g) \/ N!ChildAnswers(g) \/
     N!ChildDies(g)
         PROVE  UNCHANGED <<queue, hand>>
    BY <1>3, Zenon DEF N!ReadAnswer, N!ReadFails, N!FailGeneration, N!Exited, N!ChildAnswers, N!ChildDies,
       N!threadvars, N!clientvars, N!readvars, N!pipevars, N!childvars
  <1>4. ASSUME NEW t \in Threads, N!Enqueue(t), N!GiveUp
         PROVE  QueueTypes'
    <2>1. Len(made) + 1 \in 0..2 * MaxIds
      BY <1>4, RoomForOne, Ranges, PipeAssumed DEF N!Enqueue
    <2>2. current \in N!Gens => Append(queue[current], Len(made) + 1) \in Seq(0..2 * MaxIds)
      BY <2>1 DEF QueueTypes
    <2>3. queue' = [queue EXCEPT ![current] = Append(@, Len(made) + 1)] /\ hand' = hand
      BY <1>4, Zenon DEF N!Enqueue
    <2> QED
      BY <2>2, <2>3 DEF QueueTypes
  <1>5. ASSUME NEW t \in Threads, N!SendCancel(t), N!GiveUp
         PROVE  QueueTypes'
    <2>1. N!CancelFrame(id[t]) \in 0..2 * MaxIds
      BY <1>5, PipeAssumed DEF N!SendCancel, N!CancelFrame, WaitOK, ClientTypes
    <2> DEFINE g == made[id[t]]
    <2>2. g \in N!Gens => Append(queue[g], N!CancelFrame(id[t])) \in Seq(0..2 * MaxIds)
      BY <2>1 DEF QueueTypes
    <2>3. queue' = [queue EXCEPT ![g] = IF current = g /\ Len(@) <= PendingLimit
                                        THEN Append(@, N!CancelFrame(id[t])) ELSE @]
          /\ hand' = hand
      BY <1>5, Zenon DEF N!SendCancel
    <2> QED
      BY <2>2, <2>3 DEF QueueTypes
  <1>6. ASSUME NEW t \in Threads, N!StopProcess(t), N!GiveUp
         PROVE  QueueTypes'
    <2>1. current \in N!Gens => N!Sentinel(queue[current]) \in Seq(0..2 * MaxIds)
      BY SentinelStep DEF QueueTypes
    <2>2. queue' = [queue EXCEPT ![current] = N!Sentinel(@)] /\ hand' = hand
      BY <1>6, Zenon DEF N!StopProcess
    <2> QED
      BY <2>1, <2>2 DEF QueueTypes
  <1>7. ASSUME NEW t \in Threads, N!Forget(t), N!GiveUp
         PROVE  QueueTypes'
    <2>1. queue' = [queue EXCEPT ![current] = <<>>] /\ hand' = hand
      BY <1>7, Zenon DEF N!Forget
    <2>2. <<>> \in Seq(0..2 * MaxIds)
      OBVIOUS
    <2> QED
      BY <2>1, <2>2, QueueStep, Zenon DEF QueueTypes
  <1>8. ASSUME NEW g \in N!Gens, N!WriterTakes(g), N!GiveUp
         PROVE  QueueTypes'
    <2>1. queue[g] \in Seq(0..2 * MaxIds) /\ queue[g] # <<>>
      <3>1. queue[g] \in Seq(0..2 * MaxIds)
        BY DEF QueueTypes
      <3> QED
        BY <1>8, <3>1, Zenon DEF N!WriterTakes
    <2>2. Head(queue[g]) \in 0..2 * MaxIds /\ Tail(queue[g]) \in Seq(0..2 * MaxIds)
      BY <2>1, HeadTailProperties, Zenon
    <2>3. queue' = [queue EXCEPT ![g] = Tail(@)] /\ hand' \in {[hand EXCEPT ![g] = 0], [hand EXCEPT ![g] = Head(queue[g])]}
      BY <1>8 DEF N!WriterTakes, N!Taken, N!NoFrame
    <2> QED
      BY <2>2, <2>3, PipeAssumed DEF QueueTypes
  <1>9. ASSUME NEW g \in N!Gens, N!WriterWrites(g), N!GiveUp
         PROVE  QueueTypes'
    <2>1. queue' = queue /\ hand' = [hand EXCEPT ![g] = 0]
      BY <1>9, Zenon DEF N!WriterWrites, N!NoFrame
    <2> QED
      BY <2>1, PipeAssumed DEF QueueTypes
  <1>10. ASSUME NEW g \in N!Gens, N!WriterBreaks(g), N!GiveUp
         PROVE  QueueTypes'
    <2>1. queue' = queue /\ hand' = [hand EXCEPT ![g] = 0]
      BY <1>10, Zenon DEF N!WriterBreaks, N!NoFrame
    <2> QED
      BY <2>1, PipeAssumed DEF QueueTypes
  <1>11. ASSUME NEW g \in N!Gens, N!ThreadFails(g), N!GiveUp
         PROVE  QueueTypes'
    <2>1. queue' \in {queue, [queue EXCEPT ![g] = N!Sentinel(@)]} /\ hand' = hand
      BY <1>11 DEF N!ThreadFails, N!Unregister, N!WakeFailed
    <2>2. N!Sentinel(queue[g]) \in Seq(0..2 * MaxIds)
      BY SentinelStep DEF QueueTypes
    <2> QED
      BY <2>1, <2>2 DEF QueueTypes
  <1> QED
    BY <1>1, <1>2, <1>3, <1>4, <1>5, <1>6, <1>7, <1>8, <1>9, <1>10, <1>11, Zenon DEF N!Next, N!Proceed,
       N!Threading, nvars

LEMMA ChildTypesStay ==
  ASSUME ClientTypes, ChildTypes, LockOK, [N!Next]_nvars
  PROVE  ChildTypes'
  <1>1. CASE UNCHANGED <<writer, reader, life, inbox, outbox, disk>>
    BY <1>1 DEF ChildTypes
  <1>2. ASSUME NEW t \in Threads, N!GiveUp, N!Call(t) \/ N!Wake(t) \/ N!Close(t) \/ N!EnsureClosed(t) \/ N!EnsureReady(t) \/
     N!EnsureRestart(t) \/ N!StartFails(t) \/ N!Refuse(t) \/ N!BeBusy(t) \/ N!Enqueue(t) \/ N!Done(t) \/
     N!TimeOut(t) \/ N!SendCancel(t) \/ N!Publish(t) \/ N!StopProcess(t) \/ N!Closed(t)
         PROVE  UNCHANGED <<writer, reader, life, inbox, outbox, disk>>
    BY <1>2, Zenon DEF N!Call, N!Wake, N!Goto, N!Close, N!Running, N!Exited, N!EnsureClosed,
       N!EnsureReady, N!EnsureRestart, N!StartFails, N!Refuse, N!Unsent, N!Failed, N!BeBusy, N!Enqueue, N!Done,
       N!TimeOut, N!SendCancel, N!CancelFrame, N!Publish, N!StopProcess, N!Sentinel, N!Closed, N!threadvars,
       N!clientvars, N!readvars, N!pipevars, N!childvars
  <1>3. ASSUME NEW t \in Threads, N!Start(t), N!GiveUp
         PROVE  ChildTypes'
    BY <1>3 DEF N!Start, N!Goto, ChildTypes, N!threadvars, N!clientvars, N!readvars, N!pipevars, N!childvars
  <1>4. ASSUME NEW t \in Threads, N!Register(t), N!GiveUp
         PROVE  ChildTypes'
    <2>1. current \in N!Gens
      BY <1>4, PipeAssumed DEF N!Register, LockOK, WithChild, ClientTypes, N!Gens
    <2>2. disk' \subseteq disk \cup {current} /\ UNCHANGED <<writer, reader, life, inbox, outbox>>
      BY <1>4 DEF N!Register, N!pipevars, N!readvars, N!childvars
    <2> QED
      BY <2>1, <2>2 DEF ChildTypes
  <1>5. ASSUME NEW t \in Threads, N!PublishGone(t), N!GiveUp
         PROVE  ChildTypes'
    BY <1>5 DEF N!PublishGone, N!Goto, ChildTypes, N!threadvars, N!clientvars, N!readvars, N!pipevars,
       N!childvars
  <1>6. ASSUME NEW t \in Threads, N!Reap(t), N!GiveUp
         PROVE  ChildTypes'
    BY <1>6 DEF N!Reap, N!Goto, ChildTypes, N!threadvars, N!clientvars, N!readvars, N!pipevars, N!childvars
  <1>7. ASSUME NEW t \in Threads, N!Forget(t), N!GiveUp
         PROVE  ChildTypes'
    <2>1. disk' \subseteq disk /\ UNCHANGED <<writer, reader, life, inbox, outbox>>
      BY <1>7 DEF N!Forget, N!readvars, N!childvars
    <2> QED
      BY <2>1 DEF ChildTypes
  <1>8. ASSUME NEW g \in N!Gens, N!ReadAnswer(g), N!GiveUp
         PROVE  ChildTypes'
    BY <1>8 DEF N!ReadAnswer, ChildTypes, N!threadvars, N!clientvars, N!readvars, N!pipevars, N!childvars
  <1>9. ASSUME NEW g \in N!Gens, N!ReadFails(g), N!GiveUp
         PROVE  ChildTypes'
    BY <1>9 DEF N!ReadFails, N!FailGeneration, N!Exited, ChildTypes, N!threadvars, N!clientvars, N!readvars,
       N!pipevars, N!childvars
  <1>10. ASSUME NEW g \in N!Gens, N!WriterTakes(g), N!GiveUp
         PROVE  ChildTypes'
    <2>1. writer' \in {writer, [writer EXCEPT ![g] = "end"], [writer EXCEPT ![g] = "write"]}
          /\ UNCHANGED <<disk, reader, life, inbox, outbox>>
      BY <1>10 DEF N!WriterTakes, N!readvars, N!childvars
    <2> QED
      BY <2>1 DEF ChildTypes
  <1>11. ASSUME NEW g \in N!Gens, N!WriterWrites(g), N!GiveUp
         PROVE  ChildTypes'
    <2>1. writer' = [writer EXCEPT ![g] = "get"] /\ UNCHANGED <<disk, reader, life, outbox>>
      BY <1>11, Zenon DEF N!WriterWrites, N!readvars
    <2>2. inbox' = [inbox EXCEPT ![g] = @ \cup ({hand[g]} \cap N!Ids)]
      BY <1>11, Zenon DEF N!WriterWrites
    <2> QED
      BY <2>1, <2>2 DEF ChildTypes
  <1>12. ASSUME NEW g \in N!Gens, N!WriterBreaks(g), N!GiveUp
         PROVE  ChildTypes'
    <2>1. writer' \in {[writer EXCEPT ![g] = "unregister"], [writer EXCEPT ![g] = "fail"]}
          /\ UNCHANGED <<disk, reader, life, inbox, outbox>>
      BY <1>12 DEF N!WriterBreaks, N!FailGeneration, N!childvars
    <2> QED
      BY <2>1 DEF ChildTypes
  <1>13. ASSUME NEW g \in N!Gens, N!ThreadFails(g), N!GiveUp
         PROVE  ChildTypes'
    <2>1. writer' \in {writer, [writer EXCEPT ![g] = "fail"], [writer EXCEPT ![g] = "end"]}
      BY <1>13 DEF N!ThreadFails, N!Unregister, N!WakeFailed
    <2>2. reader' \in {reader, [reader EXCEPT ![g] = "fail"], [reader EXCEPT ![g] = "end"]}
      BY <1>13 DEF N!ThreadFails, N!Unregister, N!WakeFailed
    <2>3. disk' \subseteq disk /\ UNCHANGED <<life, inbox, outbox>>
      BY <1>13 DEF N!ThreadFails, N!Unregister, N!WakeFailed, N!childvars
    <2> QED
      BY <2>1, <2>2, <2>3 DEF ChildTypes
  <1>14. ASSUME NEW g \in N!Gens, N!ChildAnswers(g), N!GiveUp
         PROVE  ChildTypes'
    BY <1>14 DEF N!ChildAnswers, ChildTypes, N!threadvars, N!clientvars, N!readvars, N!pipevars, N!childvars
  <1>15. ASSUME NEW g \in N!Gens, N!ChildDies(g), N!GiveUp
         PROVE  ChildTypes'
    BY <1>15 DEF N!ChildDies, ChildTypes, N!threadvars, N!clientvars, N!readvars, N!pipevars, N!childvars
  <1>30. ASSUME NEW t \in Threads, N!Withdraw(t), N!GiveUp
         PROVE  ChildTypes'
    BY <1>30 DEF N!Withdraw, N!Goto, ChildTypes, N!threadvars, N!clientvars, N!readvars, N!pipevars,
       N!childvars
  <1>31. ASSUME NEW t \in Threads, N!Unlist(t), N!GiveUp
         PROVE  ChildTypes'
    <2>1. disk' \subseteq disk /\ UNCHANGED <<writer, reader, life, inbox, outbox>>
      BY <1>31 DEF N!Unlist, N!readvars, N!pipevars, N!childvars
    <2> QED
      BY <2>1 DEF ChildTypes
  <1> QED
    BY <1>1, <1>2, <1>3, <1>4, <1>5, <1>6, <1>7, <1>8, <1>9, <1>10, <1>11, <1>12, <1>13, <1>14, <1>15, <1>30,
       <1>31, Zenon DEF
       N!Next, N!Proceed, N!Threading, nvars

LEMMA LockStays ==
  ASSUME ClientTypes, LockOK, ChildOK, OrderOK, [N!Next]_nvars
  PROVE  LockOK'
  <1>1. CASE UNCHANGED <<pc, kind, lifecycle, closed, current>>
    BY <1>1 DEF LockOK, WithChild, Childless, Requests, ClientTypes
  <1>2. ASSUME NEW g \in N!Gens, N!GiveUp, N!ReadAnswer(g) \/ N!ReadFails(g) \/ N!WriterTakes(g) \/
     N!WriterWrites(g) \/ N!WriterBreaks(g) \/ N!ThreadFails(g) \/ N!ChildAnswers(g) \/ N!ChildDies(g)
         PROVE  UNCHANGED <<pc, kind, lifecycle, closed, current>>
    BY <1>2, Zenon DEF N!ReadAnswer, N!ReadFails, N!FailGeneration, N!Exited, N!WriterTakes, N!Taken,
       N!WriterWrites, N!WriterBreaks, N!ThreadFails, N!Unregister, N!WakeFailed, N!Sentinel, N!ChildAnswers,
       N!ChildDies, N!threadvars, N!clientvars, N!readvars, N!pipevars, N!childvars
  <1>3. ASSUME NEW t \in Threads, N!Call(t), N!GiveUp
         PROVE  LockOK'
    BY <1>3, PipeAssumed DEF N!Call, N!Goto, LockOK, WithChild, Childless, Requests, ClientTypes, N!threadvars,
       N!clientvars, N!readvars, N!pipevars, N!childvars
  <1>4. ASSUME NEW t \in Threads, N!Close(t), N!GiveUp
         PROVE  LockOK'
    BY <1>4, PipeAssumed DEF N!Close, N!Goto, N!Running, N!Exited, LockOK, WithChild, Childless,
       Requests, ClientTypes, N!threadvars, N!clientvars, N!readvars, N!pipevars, N!childvars
  <1>5. ASSUME NEW t \in Threads, N!EnsureClosed(t), N!GiveUp
         PROVE  LockOK'
    BY <1>5, PipeAssumed DEF N!EnsureClosed, N!Goto, LockOK, WithChild, Childless, Requests, ClientTypes,
       N!threadvars, N!clientvars, N!readvars, N!pipevars, N!childvars
  <1>6. ASSUME NEW t \in Threads, N!EnsureReady(t), N!GiveUp
         PROVE  LockOK'
    BY <1>6, PipeAssumed DEF N!EnsureReady, N!Goto, N!Running, N!Exited, LockOK, WithChild, Childless, Requests,
       ClientTypes, N!threadvars, N!clientvars, N!readvars, N!pipevars, N!childvars
  <1>7. ASSUME NEW t \in Threads, N!EnsureRestart(t), N!GiveUp
         PROVE  LockOK'
    BY <1>7, PipeAssumed DEF N!EnsureRestart, N!Goto, LockOK, WithChild, Childless, Requests, ClientTypes,
       N!threadvars, N!clientvars, N!readvars, N!pipevars, N!childvars
  <1>8. ASSUME NEW t \in Threads, N!Start(t), N!GiveUp
         PROVE  LockOK'
    BY <1>8, PipeAssumed, NextChild DEF N!Start, N!Goto, LockOK, WithChild, Childless, Requests, ClientTypes,
       N!threadvars, N!clientvars, N!readvars, N!pipevars, N!childvars
  <1>9. ASSUME NEW t \in Threads, N!StartFails(t), N!GiveUp
         PROVE  LockOK'
    BY <1>9, PipeAssumed DEF N!StartFails, N!Goto, LockOK, WithChild, Childless, Requests, ClientTypes,
       N!threadvars, N!clientvars, N!readvars, N!pipevars, N!childvars
  <1>10. ASSUME NEW t \in Threads, N!Refuse(t), N!GiveUp
         PROVE  LockOK'
    BY <1>10, PipeAssumed DEF N!Refuse, N!Unsent, N!Failed, N!Goto, LockOK, WithChild, Childless, Requests,
       ClientTypes, N!threadvars, N!clientvars, N!readvars, N!pipevars, N!childvars
  <1>11. ASSUME NEW t \in Threads, N!BeBusy(t), N!GiveUp
         PROVE  LockOK'
    BY <1>11, PipeAssumed DEF N!BeBusy, N!Unsent, N!Failed, N!Goto, LockOK, WithChild, Childless, Requests,
       ClientTypes, N!threadvars, N!clientvars, N!readvars, N!pipevars, N!childvars
  <1>12. ASSUME NEW t \in Threads, N!Enqueue(t), N!GiveUp
         PROVE  LockOK'
    BY <1>12, PipeAssumed DEF N!Enqueue, N!Goto, LockOK, WithChild, Childless, Requests, ClientTypes,
       N!threadvars, N!clientvars, N!readvars, N!pipevars, N!childvars
  <1>13. ASSUME NEW t \in Threads, N!Done(t), N!GiveUp
         PROVE  LockOK'
    BY <1>13, PipeAssumed DEF N!Done, N!Failed, N!Goto, LockOK, WithChild, Childless, Requests, ClientTypes,
       N!threadvars, N!clientvars, N!readvars, N!pipevars, N!childvars
  <1>14. ASSUME NEW t \in Threads, N!TimeOut(t), N!GiveUp
         PROVE  LockOK'
    BY <1>14, PipeAssumed DEF N!TimeOut, N!Goto, LockOK, WithChild, Childless, Requests, ClientTypes,
       N!threadvars, N!clientvars, N!readvars, N!pipevars, N!childvars
  <1>15. ASSUME NEW t \in Threads, N!SendCancel(t), N!GiveUp
         PROVE  LockOK'
    BY <1>15, PipeAssumed DEF N!SendCancel, N!Failed, N!Goto, N!CancelFrame, LockOK, WithChild, Childless,
       Requests, ClientTypes, N!threadvars, N!clientvars, N!readvars, N!pipevars, N!childvars
  <1>16. ASSUME NEW t \in Threads, N!Register(t), N!GiveUp
         PROVE  LockOK'
    BY <1>16, PipeAssumed DEF N!Register, N!Goto, LockOK, WithChild, Childless, Requests, ClientTypes,
       N!threadvars, N!clientvars, N!readvars, N!pipevars, N!childvars
  <1>17. ASSUME NEW t \in Threads, N!Publish(t), N!GiveUp
         PROVE  LockOK'
    BY <1>17, PipeAssumed DEF N!Publish, N!Goto, N!Running, N!Exited, LockOK, WithChild, Childless, Requests,
       ClientTypes, N!threadvars, N!clientvars, N!readvars, N!pipevars, N!childvars
  <1>18. ASSUME NEW t \in Threads, N!PublishGone(t), N!GiveUp
         PROVE  LockOK'
    BY <1>18, PipeAssumed DEF N!PublishGone, N!Goto, LockOK, WithChild, Childless, Requests, ClientTypes,
       N!threadvars, N!clientvars, N!readvars, N!pipevars, N!childvars
  <1>19. ASSUME NEW t \in Threads, N!StopProcess(t), N!GiveUp
         PROVE  LockOK'
    BY <1>19, PipeAssumed DEF N!StopProcess, N!Goto, N!Sentinel, LockOK, WithChild, Childless, Requests,
       ClientTypes, N!threadvars, N!clientvars, N!readvars, N!pipevars, N!childvars
  <1>20. ASSUME NEW t \in Threads, N!Reap(t), N!GiveUp
         PROVE  LockOK'
    BY <1>20, PipeAssumed DEF N!Reap, N!Goto, LockOK, WithChild, Childless, Requests, ClientTypes, N!threadvars,
       N!clientvars, N!readvars, N!pipevars, N!childvars
  <1>21. ASSUME NEW t \in Threads, N!Forget(t), N!GiveUp
         PROVE  LockOK'
    BY <1>21, PipeAssumed DEF N!Forget, N!Goto, LockOK, WithChild, Childless, Requests, ClientTypes,
       N!threadvars, N!clientvars, N!readvars, N!pipevars, N!childvars
  <1>22. ASSUME NEW t \in Threads, N!Closed(t), N!GiveUp
         PROVE  LockOK'
    BY <1>22, PipeAssumed DEF N!Closed, N!Goto, LockOK, WithChild, Childless, Requests, ClientTypes,
       N!threadvars, N!clientvars, N!readvars, N!pipevars, N!childvars
  <1>30. ASSUME NEW t \in Threads, N!Withdraw(t), N!GiveUp
         PROVE  LockOK'
    BY <1>30, PipeAssumed DEF N!Withdraw, N!Goto, LockOK, WithChild, Childless, Requests, ClientTypes,
       N!threadvars, N!clientvars, N!readvars, N!pipevars, N!childvars
  <1>31. ASSUME NEW t \in Threads, N!Unlist(t), N!GiveUp
         PROVE  LockOK'
    BY <1>31, PipeAssumed DEF N!Unlist, N!Goto, LockOK, WithChild, Childless, Requests, ClientTypes,
       N!threadvars, N!clientvars, N!readvars, N!pipevars, N!childvars
  <1>32. ASSUME NEW t \in Threads, N!Wake(t), N!GiveUp
         PROVE  LockOK'
    BY <1>32, PipeAssumed DEF N!Wake, N!Goto, N!Running, N!Exited, LockOK, WithChild, Childless,
       Requests, ClientTypes, N!threadvars, N!clientvars, N!readvars, N!pipevars, N!childvars
  <1> QED
    BY <1>1, <1>2, <1>3, <1>4, <1>5, <1>6, <1>7, <1>8, <1>9, <1>10, <1>11, <1>12, <1>13, <1>14, <1>15, <1>16,
       <1>17, <1>18, <1>19, <1>20, <1>21, <1>22, <1>30, <1>31, <1>32, Zenon DEF N!Next, N!Proceed, N!Threading, nvars

LEMMA ChildStays ==
  ASSUME ClientTypes, ChildTypes, LockOK, ChildOK, OrderOK, [N!Next]_nvars
  PROVE  ChildOK'
  <1>1. CASE UNCHANGED <<pc, ready, closed, current, life>>
    BY <1>1 DEF ChildOK, LockOK, WithChild, Childless, Requests, ClientTypes
  <1>2. ASSUME NEW g \in N!Gens, N!GiveUp, N!ReadAnswer(g) \/ N!WriterTakes(g) \/ N!WriterWrites(g) \/
     N!ThreadFails(g) \/ N!ChildAnswers(g)
         PROVE  UNCHANGED <<pc, ready, closed, current, life>>
    BY <1>2, Zenon DEF N!ReadAnswer, N!WriterTakes, N!Taken, N!WriterWrites, N!ThreadFails, N!Unregister,
       N!WakeFailed, N!Sentinel, N!ChildAnswers, N!threadvars, N!clientvars, N!readvars, N!pipevars, N!childvars
  <1>3. ASSUME NEW t \in Threads, N!Call(t), N!GiveUp
         PROVE  ChildOK'
    BY <1>3, PipeAssumed DEF N!Call, N!Goto, ChildOK, LockOK, WithChild, Childless, Requests, ClientTypes,
       N!threadvars, N!clientvars, N!readvars, N!pipevars, N!childvars
  <1>4. ASSUME NEW t \in Threads, N!Close(t), N!GiveUp
         PROVE  ChildOK'
    BY <1>4, PipeAssumed DEF N!Close, N!Goto, N!Running, N!Exited, ChildOK, LockOK, WithChild,
       Childless, Requests, ClientTypes, N!threadvars, N!clientvars, N!readvars, N!pipevars, N!childvars
  <1>5. ASSUME NEW t \in Threads, N!EnsureClosed(t), N!GiveUp
         PROVE  ChildOK'
    BY <1>5, PipeAssumed DEF N!EnsureClosed, N!Goto, ChildOK, LockOK, WithChild, Childless, Requests,
       ClientTypes, N!threadvars, N!clientvars, N!readvars, N!pipevars, N!childvars
  <1>6. ASSUME NEW t \in Threads, N!EnsureReady(t), N!GiveUp
         PROVE  ChildOK'
    BY <1>6, PipeAssumed DEF N!EnsureReady, N!Goto, N!Running, N!Exited, ChildOK, LockOK, WithChild, Childless,
       Requests, ClientTypes, N!threadvars, N!clientvars, N!readvars, N!pipevars, N!childvars
  <1>7. ASSUME NEW t \in Threads, N!EnsureRestart(t), N!GiveUp
         PROVE  ChildOK'
    BY <1>7, PipeAssumed DEF N!EnsureRestart, N!Goto, ChildOK, LockOK, WithChild, Childless, Requests,
       ClientTypes, N!threadvars, N!clientvars, N!readvars, N!pipevars, N!childvars
  <1>8. ASSUME NEW t \in Threads, N!Start(t), N!GiveUp
         PROVE  ChildOK'
    <2>1. current = 0 /\ lifecycle = t /\ ~closed
      BY <1>8, Zenon DEF N!Start, LockOK, Childless
    <2>2. N!Started + 1 \in Nat \ {0}
      BY NextChild, PipeAssumed
    <2>3. current' = N!Started + 1 /\ ready' = FALSE /\ closed' = closed
      BY <1>8, Zenon DEF N!Start
    <2>4. \A u \in Threads : pc'[u] # "forget"
      <3>1. \A u \in Threads \ {t} : pc[u] # "forget"
        BY <2>1 DEF LockOK, WithChild
      <3> QED
        BY <1>8, <3>1 DEF N!Start, N!Goto, ClientTypes
    <2>5. \A g \in N!Gens : life'[g] = "up" => g = current'
      <3>1. \A g \in N!Gens : life[g] # "up"
        BY <2>1, Ranges DEF ChildOK
      <3> QED
        BY <1>8, <2>3, <3>1 DEF N!Start, ChildTypes
    <2> QED
      BY <2>1, <2>2, <2>3, <2>4, <2>5, Zenon DEF ChildOK
  <1>9. ASSUME NEW t \in Threads, N!StartFails(t), N!GiveUp
         PROVE  ChildOK'
    BY <1>9, PipeAssumed DEF N!StartFails, N!Goto, ChildOK, LockOK, WithChild, Childless, Requests, ClientTypes,
       N!threadvars, N!clientvars, N!readvars, N!pipevars, N!childvars
  <1>10. ASSUME NEW t \in Threads, N!Refuse(t), N!GiveUp
         PROVE  ChildOK'
    BY <1>10, PipeAssumed DEF N!Refuse, N!Unsent, N!Failed, N!Goto, ChildOK, LockOK, WithChild, Childless,
       Requests, ClientTypes, N!threadvars, N!clientvars, N!readvars, N!pipevars, N!childvars
  <1>11. ASSUME NEW t \in Threads, N!BeBusy(t), N!GiveUp
         PROVE  ChildOK'
    BY <1>11, PipeAssumed DEF N!BeBusy, N!Unsent, N!Failed, N!Goto, ChildOK, LockOK, WithChild, Childless,
       Requests, ClientTypes, N!threadvars, N!clientvars, N!readvars, N!pipevars, N!childvars
  <1>12. ASSUME NEW t \in Threads, N!Enqueue(t), N!GiveUp
         PROVE  ChildOK'
    BY <1>12, PipeAssumed DEF N!Enqueue, N!Goto, ChildOK, LockOK, WithChild, Childless, Requests, ClientTypes,
       N!threadvars, N!clientvars, N!readvars, N!pipevars, N!childvars
  <1>13. ASSUME NEW t \in Threads, N!Done(t), N!GiveUp
         PROVE  ChildOK'
    BY <1>13, PipeAssumed DEF N!Done, N!Failed, N!Goto, ChildOK, LockOK, WithChild, Childless, Requests,
       ClientTypes, N!threadvars, N!clientvars, N!readvars, N!pipevars, N!childvars
  <1>14. ASSUME NEW t \in Threads, N!TimeOut(t), N!GiveUp
         PROVE  ChildOK'
    BY <1>14, PipeAssumed DEF N!TimeOut, N!Goto, ChildOK, LockOK, WithChild, Childless, Requests, ClientTypes,
       N!threadvars, N!clientvars, N!readvars, N!pipevars, N!childvars
  <1>15. ASSUME NEW t \in Threads, N!SendCancel(t), N!GiveUp
         PROVE  ChildOK'
    BY <1>15, PipeAssumed DEF N!SendCancel, N!Failed, N!Goto, N!CancelFrame, ChildOK, LockOK, WithChild,
       Childless, Requests, ClientTypes, N!threadvars, N!clientvars, N!readvars, N!pipevars, N!childvars
  <1>16. ASSUME NEW t \in Threads, N!Register(t), N!GiveUp
         PROVE  ChildOK'
    BY <1>16, PipeAssumed DEF N!Register, N!Goto, ChildOK, LockOK, WithChild, Childless, Requests, ClientTypes,
       N!threadvars, N!clientvars, N!readvars, N!pipevars, N!childvars
  <1>17. ASSUME NEW t \in Threads, N!Publish(t), N!GiveUp
         PROVE  ChildOK'
    BY <1>17, PipeAssumed DEF N!Publish, N!Goto, N!Running, N!Exited, ChildOK, LockOK, WithChild, Childless,
       Requests, ClientTypes, N!threadvars, N!clientvars, N!readvars, N!pipevars, N!childvars
  <1>18. ASSUME NEW t \in Threads, N!PublishGone(t), N!GiveUp
         PROVE  ChildOK'
    BY <1>18, PipeAssumed DEF N!PublishGone, N!Goto, ChildOK, LockOK, WithChild, Childless, Requests,
       ClientTypes, N!threadvars, N!clientvars, N!readvars, N!pipevars, N!childvars
  <1>19. ASSUME NEW t \in Threads, N!StopProcess(t), N!GiveUp
         PROVE  ChildOK'
    BY <1>19, PipeAssumed DEF N!StopProcess, N!Goto, N!Sentinel, ChildOK, LockOK, WithChild, Childless,
       Requests, ClientTypes, N!threadvars, N!clientvars, N!readvars, N!pipevars, N!childvars
  <1>20. ASSUME NEW t \in Threads, N!Reap(t), N!GiveUp
         PROVE  ChildOK'
    <2>1. \A u \in Threads \ {t} : pc[u] # "forget" /\ pc'[u] = pc[u]
      <3>1. lifecycle = t
        BY <1>20, Zenon DEF N!Reap, LockOK, WithChild
      <3> QED
        BY <1>20, <3>1 DEF N!Reap, N!Goto, LockOK, WithChild, ClientTypes
    <2>2. current \in N!Gens
      BY <1>20, PipeAssumed DEF N!Reap, LockOK, WithChild, ClientTypes, N!Gens
    <2>3. life' = [life EXCEPT ![current] = "dead"] /\ UNCHANGED <<ready, closed, current>>
      BY <1>20, Zenon DEF N!Reap, N!clientvars
    <2>4. life'[current] = "dead" /\ \A g \in N!Gens : life'[g] = "up" => life[g] = "up"
      BY <2>2, <2>3 DEF ChildTypes
    <2>5. \A u \in Threads : pc'[u] = "forget" => life'[current] = "dead"
      BY <2>4, Zenon
    <2> QED
      BY <2>3, <2>4, <2>5, Zenon DEF ChildOK
  <1>21. ASSUME NEW t \in Threads, N!Forget(t), N!GiveUp
         PROVE  ChildOK'
    BY <1>21, PipeAssumed DEF N!Forget, N!Goto, ChildOK, LockOK, WithChild, Childless, Requests, ClientTypes,
       N!threadvars, N!clientvars, N!readvars, N!pipevars, N!childvars
  <1>22. ASSUME NEW t \in Threads, N!Closed(t), N!GiveUp
         PROVE  ChildOK'
    BY <1>22, PipeAssumed DEF N!Closed, N!Goto, ChildOK, LockOK, WithChild, Childless, Requests, ClientTypes,
       N!threadvars, N!clientvars, N!readvars, N!pipevars, N!childvars
  <1>23. ASSUME NEW g \in N!Gens, N!ReadFails(g), N!GiveUp
         PROVE  ChildOK'
    BY <1>23, PipeAssumed DEF N!ReadFails, N!FailGeneration, N!Exited, ChildOK, LockOK, WithChild, Childless,
       Requests, ClientTypes, N!threadvars, N!clientvars, N!readvars, N!pipevars, N!childvars
  <1>24. ASSUME NEW g \in N!Gens, N!WriterBreaks(g), N!GiveUp
         PROVE  ChildOK'
    BY <1>24, PipeAssumed DEF N!WriterBreaks, N!FailGeneration, N!Exited, ChildOK, LockOK, WithChild, Childless,
       Requests, ClientTypes, N!threadvars, N!clientvars, N!readvars, N!pipevars, N!childvars
  <1>25. ASSUME NEW g \in N!Gens, N!ChildDies(g), N!GiveUp
         PROVE  ChildOK'
    BY <1>25, PipeAssumed DEF N!ChildDies, ChildOK, LockOK, WithChild, Childless, Requests, ClientTypes,
       N!threadvars, N!clientvars, N!readvars, N!pipevars, N!childvars
  <1>30. ASSUME NEW t \in Threads, N!Withdraw(t), N!GiveUp
         PROVE  ChildOK'
    BY <1>30, PipeAssumed DEF N!Withdraw, N!Goto, ChildOK, LockOK, WithChild, Childless, Requests,
       ClientTypes, N!threadvars, N!clientvars, N!readvars, N!pipevars, N!childvars
  <1>31. ASSUME NEW t \in Threads, N!Unlist(t), N!GiveUp
         PROVE  ChildOK'
    BY <1>31, PipeAssumed DEF N!Unlist, N!Goto, ChildOK, LockOK, WithChild, Childless, Requests, ClientTypes,
       N!threadvars, N!clientvars, N!readvars, N!pipevars, N!childvars
  <1>32. ASSUME NEW t \in Threads, N!Wake(t), N!GiveUp
         PROVE  ChildOK'
    BY <1>32, PipeAssumed DEF N!Wake, N!Goto, N!Running, N!Exited, ChildOK, LockOK, WithChild,
       Childless, Requests, ClientTypes, N!threadvars, N!clientvars, N!readvars, N!pipevars, N!childvars
  <1> QED
    BY <1>1, <1>2, <1>3, <1>4, <1>5, <1>6, <1>7, <1>8, <1>9, <1>10, <1>11, <1>12, <1>13, <1>14, <1>15, <1>16,
       <1>17, <1>18, <1>19, <1>20, <1>21, <1>22, <1>23, <1>24, <1>25, <1>30, <1>31, <1>32, Zenon DEF N!Next, N!Proceed, N!Threading,
       nvars

LEMMA ClosingStays ==
  ASSUME ClientTypes, RequestTypes, LockOK, ChildOK, ClosingOK, KnownOK, WaitOK, [N!Next]_nvars
  PROVE  ClosingOK'
  <1>1. CASE UNCHANGED <<pc, id, kind, then, closing, closed, pending>>
    BY <1>1 DEF ClosingOK, Closing, LockOK, WithChild, Childless, Requests, ClientTypes
  <1>2. ASSUME NEW g \in N!Gens, N!GiveUp, N!WriterTakes(g) \/ N!WriterWrites(g) \/ N!ThreadFails(g) \/
     N!ChildAnswers(g) \/ N!ChildDies(g)
         PROVE  UNCHANGED <<pc, id, kind, then, closing, closed, pending>>
    BY <1>2, Zenon DEF N!WriterTakes, N!Taken, N!WriterWrites, N!ThreadFails, N!Unregister, N!WakeFailed,
       N!Sentinel, N!ChildAnswers, N!ChildDies, N!threadvars, N!clientvars, N!readvars, N!pipevars, N!childvars
  <1>3. ASSUME NEW t \in Threads, N!Call(t), N!GiveUp
         PROVE  ClosingOK'
    BY <1>3, PipeAssumed DEF N!Call, N!Goto, ClosingOK, Closing, LockOK, WithChild, Childless, Requests,
       ClientTypes, N!threadvars, N!clientvars, N!readvars, N!pipevars, N!childvars
  <1>4. ASSUME NEW t \in Threads, N!Close(t), N!GiveUp
         PROVE  ClosingOK'
    BY <1>4, PipeAssumed DEF N!Close, N!Goto, N!Running, N!Exited, ClosingOK, Closing, LockOK,
       WithChild, Childless, Requests, ClientTypes, N!threadvars, N!clientvars, N!readvars, N!pipevars,
       N!childvars
  <1>5. ASSUME NEW t \in Threads, N!EnsureClosed(t), N!GiveUp
         PROVE  ClosingOK'
    BY <1>5, PipeAssumed DEF N!EnsureClosed, N!Goto, ClosingOK, Closing, LockOK, WithChild, Childless, Requests,
       ClientTypes, N!threadvars, N!clientvars, N!readvars, N!pipevars, N!childvars
  <1>6. ASSUME NEW t \in Threads, N!EnsureReady(t), N!GiveUp
         PROVE  ClosingOK'
    BY <1>6, PipeAssumed DEF N!EnsureReady, N!Goto, N!Running, N!Exited, ClosingOK, Closing, LockOK, WithChild,
       Childless, Requests, ClientTypes, N!threadvars, N!clientvars, N!readvars, N!pipevars, N!childvars
  <1>7. ASSUME NEW t \in Threads, N!EnsureRestart(t), N!GiveUp
         PROVE  ClosingOK'
    BY <1>7, PipeAssumed DEF N!EnsureRestart, N!Goto, ClosingOK, Closing, LockOK, WithChild, Childless,
       Requests, ClientTypes, N!threadvars, N!clientvars, N!readvars, N!pipevars, N!childvars
  <1>8. ASSUME NEW t \in Threads, N!Start(t), N!GiveUp
         PROVE  ClosingOK'
    BY <1>8, PipeAssumed DEF N!Start, N!Goto, ClosingOK, Closing, LockOK, WithChild, Childless, Requests,
       ClientTypes, N!threadvars, N!clientvars, N!readvars, N!pipevars, N!childvars
  <1>9. ASSUME NEW t \in Threads, N!StartFails(t), N!GiveUp
         PROVE  ClosingOK'
    BY <1>9, PipeAssumed DEF N!StartFails, N!Goto, ClosingOK, Closing, LockOK, WithChild, Childless, Requests,
       ClientTypes, N!threadvars, N!clientvars, N!readvars, N!pipevars, N!childvars
  <1>10. ASSUME NEW t \in Threads, N!Refuse(t), N!GiveUp
         PROVE  ClosingOK'
    BY <1>10, PipeAssumed DEF N!Refuse, N!Unsent, N!Failed, N!Goto, ClosingOK, Closing, LockOK, WithChild,
       Childless, Requests, ClientTypes, N!threadvars, N!clientvars, N!readvars, N!pipevars, N!childvars
  <1>11. ASSUME NEW t \in Threads, N!BeBusy(t), N!GiveUp
         PROVE  ClosingOK'
    BY <1>11, PipeAssumed DEF N!BeBusy, N!Unsent, N!Failed, N!Goto, ClosingOK, Closing, LockOK, WithChild,
       Childless, Requests, ClientTypes, N!threadvars, N!clientvars, N!readvars, N!pipevars, N!childvars
  <1>12. ASSUME NEW t \in Threads, N!Enqueue(t), N!GiveUp
         PROVE  ClosingOK'
    <2>1. current # 0 /\ (kind[t] # "shutdown" => ~closing)
      BY <1>12, Zenon DEF N!Enqueue, N!Refused, N!Running
    <2>2. /\ pc[t] = "enqueue" /\ pc' = [pc EXCEPT ![t] = "wait"]
          /\ id' = [id EXCEPT ![t] = Len(made) + 1] /\ pending' = pending \cup {Len(made) + 1}
          /\ UNCHANGED <<kind, then, closing, closed>>
      BY <1>12, Zenon DEF N!Enqueue, N!Goto
    <2>3. \A u \in Threads : Closing(u)' => Closing(u)
      BY <2>2 DEF Closing, Requests, ClientTypes
    <2>4. \A u \in Threads : Closing(u) => u = t
      BY <2>1, <2>2 DEF ClosingOK, LockOK, WithChild, Childless, Closing, Requests, ClientTypes
    <2>5. Closing(t) => closing /\ pending \subseteq {}
      BY <2>2 DEF ClosingOK
    <2>6. id'[t] = Len(made) + 1 /\ pc'[t] = "wait"
      BY <2>2 DEF ClientTypes
    <2>7. ~closed'
      BY <2>1, <2>2, Zenon DEF ChildOK
    <2>8. \A u \in Threads : Closing(u)' => closing' /\ pending' \subseteq {id'[t]} /\ u = t
      BY <2>2, <2>3, <2>4, <2>5, <2>6, Zenon
    <2> QED
      BY <2>6, <2>7, <2>8, Zenon DEF ClosingOK
  <1>13. ASSUME NEW t \in Threads, N!Done(t), N!GiveUp
         PROVE  ClosingOK'
    <2>1. id[t] \notin pending
      BY <1>13 DEF N!Done, KnownOK, WaitOK, ClientTypes, Made, N!Ids
    <2>2. pending' = pending /\ closing' = closing /\ closed' = closed
      BY <1>13, Zenon DEF N!Done
    <2>3. Closing(t)' => Closing(t) /\ pc[t] = "wait" /\ pc'[t] # "wait"
      BY <1>13 DEF N!Done, N!Failed, N!Goto, Closing, Requests, ClientTypes
    <2>4. \A u \in Threads \ {t} : (Closing(u)' <=> Closing(u)) /\ pc'[u] = pc[u] /\ id'[u] = id[u]
      BY <1>13 DEF N!Done, N!Failed, N!Goto, Closing, Requests, ClientTypes
    <2>5. Closing(t)' => closing /\ pending \subseteq {}
      BY <2>1, <2>3 DEF ClosingOK
    <2> SUFFICES ASSUME NEW u \in Threads, Closing(u)'
                 PROVE  closing' /\ pending' \subseteq (IF pc'[u] = "wait" THEN {id'[u]} ELSE {})
      BY <2>2, Zenon DEF ClosingOK
    <2>6. CASE u = t
      BY <2>2, <2>3, <2>5, <2>6, Zenon
    <2>7. CASE u # t
      BY <2>2, <2>4, <2>7, Zenon DEF ClosingOK
    <2> QED
      BY <2>6, <2>7
  <1>14. ASSUME NEW t \in Threads, N!TimeOut(t), N!GiveUp
         PROVE  ClosingOK'
    BY <1>14, PipeAssumed DEF N!TimeOut, N!Goto, ClosingOK, Closing, LockOK, WithChild, Childless, Requests,
       ClientTypes, N!threadvars, N!clientvars, N!readvars, N!pipevars, N!childvars
  <1>15. ASSUME NEW t \in Threads, N!SendCancel(t), N!GiveUp
         PROVE  ClosingOK'
    BY <1>15, PipeAssumed DEF N!SendCancel, N!Failed, N!Goto, N!CancelFrame, ClosingOK, Closing, LockOK,
       WithChild, Childless, Requests, ClientTypes, N!threadvars, N!clientvars, N!readvars, N!pipevars,
       N!childvars
  <1>16. ASSUME NEW t \in Threads, N!Register(t), N!GiveUp
         PROVE  ClosingOK'
    BY <1>16, PipeAssumed DEF N!Register, N!Goto, ClosingOK, Closing, LockOK, WithChild, Childless, Requests,
       ClientTypes, N!threadvars, N!clientvars, N!readvars, N!pipevars, N!childvars
  <1>17. ASSUME NEW t \in Threads, N!Publish(t), N!GiveUp
         PROVE  ClosingOK'
    BY <1>17, PipeAssumed DEF N!Publish, N!Goto, N!Running, N!Exited, ClosingOK, Closing, LockOK, WithChild,
       Childless, Requests, ClientTypes, N!threadvars, N!clientvars, N!readvars, N!pipevars, N!childvars
  <1>18. ASSUME NEW t \in Threads, N!PublishGone(t), N!GiveUp
         PROVE  ClosingOK'
    BY <1>18, PipeAssumed DEF N!PublishGone, N!Goto, ClosingOK, Closing, LockOK, WithChild, Childless, Requests,
       ClientTypes, N!threadvars, N!clientvars, N!readvars, N!pipevars, N!childvars
  <1>19. ASSUME NEW t \in Threads, N!StopProcess(t), N!GiveUp
         PROVE  ClosingOK'
    BY <1>19, PipeAssumed DEF N!StopProcess, N!Goto, N!Sentinel, ClosingOK, Closing, LockOK, WithChild,
       Childless, Requests, ClientTypes, N!threadvars, N!clientvars, N!readvars, N!pipevars, N!childvars
  <1>20. ASSUME NEW t \in Threads, N!Reap(t), N!GiveUp
         PROVE  ClosingOK'
    BY <1>20, PipeAssumed DEF N!Reap, N!Goto, ClosingOK, Closing, LockOK, WithChild, Childless, Requests,
       ClientTypes, N!threadvars, N!clientvars, N!readvars, N!pipevars, N!childvars
  <1>21. ASSUME NEW t \in Threads, N!Forget(t), N!GiveUp
         PROVE  ClosingOK'
    BY <1>21, PipeAssumed DEF N!Forget, N!Goto, ClosingOK, Closing, LockOK, WithChild, Childless, Requests,
       ClientTypes, N!threadvars, N!clientvars, N!readvars, N!pipevars, N!childvars
  <1>22. ASSUME NEW t \in Threads, N!Closed(t), N!GiveUp
         PROVE  ClosingOK'
    BY <1>22, PipeAssumed DEF N!Closed, N!Goto, ClosingOK, Closing, LockOK, WithChild, Childless, Requests,
       ClientTypes, N!threadvars, N!clientvars, N!readvars, N!pipevars, N!childvars
  <1>23. ASSUME NEW g \in N!Gens, N!ReadAnswer(g), N!GiveUp
         PROVE  ClosingOK'
    BY <1>23, PipeAssumed DEF N!ReadAnswer, ClosingOK, Closing, LockOK, WithChild, Childless, Requests,
       ClientTypes, N!threadvars, N!clientvars, N!readvars, N!pipevars, N!childvars
  <1>24. ASSUME NEW g \in N!Gens, N!ReadFails(g), N!GiveUp
         PROVE  ClosingOK'
    BY <1>24, PipeAssumed DEF N!ReadFails, N!FailGeneration, N!Exited, ClosingOK, Closing, LockOK, WithChild,
       Childless, Requests, ClientTypes, N!threadvars, N!clientvars, N!readvars, N!pipevars, N!childvars
  <1>25. ASSUME NEW g \in N!Gens, N!WriterBreaks(g), N!GiveUp
         PROVE  ClosingOK'
    BY <1>25, PipeAssumed DEF N!WriterBreaks, N!FailGeneration, N!Exited, ClosingOK, Closing, LockOK, WithChild,
       Childless, Requests, ClientTypes, N!threadvars, N!clientvars, N!readvars, N!pipevars, N!childvars
  <1>30. ASSUME NEW t \in Threads, N!Withdraw(t), N!GiveUp
         PROVE  ClosingOK'
    BY <1>30, PipeAssumed DEF N!Withdraw, N!Goto, ClosingOK, Closing, LockOK, WithChild, Childless, Requests,
       ClientTypes, N!threadvars, N!clientvars, N!readvars, N!pipevars, N!childvars
  <1>31. ASSUME NEW t \in Threads, N!Unlist(t), N!GiveUp
         PROVE  ClosingOK'
    BY <1>31, PipeAssumed DEF N!Unlist, N!Goto, ClosingOK, Closing, LockOK, WithChild, Childless, Requests,
       ClientTypes, N!threadvars, N!clientvars, N!readvars, N!pipevars, N!childvars
  <1>32. ASSUME NEW t \in Threads, N!Wake(t), N!GiveUp
         PROVE  ClosingOK'
    BY <1>32, PipeAssumed DEF N!Wake, N!Goto, N!Running, N!Exited, ClosingOK, Closing, LockOK,
       WithChild, Childless, Requests, ClientTypes, N!threadvars, N!clientvars, N!readvars, N!pipevars,
       N!childvars
  <1> QED
    BY <1>1, <1>2, <1>3, <1>4, <1>5, <1>6, <1>7, <1>8, <1>9, <1>10, <1>11, <1>12, <1>13, <1>14, <1>15, <1>16,
       <1>17, <1>18, <1>19, <1>20, <1>21, <1>22, <1>23, <1>24, <1>25, <1>30, <1>31, <1>32, Zenon DEF N!Next, N!Proceed, N!Threading,
       nvars

LEMMA OrderStays ==
  ASSUME ClientTypes, ChildTypes, LockOK, OrderOK, FreshOK, [N!Next]_nvars
  PROVE  OrderOK'
  <1>1. CASE UNCHANGED <<life>>
    BY <1>1 DEF OrderOK
  <1>2. ASSUME NEW t \in Threads, N!GiveUp, N!Call(t) \/ N!Wake(t) \/ N!Unlist(t) \/ N!Withdraw(t) \/ N!Close(t) \/ N!EnsureClosed(t) \/ N!EnsureReady(t) \/
     N!EnsureRestart(t) \/ N!StartFails(t) \/ N!Refuse(t) \/ N!BeBusy(t) \/ N!Enqueue(t) \/ N!Done(t) \/
     N!TimeOut(t) \/ N!SendCancel(t) \/ N!Register(t) \/ N!Publish(t) \/ N!PublishGone(t) \/ N!StopProcess(t) \/
     N!Forget(t) \/ N!Closed(t)
         PROVE  UNCHANGED <<life>>
    BY <1>2, Zenon DEF N!Call, N!Wake, N!Unlist, N!Withdraw, N!Goto, N!Close, N!Running, N!Exited, N!EnsureClosed,
       N!EnsureReady, N!EnsureRestart, N!StartFails, N!Refuse, N!Unsent, N!Failed, N!BeBusy, N!Enqueue, N!Done,
       N!TimeOut, N!SendCancel, N!CancelFrame, N!Register, N!Publish, N!PublishGone, N!StopProcess, N!Sentinel,
       N!Forget, N!Closed, N!threadvars, N!clientvars, N!readvars, N!pipevars, N!childvars
  <1>3. ASSUME NEW g \in N!Gens, N!GiveUp, N!ReadAnswer(g) \/ N!ReadFails(g) \/ N!WriterTakes(g) \/
     N!WriterWrites(g) \/ N!WriterBreaks(g) \/ N!ThreadFails(g) \/ N!ChildAnswers(g)
         PROVE  UNCHANGED <<life>>
    BY <1>3, Zenon DEF N!ReadAnswer, N!ReadFails, N!FailGeneration, N!Exited, N!WriterTakes, N!Taken,
       N!WriterWrites, N!WriterBreaks, N!ThreadFails, N!Unregister, N!WakeFailed, N!Sentinel, N!ChildAnswers,
       N!threadvars, N!clientvars, N!readvars, N!pipevars, N!childvars
  <1>4. ASSUME NEW t \in Threads, N!Start(t), N!GiveUp
         PROVE  OrderOK'
    <2>1. PICK k \in 0..MaxGens : N!Started = k /\ \A g \in N!Gens : life[g] # "none" <=> g <= k
      BY NextChild, Zenon
    <2>2. k < MaxGens /\ life' = [life EXCEPT ![k + 1] = "up"]
      BY <1>4, <2>1 DEF N!Start
    <2>3. \A g \in N!Gens : life'[g] # "none" <=> g <= k + 1
      BY <2>1, <2>2, Ranges DEF ChildTypes
    <2> QED
      BY <2>1, <2>2, <2>3, PipeAssumed DEF OrderOK
  <1>5. ASSUME NEW t \in Threads, N!Reap(t), N!GiveUp
         PROVE  OrderOK'
    <2>1. \A g \in N!Gens : life'[g] # "none" <=> life[g] # "none"
      BY <1>5 DEF N!Reap, FreshOK, ChildTypes
    <2> QED
      BY <2>1, Zenon DEF OrderOK
  <1>6. ASSUME NEW g \in N!Gens, N!ChildDies(g), N!GiveUp
         PROVE  OrderOK'
    <2>1. \A h \in N!Gens : life'[h] # "none" <=> life[h] # "none"
      BY <1>6 DEF N!ChildDies, ChildTypes
    <2> QED
      BY <2>1, Zenon DEF OrderOK
  <1> QED
    BY <1>1, <1>2, <1>3, <1>4, <1>5, <1>6, Zenon DEF N!Next, N!Proceed, N!Threading, nvars

LEMMA FreshStays ==
  ASSUME ClientTypes, ChildTypes, LockOK, OrderOK, FreshOK, [N!Next]_nvars
  PROVE  FreshOK'
  <1>1. CASE UNCHANGED <<life, current, reader, writer>>
    BY <1>1 DEF FreshOK, ClientTypes, ChildTypes
  <1>2. ASSUME NEW t \in Threads, N!GiveUp, N!Call(t) \/ N!Wake(t) \/ N!Withdraw(t) \/ N!Close(t) \/ N!EnsureClosed(t) \/ N!EnsureReady(t) \/
     N!EnsureRestart(t) \/ N!StartFails(t) \/ N!Refuse(t) \/ N!BeBusy(t) \/ N!Enqueue(t) \/ N!Done(t) \/
     N!TimeOut(t) \/ N!SendCancel(t) \/ N!Register(t) \/ N!Publish(t) \/ N!PublishGone(t) \/ N!StopProcess(t) \/
     N!Closed(t)
         PROVE  UNCHANGED <<life, current, reader, writer>>
    BY <1>2, Zenon DEF N!Call, N!Wake, N!Withdraw, N!Goto, N!Close, N!Running, N!Exited, N!EnsureClosed,
       N!EnsureReady, N!EnsureRestart, N!StartFails, N!Refuse, N!Unsent, N!Failed, N!BeBusy, N!Enqueue, N!Done,
       N!TimeOut, N!SendCancel, N!CancelFrame, N!Register, N!Publish, N!PublishGone, N!StopProcess, N!Sentinel,
       N!Closed, N!threadvars, N!clientvars, N!readvars, N!pipevars, N!childvars
  <1>3. ASSUME NEW g \in N!Gens, N!GiveUp, N!ReadAnswer(g) \/ N!ChildAnswers(g)
         PROVE  UNCHANGED <<life, current, reader, writer>>
    BY <1>3, Zenon DEF N!ReadAnswer, N!ChildAnswers, N!threadvars, N!clientvars, N!readvars, N!pipevars,
       N!childvars
  <1>4. ASSUME NEW t \in Threads, N!Start(t), N!GiveUp
         PROVE  FreshOK'
    <2>1. PICK k \in 0..MaxGens : N!Started = k /\ \A g \in N!Gens : life[g] # "none" <=> g <= k
      BY NextChild, Zenon
    <2>2. /\ life' = [life EXCEPT ![k + 1] = "up"] /\ current' = k + 1
          /\ reader' = [reader EXCEPT ![k + 1] = "read"] /\ writer' = [writer EXCEPT ![k + 1] = "get"]
      BY <1>4, <2>1 DEF N!Start
    <2> QED
      BY <2>1, <2>2, Ranges DEF FreshOK, ChildTypes
  <1>5. ASSUME NEW t \in Threads, N!Reap(t), N!GiveUp
         PROVE  FreshOK'
    BY <1>5 DEF N!Reap, N!Goto, FreshOK, ClientTypes, ChildTypes, N!threadvars, N!clientvars, N!readvars,
       N!pipevars, N!childvars
  <1>6. ASSUME NEW t \in Threads, N!Forget(t), N!GiveUp
         PROVE  FreshOK'
    BY <1>6, Ranges DEF N!Forget, N!Goto, FreshOK, ClientTypes, ChildTypes, N!threadvars, N!clientvars,
       N!readvars, N!pipevars, N!childvars
  <1>7. ASSUME NEW g \in N!Gens, N!ReadFails(g), N!GiveUp
         PROVE  FreshOK'
    BY <1>7 DEF N!ReadFails, N!FailGeneration, N!Exited, FreshOK, ClientTypes, ChildTypes, N!threadvars,
       N!clientvars, N!readvars, N!pipevars, N!childvars
  <1>8. ASSUME NEW g \in N!Gens, N!WriterTakes(g), N!GiveUp
         PROVE  FreshOK'
    BY <1>8 DEF N!WriterTakes, N!Taken, FreshOK, ClientTypes, ChildTypes, N!threadvars, N!clientvars,
       N!readvars, N!pipevars, N!childvars
  <1>9. ASSUME NEW g \in N!Gens, N!WriterWrites(g), N!GiveUp
         PROVE  FreshOK'
    BY <1>9 DEF N!WriterWrites, FreshOK, ClientTypes, ChildTypes, N!threadvars, N!clientvars, N!readvars,
       N!pipevars, N!childvars
  <1>10. ASSUME NEW g \in N!Gens, N!WriterBreaks(g), N!GiveUp
         PROVE  FreshOK'
    BY <1>10 DEF N!WriterBreaks, N!FailGeneration, N!Exited, FreshOK, ClientTypes, ChildTypes, N!threadvars,
       N!clientvars, N!readvars, N!pipevars, N!childvars
  <1>11. ASSUME NEW g \in N!Gens, N!ThreadFails(g), N!GiveUp
         PROVE  FreshOK'
    BY <1>11 DEF N!ThreadFails, N!Unregister, N!WakeFailed, N!Sentinel, FreshOK, ClientTypes, ChildTypes,
       N!threadvars, N!clientvars, N!readvars, N!pipevars, N!childvars
  <1>12. ASSUME NEW g \in N!Gens, N!ChildDies(g), N!GiveUp
         PROVE  FreshOK'
    BY <1>12 DEF N!ChildDies, FreshOK, ClientTypes, ChildTypes, N!threadvars, N!clientvars, N!readvars,
       N!pipevars, N!childvars
  <1>31. ASSUME NEW t \in Threads, N!Unlist(t), N!GiveUp
         PROVE  FreshOK'
    BY <1>31, Ranges DEF N!Unlist, N!Goto, FreshOK, ClientTypes, ChildTypes, N!threadvars, N!clientvars,
       N!readvars, N!pipevars, N!childvars
  <1> QED
    BY <1>1, <1>2, <1>3, <1>4, <1>5, <1>6, <1>7, <1>8, <1>9, <1>10, <1>11, <1>12, <1>31, Zenon DEF N!Next,
       N!Proceed,
       N!Threading, nvars

LEMMA RoomStays ==
  ASSUME ClientTypes, RequestTypes, RoomOK, [N!Next]_nvars
  PROVE  RoomOK'
  <1>1. CASE UNCHANGED <<made, pc, kind, then>>
    BY <1>1 DEF RoomOK, One, Two, Restarts, ClientTypes
  <1>2. ASSUME NEW g \in N!Gens, N!GiveUp, N!ReadAnswer(g) \/ N!ReadFails(g) \/ N!WriterTakes(g) \/
     N!WriterWrites(g) \/ N!WriterBreaks(g) \/ N!ThreadFails(g) \/ N!ChildAnswers(g) \/ N!ChildDies(g)
         PROVE  UNCHANGED <<made, pc, kind, then>>
    BY <1>2, Zenon DEF N!ReadAnswer, N!ReadFails, N!FailGeneration, N!Exited, N!WriterTakes, N!Taken,
       N!WriterWrites, N!WriterBreaks, N!ThreadFails, N!Unregister, N!WakeFailed, N!Sentinel, N!ChildAnswers,
       N!ChildDies, N!threadvars, N!clientvars, N!readvars, N!pipevars, N!childvars
  <1>3. ASSUME NEW t \in Threads, N!Call(t), N!GiveUp
         PROVE  RoomOK'
    <2>1. N!Room /\ made' = made /\ \A u \in Threads : pc'[u] # "idle" => pc[u] # "idle" \/ u = t
      BY <1>3 DEF N!Call, N!Goto, ClientTypes, N!clientvars
    <2> QED
      BY <2>1, RoomTaken
  <1>4. ASSUME NEW t \in Threads, N!Close(t), N!GiveUp
         PROVE  RoomOK'
    <2>1. N!Room /\ made' = made /\ \A u \in Threads : pc'[u] # "idle" => pc[u] # "idle" \/ u = t
      BY <1>4 DEF N!Close, N!Goto, N!Running, N!Exited, ClientTypes, N!clientvars
    <2> QED
      BY <2>1, RoomTaken
  <1>5. ASSUME NEW t \in Threads, N!EnsureClosed(t), N!GiveUp
         PROVE  RoomOK'
    <2>1. One' \subseteq One /\ Two' \subseteq Two
      BY <1>5 DEF N!EnsureClosed, N!Goto, One, Two, Restarts, ClientTypes
    <2>2. made' = made
      BY <1>5, Zenon DEF N!EnsureClosed, N!clientvars
    <2> QED
      BY <2>1, <2>2, RoomKept
  <1>6. ASSUME NEW t \in Threads, N!EnsureReady(t), N!GiveUp
         PROVE  RoomOK'
    <2>1. One' \subseteq One /\ Two' \subseteq Two
      BY <1>6 DEF N!EnsureReady, N!Goto, N!Running, N!Exited, One, Two, Restarts, ClientTypes
    <2>2. made' = made
      BY <1>6, Zenon DEF N!EnsureReady, N!clientvars
    <2> QED
      BY <2>1, <2>2, RoomKept
  <1>7. ASSUME NEW t \in Threads, N!EnsureRestart(t), N!GiveUp
         PROVE  RoomOK'
    <2>1. One' \subseteq One /\ Two' \subseteq Two
      BY <1>7 DEF N!EnsureRestart, N!Goto, One, Two, Restarts, ClientTypes
    <2>2. made' = made
      BY <1>7, Zenon DEF N!EnsureRestart, N!clientvars
    <2> QED
      BY <2>1, <2>2, RoomKept
  <1>8. ASSUME NEW t \in Threads, N!Start(t), N!GiveUp
         PROVE  RoomOK'
    <2>1. One' \subseteq One /\ Two' \subseteq Two
      BY <1>8 DEF N!Start, N!Goto, One, Two, Restarts, ClientTypes
    <2>2. made' = made
      BY <1>8, Zenon DEF N!Start, N!clientvars
    <2> QED
      BY <2>1, <2>2, RoomKept
  <1>9. ASSUME NEW t \in Threads, N!StartFails(t), N!GiveUp
         PROVE  RoomOK'
    <2>1. One' \subseteq One /\ Two' \subseteq Two
      BY <1>9 DEF N!StartFails, N!Goto, One, Two, Restarts, ClientTypes
    <2>2. made' = made
      BY <1>9, Zenon DEF N!StartFails, N!clientvars
    <2> QED
      BY <2>1, <2>2, RoomKept
  <1>10. ASSUME NEW t \in Threads, N!Refuse(t), N!GiveUp
         PROVE  RoomOK'
    <2>1. Len(made') = Len(made) + 1
      BY <1>10 DEF N!Refuse, N!Unsent, RequestTypes, ClientTypes
    <2>2. \/ t \in Two /\ Two' \subseteq Two \ {t} /\ One' \subseteq One
          \/ t \in One /\ One' \subseteq One \ {t} /\ Two' \subseteq Two
      <3>1. CASE kind[t] = "initialize"
        BY <1>10, <3>1 DEF N!Refuse, N!Unsent, N!Failed, N!Goto, One, Two, Restarts, ClientTypes
      <3>2. CASE kind[t] # "initialize"
        BY <1>10, <3>2 DEF N!Refuse, N!Unsent, N!Failed, N!Goto, One, Two, Restarts, ClientTypes
      <3> QED
        BY <3>1, <3>2
    <2> QED
      BY <2>1, <2>2, RoomUsed
  <1>11. ASSUME NEW t \in Threads, N!BeBusy(t), N!GiveUp
         PROVE  RoomOK'
    <2>1. Len(made') = Len(made) + 1
      BY <1>11 DEF N!BeBusy, N!Unsent, RequestTypes, ClientTypes
    <2>2. \/ t \in Two /\ Two' \subseteq Two \ {t} /\ One' \subseteq One
          \/ t \in One /\ One' \subseteq One \ {t} /\ Two' \subseteq Two
      <3>1. CASE kind[t] = "initialize"
        BY <1>11, <3>1 DEF N!BeBusy, N!Unsent, N!Failed, N!Goto, One, Two, Restarts, ClientTypes
      <3>2. CASE kind[t] # "initialize"
        BY <1>11, <3>2 DEF N!BeBusy, N!Unsent, N!Failed, N!Goto, One, Two, Restarts, ClientTypes
      <3> QED
        BY <3>1, <3>2
    <2> QED
      BY <2>1, <2>2, RoomUsed
  <1>12. ASSUME NEW t \in Threads, N!Enqueue(t), N!GiveUp
         PROVE  RoomOK'
    <2>1. Len(made') = Len(made) + 1
      BY <1>12 DEF N!Enqueue, N!Unsent, RequestTypes, ClientTypes
    <2>2. \/ t \in Two /\ Two' \subseteq Two \ {t} /\ One' \subseteq One
          \/ t \in One /\ One' \subseteq One \ {t} /\ Two' \subseteq Two
      <3>1. CASE kind[t] = "initialize"
        BY <1>12, <3>1 DEF N!Enqueue, N!Goto, One, Two, Restarts, ClientTypes
      <3>2. CASE kind[t] # "initialize"
        BY <1>12, <3>2 DEF N!Enqueue, N!Goto, One, Two, Restarts, ClientTypes
      <3> QED
        BY <3>1, <3>2
    <2> QED
      BY <2>1, <2>2, RoomUsed
  <1>13. ASSUME NEW t \in Threads, N!Done(t), N!GiveUp
         PROVE  RoomOK'
    <2>1. One' \subseteq One /\ Two' \subseteq Two
      BY <1>13 DEF N!Done, N!Failed, N!Goto, One, Two, Restarts, ClientTypes
    <2>2. made' = made
      BY <1>13, Zenon DEF N!Done, N!clientvars
    <2> QED
      BY <2>1, <2>2, RoomKept
  <1>14. ASSUME NEW t \in Threads, N!TimeOut(t), N!GiveUp
         PROVE  RoomOK'
    <2>1. One' \subseteq One /\ Two' \subseteq Two
      BY <1>14 DEF N!TimeOut, N!Goto, One, Two, Restarts, ClientTypes
    <2>2. made' = made
      BY <1>14, Zenon DEF N!TimeOut, N!clientvars
    <2> QED
      BY <2>1, <2>2, RoomKept
  <1>15. ASSUME NEW t \in Threads, N!SendCancel(t), N!GiveUp
         PROVE  RoomOK'
    <2>1. One' \subseteq One /\ Two' \subseteq Two
      BY <1>15 DEF N!SendCancel, N!Failed, N!Goto, N!CancelFrame, One, Two, Restarts, ClientTypes
    <2>2. made' = made
      BY <1>15, Zenon DEF N!SendCancel, N!clientvars
    <2> QED
      BY <2>1, <2>2, RoomKept
  <1>16. ASSUME NEW t \in Threads, N!Register(t), N!GiveUp
         PROVE  RoomOK'
    <2>1. One' \subseteq One /\ Two' \subseteq Two
      BY <1>16 DEF N!Register, N!Goto, One, Two, Restarts, ClientTypes
    <2>2. made' = made
      BY <1>16, Zenon DEF N!Register, N!clientvars
    <2> QED
      BY <2>1, <2>2, RoomKept
  <1>17. ASSUME NEW t \in Threads, N!Publish(t), N!GiveUp
         PROVE  RoomOK'
    <2>1. One' \subseteq One /\ Two' \subseteq Two
      BY <1>17 DEF N!Publish, N!Goto, N!Running, N!Exited, One, Two, Restarts, ClientTypes
    <2>2. made' = made
      BY <1>17, Zenon DEF N!Publish, N!clientvars
    <2> QED
      BY <2>1, <2>2, RoomKept
  <1>18. ASSUME NEW t \in Threads, N!PublishGone(t), N!GiveUp
         PROVE  RoomOK'
    <2>1. One' \subseteq One /\ Two' \subseteq Two
      BY <1>18 DEF N!PublishGone, N!Goto, One, Two, Restarts, ClientTypes
    <2>2. made' = made
      BY <1>18, Zenon DEF N!PublishGone, N!clientvars
    <2> QED
      BY <2>1, <2>2, RoomKept
  <1>19. ASSUME NEW t \in Threads, N!StopProcess(t), N!GiveUp
         PROVE  RoomOK'
    <2>1. One' \subseteq One /\ Two' \subseteq Two
      BY <1>19 DEF N!StopProcess, N!Goto, N!Sentinel, One, Two, Restarts, ClientTypes
    <2>2. made' = made
      BY <1>19, Zenon DEF N!StopProcess, N!clientvars
    <2> QED
      BY <2>1, <2>2, RoomKept
  <1>20. ASSUME NEW t \in Threads, N!Reap(t), N!GiveUp
         PROVE  RoomOK'
    <2>1. One' \subseteq One /\ Two' \subseteq Two
      BY <1>20 DEF N!Reap, N!Goto, One, Two, Restarts, ClientTypes
    <2>2. made' = made
      BY <1>20, Zenon DEF N!Reap, N!clientvars
    <2> QED
      BY <2>1, <2>2, RoomKept
  <1>21. ASSUME NEW t \in Threads, N!Forget(t), N!GiveUp
         PROVE  RoomOK'
    <2>1. One' \subseteq One /\ Two' \subseteq Two
      BY <1>21 DEF N!Forget, N!Goto, One, Two, Restarts, ClientTypes
    <2>2. made' = made
      BY <1>21, Zenon DEF N!Forget, N!clientvars
    <2> QED
      BY <2>1, <2>2, RoomKept
  <1>22. ASSUME NEW t \in Threads, N!Closed(t), N!GiveUp
         PROVE  RoomOK'
    <2>1. One' \subseteq One /\ Two' \subseteq Two
      BY <1>22 DEF N!Closed, N!Goto, One, Two, Restarts, ClientTypes
    <2>2. made' = made
      BY <1>22, Zenon DEF N!Closed, N!clientvars
    <2> QED
      BY <2>1, <2>2, RoomKept
  <1>30. ASSUME NEW t \in Threads, N!Withdraw(t), N!GiveUp
         PROVE  RoomOK'
    <2>1. One' \subseteq One /\ Two' \subseteq Two
      BY <1>30 DEF N!Withdraw, N!Goto, One, Two, Restarts, ClientTypes
    <2>2. made' = made
      BY <1>30, Zenon DEF N!Withdraw, N!clientvars
    <2> QED
      BY <2>1, <2>2, RoomKept
  <1>31. ASSUME NEW t \in Threads, N!Unlist(t), N!GiveUp
         PROVE  RoomOK'
    <2>1. One' \subseteq One /\ Two' \subseteq Two
      BY <1>31 DEF N!Unlist, N!Goto, One, Two, Restarts, ClientTypes
    <2>2. made' = made
      BY <1>31, Zenon DEF N!Unlist, N!clientvars
    <2> QED
      BY <2>1, <2>2, RoomKept
  <1>32. ASSUME NEW t \in Threads, N!Wake(t), N!GiveUp
         PROVE  RoomOK'
    <2>1. One' \subseteq One /\ Two' \subseteq Two
      BY <1>32 DEF N!Wake, N!Goto, N!Running, N!Exited, One, Two, Restarts, ClientTypes
    <2>2. made' = made
      BY <1>32, Zenon DEF N!Wake
    <2> QED
      BY <2>1, <2>2, RoomKept
  <1> QED
    BY <1>1, <1>2, <1>3, <1>4, <1>5, <1>6, <1>7, <1>8, <1>9, <1>10, <1>11, <1>12, <1>13, <1>14, <1>15, <1>16,
       <1>17, <1>18, <1>19, <1>20, <1>21, <1>22, <1>30, <1>31, <1>32, Zenon DEF N!Next, N!Proceed, N!Threading, nvars

LEMMA WaitStays ==
  ASSUME ClientTypes, RequestTypes, LockOK, RoomOK, WaitOK, OrderOK, [N!Next]_nvars
  PROVE  WaitOK'
  <1>1. CASE UNCHANGED <<pc, id, made>>
    BY <1>1 DEF WaitOK, Made, ClientTypes, RequestTypes
  <1>2. ASSUME NEW g \in N!Gens, N!GiveUp, N!ReadAnswer(g) \/ N!ReadFails(g) \/ N!WriterTakes(g) \/
     N!WriterWrites(g) \/ N!WriterBreaks(g) \/ N!ThreadFails(g) \/ N!ChildAnswers(g) \/ N!ChildDies(g)
         PROVE  UNCHANGED <<pc, id, made>>
    BY <1>2, Zenon DEF N!ReadAnswer, N!ReadFails, N!FailGeneration, N!Exited, N!WriterTakes, N!Taken,
       N!WriterWrites, N!WriterBreaks, N!ThreadFails, N!Unregister, N!WakeFailed, N!Sentinel, N!ChildAnswers,
       N!ChildDies, N!threadvars, N!clientvars, N!readvars, N!pipevars, N!childvars
  <1>3. ASSUME NEW t \in Threads, N!Call(t), N!GiveUp
         PROVE  WaitOK'
    BY <1>3, PipeAssumed DEF N!Call, N!Goto, WaitOK, Made, ClientTypes, RequestTypes, N!threadvars,
       N!clientvars, N!readvars, N!pipevars, N!childvars
  <1>4. ASSUME NEW t \in Threads, N!Close(t), N!GiveUp
         PROVE  WaitOK'
    BY <1>4, PipeAssumed DEF N!Close, N!Goto, N!Running, N!Exited, WaitOK, Made, ClientTypes,
       RequestTypes, N!threadvars, N!clientvars, N!readvars, N!pipevars, N!childvars
  <1>5. ASSUME NEW t \in Threads, N!EnsureClosed(t), N!GiveUp
         PROVE  WaitOK'
    BY <1>5, PipeAssumed DEF N!EnsureClosed, N!Goto, WaitOK, Made, ClientTypes, RequestTypes, N!threadvars,
       N!clientvars, N!readvars, N!pipevars, N!childvars
  <1>6. ASSUME NEW t \in Threads, N!EnsureReady(t), N!GiveUp
         PROVE  WaitOK'
    BY <1>6, PipeAssumed DEF N!EnsureReady, N!Goto, N!Running, N!Exited, WaitOK, Made, ClientTypes,
       RequestTypes, N!threadvars, N!clientvars, N!readvars, N!pipevars, N!childvars
  <1>7. ASSUME NEW t \in Threads, N!EnsureRestart(t), N!GiveUp
         PROVE  WaitOK'
    BY <1>7, PipeAssumed DEF N!EnsureRestart, N!Goto, WaitOK, Made, ClientTypes, RequestTypes, N!threadvars,
       N!clientvars, N!readvars, N!pipevars, N!childvars
  <1>8. ASSUME NEW t \in Threads, N!Start(t), N!GiveUp
         PROVE  WaitOK'
    BY <1>8, PipeAssumed DEF N!Start, N!Goto, WaitOK, Made, ClientTypes, RequestTypes, N!threadvars,
       N!clientvars, N!readvars, N!pipevars, N!childvars
  <1>9. ASSUME NEW t \in Threads, N!StartFails(t), N!GiveUp
         PROVE  WaitOK'
    BY <1>9, PipeAssumed DEF N!StartFails, N!Goto, WaitOK, Made, ClientTypes, RequestTypes, N!threadvars,
       N!clientvars, N!readvars, N!pipevars, N!childvars
  <1>10. ASSUME NEW t \in Threads, N!Refuse(t), N!GiveUp
         PROVE  WaitOK'
    BY <1>10, PipeAssumed DEF N!Refuse, N!Unsent, N!Failed, N!Goto, WaitOK, Made, ClientTypes, RequestTypes,
       N!threadvars, N!clientvars, N!readvars, N!pipevars, N!childvars
  <1>11. ASSUME NEW t \in Threads, N!BeBusy(t), N!GiveUp
         PROVE  WaitOK'
    BY <1>11, PipeAssumed DEF N!BeBusy, N!Unsent, N!Failed, N!Goto, WaitOK, Made, ClientTypes, RequestTypes,
       N!threadvars, N!clientvars, N!readvars, N!pipevars, N!childvars
  <1>12. ASSUME NEW t \in Threads, N!Enqueue(t), N!GiveUp
         PROVE  WaitOK'
    <2>1. Len(made) + 1 \in N!Ids /\ Len(made) \in Nat /\ current \in N!Gens
      <3>1. current # 0
        BY <1>12, Zenon DEF N!Enqueue, N!Refused, N!Running
      <3> QED
        BY <1>12, <3>1, RoomForOne, Ranges DEF N!Enqueue, ClientTypes
    <2>2. made' = Append(made, current) /\ id' = [id EXCEPT ![t] = Len(made) + 1] /\ pc' = [pc EXCEPT ![t] = "wait"]
      BY <1>12, Zenon DEF N!Enqueue, N!Goto
    <2>3. Len(made') = Len(made) + 1 /\ made'[Len(made) + 1] = current /\ \A r \in Made : made'[r] = made[r]
      BY <2>1, <2>2 DEF RequestTypes, ClientTypes, Made
    <2>4. id'[t] = Len(made) + 1 /\ \A u \in Threads \ {t} : id'[u] = id[u] /\ pc'[u] = pc[u]
      BY <2>2 DEF ClientTypes
    <2>5. \A u \in Threads \ {t} : pc'[u] \in {"wait", "cancel"} => id[u] # Len(made) + 1
      BY <2>1, <2>4 DEF WaitOK, Made
    <2>6. \A u \in Threads : pc'[u] \in {"wait", "cancel"} => id'[u] \in Made' /\ made'[id'[u]] \in N!Gens
      BY <2>1, <2>3, <2>4 DEF WaitOK, Made
    <2>7. \A u \in Threads, v \in Threads : pc'[u] = "wait" /\ pc'[v] = "wait" /\ id'[u] = id'[v] => u = v
      BY <2>4, <2>5 DEF WaitOK
    <2> QED
      BY <2>6, <2>7, Zenon DEF WaitOK
  <1>13. ASSUME NEW t \in Threads, N!Done(t), N!GiveUp
         PROVE  WaitOK'
    BY <1>13, PipeAssumed DEF N!Done, N!Failed, N!Goto, WaitOK, Made, ClientTypes, RequestTypes, N!threadvars,
       N!clientvars, N!readvars, N!pipevars, N!childvars
  <1>14. ASSUME NEW t \in Threads, N!TimeOut(t), N!GiveUp
         PROVE  WaitOK'
    BY <1>14, PipeAssumed DEF N!TimeOut, N!Goto, WaitOK, Made, ClientTypes, RequestTypes, N!threadvars,
       N!clientvars, N!readvars, N!pipevars, N!childvars
  <1>15. ASSUME NEW t \in Threads, N!SendCancel(t), N!GiveUp
         PROVE  WaitOK'
    BY <1>15, PipeAssumed DEF N!SendCancel, N!Failed, N!Goto, N!CancelFrame, WaitOK, Made, ClientTypes,
       RequestTypes, N!threadvars, N!clientvars, N!readvars, N!pipevars, N!childvars
  <1>16. ASSUME NEW t \in Threads, N!Register(t), N!GiveUp
         PROVE  WaitOK'
    <2>1. UNCHANGED <<id, made>> /\ pc'[t] \notin {"wait", "cancel"} /\ \A u \in Threads \ {t} : pc'[u] = pc[u]
      BY <1>16 DEF N!Register, N!Goto, ClientTypes, N!clientvars
    <2> QED
      BY <2>1 DEF WaitOK, Made
  <1>17. ASSUME NEW t \in Threads, N!Publish(t), N!GiveUp
         PROVE  WaitOK'
    BY <1>17, PipeAssumed DEF N!Publish, N!Goto, N!Running, N!Exited, WaitOK, Made, ClientTypes, RequestTypes,
       N!threadvars, N!clientvars, N!readvars, N!pipevars, N!childvars
  <1>18. ASSUME NEW t \in Threads, N!PublishGone(t), N!GiveUp
         PROVE  WaitOK'
    BY <1>18, PipeAssumed DEF N!PublishGone, N!Goto, WaitOK, Made, ClientTypes, RequestTypes, N!threadvars,
       N!clientvars, N!readvars, N!pipevars, N!childvars
  <1>19. ASSUME NEW t \in Threads, N!StopProcess(t), N!GiveUp
         PROVE  WaitOK'
    BY <1>19, PipeAssumed DEF N!StopProcess, N!Goto, N!Sentinel, WaitOK, Made, ClientTypes, RequestTypes,
       N!threadvars, N!clientvars, N!readvars, N!pipevars, N!childvars
  <1>20. ASSUME NEW t \in Threads, N!Reap(t), N!GiveUp
         PROVE  WaitOK'
    BY <1>20, PipeAssumed DEF N!Reap, N!Goto, WaitOK, Made, ClientTypes, RequestTypes, N!threadvars,
       N!clientvars, N!readvars, N!pipevars, N!childvars
  <1>21. ASSUME NEW t \in Threads, N!Forget(t), N!GiveUp
         PROVE  WaitOK'
    BY <1>21, PipeAssumed DEF N!Forget, N!Goto, WaitOK, Made, ClientTypes, RequestTypes, N!threadvars,
       N!clientvars, N!readvars, N!pipevars, N!childvars
  <1>22. ASSUME NEW t \in Threads, N!Closed(t), N!GiveUp
         PROVE  WaitOK'
    BY <1>22, PipeAssumed DEF N!Closed, N!Goto, WaitOK, Made, ClientTypes, RequestTypes, N!threadvars,
       N!clientvars, N!readvars, N!pipevars, N!childvars
  <1>30. ASSUME NEW t \in Threads, N!Withdraw(t), N!GiveUp
         PROVE  WaitOK'
    BY <1>30, PipeAssumed DEF N!Withdraw, N!Goto, WaitOK, Made, ClientTypes, RequestTypes, N!threadvars,
       N!clientvars, N!readvars, N!pipevars, N!childvars
  <1>31. ASSUME NEW t \in Threads, N!Unlist(t), N!GiveUp
         PROVE  WaitOK'
    BY <1>31, PipeAssumed DEF N!Unlist, N!Goto, WaitOK, Made, ClientTypes, RequestTypes, N!threadvars,
       N!clientvars, N!readvars, N!pipevars, N!childvars
  <1>32. ASSUME NEW t \in Threads, N!Wake(t), N!GiveUp
         PROVE  WaitOK'
    BY <1>32, PipeAssumed DEF N!Wake, N!Goto, N!Running, N!Exited, WaitOK, Made, ClientTypes,
       RequestTypes, N!threadvars, N!clientvars, N!readvars, N!pipevars, N!childvars
  <1> QED
    BY <1>1, <1>2, <1>3, <1>4, <1>5, <1>6, <1>7, <1>8, <1>9, <1>10, <1>11, <1>12, <1>13, <1>14, <1>15, <1>16,
       <1>17, <1>18, <1>19, <1>20, <1>21, <1>22, <1>30, <1>31, <1>32, Zenon DEF N!Next, N!Proceed, N!Threading, nvars

LEMMA KnownStays ==
  ASSUME ClientTypes, RequestTypes, ChildTypes, RoomOK, WaitOK, KnownOK, CanceledOK, [N!Next]_nvars
  PROVE  KnownOK'
  <1>1. CASE UNCHANGED <<pending, abandoned, result, loss, notStarted, made>>
    BY <1>1 DEF KnownOK, Made, RequestTypes
  <1>2. ASSUME NEW t \in Threads, N!GiveUp, N!Call(t) \/ N!Unlist(t) \/ N!Withdraw(t) \/ N!EnsureClosed(t) \/ N!EnsureReady(t) \/
     N!EnsureRestart(t) \/ N!Start(t) \/ N!StartFails(t) \/ N!SendCancel(t) \/ N!Register(t) \/ N!Publish(t) \/
     N!PublishGone(t) \/ N!StopProcess(t) \/ N!Reap(t) \/ N!Forget(t) \/ N!Closed(t)
         PROVE  UNCHANGED <<pending, abandoned, result, loss, notStarted, made>>
    BY <1>2, Zenon DEF N!Call, N!Unlist, N!Withdraw, N!Goto, N!EnsureClosed, N!EnsureReady, N!Running,
       N!Exited, N!EnsureRestart,
       N!Start, N!StartFails, N!SendCancel, N!Failed, N!CancelFrame, N!Register, N!Publish, N!PublishGone,
       N!StopProcess, N!Sentinel, N!Reap, N!Forget, N!Closed, N!GiveUp, N!threadvars, N!clientvars, N!readvars,
       N!pipevars, N!childvars
  <1>3. ASSUME NEW g \in N!Gens, N!GiveUp, N!WriterTakes(g) \/ N!WriterWrites(g) \/ N!ChildAnswers(g) \/
     N!ChildDies(g)
         PROVE  UNCHANGED <<pending, abandoned, result, loss, notStarted, made>>
    BY <1>3, Zenon DEF N!WriterTakes, N!Taken, N!WriterWrites, N!ChildAnswers, N!ChildDies, N!GiveUp,
       N!threadvars, N!clientvars, N!readvars, N!pipevars, N!childvars
  <1>4. ASSUME NEW t \in Threads, N!Close(t), N!GiveUp
         PROVE  KnownOK'
    BY <1>4, PipeAssumed DEF N!Close, N!Goto, N!Running, N!Exited, KnownOK, Made, RequestTypes,
       N!threadvars, N!clientvars, N!readvars, N!pipevars, N!childvars, N!GiveUp
  <1>5. ASSUME NEW t \in Threads, N!Refuse(t), N!GiveUp
         PROVE  KnownOK'
    BY <1>5, PipeAssumed DEF N!Refuse, N!Unsent, N!Failed, N!Goto, KnownOK, Made, RequestTypes, N!threadvars,
       N!clientvars, N!readvars, N!pipevars, N!childvars, N!GiveUp
  <1>6. ASSUME NEW t \in Threads, N!BeBusy(t), N!GiveUp
         PROVE  KnownOK'
    BY <1>6, PipeAssumed DEF N!BeBusy, N!Unsent, N!Failed, N!Goto, KnownOK, Made, RequestTypes, N!threadvars,
       N!clientvars, N!readvars, N!pipevars, N!childvars, N!GiveUp
  <1>7. ASSUME NEW t \in Threads, N!Enqueue(t), N!GiveUp
         PROVE  KnownOK'
    <2>1. Len(made) + 1 \in N!Ids /\ Len(made) \in Nat
      BY <1>7, RoomForOne DEF N!Enqueue
    <2>2. made' = Append(made, current) /\ pending' = pending \cup {Len(made) + 1} /\ UNCHANGED <<result, loss, notStarted>>
      BY <1>7, Zenon DEF N!Enqueue, N!readvars
    <2>3. abandoned' = abandoned
      <3>1. pending \ pending' = {}
        BY <2>2
      <3> QED
        BY <1>7, <3>1 DEF N!GiveUp
    <2>4. Made' = Made \cup {Len(made) + 1} /\ Len(made) + 1 \notin Made /\ \A r \in Made : made'[r] = made[r]
      BY <2>1, <2>2 DEF RequestTypes, ClientTypes, Made
    <2>5. pending' \subseteq Made' /\ abandoned' \subseteq Made' /\ abandoned' \cap pending' = {}
      BY <2>2, <2>3, <2>4 DEF KnownOK
    <2>6. \A r \in N!Ids : result'[r] # "none" => r \in Made' \ pending'
      BY <2>2, <2>4 DEF KnownOK
    <2>7. \A x \in {"reader", "writer"}, h \in N!Gens : loss'[x][h] \subseteq Made' \ pending'
      BY <2>2, <2>4 DEF KnownOK
    <2>8. \A r \in notStarted' : r \in Made' /\ made'[r] = 0
      BY <2>2, <2>4 DEF KnownOK
    <2> QED
      BY <2>5, <2>6, <2>7, <2>8, Zenon DEF KnownOK
  <1>8. ASSUME NEW t \in Threads, N!Done(t), N!GiveUp
         PROVE  KnownOK'
    BY <1>8, PipeAssumed DEF N!Done, N!Failed, N!Goto, KnownOK, Made, RequestTypes, N!threadvars, N!clientvars,
       N!readvars, N!pipevars, N!childvars, N!GiveUp
  <1>9. ASSUME NEW t \in Threads, N!TimeOut(t), N!GiveUp
         PROVE  KnownOK'
    BY <1>9, PipeAssumed DEF N!TimeOut, N!Goto, KnownOK, Made, RequestTypes, N!threadvars, N!clientvars,
       N!readvars, N!pipevars, N!childvars, N!GiveUp
  <1>10. ASSUME NEW g \in N!Gens, N!ReadAnswer(g), N!GiveUp
         PROVE  KnownOK'
    <2>1. PICK r \in outbox[g] : /\ pending' = pending \ {r}
                                /\ result' = IF r \in pending THEN [result EXCEPT ![r] = "answer"] ELSE result
      BY <1>10, Zenon DEF N!ReadAnswer
    <2>2. UNCHANGED <<made, loss, notStarted>>
      BY <1>10, Zenon DEF N!ReadAnswer, N!readvars
    <2>3. abandoned' \subseteq abandoned \cup (pending \ pending')
      BY <1>10, Zenon DEF N!GiveUp
    <2>4. \A q \in N!Ids : result'[q] # "none" => result[q] # "none" \/ (q = r /\ r \in pending)
      BY <2>1 DEF RequestTypes
    <2>5. pending' \subseteq Made /\ abandoned' \subseteq Made /\ abandoned' \cap pending' = {}
      BY <2>1, <2>3 DEF KnownOK
    <2>6. \A q \in N!Ids : result'[q] # "none" => q \in Made \ pending'
      BY <2>1, <2>4 DEF KnownOK
    <2>7. \A x \in {"reader", "writer"}, h \in N!Gens : loss[x][h] \subseteq Made \ pending'
      BY <2>1 DEF KnownOK
    <2>8. Made' = Made
      BY <2>2, Zenon DEF Made
    <2> QED
      BY <2>2, <2>5, <2>6, <2>7, <2>8, Zenon DEF KnownOK
  <1>11. ASSUME NEW g \in N!Gens, N!ReadFails(g), N!GiveUp
         PROVE  KnownOK'
    BY <1>11, PipeAssumed DEF N!ReadFails, N!FailGeneration, N!Exited, KnownOK, Made, RequestTypes,
       N!threadvars, N!clientvars, N!readvars, N!pipevars, N!childvars, N!GiveUp
  <1>12. ASSUME NEW g \in N!Gens, N!WriterBreaks(g), N!GiveUp
         PROVE  KnownOK'
    BY <1>12, PipeAssumed DEF N!WriterBreaks, N!FailGeneration, N!Exited, KnownOK, Made, RequestTypes,
       N!threadvars, N!clientvars, N!readvars, N!pipevars, N!childvars, N!GiveUp
  <1>13. ASSUME NEW g \in N!Gens, N!ThreadFails(g), N!GiveUp
         PROVE  KnownOK'
    <2>1. UNCHANGED <<made, pending, notStarted>>
      BY <1>13, Zenon DEF N!ThreadFails
    <2>2. abandoned' = abandoned
      BY <1>13, <2>1 DEF N!GiveUp
    <2>3. \E x \in {"reader", "writer"} :
            /\ \A q \in N!Ids : result'[q] # "none" => result[q] # "none" \/ q \in loss[x][g]
            /\ loss' \in {loss, [loss EXCEPT ![x][g] = {}]}
      BY <1>13 DEF N!ThreadFails, N!Unregister, N!WakeFailed, RequestTypes
    <2>4. \A q \in N!Ids : result'[q] # "none" => q \in Made \ pending
      BY <2>3 DEF KnownOK
    <2>5. \A x \in {"reader", "writer"}, h \in N!Gens : loss'[x][h] \subseteq Made \ pending
      BY <2>3 DEF KnownOK, RequestTypes
    <2>6. Made' = Made
      BY <2>1, Zenon DEF Made
    <2> QED
      BY <2>1, <2>2, <2>4, <2>5, <2>6, Zenon DEF KnownOK
  <1>32. ASSUME NEW t \in Threads, N!Wake(t), N!GiveUp
         PROVE  KnownOK'
    BY <1>32, PipeAssumed DEF N!Wake, KnownOK, CanceledOK, Made, RequestTypes,
       N!threadvars, N!clientvars, N!readvars, N!pipevars, N!childvars, N!GiveUp
  <1> QED
    BY <1>1, <1>2, <1>3, <1>4, <1>5, <1>6, <1>7, <1>8, <1>9, <1>10, <1>11, <1>12, <1>13, <1>32, Zenon DEF N!Next,
       N!Proceed, N!Threading, nvars

LEMMA LossStays ==
  ASSUME ClientTypes, RequestTypes, ChildTypes, LockOK, OrderOK, FreshOK, LossOK, [N!Next]_nvars
  PROVE  LossOK'
  <1>1. CASE UNCHANGED <<reader, writer, loss>>
    BY <1>1 DEF LossOK, RequestTypes, ChildTypes
  <1>2. ASSUME NEW t \in Threads, N!GiveUp, N!Call(t) \/ N!Wake(t) \/ N!Unlist(t) \/ N!Withdraw(t) \/ N!Close(t) \/ N!EnsureClosed(t) \/ N!EnsureReady(t) \/
     N!EnsureRestart(t) \/ N!StartFails(t) \/ N!Refuse(t) \/ N!BeBusy(t) \/ N!Enqueue(t) \/ N!Done(t) \/
     N!TimeOut(t) \/ N!SendCancel(t) \/ N!Register(t) \/ N!Publish(t) \/ N!PublishGone(t) \/ N!StopProcess(t) \/
     N!Reap(t) \/ N!Forget(t) \/ N!Closed(t)
         PROVE  UNCHANGED <<reader, writer, loss>>
    BY <1>2, Zenon DEF N!Call, N!Wake, N!Unlist, N!Withdraw, N!Goto, N!Close, N!Running, N!Exited, N!EnsureClosed,
       N!EnsureReady, N!EnsureRestart, N!StartFails, N!Refuse, N!Unsent, N!Failed, N!BeBusy, N!Enqueue, N!Done,
       N!TimeOut, N!SendCancel, N!CancelFrame, N!Register, N!Publish, N!PublishGone, N!StopProcess, N!Sentinel,
       N!Reap, N!Forget, N!Closed, N!threadvars, N!clientvars, N!readvars, N!pipevars, N!childvars
  <1>3. ASSUME NEW g \in N!Gens, N!GiveUp, N!ReadAnswer(g) \/ N!ChildAnswers(g) \/ N!ChildDies(g)
         PROVE  UNCHANGED <<reader, writer, loss>>
    BY <1>3, Zenon DEF N!ReadAnswer, N!ChildAnswers, N!ChildDies, N!threadvars, N!clientvars, N!readvars,
       N!pipevars, N!childvars
  <1>4. ASSUME NEW t \in Threads, N!Start(t), N!GiveUp
         PROVE  LossOK'
    <2>1. loss' = loss
      BY <1>4, Zenon DEF N!Start
    <2> QED
      BY <1>4, <2>1, FreshStart DEF LossOK, ChildTypes
  <1>5. ASSUME NEW g \in N!Gens, N!ReadFails(g), N!GiveUp
         PROVE  LossOK'
    BY <1>5, PipeAssumed DEF N!ReadFails, N!FailGeneration, N!Exited, LossOK, RequestTypes, ChildTypes,
       N!threadvars, N!clientvars, N!readvars, N!pipevars, N!childvars
  <1>6. ASSUME NEW g \in N!Gens, N!WriterTakes(g), N!GiveUp
         PROVE  LossOK'
    BY <1>6, PipeAssumed DEF N!WriterTakes, N!Taken, LossOK, RequestTypes, ChildTypes, N!threadvars,
       N!clientvars, N!readvars, N!pipevars, N!childvars
  <1>7. ASSUME NEW g \in N!Gens, N!WriterWrites(g), N!GiveUp
         PROVE  LossOK'
    BY <1>7, PipeAssumed DEF N!WriterWrites, LossOK, RequestTypes, ChildTypes, N!threadvars, N!clientvars,
       N!readvars, N!pipevars, N!childvars
  <1>8. ASSUME NEW g \in N!Gens, N!WriterBreaks(g), N!GiveUp
         PROVE  LossOK'
    BY <1>8, PipeAssumed DEF N!WriterBreaks, N!FailGeneration, N!Exited, LossOK, RequestTypes, ChildTypes,
       N!threadvars, N!clientvars, N!readvars, N!pipevars, N!childvars
  <1>9. ASSUME NEW g \in N!Gens, N!ThreadFails(g), N!GiveUp
         PROVE  LossOK'
    BY <1>9, PipeAssumed DEF N!ThreadFails, N!Unregister, N!WakeFailed, N!Sentinel, LossOK, RequestTypes,
       ChildTypes, N!threadvars, N!clientvars, N!readvars, N!pipevars, N!childvars
  <1> QED
    BY <1>1, <1>2, <1>3, <1>4, <1>5, <1>6, <1>7, <1>8, <1>9, Zenon DEF N!Next, N!Proceed, N!Threading, nvars

LEMMA WaitersStay ==
  ASSUME ClientTypes, RequestTypes, WaitOK, KnownOK, N!PendingHasWaiter, [N!Next]_nvars
  PROVE  N!PendingHasWaiter'
  <1>1. CASE UNCHANGED <<pc, id, pending>>
    BY <1>1 DEF N!PendingHasWaiter, ClientTypes, RequestTypes
  <1>2. ASSUME NEW g \in N!Gens, N!GiveUp, N!WriterTakes(g) \/ N!WriterWrites(g) \/ N!ThreadFails(g) \/
     N!ChildAnswers(g) \/ N!ChildDies(g)
         PROVE  UNCHANGED <<pc, id, pending>>
    BY <1>2, Zenon DEF N!WriterTakes, N!Taken, N!WriterWrites, N!ThreadFails, N!Unregister, N!WakeFailed,
       N!Sentinel, N!ChildAnswers, N!ChildDies, N!threadvars, N!clientvars, N!readvars, N!pipevars, N!childvars
  <1>3. ASSUME NEW t \in Threads, N!Call(t), N!GiveUp
         PROVE  N!PendingHasWaiter'
    BY <1>3, PipeAssumed DEF N!Call, N!Goto, N!PendingHasWaiter, ClientTypes, RequestTypes, N!threadvars,
       N!clientvars, N!readvars, N!pipevars, N!childvars
  <1>4. ASSUME NEW t \in Threads, N!Close(t), N!GiveUp
         PROVE  N!PendingHasWaiter'
    BY <1>4, PipeAssumed DEF N!Close, N!Goto, N!Running, N!Exited, N!PendingHasWaiter,
       ClientTypes, RequestTypes, N!threadvars, N!clientvars, N!readvars, N!pipevars, N!childvars
  <1>5. ASSUME NEW t \in Threads, N!EnsureClosed(t), N!GiveUp
         PROVE  N!PendingHasWaiter'
    BY <1>5, PipeAssumed DEF N!EnsureClosed, N!Goto, N!PendingHasWaiter, ClientTypes, RequestTypes,
       N!threadvars, N!clientvars, N!readvars, N!pipevars, N!childvars
  <1>6. ASSUME NEW t \in Threads, N!EnsureReady(t), N!GiveUp
         PROVE  N!PendingHasWaiter'
    BY <1>6, PipeAssumed DEF N!EnsureReady, N!Goto, N!Running, N!Exited, N!PendingHasWaiter, ClientTypes,
       RequestTypes, N!threadvars, N!clientvars, N!readvars, N!pipevars, N!childvars
  <1>7. ASSUME NEW t \in Threads, N!EnsureRestart(t), N!GiveUp
         PROVE  N!PendingHasWaiter'
    BY <1>7, PipeAssumed DEF N!EnsureRestart, N!Goto, N!PendingHasWaiter, ClientTypes, RequestTypes,
       N!threadvars, N!clientvars, N!readvars, N!pipevars, N!childvars
  <1>8. ASSUME NEW t \in Threads, N!Start(t), N!GiveUp
         PROVE  N!PendingHasWaiter'
    BY <1>8, PipeAssumed DEF N!Start, N!Goto, N!PendingHasWaiter, ClientTypes, RequestTypes, N!threadvars,
       N!clientvars, N!readvars, N!pipevars, N!childvars
  <1>9. ASSUME NEW t \in Threads, N!StartFails(t), N!GiveUp
         PROVE  N!PendingHasWaiter'
    BY <1>9, PipeAssumed DEF N!StartFails, N!Goto, N!PendingHasWaiter, ClientTypes, RequestTypes, N!threadvars,
       N!clientvars, N!readvars, N!pipevars, N!childvars
  <1>10. ASSUME NEW t \in Threads, N!Refuse(t), N!GiveUp
         PROVE  N!PendingHasWaiter'
    BY <1>10, PipeAssumed DEF N!Refuse, N!Unsent, N!Failed, N!Goto, N!PendingHasWaiter, ClientTypes,
       RequestTypes, N!threadvars, N!clientvars, N!readvars, N!pipevars, N!childvars
  <1>11. ASSUME NEW t \in Threads, N!BeBusy(t), N!GiveUp
         PROVE  N!PendingHasWaiter'
    BY <1>11, PipeAssumed DEF N!BeBusy, N!Unsent, N!Failed, N!Goto, N!PendingHasWaiter, ClientTypes,
       RequestTypes, N!threadvars, N!clientvars, N!readvars, N!pipevars, N!childvars
  <1>12. ASSUME NEW t \in Threads, N!Enqueue(t), N!GiveUp
         PROVE  N!PendingHasWaiter'
    BY <1>12, PipeAssumed DEF N!Enqueue, N!Goto, N!PendingHasWaiter, ClientTypes, RequestTypes, N!threadvars,
       N!clientvars, N!readvars, N!pipevars, N!childvars
  <1>13. ASSUME NEW t \in Threads, N!Done(t), N!GiveUp
         PROVE  N!PendingHasWaiter'
    <2>1. id[t] \notin pending
      BY <1>13 DEF N!Done, KnownOK, WaitOK, ClientTypes, Made, N!Ids
    <2>2. pending' = pending /\ \A u \in Threads \ {t} : pc'[u] = pc[u] /\ id'[u] = id[u]
      BY <1>13 DEF N!Done, N!Failed, N!Goto, ClientTypes
    <2> SUFFICES ASSUME NEW r \in pending
                 PROVE  \E u \in Threads : pc'[u] = "wait" /\ id'[u] = r
      BY <2>2, Zenon DEF N!PendingHasWaiter
    <2>3. PICK u \in Threads : pc[u] = "wait" /\ id[u] = r
      BY Zenon DEF N!PendingHasWaiter
    <2>4. u # t
      BY <2>1, <2>3, Zenon
    <2> QED
      BY <2>2, <2>3, <2>4, Zenon
  <1>14. ASSUME NEW t \in Threads, N!TimeOut(t), N!GiveUp
         PROVE  N!PendingHasWaiter'
    BY <1>14, PipeAssumed DEF N!TimeOut, N!Goto, N!PendingHasWaiter, ClientTypes, RequestTypes, N!threadvars,
       N!clientvars, N!readvars, N!pipevars, N!childvars
  <1>15. ASSUME NEW t \in Threads, N!SendCancel(t), N!GiveUp
         PROVE  N!PendingHasWaiter'
    BY <1>15, PipeAssumed DEF N!SendCancel, N!Failed, N!Goto, N!CancelFrame, N!PendingHasWaiter, ClientTypes,
       RequestTypes, N!threadvars, N!clientvars, N!readvars, N!pipevars, N!childvars
  <1>16. ASSUME NEW t \in Threads, N!Register(t), N!GiveUp
         PROVE  N!PendingHasWaiter'
    BY <1>16, PipeAssumed DEF N!Register, N!Goto, N!PendingHasWaiter, ClientTypes, RequestTypes, N!threadvars,
       N!clientvars, N!readvars, N!pipevars, N!childvars
  <1>17. ASSUME NEW t \in Threads, N!Publish(t), N!GiveUp
         PROVE  N!PendingHasWaiter'
    BY <1>17, PipeAssumed DEF N!Publish, N!Goto, N!Running, N!Exited, N!PendingHasWaiter, ClientTypes,
       RequestTypes, N!threadvars, N!clientvars, N!readvars, N!pipevars, N!childvars
  <1>18. ASSUME NEW t \in Threads, N!PublishGone(t), N!GiveUp
         PROVE  N!PendingHasWaiter'
    BY <1>18, PipeAssumed DEF N!PublishGone, N!Goto, N!PendingHasWaiter, ClientTypes, RequestTypes,
       N!threadvars, N!clientvars, N!readvars, N!pipevars, N!childvars
  <1>19. ASSUME NEW t \in Threads, N!StopProcess(t), N!GiveUp
         PROVE  N!PendingHasWaiter'
    BY <1>19, PipeAssumed DEF N!StopProcess, N!Goto, N!Sentinel, N!PendingHasWaiter, ClientTypes, RequestTypes,
       N!threadvars, N!clientvars, N!readvars, N!pipevars, N!childvars
  <1>20. ASSUME NEW t \in Threads, N!Reap(t), N!GiveUp
         PROVE  N!PendingHasWaiter'
    BY <1>20, PipeAssumed DEF N!Reap, N!Goto, N!PendingHasWaiter, ClientTypes, RequestTypes, N!threadvars,
       N!clientvars, N!readvars, N!pipevars, N!childvars
  <1>21. ASSUME NEW t \in Threads, N!Forget(t), N!GiveUp
         PROVE  N!PendingHasWaiter'
    BY <1>21, PipeAssumed DEF N!Forget, N!Goto, N!PendingHasWaiter, ClientTypes, RequestTypes, N!threadvars,
       N!clientvars, N!readvars, N!pipevars, N!childvars
  <1>22. ASSUME NEW t \in Threads, N!Closed(t), N!GiveUp
         PROVE  N!PendingHasWaiter'
    BY <1>22, PipeAssumed DEF N!Closed, N!Goto, N!PendingHasWaiter, ClientTypes, RequestTypes, N!threadvars,
       N!clientvars, N!readvars, N!pipevars, N!childvars
  <1>23. ASSUME NEW g \in N!Gens, N!ReadAnswer(g), N!GiveUp
         PROVE  N!PendingHasWaiter'
    BY <1>23, PipeAssumed DEF N!ReadAnswer, N!PendingHasWaiter, ClientTypes, RequestTypes, N!threadvars,
       N!clientvars, N!readvars, N!pipevars, N!childvars
  <1>24. ASSUME NEW g \in N!Gens, N!ReadFails(g), N!GiveUp
         PROVE  N!PendingHasWaiter'
    BY <1>24, PipeAssumed DEF N!ReadFails, N!FailGeneration, N!Exited, N!PendingHasWaiter, ClientTypes,
       RequestTypes, N!threadvars, N!clientvars, N!readvars, N!pipevars, N!childvars
  <1>25. ASSUME NEW g \in N!Gens, N!WriterBreaks(g), N!GiveUp
         PROVE  N!PendingHasWaiter'
    BY <1>25, PipeAssumed DEF N!WriterBreaks, N!FailGeneration, N!Exited, N!PendingHasWaiter, ClientTypes,
       RequestTypes, N!threadvars, N!clientvars, N!readvars, N!pipevars, N!childvars
  <1>30. ASSUME NEW t \in Threads, N!Withdraw(t), N!GiveUp
         PROVE  N!PendingHasWaiter'
    BY <1>30, PipeAssumed DEF N!Withdraw, N!Goto, N!PendingHasWaiter, ClientTypes, RequestTypes,
       N!threadvars, N!clientvars, N!readvars, N!pipevars, N!childvars
  <1>31. ASSUME NEW t \in Threads, N!Unlist(t), N!GiveUp
         PROVE  N!PendingHasWaiter'
    BY <1>31, PipeAssumed DEF N!Unlist, N!Goto, N!PendingHasWaiter, ClientTypes, RequestTypes, N!threadvars,
       N!clientvars, N!readvars, N!pipevars, N!childvars
  <1>32. ASSUME NEW t \in Threads, N!Wake(t), N!GiveUp
         PROVE  N!PendingHasWaiter'
    BY <1>32, PipeAssumed DEF N!Wake, N!Goto, N!Running, N!Exited, N!PendingHasWaiter,
       ClientTypes, RequestTypes, N!threadvars, N!clientvars, N!readvars, N!pipevars, N!childvars
  <1> QED
    BY <1>1, <1>2, <1>3, <1>4, <1>5, <1>6, <1>7, <1>8, <1>9, <1>10, <1>11, <1>12, <1>13, <1>14, <1>15, <1>16,
       <1>17, <1>18, <1>19, <1>20, <1>21, <1>22, <1>23, <1>24, <1>25, <1>30, <1>31, <1>32, Zenon DEF N!Next, N!Proceed, N!Threading,
       nvars

(* A caller that was taken out of the table is woken by the one who took   *)
(* it out, who has the lifecycle lock until then.                          *)
LEMMA RecalledStays ==
  ASSUME ClientTypes, LockOK, [N!Next]_nvars
  PROVE  \A r \in N!Ids : Recalled(r) => Recalled(r)' \/ result'[r] # "none"
  <1> SUFFICES ASSUME NEW r \in N!Ids, r \in canceled, NEW u \in Threads, pc[u] = "wake"
               PROVE  Recalled(r)' \/ result'[r] # "none"
    BY Zenon DEF Recalled
  <1>1. lifecycle = u
    BY Zenon DEF LockOK
  <1>2. UNCHANGED canceled /\ pc'[u] = "wake" => Recalled(r)'
    BY Zenon DEF Recalled
  <1>3. CASE UNCHANGED <<pc, canceled>>
    BY <1>2, <1>3, Zenon
    <1>4. ASSUME NEW g \in N!Gens, N!GiveUp, N!ReadAnswer(g) \/ N!ReadFails(g) \/ N!WriterTakes(g) \/
     N!WriterWrites(g) \/ N!WriterBreaks(g) \/ N!ThreadFails(g) \/ N!ChildAnswers(g) \/ N!ChildDies(g)
         PROVE  UNCHANGED <<pc, canceled>>
    BY <1>4, Zenon DEF N!ReadAnswer, N!ReadFails, N!WriterTakes, N!WriterWrites, N!WriterBreaks,
       N!ThreadFails, N!ChildAnswers, N!ChildDies, N!threadvars, N!latevars
  <1>5. ASSUME NEW t \in Threads, N!Call(t), N!GiveUp
         PROVE  UNCHANGED canceled /\ pc'[u] = "wake"
    BY <1>5 DEF N!Call, N!Goto, N!latevars, ClientTypes
  <1>6. ASSUME NEW t \in Threads, N!EnsureClosed(t), N!GiveUp
         PROVE  UNCHANGED canceled /\ pc'[u] = "wake"
    BY <1>6 DEF N!EnsureClosed, N!Goto, N!latevars, ClientTypes
  <1>7. ASSUME NEW t \in Threads, N!EnsureReady(t), N!GiveUp
         PROVE  UNCHANGED canceled /\ pc'[u] = "wake"
    BY <1>7 DEF N!EnsureReady, N!Goto, N!latevars, ClientTypes
  <1>8. ASSUME NEW t \in Threads, N!EnsureRestart(t), N!GiveUp
         PROVE  UNCHANGED canceled /\ pc'[u] = "wake"
    BY <1>8 DEF N!EnsureRestart, N!Goto, N!latevars, ClientTypes
  <1>9. ASSUME NEW t \in Threads, N!Start(t), N!GiveUp
         PROVE  UNCHANGED canceled /\ pc'[u] = "wake"
    BY <1>9 DEF N!Start, N!Goto, N!latevars, ClientTypes
  <1>10. ASSUME NEW t \in Threads, N!StartFails(t), N!GiveUp
         PROVE  UNCHANGED canceled /\ pc'[u] = "wake"
    BY <1>10 DEF N!StartFails, N!Goto, N!latevars, ClientTypes
  <1>11. ASSUME NEW t \in Threads, N!Refuse(t), N!GiveUp
         PROVE  UNCHANGED canceled /\ pc'[u] = "wake"
    BY <1>11 DEF N!Refuse, N!Unsent, N!Failed, N!Goto, N!latevars, ClientTypes
  <1>12. ASSUME NEW t \in Threads, N!BeBusy(t), N!GiveUp
         PROVE  UNCHANGED canceled /\ pc'[u] = "wake"
    BY <1>12 DEF N!BeBusy, N!Unsent, N!Failed, N!Goto, N!latevars, ClientTypes
  <1>13. ASSUME NEW t \in Threads, N!Enqueue(t), N!GiveUp
         PROVE  UNCHANGED canceled /\ pc'[u] = "wake"
    BY <1>13 DEF N!Enqueue, N!Goto, N!latevars, ClientTypes
  <1>14. ASSUME NEW t \in Threads, N!Done(t), N!GiveUp
         PROVE  UNCHANGED canceled /\ pc'[u] = "wake"
    BY <1>14 DEF N!Done, N!Failed, N!Goto, N!latevars, ClientTypes
  <1>15. ASSUME NEW t \in Threads, N!TimeOut(t), N!GiveUp
         PROVE  UNCHANGED canceled /\ pc'[u] = "wake"
    BY <1>15 DEF N!TimeOut, N!Goto, N!latevars, ClientTypes
  <1>16. ASSUME NEW t \in Threads, N!SendCancel(t), N!GiveUp
         PROVE  UNCHANGED canceled /\ pc'[u] = "wake"
    BY <1>16 DEF N!SendCancel, N!Failed, N!Goto, N!latevars, ClientTypes
  <1>17. ASSUME NEW t \in Threads, N!Register(t), N!GiveUp
         PROVE  UNCHANGED canceled /\ pc'[u] = "wake"
    BY <1>17 DEF N!Register, N!Goto, N!latevars, ClientTypes
  <1>18. ASSUME NEW t \in Threads, N!Publish(t), N!GiveUp
         PROVE  UNCHANGED canceled /\ pc'[u] = "wake"
    BY <1>18 DEF N!Publish, N!Goto, N!latevars, ClientTypes
  <1>19. ASSUME NEW t \in Threads, N!PublishGone(t), N!GiveUp
         PROVE  UNCHANGED canceled /\ pc'[u] = "wake"
    BY <1>19 DEF N!PublishGone, N!Goto, N!latevars, ClientTypes
  <1>20. ASSUME NEW t \in Threads, N!Withdraw(t), N!GiveUp
         PROVE  UNCHANGED canceled /\ pc'[u] = "wake"
    BY <1>20 DEF N!Withdraw, N!Goto, N!latevars, ClientTypes
  <1>21. ASSUME NEW t \in Threads, N!StopProcess(t), N!GiveUp
         PROVE  UNCHANGED canceled /\ pc'[u] = "wake"
    BY <1>21 DEF N!StopProcess, N!Goto, N!latevars, ClientTypes
  <1>22. ASSUME NEW t \in Threads, N!Reap(t), N!GiveUp
         PROVE  UNCHANGED canceled /\ pc'[u] = "wake"
    BY <1>22 DEF N!Reap, N!Goto, N!latevars, ClientTypes
  <1>23. ASSUME NEW t \in Threads, N!Forget(t), N!GiveUp
         PROVE  UNCHANGED canceled /\ pc'[u] = "wake"
    BY <1>23 DEF N!Forget, N!Goto, N!latevars, ClientTypes
  <1>24. ASSUME NEW t \in Threads, N!Unlist(t), N!GiveUp
         PROVE  UNCHANGED canceled /\ pc'[u] = "wake"
    BY <1>24 DEF N!Unlist, N!Goto, N!latevars, ClientTypes
  <1>25. ASSUME NEW t \in Threads, N!Closed(t), N!GiveUp
         PROVE  UNCHANGED canceled /\ pc'[u] = "wake"
    BY <1>25 DEF N!Closed, N!Goto, N!latevars, ClientTypes
  <1>26. ASSUME NEW t \in Threads, N!Close(t), N!GiveUp
         PROVE  FALSE
    BY <1>1, <1>26, PipeAssumed DEF N!Close
  <1>27. ASSUME NEW t \in Threads, N!Wake(t), N!GiveUp
         PROVE  result'[r] # "none"
    BY <1>27 DEF N!Wake
  <1> QED
    BY <1>2, <1>3, <1>4, <1>5, <1>6, <1>7, <1>8, <1>9, <1>10, <1>11, <1>12, <1>13, <1>14, <1>15, <1>16,
       <1>17, <1>18, <1>19, <1>20, <1>21, <1>22, <1>23, <1>24, <1>25, <1>26, <1>27, Zenon DEF N!Next,
       N!Proceed, N!Threading, nvars

LEMMA LateTypesStay ==
  ASSUME ClientTypes, RequestTypes, ChildTypes, LockOK, LateTypes, [N!Next]_nvars
  PROVE  LateTypes'
  <1>1. CASE UNCHANGED <<canceled, dropped, strayed>>
    BY <1>1 DEF LateTypes
    <1>2. ASSUME NEW t \in Threads, N!GiveUp, N!Call(t) \/ N!EnsureClosed(t) \/ N!EnsureReady(t) \/
     N!EnsureRestart(t) \/ N!Start(t) \/ N!StartFails(t) \/ N!Refuse(t) \/ N!BeBusy(t) \/ N!Enqueue(t) \/
     N!Done(t) \/ N!TimeOut(t) \/ N!SendCancel(t) \/ N!Publish(t) \/ N!PublishGone(t) \/ N!Withdraw(t) \/
     N!StopProcess(t) \/ N!Reap(t) \/ N!Closed(t)
         PROVE  UNCHANGED <<canceled, dropped, strayed>>
    BY <1>2, Zenon DEF N!Call, N!EnsureClosed, N!EnsureReady, N!EnsureRestart, N!Start, N!StartFails,
       N!Refuse, N!Unsent, N!Failed, N!BeBusy, N!Enqueue, N!Done, N!TimeOut, N!SendCancel, N!Publish,
       N!PublishGone, N!Withdraw, N!StopProcess, N!Reap, N!Closed, N!latevars
    <1>3. ASSUME NEW g \in N!Gens, N!GiveUp, N!ReadAnswer(g) \/ N!ReadFails(g) \/ N!WriterTakes(g) \/
     N!WriterWrites(g) \/ N!WriterBreaks(g) \/ N!ThreadFails(g) \/ N!ChildAnswers(g) \/ N!ChildDies(g)
         PROVE  UNCHANGED <<canceled, dropped, strayed>>
    BY <1>3, Zenon DEF N!ReadAnswer, N!ReadFails, N!WriterTakes, N!WriterWrites, N!WriterBreaks,
       N!ThreadFails, N!ChildAnswers, N!ChildDies, N!latevars
  <1>4. ASSUME NEW t \in Threads, N!Register(t), N!GiveUp
         PROVE  LateTypes'
    <2>1. current \in N!Gens
      BY <1>4, PipeAssumed DEF N!Register, LockOK, WithChild, ClientTypes, N!Gens
    <2>2. strayed' \subseteq strayed \cup {current} /\ UNCHANGED <<canceled, dropped>>
      BY <1>4 DEF N!Register
    <2> QED
      BY <2>1, <2>2 DEF LateTypes
  <1>5. ASSUME NEW t \in Threads, N!Forget(t), N!GiveUp
         PROVE  LateTypes'
    <2>1. entry \in 0..MaxGens
      BY PipeAssumed DEF ClientTypes
    <2> QED
      BY <1>5, <2>1, Zenon DEF N!Forget, LateTypes
  <1>6. ASSUME NEW t \in Threads, N!Unlist(t), N!GiveUp
         PROVE  LateTypes'
    BY <1>6, PipeAssumed DEF N!Unlist, LateTypes
  <1>7. ASSUME NEW t \in Threads, N!Close(t), N!GiveUp
         PROVE  LateTypes'
    BY <1>7, Zenon DEF N!Close, LateTypes, RequestTypes
  <1>8. ASSUME NEW t \in Threads, N!Wake(t), N!GiveUp
         PROVE  LateTypes'
    BY <1>8 DEF N!Wake, LateTypes
  <1> QED
    BY <1>1, <1>2, <1>3, <1>4, <1>5, <1>6, <1>7, <1>8, Zenon DEF N!Next, N!Proceed, N!Threading, nvars

LEMMA CanceledStays ==
  ASSUME RequestTypes, KnownOK, CanceledOK, [N!Next]_nvars
  PROVE  CanceledOK'
  <1>1. CASE UNCHANGED <<canceled, made, pending>>
    BY <1>1 DEF CanceledOK, Made
    <1>2. ASSUME NEW t \in Threads, N!GiveUp, N!Call(t) \/ N!EnsureClosed(t) \/ N!EnsureReady(t) \/
     N!EnsureRestart(t) \/ N!Start(t) \/ N!StartFails(t) \/ N!Done(t) \/ N!SendCancel(t) \/ N!Register(t)
     \/ N!Publish(t) \/ N!PublishGone(t) \/ N!Withdraw(t) \/ N!StopProcess(t) \/ N!Reap(t) \/ N!Forget(t)
     \/ N!Unlist(t) \/ N!Closed(t)
         PROVE  UNCHANGED <<canceled, made, pending>>
    BY <1>2, Zenon DEF N!Call, N!EnsureClosed, N!EnsureReady, N!EnsureRestart, N!Start, N!StartFails,
       N!Done, N!Failed, N!SendCancel, N!Register, N!Publish, N!PublishGone, N!Withdraw, N!StopProcess,
       N!Reap, N!Forget, N!Unlist, N!Closed, N!clientvars, N!latevars
    <1>3. ASSUME NEW g \in N!Gens, N!GiveUp, N!WriterTakes(g) \/ N!WriterWrites(g) \/ N!ThreadFails(g) \/
     N!ChildAnswers(g) \/ N!ChildDies(g)
         PROVE  UNCHANGED <<canceled, made, pending>>
    BY <1>3, Zenon DEF N!WriterTakes, N!WriterWrites, N!ThreadFails, N!ChildAnswers, N!ChildDies,
       N!clientvars, N!latevars
  <1>4. ASSUME NEW t \in Threads, N!Refuse(t), N!GiveUp
         PROVE  CanceledOK'
    BY <1>4 DEF N!Refuse, N!Unsent, N!latevars, CanceledOK, Made, RequestTypes
  <1>5. ASSUME NEW t \in Threads, N!BeBusy(t), N!GiveUp
         PROVE  CanceledOK'
    BY <1>5 DEF N!BeBusy, N!Unsent, N!latevars, CanceledOK, Made, RequestTypes
  <1>6. ASSUME NEW t \in Threads, N!Enqueue(t), N!GiveUp
         PROVE  CanceledOK'
    BY <1>6 DEF N!Enqueue, N!latevars, CanceledOK, Made, RequestTypes
  <1>7. ASSUME NEW t \in Threads, N!TimeOut(t), N!GiveUp
         PROVE  CanceledOK'
    BY <1>7 DEF N!TimeOut, N!latevars, CanceledOK, Made
  <1>8. ASSUME NEW g \in N!Gens, N!GiveUp, N!ReadAnswer(g) \/ N!ReadFails(g) \/ N!WriterBreaks(g)
         PROVE  CanceledOK'
    BY <1>8 DEF N!ReadAnswer, N!ReadFails, N!WriterBreaks, N!FailGeneration, N!latevars, CanceledOK, Made
  <1>9. ASSUME NEW t \in Threads, N!Close(t), N!GiveUp
         PROVE  CanceledOK'
    BY <1>9 DEF N!Close, CanceledOK, KnownOK, Made
  <1>10. ASSUME NEW t \in Threads, N!Wake(t), N!GiveUp
         PROVE  CanceledOK'
    BY <1>10 DEF N!Wake, CanceledOK
  <1> QED
    BY <1>1, <1>2, <1>3, <1>4, <1>5, <1>6, <1>7, <1>8, <1>9, <1>10, Zenon DEF N!Next, N!Proceed, N!Threading,
       nvars

LEMMA OwedUntouched ==
  ASSUME N!UnlimitedWaitIsOwed, UNCHANGED <<pending, result, reader, writer, loss>>,
         ClientTypes, WaitOK, \A r \in N!Ids : Recalled(r) => Recalled(r)' \/ result'[r] # "none",
         \A u \in Threads : pc'[u] = "wait" => pc[u] = "wait" /\ id'[u] = id[u]
  PROVE  N!UnlimitedWaitIsOwed'
  <1>1. \A r \in N!Ids : Wanted(r) => Wanted(r)'
    BY Zenon DEF Wanted, Wakes
  <1> QED
    BY <1>1, OwedKept, Zenon

LEMMA OwedStays ==
  ASSUME ClientTypes, RequestTypes, ChildTypes, LockOK, OrderOK, FreshOK, WaitOK, KnownOK, LossOK,
     N!UnlimitedWaitIsOwed, [N!Next]_nvars
  PROVE  N!UnlimitedWaitIsOwed'
  <1>0. \A r \in N!Ids : Recalled(r) => Recalled(r)' \/ result'[r] # "none"
    BY RecalledStays
  <1>1. CASE UNCHANGED <<pc, id, pending, result, reader, writer, loss, canceled>>
    BY <1>1 DEF N!UnlimitedWaitIsOwed, ClientTypes, RequestTypes, ChildTypes
  <1>2. ASSUME NEW g \in N!Gens, N!GiveUp, N!ChildAnswers(g) \/ N!ChildDies(g)
         PROVE  UNCHANGED <<pc, id, pending, result, reader, writer, loss, canceled>>
    BY <1>2, Zenon DEF N!ChildAnswers, N!ChildDies, N!threadvars, N!clientvars, N!readvars, N!pipevars,
       N!childvars, N!latevars
  <1>3. ASSUME NEW t \in Threads, N!Call(t), N!GiveUp
         PROVE  N!UnlimitedWaitIsOwed'
    <2>1. UNCHANGED <<pending, result, reader, writer, loss>>
      BY <1>3, Zenon DEF N!Call, N!clientvars, N!pipevars, N!readvars
    <2>2. \A u \in Threads : pc'[u] = "wait" => pc[u] = "wait" /\ id'[u] = id[u]
      BY <1>3 DEF N!Call, N!Goto, ClientTypes
    <2> QED
      BY <1>0, <2>1, <2>2, OwedUntouched, Zenon
  <1>4. ASSUME NEW t \in Threads, N!Close(t), N!GiveUp
         PROVE  N!UnlimitedWaitIsOwed'
    <2>1. \A u \in Threads : pc'[u] = "wait" => pc[u] = "wait" /\ id'[u] = id[u]
      BY <1>4 DEF N!Close, N!Goto, ClientTypes
    <2> SUFFICES ASSUME NEW r \in N!Ids, Wanted(r), NEW u \in Threads, pc'[u] = "wait", id[u] = r
                 PROVE  Wanted(r)' \/ Recalled(r)'
      BY <1>0, <2>1, OwedKept, Zenon
    <2>2. pc'[t] = "wake" /\ canceled' = pending /\ UNCHANGED <<result, reader, writer, loss>>
      BY <1>4 DEF N!Close, N!Goto, N!pipevars, N!readvars, ClientTypes
    <2> QED
      BY <2>2, Zenon DEF Wanted, Wakes, Recalled
  <1>5. ASSUME NEW t \in Threads, N!EnsureClosed(t), N!GiveUp
         PROVE  N!UnlimitedWaitIsOwed'
    <2>1. UNCHANGED <<pending, result, reader, writer, loss>>
      BY <1>5, Zenon DEF N!EnsureClosed, N!clientvars, N!pipevars, N!readvars
    <2>2. \A u \in Threads : pc'[u] = "wait" => pc[u] = "wait" /\ id'[u] = id[u]
      BY <1>5 DEF N!EnsureClosed, N!Goto, ClientTypes
    <2> QED
      BY <1>0, <2>1, <2>2, OwedUntouched, Zenon
  <1>6. ASSUME NEW t \in Threads, N!EnsureReady(t), N!GiveUp
         PROVE  N!UnlimitedWaitIsOwed'
    <2>1. UNCHANGED <<pending, result, reader, writer, loss>>
      BY <1>6, Zenon DEF N!EnsureReady, N!clientvars, N!pipevars, N!readvars
    <2>2. \A u \in Threads : pc'[u] = "wait" => pc[u] = "wait" /\ id'[u] = id[u]
      BY <1>6 DEF N!EnsureReady, N!Goto, ClientTypes
    <2> QED
      BY <1>0, <2>1, <2>2, OwedUntouched, Zenon
  <1>7. ASSUME NEW t \in Threads, N!EnsureRestart(t), N!GiveUp
         PROVE  N!UnlimitedWaitIsOwed'
    <2>1. UNCHANGED <<pending, result, reader, writer, loss>>
      BY <1>7, Zenon DEF N!EnsureRestart, N!clientvars, N!pipevars, N!readvars
    <2>2. \A u \in Threads : pc'[u] = "wait" => pc[u] = "wait" /\ id'[u] = id[u]
      BY <1>7 DEF N!EnsureRestart, N!Goto, ClientTypes
    <2> QED
      BY <1>0, <2>1, <2>2, OwedUntouched, Zenon
  <1>8. ASSUME NEW t \in Threads, N!Start(t), N!GiveUp
         PROVE  N!UnlimitedWaitIsOwed'
    <2>1. \A u \in Threads : pc'[u] = "wait" => pc[u] = "wait" /\ id'[u] = id[u]
      BY <1>8 DEF N!Start, N!Goto, ClientTypes, N!threadvars
    <2> SUFFICES ASSUME NEW r \in N!Ids, Wanted(r), NEW u \in Threads, pc'[u] = "wait", id[u] = r
                 PROVE  Wanted(r)'
      BY <1>0, <2>1, OwedKept, Zenon
    <2>2. UNCHANGED <<pending, result, loss>>
      BY <1>8, Zenon DEF N!Start
    <2>3. \A h \in N!Gens : /\ reader[h] \in {"unregister", "fail"} => reader'[h] = reader[h]
                            /\ writer[h] \in {"unregister", "fail"} => writer'[h] = writer[h]
      BY <1>8, FreshStart DEF ChildTypes
    <2> QED
      BY <2>2, <2>3 DEF Wanted, Wakes
  <1>9. ASSUME NEW t \in Threads, N!StartFails(t), N!GiveUp
         PROVE  N!UnlimitedWaitIsOwed'
    <2>1. UNCHANGED <<pending, result, reader, writer, loss>>
      BY <1>9, Zenon DEF N!StartFails, N!clientvars, N!pipevars, N!readvars
    <2>2. \A u \in Threads : pc'[u] = "wait" => pc[u] = "wait" /\ id'[u] = id[u]
      BY <1>9 DEF N!StartFails, N!Goto, ClientTypes
    <2> QED
      BY <1>0, <2>1, <2>2, OwedUntouched, Zenon
  <1>10. ASSUME NEW t \in Threads, N!Refuse(t), N!GiveUp
         PROVE  N!UnlimitedWaitIsOwed'
    <2>1. UNCHANGED <<pending, result, reader, writer, loss>>
      BY <1>10, Zenon DEF N!Refuse, N!Unsent, N!clientvars, N!pipevars, N!readvars
    <2>2. \A u \in Threads : pc'[u] = "wait" => pc[u] = "wait" /\ id'[u] = id[u]
      BY <1>10 DEF N!Refuse, N!Unsent, N!Failed, N!Goto, ClientTypes
    <2> QED
      BY <1>0, <2>1, <2>2, OwedUntouched, Zenon
  <1>11. ASSUME NEW t \in Threads, N!BeBusy(t), N!GiveUp
         PROVE  N!UnlimitedWaitIsOwed'
    <2>1. UNCHANGED <<pending, result, reader, writer, loss>>
      BY <1>11, Zenon DEF N!BeBusy, N!Unsent, N!clientvars, N!pipevars, N!readvars
    <2>2. \A u \in Threads : pc'[u] = "wait" => pc[u] = "wait" /\ id'[u] = id[u]
      BY <1>11 DEF N!BeBusy, N!Unsent, N!Failed, N!Goto, ClientTypes
    <2> QED
      BY <1>0, <2>1, <2>2, OwedUntouched, Zenon
  <1>12. ASSUME NEW t \in Threads, N!Enqueue(t), N!GiveUp
         PROVE  N!UnlimitedWaitIsOwed'
    <2>1. pending' = pending \cup {Len(made) + 1} /\ UNCHANGED <<result, reader, writer, loss, canceled>>
      BY <1>12, Zenon DEF N!Enqueue, N!readvars, N!latevars
    <2>2. pc' = [pc EXCEPT ![t] = "wait"] /\ id' = [id EXCEPT ![t] = Len(made) + 1]
      BY <1>12, Zenon DEF N!Enqueue, N!Goto
    <2> SUFFICES ASSUME NEW u \in Threads, pc'[u] = "wait"
                 PROVE  \/ id'[u] \in pending' \/ result[id'[u]] # "none"
                        \/ id'[u] \in canceled /\ \E v \in Threads : pc'[v] = "wake"
                        \/ \E g \in N!Gens :
                             \/ reader[g] \in {"unregister", "fail"} /\ id'[u] \in loss["reader"][g]
                             \/ writer[g] \in {"unregister", "fail"} /\ id'[u] \in loss["writer"][g]
      BY <2>1, Zenon DEF N!UnlimitedWaitIsOwed
    <2>3. CASE u = t
      BY <2>1, <2>2, <2>3 DEF ClientTypes
    <2>4. CASE u # t
      <3>1. pc[u] = "wait" /\ id'[u] = id[u]
        BY <2>2, <2>4 DEF ClientTypes
      <3>2. id[u] \in pending => id'[u] \in pending'
        BY <2>1, <3>1
      <3>3. \A v \in Threads : pc[v] = "wake" => pc'[v] = "wake"
        BY <1>12, <2>2 DEF N!Enqueue, ClientTypes
      <3> QED
        BY <3>1, <3>2, <3>3, Zenon DEF N!UnlimitedWaitIsOwed
    <2> QED
      BY <2>3, <2>4
  <1>13. ASSUME NEW t \in Threads, N!Done(t), N!GiveUp
         PROVE  N!UnlimitedWaitIsOwed'
    <2>1. \A u \in Threads : pc'[u] = "wait" => pc[u] = "wait" /\ id'[u] = id[u] /\ u # t
      BY <1>13 DEF N!Done, N!Failed, N!Goto, ClientTypes, N!threadvars
    <2> SUFFICES ASSUME NEW r \in N!Ids, Wanted(r), NEW u \in Threads, pc'[u] = "wait", id[u] = r
                 PROVE  Wanted(r)'
      BY <1>0, <2>1, OwedKept, Zenon
    <2>2. r # id[t]
      BY <1>13, <2>1, WaitedFor DEF N!Done
    <2>3. result' = [result EXCEPT ![id[t]] = "none"] /\ UNCHANGED <<pending, reader, writer, loss>>
      BY <1>13, Zenon DEF N!Done, N!clientvars, N!pipevars, N!readvars
    <2> QED
      BY <2>2, <2>3 DEF Wanted, Wakes, RequestTypes
  <1>14. ASSUME NEW t \in Threads, N!TimeOut(t), N!GiveUp
         PROVE  N!UnlimitedWaitIsOwed'
    <2>1. \A u \in Threads : pc'[u] = "wait" => pc[u] = "wait" /\ id'[u] = id[u] /\ u # t
      BY <1>14 DEF N!TimeOut, N!Goto, ClientTypes, N!threadvars
    <2> SUFFICES ASSUME NEW r \in N!Ids, Wanted(r), NEW u \in Threads, pc'[u] = "wait", id[u] = r
                 PROVE  Wanted(r)'
      BY <1>0, <2>1, OwedKept, Zenon
    <2>2. r # id[t]
      BY <1>14, <2>1, WaitedFor DEF N!TimeOut
    <2>3. pending' = pending \ {id[t]} /\ UNCHANGED <<result, reader, writer, loss>>
      BY <1>14, Zenon DEF N!TimeOut, N!clientvars, N!pipevars, N!readvars
    <2> QED
      BY <2>2, <2>3 DEF Wanted, Wakes, RequestTypes
  <1>15. ASSUME NEW t \in Threads, N!SendCancel(t), N!GiveUp
         PROVE  N!UnlimitedWaitIsOwed'
    <2>1. UNCHANGED <<pending, result, reader, writer, loss>>
      BY <1>15, Zenon DEF N!SendCancel, N!clientvars, N!pipevars, N!readvars
    <2>2. \A u \in Threads : pc'[u] = "wait" => pc[u] = "wait" /\ id'[u] = id[u]
      BY <1>15 DEF N!SendCancel, N!Failed, N!Goto, ClientTypes
    <2> QED
      BY <1>0, <2>1, <2>2, OwedUntouched, Zenon
  <1>16. ASSUME NEW t \in Threads, N!Register(t), N!GiveUp
         PROVE  N!UnlimitedWaitIsOwed'
    <2>1. \A u \in Threads : pc'[u] = "wait" => pc[u] = "wait" /\ id'[u] = id[u]
      BY <1>16 DEF N!Register, N!Goto, ClientTypes, N!threadvars
    <2> SUFFICES ASSUME NEW r \in N!Ids, Wanted(r), NEW u \in Threads, pc'[u] = "wait", id[u] = r
                 PROVE  Wanted(r)'
      BY <1>0, <2>1, OwedKept, Zenon
    <2>2. UNCHANGED <<pending, result, loss, reader, writer>>
      BY <1>16, Zenon DEF N!Register, N!clientvars, N!pipevars, N!readvars
    <2> QED
      BY <2>2 DEF Wanted, Wakes
  <1>17. ASSUME NEW t \in Threads, N!Publish(t), N!GiveUp
         PROVE  N!UnlimitedWaitIsOwed'
    <2>1. UNCHANGED <<pending, result, reader, writer, loss>>
      BY <1>17, Zenon DEF N!Publish, N!clientvars, N!pipevars, N!readvars
    <2>2. \A u \in Threads : pc'[u] = "wait" => pc[u] = "wait" /\ id'[u] = id[u]
      BY <1>17 DEF N!Publish, N!Goto, ClientTypes
    <2> QED
      BY <1>0, <2>1, <2>2, OwedUntouched, Zenon
  <1>18. ASSUME NEW t \in Threads, N!PublishGone(t), N!GiveUp
         PROVE  N!UnlimitedWaitIsOwed'
    <2>1. UNCHANGED <<pending, result, reader, writer, loss>>
      BY <1>18, Zenon DEF N!PublishGone, N!clientvars, N!pipevars, N!readvars
    <2>2. \A u \in Threads : pc'[u] = "wait" => pc[u] = "wait" /\ id'[u] = id[u]
      BY <1>18 DEF N!PublishGone, N!Goto, ClientTypes
    <2> QED
      BY <1>0, <2>1, <2>2, OwedUntouched, Zenon
  <1>19. ASSUME NEW t \in Threads, N!StopProcess(t), N!GiveUp
         PROVE  N!UnlimitedWaitIsOwed'
    <2>1. UNCHANGED <<pending, result, reader, writer, loss>>
      BY <1>19, Zenon DEF N!StopProcess, N!clientvars, N!pipevars, N!readvars
    <2>2. \A u \in Threads : pc'[u] = "wait" => pc[u] = "wait" /\ id'[u] = id[u]
      BY <1>19 DEF N!StopProcess, N!Goto, ClientTypes
    <2> QED
      BY <1>0, <2>1, <2>2, OwedUntouched, Zenon
  <1>20. ASSUME NEW t \in Threads, N!Reap(t), N!GiveUp
         PROVE  N!UnlimitedWaitIsOwed'
    <2>1. UNCHANGED <<pending, result, reader, writer, loss>>
      BY <1>20, Zenon DEF N!Reap, N!clientvars, N!pipevars, N!readvars
    <2>2. \A u \in Threads : pc'[u] = "wait" => pc[u] = "wait" /\ id'[u] = id[u]
      BY <1>20 DEF N!Reap, N!Goto, ClientTypes
    <2> QED
      BY <1>0, <2>1, <2>2, OwedUntouched, Zenon
  <1>21. ASSUME NEW t \in Threads, N!Forget(t), N!GiveUp
         PROVE  N!UnlimitedWaitIsOwed'
    <2>1. UNCHANGED <<pending, result, reader, writer, loss>>
      BY <1>21, Zenon DEF N!Forget, N!clientvars, N!pipevars, N!readvars
    <2>2. \A u \in Threads : pc'[u] = "wait" => pc[u] = "wait" /\ id'[u] = id[u]
      BY <1>21 DEF N!Forget, N!Goto, ClientTypes
    <2> QED
      BY <1>0, <2>1, <2>2, OwedUntouched, Zenon
  <1>22. ASSUME NEW t \in Threads, N!Closed(t), N!GiveUp
         PROVE  N!UnlimitedWaitIsOwed'
    <2>1. UNCHANGED <<pending, result, reader, writer, loss>>
      BY <1>22, Zenon DEF N!Closed, N!clientvars, N!pipevars, N!readvars
    <2>2. \A u \in Threads : pc'[u] = "wait" => pc[u] = "wait" /\ id'[u] = id[u]
      BY <1>22 DEF N!Closed, N!Goto, ClientTypes
    <2> QED
      BY <1>0, <2>1, <2>2, OwedUntouched, Zenon
  <1>23. ASSUME NEW g \in N!Gens, N!ReadAnswer(g), N!GiveUp
         PROVE  N!UnlimitedWaitIsOwed'
    <2>1. \A u \in Threads : pc'[u] = "wait" => pc[u] = "wait" /\ id'[u] = id[u]
      BY <1>23 DEF N!ReadAnswer, ClientTypes, N!threadvars
    <2> SUFFICES ASSUME NEW r \in N!Ids, Wanted(r), NEW u \in Threads, pc'[u] = "wait", id[u] = r
                 PROVE  Wanted(r)'
      BY <1>0, <2>1, OwedKept, Zenon
    <2>2. PICK a \in outbox[g] : /\ pending' = pending \ {a}
                                /\ result' = IF a \in pending THEN [result EXCEPT ![a] = "answer"] ELSE result
      BY <1>23, Zenon DEF N!ReadAnswer
    <2>3. UNCHANGED <<loss, reader, writer>>
      BY <1>23, Zenon DEF N!ReadAnswer, N!readvars
    <2> QED
      BY <2>2, <2>3 DEF Wanted, Wakes, RequestTypes
  <1>24. ASSUME NEW g \in N!Gens, N!ReadFails(g), N!GiveUp
         PROVE  N!UnlimitedWaitIsOwed'
    BY <1>24, PipeAssumed DEF N!ReadFails, N!FailGeneration, N!Exited, N!UnlimitedWaitIsOwed, ClientTypes,
       RequestTypes, ChildTypes, N!threadvars, N!clientvars, N!readvars, N!pipevars, N!childvars, N!latevars
  <1>25. ASSUME NEW g \in N!Gens, N!WriterTakes(g), N!GiveUp
         PROVE  N!UnlimitedWaitIsOwed'
    <2>1. \A u \in Threads : pc'[u] = "wait" => pc[u] = "wait" /\ id'[u] = id[u]
      BY <1>25 DEF N!WriterTakes, N!Taken, ClientTypes, N!threadvars
    <2> SUFFICES ASSUME NEW r \in N!Ids, Wanted(r), NEW u \in Threads, pc'[u] = "wait", id[u] = r
                 PROVE  Wanted(r)'
      BY <1>0, <2>1, OwedKept, Zenon
    <2>2. UNCHANGED <<pending, result, loss, reader>>
      BY <1>25, Zenon DEF N!WriterTakes, N!clientvars, N!readvars
    <2>3. \A h \in N!Gens : writer[h] \in {"unregister", "fail"} => writer'[h] = writer[h]
      BY <1>25 DEF N!WriterTakes, ChildTypes
    <2> QED
      BY <2>2, <2>3 DEF Wanted, Wakes
  <1>26. ASSUME NEW g \in N!Gens, N!WriterWrites(g), N!GiveUp
         PROVE  N!UnlimitedWaitIsOwed'
    BY <1>26, PipeAssumed DEF N!WriterWrites, N!UnlimitedWaitIsOwed, ClientTypes, RequestTypes, ChildTypes,
       N!threadvars, N!clientvars, N!readvars, N!pipevars, N!childvars, N!latevars
  <1>27. ASSUME NEW g \in N!Gens, N!WriterBreaks(g), N!GiveUp
         PROVE  N!UnlimitedWaitIsOwed'
    <2>1. \A u \in Threads : pc'[u] = "wait" => pc[u] = "wait" /\ id'[u] = id[u]
      BY <1>27 DEF N!WriterBreaks, N!FailGeneration, N!Exited, ClientTypes, N!threadvars
    <2> SUFFICES ASSUME NEW r \in N!Ids, Wanted(r), NEW u \in Threads, pc'[u] = "wait", id[u] = r
                 PROVE  Wanted(r)'
      BY <1>0, <2>1, OwedKept, Zenon
    <2>2. UNCHANGED <<result, reader>> /\ loss' = [loss EXCEPT !["writer"][g] = pending]
      BY <1>27, Zenon DEF N!WriterBreaks, N!FailGeneration
    <2>3. writer[g] = "write" /\ writer'[g] \in {"unregister", "fail"}
      BY <1>27 DEF N!WriterBreaks, N!FailGeneration, ChildTypes
    <2>4. \A h \in N!Gens \ {g} : writer'[h] = writer[h]
      BY <1>27 DEF N!WriterBreaks, N!FailGeneration, ChildTypes
    <2>5. loss'["writer"][g] = pending /\ \A h \in N!Gens : loss'["reader"][h] = loss["reader"][h]
          /\ (h # g => loss'["writer"][h] = loss["writer"][h])
      BY <2>2 DEF RequestTypes
    <2>6. CASE r \in pending
      BY <2>3, <2>5, <2>6, Zenon DEF Wanted, Wakes
    <2>7. CASE result[r] # "none"
      BY <2>2, <2>7, Zenon DEF Wanted
    <2>8. ASSUME NEW h \in N!Gens, reader[h] \in {"unregister", "fail"}, r \in loss["reader"][h]
          PROVE  Wanted(r)'
      BY <2>2, <2>5, <2>8, Zenon DEF Wanted, Wakes
    <2>9. ASSUME NEW h \in N!Gens, writer[h] \in {"unregister", "fail"}, r \in loss["writer"][h]
          PROVE  Wanted(r)'
      <3>1. h # g
        BY <2>3, <2>9
      <3>2. writer'[h] = writer[h] /\ loss'["writer"][h] = loss["writer"][h]
        BY <2>4, <2>5, <3>1
      <3>3. writer'[h] \in {"unregister", "fail"} /\ r \in loss'["writer"][h]
        BY <2>9, <3>2
      <3> QED
        BY <3>3, Zenon DEF Wanted, Wakes
    <2> QED
      BY <2>6, <2>7, <2>8, <2>9, Zenon DEF Wanted, Wakes
  <1>28. ASSUME NEW g \in N!Gens, N!ThreadFails(g), N!GiveUp
         PROVE  N!UnlimitedWaitIsOwed'
    <2>1. \A u \in Threads : pc'[u] = "wait" => pc[u] = "wait" /\ id'[u] = id[u]
      BY <1>28 DEF N!ThreadFails, N!Unregister, N!WakeFailed, N!Sentinel, ClientTypes, N!threadvars
    <2> SUFFICES ASSUME NEW r \in N!Ids, Wanted(r), NEW u \in Threads, pc'[u] = "wait", id[u] = r
                 PROVE  Wanted(r)'
      BY <1>0, <2>1, OwedKept, Zenon
    <2>2. pending' = pending
      BY <1>28, Zenon DEF N!ThreadFails
    <2>3. result[r] # "none" => result'[r] # "none"
      BY <1>28 DEF N!ThreadFails, N!Unregister, N!WakeFailed
    <2>4. ASSUME NEW h \in N!Gens, reader[h] \in {"unregister", "fail"}, r \in loss["reader"][h]
          PROVE  Wanted(r)'
      <3>1. \/ r \in loss'["reader"][h] /\ reader'[h] \in {"unregister", "fail"}
            \/ result'[r] # "none"
        BY <1>28, <2>4 DEF N!ThreadFails, N!Unregister, N!WakeFailed, RequestTypes, ChildTypes
      <3> QED
        BY <3>1, Zenon DEF Wanted, Wakes
    <2>5. ASSUME NEW h \in N!Gens, writer[h] \in {"unregister", "fail"}, r \in loss["writer"][h]
          PROVE  Wanted(r)'
      <3>1. \/ r \in loss'["writer"][h] /\ writer'[h] \in {"unregister", "fail"}
            \/ result'[r] # "none"
        BY <1>28, <2>5 DEF N!ThreadFails, N!Unregister, N!WakeFailed, RequestTypes, ChildTypes
      <3> QED
        BY <3>1, Zenon DEF Wanted, Wakes
    <2> QED
      BY <2>2, <2>3, <2>4, <2>5, Zenon DEF Wanted, Wakes
  <1>30. ASSUME NEW t \in Threads, N!Withdraw(t), N!GiveUp
         PROVE  N!UnlimitedWaitIsOwed'
    <2>1. UNCHANGED <<pending, result, reader, writer, loss>>
      BY <1>30, Zenon DEF N!Withdraw, N!clientvars, N!pipevars, N!readvars
    <2>2. \A u \in Threads : pc'[u] = "wait" => pc[u] = "wait" /\ id'[u] = id[u]
      BY <1>30 DEF N!Withdraw, N!Goto, ClientTypes
    <2> QED
      BY <1>0, <2>1, <2>2, OwedUntouched, Zenon
  <1>31. ASSUME NEW t \in Threads, N!Unlist(t), N!GiveUp
         PROVE  N!UnlimitedWaitIsOwed'
    <2>1. UNCHANGED <<pending, result, reader, writer, loss>>
      BY <1>31, Zenon DEF N!Unlist, N!clientvars, N!pipevars, N!readvars
    <2>2. \A u \in Threads : pc'[u] = "wait" => pc[u] = "wait" /\ id'[u] = id[u]
      BY <1>31 DEF N!Unlist, N!Goto, ClientTypes
    <2> QED
      BY <1>0, <2>1, <2>2, OwedUntouched, Zenon
  <1>32. ASSUME NEW t \in Threads, N!Wake(t), N!GiveUp
         PROVE  N!UnlimitedWaitIsOwed'
    <2>1. \A u \in Threads : pc'[u] = "wait" => pc[u] = "wait" /\ id'[u] = id[u]
      BY <1>32 DEF N!Wake, N!Goto, ClientTypes
    <2> SUFFICES ASSUME NEW r \in N!Ids, Wanted(r), NEW u \in Threads, pc'[u] = "wait", id[u] = r
                 PROVE  Wanted(r)'
      BY <1>0, <2>1, OwedKept, Zenon
    <2>2. UNCHANGED <<pending, reader, writer, loss>> /\ (result[r] # "none" => result'[r] # "none")
      BY <1>32 DEF N!Wake, N!pipevars, N!readvars
    <2> QED
      BY <2>2, Zenon DEF Wanted, Wakes
  <1> QED
    BY <1>1, <1>2, <1>3, <1>4, <1>5, <1>6, <1>7, <1>8, <1>9, <1>10, <1>11, <1>12, <1>13, <1>14, <1>15, <1>16,
       <1>17, <1>18, <1>19, <1>20, <1>21, <1>22, <1>23, <1>24, <1>25, <1>26, <1>27, <1>28, <1>30, <1>31, <1>32, Zenon DEF N!Next,
       N!Proceed, N!Threading, nvars

LEMMA EntryStays ==
  ASSUME ClientTypes, ChildTypes, LockOK, OrderOK, FreshOK, N!EntryAccounted, [N!Next]_nvars
  PROVE  N!EntryAccounted'
  <1>1. CASE UNCHANGED <<disk, entry, current, pc, reader, writer, dropped, strayed>>
    BY <1>1 DEF N!EntryAccounted, ClientTypes, ChildTypes
  <1>2. ASSUME NEW g \in N!Gens, N!GiveUp, N!ReadAnswer(g) \/ N!ChildAnswers(g) \/ N!ChildDies(g)
         PROVE  UNCHANGED <<disk, entry, current, pc, reader, writer, dropped, strayed>>
    BY <1>2, Zenon DEF N!ReadAnswer, N!ChildAnswers, N!ChildDies, N!threadvars, N!clientvars, N!readvars,
       N!pipevars, N!childvars, N!latevars
  <1>3. ASSUME NEW t \in Threads, N!Call(t), N!GiveUp
         PROVE  N!EntryAccounted'
    BY <1>3, PipeAssumed DEF N!Call, N!Goto, N!EntryAccounted, ClientTypes, ChildTypes, N!threadvars,
       N!clientvars, N!readvars, N!pipevars, N!childvars, N!latevars
  <1>4. ASSUME NEW t \in Threads, N!Close(t), N!GiveUp
         PROVE  N!EntryAccounted'
    BY <1>4, PipeAssumed DEF N!Close, N!Goto, N!Running, N!Exited, N!EntryAccounted, ClientTypes,
       ChildTypes, N!threadvars, N!clientvars, N!readvars, N!pipevars, N!childvars, N!latevars
  <1>5. ASSUME NEW t \in Threads, N!EnsureClosed(t), N!GiveUp
         PROVE  N!EntryAccounted'
    BY <1>5, PipeAssumed DEF N!EnsureClosed, N!Goto, N!EntryAccounted, ClientTypes, ChildTypes, N!threadvars,
       N!clientvars, N!readvars, N!pipevars, N!childvars, N!latevars
  <1>6. ASSUME NEW t \in Threads, N!EnsureReady(t), N!GiveUp
         PROVE  N!EntryAccounted'
    BY <1>6, PipeAssumed DEF N!EnsureReady, N!Goto, N!Running, N!Exited, N!EntryAccounted, ClientTypes,
       ChildTypes, N!threadvars, N!clientvars, N!readvars, N!pipevars, N!childvars, N!latevars
  <1>7. ASSUME NEW t \in Threads, N!EnsureRestart(t), N!GiveUp
         PROVE  N!EntryAccounted'
    BY <1>7, PipeAssumed DEF N!EnsureRestart, N!Goto, N!EntryAccounted, ClientTypes, ChildTypes, N!threadvars,
       N!clientvars, N!readvars, N!pipevars, N!childvars, N!latevars
  <1>8. ASSUME NEW t \in Threads, N!Start(t), N!GiveUp
         PROVE  N!EntryAccounted'
    <2>1. \A h \in disk \ strayed : "unregister" \in {reader[h], writer[h]}
      <3>1. current = 0 /\ entry = 0
        BY <1>8, FreshStart DEF ClientTypes
      <3>2. \A u \in Threads : pc[u] \notin {"unregister", "publish", "gone"}
        BY <1>8 DEF N!Start, LockOK, WithChild, Childless
      <3>3. \A h \in disk : h # 0
        BY Ranges DEF ChildTypes
      <3> QED
        BY <3>1, <3>2, <3>3, Zenon DEF N!EntryAccounted
    <2>2. \A h \in disk \ strayed : "unregister" \in {reader'[h], writer'[h]}
      BY <1>8, <2>1, FreshStart DEF ChildTypes
    <2>3. UNCHANGED <<disk, strayed>>
      BY <1>8, Zenon DEF N!Start, N!latevars
    <2> QED
      BY <2>2, <2>3, Zenon DEF N!EntryAccounted
  <1>9. ASSUME NEW t \in Threads, N!StartFails(t), N!GiveUp
         PROVE  N!EntryAccounted'
    BY <1>9, PipeAssumed DEF N!StartFails, N!Goto, N!EntryAccounted, ClientTypes, ChildTypes, N!threadvars,
       N!clientvars, N!readvars, N!pipevars, N!childvars, N!latevars
  <1>10. ASSUME NEW t \in Threads, N!Refuse(t), N!GiveUp
         PROVE  N!EntryAccounted'
    BY <1>10, PipeAssumed DEF N!Refuse, N!Unsent, N!Failed, N!Goto, N!EntryAccounted, ClientTypes, ChildTypes,
       N!threadvars, N!clientvars, N!readvars, N!pipevars, N!childvars, N!latevars
  <1>11. ASSUME NEW t \in Threads, N!BeBusy(t), N!GiveUp
         PROVE  N!EntryAccounted'
    BY <1>11, PipeAssumed DEF N!BeBusy, N!Unsent, N!Failed, N!Goto, N!EntryAccounted, ClientTypes, ChildTypes,
       N!threadvars, N!clientvars, N!readvars, N!pipevars, N!childvars, N!latevars
  <1>12. ASSUME NEW t \in Threads, N!Enqueue(t), N!GiveUp
         PROVE  N!EntryAccounted'
    BY <1>12, PipeAssumed DEF N!Enqueue, N!Goto, N!EntryAccounted, ClientTypes, ChildTypes, N!threadvars,
       N!clientvars, N!readvars, N!pipevars, N!childvars, N!latevars
  <1>13. ASSUME NEW t \in Threads, N!Done(t), N!GiveUp
         PROVE  N!EntryAccounted'
    BY <1>13, PipeAssumed DEF N!Done, N!Failed, N!Goto, N!EntryAccounted, ClientTypes, ChildTypes, N!threadvars,
       N!clientvars, N!readvars, N!pipevars, N!childvars, N!latevars
  <1>14. ASSUME NEW t \in Threads, N!TimeOut(t), N!GiveUp
         PROVE  N!EntryAccounted'
    BY <1>14, PipeAssumed DEF N!TimeOut, N!Goto, N!EntryAccounted, ClientTypes, ChildTypes, N!threadvars,
       N!clientvars, N!readvars, N!pipevars, N!childvars, N!latevars
  <1>15. ASSUME NEW t \in Threads, N!SendCancel(t), N!GiveUp
         PROVE  N!EntryAccounted'
    BY <1>15, PipeAssumed DEF N!SendCancel, N!Failed, N!Goto, N!CancelFrame, N!EntryAccounted, ClientTypes,
       ChildTypes, N!threadvars, N!clientvars, N!readvars, N!pipevars, N!childvars, N!latevars
  <1>16. ASSUME NEW t \in Threads, N!Register(t), N!GiveUp
         PROVE  N!EntryAccounted'
    <2>1. UNCHANGED <<entry, current, reader, writer, dropped>>
      BY <1>16, Zenon DEF N!Register, N!clientvars, N!pipevars, N!readvars
    <2>2. \A u \in Threads : pc[u] \in {"publish", "gone", "unregister"} => pc'[u] = pc[u]
      BY <1>16 DEF N!Register, N!Goto, ClientTypes
    <2>3. \A h \in disk' \ strayed' : h \in disk \ strayed \/ (h = current /\ pc'[t] = "publish")
      BY <1>16 DEF N!Register, N!Goto, ClientTypes
    <2> QED
      BY <2>1, <2>2, <2>3, Zenon DEF N!EntryAccounted
  <1>17. ASSUME NEW t \in Threads, N!Publish(t), N!GiveUp
         PROVE  N!EntryAccounted'
    <2>1. entry' = current /\ UNCHANGED <<disk, strayed, current, reader, writer>>
      BY <1>17, Zenon DEF N!Publish, N!pipevars, N!readvars, N!latevars
    <2>2. entry \in {0, current} /\ \A h \in disk : h # 0
      BY Ranges DEF ClientTypes, ChildTypes
    <2>3. \A u \in Threads : pc[u] # "unregister"
      BY <1>17 DEF N!Publish, LockOK, WithChild, Childless
    <2>4. \A h \in disk \ strayed : h = current \/ "unregister" \in {reader[h], writer[h]}
      BY <2>2, <2>3 DEF N!EntryAccounted
    <2> QED
      BY <2>1, <2>4, Zenon DEF N!EntryAccounted
  <1>18. ASSUME NEW t \in Threads, N!PublishGone(t), N!GiveUp
         PROVE  N!EntryAccounted'
    BY <1>18, PipeAssumed DEF N!PublishGone, N!Goto, N!EntryAccounted, ClientTypes, ChildTypes, N!threadvars,
       N!clientvars, N!readvars, N!pipevars, N!childvars, N!latevars
  <1>19. ASSUME NEW t \in Threads, N!StopProcess(t), N!GiveUp
         PROVE  N!EntryAccounted'
    BY <1>19, PipeAssumed DEF N!StopProcess, N!Goto, N!Sentinel, N!EntryAccounted, ClientTypes, ChildTypes,
       N!threadvars, N!clientvars, N!readvars, N!pipevars, N!childvars, N!latevars
  <1>20. ASSUME NEW t \in Threads, N!Reap(t), N!GiveUp
         PROVE  N!EntryAccounted'
    BY <1>20, PipeAssumed DEF N!Reap, N!Goto, N!EntryAccounted, ClientTypes, ChildTypes, N!threadvars,
       N!clientvars, N!readvars, N!pipevars, N!childvars, N!latevars
  <1>21. ASSUME NEW t \in Threads, N!Forget(t), N!GiveUp
         PROVE  N!EntryAccounted'
    <2>1. dropped' = entry /\ UNCHANGED <<disk, strayed, reader, writer>>
      BY <1>21, Zenon DEF N!Forget, N!readvars
    <2>2. pc'[t] = "unregister"
      BY <1>21 DEF N!Forget, N!Goto, ClientTypes
    <2>3. \A u \in Threads : pc[u] \notin {"publish", "gone", "unregister"}
      BY <1>21 DEF N!Forget, LockOK, WithChild, Childless
    <2>4. \A h \in disk \ strayed : h = entry \/ "unregister" \in {reader[h], writer[h]}
      BY <2>3, Zenon DEF N!EntryAccounted
    <2> QED
      BY <2>1, <2>2, <2>4, Zenon DEF N!EntryAccounted
  <1>22. ASSUME NEW t \in Threads, N!Closed(t), N!GiveUp
         PROVE  N!EntryAccounted'
    BY <1>22, PipeAssumed DEF N!Closed, N!Goto, N!EntryAccounted, ClientTypes, ChildTypes, N!threadvars,
       N!clientvars, N!readvars, N!pipevars, N!childvars, N!latevars
  <1>23. ASSUME NEW g \in N!Gens, N!ReadFails(g), N!GiveUp
         PROVE  N!EntryAccounted'
    BY <1>23, PipeAssumed DEF N!ReadFails, N!FailGeneration, N!Exited, N!EntryAccounted, ClientTypes,
       ChildTypes, N!threadvars, N!clientvars, N!readvars, N!pipevars, N!childvars, N!latevars
  <1>24. ASSUME NEW g \in N!Gens, N!WriterTakes(g), N!GiveUp
         PROVE  N!EntryAccounted'
    BY <1>24, PipeAssumed DEF N!WriterTakes, N!Taken, N!EntryAccounted, ClientTypes, ChildTypes, N!threadvars,
       N!clientvars, N!readvars, N!pipevars, N!childvars, N!latevars
  <1>25. ASSUME NEW g \in N!Gens, N!WriterWrites(g), N!GiveUp
         PROVE  N!EntryAccounted'
    BY <1>25, PipeAssumed DEF N!WriterWrites, N!EntryAccounted, ClientTypes, ChildTypes, N!threadvars,
       N!clientvars, N!readvars, N!pipevars, N!childvars, N!latevars
  <1>26. ASSUME NEW g \in N!Gens, N!WriterBreaks(g), N!GiveUp
         PROVE  N!EntryAccounted'
    BY <1>26, PipeAssumed DEF N!WriterBreaks, N!FailGeneration, N!Exited, N!EntryAccounted, ClientTypes,
       ChildTypes, N!threadvars, N!clientvars, N!readvars, N!pipevars, N!childvars, N!latevars
  <1>27. ASSUME NEW g \in N!Gens, N!ThreadFails(g), N!GiveUp
         PROVE  N!EntryAccounted'
    BY <1>27, PipeAssumed DEF N!ThreadFails, N!Unregister, N!WakeFailed, N!Sentinel, N!EntryAccounted,
       ClientTypes, ChildTypes, N!threadvars, N!clientvars, N!readvars, N!pipevars, N!childvars, N!latevars
  <1>30. ASSUME NEW t \in Threads, N!Withdraw(t), N!GiveUp
         PROVE  N!EntryAccounted'
    BY <1>30, PipeAssumed DEF N!Withdraw, N!Goto, N!EntryAccounted, ClientTypes, ChildTypes, N!threadvars,
       N!clientvars, N!readvars, N!pipevars, N!childvars, N!latevars
  <1>31. ASSUME NEW t \in Threads, N!Unlist(t), N!GiveUp
         PROVE  N!EntryAccounted'
    <2>1. disk' = disk \ {dropped} /\ UNCHANGED <<strayed, entry, current, reader, writer>>
      BY <1>31, Zenon DEF N!Unlist, N!clientvars, N!pipevars, N!readvars
    <2>2. \A u \in Threads : pc[u] \in {"publish", "gone"} => pc'[u] = pc[u]
      BY <1>31 DEF N!Unlist, N!Goto, ClientTypes
    <2>3. \A h \in disk \ strayed : h # dropped =>
             h = entry \/ (h = current /\ \E u \in Threads : pc[u] \in {"publish", "gone"})
             \/ "unregister" \in {reader[h], writer[h]}
      BY Zenon DEF N!EntryAccounted
    <2> QED
      BY <2>1, <2>2, <2>3 DEF N!EntryAccounted
  <1>32. ASSUME NEW t \in Threads, N!Wake(t), N!GiveUp
         PROVE  N!EntryAccounted'
    BY <1>32, PipeAssumed DEF N!Wake, N!Goto, N!Running, N!Exited, N!EntryAccounted, ClientTypes,
       ChildTypes, N!threadvars, N!clientvars, N!readvars, N!pipevars, N!childvars, N!latevars
  <1> QED
    BY <1>1, <1>2, <1>3, <1>4, <1>5, <1>6, <1>7, <1>8, <1>9, <1>10, <1>11, <1>12, <1>13, <1>14, <1>15, <1>16,
       <1>17, <1>18, <1>19, <1>20, <1>21, <1>22, <1>23, <1>24, <1>25, <1>26, <1>27, <1>30, <1>31, <1>32, Zenon DEF N!Next, N!Proceed,
       N!Threading, nvars

LEMMA QueueStays ==
  ASSUME ClientTypes, RequestTypes, QueueTypes, ChildTypes, RoomOK, WaitOK, QueueOK, PipeOK, [N!Next]_nvars
  PROVE  QueueOK'
  <1>1. CASE UNCHANGED <<queue, hand, inbox, made>>
    BY <1>1 DEF QueueOK, Made
  <1>2. ASSUME NEW t \in Threads, N!GiveUp, N!Call(t) \/ N!Wake(t) \/ N!Unlist(t) \/ N!Withdraw(t) \/ N!Close(t) \/ N!EnsureClosed(t) \/ N!EnsureReady(t) \/
     N!EnsureRestart(t) \/ N!Start(t) \/ N!StartFails(t) \/ N!Done(t) \/ N!TimeOut(t) \/ N!Register(t) \/
     N!Publish(t) \/ N!PublishGone(t) \/ N!Reap(t) \/ N!Closed(t)
         PROVE  UNCHANGED <<queue, hand, inbox, made>>
    BY <1>2, Zenon DEF N!Call, N!Wake, N!Unlist, N!Withdraw, N!Goto, N!Close, N!Running, N!Exited, N!EnsureClosed,
       N!EnsureReady, N!EnsureRestart, N!Start, N!StartFails, N!Done, N!Failed, N!TimeOut, N!Register,
       N!Publish, N!PublishGone, N!Reap, N!Closed, N!threadvars, N!clientvars, N!readvars, N!pipevars,
       N!childvars
  <1>3. ASSUME NEW g \in N!Gens, N!GiveUp, N!ReadAnswer(g) \/ N!ReadFails(g) \/ N!ChildAnswers(g) \/
     N!ChildDies(g)
         PROVE  UNCHANGED <<queue, hand, inbox, made>>
    BY <1>3, Zenon DEF N!ReadAnswer, N!ReadFails, N!FailGeneration, N!Exited, N!ChildAnswers, N!ChildDies,
       N!threadvars, N!clientvars, N!readvars, N!pipevars, N!childvars
  <1>4. ASSUME NEW t \in Threads, N!Refuse(t), N!GiveUp
         PROVE  QueueOK'
    <2>1. \A h \in N!Gens : queue'[h] = queue[h]
      BY <1>4, Zenon DEF N!Refuse, N!Unsent, N!pipevars
    <2>2. \A r \in Made : r \in Made' /\ made'[r] = made[r]
      BY <1>4 DEF N!Refuse, N!Unsent, RequestTypes, ClientTypes, Made
    <2>3. \A h \in N!Gens : hand'[h] \in {hand[h], 0}
      BY <1>4 DEF N!Refuse, N!Unsent, QueueTypes, N!pipevars, N!NoFrame
    <2>5. \A h \in N!Gens : \A r \in inbox'[h] : r \in inbox[h] \/ r = hand[h]
      BY <1>4 DEF N!Refuse, N!Unsent, ChildTypes, N!childvars
    <2>4. 0 \in Nat /\ 0 \notin N!Ids
      BY Ranges
    <2> QED
      BY <2>1, <2>2, <2>3, <2>4, <2>5, QueueKept, Zenon
  <1>5. ASSUME NEW t \in Threads, N!BeBusy(t), N!GiveUp
         PROVE  QueueOK'
    <2>1. \A h \in N!Gens : queue'[h] = queue[h]
      BY <1>5, Zenon DEF N!BeBusy, N!Unsent, N!pipevars
    <2>2. \A r \in Made : r \in Made' /\ made'[r] = made[r]
      BY <1>5 DEF N!BeBusy, N!Unsent, RequestTypes, ClientTypes, Made
    <2>3. \A h \in N!Gens : hand'[h] \in {hand[h], 0}
      BY <1>5 DEF N!BeBusy, N!Unsent, QueueTypes, N!pipevars, N!NoFrame
    <2>5. \A h \in N!Gens : \A r \in inbox'[h] : r \in inbox[h] \/ r = hand[h]
      BY <1>5 DEF N!BeBusy, N!Unsent, ChildTypes, N!childvars
    <2>4. 0 \in Nat /\ 0 \notin N!Ids
      BY Ranges
    <2> QED
      BY <2>1, <2>2, <2>3, <2>4, <2>5, QueueKept, Zenon
  <1>6. ASSUME NEW t \in Threads, N!Enqueue(t), N!GiveUp
         PROVE  QueueOK'
    <2> DEFINE f == Len(made) + 1
    <2>1. f \in N!Ids /\ f \notin Made /\ Len(made) \in Nat
      BY <1>6, RoomForOne DEF N!Enqueue, Made
    <2>2. current \in N!Gens /\ Len(queue[current]) <= PendingLimit
      <3>1. current # 0 /\ ~(Len(queue[current]) > PendingLimit)
        BY <1>6, Zenon DEF N!Enqueue, N!Refused, N!Running, N!Busy
      <3>2. current \in N!Gens
        BY <3>1, Ranges DEF ClientTypes
      <3>3. Len(queue[current]) \in Nat
        BY <3>2 DEF QueueTypes
      <3> QED
        BY <3>1, <3>2, <3>3, PipeAssumed
    <2>3. /\ made' = Append(made, current) /\ queue' = [queue EXCEPT ![current] = Append(@, f)]
          /\ UNCHANGED <<hand, inbox>>
      BY <1>6, Zenon DEF N!Enqueue, N!childvars
    <2>4. f \in Made' /\ made'[f] = current /\ \A r \in Made : r \in Made' /\ made'[r] = made[r]
      BY <2>1, <2>2, <2>3, Ranges DEF RequestTypes, Made
    <2>5. f # hand[current] /\ f \notin inbox[current]
      BY <2>1, <2>2, Zenon DEF PipeOK
    <2> SUFFICES ASSUME NEW g \in N!Gens
                 PROVE  /\ Len(queue'[g]) <= PendingLimit + 1
                        /\ \A n \in 1..Len(queue'[g]) : queue'[g][n] \in N!Ids =>
                             /\ queue'[g][n] \in Made' /\ made'[queue'[g][n]] = g
                             /\ queue'[g][n] # hand'[g] /\ queue'[g][n] \notin inbox'[g]
                        /\ \A m \in 1..Len(queue'[g]), n \in 1..Len(queue'[g]) :
                             queue'[g][m] \in N!Ids /\ queue'[g][m] = queue'[g][n] => m = n
      BY Zenon DEF QueueOK
    <2>6. queue[g] \in Seq(0..2 * MaxIds)
      BY DEF QueueTypes
    <2>7. /\ Len(queue[g]) <= PendingLimit + 1
          /\ \A n \in 1..Len(queue[g]) : queue[g][n] \in N!Ids =>
               /\ queue[g][n] \in Made /\ made[queue[g][n]] = g
               /\ queue[g][n] # hand[g] /\ queue[g][n] \notin inbox[g]
          /\ \A m \in 1..Len(queue[g]), n \in 1..Len(queue[g]) :
               queue[g][m] \in N!Ids /\ queue[g][m] = queue[g][n] => m = n
      BY Zenon DEF QueueOK
    <2>8. CASE g # current
      <3>1. queue'[g] = queue[g]
        BY <2>3, <2>8 DEF QueueTypes
      <3>2. hand' = hand /\ inbox' = inbox
        BY <2>3
      <3>3. \A n \in 1..Len(queue[g]) : queue[g][n] \in N!Ids =>
               /\ queue[g][n] \in Made' /\ made'[queue[g][n]] = g
               /\ queue[g][n] # hand[g] /\ queue[g][n] \notin inbox[g]
        BY <2>4, <2>7, Zenon
      <3> QED
        BY <2>7, <3>1, <3>2, <3>3
    <2>9. CASE g = current
      <3> HIDE DEF f
      <3>1. queue'[g] = Append(queue[g], f)
        BY <2>2, <2>3, <2>9 DEF QueueTypes
      <3>2. /\ Len(queue'[g]) = Len(queue[g]) + 1 /\ queue'[g][Len(queue[g]) + 1] = f
            /\ \A n \in 1..Len(queue[g]) : queue'[g][n] = queue[g][n]
        BY <2>6, <3>1
      <3>3. \A n \in 1..Len(queue'[g]) : n \in 1..Len(queue[g]) \/ n = Len(queue[g]) + 1
        BY <2>6, <3>2
      <3>4. \A n \in 1..Len(queue[g]) : queue[g][n] # f
        BY <2>1, <2>7, Zenon
      <3>5. Len(queue'[g]) <= PendingLimit + 1
        BY <2>2, <2>6, <2>9, <3>2, PipeAssumed
      <3>6. \A n \in 1..Len(queue'[g]) : queue'[g][n] \in N!Ids =>
               /\ queue'[g][n] \in Made' /\ made'[queue'[g][n]] = g
               /\ queue'[g][n] # hand'[g] /\ queue'[g][n] \notin inbox'[g]
        <4> SUFFICES ASSUME NEW n \in 1..Len(queue'[g]), queue'[g][n] \in N!Ids
                     PROVE  /\ queue'[g][n] \in Made' /\ made'[queue'[g][n]] = g
                            /\ queue'[g][n] # hand'[g] /\ queue'[g][n] \notin inbox'[g]
          BY Zenon
        <4>1. hand' = hand /\ inbox' = inbox
          BY <2>3
        <4>2. CASE n \in 1..Len(queue[g])
          <5>1. queue'[g][n] = queue[g][n]
            BY <3>2, <4>2, Zenon
          <5> QED
            BY <2>4, <2>7, <4>1, <4>2, <5>1, Zenon
        <4>3. CASE n = Len(queue[g]) + 1
          <5>1. queue'[g][n] = f
            BY <3>2, <4>3, Zenon
          <5> QED
            BY <2>4, <2>5, <2>9, <4>1, <5>1, Zenon
        <4> QED
          BY <3>3, <4>2, <4>3, Zenon
      <3>7. \A m \in 1..Len(queue'[g]), n \in 1..Len(queue'[g]) :
               queue'[g][m] \in N!Ids /\ queue'[g][m] = queue'[g][n] => m = n
        <4> SUFFICES ASSUME NEW m \in 1..Len(queue'[g]), NEW n \in 1..Len(queue'[g]),
                            queue'[g][m] \in N!Ids, queue'[g][m] = queue'[g][n]
                     PROVE  m = n
          BY Zenon
        <4>1. CASE m \in 1..Len(queue[g]) /\ n \in 1..Len(queue[g])
          BY <2>7, <3>2, <4>1, Zenon
        <4>2. CASE m \in 1..Len(queue[g]) /\ n = Len(queue[g]) + 1
          BY <3>2, <3>4, <4>2, Zenon
        <4>3. CASE m = Len(queue[g]) + 1 /\ n \in 1..Len(queue[g])
          BY <3>2, <3>4, <4>3, Zenon
        <4> QED
          BY <3>3, <4>1, <4>2, <4>3, Zenon
      <3> QED
        BY <3>5, <3>6, <3>7
    <2> QED
      BY <2>8, <2>9
  <1>7. ASSUME NEW t \in Threads, N!SendCancel(t), N!GiveUp
         PROVE  QueueOK'
    <2> DEFINE f == N!CancelFrame(id[t])
    <2>1. \A h \in N!Gens : queue'[h] = queue[h] \/ (queue'[h] = Append(queue[h], f) /\ Len(queue[h]) <= PendingLimit)
      <3>1. queue' = [queue EXCEPT ![made[id[t]]] = IF current = made[id[t]] /\ Len(@) <= PendingLimit
                                                    THEN Append(@, f) ELSE @]
        BY <1>7, Zenon DEF N!SendCancel
      <3> HIDE DEF f
      <3> QED
        BY <3>1 DEF QueueTypes
    <2>2. \A r \in Made : r \in Made' /\ made'[r] = made[r]
      BY <1>7, Zenon DEF N!SendCancel, N!clientvars, Made
    <2>3. \A h \in N!Gens : hand'[h] \in {hand[h], 0}
      BY <1>7 DEF N!SendCancel, QueueTypes, N!pipevars, N!NoFrame
    <2>5. \A h \in N!Gens : \A r \in inbox'[h] : r \in inbox[h] \/ r = hand[h]
      BY <1>7 DEF N!SendCancel, ChildTypes, N!childvars
    <2>4. f \in Nat /\ f \notin N!Ids
      BY <1>7, PipeAssumed DEF N!SendCancel, N!CancelFrame, N!Ids, WaitOK, Made, ClientTypes
    <2> HIDE DEF f
    <2> QED
      BY <2>1, <2>2, <2>3, <2>4, <2>5, QueueKept, Zenon
  <1>8. ASSUME NEW t \in Threads, N!StopProcess(t), N!GiveUp
         PROVE  QueueOK'
    <2>1. \A h \in N!Gens : queue'[h] = queue[h] \/ (queue'[h] = Append(queue[h], 0) /\ Len(queue[h]) <= PendingLimit)
      BY <1>8 DEF N!StopProcess, N!Sentinel, N!Stop, QueueTypes
    <2>2. \A r \in Made : r \in Made' /\ made'[r] = made[r]
      BY <1>8, Zenon DEF N!StopProcess, N!clientvars, Made
    <2>3. \A h \in N!Gens : hand'[h] \in {hand[h], 0}
      BY <1>8 DEF N!StopProcess, QueueTypes, N!pipevars, N!NoFrame
    <2>5. \A h \in N!Gens : \A r \in inbox'[h] : r \in inbox[h] \/ r = hand[h]
      BY <1>8 DEF N!StopProcess, ChildTypes, N!childvars
    <2>4. 0 \in Nat /\ 0 \notin N!Ids
      BY Ranges
    <2> QED
      BY <2>1, <2>2, <2>3, <2>4, <2>5, QueueKept, Zenon
  <1>9. ASSUME NEW t \in Threads, N!Forget(t), N!GiveUp
         PROVE  QueueOK'
    <2>1. \A h \in N!Gens : queue'[h] = queue[h] \/ queue'[h] = <<>>
      <3>1. queue' = [queue EXCEPT ![current] = <<>>]
        BY <1>9, Zenon DEF N!Forget
      <3> QED
        BY <3>1 DEF QueueTypes
    <2>2. \A r \in Made : r \in Made' /\ made'[r] = made[r]
      BY <1>9, Zenon DEF N!Forget, N!clientvars, Made
    <2>3. \A h \in N!Gens : hand'[h] \in {hand[h], 0}
      BY <1>9 DEF N!Forget, QueueTypes, N!pipevars, N!NoFrame
    <2>5. \A h \in N!Gens : \A r \in inbox'[h] : r \in inbox[h] \/ r = hand[h]
      BY <1>9 DEF N!Forget, ChildTypes, N!childvars
    <2>4. 0 \in Nat /\ 0 \notin N!Ids
      BY Ranges
    <2> QED
      BY <2>1, <2>2, <2>3, <2>4, <2>5, QueueKept, Zenon
  <1>10. ASSUME NEW g \in N!Gens, N!WriterTakes(g), N!GiveUp
         PROVE  QueueOK'
    <2> DEFINE f == Head(queue[g])
    <2>1. queue[g] \in Seq(0..2 * MaxIds) /\ queue[g] # <<>>
      <3>1. queue[g] \in Seq(0..2 * MaxIds)
        BY DEF QueueTypes
      <3> QED
        BY <1>10, <3>1, Zenon DEF N!WriterTakes
    <2>2. /\ Tail(queue[g]) \in Seq(0..2 * MaxIds) /\ Len(Tail(queue[g])) = Len(queue[g]) - 1
          /\ \A n \in 1..Len(Tail(queue[g])) : Tail(queue[g])[n] = queue[g][n + 1]
          /\ Len(queue[g]) \in Nat \ {0} /\ f = queue[g][1]
      <3>1. Len(queue[g]) \in Nat \ {0}
        BY <2>1, EmptySeq, LenProperties
      <3>2. /\ Tail(queue[g]) \in Seq(0..2 * MaxIds) /\ Len(Tail(queue[g])) = Len(queue[g]) - 1
            /\ \A n \in 1..Len(Tail(queue[g])) : Tail(queue[g])[n] = queue[g][n + 1]
        BY <2>1, HeadTailProperties, Zenon
      <3>3. Head(queue[g]) = queue[g][1]
        BY <2>1, HeadIsFirst, Zenon
      <3> QED
        BY <3>1, <3>2, <3>3
    <2>3. /\ queue' = [queue EXCEPT ![g] = Tail(queue[g])] /\ UNCHANGED <<inbox, made>>
          /\ \/ hand' = [hand EXCEPT ![g] = 0]
             \/ hand' = [hand EXCEPT ![g] = f]
      BY <1>10, Zenon DEF N!WriterTakes, N!Taken, N!NoFrame, N!clientvars, N!childvars
    <2>4. Made' = Made /\ made' = made /\ inbox' = inbox
      BY <2>3, Zenon DEF Made
    <2> HIDE DEF f
    <2> SUFFICES ASSUME NEW h \in N!Gens
                 PROVE  /\ Len(queue'[h]) <= PendingLimit + 1
                        /\ \A n \in 1..Len(queue'[h]) : queue'[h][n] \in N!Ids =>
                             /\ queue'[h][n] \in Made' /\ made'[queue'[h][n]] = h
                             /\ queue'[h][n] # hand'[h] /\ queue'[h][n] \notin inbox'[h]
                        /\ \A m \in 1..Len(queue'[h]), n \in 1..Len(queue'[h]) :
                             queue'[h][m] \in N!Ids /\ queue'[h][m] = queue'[h][n] => m = n
      BY Zenon DEF QueueOK
    <2>5. /\ Len(queue[h]) <= PendingLimit + 1
          /\ \A n \in 1..Len(queue[h]) : queue[h][n] \in N!Ids =>
               /\ queue[h][n] \in Made /\ made[queue[h][n]] = h
               /\ queue[h][n] # hand[h] /\ queue[h][n] \notin inbox[h]
          /\ \A m \in 1..Len(queue[h]), n \in 1..Len(queue[h]) :
               queue[h][m] \in N!Ids /\ queue[h][m] = queue[h][n] => m = n
      BY Zenon DEF QueueOK
    <2>6. CASE h # g
      <3>1. queue'[h] = queue[h] /\ hand'[h] = hand[h]
        BY <2>3, <2>6 DEF QueueTypes
      <3> QED
        BY <2>4, <2>5, <3>1
    <2>7. CASE h = g
      <3>1. queue'[h] = Tail(queue[h]) /\ hand'[h] \in {0, f}
        BY <2>3, <2>7 DEF QueueTypes
      <3>2. Len(queue'[h]) = Len(queue[h]) - 1
        BY <2>2, <2>7, <3>1
      <3>3. \A n \in 1..Len(queue'[h]) : n + 1 \in 1..Len(queue[h]) /\ n + 1 # 1 /\ queue'[h][n] = queue[h][n + 1]
        BY <2>2, <2>7, <3>1, <3>2
      <3>4. 1 \in 1..Len(queue[h])
        BY <2>2, <2>7
      <3>5. \A n \in 1..Len(queue'[h]) : queue'[h][n] \in N!Ids => queue'[h][n] # f
        <4> SUFFICES ASSUME NEW n \in 1..Len(queue'[h]), queue'[h][n] \in N!Ids, queue'[h][n] = f
                     PROVE  FALSE
          BY Zenon
        <4>1. PICK k \in 1..Len(queue[h]) : k = n + 1
          BY <3>3, Zenon
        <4>2. queue[h][k] = queue[h][1] /\ queue[h][k] \in N!Ids
          BY <2>2, <2>7, <3>3, <4>1, Zenon
        <4>3. k = 1
          BY <2>5, <3>4, <4>2, Zenon
        <4> QED
          BY <3>3, <4>1, <4>3, Zenon
      <3>6. \A n \in 1..Len(queue'[h]) : queue'[h][n] \in N!Ids => queue'[h][n] # hand'[h]
        BY <3>1, <3>5, Ranges
      <3>7. \A m \in 1..Len(queue'[h]), n \in 1..Len(queue'[h]) :
               queue'[h][m] \in N!Ids /\ queue'[h][m] = queue'[h][n] => m = n
        <4> SUFFICES ASSUME NEW m \in 1..Len(queue'[h]), NEW n \in 1..Len(queue'[h]),
                            queue'[h][m] \in N!Ids, queue'[h][m] = queue'[h][n]
                     PROVE  m = n
          BY Zenon
        <4>1. PICK j \in 1..Len(queue[h]) : j = m + 1
          BY <3>3, Zenon
        <4>2. PICK k \in 1..Len(queue[h]) : k = n + 1
          BY <3>3, Zenon
        <4>3. queue[h][j] = queue'[h][m] /\ queue[h][k] = queue'[h][n]
          BY <3>3, <4>1, <4>2, Zenon
        <4>4. j = k
          BY <2>5, <4>3, Zenon
        <4> QED
          BY <4>1, <4>2, <4>4
      <3>8. Len(queue'[h]) <= PendingLimit + 1
        BY <2>2, <2>5, <2>7, <3>2, PipeAssumed
      <3>9. \A n \in 1..Len(queue'[h]) : queue'[h][n] \in N!Ids =>
               queue'[h][n] \in Made /\ made[queue'[h][n]] = h /\ queue'[h][n] \notin inbox[h]
        <4> SUFFICES ASSUME NEW n \in 1..Len(queue'[h]), queue'[h][n] \in N!Ids
                     PROVE  queue'[h][n] \in Made /\ made[queue'[h][n]] = h /\ queue'[h][n] \notin inbox[h]
          BY Zenon
        <4>1. PICK k \in 1..Len(queue[h]) : k = n + 1
          BY <3>3, Zenon
        <4>2. queue[h][k] = queue'[h][n]
          BY <3>3, <4>1, Zenon
        <4> QED
          BY <2>5, <4>2, Zenon
      <3> QED
        BY <2>3, <2>4, <3>6, <3>7, <3>8, <3>9, Zenon
    <2> QED
      BY <2>6, <2>7
  <1>11. ASSUME NEW g \in N!Gens, N!WriterWrites(g), N!GiveUp
         PROVE  QueueOK'
    <2>1. \A h \in N!Gens : queue'[h] = queue[h]
      BY <1>11, Zenon DEF N!WriterWrites
    <2>2. \A r \in Made : r \in Made' /\ made'[r] = made[r]
      BY <1>11, Zenon DEF N!WriterWrites, N!clientvars, Made
    <2>3. \A h \in N!Gens : hand'[h] \in {hand[h], 0}
      BY <1>11 DEF N!WriterWrites, QueueTypes, N!pipevars, N!NoFrame
    <2>5. \A h \in N!Gens : \A r \in inbox'[h] : r \in inbox[h] \/ r = hand[h]
      BY <1>11 DEF N!WriterWrites, ChildTypes, N!childvars
    <2>4. 0 \in Nat /\ 0 \notin N!Ids
      BY Ranges
    <2> QED
      BY <2>1, <2>2, <2>3, <2>4, <2>5, QueueKept, Zenon
  <1>12. ASSUME NEW g \in N!Gens, N!WriterBreaks(g), N!GiveUp
         PROVE  QueueOK'
    <2>1. \A h \in N!Gens : queue'[h] = queue[h]
      BY <1>12, Zenon DEF N!WriterBreaks
    <2>2. \A r \in Made : r \in Made' /\ made'[r] = made[r]
      BY <1>12, Zenon DEF N!WriterBreaks, N!clientvars, Made
    <2>3. \A h \in N!Gens : hand'[h] \in {hand[h], 0}
      BY <1>12 DEF N!WriterBreaks, QueueTypes, N!pipevars, N!NoFrame
    <2>5. \A h \in N!Gens : \A r \in inbox'[h] : r \in inbox[h] \/ r = hand[h]
      BY <1>12 DEF N!WriterBreaks, ChildTypes, N!childvars
    <2>4. 0 \in Nat /\ 0 \notin N!Ids
      BY Ranges
    <2> QED
      BY <2>1, <2>2, <2>3, <2>4, <2>5, QueueKept, Zenon
  <1>13. ASSUME NEW g \in N!Gens, N!ThreadFails(g), N!GiveUp
         PROVE  QueueOK'
    <2>1. \A h \in N!Gens : queue'[h] = queue[h] \/ (queue'[h] = Append(queue[h], 0) /\ Len(queue[h]) <= PendingLimit)
      BY <1>13 DEF N!ThreadFails, N!Unregister, N!WakeFailed, N!Sentinel, N!Stop, QueueTypes
    <2>2. \A r \in Made : r \in Made' /\ made'[r] = made[r]
      BY <1>13, Zenon DEF N!ThreadFails, N!clientvars, Made
    <2>3. \A h \in N!Gens : hand'[h] \in {hand[h], 0}
      BY <1>13 DEF N!ThreadFails, QueueTypes, N!pipevars, N!NoFrame
    <2>5. \A h \in N!Gens : \A r \in inbox'[h] : r \in inbox[h] \/ r = hand[h]
      BY <1>13 DEF N!ThreadFails, ChildTypes, N!childvars
    <2>4. 0 \in Nat /\ 0 \notin N!Ids
      BY Ranges
    <2> QED
      BY <2>1, <2>2, <2>3, <2>4, <2>5, QueueKept, Zenon
  <1> QED
    BY <1>1, <1>2, <1>3, <1>4, <1>5, <1>6, <1>7, <1>8, <1>9, <1>10, <1>11, <1>12, <1>13, Zenon DEF N!Next,
       N!Proceed, N!Threading, nvars

LEMMA PipeStays ==
  ASSUME ClientTypes, RequestTypes, QueueTypes, ChildTypes, KnownOK, QueueOK, PipeOK, [N!Next]_nvars
  PROVE  PipeOK'
  <1>1. CASE UNCHANGED <<hand, inbox, made, abandoned>>
    BY <1>1 DEF PipeOK, Made
  <1>2. ASSUME NEW t \in Threads, N!GiveUp, N!Call(t) \/ N!Unlist(t) \/ N!Withdraw(t) \/ N!EnsureClosed(t) \/ N!EnsureReady(t) \/
     N!EnsureRestart(t) \/ N!Start(t) \/ N!StartFails(t) \/ N!Done(t) \/ N!SendCancel(t) \/ N!Register(t) \/
     N!Publish(t) \/ N!PublishGone(t) \/ N!StopProcess(t) \/ N!Reap(t) \/ N!Forget(t) \/ N!Closed(t)
         PROVE  UNCHANGED <<hand, inbox, made, abandoned>>
    BY <1>2, Zenon DEF N!Call, N!Unlist, N!Withdraw, N!Goto, N!EnsureClosed, N!EnsureReady, N!Running,
       N!Exited, N!EnsureRestart,
       N!Start, N!StartFails, N!Done, N!Failed, N!SendCancel, N!CancelFrame, N!Register, N!Publish,
       N!PublishGone, N!StopProcess, N!Sentinel, N!Reap, N!Forget, N!Closed, N!GiveUp, N!threadvars,
       N!clientvars, N!readvars, N!pipevars, N!childvars
  <1>3. ASSUME NEW g \in N!Gens, N!GiveUp, N!ThreadFails(g) \/ N!ChildAnswers(g) \/ N!ChildDies(g)
         PROVE  UNCHANGED <<hand, inbox, made, abandoned>>
    BY <1>3, Zenon DEF N!ThreadFails, N!Unregister, N!WakeFailed, N!Sentinel, N!ChildAnswers, N!ChildDies,
       N!GiveUp, N!threadvars, N!clientvars, N!readvars, N!pipevars, N!childvars
  <1>4. ASSUME NEW t \in Threads, N!Close(t), N!GiveUp
         PROVE  PipeOK'
    <2>2. \A r \in Made : r \in Made' /\ made'[r] = made[r]
      BY <1>4, Zenon DEF N!Close, N!clientvars, Made
    <2>1. \A h \in N!Gens : hand'[h] \in {hand[h], 0}
      BY <1>4 DEF N!Close, QueueTypes, N!pipevars, N!NoFrame
    <2>3. \A h \in N!Gens : \A r \in inbox'[h] : r \in inbox[h] \/ (r = hand[h] /\ r \in N!Ids)
      BY <1>4 DEF N!Close, ChildTypes, N!childvars
    <2> QED
      BY <1>4, <2>1, <2>2, <2>3, PipeKept, Zenon
  <1>5. ASSUME NEW t \in Threads, N!Refuse(t), N!GiveUp
         PROVE  PipeOK'
    <2>2. \A r \in Made : r \in Made' /\ made'[r] = made[r]
      BY <1>5 DEF N!Refuse, N!Unsent, RequestTypes, ClientTypes, Made
    <2>1. \A h \in N!Gens : hand'[h] \in {hand[h], 0}
      BY <1>5 DEF N!Refuse, N!Unsent, QueueTypes, N!pipevars, N!NoFrame
    <2>3. \A h \in N!Gens : \A r \in inbox'[h] : r \in inbox[h] \/ (r = hand[h] /\ r \in N!Ids)
      BY <1>5 DEF N!Refuse, N!Unsent, ChildTypes, N!childvars
    <2> QED
      BY <1>5, <2>1, <2>2, <2>3, PipeKept, Zenon
  <1>6. ASSUME NEW t \in Threads, N!BeBusy(t), N!GiveUp
         PROVE  PipeOK'
    <2>2. \A r \in Made : r \in Made' /\ made'[r] = made[r]
      BY <1>6 DEF N!BeBusy, N!Unsent, RequestTypes, ClientTypes, Made
    <2>1. \A h \in N!Gens : hand'[h] \in {hand[h], 0}
      BY <1>6 DEF N!BeBusy, N!Unsent, QueueTypes, N!pipevars, N!NoFrame
    <2>3. \A h \in N!Gens : \A r \in inbox'[h] : r \in inbox[h] \/ (r = hand[h] /\ r \in N!Ids)
      BY <1>6 DEF N!BeBusy, N!Unsent, ChildTypes, N!childvars
    <2> QED
      BY <1>6, <2>1, <2>2, <2>3, PipeKept, Zenon
  <1>7. ASSUME NEW t \in Threads, N!Enqueue(t), N!GiveUp
         PROVE  PipeOK'
    <2>2. \A r \in Made : r \in Made' /\ made'[r] = made[r]
      BY <1>7 DEF N!Enqueue, RequestTypes, ClientTypes, Made
    <2>1. \A h \in N!Gens : hand'[h] \in {hand[h], 0}
      BY <1>7 DEF N!Enqueue, QueueTypes, N!pipevars, N!NoFrame
    <2>3. \A h \in N!Gens : \A r \in inbox'[h] : r \in inbox[h] \/ (r = hand[h] /\ r \in N!Ids)
      BY <1>7 DEF N!Enqueue, ChildTypes, N!childvars
    <2> QED
      BY <1>7, <2>1, <2>2, <2>3, PipeKept, Zenon
  <1>8. ASSUME NEW t \in Threads, N!TimeOut(t), N!GiveUp
         PROVE  PipeOK'
    <2>2. \A r \in Made : r \in Made' /\ made'[r] = made[r]
      BY <1>8, Zenon DEF N!TimeOut, N!clientvars, Made
    <2>1. \A h \in N!Gens : hand'[h] \in {hand[h], 0}
      BY <1>8 DEF N!TimeOut, QueueTypes, N!pipevars, N!NoFrame
    <2>3. \A h \in N!Gens : \A r \in inbox'[h] : r \in inbox[h] \/ (r = hand[h] /\ r \in N!Ids)
      BY <1>8 DEF N!TimeOut, ChildTypes, N!childvars
    <2> QED
      BY <1>8, <2>1, <2>2, <2>3, PipeKept, Zenon
  <1>9. ASSUME NEW g \in N!Gens, N!ReadAnswer(g), N!GiveUp
         PROVE  PipeOK'
    <2>2. \A r \in Made : r \in Made' /\ made'[r] = made[r]
      BY <1>9, Zenon DEF N!ReadAnswer, N!clientvars, Made
    <2>1. \A h \in N!Gens : hand'[h] \in {hand[h], 0}
      BY <1>9 DEF N!ReadAnswer, QueueTypes, N!pipevars, N!NoFrame
    <2>3. \A h \in N!Gens : \A r \in inbox'[h] : r \in inbox[h] \/ (r = hand[h] /\ r \in N!Ids)
      BY <1>9 DEF N!ReadAnswer, ChildTypes, N!childvars
    <2> QED
      BY <1>9, <2>1, <2>2, <2>3, PipeKept, Zenon
  <1>10. ASSUME NEW g \in N!Gens, N!ReadFails(g), N!GiveUp
         PROVE  PipeOK'
    <2>2. \A r \in Made : r \in Made' /\ made'[r] = made[r]
      BY <1>10, Zenon DEF N!ReadFails, N!clientvars, Made
    <2>1. \A h \in N!Gens : hand'[h] \in {hand[h], 0}
      BY <1>10 DEF N!ReadFails, QueueTypes, N!pipevars, N!NoFrame
    <2>3. \A h \in N!Gens : \A r \in inbox'[h] : r \in inbox[h] \/ (r = hand[h] /\ r \in N!Ids)
      BY <1>10 DEF N!ReadFails, ChildTypes, N!childvars
    <2> QED
      BY <1>10, <2>1, <2>2, <2>3, PipeKept, Zenon
  <1>11. ASSUME NEW g \in N!Gens, N!WriterTakes(g), N!GiveUp
         PROVE  PipeOK'
    <2>1. /\ UNCHANGED <<pending, inbox, made>>
          /\ \/ hand' = [hand EXCEPT ![g] = 0]
             \/ /\ hand' = [hand EXCEPT ![g] = Head(queue[g])]
                /\ Head(queue[g]) \in N!Ids => Head(queue[g]) \in pending
      BY <1>11, Zenon DEF N!WriterTakes, N!Taken, N!NoFrame, N!clientvars, N!childvars
    <2>2. abandoned' = abandoned
      BY <1>11, <2>1 DEF N!GiveUp
    <2>3. Head(queue[g]) \in N!Ids => Head(queue[g]) \in Made /\ made[Head(queue[g])] = g
      <3>1. queue[g] \in Seq(0..2 * MaxIds) /\ queue[g] # <<>>
        <4>1. queue[g] \in Seq(0..2 * MaxIds)
          BY DEF QueueTypes
        <4> QED
          BY <1>11, <4>1, Zenon DEF N!WriterTakes
      <3>2. Len(queue[g]) \in Nat \ {0}
        BY <3>1, EmptySeq, LenProperties
      <3>3. Head(queue[g]) = queue[g][1] /\ 1 \in 1..Len(queue[g])
        BY <3>1, <3>2, HeadIsFirst
      <3>4. \A n \in 1..Len(queue[g]) : queue[g][n] \in N!Ids => queue[g][n] \in Made /\ made[queue[g][n]] = g
        BY Zenon DEF QueueOK
      <3>5. queue[g][1] \in N!Ids => queue[g][1] \in Made /\ made[queue[g][1]] = g
        BY <3>3, <3>4, Zenon
      <3> QED
        BY <3>3, <3>5, Zenon
    <2>4. \A h \in N!Gens : \/ hand'[h] \in {hand[h], 0}
                            \/ h = g /\ hand'[h] = Head(queue[g]) /\ (hand'[h] \in N!Ids => hand'[h] \in pending)
      BY <2>1 DEF QueueTypes
    <2>5. 0 \notin N!Ids
      BY Ranges
    <2>6. \A h \in N!Gens : hand'[h] \in N!Ids =>
             hand'[h] \in Made /\ made[hand'[h]] = h /\ hand'[h] \notin abandoned
      <3> SUFFICES ASSUME NEW h \in N!Gens, hand'[h] \in N!Ids
                   PROVE  hand'[h] \in Made /\ made[hand'[h]] = h /\ hand'[h] \notin abandoned
        BY Zenon
      <3>1. CASE hand'[h] \in {hand[h], 0}
        <4>1. hand'[h] = hand[h]
          BY <2>5, <3>1
        <4> QED
          BY <4>1, Zenon DEF PipeOK
      <3>2. CASE h = g /\ hand'[h] = Head(queue[g]) /\ (hand'[h] \in N!Ids => hand'[h] \in pending)
        BY <2>3, <3>2 DEF KnownOK
      <3> QED
        BY <2>4, <3>1, <3>2, Zenon
    <2> QED
      BY <2>1, <2>2, <2>6, Zenon DEF PipeOK, Made
  <1>12. ASSUME NEW g \in N!Gens, N!WriterWrites(g), N!GiveUp
         PROVE  PipeOK'
    <2>2. \A r \in Made : r \in Made' /\ made'[r] = made[r]
      BY <1>12, Zenon DEF N!WriterWrites, N!clientvars, Made
    <2>1. \A h \in N!Gens : hand'[h] \in {hand[h], 0}
      BY <1>12 DEF N!WriterWrites, QueueTypes, N!pipevars, N!NoFrame
    <2>3. \A h \in N!Gens : \A r \in inbox'[h] : r \in inbox[h] \/ (r = hand[h] /\ r \in N!Ids)
      BY <1>12 DEF N!WriterWrites, ChildTypes, N!childvars
    <2> QED
      BY <1>12, <2>1, <2>2, <2>3, PipeKept, Zenon
  <1>13. ASSUME NEW g \in N!Gens, N!WriterBreaks(g), N!GiveUp
         PROVE  PipeOK'
    <2>2. \A r \in Made : r \in Made' /\ made'[r] = made[r]
      BY <1>13, Zenon DEF N!WriterBreaks, N!clientvars, Made
    <2>1. \A h \in N!Gens : hand'[h] \in {hand[h], 0}
      BY <1>13 DEF N!WriterBreaks, QueueTypes, N!pipevars, N!NoFrame
    <2>3. \A h \in N!Gens : \A r \in inbox'[h] : r \in inbox[h] \/ (r = hand[h] /\ r \in N!Ids)
      BY <1>13 DEF N!WriterBreaks, ChildTypes, N!childvars
    <2> QED
      BY <1>13, <2>1, <2>2, <2>3, PipeKept, Zenon
  <1>32. ASSUME NEW t \in Threads, N!Wake(t), N!GiveUp
         PROVE  PipeOK'
    <2>2. \A r \in Made : r \in Made' /\ made'[r] = made[r]
      BY <1>32, Zenon DEF N!Wake, N!clientvars, Made
    <2>1. \A h \in N!Gens : hand'[h] \in {hand[h], 0}
      BY <1>32 DEF N!Wake, QueueTypes, N!pipevars, N!NoFrame
    <2>3. \A h \in N!Gens : \A r \in inbox'[h] : r \in inbox[h] \/ (r = hand[h] /\ r \in N!Ids)
      BY <1>32 DEF N!Wake, ChildTypes, N!childvars
    <2> QED
      BY <1>32, <2>1, <2>2, <2>3, PipeKept, Zenon
  <1> QED
    BY <1>1, <1>2, <1>3, <1>4, <1>5, <1>6, <1>7, <1>8, <1>9, <1>10, <1>11, <1>12, <1>13, <1>32, Zenon DEF N!Next,
       N!Proceed, N!Threading, nvars


(* The parts together are inductive and imply the property.                *)
LEMMA PipeStarts == N!Init => PipeInv
  <1> SUFFICES ASSUME N!Init
               PROVE  PipeInv
    OBVIOUS
  <1>1. /\ pc = [t \in Threads |-> "idle"] /\ kind = [t \in Threads |-> "user"]
        /\ id = [t \in Threads |-> 0] /\ then = [t \in Threads |-> "start"] /\ lifecycle = NoThread
    BY Zenon DEF N!Init
  <1>2. /\ current = 0 /\ ready = FALSE /\ closing = FALSE /\ closed = FALSE /\ entry = 0
        /\ pending = {} /\ result = [r \in N!Ids |-> "none"] /\ made = <<>>
    BY Zenon DEF N!Init
  <1>3. /\ queue = [g \in N!Gens |-> <<>>] /\ hand = [g \in N!Gens |-> 0]
        /\ writer = [g \in N!Gens |-> "none"] /\ reader = [g \in N!Gens |-> "none"]
        /\ loss = [x \in {"reader", "writer"} |-> [g \in N!Gens |-> {}]]
    BY Zenon DEF N!Init, N!NoFrame
  <1>4. /\ life = [g \in N!Gens |-> "none"] /\ inbox = [g \in N!Gens |-> {}]
        /\ outbox = [g \in N!Gens |-> {}] /\ disk = {} /\ notStarted = {} /\ abandoned = {}
        /\ canceled = {} /\ dropped = 0 /\ strayed = {}
    BY Zenon DEF N!Init
  <1>5. Len(made) = 0 /\ Made = {} /\ made \in Seq(0..MaxGens)
    BY <1>2 DEF Made
  <1>6. ClientTypes /\ ChildTypes /\ LockOK /\ ChildOK /\ ClosingOK /\ FreshOK
    <2>1. /\ pc \in [Threads -> {"idle", "ensure", "start", "enqueue", "wait", "cancel", "register",
                                "publish", "gone", "stop", "reap", "forget", "unregister", "wake", "closed"}]
          /\ kind \in [Threads -> {"user", "initialize", "shutdown"}]
          /\ id \in [Threads -> 0..MaxIds] /\ then \in [Threads -> {"start", "raise", "closed"}]
      BY <1>1, PipeAssumed
    <2>2. \A t \in Threads : pc[t] = "idle"
      BY <1>1
    <2>3. \A g \in N!Gens : life[g] = "none" /\ reader[g] = "none" /\ writer[g] = "none"
      BY <1>3, <1>4
    <2>4. ClientTypes
      <3>1. lifecycle \in Threads \cup {NoThread}
        BY <1>1
      <3>2. current \in 0..MaxGens /\ entry \in {0, current}
        BY <1>2, PipeAssumed
      <3>3. ready \in BOOLEAN /\ closing \in BOOLEAN /\ closed \in BOOLEAN
        BY <1>2
      <3> QED
        BY <2>1, <3>1, <3>2, <3>3, Zenon DEF ClientTypes
    <2>5. ChildTypes
      BY <1>3, <1>4 DEF ChildTypes
    <2>6. LockOK
      BY <2>2 DEF LockOK, WithChild, Childless, Requests
    <2>7. ChildOK
      BY <1>2, <2>2, <2>3 DEF ChildOK
    <2>8. ClosingOK
      BY <1>2, <2>2 DEF ClosingOK, Closing, Requests
    <2>9. FreshOK
      BY <1>2, <2>3, Ranges DEF FreshOK
    <2> QED
      BY <2>4, <2>5, <2>6, <2>7, <2>8, <2>9
  <1>7. RequestTypes
    BY <1>2, <1>3, <1>4, <1>5 DEF RequestTypes
  <1>8. OrderOK
    BY <1>4, Ranges, PipeAssumed DEF OrderOK
  <1>9. RoomOK
    <2>1. One = {} /\ Two = {}
      BY <1>1 DEF One, Two, Restarts
    <2>2. Cardinality(One) = 0 /\ Cardinality(Two) = 0
      BY <2>1, FS_EmptySet, Zenon
    <2> QED
      BY <1>5, <2>2, PipeAssumed DEF RoomOK
  <1>10. WaitOK /\ N!UnlimitedWaitIsOwed
    BY <1>1 DEF WaitOK, N!UnlimitedWaitIsOwed
  <1>11. KnownOK /\ LossOK
    BY <1>2, <1>3, <1>4 DEF KnownOK, LossOK
  <1>12. QueueTypes /\ QueueOK
    <2>1. <<>> \in Seq(0..2 * MaxIds) /\ Len(<<>>) = 0 /\ 1..0 = {} /\ 0 <= PendingLimit + 1
      BY PipeAssumed
    <2>2. \A g \in N!Gens : queue[g] = <<>>
      BY <1>3, Zenon
    <2>3. QueueOK
      BY <2>1, <2>2, Zenon DEF QueueOK
    <2> QED
      BY <1>3, <2>1, <2>3, PipeAssumed DEF QueueTypes
  <1>13. PipeOK
    BY <1>3, <1>4, Ranges DEF PipeOK
  <1>14. N!PendingHasWaiter /\ N!EntryAccounted
    BY <1>2, <1>4, Zenon DEF N!PendingHasWaiter, N!EntryAccounted
  <1>15. LateTypes /\ CanceledOK
    BY <1>4, PipeAssumed DEF LateTypes, CanceledOK
  <1> QED
    BY <1>6, <1>7, <1>8, <1>9, <1>10, <1>11, <1>12, <1>13, <1>14, <1>15, Zenon DEF PipeInv

LEMMA PipeSteps ==
  ASSUME PipeInv, [N!Next]_nvars
  PROVE  PipeInv'
  <1>1. /\ ClientTypes /\ RequestTypes /\ QueueTypes /\ ChildTypes /\ LateTypes
        /\ LockOK /\ ChildOK /\ ClosingOK /\ OrderOK /\ FreshOK /\ RoomOK
        /\ WaitOK /\ KnownOK /\ CanceledOK /\ LossOK /\ QueueOK /\ PipeOK
        /\ N!PendingHasWaiter /\ N!UnlimitedWaitIsOwed /\ N!EntryAccounted
    BY Zenon DEF PipeInv
  <1>2. ClientTypes' /\ RequestTypes' /\ QueueTypes' /\ ChildTypes' /\ LateTypes'
    BY <1>1, ClientTypesStay, RequestTypesStay, QueueTypesStay, ChildTypesStay, LateTypesStay, Zenon
  <1>3. LockOK' /\ ChildOK' /\ ClosingOK' /\ OrderOK' /\ FreshOK' /\ RoomOK'
    BY <1>1, LockStays, ChildStays, ClosingStays, OrderStays, FreshStays, RoomStays, Zenon
  <1>4. WaitOK' /\ KnownOK' /\ CanceledOK' /\ LossOK' /\ QueueOK' /\ PipeOK'
    BY <1>1, WaitStays, KnownStays, CanceledStays, LossStays, QueueStays, PipeStays, Zenon
  <1>5. N!PendingHasWaiter' /\ N!UnlimitedWaitIsOwed' /\ N!EntryAccounted'
    BY <1>1, WaitersStay, OwedStays, EntryStays, Zenon
  <1> QED
    BY <1>2, <1>3, <1>4, <1>5, Zenon DEF PipeInv

LEMMA PipeTells == PipeInv => PipeAccounted
  <1> SUFFICES ASSUME PipeInv
               PROVE  PipeAccounted
    OBVIOUS
  <1> USE DEF PipeInv
  <1>1. N!GivenUpIsNotWritten /\ N!RequestsReachTheirChild
    BY DEF PipeOK, N!GivenUpIsNotWritten, N!RequestsReachTheirChild
  <1>2. N!NotStartedNeverRan
    BY Ranges DEF KnownOK, PipeOK, N!NotStartedNeverRan
  <1>3. N!TypeOK
    <2>1. Made \subseteq N!Ids /\ Len(made) <= MaxIds
      BY RoomSizes, PipeAssumed DEF RoomOK, RequestTypes, Made, N!Ids
    <2>2. {ready, closing, closed} \subseteq BOOLEAN /\ entry \in 0..MaxGens
      BY PipeAssumed DEF ClientTypes
    <2>3. \A g \in N!Gens : Len(queue[g]) <= PendingLimit + 1 /\ outbox[g] \subseteq N!Ids
      BY DEF QueueOK, ChildTypes
    <2>4. disk \cup strayed \subseteq N!Gens /\ dropped \in 0..MaxGens /\ canceled \subseteq N!Ids
          /\ abandoned \cup notStarted \subseteq N!Ids
      BY DEF ChildTypes, LateTypes, RequestTypes
    <2> QED
      BY <2>1, <2>2, <2>3, <2>4, Zenon DEF ClientTypes, RequestTypes, ChildTypes, N!TypeOK
  <1>4. N!OneHelper
    <2> DEFINE running == {g \in N!Gens : life[g] = "up"}
    <2>1. running \subseteq {current}
      BY Zenon DEF ChildOK
    <2> HIDE DEF running
    <2>2. IsFiniteSet({current}) /\ Cardinality({current}) = 1
      BY FS_Singleton
    <2>3. Cardinality(running) <= 1
      BY <2>1, <2>2, FS_Subset
    <2>4. N!Cardinality(running) <= 1
      BY <2>3, PipeCardinality
    <2> QED
      BY <2>4 DEF running, N!OneHelper
  <1>5. N!ClosedLeavesNothing
    BY Ranges DEF ChildOK, ClosingOK, ChildTypes, N!ClosedLeavesNothing
  <1> QED
    BY <1>1, <1>2, <1>3, <1>4, <1>5, Zenon
       DEF PipeAccounted, N!RunsOnlyWhatIsWanted, N!RequestsAccounted, N!HelpersAccounted

(* For every set of callers and every limit: a helper runs only what its   *)
(* caller still waits for and what was queued for it, every request has a  *)
(* caller and every caller an answer or somebody who owes it one, and one  *)
(* helper runs at most, with one registry entry, and none after close()    *)
(* (the threads, locks and restarts of native/client.py).                  *)
THEOREM RequestsAccountedFor == Spec => []PipeAccounted
  <1>1. Init => PipeInv
    BY PipeStarts, Zenon DEF Init
  <1>2. PipeInv /\ [Next]_vars => PipeInv'
    <2> SUFFICES ASSUME PipeInv, [Next]_vars
                 PROVE  PipeInv'
      OBVIOUS
    <2>1. [N!Next]_nvars
      BY Zenon DEF Next, vars
    <2> QED
      BY <2>1, PipeSteps, Zenon
  <1>3. PipeInv => PipeAccounted
    BY PipeTells
  <1> QED
    BY <1>1, <1>2, <1>3, PTL DEF Spec
=============================================================================
