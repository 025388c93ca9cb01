---------------------------- MODULE DaemonProofs ----------------------------
(***************************************************************************)
(* Proofs about the daemon's two books, the count of calls in flight, on   *)
(* which the idle restart relies, and the record of a background job; and  *)
(* about the relay between a local client and the daemon.                  *)
(***************************************************************************)
EXTENDS MCDaemon, MCRelay, FiniteSets, Sequences, FiniteSetTheorems, SequenceTheorems, TLAPS

LEMMA Assumed ==
  /\ IsFiniteSet(Sessions) /\ "http" \notin Sessions /\ MaxRequests \in Nat /\ MaxInFlight \in Nat
  /\ Poller \in Viewers
  BY BooksAssumption DEF D!DaemonAssumption, J!JobsAssumption, D!IsFiniteSet, IsFiniteSet

LEMMA CountsAgree == \A set : D!Cardinality(set) = Cardinality(set)
  BY DEF D!Cardinality, Cardinality
-----------------------------------------------------------------------------
(* Calls in flight.                                                        *)
LEMMA CallsFinite == IsFiniteSet(D!Calls) /\ Cardinality(D!Calls) \in Nat
  <1>1. IsFiniteSet(Sessions \X (1..MaxRequests))
    <2>1. IsFiniteSet(1..MaxRequests)
      BY Assumed, FS_Interval
    <2> QED
      BY <2>1, Assumed, FS_Product, Zenon
  <1>2. D!Calls \subseteq Sessions \X (1..MaxRequests)
    BY DEF D!Calls
  <1> QED
    BY <1>1, <1>2, FS_Subset, FS_CardinalityType

(* A session's next request is one call more, and its answer one less.     *)
LEMMA OneCallMore ==
  ASSUME real \in [Sessions -> 0..MaxRequests], NEW s \in Sessions, real[s] < MaxRequests,
         real' = [real EXCEPT ![s] = @ + 1]
  PROVE  Cardinality(D!Calls') = Cardinality(D!Calls) + 1
  <1>1. D!Calls' = D!Calls \cup {<<s, real[s] + 1>>}
    BY Assumed DEF D!Calls
  <1>2. <<s, real[s] + 1>> \notin D!Calls
    BY DEF D!Calls
  <1> QED
    BY <1>1, <1>2, CallsFinite, FS_AddElement

LEMMA OneCallLess ==
  ASSUME real \in [Sessions -> 0..MaxRequests], NEW s \in Sessions, real[s] > 0,
         real' = [real EXCEPT ![s] = @ - 1]
  PROVE  Cardinality(D!Calls') = Cardinality(D!Calls) - 1 /\ Cardinality(D!Calls) > 0
  <1>1. D!Calls' = D!Calls \ {<<s, real[s]>>}
    BY Assumed DEF D!Calls
  <1>2. <<s, real[s]>> \in D!Calls
    BY Assumed DEF D!Calls
  <1>3. Cardinality(D!Calls') = Cardinality(D!Calls) - 1
    BY <1>1, <1>2, CallsFinite, FS_RemoveElement
  <1>4. Cardinality(D!Calls) # 0
    BY <1>2, CallsFinite, FS_EmptySet
  <1> QED
    BY <1>3, <1>4, CallsFinite

LEMMA SessionEnds ==
  ASSUME real \in [Sessions -> 0..MaxRequests], NEW s \in Sessions,
         real' = [real EXCEPT ![s] = 0]
  PROVE  /\ Cardinality(D!Calls') <= Cardinality(D!Calls) /\ Cardinality(D!Calls') \in Nat
         /\ real[s] > 0 => Cardinality(D!Calls') < Cardinality(D!Calls)
  <1>1. D!Calls' \subseteq D!Calls
    BY Assumed DEF D!Calls
  <1>2. Cardinality(D!Calls') <= Cardinality(D!Calls) /\ Cardinality(D!Calls') \in Nat
    BY <1>1, CallsFinite, FS_Subset, FS_CardinalityType
  <1>3. ASSUME real[s] > 0
        PROVE  Cardinality(D!Calls') < Cardinality(D!Calls)
    <2>1. <<s, real[s]>> \in D!Calls /\ <<s, real[s]>> \notin D!Calls'
      BY <1>3, Assumed DEF D!Calls
    <2>2. D!Calls' # D!Calls
      BY <2>1
    <2>3. Cardinality(D!Calls') # Cardinality(D!Calls)
      BY <1>1, <2>2, CallsFinite, FS_Subset
    <2> QED
      BY <1>2, <2>3, CallsFinite
  <1> QED
    BY <1>2, <1>3
-----------------------------------------------------------------------------
(* The connections.                                                        *)
Flags == {newer, doubled, jobs, grant, http} \subseteq BOOLEAN
DaemonTypes ==
    /\ sess \in [Sessions -> {"none", "open", "hooks", "release", "done"}]
    /\ real \in [Sessions -> 0..MaxRequests] /\ counted \in [Sessions -> BOOLEAN]
    /\ earlier \subseteq Sessions \cup {"http"} /\ held \subseteq {"local", "http"}
    /\ check \in {"sleep", "jobs", "grant", "go"}

(* The check runs for a newer build only, which is installed once.         *)
CheckOK == /\ check # "sleep" => newer
           /\ newer => restarts = 0
           /\ restarts \in 0..1

(* An id that is counted has a call, so taking it off the count is right;  *)
(* as long as no id was used twice, each call is the one of its id.        *)
CountedRuns == \A s \in Sessions : counted[s] => real[s] > 0
OneEach == doubled \/ \A s \in Sessions : real[s] = IF counted[s] THEN 1 ELSE 0
Covered == inflight \in Nat /\ inflight >= Cardinality(D!Calls) /\ (inflight = Cardinality(D!Calls) \/ doubled)

DaemonInv ==
    /\ Flags /\ DaemonTypes /\ CheckOK /\ CountedRuns /\ OneEach /\ Covered
    /\ D!RestartSparesEarlierCalls

LEMMA FlagsStay ==
  ASSUME Flags, [D!Next]_dvars
  PROVE  Flags'
  <1>1. ASSUME NEW s \in Sessions, D!Connect(s)
        PROVE  Flags'
    BY <1>1 DEF D!Connect, D!sessvars, Flags
  <1>2. ASSUME NEW s \in Sessions, D!Request(s)
        PROVE  Flags'
    BY <1>2 DEF D!Request, D!sessvars, Flags
  <1>3. ASSUME NEW s \in Sessions, D!Answer(s)
        PROVE  Flags'
    BY <1>3 DEF D!Answer, D!sessvars, Flags
  <1>4. ASSUME NEW s \in Sessions, D!Works(s)
        PROVE  Flags'
    BY <1>4 DEF D!Works, D!Effect, D!sessvars, Flags
  <1>5. ASSUME NEW s \in Sessions, D!End(s)
        PROVE  Flags'
    BY <1>5 DEF D!End, D!sessvars, Flags
  <1>6. ASSUME NEW s \in Sessions, D!Ended(s)
        PROVE  Flags'
    BY <1>6 DEF D!Ended, D!sessvars, Flags
  <1>7. ASSUME NEW s \in Sessions, D!ReleaseAll(s)
        PROVE  Flags'
    BY <1>7 DEF D!ReleaseAll, D!sessvars, Flags
  <1>8. CASE D!Install
    BY <1>8 DEF D!Install, D!sessvars, Flags
  <1>9. CASE D!CheckCalls
    BY <1>9 DEF D!CheckCalls, D!sessvars, Flags
  <1>10. CASE D!CheckJobs
    BY <1>10 DEF D!CheckJobs, D!sessvars, Flags
  <1>11. CASE D!CheckGrant
    BY <1>11 DEF D!CheckGrant, D!sessvars, Flags
  <1>12. CASE D!Restart
    BY <1>12 DEF D!Restart, D!sessvars, Flags
  <1>13. CASE D!JobsEnd
    BY <1>13 DEF D!JobsEnd, D!sessvars, Flags
  <1>14. CASE D!GrantEnds
    BY <1>14 DEF D!GrantEnds, D!sessvars, Flags
  <1>15. CASE D!HttpCall
    BY <1>15 DEF D!HttpCall, D!sessvars, Flags
  <1>16. CASE D!HttpWorks
    BY <1>16 DEF D!HttpWorks, D!Effect, D!sessvars, Flags
  <1>17. CASE D!HttpAnswer
    BY <1>17 DEF D!HttpAnswer, D!sessvars, Flags
  <1>18. CASE UNCHANGED dvars
    BY <1>18 DEF dvars, D!sessvars, Flags
  <1> QED
    BY <1>1, <1>2, <1>3, <1>4, <1>5, <1>6, <1>7, <1>8, <1>9, <1>10, <1>11, <1>12, <1>13, <1>14, <1>15,
       <1>16, <1>17, <1>18, Zenon DEF D!Next, D!Session

LEMMA DaemonTypesStay ==
  ASSUME DaemonTypes, [D!Next]_dvars
  PROVE  DaemonTypes'
  <1>1. ASSUME NEW s \in Sessions, D!Connect(s)
        PROVE  DaemonTypes'
    BY <1>1 DEF D!Connect, D!sessvars, DaemonTypes
  <1>2. ASSUME NEW s \in Sessions, D!Request(s)
        PROVE  DaemonTypes'
    <2>1. real' \in [Sessions -> 0..MaxRequests]
      BY <1>2, Assumed DEF D!Request, DaemonTypes
    <2>2. counted' \in [Sessions -> BOOLEAN]
      <3>1. counted' = [counted EXCEPT ![s] = TRUE]
        BY <1>2, Zenon DEF D!Request
      <3> QED
        BY <3>1 DEF DaemonTypes
    <2>3. /\ sess' \in [Sessions -> {"none", "open", "hooks", "release", "done"}]
          /\ earlier' \subseteq Sessions \cup {"http"} /\ held' \subseteq {"local", "http"}
          /\ check' \in {"sleep", "jobs", "grant", "go"}
      BY <1>2 DEF D!Request, DaemonTypes
    <2> QED
      BY <2>1, <2>2, <2>3, Zenon DEF DaemonTypes
  <1>3. ASSUME NEW s \in Sessions, D!Answer(s)
        PROVE  DaemonTypes'
    <2>1. real' \in [Sessions -> 0..MaxRequests]
      BY <1>3, Assumed DEF D!Answer, DaemonTypes
    <2>2. counted' \in [Sessions -> BOOLEAN]
      <3>1. counted' = [counted EXCEPT ![s] = FALSE]
        BY <1>3, Zenon DEF D!Answer
      <3> QED
        BY <3>1 DEF DaemonTypes
    <2>3. /\ sess' \in [Sessions -> {"none", "open", "hooks", "release", "done"}]
          /\ earlier' \subseteq Sessions \cup {"http"} /\ held' \subseteq {"local", "http"}
          /\ check' \in {"sleep", "jobs", "grant", "go"}
      BY <1>3 DEF D!Answer, DaemonTypes
    <2> QED
      BY <2>1, <2>2, <2>3, Zenon DEF DaemonTypes
  <1>4. ASSUME NEW s \in Sessions, D!Works(s)
        PROVE  DaemonTypes'
    BY <1>4 DEF D!Works, D!Effect, D!sessvars, DaemonTypes
  <1>5. ASSUME NEW s \in Sessions, D!End(s)
        PROVE  DaemonTypes'
    <2>1. real' \in [Sessions -> 0..MaxRequests]
      BY <1>5, Assumed DEF D!End, DaemonTypes
    <2>2. counted' \in [Sessions -> BOOLEAN]
      <3>1. counted' = [counted EXCEPT ![s] = FALSE]
        BY <1>5, Zenon DEF D!End
      <3> QED
        BY <3>1 DEF DaemonTypes
    <2>3. /\ sess' \in [Sessions -> {"none", "open", "hooks", "release", "done"}]
          /\ earlier' \subseteq Sessions \cup {"http"} /\ held' \subseteq {"local", "http"}
          /\ check' \in {"sleep", "jobs", "grant", "go"}
      BY <1>5 DEF D!End, DaemonTypes
    <2> QED
      BY <2>1, <2>2, <2>3, Zenon DEF DaemonTypes
  <1>6. ASSUME NEW s \in Sessions, D!Ended(s)
        PROVE  DaemonTypes'
    BY <1>6 DEF D!Ended, D!sessvars, DaemonTypes
  <1>7. ASSUME NEW s \in Sessions, D!ReleaseAll(s)
        PROVE  DaemonTypes'
    BY <1>7 DEF D!ReleaseAll, D!sessvars, DaemonTypes
  <1>8. CASE D!Install
    BY <1>8 DEF D!Install, D!sessvars, DaemonTypes
  <1>9. CASE D!CheckCalls
    BY <1>9 DEF D!CheckCalls, D!sessvars, DaemonTypes
  <1>10. CASE D!CheckJobs
    BY <1>10 DEF D!CheckJobs, D!sessvars, DaemonTypes
  <1>11. CASE D!CheckGrant
    BY <1>11 DEF D!CheckGrant, D!sessvars, DaemonTypes
  <1>12. CASE D!Restart
    <2>1. real' \in [Sessions -> 0..MaxRequests]
      BY <1>12, Assumed DEF D!Restart, DaemonTypes
    <2>2. counted' \in [Sessions -> BOOLEAN]
      <3>1. counted' = [s \in Sessions |-> FALSE]
        BY <1>12, Zenon DEF D!Restart
      <3> QED
        BY <3>1 DEF DaemonTypes
    <2>3. /\ sess' \in [Sessions -> {"none", "open", "hooks", "release", "done"}]
          /\ earlier' \subseteq Sessions \cup {"http"} /\ held' \subseteq {"local", "http"}
          /\ check' \in {"sleep", "jobs", "grant", "go"}
      BY <1>12 DEF D!Restart, DaemonTypes
    <2> QED
      BY <2>1, <2>2, <2>3, Zenon DEF DaemonTypes
  <1>13. CASE D!JobsEnd
    BY <1>13 DEF D!JobsEnd, D!sessvars, DaemonTypes
  <1>14. CASE D!GrantEnds
    BY <1>14 DEF D!GrantEnds, D!sessvars, DaemonTypes
  <1>15. CASE D!HttpCall
    BY <1>15 DEF D!HttpCall, D!sessvars, DaemonTypes
  <1>16. CASE D!HttpWorks
    BY <1>16 DEF D!HttpWorks, D!Effect, D!sessvars, DaemonTypes
  <1>17. CASE D!HttpAnswer
    BY <1>17 DEF D!HttpAnswer, D!sessvars, DaemonTypes
  <1>18. CASE UNCHANGED dvars
    BY <1>18 DEF dvars, D!sessvars, DaemonTypes
  <1> QED
    BY <1>1, <1>2, <1>3, <1>4, <1>5, <1>6, <1>7, <1>8, <1>9, <1>10, <1>11, <1>12, <1>13, <1>14, <1>15,
       <1>16, <1>17, <1>18, Zenon DEF D!Next, D!Session

LEMMA CheckStays ==
  ASSUME Flags, DaemonTypes, CheckOK, [D!Next]_dvars
  PROVE  CheckOK'
  <1>1. ASSUME NEW s \in Sessions, D!Connect(s)
        PROVE  CheckOK'
    BY <1>1 DEF D!Connect, D!sessvars, CheckOK, DaemonTypes
  <1>2. ASSUME NEW s \in Sessions, D!Request(s)
        PROVE  CheckOK'
    BY <1>2 DEF D!Request, D!sessvars, CheckOK, DaemonTypes
  <1>3. ASSUME NEW s \in Sessions, D!Answer(s)
        PROVE  CheckOK'
    BY <1>3 DEF D!Answer, D!sessvars, CheckOK, DaemonTypes
  <1>4. ASSUME NEW s \in Sessions, D!Works(s)
        PROVE  CheckOK'
    BY <1>4 DEF D!Works, D!Effect, D!sessvars, CheckOK, DaemonTypes
  <1>5. ASSUME NEW s \in Sessions, D!End(s)
        PROVE  CheckOK'
    BY <1>5 DEF D!End, D!sessvars, CheckOK, DaemonTypes
  <1>6. ASSUME NEW s \in Sessions, D!Ended(s)
        PROVE  CheckOK'
    BY <1>6 DEF D!Ended, D!sessvars, CheckOK, DaemonTypes
  <1>7. ASSUME NEW s \in Sessions, D!ReleaseAll(s)
        PROVE  CheckOK'
    BY <1>7 DEF D!ReleaseAll, D!sessvars, CheckOK, DaemonTypes
  <1>8. CASE D!Install
    BY <1>8 DEF D!Install, D!sessvars, CheckOK, DaemonTypes
  <1>9. CASE D!CheckCalls
    BY <1>9 DEF D!CheckCalls, D!sessvars, CheckOK, DaemonTypes
  <1>10. CASE D!CheckJobs
    BY <1>10 DEF D!CheckJobs, D!sessvars, CheckOK, DaemonTypes
  <1>11. CASE D!CheckGrant
    BY <1>11 DEF D!CheckGrant, D!sessvars, CheckOK, DaemonTypes
  <1>12. CASE D!Restart
    BY <1>12 DEF D!Restart, D!sessvars, CheckOK, DaemonTypes
  <1>13. CASE D!JobsEnd
    BY <1>13 DEF D!JobsEnd, D!sessvars, CheckOK, DaemonTypes
  <1>14. CASE D!GrantEnds
    BY <1>14 DEF D!GrantEnds, D!sessvars, CheckOK, DaemonTypes
  <1>15. CASE D!HttpCall
    BY <1>15 DEF D!HttpCall, D!sessvars, CheckOK, DaemonTypes
  <1>16. CASE D!HttpWorks
    BY <1>16 DEF D!HttpWorks, D!Effect, D!sessvars, CheckOK, DaemonTypes
  <1>17. CASE D!HttpAnswer
    BY <1>17 DEF D!HttpAnswer, D!sessvars, CheckOK, DaemonTypes
  <1>18. CASE UNCHANGED dvars
    BY <1>18 DEF dvars, D!sessvars, CheckOK, DaemonTypes
  <1> QED
    BY <1>1, <1>2, <1>3, <1>4, <1>5, <1>6, <1>7, <1>8, <1>9, <1>10, <1>11, <1>12, <1>13, <1>14, <1>15,
       <1>16, <1>17, <1>18, Zenon DEF D!Next, D!Session

LEMMA CountedStays ==
  ASSUME DaemonTypes, CountedRuns, [D!Next]_dvars
  PROVE  CountedRuns'
  <1>1. ASSUME NEW s \in Sessions, D!Connect(s)
        PROVE  CountedRuns'
    BY <1>1 DEF D!Connect, D!sessvars, CountedRuns, DaemonTypes
  <1>2. ASSUME NEW s \in Sessions, D!Request(s)
        PROVE  CountedRuns'
    BY <1>2 DEF D!Request, D!sessvars, CountedRuns, DaemonTypes
  <1>3. ASSUME NEW s \in Sessions, D!Answer(s)
        PROVE  CountedRuns'
    BY <1>3 DEF D!Answer, D!sessvars, CountedRuns, DaemonTypes
  <1>4. ASSUME NEW s \in Sessions, D!Works(s)
        PROVE  CountedRuns'
    BY <1>4 DEF D!Works, D!Effect, D!sessvars, CountedRuns, DaemonTypes
  <1>5. ASSUME NEW s \in Sessions, D!End(s)
        PROVE  CountedRuns'
    BY <1>5 DEF D!End, D!sessvars, CountedRuns, DaemonTypes
  <1>6. ASSUME NEW s \in Sessions, D!Ended(s)
        PROVE  CountedRuns'
    BY <1>6 DEF D!Ended, D!sessvars, CountedRuns, DaemonTypes
  <1>7. ASSUME NEW s \in Sessions, D!ReleaseAll(s)
        PROVE  CountedRuns'
    BY <1>7 DEF D!ReleaseAll, D!sessvars, CountedRuns, DaemonTypes
  <1>8. CASE D!Install
    BY <1>8 DEF D!Install, D!sessvars, CountedRuns, DaemonTypes
  <1>9. CASE D!CheckCalls
    BY <1>9 DEF D!CheckCalls, D!sessvars, CountedRuns, DaemonTypes
  <1>10. CASE D!CheckJobs
    BY <1>10 DEF D!CheckJobs, D!sessvars, CountedRuns, DaemonTypes
  <1>11. CASE D!CheckGrant
    BY <1>11 DEF D!CheckGrant, D!sessvars, CountedRuns, DaemonTypes
  <1>12. CASE D!Restart
    BY <1>12 DEF D!Restart, D!sessvars, CountedRuns, DaemonTypes
  <1>13. CASE D!JobsEnd
    BY <1>13 DEF D!JobsEnd, D!sessvars, CountedRuns, DaemonTypes
  <1>14. CASE D!GrantEnds
    BY <1>14 DEF D!GrantEnds, D!sessvars, CountedRuns, DaemonTypes
  <1>15. CASE D!HttpCall
    BY <1>15 DEF D!HttpCall, D!sessvars, CountedRuns, DaemonTypes
  <1>16. CASE D!HttpWorks
    BY <1>16 DEF D!HttpWorks, D!Effect, D!sessvars, CountedRuns, DaemonTypes
  <1>17. CASE D!HttpAnswer
    BY <1>17 DEF D!HttpAnswer, D!sessvars, CountedRuns, DaemonTypes
  <1>18. CASE UNCHANGED dvars
    BY <1>18 DEF dvars, D!sessvars, CountedRuns, DaemonTypes
  <1> QED
    BY <1>1, <1>2, <1>3, <1>4, <1>5, <1>6, <1>7, <1>8, <1>9, <1>10, <1>11, <1>12, <1>13, <1>14, <1>15,
       <1>16, <1>17, <1>18, Zenon DEF D!Next, D!Session

LEMMA OneEachStays ==
  ASSUME DaemonTypes, OneEach, [D!Next]_dvars
  PROVE  OneEach'
  <1>1. ASSUME NEW s \in Sessions, D!Connect(s)
        PROVE  OneEach'
    BY <1>1 DEF D!Connect, D!sessvars, OneEach, DaemonTypes
  <1>2. ASSUME NEW s \in Sessions, D!Request(s)
        PROVE  OneEach'
    <2>1. CASE doubled
      BY <1>2, <2>1, Zenon DEF D!Request, OneEach
    <2>2. CASE ~doubled /\ real[s] > 0
      BY <1>2, <2>2, Zenon DEF D!Request, OneEach
    <2>3. CASE ~doubled /\ ~(real[s] > 0)
      <3>1. real[s] = 0 /\ real' = [real EXCEPT ![s] = 1] /\ counted' = [counted EXCEPT ![s] = TRUE]
        <4>1. real[s] \in Nat
          BY Assumed DEF DaemonTypes
        <4>2. real[s] = 0
          BY <2>3, <4>1
        <4>3. real' = [real EXCEPT ![s] = real[s] + 1] /\ counted' = [counted EXCEPT ![s] = TRUE]
          BY <1>2, Zenon DEF D!Request
        <4> QED
          BY <4>2, <4>3
      <3>2. \A t \in Sessions : real[t] = IF counted[t] THEN 1 ELSE 0
        BY <2>3, Zenon DEF OneEach
      <3>3. \A t \in Sessions : real'[t] = IF counted'[t] THEN 1 ELSE 0
        BY <3>1, <3>2 DEF DaemonTypes
      <3> QED
        BY <3>3, Zenon DEF OneEach
    <2> QED
      BY <2>1, <2>2, <2>3, Zenon
  <1>3. ASSUME NEW s \in Sessions, D!Answer(s)
        PROVE  OneEach'
    BY <1>3 DEF D!Answer, D!sessvars, OneEach, DaemonTypes
  <1>4. ASSUME NEW s \in Sessions, D!Works(s)
        PROVE  OneEach'
    BY <1>4 DEF D!Works, D!Effect, D!sessvars, OneEach, DaemonTypes
  <1>5. ASSUME NEW s \in Sessions, D!End(s)
        PROVE  OneEach'
    BY <1>5 DEF D!End, D!sessvars, OneEach, DaemonTypes
  <1>6. ASSUME NEW s \in Sessions, D!Ended(s)
        PROVE  OneEach'
    BY <1>6 DEF D!Ended, D!sessvars, OneEach, DaemonTypes
  <1>7. ASSUME NEW s \in Sessions, D!ReleaseAll(s)
        PROVE  OneEach'
    BY <1>7 DEF D!ReleaseAll, D!sessvars, OneEach, DaemonTypes
  <1>8. CASE D!Install
    BY <1>8 DEF D!Install, D!sessvars, OneEach, DaemonTypes
  <1>9. CASE D!CheckCalls
    BY <1>9 DEF D!CheckCalls, D!sessvars, OneEach, DaemonTypes
  <1>10. CASE D!CheckJobs
    BY <1>10 DEF D!CheckJobs, D!sessvars, OneEach, DaemonTypes
  <1>11. CASE D!CheckGrant
    BY <1>11 DEF D!CheckGrant, D!sessvars, OneEach, DaemonTypes
  <1>12. CASE D!Restart
    BY <1>12 DEF D!Restart, D!sessvars, OneEach, DaemonTypes
  <1>13. CASE D!JobsEnd
    BY <1>13 DEF D!JobsEnd, D!sessvars, OneEach, DaemonTypes
  <1>14. CASE D!GrantEnds
    BY <1>14 DEF D!GrantEnds, D!sessvars, OneEach, DaemonTypes
  <1>15. CASE D!HttpCall
    BY <1>15 DEF D!HttpCall, D!sessvars, OneEach, DaemonTypes
  <1>16. CASE D!HttpWorks
    BY <1>16 DEF D!HttpWorks, D!Effect, D!sessvars, OneEach, DaemonTypes
  <1>17. CASE D!HttpAnswer
    BY <1>17 DEF D!HttpAnswer, D!sessvars, OneEach, DaemonTypes
  <1>18. CASE UNCHANGED dvars
    BY <1>18 DEF dvars, D!sessvars, OneEach, DaemonTypes
  <1> QED
    BY <1>1, <1>2, <1>3, <1>4, <1>5, <1>6, <1>7, <1>8, <1>9, <1>10, <1>11, <1>12, <1>13, <1>14, <1>15,
       <1>16, <1>17, <1>18, Zenon DEF D!Next, D!Session

LEMMA CoverStays ==
  ASSUME DaemonTypes, CountedRuns, OneEach, Covered, [D!Next]_dvars
  PROVE  Covered'
  <1>1. ASSUME NEW s \in Sessions, D!Connect(s)
        PROVE  Covered'
    BY <1>1 DEF D!Connect, D!sessvars, Covered, D!Calls
  <1>2. ASSUME NEW s \in Sessions, D!Request(s)
        PROVE  Covered'
    <2>1. inflight' = inflight + 1 /\ real[s] < MaxRequests /\ real' = [real EXCEPT ![s] = @ + 1]
      BY <1>2 DEF D!Request
    <2>2. Cardinality(D!Calls') = Cardinality(D!Calls) + 1
      BY <2>1, OneCallMore DEF DaemonTypes
    <2>3. doubled => doubled'
      BY <1>2, Zenon DEF D!Request
    <2> QED
      BY <2>1, <2>2, <2>3, CallsFinite DEF Covered
  <1>3. ASSUME NEW s \in Sessions, D!Answer(s)
        PROVE  Covered'
    <2>1. real[s] > 0 /\ real' = [real EXCEPT ![s] = @ - 1] /\ inflight' \in {inflight, inflight - 1}
      BY <1>3 DEF D!Answer
    <2>2. Cardinality(D!Calls') = Cardinality(D!Calls) - 1 /\ Cardinality(D!Calls) > 0
      BY <2>1, OneCallLess DEF DaemonTypes
    <2>3. doubled' = doubled
      BY <1>3 DEF D!Answer
    <2>4. inflight' = inflight - 1 \/ doubled
      <3>1. inflight' = IF counted[s] THEN inflight - 1 ELSE inflight
        BY <1>3, Zenon DEF D!Answer
      <3>2. counted[s] \/ doubled
        BY <2>1 DEF OneEach, DaemonTypes
      <3> QED
        BY <3>1, <3>2, Zenon
    <2> QED
      BY <2>1, <2>2, <2>3, <2>4, CallsFinite DEF Covered
  <1>4. ASSUME NEW s \in Sessions, D!Works(s)
        PROVE  Covered'
    BY <1>4 DEF D!Works, D!Effect, D!sessvars, Covered, D!Calls
  <1>5. ASSUME NEW s \in Sessions, D!End(s)
        PROVE  Covered'
    <2>1. real' = [real EXCEPT ![s] = 0]
      BY <1>5 DEF D!End
    <2>2. inflight' = inflight \/ (inflight' = inflight - 1 /\ real[s] > 0)
      BY <1>5, Zenon DEF D!End, CountedRuns
    <2>3. /\ Cardinality(D!Calls') <= Cardinality(D!Calls) /\ Cardinality(D!Calls') \in Nat
          /\ real[s] > 0 => Cardinality(D!Calls') < Cardinality(D!Calls)
      BY <2>1, SessionEnds DEF DaemonTypes
    <2>4. doubled' = doubled
      BY <1>5 DEF D!End
    <2>5. doubled \/ inflight' - Cardinality(D!Calls') = inflight - Cardinality(D!Calls)
      <3>1. inflight' = IF counted[s] THEN inflight - 1 ELSE inflight
        BY <1>5, Zenon DEF D!End
      <3>2. CASE counted[s] /\ ~doubled
        <4>1. real[s] = 1
          BY <3>2, Zenon DEF OneEach
        <4>2. Cardinality(D!Calls') = Cardinality(D!Calls) - 1
          <5>1. real' = [real EXCEPT ![s] = @ - 1]
            BY <2>1, <4>1 DEF DaemonTypes
          <5>2. real[s] > 0 /\ real \in [Sessions -> 0..MaxRequests]
            BY <4>1 DEF DaemonTypes
          <5> QED
            BY <5>1, <5>2, OneCallLess
        <4> QED
          BY <3>1, <3>2, <4>2, CallsFinite DEF Covered
      <3>3. CASE ~counted[s] /\ ~doubled
        <4>1. real[s] = 0
          BY <3>3, Zenon DEF OneEach
        <4>2. real' = real
          BY <2>1, <4>1 DEF DaemonTypes
        <4>3. D!Calls' = D!Calls
          BY <4>2 DEF D!Calls
        <4> QED
          BY <3>1, <3>3, <4>3
      <3> QED
        BY <3>2, <3>3, Zenon
    <2> QED
      BY <2>2, <2>3, <2>4, <2>5, CallsFinite DEF Covered
  <1>6. ASSUME NEW s \in Sessions, D!Ended(s)
        PROVE  Covered'
    BY <1>6 DEF D!Ended, D!sessvars, Covered, D!Calls
  <1>7. ASSUME NEW s \in Sessions, D!ReleaseAll(s)
        PROVE  Covered'
    BY <1>7 DEF D!ReleaseAll, D!sessvars, Covered, D!Calls
  <1>8. CASE D!Install
    BY <1>8 DEF D!Install, D!sessvars, Covered, D!Calls
  <1>9. CASE D!CheckCalls
    BY <1>9 DEF D!CheckCalls, D!sessvars, Covered, D!Calls
  <1>10. CASE D!CheckJobs
    BY <1>10 DEF D!CheckJobs, D!sessvars, Covered, D!Calls
  <1>11. CASE D!CheckGrant
    BY <1>11 DEF D!CheckGrant, D!sessvars, Covered, D!Calls
  <1>12. CASE D!Restart
    <2>1. inflight' = 0 /\ real' = [s \in Sessions |-> 0]
      BY <1>12, Zenon DEF D!Restart
    <2>2. D!Calls' = {}
      BY <2>1 DEF D!Calls
    <2> QED
      BY <2>1, <2>2, FS_EmptySet DEF Covered
  <1>13. CASE D!JobsEnd
    BY <1>13 DEF D!JobsEnd, D!sessvars, Covered, D!Calls
  <1>14. CASE D!GrantEnds
    BY <1>14 DEF D!GrantEnds, D!sessvars, Covered, D!Calls
  <1>15. CASE D!HttpCall
    BY <1>15 DEF D!HttpCall, D!sessvars, Covered, D!Calls
  <1>16. CASE D!HttpWorks
    BY <1>16 DEF D!HttpWorks, D!Effect, D!sessvars, Covered, D!Calls
  <1>17. CASE D!HttpAnswer
    BY <1>17 DEF D!HttpAnswer, D!sessvars, Covered, D!Calls
  <1>18. CASE UNCHANGED dvars
    BY <1>18 DEF dvars, D!sessvars, Covered, D!Calls
  <1> QED
    BY <1>1, <1>2, <1>3, <1>4, <1>5, <1>6, <1>7, <1>8, <1>9, <1>10, <1>11, <1>12, <1>13, <1>14, <1>15,
       <1>16, <1>17, <1>18, Zenon DEF D!Next, D!Session

LEMMA SparedStays ==
  ASSUME DaemonTypes, Covered, D!RestartSparesEarlierCalls, [D!Next]_dvars
  PROVE  D!RestartSparesEarlierCalls'
  <1>1. ASSUME NEW s \in Sessions, D!Connect(s)
        PROVE  D!RestartSparesEarlierCalls'
    BY <1>1 DEF D!Connect, D!sessvars, D!RestartSparesEarlierCalls
  <1>2. ASSUME NEW s \in Sessions, D!Request(s)
        PROVE  D!RestartSparesEarlierCalls'
    BY <1>2 DEF D!Request, D!sessvars, D!RestartSparesEarlierCalls
  <1>3. ASSUME NEW s \in Sessions, D!Answer(s)
        PROVE  D!RestartSparesEarlierCalls'
    BY <1>3 DEF D!Answer, D!sessvars, D!RestartSparesEarlierCalls
  <1>4. ASSUME NEW s \in Sessions, D!Works(s)
        PROVE  D!RestartSparesEarlierCalls'
    BY <1>4 DEF D!Works, D!Effect, D!sessvars, D!RestartSparesEarlierCalls
  <1>5. ASSUME NEW s \in Sessions, D!End(s)
        PROVE  D!RestartSparesEarlierCalls'
    BY <1>5 DEF D!End, D!sessvars, D!RestartSparesEarlierCalls
  <1>6. ASSUME NEW s \in Sessions, D!Ended(s)
        PROVE  D!RestartSparesEarlierCalls'
    BY <1>6 DEF D!Ended, D!sessvars, D!RestartSparesEarlierCalls
  <1>7. ASSUME NEW s \in Sessions, D!ReleaseAll(s)
        PROVE  D!RestartSparesEarlierCalls'
    BY <1>7 DEF D!ReleaseAll, D!sessvars, D!RestartSparesEarlierCalls
  <1>8. CASE D!Install
    BY <1>8 DEF D!Install, D!sessvars, D!RestartSparesEarlierCalls
  <1>9. CASE D!CheckCalls
    <2> SUFFICES ASSUME check' # "sleep"
                 PROVE  earlier' \subseteq {"http"}
      BY Zenon DEF D!RestartSparesEarlierCalls
    <2>1. ~(inflight > 0)
      BY <1>9, Zenon DEF D!CheckCalls
    <2>2. Cardinality(D!Calls) = 0
      BY <2>1, CallsFinite DEF Covered
    <2>3. D!Calls = {}
      BY <2>2, CallsFinite, FS_EmptySet
    <2>4. \A s \in Sessions : ~(real[s] > 0)
      <3> SUFFICES ASSUME NEW s \in Sessions, real[s] > 0
                   PROVE  FALSE
        BY Zenon
      <3>1. <<s, 1>> \in D!Calls
        BY Assumed DEF D!Calls, DaemonTypes
      <3> QED
        BY <2>3, <3>1
    <2>5. earlier' \subseteq {s \in Sessions : real[s] > 0} \cup {"http"}
      BY <1>9, Zenon DEF D!CheckCalls
    <2> QED
      BY <2>4, <2>5
  <1>10. CASE D!CheckJobs
    BY <1>10 DEF D!CheckJobs, D!sessvars, D!RestartSparesEarlierCalls
  <1>11. CASE D!CheckGrant
    BY <1>11 DEF D!CheckGrant, D!sessvars, D!RestartSparesEarlierCalls
  <1>12. CASE D!Restart
    BY <1>12 DEF D!Restart, D!sessvars, D!RestartSparesEarlierCalls
  <1>13. CASE D!JobsEnd
    BY <1>13 DEF D!JobsEnd, D!sessvars, D!RestartSparesEarlierCalls
  <1>14. CASE D!GrantEnds
    BY <1>14 DEF D!GrantEnds, D!sessvars, D!RestartSparesEarlierCalls
  <1>15. CASE D!HttpCall
    BY <1>15 DEF D!HttpCall, D!sessvars, D!RestartSparesEarlierCalls
  <1>16. CASE D!HttpWorks
    BY <1>16 DEF D!HttpWorks, D!Effect, D!sessvars, D!RestartSparesEarlierCalls
  <1>17. CASE D!HttpAnswer
    BY <1>17 DEF D!HttpAnswer, D!sessvars, D!RestartSparesEarlierCalls
  <1>18. CASE UNCHANGED dvars
    BY <1>18 DEF dvars, D!sessvars, D!RestartSparesEarlierCalls
  <1> QED
    BY <1>1, <1>2, <1>3, <1>4, <1>5, <1>6, <1>7, <1>8, <1>9, <1>10, <1>11, <1>12, <1>13, <1>14, <1>15,
       <1>16, <1>17, <1>18, Zenon DEF D!Next, D!Session

LEMMA DaemonStarts == D!Init => DaemonInv
  <1> SUFFICES ASSUME D!Init
               PROVE  DaemonInv
    OBVIOUS
  <1>1. Flags
    BY DEF D!Init, Flags
  <1>2. DaemonTypes /\ CheckOK /\ CountedRuns /\ OneEach
    BY Assumed DEF D!Init, DaemonTypes, CheckOK, CountedRuns, OneEach
  <1>3. Covered
    <2>1. D!Calls = {}
      BY DEF D!Init, D!Calls
    <2> QED
      BY <2>1, FS_EmptySet DEF D!Init, Covered
  <1>4. D!RestartSparesEarlierCalls
    BY DEF D!Init, D!RestartSparesEarlierCalls
  <1> QED
    BY <1>1, <1>2, <1>3, <1>4, Zenon DEF DaemonInv

LEMMA DaemonSteps ==
  ASSUME DaemonInv, [D!Next]_dvars
  PROVE  DaemonInv'
  BY FlagsStay, DaemonTypesStay, CheckStays, CountedStays, OneEachStays, CoverStays, SparedStays, Zenon DEF
     DaemonInv

LEMMA DaemonTells == DaemonInv => D!DaemonAccounted /\ D!RestartSparesEarlierCalls
  <1> SUFFICES ASSUME DaemonInv
               PROVE  D!DaemonAccounted /\ D!RestartSparesEarlierCalls
    OBVIOUS
  <1>1. D!TypeOK
    BY DEF DaemonInv, Flags, DaemonTypes, CheckOK, Covered, D!TypeOK
  <1>2. D!CountCoversCalls
    BY CountsAgree DEF DaemonInv, Covered, D!CountCoversCalls, D!Outstanding
  <1> QED
    BY <1>1, <1>2, Zenon DEF DaemonInv, D!DaemonAccounted
-----------------------------------------------------------------------------
(* The record of a job.                                                    *)
JobTypes ==
    /\ starter \in {"idle", "popen", "record", "write", "returned", "failed", "lost"}
    /\ wrapper \in {"none", "cmd", "open", "wrote", "zombie", "gone", "other"}
    /\ cmd \in {"none", "run", "done"} /\ code \in {"0", "3"}
    /\ exitf \in {"none", "empty", "0", "3", "130"} /\ meta \in {"none", "torn", "run", "done"}
JobFlags == {parent, late, over} \subseteq BOOLEAN
ViewFlags == {since, stamped} \subseteq [Viewers -> BOOLEAN]
ViewTypes ==
    /\ pc \in [Viewers -> {"idle", "exit", "read", "finish", "alive", "cancel", "term", "wait",
                           "code", "open130", "write130"}]
    /\ mode \in [Viewers -> {"look", "cancel"}]
    /\ report \in [Viewers -> {"finished", "failed", "timeout", "vanished", "stopped",
                               "none", "unreadable", "running", "not running"}]

(* Before its wrapper runs nothing is known of a job; once start() returned *)
(* it has a record, and when start() failed it has no wrapper.             *)
StartOK ==
    /\ starter \in {"idle", "popen"} => wrapper = "none"
    /\ starter \in {"record", "write", "returned"} => wrapper # "none"
    /\ starter = "failed" => wrapper \notin {"cmd", "open", "wrote"}
    /\ starter = "returned" /\ wrapper = "cmd" => meta = "run"
    /\ wrapper \in {"open", "wrote"} => cmd = "done"
    /\ wrapper = "none" => meta = "none" /\ \A v \in Viewers : pc[v] = "idle"

(* An exit file comes after the command: the wrapper, or whoever killed it, *)
(* wrote it.                                                               *)
ExitOK ==
    /\ exitf # "none" => wrapper \notin {"none", "cmd"}
    /\ \A v \in Viewers :
          /\ pc[v] \in {"read", "finish", "write130"} => exitf # "none"
          /\ pc[v] \in {"code", "open130", "write130"} => wrapper \notin {"none", "cmd"}

(* Who reported the end has seen what all see from then on: the exit file, *)
(* or that the wrapper is gone; its pid may be given away then.            *)
SeenOK == over => wrapper \notin {"none", "cmd"} /\ (exitf # "none" \/ wrapper \in {"gone", "other"})
SinceOK ==
    \A v \in Viewers :
        /\ since[v] => over
        /\ since[v] /\ pc[v] = "alive" => wrapper \in {"gone", "other"}
        /\ report[v] = "running" => pc[v] = "idle" /\ (~since[v] \/ wrapper = "other")

JobsInv ==
    /\ JobTypes /\ JobFlags /\ ViewFlags /\ ViewTypes
    /\ StartOK /\ ExitOK /\ SeenOK /\ SinceOK

LEMMA JobTypesStay ==
  ASSUME JobTypes, [J!Next]_jvars
  PROVE  JobTypes'
  <1>1. CASE J!Probe
    BY <1>1 DEF J!Probe, J!jobvars, J!filevars, J!viewvars, JobTypes, J!Codes
  <1>2. CASE J!Popen
    BY <1>2 DEF J!Popen, J!jobvars, J!filevars, J!viewvars, JobTypes, J!Codes
  <1>3. CASE J!OpenRecord
    BY <1>3 DEF J!OpenRecord, J!jobvars, J!filevars, J!viewvars, JobTypes, J!Codes
  <1>4. CASE J!WriteRecord
    BY <1>4 DEF J!WriteRecord, J!jobvars, J!filevars, J!viewvars, JobTypes, J!Codes
  <1>5. CASE J!RecordFails
    BY <1>5 DEF J!RecordFails, J!Terminate, J!Working, J!Dead, J!jobvars, J!filevars, J!viewvars,
       JobTypes, J!Codes
  <1>6. CASE J!CommandEnds
    BY <1>6 DEF J!CommandEnds, J!jobvars, J!filevars, J!viewvars, JobTypes, J!Codes
  <1>7. CASE J!OpenExit
    BY <1>7 DEF J!OpenExit, J!jobvars, J!filevars, J!viewvars, JobTypes, J!Codes
  <1>8. CASE J!WriteExit
    BY <1>8 DEF J!WriteExit, J!jobvars, J!filevars, J!viewvars, JobTypes, J!Codes
  <1>9. CASE J!WrapperExits
    BY <1>9 DEF J!WrapperExits, J!Working, J!Dead, J!jobvars, J!filevars, J!viewvars, JobTypes,
       J!Codes
  <1>10. CASE J!Reap
    BY <1>10 DEF J!Reap, J!jobvars, J!filevars, J!viewvars, JobTypes, J!Codes
  <1>11. CASE J!DeadlinePasses
    BY <1>11 DEF J!DeadlinePasses, J!jobvars, J!filevars, J!viewvars, JobTypes, J!Codes
  <1>12. CASE J!Restart
    BY <1>12 DEF J!Restart, J!jobvars, J!filevars, J!viewvars, JobTypes, J!Codes
  <1>13. ASSUME NEW v \in Viewers, NEW m \in {"look", "cancel"}, J!Begin(v, m)
         PROVE  JobTypes'
    BY <1>13 DEF J!Begin, J!Goto, J!jobvars, J!filevars, J!viewvars, JobTypes, J!Codes
  <1>14. ASSUME NEW v \in Viewers, J!SeeExit(v)
         PROVE  JobTypes'
    BY <1>14 DEF J!SeeExit, J!Goto, J!jobvars, J!filevars, J!viewvars, JobTypes, J!Codes
  <1>15. ASSUME NEW v \in Viewers, J!ReadExit(v)
         PROVE  JobTypes'
    BY <1>15 DEF J!ReadExit, J!Report, J!Goto, J!jobvars, J!filevars, J!viewvars, JobTypes, J!Codes
  <1>16. ASSUME NEW v \in Viewers, J!WriteFinished(v)
         PROVE  JobTypes'
    BY <1>16 DEF J!WriteFinished, J!Report, J!Goto, J!jobvars, J!filevars, J!viewvars, JobTypes,
       J!Codes
  <1>17. ASSUME NEW v \in Viewers, J!SeeAlive(v)
         PROVE  JobTypes'
    BY <1>17 DEF J!SeeAlive, J!PidAlive, J!Report, J!Goto, J!jobvars, J!filevars, J!viewvars,
       JobTypes, J!Codes
  <1>18. ASSUME NEW v \in Viewers, J!CancelFinds(v)
         PROVE  JobTypes'
    <2>1. UNCHANGED <<starter, wrapper, cmd, code, exitf, meta>>
      BY <1>18, Zenon DEF J!CancelFinds, J!jobvars, J!filevars
    <2> QED
      BY <2>1 DEF JobTypes
  <1>19. ASSUME NEW v \in Viewers, J!Signal(v)
         PROVE  JobTypes'
    BY <1>19 DEF J!Signal, J!Terminate, J!Working, J!Dead, J!Goto, J!jobvars, J!filevars,
       J!viewvars, JobTypes, J!Codes
  <1>20. ASSUME NEW v \in Viewers, J!Kill(v)
         PROVE  JobTypes'
    BY <1>20 DEF J!Kill, J!PidAlive, J!Working, J!Dead, J!Goto, J!jobvars, J!filevars, J!viewvars,
       JobTypes, J!Codes
  <1>21. ASSUME NEW v \in Viewers, J!NeedsCode(v)
         PROVE  JobTypes'
    BY <1>21 DEF J!NeedsCode, J!Answer, J!Report, J!Goto, J!jobvars, J!filevars, J!viewvars,
       JobTypes, J!Codes
  <1>22. ASSUME NEW v \in Viewers, J!Open130(v)
         PROVE  JobTypes'
    BY <1>22 DEF J!Open130, J!Goto, J!jobvars, J!filevars, J!viewvars, JobTypes, J!Codes
  <1>23. ASSUME NEW v \in Viewers, J!Write130(v)
         PROVE  JobTypes'
    BY <1>23 DEF J!Write130, J!Answer, J!Report, J!Goto, J!jobvars, J!filevars, J!viewvars,
       JobTypes, J!Codes
  <1>24. CASE UNCHANGED jvars
    BY <1>24 DEF jvars, JobTypes, J!Codes
  <1>25. CASE J!Reuse
    BY <1>25 DEF J!Reuse, J!jobvars, J!filevars, J!viewvars, JobTypes, J!Codes
  <1> QED
    BY <1>1, <1>2, <1>3, <1>4, <1>5, <1>6, <1>7, <1>8, <1>9, <1>10, <1>11, <1>12, <1>13, <1>14,
       <1>15, <1>16, <1>17, <1>18, <1>19, <1>20, <1>21, <1>22, <1>23, <1>24, <1>25, Zenon DEF J!Next,
       J!View

LEMMA JobFlagsStay ==
  ASSUME JobFlags, [J!Next]_jvars
  PROVE  JobFlags'
  <1>1. CASE J!Probe
    BY <1>1 DEF J!Probe, J!jobvars, J!filevars, J!viewvars, JobFlags, J!Ended
  <1>2. CASE J!Popen
    BY <1>2 DEF J!Popen, J!jobvars, J!filevars, J!viewvars, JobFlags, J!Ended
  <1>3. CASE J!OpenRecord
    BY <1>3 DEF J!OpenRecord, J!jobvars, J!filevars, J!viewvars, JobFlags, J!Ended
  <1>4. CASE J!WriteRecord
    BY <1>4 DEF J!WriteRecord, J!jobvars, J!filevars, J!viewvars, JobFlags, J!Ended
  <1>5. CASE J!RecordFails
    BY <1>5 DEF J!RecordFails, J!Terminate, J!Working, J!Dead, J!jobvars, J!filevars, J!viewvars,
       JobFlags, J!Ended
  <1>6. CASE J!CommandEnds
    BY <1>6 DEF J!CommandEnds, J!jobvars, J!filevars, J!viewvars, JobFlags, J!Ended
  <1>7. CASE J!OpenExit
    BY <1>7 DEF J!OpenExit, J!jobvars, J!filevars, J!viewvars, JobFlags, J!Ended
  <1>8. CASE J!WriteExit
    BY <1>8 DEF J!WriteExit, J!jobvars, J!filevars, J!viewvars, JobFlags, J!Ended
  <1>9. CASE J!WrapperExits
    BY <1>9 DEF J!WrapperExits, J!Working, J!Dead, J!jobvars, J!filevars, J!viewvars, JobFlags,
       J!Ended
  <1>10. CASE J!Reap
    BY <1>10 DEF J!Reap, J!jobvars, J!filevars, J!viewvars, JobFlags, J!Ended
  <1>11. CASE J!DeadlinePasses
    BY <1>11 DEF J!DeadlinePasses, J!jobvars, J!filevars, J!viewvars, JobFlags, J!Ended
  <1>12. CASE J!Restart
    BY <1>12 DEF J!Restart, J!jobvars, J!filevars, J!viewvars, JobFlags, J!Ended
  <1>13. ASSUME NEW v \in Viewers, NEW m \in {"look", "cancel"}, J!Begin(v, m)
         PROVE  JobFlags'
    BY <1>13 DEF J!Begin, J!Goto, J!jobvars, J!filevars, J!viewvars, JobFlags, J!Ended
  <1>14. ASSUME NEW v \in Viewers, J!SeeExit(v)
         PROVE  JobFlags'
    BY <1>14 DEF J!SeeExit, J!Goto, J!jobvars, J!filevars, J!viewvars, JobFlags, J!Ended
  <1>15. ASSUME NEW v \in Viewers, J!ReadExit(v)
         PROVE  JobFlags'
    BY <1>15 DEF J!ReadExit, J!Report, J!Goto, J!jobvars, J!filevars, J!viewvars, JobFlags, J!Ended
  <1>16. ASSUME NEW v \in Viewers, J!WriteFinished(v)
         PROVE  JobFlags'
    BY <1>16 DEF J!WriteFinished, J!Report, J!Goto, J!jobvars, J!filevars, J!viewvars, JobFlags,
       J!Ended
  <1>17. ASSUME NEW v \in Viewers, J!SeeAlive(v)
         PROVE  JobFlags'
    BY <1>17 DEF J!SeeAlive, J!PidAlive, J!Report, J!Goto, J!jobvars, J!filevars, J!viewvars,
       JobFlags, J!Ended
  <1>18. ASSUME NEW v \in Viewers, J!CancelFinds(v)
         PROVE  JobFlags'
    BY <1>18 DEF J!CancelFinds, J!PidAlive, J!Answer, J!Report, J!Goto, J!jobvars, J!filevars,
       J!viewvars, JobFlags, J!Ended
  <1>19. ASSUME NEW v \in Viewers, J!Signal(v)
         PROVE  JobFlags'
    BY <1>19 DEF J!Signal, J!Terminate, J!Working, J!Dead, J!Goto, J!jobvars, J!filevars,
       J!viewvars, JobFlags, J!Ended
  <1>20. ASSUME NEW v \in Viewers, J!Kill(v)
         PROVE  JobFlags'
    BY <1>20 DEF J!Kill, J!PidAlive, J!Working, J!Dead, J!Goto, J!jobvars, J!filevars, J!viewvars,
       JobFlags, J!Ended
  <1>21. ASSUME NEW v \in Viewers, J!NeedsCode(v)
         PROVE  JobFlags'
    BY <1>21 DEF J!NeedsCode, J!Answer, J!Report, J!Goto, J!jobvars, J!filevars, J!viewvars,
       JobFlags, J!Ended
  <1>22. ASSUME NEW v \in Viewers, J!Open130(v)
         PROVE  JobFlags'
    BY <1>22 DEF J!Open130, J!Goto, J!jobvars, J!filevars, J!viewvars, JobFlags, J!Ended
  <1>23. ASSUME NEW v \in Viewers, J!Write130(v)
         PROVE  JobFlags'
    BY <1>23 DEF J!Write130, J!Answer, J!Report, J!Goto, J!jobvars, J!filevars, J!viewvars,
       JobFlags, J!Ended
  <1>24. CASE UNCHANGED jvars
    BY <1>24 DEF jvars, JobFlags, J!Ended
  <1>25. CASE J!Reuse
    BY <1>25 DEF J!Reuse, J!jobvars, J!filevars, J!viewvars, JobFlags, J!Ended
  <1> QED
    BY <1>1, <1>2, <1>3, <1>4, <1>5, <1>6, <1>7, <1>8, <1>9, <1>10, <1>11, <1>12, <1>13, <1>14,
       <1>15, <1>16, <1>17, <1>18, <1>19, <1>20, <1>21, <1>22, <1>23, <1>24, <1>25, Zenon DEF J!Next,
       J!View

LEMMA ViewFlagsStay ==
  ASSUME JobFlags, ViewFlags, [J!Next]_jvars
  PROVE  ViewFlags'
  <1>1. CASE J!Probe
    BY <1>1 DEF J!Probe, J!jobvars, J!filevars, J!viewvars, ViewFlags, JobFlags
  <1>2. CASE J!Popen
    BY <1>2 DEF J!Popen, J!jobvars, J!filevars, J!viewvars, ViewFlags, JobFlags
  <1>3. CASE J!OpenRecord
    BY <1>3 DEF J!OpenRecord, J!jobvars, J!filevars, J!viewvars, ViewFlags, JobFlags
  <1>4. CASE J!WriteRecord
    BY <1>4 DEF J!WriteRecord, J!jobvars, J!filevars, J!viewvars, ViewFlags, JobFlags
  <1>5. CASE J!RecordFails
    BY <1>5 DEF J!RecordFails, J!Terminate, J!Working, J!Dead, J!jobvars, J!filevars, J!viewvars,
       ViewFlags, JobFlags
  <1>6. CASE J!CommandEnds
    BY <1>6 DEF J!CommandEnds, J!jobvars, J!filevars, J!viewvars, ViewFlags, JobFlags
  <1>7. CASE J!OpenExit
    BY <1>7 DEF J!OpenExit, J!jobvars, J!filevars, J!viewvars, ViewFlags, JobFlags
  <1>8. CASE J!WriteExit
    BY <1>8 DEF J!WriteExit, J!jobvars, J!filevars, J!viewvars, ViewFlags, JobFlags
  <1>9. CASE J!WrapperExits
    BY <1>9 DEF J!WrapperExits, J!Working, J!Dead, J!jobvars, J!filevars, J!viewvars, ViewFlags,
       JobFlags
  <1>10. CASE J!Reap
    BY <1>10 DEF J!Reap, J!jobvars, J!filevars, J!viewvars, ViewFlags, JobFlags
  <1>11. CASE J!DeadlinePasses
    BY <1>11 DEF J!DeadlinePasses, J!jobvars, J!filevars, J!viewvars, ViewFlags, JobFlags
  <1>12. CASE J!Restart
    BY <1>12 DEF J!Restart, J!jobvars, J!filevars, J!viewvars, ViewFlags, JobFlags
  <1>13. ASSUME NEW v \in Viewers, NEW m \in {"look", "cancel"}, J!Begin(v, m)
         PROVE  ViewFlags'
    BY <1>13 DEF J!Begin, J!Goto, J!jobvars, J!filevars, J!viewvars, ViewFlags, JobFlags
  <1>14. ASSUME NEW v \in Viewers, J!SeeExit(v)
         PROVE  ViewFlags'
    BY <1>14 DEF J!SeeExit, J!Goto, J!jobvars, J!filevars, J!viewvars, ViewFlags, JobFlags
  <1>15. ASSUME NEW v \in Viewers, J!ReadExit(v)
         PROVE  ViewFlags'
    BY <1>15 DEF J!ReadExit, J!Report, J!Goto, J!jobvars, J!filevars, J!viewvars, ViewFlags,
       JobFlags
  <1>16. ASSUME NEW v \in Viewers, J!WriteFinished(v)
         PROVE  ViewFlags'
    BY <1>16 DEF J!WriteFinished, J!Report, J!Goto, J!jobvars, J!filevars, J!viewvars, ViewFlags,
       JobFlags
  <1>17. ASSUME NEW v \in Viewers, J!SeeAlive(v)
         PROVE  ViewFlags'
    BY <1>17 DEF J!SeeAlive, J!PidAlive, J!Report, J!Goto, J!jobvars, J!filevars, J!viewvars,
       ViewFlags, JobFlags
  <1>18. ASSUME NEW v \in Viewers, J!CancelFinds(v)
         PROVE  ViewFlags'
    BY <1>18 DEF J!CancelFinds, J!PidAlive, J!Answer, J!Report, J!Goto, J!jobvars, J!filevars,
       J!viewvars, ViewFlags, JobFlags
  <1>19. ASSUME NEW v \in Viewers, J!Signal(v)
         PROVE  ViewFlags'
    BY <1>19 DEF J!Signal, J!Terminate, J!Working, J!Dead, J!Goto, J!jobvars, J!filevars,
       J!viewvars, ViewFlags, JobFlags
  <1>20. ASSUME NEW v \in Viewers, J!Kill(v)
         PROVE  ViewFlags'
    BY <1>20 DEF J!Kill, J!PidAlive, J!Working, J!Dead, J!Goto, J!jobvars, J!filevars, J!viewvars,
       ViewFlags, JobFlags
  <1>21. ASSUME NEW v \in Viewers, J!NeedsCode(v)
         PROVE  ViewFlags'
    BY <1>21 DEF J!NeedsCode, J!Answer, J!Report, J!Goto, J!jobvars, J!filevars, J!viewvars,
       ViewFlags, JobFlags
  <1>22. ASSUME NEW v \in Viewers, J!Open130(v)
         PROVE  ViewFlags'
    BY <1>22 DEF J!Open130, J!Goto, J!jobvars, J!filevars, J!viewvars, ViewFlags, JobFlags
  <1>23. ASSUME NEW v \in Viewers, J!Write130(v)
         PROVE  ViewFlags'
    BY <1>23 DEF J!Write130, J!Answer, J!Report, J!Goto, J!jobvars, J!filevars, J!viewvars,
       ViewFlags, JobFlags
  <1>24. CASE UNCHANGED jvars
    BY <1>24 DEF jvars, ViewFlags, JobFlags
  <1>25. CASE J!Reuse
    BY <1>25 DEF J!Reuse, J!jobvars, J!filevars, J!viewvars, ViewFlags, JobFlags
  <1> QED
    BY <1>1, <1>2, <1>3, <1>4, <1>5, <1>6, <1>7, <1>8, <1>9, <1>10, <1>11, <1>12, <1>13, <1>14,
       <1>15, <1>16, <1>17, <1>18, <1>19, <1>20, <1>21, <1>22, <1>23, <1>24, <1>25, Zenon DEF J!Next,
       J!View

LEMMA ViewTypesStay ==
  ASSUME ViewTypes, [J!Next]_jvars
  PROVE  ViewTypes'
  <1>1. CASE J!Probe
    BY <1>1 DEF J!Probe, J!jobvars, J!filevars, J!viewvars, ViewTypes
  <1>2. CASE J!Popen
    BY <1>2 DEF J!Popen, J!jobvars, J!filevars, J!viewvars, ViewTypes
  <1>3. CASE J!OpenRecord
    BY <1>3 DEF J!OpenRecord, J!jobvars, J!filevars, J!viewvars, ViewTypes
  <1>4. CASE J!WriteRecord
    BY <1>4 DEF J!WriteRecord, J!jobvars, J!filevars, J!viewvars, ViewTypes
  <1>5. CASE J!RecordFails
    BY <1>5 DEF J!RecordFails, J!Terminate, J!Working, J!Dead, J!jobvars, J!filevars, J!viewvars,
       ViewTypes
  <1>6. CASE J!CommandEnds
    BY <1>6 DEF J!CommandEnds, J!jobvars, J!filevars, J!viewvars, ViewTypes
  <1>7. CASE J!OpenExit
    BY <1>7 DEF J!OpenExit, J!jobvars, J!filevars, J!viewvars, ViewTypes
  <1>8. CASE J!WriteExit
    BY <1>8 DEF J!WriteExit, J!jobvars, J!filevars, J!viewvars, ViewTypes
  <1>9. CASE J!WrapperExits
    BY <1>9 DEF J!WrapperExits, J!Working, J!Dead, J!jobvars, J!filevars, J!viewvars, ViewTypes
  <1>10. CASE J!Reap
    BY <1>10 DEF J!Reap, J!jobvars, J!filevars, J!viewvars, ViewTypes
  <1>11. CASE J!DeadlinePasses
    BY <1>11 DEF J!DeadlinePasses, J!jobvars, J!filevars, J!viewvars, ViewTypes
  <1>12. CASE J!Restart
    BY <1>12 DEF J!Restart, J!jobvars, J!filevars, J!viewvars, ViewTypes
  <1>13. ASSUME NEW v \in Viewers, NEW m \in {"look", "cancel"}, J!Begin(v, m)
         PROVE  ViewTypes'
    BY <1>13 DEF J!Begin, J!Goto, J!jobvars, J!filevars, J!viewvars, ViewTypes
  <1>14. ASSUME NEW v \in Viewers, J!SeeExit(v)
         PROVE  ViewTypes'
    BY <1>14 DEF J!SeeExit, J!Goto, J!jobvars, J!filevars, J!viewvars, ViewTypes
  <1>15. ASSUME NEW v \in Viewers, J!ReadExit(v)
         PROVE  ViewTypes'
    BY <1>15 DEF J!ReadExit, J!Report, J!Goto, J!jobvars, J!filevars, J!viewvars, ViewTypes
  <1>16. ASSUME NEW v \in Viewers, J!WriteFinished(v)
         PROVE  ViewTypes'
    BY <1>16 DEF J!WriteFinished, J!Report, J!Goto, J!jobvars, J!filevars, J!viewvars, ViewTypes
  <1>17. ASSUME NEW v \in Viewers, J!SeeAlive(v)
         PROVE  ViewTypes'
    BY <1>17 DEF J!SeeAlive, J!PidAlive, J!Report, J!Goto, J!jobvars, J!filevars, J!viewvars,
       ViewTypes
  <1>18. ASSUME NEW v \in Viewers, J!CancelFinds(v)
         PROVE  ViewTypes'
    BY <1>18 DEF J!CancelFinds, J!PidAlive, J!Answer, J!Report, J!Goto, J!jobvars, J!filevars,
       J!viewvars, ViewTypes
  <1>19. ASSUME NEW v \in Viewers, J!Signal(v)
         PROVE  ViewTypes'
    BY <1>19 DEF J!Signal, J!Terminate, J!Working, J!Dead, J!Goto, J!jobvars, J!filevars,
       J!viewvars, ViewTypes
  <1>20. ASSUME NEW v \in Viewers, J!Kill(v)
         PROVE  ViewTypes'
    BY <1>20 DEF J!Kill, J!PidAlive, J!Working, J!Dead, J!Goto, J!jobvars, J!filevars, J!viewvars,
       ViewTypes
  <1>21. ASSUME NEW v \in Viewers, J!NeedsCode(v)
         PROVE  ViewTypes'
    BY <1>21 DEF J!NeedsCode, J!Answer, J!Report, J!Goto, J!jobvars, J!filevars, J!viewvars,
       ViewTypes
  <1>22. ASSUME NEW v \in Viewers, J!Open130(v)
         PROVE  ViewTypes'
    BY <1>22 DEF J!Open130, J!Goto, J!jobvars, J!filevars, J!viewvars, ViewTypes
  <1>23. ASSUME NEW v \in Viewers, J!Write130(v)
         PROVE  ViewTypes'
    BY <1>23 DEF J!Write130, J!Answer, J!Report, J!Goto, J!jobvars, J!filevars, J!viewvars,
       ViewTypes
  <1>24. CASE UNCHANGED jvars
    BY <1>24 DEF jvars, ViewTypes
  <1>25. CASE J!Reuse
    BY <1>25 DEF J!Reuse, J!jobvars, J!filevars, J!viewvars, ViewTypes
  <1> QED
    BY <1>1, <1>2, <1>3, <1>4, <1>5, <1>6, <1>7, <1>8, <1>9, <1>10, <1>11, <1>12, <1>13, <1>14,
       <1>15, <1>16, <1>17, <1>18, <1>19, <1>20, <1>21, <1>22, <1>23, <1>24, <1>25, Zenon DEF J!Next,
       J!View

LEMMA StartStays ==
  ASSUME JobTypes, ViewTypes, StartOK, ExitOK, [J!Next]_jvars
  PROVE  StartOK'
  <1>1. CASE J!Probe
    BY <1>1 DEF J!Probe, J!jobvars, J!filevars, J!viewvars, StartOK, ExitOK, ViewTypes, JobTypes
  <1>2. CASE J!Popen
    BY <1>2 DEF J!Popen, J!jobvars, J!filevars, J!viewvars, StartOK, ExitOK, ViewTypes, JobTypes
  <1>3. CASE J!OpenRecord
    BY <1>3 DEF J!OpenRecord, J!jobvars, J!filevars, J!viewvars, StartOK, ExitOK, ViewTypes,
       JobTypes
  <1>4. CASE J!WriteRecord
    BY <1>4 DEF J!WriteRecord, J!jobvars, J!filevars, J!viewvars, StartOK, ExitOK, ViewTypes,
       JobTypes
  <1>5. CASE J!RecordFails
    BY <1>5 DEF J!RecordFails, J!Terminate, J!Working, J!Dead, J!jobvars, J!filevars, J!viewvars,
       StartOK, ExitOK, ViewTypes, JobTypes
  <1>6. CASE J!CommandEnds
    BY <1>6 DEF J!CommandEnds, J!jobvars, J!filevars, J!viewvars, StartOK, ExitOK, ViewTypes,
       JobTypes
  <1>7. CASE J!OpenExit
    BY <1>7 DEF J!OpenExit, J!jobvars, J!filevars, J!viewvars, StartOK, ExitOK, ViewTypes, JobTypes
  <1>8. CASE J!WriteExit
    BY <1>8 DEF J!WriteExit, J!jobvars, J!filevars, J!viewvars, StartOK, ExitOK, ViewTypes, JobTypes
  <1>9. CASE J!WrapperExits
    BY <1>9 DEF J!WrapperExits, J!Working, J!Dead, J!jobvars, J!filevars, J!viewvars, StartOK,
       ExitOK, ViewTypes, JobTypes
  <1>10. CASE J!Reap
    BY <1>10 DEF J!Reap, J!jobvars, J!filevars, J!viewvars, StartOK, ExitOK, ViewTypes, JobTypes
  <1>11. CASE J!DeadlinePasses
    BY <1>11 DEF J!DeadlinePasses, J!jobvars, J!filevars, J!viewvars, StartOK, ExitOK, ViewTypes,
       JobTypes
  <1>12. CASE J!Restart
    BY <1>12 DEF J!Restart, J!jobvars, J!filevars, J!viewvars, StartOK, ExitOK, ViewTypes, JobTypes
  <1>13. ASSUME NEW v \in Viewers, NEW m \in {"look", "cancel"}, J!Begin(v, m)
         PROVE  StartOK'
    BY <1>13 DEF J!Begin, J!Goto, J!jobvars, J!filevars, J!viewvars, StartOK, ExitOK, ViewTypes,
       JobTypes
  <1>14. ASSUME NEW v \in Viewers, J!SeeExit(v)
         PROVE  StartOK'
    BY <1>14 DEF J!SeeExit, J!Goto, J!jobvars, J!filevars, J!viewvars, StartOK, ExitOK, ViewTypes,
       JobTypes
  <1>15. ASSUME NEW v \in Viewers, J!ReadExit(v)
         PROVE  StartOK'
    BY <1>15 DEF J!ReadExit, J!Report, J!Goto, J!jobvars, J!filevars, J!viewvars, StartOK, ExitOK,
       ViewTypes, JobTypes
  <1>16. ASSUME NEW v \in Viewers, J!WriteFinished(v)
         PROVE  StartOK'
    BY <1>16 DEF J!WriteFinished, J!Report, J!Goto, J!jobvars, J!filevars, J!viewvars, StartOK,
       ExitOK, ViewTypes, JobTypes
  <1>17. ASSUME NEW v \in Viewers, J!SeeAlive(v)
         PROVE  StartOK'
    BY <1>17 DEF J!SeeAlive, J!PidAlive, J!Report, J!Goto, J!jobvars, J!filevars, J!viewvars,
       StartOK, ExitOK, ViewTypes, JobTypes
  <1>18. ASSUME NEW v \in Viewers, J!CancelFinds(v)
         PROVE  StartOK'
    BY <1>18 DEF J!CancelFinds, J!PidAlive, J!Answer, J!Report, J!Goto, J!jobvars, J!filevars,
       J!viewvars, StartOK, ExitOK, ViewTypes, JobTypes
  <1>19. ASSUME NEW v \in Viewers, J!Signal(v)
         PROVE  StartOK'
    BY <1>19 DEF J!Signal, J!Terminate, J!Working, J!Dead, J!Goto, J!jobvars, J!filevars,
       J!viewvars, StartOK, ExitOK, ViewTypes, JobTypes
  <1>20. ASSUME NEW v \in Viewers, J!Kill(v)
         PROVE  StartOK'
    BY <1>20 DEF J!Kill, J!PidAlive, J!Working, J!Dead, J!Goto, J!jobvars, J!filevars, J!viewvars,
       StartOK, ExitOK, ViewTypes, JobTypes
  <1>21. ASSUME NEW v \in Viewers, J!NeedsCode(v)
         PROVE  StartOK'
    BY <1>21 DEF J!NeedsCode, J!Answer, J!Report, J!Goto, J!jobvars, J!filevars, J!viewvars,
       StartOK, ExitOK, ViewTypes, JobTypes
  <1>22. ASSUME NEW v \in Viewers, J!Open130(v)
         PROVE  StartOK'
    BY <1>22 DEF J!Open130, J!Goto, J!jobvars, J!filevars, J!viewvars, StartOK, ExitOK, ViewTypes,
       JobTypes
  <1>23. ASSUME NEW v \in Viewers, J!Write130(v)
         PROVE  StartOK'
    BY <1>23 DEF J!Write130, J!Answer, J!Report, J!Goto, J!jobvars, J!filevars, J!viewvars, StartOK,
       ExitOK, ViewTypes, JobTypes
  <1>24. CASE UNCHANGED jvars
    BY <1>24 DEF jvars, StartOK, ExitOK, ViewTypes, JobTypes
  <1>25. CASE J!Reuse
    BY <1>25 DEF J!Reuse, J!jobvars, J!filevars, J!viewvars, StartOK, ExitOK, ViewTypes, JobTypes
  <1> QED
    BY <1>1, <1>2, <1>3, <1>4, <1>5, <1>6, <1>7, <1>8, <1>9, <1>10, <1>11, <1>12, <1>13, <1>14,
       <1>15, <1>16, <1>17, <1>18, <1>19, <1>20, <1>21, <1>22, <1>23, <1>24, <1>25, Zenon DEF J!Next,
       J!View

LEMMA ExitStays ==
  ASSUME JobTypes, ViewTypes, StartOK, ExitOK, [J!Next]_jvars
  PROVE  ExitOK'
  <1>1. CASE J!Probe
    BY <1>1 DEF J!Probe, J!jobvars, J!filevars, J!viewvars, StartOK, ExitOK, ViewTypes, JobTypes
  <1>2. CASE J!Popen
    BY <1>2 DEF J!Popen, J!jobvars, J!filevars, J!viewvars, StartOK, ExitOK, ViewTypes, JobTypes
  <1>3. CASE J!OpenRecord
    BY <1>3 DEF J!OpenRecord, J!jobvars, J!filevars, J!viewvars, StartOK, ExitOK, ViewTypes,
       JobTypes
  <1>4. CASE J!WriteRecord
    BY <1>4 DEF J!WriteRecord, J!jobvars, J!filevars, J!viewvars, StartOK, ExitOK, ViewTypes,
       JobTypes
  <1>5. CASE J!RecordFails
    BY <1>5 DEF J!RecordFails, J!Terminate, J!Working, J!Dead, J!jobvars, J!filevars, J!viewvars,
       StartOK, ExitOK, ViewTypes, JobTypes
  <1>6. CASE J!CommandEnds
    BY <1>6 DEF J!CommandEnds, J!jobvars, J!filevars, J!viewvars, StartOK, ExitOK, ViewTypes,
       JobTypes
  <1>7. CASE J!OpenExit
    BY <1>7 DEF J!OpenExit, J!jobvars, J!filevars, J!viewvars, StartOK, ExitOK, ViewTypes, JobTypes
  <1>8. CASE J!WriteExit
    BY <1>8 DEF J!WriteExit, J!jobvars, J!filevars, J!viewvars, StartOK, ExitOK, ViewTypes, JobTypes
  <1>9. CASE J!WrapperExits
    BY <1>9 DEF J!WrapperExits, J!Working, J!Dead, J!jobvars, J!filevars, J!viewvars, StartOK,
       ExitOK, ViewTypes, JobTypes
  <1>10. CASE J!Reap
    BY <1>10 DEF J!Reap, J!jobvars, J!filevars, J!viewvars, StartOK, ExitOK, ViewTypes, JobTypes
  <1>11. CASE J!DeadlinePasses
    BY <1>11 DEF J!DeadlinePasses, J!jobvars, J!filevars, J!viewvars, StartOK, ExitOK, ViewTypes,
       JobTypes
  <1>12. CASE J!Restart
    BY <1>12 DEF J!Restart, J!jobvars, J!filevars, J!viewvars, StartOK, ExitOK, ViewTypes, JobTypes
  <1>13. ASSUME NEW v \in Viewers, NEW m \in {"look", "cancel"}, J!Begin(v, m)
         PROVE  ExitOK'
    BY <1>13 DEF J!Begin, J!Goto, J!jobvars, J!filevars, J!viewvars, StartOK, ExitOK, ViewTypes,
       JobTypes
  <1>14. ASSUME NEW v \in Viewers, J!SeeExit(v)
         PROVE  ExitOK'
    BY <1>14 DEF J!SeeExit, J!Goto, J!jobvars, J!filevars, J!viewvars, StartOK, ExitOK, ViewTypes,
       JobTypes
  <1>15. ASSUME NEW v \in Viewers, J!ReadExit(v)
         PROVE  ExitOK'
    BY <1>15 DEF J!ReadExit, J!Report, J!Goto, J!jobvars, J!filevars, J!viewvars, StartOK, ExitOK,
       ViewTypes, JobTypes
  <1>16. ASSUME NEW v \in Viewers, J!WriteFinished(v)
         PROVE  ExitOK'
    BY <1>16 DEF J!WriteFinished, J!Report, J!Goto, J!jobvars, J!filevars, J!viewvars, StartOK,
       ExitOK, ViewTypes, JobTypes
  <1>17. ASSUME NEW v \in Viewers, J!SeeAlive(v)
         PROVE  ExitOK'
    BY <1>17 DEF J!SeeAlive, J!PidAlive, J!Report, J!Goto, J!jobvars, J!filevars, J!viewvars,
       StartOK, ExitOK, ViewTypes, JobTypes
  <1>18. ASSUME NEW v \in Viewers, J!CancelFinds(v)
         PROVE  ExitOK'
    BY <1>18 DEF J!CancelFinds, J!PidAlive, J!Answer, J!Report, J!Goto, J!jobvars, J!filevars,
       J!viewvars, StartOK, ExitOK, ViewTypes, JobTypes
  <1>19. ASSUME NEW v \in Viewers, J!Signal(v)
         PROVE  ExitOK'
    BY <1>19 DEF J!Signal, J!Terminate, J!Working, J!Dead, J!Goto, J!jobvars, J!filevars,
       J!viewvars, StartOK, ExitOK, ViewTypes, JobTypes
  <1>20. ASSUME NEW v \in Viewers, J!Kill(v)
         PROVE  ExitOK'
    BY <1>20 DEF J!Kill, J!PidAlive, J!Working, J!Dead, J!Goto, J!jobvars, J!filevars, J!viewvars,
       StartOK, ExitOK, ViewTypes, JobTypes
  <1>21. ASSUME NEW v \in Viewers, J!NeedsCode(v)
         PROVE  ExitOK'
    BY <1>21 DEF J!NeedsCode, J!Answer, J!Report, J!Goto, J!jobvars, J!filevars, J!viewvars,
       StartOK, ExitOK, ViewTypes, JobTypes
  <1>22. ASSUME NEW v \in Viewers, J!Open130(v)
         PROVE  ExitOK'
    BY <1>22 DEF J!Open130, J!Goto, J!jobvars, J!filevars, J!viewvars, StartOK, ExitOK, ViewTypes,
       JobTypes
  <1>23. ASSUME NEW v \in Viewers, J!Write130(v)
         PROVE  ExitOK'
    BY <1>23 DEF J!Write130, J!Answer, J!Report, J!Goto, J!jobvars, J!filevars, J!viewvars, StartOK,
       ExitOK, ViewTypes, JobTypes
  <1>24. CASE UNCHANGED jvars
    BY <1>24 DEF jvars, StartOK, ExitOK, ViewTypes, JobTypes
  <1>25. CASE J!Reuse
    BY <1>25 DEF J!Reuse, J!jobvars, J!filevars, J!viewvars, StartOK, ExitOK, ViewTypes, JobTypes
  <1> QED
    BY <1>1, <1>2, <1>3, <1>4, <1>5, <1>6, <1>7, <1>8, <1>9, <1>10, <1>11, <1>12, <1>13, <1>14,
       <1>15, <1>16, <1>17, <1>18, <1>19, <1>20, <1>21, <1>22, <1>23, <1>24, <1>25, Zenon DEF J!Next,
       J!View

LEMMA SeenStays ==
  ASSUME JobTypes, ViewTypes, StartOK, ExitOK, SeenOK, [J!Next]_jvars
  PROVE  SeenOK'
  <1>1. CASE J!Probe
    BY <1>1 DEF J!Probe, J!jobvars, J!filevars, J!viewvars, StartOK, ExitOK, SeenOK, ViewTypes,
       JobTypes, J!Ended
  <1>2. CASE J!Popen
    BY <1>2 DEF J!Popen, J!jobvars, J!filevars, J!viewvars, StartOK, ExitOK, SeenOK, ViewTypes,
       JobTypes, J!Ended
  <1>3. CASE J!OpenRecord
    BY <1>3 DEF J!OpenRecord, J!jobvars, J!filevars, J!viewvars, StartOK, ExitOK, SeenOK, ViewTypes,
       JobTypes, J!Ended
  <1>4. CASE J!WriteRecord
    BY <1>4 DEF J!WriteRecord, J!jobvars, J!filevars, J!viewvars, StartOK, ExitOK, SeenOK,
       ViewTypes, JobTypes, J!Ended
  <1>5. CASE J!RecordFails
    BY <1>5 DEF J!RecordFails, J!Terminate, J!Working, J!Dead, J!jobvars, J!filevars, J!viewvars,
       StartOK, ExitOK, SeenOK, ViewTypes, JobTypes, J!Ended
  <1>6. CASE J!CommandEnds
    BY <1>6 DEF J!CommandEnds, J!jobvars, J!filevars, J!viewvars, StartOK, ExitOK, SeenOK,
       ViewTypes, JobTypes, J!Ended
  <1>7. CASE J!OpenExit
    BY <1>7 DEF J!OpenExit, J!jobvars, J!filevars, J!viewvars, StartOK, ExitOK, SeenOK, ViewTypes,
       JobTypes, J!Ended
  <1>8. CASE J!WriteExit
    BY <1>8 DEF J!WriteExit, J!jobvars, J!filevars, J!viewvars, StartOK, ExitOK, SeenOK, ViewTypes,
       JobTypes, J!Ended
  <1>9. CASE J!WrapperExits
    BY <1>9 DEF J!WrapperExits, J!Working, J!Dead, J!jobvars, J!filevars, J!viewvars, StartOK,
       ExitOK, SeenOK, ViewTypes, JobTypes, J!Ended
  <1>10. CASE J!Reap
    BY <1>10 DEF J!Reap, J!jobvars, J!filevars, J!viewvars, StartOK, ExitOK, SeenOK, ViewTypes,
       JobTypes, J!Ended
  <1>11. CASE J!DeadlinePasses
    BY <1>11 DEF J!DeadlinePasses, J!jobvars, J!filevars, J!viewvars, StartOK, ExitOK, SeenOK,
       ViewTypes, JobTypes, J!Ended
  <1>12. CASE J!Restart
    BY <1>12 DEF J!Restart, J!jobvars, J!filevars, J!viewvars, StartOK, ExitOK, SeenOK, ViewTypes,
       JobTypes, J!Ended
  <1>13. ASSUME NEW v \in Viewers, NEW m \in {"look", "cancel"}, J!Begin(v, m)
         PROVE  SeenOK'
    BY <1>13 DEF J!Begin, J!Goto, J!jobvars, J!filevars, J!viewvars, StartOK, ExitOK, SeenOK,
       ViewTypes, JobTypes, J!Ended
  <1>14. ASSUME NEW v \in Viewers, J!SeeExit(v)
         PROVE  SeenOK'
    BY <1>14 DEF J!SeeExit, J!Goto, J!jobvars, J!filevars, J!viewvars, StartOK, ExitOK, SeenOK,
       ViewTypes, JobTypes, J!Ended
  <1>15. ASSUME NEW v \in Viewers, J!ReadExit(v)
         PROVE  SeenOK'
    BY <1>15 DEF J!ReadExit, J!Report, J!Goto, J!jobvars, J!filevars, J!viewvars, StartOK, ExitOK,
       SeenOK, ViewTypes, JobTypes, J!Ended
  <1>16. ASSUME NEW v \in Viewers, J!WriteFinished(v)
         PROVE  SeenOK'
    BY <1>16 DEF J!WriteFinished, J!Report, J!Goto, J!jobvars, J!filevars, J!viewvars, StartOK,
       ExitOK, SeenOK, ViewTypes, JobTypes, J!Ended
  <1>17. ASSUME NEW v \in Viewers, J!SeeAlive(v)
         PROVE  SeenOK'
    BY <1>17 DEF J!SeeAlive, J!PidAlive, J!Report, J!Goto, J!jobvars, J!filevars, J!viewvars,
       StartOK, ExitOK, SeenOK, ViewTypes, JobTypes, J!Ended
  <1>18. ASSUME NEW v \in Viewers, J!CancelFinds(v)
         PROVE  SeenOK'
    BY <1>18 DEF J!CancelFinds, J!PidAlive, J!Answer, J!Report, J!Goto, J!jobvars, J!filevars,
       J!viewvars, StartOK, ExitOK, SeenOK, ViewTypes, JobTypes, J!Ended
  <1>19. ASSUME NEW v \in Viewers, J!Signal(v)
         PROVE  SeenOK'
    BY <1>19 DEF J!Signal, J!Terminate, J!Working, J!Dead, J!Goto, J!jobvars, J!filevars,
       J!viewvars, StartOK, ExitOK, SeenOK, ViewTypes, JobTypes, J!Ended
  <1>20. ASSUME NEW v \in Viewers, J!Kill(v)
         PROVE  SeenOK'
    BY <1>20 DEF J!Kill, J!PidAlive, J!Working, J!Dead, J!Goto, J!jobvars, J!filevars, J!viewvars,
       StartOK, ExitOK, SeenOK, ViewTypes, JobTypes, J!Ended
  <1>21. ASSUME NEW v \in Viewers, J!NeedsCode(v)
         PROVE  SeenOK'
    BY <1>21 DEF J!NeedsCode, J!Answer, J!Report, J!Goto, J!jobvars, J!filevars, J!viewvars,
       StartOK, ExitOK, SeenOK, ViewTypes, JobTypes, J!Ended
  <1>22. ASSUME NEW v \in Viewers, J!Open130(v)
         PROVE  SeenOK'
    BY <1>22 DEF J!Open130, J!Goto, J!jobvars, J!filevars, J!viewvars, StartOK, ExitOK, SeenOK,
       ViewTypes, JobTypes, J!Ended
  <1>23. ASSUME NEW v \in Viewers, J!Write130(v)
         PROVE  SeenOK'
    BY <1>23 DEF J!Write130, J!Answer, J!Report, J!Goto, J!jobvars, J!filevars, J!viewvars, StartOK,
       ExitOK, SeenOK, ViewTypes, JobTypes, J!Ended
  <1>24. CASE UNCHANGED jvars
    BY <1>24 DEF jvars, StartOK, ExitOK, SeenOK, ViewTypes, JobTypes, J!Ended
  <1>25. CASE J!Reuse
    BY <1>25 DEF J!Reuse, J!jobvars, J!filevars, J!viewvars, StartOK, ExitOK, SeenOK, ViewTypes,
       JobTypes, J!Ended
  <1> QED
    BY <1>1, <1>2, <1>3, <1>4, <1>5, <1>6, <1>7, <1>8, <1>9, <1>10, <1>11, <1>12, <1>13, <1>14,
       <1>15, <1>16, <1>17, <1>18, <1>19, <1>20, <1>21, <1>22, <1>23, <1>24, <1>25, Zenon DEF J!Next,
       J!View

LEMMA SinceStays ==
  ASSUME JobTypes, ViewTypes, ViewFlags, StartOK, ExitOK, SeenOK, SinceOK, [J!Next]_jvars
  PROVE  SinceOK'
  <1>1. CASE J!Probe
    BY <1>1 DEF J!Probe, J!jobvars, J!filevars, J!viewvars, StartOK, SeenOK, SinceOK, ViewTypes,
       ViewFlags, JobTypes, J!Ended
  <1>2. CASE J!Popen
    BY <1>2 DEF J!Popen, J!jobvars, J!filevars, J!viewvars, StartOK, SeenOK, SinceOK, ViewTypes,
       ViewFlags, JobTypes, J!Ended
  <1>3. CASE J!OpenRecord
    BY <1>3 DEF J!OpenRecord, J!jobvars, J!filevars, J!viewvars, StartOK, SeenOK, SinceOK,
       ViewTypes, ViewFlags, JobTypes, J!Ended
  <1>4. CASE J!WriteRecord
    BY <1>4 DEF J!WriteRecord, J!jobvars, J!filevars, J!viewvars, StartOK, SeenOK, SinceOK,
       ViewTypes, ViewFlags, JobTypes, J!Ended
  <1>5. CASE J!RecordFails
    BY <1>5 DEF J!RecordFails, J!Terminate, J!Working, J!Dead, J!jobvars, J!filevars, J!viewvars,
       StartOK, SeenOK, SinceOK, ViewTypes, ViewFlags, JobTypes, J!Ended
  <1>6. CASE J!CommandEnds
    BY <1>6 DEF J!CommandEnds, J!jobvars, J!filevars, J!viewvars, StartOK, SeenOK, SinceOK,
       ViewTypes, ViewFlags, JobTypes, J!Ended
  <1>7. CASE J!OpenExit
    BY <1>7 DEF J!OpenExit, J!jobvars, J!filevars, J!viewvars, StartOK, SeenOK, SinceOK, ViewTypes,
       ViewFlags, JobTypes, J!Ended
  <1>8. CASE J!WriteExit
    BY <1>8 DEF J!WriteExit, J!jobvars, J!filevars, J!viewvars, StartOK, SeenOK, SinceOK, ViewTypes,
       ViewFlags, JobTypes, J!Ended
  <1>9. CASE J!WrapperExits
    BY <1>9 DEF J!WrapperExits, J!Working, J!Dead, J!jobvars, J!filevars, J!viewvars, StartOK,
       SeenOK, SinceOK, ViewTypes, ViewFlags, JobTypes, J!Ended
  <1>10. CASE J!Reap
    BY <1>10 DEF J!Reap, J!jobvars, J!filevars, J!viewvars, StartOK, SeenOK, SinceOK, ViewTypes,
       ViewFlags, JobTypes, J!Ended
  <1>11. CASE J!DeadlinePasses
    BY <1>11 DEF J!DeadlinePasses, J!jobvars, J!filevars, J!viewvars, StartOK, SeenOK, SinceOK,
       ViewTypes, ViewFlags, JobTypes, J!Ended
  <1>12. CASE J!Restart
    BY <1>12 DEF J!Restart, J!jobvars, J!filevars, J!viewvars, StartOK, SeenOK, SinceOK, ViewTypes,
       ViewFlags, JobTypes, J!Ended
  <1>13. ASSUME NEW v \in Viewers, NEW m \in {"look", "cancel"}, J!Begin(v, m)
         PROVE  SinceOK'
    BY <1>13 DEF J!Begin, J!Goto, J!jobvars, J!filevars, J!viewvars, StartOK, SeenOK, SinceOK,
       ViewTypes, ViewFlags, JobTypes, J!Ended
  <1>14. ASSUME NEW v \in Viewers, J!SeeExit(v)
         PROVE  SinceOK'
    BY <1>14 DEF J!SeeExit, J!Goto, J!jobvars, J!filevars, J!viewvars, StartOK, SeenOK, SinceOK,
       ViewTypes, ViewFlags, JobTypes, J!Ended
  <1>15. ASSUME NEW v \in Viewers, J!ReadExit(v)
         PROVE  SinceOK'
    <2>1. UNCHANGED <<since, wrapper>>
      BY <1>15, Zenon DEF J!ReadExit, J!Report, J!Goto, J!jobvars, J!viewvars
    <2>2. over => over'
      BY <1>15 DEF J!ReadExit, J!Report, J!Goto, J!jobvars, J!viewvars
    <2>3. \/ /\ pc' = [pc EXCEPT ![v] = "idle"]
             /\ \E status \in {"finished", "failed"} : report' = [report EXCEPT ![v] = status]
          \/ /\ pc' = [pc EXCEPT ![v] = "finish"]
             /\ \E status \in {"finished", "failed"} : report' = [report EXCEPT ![v] = status]
      BY <1>15 DEF J!ReadExit, J!Report, J!Goto, J!jobvars, J!viewvars
    <2>4. \A u \in Viewers : pc'[u] = "alive" => pc[u] = "alive"
      BY <2>3 DEF ViewTypes
    <2>5. \A u \in Viewers : report'[u] = "running" =>
             pc'[u] = "idle" /\ (report[u] = "running" \/ ~since[u] \/ wrapper = "other")
      <3>1. \A u \in Viewers : report[u] = "running" => pc[u] = "idle"
        BY Zenon DEF SinceOK
      <3>2. \A u \in Viewers : report'[u] = "running" => pc'[u] = "idle" /\ report[u] = "running"
        BY <2>3, <3>1 DEF ViewTypes
      <3> QED
        BY <3>2, Zenon
    <2>6. SinceOK
      OBVIOUS
    <2> QED
      BY <2>1, <2>4, <2>5, <2>6, <2>2, Zenon DEF SinceOK
  <1>16. ASSUME NEW v \in Viewers, J!WriteFinished(v)
         PROVE  SinceOK'
    BY <1>16 DEF J!WriteFinished, J!Report, J!Goto, J!jobvars, J!filevars, J!viewvars, StartOK,
       SeenOK, SinceOK, ViewTypes, ViewFlags, JobTypes, J!Ended
  <1>17. ASSUME NEW v \in Viewers, J!SeeAlive(v)
         PROVE  SinceOK'
    <2>1. UNCHANGED <<since, wrapper>>
      BY <1>17, Zenon DEF J!SeeAlive, J!Report, J!Goto, J!PidAlive, J!jobvars, J!viewvars
    <2>2. over => over'
      BY <1>17 DEF J!SeeAlive, J!Report, J!Goto, J!PidAlive, J!jobvars, J!viewvars
    <2>3. /\ \/ pc' = [pc EXCEPT ![v] = "idle"] /\ report' = [report EXCEPT ![v] = "vanished"]
             \/ pc' = [pc EXCEPT ![v] = "cancel"] /\ report' = report
             \/ /\ pc' = [pc EXCEPT ![v] = "idle"] /\ report' = [report EXCEPT ![v] = "running"]
                /\ wrapper # "gone"
          /\ pc[v] = "alive"
      BY <1>17 DEF J!SeeAlive, J!Report, J!Goto, J!PidAlive, J!jobvars, J!viewvars
    <2>4. \A u \in Viewers : pc'[u] = "alive" => pc[u] = "alive"
      BY <2>3 DEF ViewTypes
    <2>5. \A u \in Viewers : report'[u] = "running" =>
             pc'[u] = "idle" /\ (report[u] = "running" \/ ~since[u] \/ wrapper = "other")
      <3>1. \A u \in Viewers : report[u] = "running" => pc[u] = "idle"
        BY Zenon DEF SinceOK
      <3>2. wrapper # "gone" => ~since[v] \/ wrapper = "other"
        BY <2>3, Zenon DEF SinceOK
      <3>3. \A u \in Viewers : report'[u] = "running" =>
               pc'[u] = "idle" /\ (report[u] = "running" \/ (u = v /\ wrapper # "gone"))
        BY <2>3, <3>1 DEF ViewTypes
      <3> QED
        BY <3>2, <3>3, Zenon
    <2>6. SinceOK
      OBVIOUS
    <2> QED
      BY <2>1, <2>4, <2>5, <2>6, <2>2, Zenon DEF SinceOK
  <1>18. ASSUME NEW v \in Viewers, J!CancelFinds(v)
         PROVE  SinceOK'
    <2>1. UNCHANGED <<since, wrapper>>
      BY <1>18, Zenon DEF J!CancelFinds, J!Report, J!Goto, J!PidAlive, J!Answer, J!jobvars, J!viewvars
    <2>2. over => over'
      BY <1>18 DEF J!CancelFinds, J!Report, J!Goto, J!PidAlive, J!Answer, J!jobvars, J!viewvars
    <2>3. \/ /\ pc' = [pc EXCEPT ![v] = "idle"]
             /\ \E status \in {"timeout", "not running"} : report' = [report EXCEPT ![v] = status]
          \/ pc' = [pc EXCEPT ![v] = "term"] /\ report' = report /\ pc[v] = "cancel"
      BY <1>18 DEF J!CancelFinds, J!Report, J!Goto, J!PidAlive, J!Answer, J!jobvars, J!viewvars
    <2>4. \A u \in Viewers : pc'[u] = "alive" => pc[u] = "alive"
      BY <2>3 DEF ViewTypes
    <2>5. \A u \in Viewers : report'[u] = "running" =>
             pc'[u] = "idle" /\ (report[u] = "running" \/ ~since[u] \/ wrapper = "other")
      <3>1. \A u \in Viewers : report[u] = "running" => pc[u] = "idle"
        BY Zenon DEF SinceOK
      <3>2. \A u \in Viewers : report'[u] = "running" => pc'[u] = "idle" /\ report[u] = "running"
        BY <2>3, <3>1 DEF ViewTypes
      <3> QED
        BY <3>2, Zenon
    <2>6. SinceOK
      OBVIOUS
    <2> QED
      BY <2>1, <2>4, <2>5, <2>6, <2>2, Zenon DEF SinceOK
  <1>19. ASSUME NEW v \in Viewers, J!Signal(v)
         PROVE  SinceOK'
    BY <1>19 DEF J!Signal, J!Terminate, J!Working, J!Dead, J!Goto, J!jobvars, J!filevars,
       J!viewvars, StartOK, SeenOK, SinceOK, ViewTypes, ViewFlags, JobTypes, J!Ended
  <1>20. ASSUME NEW v \in Viewers, J!Kill(v)
         PROVE  SinceOK'
    BY <1>20 DEF J!Kill, J!PidAlive, J!Working, J!Dead, J!Goto, J!jobvars, J!filevars, J!viewvars,
       StartOK, SeenOK, SinceOK, ViewTypes, ViewFlags, JobTypes, J!Ended
  <1>21. ASSUME NEW v \in Viewers, J!NeedsCode(v)
         PROVE  SinceOK'
    <2>1. UNCHANGED <<since, wrapper>>
      BY <1>21, Zenon DEF J!NeedsCode, J!Report, J!Goto, J!Answer, J!jobvars, J!viewvars
    <2>2. over => over'
      BY <1>21 DEF J!NeedsCode, J!Report, J!Goto, J!Answer, J!jobvars, J!viewvars
    <2>3. \/ /\ pc' = [pc EXCEPT ![v] = "idle"]
             /\ \E status \in {"timeout", "stopped"} : report' = [report EXCEPT ![v] = status]
          \/ pc' = [pc EXCEPT ![v] = "open130"] /\ report' = report /\ pc[v] = "code"
      BY <1>21 DEF J!NeedsCode, J!Report, J!Goto, J!Answer, J!jobvars, J!viewvars
    <2>4. \A u \in Viewers : pc'[u] = "alive" => pc[u] = "alive"
      BY <2>3 DEF ViewTypes
    <2>5. \A u \in Viewers : report'[u] = "running" =>
             pc'[u] = "idle" /\ (report[u] = "running" \/ ~since[u] \/ wrapper = "other")
      <3>1. \A u \in Viewers : report[u] = "running" => pc[u] = "idle"
        BY Zenon DEF SinceOK
      <3>2. \A u \in Viewers : report'[u] = "running" => pc'[u] = "idle" /\ report[u] = "running"
        BY <2>3, <3>1 DEF ViewTypes
      <3> QED
        BY <3>2, Zenon
    <2>6. SinceOK
      OBVIOUS
    <2> QED
      BY <2>1, <2>4, <2>5, <2>6, <2>2, Zenon DEF SinceOK
  <1>22. ASSUME NEW v \in Viewers, J!Open130(v)
         PROVE  SinceOK'
    BY <1>22 DEF J!Open130, J!Goto, J!jobvars, J!filevars, J!viewvars, StartOK, SeenOK, SinceOK,
       ViewTypes, ViewFlags, JobTypes, J!Ended
  <1>23. ASSUME NEW v \in Viewers, J!Write130(v)
         PROVE  SinceOK'
    BY <1>23 DEF J!Write130, J!Answer, J!Report, J!Goto, J!jobvars, J!filevars, J!viewvars, StartOK,
       SeenOK, SinceOK, ViewTypes, ViewFlags, JobTypes, J!Ended
  <1>24. CASE UNCHANGED jvars
    BY <1>24 DEF jvars, StartOK, SeenOK, SinceOK, ViewTypes, ViewFlags, JobTypes, J!Ended
  <1>25. CASE J!Reuse
    BY <1>25 DEF J!Reuse, J!jobvars, J!filevars, J!viewvars, StartOK, SeenOK, SinceOK, ViewTypes,
       ViewFlags, JobTypes, J!Ended
  <1> QED
    BY <1>1, <1>2, <1>3, <1>4, <1>5, <1>6, <1>7, <1>8, <1>9, <1>10, <1>11, <1>12, <1>13, <1>14,
       <1>15, <1>16, <1>17, <1>18, <1>19, <1>20, <1>21, <1>22, <1>23, <1>24, <1>25, Zenon DEF J!Next,
       J!View

LEMMA JobsStart == J!Init => JobsInv
  <1> SUFFICES ASSUME J!Init
               PROVE  JobsInv
    OBVIOUS
  <1>1. JobTypes /\ StartOK /\ ExitOK
    BY DEF J!Init, JobTypes, StartOK, ExitOK
  <1>2. JobFlags /\ ViewFlags /\ ViewTypes
    BY DEF J!Init, JobFlags, ViewFlags, ViewTypes
  <1>3. SeenOK /\ SinceOK
    BY DEF J!Init, SeenOK, SinceOK
  <1> QED
    BY <1>1, <1>2, <1>3, Zenon DEF JobsInv

LEMMA JobsStep ==
  ASSUME JobsInv, [J!Next]_jvars
  PROVE  JobsInv'
  BY JobTypesStay, JobFlagsStay, ViewFlagsStay, ViewTypesStay, StartStays, ExitStays, SeenStays,
     SinceStays, Zenon DEF JobsInv

LEMMA JobsTell == JobsInv => J!EndedStaysEnded /\ J!EndIsTrue /\ J!JobsSeen
  <1> SUFFICES ASSUME JobsInv
               PROVE  J!EndedStaysEnded /\ J!EndIsTrue /\ J!JobsSeen
    OBVIOUS
  <1> USE DEF JobsInv
  <1>1. J!EndedStaysEnded
    BY Zenon DEF SinceOK, J!EndedStaysEnded
  <1>2. J!EndIsTrue
    BY DEF SeenOK, J!EndIsTrue
  <1>3. J!FailedStartRunsNothing /\ J!RunningIsVisible
    BY DEF StartOK, J!FailedStartRunsNothing, J!RunningIsVisible, J!Working
  <1>5. J!UnseenIsExplained
    BY DEF JobTypes, StartOK, J!UnseenIsExplained, J!Working
  <1>4. J!TypeOK
    <2>1. {parent, late, over} \subseteq BOOLEAN /\ {since, stamped} \subseteq [Viewers -> BOOLEAN]
      BY Zenon DEF JobFlags, ViewFlags
    <2>2. report \in [Viewers -> J!Ended \cup {"none", "unreadable", "running", "not running"}]
      BY DEF ViewTypes, J!Ended
    <2>3. \A v \in Viewers : pc[v] \in {"read", "finish"} => exitf # "none"
      BY DEF ExitOK
    <2> QED
      BY <2>1, <2>2, <2>3, Zenon DEF JobTypes, ViewTypes, J!TypeOK, J!Codes
  <1> QED
    BY <1>1, <1>2, <1>3, <1>4, <1>5, Zenon DEF J!JobsSeen
-----------------------------------------------------------------------------
(* For every number of sessions, requests and viewers: the count of calls  *)
(* is right, or too high after an id was used twice, and the idle check    *)
(* overlooks no local call (daemon.py, in_flight); nobody is told that a   *)
(* job runs after its end was reported, as long as its pid is not given    *)
(* away; an end that was reported is true of the wrapper; and a command    *)
(* runs without a record only in the three ways of UnseenIsExplained       *)
(* (jobs.py).                                                              *)
THEOREM BooksAreRight == Spec => []DaemonAccounted
  <1>1. Init => DaemonInv /\ JobsInv
    BY DaemonStarts, JobsStart, Zenon DEF Init
  <1>2. DaemonInv /\ JobsInv /\ [Next]_vars => DaemonInv' /\ JobsInv'
    <2> SUFFICES ASSUME DaemonInv, JobsInv, [Next]_vars
                 PROVE  DaemonInv' /\ JobsInv'
      OBVIOUS
    <2>1. [D!Next]_dvars /\ [J!Next]_jvars
      BY Zenon DEF Next, vars
    <2> QED
      BY <2>1, DaemonSteps, JobsStep, Zenon
  <1>3. DaemonInv /\ JobsInv => DaemonAccounted
    BY DaemonTells, JobsTell, Zenon DEF DaemonAccounted
  <1> QED
    BY <1>1, <1>2, <1>3, PTL DEF Spec
-----------------------------------------------------------------------------
(* The relay.                                                              *)
(*                                                                         *)
(* RelayInv follows one message.  A request has one token: it is with the  *)
(* client (Fresh), on its way to a server, worked on, or answered on the   *)
(* way back (Seen), at one server at most (TokenOK); so its answer is      *)
(* copied once and it is begun once (AnsweredOK), whatever was replayed    *)
(* meanwhile.  Latest says that only the server connected to last can      *)
(* still be sent to, and SessionOK that its session, with the lines it     *)
(* has not read, is as far as the client thinks, but for a line the        *)
(* client thread is about to send.                                         *)
(* x is in the queue q, and not twice.                                     *)
In(q, x) == \E k \in 1..Len(q) : q[k] = x
Once(q, x) == \A j, k \in 1..Len(q) : q[j] = x /\ q[k] = x => j = k

ClientLines == {R!Initialized} \cup {R!Request(i) : i \in R!Ids} \cup {R!Cancelled(r) : r \in Reqs}
RequestLines == {R!Request(r) : r \in Reqs}

(* The client thread has a line that it has not sent, or not noted, yet;   *)
(* a request no server saw; and one that server b has, in any stage.       *)
Carries(line) == cpc \in {"note", "pick", "send"} /\ cline = line
Takes(line) == cpc = "note" /\ cline = line
Fresh(i) == In(stdin, R!Request(i)) \/ Carries(R!Request(i))
Unnoted(i) == In(stdin, R!Request(i)) \/ Takes(R!Request(i))
Seen(i, b) == In(inq[b], R!Request(i)) \/ i \in running[b] \/ In(outq[b], i)

(* TypeOK in three parts; what the client says is of ClientLines.          *)
ClientTypes ==
    /\ stdin \in Seq(ClientLines)
    /\ said \subseteq ClientLines
    /\ gone \in BOOLEAN
    /\ cpc \in {"read", "note", "pick", "send", "dead", "ended"}
    /\ cline \in ClientLines
    /\ cback \in 0..started
    /\ initLine \in BOOLEAN
    /\ initializedLine \in BOOLEAN
    /\ closing \in BOOLEAN

RelayTypes ==
    /\ pending \subseteq R!Ids
    /\ todo \subseteq Reqs
    /\ swallow \subseteq 1..replays
    /\ replays \in 0..(started - 1)
    /\ log \in [R!Ids \cup R!ReplayIds -> Seq({"answer", "error"})]
    /\ backend \in 0..started
    /\ sback \in 0..started
    /\ spc \in {"loop", "reading", "fail", "failing", "replay", "initialized", "install",
                "ended", "failed"}
    /\ started \in R!Backends
    /\ up \subseteq 1..started
    /\ closed \subseteq 1..started

ServerTypes ==
    /\ kind \in [R!Backends -> {"daemon", "child"}]
    /\ inq \in [R!Backends -> Seq(R!Lines)]
    /\ outq \in [R!Backends -> Seq(R!Ids \cup R!ReplayIds)]
    /\ session \in [R!Backends -> {"new", "init", "ready"}]
    /\ running \in [R!Backends -> SUBSET (R!Ids \cup R!ReplayIds)]
    /\ runs \in [R!Ids -> Nat]
    /\ early \subseteq Reqs

Types == ClientTypes /\ RelayTypes /\ ServerTypes

(* Only the server connected to last can be sent to, each thread is there  *)
(* or nowhere, and the client thread is not while the handshake is         *)
(* replayed to it.                                                         *)
Latest ==
    /\ backend \in {R!NoBackend, started}
    /\ \A b \in R!Backends : R!Open(b) => b = started
    /\ backend = R!NoBackend /\ spc \in {"loop", "reading", "fail", "failing"} => ~R!Open(started)
    /\ spc \in {"fail", "failing", "replay", "initialized", "install"} => backend = R!NoBackend
    /\ spc \in {"reading", "replay", "initialized", "install"} => sback = started
    /\ spc \in {"replay", "initialized", "install"} => cback # started
    /\ cpc = "send" => cback \in 1..started
    /\ spc # "failing" => todo = {}
    /\ spc = "replay" => replays < started - 1

(* Nothing is known of a request the client has not written, and one it    *)
(* wrote comes once.                                                       *)
LinesOK ==
    /\ \A x \in ClientLines : In(stdin, x) \/ Carries(x) => x \in said
    /\ \A i \in R!Ids : Once(stdin, R!Request(i)) /\ ~(In(stdin, R!Request(i)) /\ Carries(R!Request(i)))
    /\ \A i \in R!Ids :
          i \in pending \cup todo \/ log[i] # <<>> \/ runs[i] # 0 \/ (\E b \in R!Backends : Seen(i, b))
             => R!Request(i) \in said

(* Every request of q comes after the initialized notification.            *)
Behind(q) == \A k \in 1..Len(q) : q[k] \in RequestLines => \E j \in 1..(k - 1) : q[j] = R!Initialized

(* The client follows the protocol, and the replay lines are noted before  *)
(* a line that depends on them is sent.                                    *)
OrderOK ==
    /\ R!Initialized \in said => log[InitId] # <<>>
    /\ R!Initialized \in said => initializedLine \/ In(stdin, R!Initialized)
    /\ initializedLine => R!Initialized \in said
    /\ initializedLine \/ Behind(stdin)
    /\ RequestLines \cap said # {} => R!Initialized \in said
    /\ \A r \in Reqs : Carries(R!Request(r)) => initializedLine
    /\ Carries(R!Initialized) => initializedLine
    /\ Carries(R!Request(InitId)) \/ InitId \in pending \/ log[InitId] # <<>>
          \/ (\E b \in R!Backends : Seen(InitId, b)) => initLine

(* What is in flight, or about to be failed, has no answer yet.            *)
Unanswered == \A i \in R!Ids :
    /\ Unnoted(i) => log[i] = <<>> /\ i \notin pending /\ i \notin todo /\ \A b \in R!Backends : ~Seen(i, b)
    /\ i \in pending => log[i] = <<>> /\ i \notin todo
    /\ i \in todo => log[i] = <<>>

(* One token for each id but initialize, which may be sent again.          *)
Tracked == Reqs \cup R!ReplayIds
OneStage(i, b) ==
    /\ Once(inq[b], R!Request(i)) /\ Once(outq[b], i)
    /\ In(inq[b], R!Request(i)) => i \notin running[b] /\ ~In(outq[b], i)
    /\ i \in running[b] => ~In(outq[b], i)
TokenOK == \A i \in Tracked :
    /\ Fresh(i) => \A b \in R!Backends : ~Seen(i, b)
    /\ \A b, c \in R!Backends : Seen(i, b) /\ Seen(i, c) => b = c
    /\ \A b \in R!Backends : OneStage(i, b)

(* A request some server has was not answered by one, and a replay some    *)
(* server has is to be swallowed.                                          *)
AnsweredOK ==
    /\ \A i \in Reqs : /\ Fresh(i) \/ (\E b \in R!Backends : Seen(i, b)) => log[i] \in {<<>>, <<"error">>}
                       /\ Fresh(i) \/ (\E b \in R!Backends : In(inq[b], R!Request(i))) => runs[i] = 0
    /\ \A i \in R!ReplayIds : \A b \in R!Backends : Seen(i, b) => i \in swallow

(* A session in state s that still has the lines of q to read: it has or   *)
(* will have seen initialize, and initialized; no request comes too early. *)
Handshake(l) == l[1] = "request" /\ l[2] \notin Reqs
ShookAt(s, q, n) == s # "new" \/ \E k \in 1..n : Handshake(q[k])
Handshook(s, q) == ShookAt(s, q, Len(q))
ReadyAt(s, q, n) ==
    \/ s = "ready"
    \/ \E j \in 1..n : q[j] = R!Initialized /\ ShookAt(s, q, j - 1)
Ready(s, q) == ReadyAt(s, q, Len(q))
Ordered(s, q) == \A i \in 1..Len(q) : q[i] \in RequestLines => ReadyAt(s, q, i - 1)

(* The client thread still has this line for the latest server.            *)
Brings(line) == /\ cline = line
                /\ cpc \in {"note", "pick"} \/ (cpc = "send" /\ cback = started)

SessionOK ==
    /\ \A b \in R!Backends : Ordered(session[b], inq[b])
    /\ R!Open(started) /\ spc # "replay" /\ initLine /\ ~Brings(R!Request(InitId))
            => Handshook(session[started], inq[started])
    /\ R!Open(started) /\ spc \notin {"replay", "initialized"} /\ initializedLine /\ ~Brings(R!Initialized)
            => Ready(session[started], inq[started])
    /\ spc = "initialized" => initLine
    /\ initializedLine => ~Carries(R!Request(InitId))

RelayInv ==
    /\ R!RelayAssumption
    /\ Types /\ Latest /\ LinesOK /\ OrderOK /\ Unanswered /\ TokenOK /\ AnsweredOK /\ SessionOK
    /\ R!RelayAccounted
-----------------------------------------------------------------------------
(* Queues: what is in one that grows at its end or shrinks at its head.    *)
LEMMA LinesDiffer ==
  /\ \A i, j : R!Request(i) = R!Request(j) => i = j
  /\ \A i : R!Request(i) # R!Initialized /\ R!Request(i)[1] = "request" /\ R!Request(i)[2] = i
  /\ \A i, r : R!Cancelled(r) # R!Request(i)
  /\ \A r : R!Cancelled(r) # R!Initialized /\ R!Cancelled(r)[1] = "cancelled" /\ R!Cancelled(r)[2] = r
  /\ R!Initialized[1] = "initialized" /\ R!Initialized[2] = InitId
  BY DEF R!Request, R!Initialized, R!Cancelled

LEMMA EmptyHas == \A x : ~In(<<>>, x) /\ Once(<<>>, x)
  <1>1. Len(<<>>) = 0
    BY EmptySeq
  <1> QED
    BY <1>1 DEF In, Once

LEMMA GrownHas ==
  ASSUME NEW S, NEW q \in Seq(S), NEW y \in S
  PROVE  /\ Append(q, y) \in Seq(S)
         /\ \A x : In(Append(q, y), x) <=> In(q, x) \/ x = y
         /\ \A x : Once(q, x) /\ ~(x = y /\ In(q, x)) => Once(Append(q, y), x)
  <1>1. /\ Append(q, y) \in Seq(S) /\ Len(q) \in Nat /\ Len(Append(q, y)) = Len(q) + 1
        /\ \A k \in 1..Len(q) : Append(q, y)[k] = q[k]
        /\ Append(q, y)[Len(q) + 1] = y
    BY AppendProperties, LenProperties
  <1>2. \A k \in 1..(Len(q) + 1) : k \in 1..Len(q) \/ k = Len(q) + 1
    BY <1>1
  <1>3. \A k \in 1..Len(q) : k \in 1..(Len(q) + 1) /\ k # Len(q) + 1
    BY <1>1
  <1>4. Len(q) + 1 \in 1..(Len(q) + 1)
    BY <1>1
  <1>5. ASSUME NEW x PROVE In(Append(q, y), x) <=> In(q, x) \/ x = y
    <2>1. In(Append(q, y), x) => In(q, x) \/ x = y
      BY <1>1, <1>2 DEF In
    <2>2. In(q, x) \/ x = y => In(Append(q, y), x)
      BY <1>1, <1>3, <1>4 DEF In
    <2> QED
      BY <2>1, <2>2
  <1>6. ASSUME NEW x, Once(q, x), ~(x = y /\ In(q, x))
        PROVE  Once(Append(q, y), x)
    BY <1>1, <1>2, <1>3, <1>6 DEF In, Once
  <1> QED
    BY <1>1, <1>5, <1>6

LEMMA ShrunkHas ==
  ASSUME NEW S, NEW q \in Seq(S), q # <<>>
  PROVE  /\ Head(q) \in S /\ Tail(q) \in Seq(S)
         /\ \A x : In(q, x) <=> In(Tail(q), x) \/ x = Head(q)
         /\ \A x : Once(q, x) => Once(Tail(q), x) /\ ~(x = Head(q) /\ In(Tail(q), x))
  <1>1. /\ Head(q) \in S /\ Tail(q) \in Seq(S) /\ Len(Tail(q)) = Len(q) - 1
        /\ \A k \in 1..Len(Tail(q)) : Tail(q)[k] = q[k + 1]
    BY HeadTailProperties, Zenon
  <1>2. Head(q) = q[1]
    OBVIOUS
  <1>3. Len(q) \in Nat \ {0}
    BY EmptySeq, Zenon
  <1>4. \A k \in 1..Len(q) : k = 1 \/ (k - 1 \in 1..(Len(q) - 1) /\ k = (k - 1) + 1)
    BY <1>3
  <1>5. \A k \in 1..(Len(q) - 1) : k + 1 \in 1..Len(q) /\ k + 1 # 1 /\ k \in Int
    BY <1>3
  <1>6. 1 \in 1..Len(q)
    BY <1>3
  <1>7. \A k \in 1..(Len(q) - 1) : Tail(q)[k] = q[k + 1]
    BY <1>1
  <1>8. ASSUME NEW x PROVE In(q, x) <=> In(Tail(q), x) \/ x = Head(q)
    <2>1. In(q, x) => In(Tail(q), x) \/ x = Head(q)
      <3> SUFFICES ASSUME NEW k \in 1..Len(q), q[k] = x, k # 1
                   PROVE  In(Tail(q), x)
        BY <1>2 DEF In
      <3>1. Tail(q)[k - 1] = x /\ k - 1 \in 1..(Len(q) - 1)
        BY <1>4, <1>7
      <3> QED
        BY <3>1, <1>1 DEF In
    <2>2. In(Tail(q), x) \/ x = Head(q) => In(q, x)
      BY <1>1, <1>2, <1>5, <1>6, <1>7 DEF In
    <2> QED
      BY <2>1, <2>2
  <1>9. ASSUME NEW x, Once(q, x)
        PROVE  Once(Tail(q), x) /\ ~(x = Head(q) /\ In(Tail(q), x))
    <2>1. Once(Tail(q), x)
      BY <1>1, <1>5, <1>7, <1>9 DEF Once
    <2>2. ~(x = Head(q) /\ In(Tail(q), x))
      BY <1>1, <1>2, <1>5, <1>6, <1>7, <1>9 DEF Once, In
    <2> QED
      BY <2>1, <2>2
  <1> QED
    BY <1>1, <1>8, <1>9

(* A line more at the end of a server's queue.                             *)
LEMMA SessionGrows ==
  ASSUME NEW S, NEW q \in Seq(S), NEW y \in S, NEW s
  PROVE  /\ Handshook(s, q) \/ Handshake(y) => Handshook(s, Append(q, y))
         /\ Ready(s, q) => Ready(s, Append(q, y))
         /\ Handshook(s, q) /\ y = R!Initialized => Ready(s, Append(q, y))
         /\ Ordered(s, q) /\ (y \in RequestLines => Ready(s, q)) => Ordered(s, Append(q, y))
  <1> DEFINE n == Len(q)
             p == Append(q, y)
  <1>1. /\ n \in Nat /\ Len(p) = n + 1 /\ p[n + 1] = y
        /\ \A k \in 1..n : p[k] = q[k]
    BY AppendProperties, LenProperties
  <1>2. \A k \in 1..(n + 1) : k \in 1..n \/ k = n + 1
    BY <1>1
  <1>3. \A k \in 1..n : k \in 1..(n + 1) /\ \A j \in 1..(k - 1) : j \in 1..n
    BY <1>1
  <1>4. n + 1 \in 1..(n + 1) /\ (n + 1) - 1 = n
    BY <1>1
  <1> HIDE DEF n, p
  <1>5. \A k \in 1..n : ShookAt(s, p, k - 1) <=> ShookAt(s, q, k - 1)
    BY <1>1, <1>3 DEF ShookAt
  <1>6. ShookAt(s, p, n) <=> ShookAt(s, q, n)
    BY <1>1 DEF ShookAt
  <1>7. ShookAt(s, q, n) \/ Handshake(y) => ShookAt(s, p, n + 1)
    BY <1>1, <1>3, <1>4 DEF ShookAt
  <1>8. \A k \in 1..n : ReadyAt(s, p, k - 1) <=> ReadyAt(s, q, k - 1)
    BY <1>1, <1>3, <1>5 DEF ReadyAt
  <1>9. ReadyAt(s, p, n) <=> ReadyAt(s, q, n)
    BY <1>1, <1>5 DEF ReadyAt
  <1>10. ReadyAt(s, q, n) => ReadyAt(s, p, n + 1)
    BY <1>9, <1>3 DEF ReadyAt
  <1>11. ShookAt(s, q, n) /\ y = R!Initialized => ReadyAt(s, p, n + 1)
    BY <1>1, <1>4, <1>6 DEF ReadyAt
  <1>12. ASSUME Ordered(s, q), y \in RequestLines => ReadyAt(s, q, n)
         PROVE  \A i \in 1..(n + 1) : p[i] \in RequestLines => ReadyAt(s, p, i - 1)
    <2>1. \A i \in 1..n : p[i] \in RequestLines => ReadyAt(s, p, i - 1)
      BY <1>1, <1>8, <1>12 DEF Ordered, n
    <2>2. p[n + 1] \in RequestLines => ReadyAt(s, p, (n + 1) - 1)
      BY <1>1, <1>4, <1>9, <1>12
    <2> QED
      BY <1>2, <2>1, <2>2
  <1> QED
    BY <1>1, <1>7, <1>10, <1>11, <1>12 DEF Handshook, Ready, Ordered, n, p

(* The server reads the first line of its queue.                           *)
SessionAfter(s, line) == IF line = R!Initialized /\ s # "new" THEN "ready"
                         ELSE IF Handshake(line) /\ s = "new" THEN "init" ELSE s

LEMMA SessionShrinks ==
  ASSUME NEW S, NEW q \in Seq(S), q # <<>>, NEW s
  PROVE  /\ Handshook(s, q) => Handshook(SessionAfter(s, Head(q)), Tail(q))
         /\ Ready(s, q) => Ready(SessionAfter(s, Head(q)), Tail(q))
         /\ Ordered(s, q) => Ordered(SessionAfter(s, Head(q)), Tail(q))
         /\ Ordered(s, q) /\ Head(q) \in RequestLines => s = "ready"
  <1> DEFINE n == Len(q)
             p == Tail(q)
             t == SessionAfter(s, Head(q))
  <1>1. Len(p) = n - 1 /\ \A k \in 1..Len(p) : p[k] = q[k + 1]
    BY HeadTailProperties, Zenon
  <1>2. Head(q) = q[1]
    OBVIOUS
  <1>3. n \in Nat \ {0}
    BY EmptySeq, Zenon
  <1>4. /\ s # "new" => t # "new"
        /\ s = "ready" => t = "ready"
        /\ q[1] = R!Initialized /\ s # "new" => t = "ready"
        /\ Handshake(q[1]) => t # "new"
    BY <1>2 DEF SessionAfter
  <1> HIDE DEF n, p, t
  <1>5. \A k \in 1..(n - 1) : p[k] = q[k + 1]
    BY <1>1
  <1>6. ASSUME NEW m \in 1..n, ShookAt(s, q, m)
        PROVE  ShookAt(t, p, m - 1)
    <2>1. CASE s # "new"
      BY <2>1, <1>4 DEF ShookAt
    <2>2. CASE s = "new"
      <3>1. PICK k \in 1..m : Handshake(q[k])
        BY <2>2, <1>6 DEF ShookAt
      <3>2. CASE k = 1
        BY <3>1, <3>2, <1>4 DEF ShookAt
      <3>3. CASE k # 1
        <4>1. k - 1 \in 1..(m - 1) /\ k - 1 \in 1..(n - 1) /\ (k - 1) + 1 = k
          BY <3>3, <1>3
        <4>2. p[k - 1] = q[k]
          BY <4>1, <1>5
        <4> QED
          BY <3>1, <4>1, <4>2 DEF ShookAt
      <3> QED
        BY <3>2, <3>3
    <2> QED
      BY <2>1, <2>2
  <1>7. ASSUME ShookAt(s, q, 0)
        PROVE  s # "new"
    BY <1>7 DEF ShookAt
  <1>8. ASSUME NEW m \in 1..n, ReadyAt(s, q, m)
        PROVE  ReadyAt(t, p, m - 1)
    <2>1. CASE s = "ready"
      BY <2>1, <1>4 DEF ReadyAt
    <2>2. CASE s # "ready"
      <3>1. PICK j \in 1..m : q[j] = R!Initialized /\ ShookAt(s, q, j - 1)
        BY <2>2, <1>8 DEF ReadyAt
      <3>2. CASE j = 1
        BY <3>1, <3>2, <1>4, <1>7 DEF ReadyAt
      <3>3. CASE j # 1
        <4>1. /\ j - 1 \in 1..(m - 1) /\ j - 1 \in 1..(n - 1) /\ (j - 1) + 1 = j
              /\ j - 1 \in 1..n
          BY <3>3, <1>3
        <4>2. p[j - 1] = R!Initialized
          BY <3>1, <4>1, <1>5
        <4>3. ShookAt(t, p, (j - 1) - 1)
          BY <3>1, <4>1, <1>6
        <4> QED
          BY <4>1, <4>2, <4>3 DEF ReadyAt
      <3> QED
        BY <3>2, <3>3
    <2> QED
      BY <2>1, <2>2
  <1>9. ASSUME Ordered(s, q)
        PROVE  Ordered(t, p)
    <2> SUFFICES ASSUME NEW i \in 1..(n - 1), p[i] \in RequestLines
                 PROVE  ReadyAt(t, p, i - 1)
      BY <1>1 DEF Ordered
    <2>1. i + 1 \in 1..n /\ (i + 1) - 1 = i /\ i \in 1..n
      BY <1>3
    <2>2. ReadyAt(s, q, i)
      BY <2>1, <1>5, <1>9 DEF Ordered, n
    <2> QED
      BY <2>1, <2>2, <1>8
  <1>10. ASSUME Ordered(s, q), q[1] \in RequestLines
         PROVE  s = "ready"
    <2>1. ReadyAt(s, q, 0)
      BY <1>3, <1>10 DEF Ordered, n
    <2> QED
      BY <2>1 DEF ReadyAt
  <1>11. n \in 1..n
    BY <1>3
  <1> QED
    BY <1>1, <1>2, <1>6, <1>8, <1>9, <1>10, <1>11 DEF Handshook, Ready, n, p, t
-----------------------------------------------------------------------------
(* Types.                                                                  *)
LEMMA LineTypes ==
  ASSUME R!RelayAssumption
  PROVE  /\ ClientLines \subseteq R!Lines /\ R!Initialized \in R!Lines
         /\ \A i \in R!Ids \cup R!ReplayIds : R!Request(i) \in R!Lines
         /\ \A line \in ClientLines : line[1] = "request" => line[2] \in R!Ids /\ line = R!Request(line[2])
         /\ \A line \in ClientLines : line[1] = "cancelled"
                => line[2] \in Reqs /\ line = R!Cancelled(line[2])
         /\ \A line \in ClientLines : line[1] \notin {"request", "cancelled"} => line = R!Initialized
         /\ \A line \in R!Lines : line[1] = "request"
                => line[2] \in R!Ids \cup R!ReplayIds /\ line = R!Request(line[2])
         /\ \A line \in R!Lines : line = R!Initialized => line[1] # "request"
         /\ \A line \in R!Lines : Handshake(line) => line[1] = "request"
         /\ 1 \in R!Backends
  BY DEF ClientLines, R!Lines, R!Request, R!Initialized, R!Cancelled, R!Ids, Handshake, R!Backends,
         R!RelayAssumption

(* Every step keeps the types.                                             *)
LEMMA ClientTypesStay ==
  ASSUME RelayInv, [R!Next]_R!vars
  PROVE  ClientTypes'
  <1>0. R!RelayAssumption /\ ClientTypes /\ RelayTypes
    BY DEF RelayInv, Types
  <1> USE DEF R!clientvars, R!fields, R!cvars, R!svars, R!world, ClientTypes
  <1>1. CASE R!ClientSpeaks
    <2>1. PICK line \in ClientLines : R!Says(line)
      BY <1>1 DEF R!ClientSpeaks, ClientLines, R!Ids
    <2> QED
      BY <1>0, <2>1, GrownHas DEF R!Says
  <1>2. CASE R!ClientLeaves
    BY <1>0, <1>2 DEF R!ClientLeaves
  <1>3. CASE R!NoteLine
    <2>1. Head(stdin) \in ClientLines /\ Tail(stdin) \in Seq(ClientLines)
      BY <1>0, <1>3, ShrunkHas DEF R!NoteLine
    <2> QED
      BY <1>0, <1>3, <2>1 DEF R!NoteLine
  <1>4. CASE R!NoteId
    BY <1>0, <1>4 DEF R!NoteId
  <1>5. CASE R!PickBackend
    BY <1>0, <1>5 DEF R!PickBackend, RelayTypes
  <1>6. CASE R!SendLine
    BY <1>0, <1>6 DEF R!SendLine
  <1>7. CASE R!SendBreaks
    BY <1>0, <1>7 DEF R!SendBreaks
  <1>8. CASE R!ClientEnds
    BY <1>0, <1>8 DEF R!ClientEnds
  <1>9. CASE R!Reconnect
    BY <1>0, <1>9 DEF R!Reconnect, RelayTypes, R!Backends
  <1>10. CASE \/ R!ServerLoop \/ R!CopyAnswer \/ R!ReadEOF \/ R!FailInFlight \/ R!WriteError
              \/ R!Replay \/ R!ReplayInitialized \/ R!ReplayBreaks \/ R!Install
    BY <1>0, <1>10 DEF R!ServerLoop, R!CopyAnswer, R!ReadEOF, R!FailInFlight, R!WriteError, R!Replay,
                      R!ReplayInitialized, R!ReplayBreaks, R!Install
  <1>11. ASSUME NEW b \in R!Backends, R!ServerReads(b) \/ R!ServerAnswers(b) \/ R!ServerDies(b)
         PROVE  ClientTypes'
    BY <1>0, <1>11 DEF R!ServerReads, R!ServerAnswers, R!ServerDies
  <1>12. CASE UNCHANGED R!vars
    BY <1>0, <1>12 DEF R!vars
  <1> QED
    BY <1>1, <1>2, <1>3, <1>4, <1>5, <1>6, <1>7, <1>8, <1>9, <1>10, <1>11, <1>12
       DEF R!Next, R!ClientThread, R!ServerThread

LEMMA RelayTypesStay ==
  ASSUME RelayInv, [R!Next]_R!vars
  PROVE  RelayTypes'
  <1>0. R!RelayAssumption /\ ClientTypes /\ RelayTypes /\ ServerTypes /\ Latest
    BY DEF RelayInv, Types
  <1> USE DEF R!clientvars, R!fields, R!cvars, R!svars, R!world, RelayTypes
  <1>1. CASE R!NoteId
    <2>1. pending' \subseteq R!Ids
      BY <1>0, <1>1, LineTypes DEF R!NoteId, ClientTypes
    <2> QED
      BY <1>0, <1>1, <2>1 DEF R!NoteId
  <1>2. CASE R!SendBreaks
    BY <1>0, <1>2 DEF R!SendBreaks, R!NoBackend, R!Backends
  <1>3. CASE R!ClientEnds
    BY <1>0, <1>3 DEF R!ClientEnds, R!NoBackend
  <1>4. CASE R!ServerLoop
    BY <1>0, <1>4 DEF R!ServerLoop, R!NoBackend
  <1>5. CASE R!CopyAnswer
    <2>1. sback \in R!Backends
      BY <1>0, <1>5 DEF R!CopyAnswer, Latest
    <2>2. Head(outq[sback]) \in R!Ids \cup R!ReplayIds
      BY <1>0, <1>5, <2>1, ShrunkHas DEF R!CopyAnswer, ServerTypes
    <2>3. log' \in [R!Ids \cup R!ReplayIds -> Seq({"answer", "error"})]
      <3>1. Append(log[Head(outq[sback])], "answer") \in Seq({"answer", "error"})
        BY <1>0, <2>2, GrownHas
      <3>2. CASE log' = log
        BY <1>0, <3>2
      <3>3. CASE log' = [log EXCEPT ![Head(outq[sback])] = Append(@, "answer")]
        BY <1>0, <2>2, <3>1, <3>3
      <3> QED
        BY <1>5, <3>2, <3>3 DEF R!CopyAnswer
    <2>4. swallow' \subseteq swallow /\ pending' \subseteq pending
      BY <1>5 DEF R!CopyAnswer
    <2> QED
      BY <1>0, <1>5, <2>3, <2>4 DEF R!CopyAnswer
  <1>6. CASE R!ReadEOF
    BY <1>0, <1>6 DEF R!ReadEOF, R!NoBackend, R!Backends, Latest
  <1>7. CASE R!FailInFlight
    BY <1>0, <1>7 DEF R!FailInFlight, R!Ids
  <1>8. CASE R!WriteError
    <2>1. PICK r \in todo : log' = [log EXCEPT ![r] = Append(@, "error")] /\ todo' = todo \ {r}
      BY <1>8 DEF R!WriteError
    <2>2. r \in R!Ids \cup R!ReplayIds
      BY <1>0, <2>1 DEF R!Ids
    <2>3. Append(log[r], "error") \in Seq({"answer", "error"})
      BY <1>0, <2>2, GrownHas
    <2>4. log' \in [R!Ids \cup R!ReplayIds -> Seq({"answer", "error"})]
      BY <1>0, <2>1, <2>2, <2>3
    <2> QED
      BY <1>0, <1>8, <2>1, <2>4 DEF R!WriteError
  <1>9. CASE R!Reconnect
    BY <1>0, <1>9 DEF R!Reconnect, R!Backends, R!RelayAssumption
  <1>10. CASE R!Replay
    <2>1. replays < started - 1 /\ started \in Nat /\ replays \in Nat
      BY <1>0, <1>10 DEF R!Replay, Latest, R!Backends
    <2>2. CASE UNCHANGED <<swallow, replays>>
      BY <1>0, <1>10, <2>2 DEF R!Replay
    <2>3. CASE replays' = replays + 1 /\ swallow' = swallow \cup {replays + 1}
      <3>1. replays' \in 0..(started - 1) /\ 1..replays \subseteq 1..(replays + 1)
        BY <2>1, <2>3
      <3>2. swallow' \subseteq 1..replays'
        BY <1>0, <2>1, <2>3, <3>1
      <3> QED
        BY <1>0, <1>10, <3>1, <3>2 DEF R!Replay
    <2> QED
      BY <1>10, <2>2, <2>3 DEF R!Replay
  <1>11. CASE R!ReplayInitialized
    BY <1>0, <1>11 DEF R!ReplayInitialized
  <1>12. CASE R!ReplayBreaks
    BY <1>0, <1>12 DEF R!ReplayBreaks, Latest, R!Backends
  <1>13. CASE R!Install
    BY <1>0, <1>13 DEF R!Install
  <1>14. ASSUME NEW b \in R!Backends, R!ServerDies(b)
         PROVE  RelayTypes'
    BY <1>0, <1>14 DEF R!ServerDies
  <1>15. CASE R!ClientLeaves \/ R!NoteLine \/ R!PickBackend \/ R!SendLine
    BY <1>0, <1>15 DEF R!ClientLeaves, R!NoteLine, R!PickBackend, R!SendLine
  <1>16. CASE R!ClientSpeaks
    BY <1>0, <1>16 DEF R!ClientSpeaks, R!Says
  <1>17. ASSUME NEW b \in R!Backends, R!ServerReads(b) \/ R!ServerAnswers(b)
         PROVE  RelayTypes'
    BY <1>0, <1>17 DEF R!ServerReads, R!ServerAnswers
  <1>18. CASE UNCHANGED R!vars
    BY <1>0, <1>18 DEF R!vars
  <1> QED
    BY <1>1, <1>2, <1>3, <1>4, <1>5, <1>6, <1>7, <1>8, <1>9, <1>10, <1>11, <1>12, <1>13, <1>14,
       <1>15, <1>16, <1>17, <1>18 DEF R!Next, R!ClientThread, R!ServerThread

(* A line to a server, and an answer from it. *)
Puts(b, line) == inq' = [inq EXCEPT ![b] = Append(@, line)]
Answers(b, i) == outq' = [outq EXCEPT ![b] = Append(@, i)]

LEMMA ServerTypesStay ==
  ASSUME RelayInv, [R!Next]_R!vars
  PROVE  ServerTypes'
  <1>0. R!RelayAssumption /\ ClientTypes /\ RelayTypes /\ ServerTypes /\ Latest
    BY DEF RelayInv, Types
  <1> USE DEF R!clientvars, R!fields, R!cvars, R!svars, R!world, ServerTypes
  <1>1. ASSUME NEW b \in R!Backends, NEW line \in R!Lines, Puts(b, line)
        PROVE  inq' \in [R!Backends -> Seq(R!Lines)]
    <2>1. Append(inq[b], line) \in Seq(R!Lines)
      BY <1>0, GrownHas
    <2> QED
      BY <1>0, <1>1, <2>1 DEF Puts
  <1>2. sback \in 0..started /\ 1..started \subseteq R!Backends
    BY <1>0 DEF RelayTypes, R!Backends, R!RelayAssumption
  <1>3. CASE R!SendLine
    <2>1. cback \in R!Backends /\ cline \in R!Lines
      BY <1>0, <1>2, <1>3, LineTypes DEF R!SendLine, Latest, ClientTypes
    <2>2. inq' \in [R!Backends -> Seq(R!Lines)]
      BY <1>1, <1>3, <2>1 DEF R!SendLine, Puts
    <2> QED
      BY <1>0, <1>3, <2>2 DEF R!SendLine
  <1>4. CASE R!CopyAnswer
    <2>1. sback \in R!Backends
      BY <1>0, <1>4 DEF R!CopyAnswer, Latest, RelayTypes
    <2>2. Tail(outq[sback]) \in Seq(R!Ids \cup R!ReplayIds)
      BY <1>0, <1>4, <2>1, ShrunkHas DEF R!CopyAnswer
    <2>3. outq' \in [R!Backends -> Seq(R!Ids \cup R!ReplayIds)]
      BY <1>0, <1>4, <2>1, <2>2 DEF R!CopyAnswer
    <2> QED
      BY <1>0, <1>4, <2>3 DEF R!CopyAnswer
  <1>5. CASE R!Reconnect
    <2>1. kind' \in [R!Backends -> {"daemon", "child"}]
      BY <1>0, <1>5 DEF R!Reconnect, R!RelayAssumption
    <2> QED
      BY <1>0, <1>5, <2>1 DEF R!Reconnect
  <1>6. CASE R!Replay
    <2>1. sback \in R!Backends /\ replays + 1 \in R!ReplayIds
      <3>1. sback = started /\ replays < started - 1
        BY <1>0, <1>6 DEF R!Replay, Latest
      <3>2. started \in R!Backends /\ replays \in Nat /\ MaxBackends \in Nat
        BY <1>0 DEF RelayTypes, R!RelayAssumption
      <3> QED
        BY <3>1, <3>2 DEF R!Backends, R!ReplayIds
    <2>2. R!Request(InitId) \in R!Lines /\ R!Request(replays + 1) \in R!Lines
      BY <1>0, <2>1, LineTypes DEF R!Ids
    <2>3. inq' \in [R!Backends -> Seq(R!Lines)]
      <3>1. CASE UNCHANGED inq
        BY <1>0, <3>1
      <3>2. CASE Puts(sback, R!Request(InitId))
        BY <1>1, <2>1, <2>2, <3>2
      <3>3. CASE Puts(sback, R!Request(replays + 1))
        BY <1>1, <2>1, <2>2, <3>3
      <3> QED
        BY <1>6, <3>1, <3>2, <3>3 DEF R!Replay, Puts
    <2> QED
      BY <1>0, <1>6, <2>3 DEF R!Replay
  <1>7. CASE R!ReplayInitialized
    <2>1. sback \in R!Backends /\ R!Initialized \in R!Lines
      BY <1>0, <1>7, LineTypes DEF R!ReplayInitialized, Latest, RelayTypes
    <2>2. inq' \in [R!Backends -> Seq(R!Lines)]
      <3>1. CASE UNCHANGED inq
        BY <1>0, <3>1
      <3>2. CASE Puts(sback, R!Initialized)
        BY <1>1, <2>1, <3>2
      <3> QED
        BY <1>7, <3>1, <3>2 DEF R!ReplayInitialized, Puts
    <2> QED
      BY <1>0, <1>7, <2>2 DEF R!ReplayInitialized
  <1>8. ASSUME NEW b \in R!Backends, R!ServerReads(b)
        PROVE  ServerTypes'
    <2> DEFINE line == Head(inq[b])
    <2>1. line \in R!Lines /\ Tail(inq[b]) \in Seq(R!Lines)
      BY <1>0, <1>8, ShrunkHas DEF R!ServerReads
    <2>2. line[1] = "request" => line[2] \in R!Ids \cup R!ReplayIds
      BY <1>0, <2>1, LineTypes
    <2> HIDE DEF line
    <2>3. inq' \in [R!Backends -> Seq(R!Lines)]
      BY <1>0, <1>8, <2>1 DEF R!ServerReads
    <2>4. session' \in [R!Backends -> {"new", "init", "ready"}]
      BY <1>0, <1>8 DEF R!ServerReads
    <2>5. running' \in [R!Backends -> SUBSET (R!Ids \cup R!ReplayIds)]
      BY <1>0, <1>8, <2>2 DEF R!ServerReads, line
    <2>6. runs' \in [R!Ids -> Nat] /\ early' \subseteq Reqs
      BY <1>0, <1>8 DEF R!ServerReads
    <2> QED
      BY <1>0, <1>8, <2>3, <2>4, <2>5, <2>6 DEF R!ServerReads
  <1>9. ASSUME NEW b \in R!Backends, R!ServerAnswers(b)
        PROVE  ServerTypes'
    <2>1. PICK i \in running[b] : outq' = [outq EXCEPT ![b] = Append(@, i)]
                                  /\ running' = [running EXCEPT ![b] = @ \ {i}]
      BY <1>9 DEF R!ServerAnswers
    <2>2. Append(outq[b], i) \in Seq(R!Ids \cup R!ReplayIds)
      BY <1>0, <2>1, GrownHas
    <2>3. outq' \in [R!Backends -> Seq(R!Ids \cup R!ReplayIds)]
      BY <1>0, <2>1, <2>2
    <2>4. running' \in [R!Backends -> SUBSET (R!Ids \cup R!ReplayIds)]
      BY <1>0, <2>1
    <2> QED
      BY <1>0, <1>9, <2>3, <2>4 DEF R!ServerAnswers
  <1>10. ASSUME NEW b \in R!Backends, R!ServerDies(b)
         PROVE  ServerTypes'
    <2>1. <<>> \in Seq(R!Lines)
      BY EmptySeq
    <2> QED
      BY <1>0, <1>10, <2>1 DEF R!ServerDies
  <1>11. CASE R!ClientSpeaks
    BY <1>0, <1>11 DEF R!ClientSpeaks, R!Says
  <1>12. CASE R!ClientLeaves \/ R!NoteLine \/ R!NoteId \/ R!PickBackend \/ R!SendBreaks \/ R!ClientEnds
    BY <1>0, <1>12 DEF R!ClientLeaves, R!NoteLine, R!NoteId, R!PickBackend, R!SendBreaks, R!ClientEnds
  <1>13. CASE R!ServerLoop \/ R!ReadEOF \/ R!FailInFlight \/ R!WriteError \/ R!ReplayBreaks \/ R!Install
    BY <1>0, <1>13 DEF R!ServerLoop, R!ReadEOF, R!FailInFlight, R!WriteError, R!ReplayBreaks, R!Install
  <1>14. CASE UNCHANGED R!vars
    BY <1>0, <1>14 DEF R!vars
  <1> QED
    BY <1>3, <1>4, <1>5, <1>6, <1>7, <1>8, <1>9, <1>10, <1>11, <1>12, <1>13, <1>14
       DEF R!Next, R!ClientThread, R!ServerThread

(* Every step keeps Latest.                                                *)
LEMMA LatestStays ==
  ASSUME RelayInv, [R!Next]_R!vars
  PROVE  Latest'
  <1>0. R!RelayAssumption /\ ClientTypes /\ RelayTypes /\ Latest
    BY DEF RelayInv, Types
  <1> USE DEF R!clientvars, R!fields, R!cvars, R!svars, R!world, Latest
  <1>2. CASE R!ClientSpeaks
    BY <1>0, <1>2 DEF R!ClientSpeaks, R!Says, R!Open
  <1>3. CASE R!ClientLeaves \/ R!NoteLine \/ R!NoteId \/ R!SendLine
    BY <1>0, <1>3 DEF R!ClientLeaves, R!NoteLine, R!NoteId, R!SendLine, R!Open
  <1>4. CASE R!PickBackend
    BY <1>0, <1>4 DEF R!PickBackend, R!Open, RelayTypes, R!Backends, R!NoBackend
  <1>5. CASE R!SendBreaks
    BY <1>0, <1>5 DEF R!SendBreaks, R!Open
  <1>6. CASE R!ClientEnds
    BY <1>0, <1>6 DEF R!ClientEnds, R!Open
  <1>7. CASE R!ServerLoop
    BY <1>0, <1>7 DEF R!ServerLoop, R!Open
  <1>8. CASE R!CopyAnswer
    BY <1>0, <1>8 DEF R!CopyAnswer, R!Open
  <1>9. CASE R!ReadEOF
    BY <1>0, <1>9 DEF R!ReadEOF, R!Open
  <1>10. CASE R!FailInFlight
    BY <1>0, <1>10 DEF R!FailInFlight, R!Open
  <1>11. CASE R!WriteError
    BY <1>0, <1>11 DEF R!WriteError, R!Open
  <1>12. CASE R!Reconnect
    BY <1>0, <1>12 DEF R!Reconnect, R!Open, RelayTypes, ClientTypes, R!Backends, R!NoBackend
  <1>13. CASE R!Replay
    BY <1>0, <1>13 DEF R!Replay, R!Open
  <1>14. CASE R!ReplayInitialized
    BY <1>0, <1>14 DEF R!ReplayInitialized, R!Open
  <1>15. CASE R!ReplayBreaks
    BY <1>0, <1>15 DEF R!ReplayBreaks, R!Open
  <1>16. CASE R!Install
    BY <1>0, <1>16 DEF R!Install, R!Open, RelayTypes, R!Backends, R!NoBackend
  <1>17. ASSUME NEW b \in R!Backends, R!ServerReads(b) \/ R!ServerAnswers(b)
         PROVE  Latest'
    BY <1>0, <1>17 DEF R!ServerReads, R!ServerAnswers, R!Open
  <1>18. ASSUME NEW b \in R!Backends, R!ServerDies(b)
         PROVE  Latest'
    BY <1>0, <1>18 DEF R!ServerDies, R!Open
  <1>19. CASE UNCHANGED R!vars
    BY <1>0, <1>19 DEF R!vars, R!Open
  <1> QED
    BY <1>2, <1>3, <1>4, <1>5, <1>6, <1>7, <1>8, <1>9, <1>10, <1>11, <1>12, <1>13, <1>14,
       <1>15, <1>16, <1>17, <1>18, <1>19 DEF R!Next, R!ClientThread, R!ServerThread

(* What is in the queues when one of them grows or shrinks.                *)
LEMMA InqGrows ==
  ASSUME ServerTypes, NEW b \in R!Backends, NEW y \in R!Lines, Puts(b, y)
  PROVE  \A c \in R!Backends : \A x :
            /\ In(inq'[c], x) <=> In(inq[c], x) \/ (c = b /\ x = y)
            /\ Once(inq[c], x) /\ ~(c = b /\ x = y /\ In(inq[b], y)) => Once(inq'[c], x)
  <1>1. /\ \A x : In(Append(inq[b], y), x) <=> In(inq[b], x) \/ x = y
        /\ \A x : Once(inq[b], x) /\ ~(x = y /\ In(inq[b], x)) => Once(Append(inq[b], y), x)
    BY GrownHas DEF ServerTypes
  <1>2. inq'[b] = Append(inq[b], y) /\ \A c \in R!Backends \ {b} : inq'[c] = inq[c]
    BY DEF ServerTypes, Puts
  <1> QED
    BY <1>1, <1>2

LEMMA InqShrinks ==
  ASSUME ServerTypes, NEW b \in R!Backends, inq[b] # <<>>, inq' = [inq EXCEPT ![b] = Tail(@)]
  PROVE  /\ Head(inq[b]) \in R!Lines /\ In(inq[b], Head(inq[b]))
         /\ \A c \in R!Backends : \A x :
            /\ In(inq[c], x) <=> In(inq'[c], x) \/ (c = b /\ x = Head(inq[b]))
            /\ Once(inq[c], x) => Once(inq'[c], x) /\ ~(c = b /\ x = Head(inq[b]) /\ In(inq'[c], x))
  <1>1. /\ Head(inq[b]) \in R!Lines
        /\ \A x : In(inq[b], x) <=> In(Tail(inq[b]), x) \/ x = Head(inq[b])
        /\ \A x : Once(inq[b], x) => Once(Tail(inq[b]), x) /\ ~(x = Head(inq[b]) /\ In(Tail(inq[b]), x))
    BY ShrunkHas DEF ServerTypes
  <1>2. inq'[b] = Tail(inq[b]) /\ \A c \in R!Backends \ {b} : inq'[c] = inq[c]
    BY DEF ServerTypes
  <1> QED
    BY <1>1, <1>2

LEMMA OutqGrows ==
  ASSUME ServerTypes, NEW b \in R!Backends, NEW y \in R!Ids \cup R!ReplayIds, Answers(b, y)
  PROVE  \A c \in R!Backends : \A x :
            /\ In(outq'[c], x) <=> In(outq[c], x) \/ (c = b /\ x = y)
            /\ Once(outq[c], x) /\ ~(c = b /\ x = y /\ In(outq[b], y)) => Once(outq'[c], x)
  <1>1. /\ \A x : In(Append(outq[b], y), x) <=> In(outq[b], x) \/ x = y
        /\ \A x : Once(outq[b], x) /\ ~(x = y /\ In(outq[b], x)) => Once(Append(outq[b], y), x)
    <2>1. outq[b] \in Seq(R!Ids \cup R!ReplayIds)
      BY DEF ServerTypes
    <2> QED
      BY <2>1, GrownHas, Zenon
  <1>2. outq'[b] = Append(outq[b], y) /\ \A c \in R!Backends \ {b} : outq'[c] = outq[c]
    BY DEF ServerTypes, Answers
  <1> QED
    BY <1>1, <1>2

LEMMA OutqShrinks ==
  ASSUME ServerTypes, NEW b \in R!Backends, outq[b] # <<>>, outq' = [outq EXCEPT ![b] = Tail(@)]
  PROVE  /\ Head(outq[b]) \in R!Ids \cup R!ReplayIds /\ In(outq[b], Head(outq[b]))
         /\ \A c \in R!Backends : \A x :
            /\ In(outq[c], x) <=> In(outq'[c], x) \/ (c = b /\ x = Head(outq[b]))
            /\ Once(outq[c], x) => Once(outq'[c], x) /\ ~(c = b /\ x = Head(outq[b]) /\ In(outq'[c], x))
  <1>1. /\ Head(outq[b]) \in R!Ids \cup R!ReplayIds
        /\ \A x : In(outq[b], x) <=> In(Tail(outq[b]), x) \/ x = Head(outq[b])
        /\ \A x : Once(outq[b], x) => Once(Tail(outq[b]), x) /\ ~(x = Head(outq[b]) /\ In(Tail(outq[b]), x))
    BY ShrunkHas DEF ServerTypes
  <1>2. outq'[b] = Tail(outq[b]) /\ \A c \in R!Backends \ {b} : outq'[c] = outq[c]
    BY DEF ServerTypes
  <1> QED
    BY <1>1, <1>2

LEMMA LastIn ==
  ASSUME R!RelayAssumption, RelayTypes
  PROVE  started \in R!Backends /\ 1..started \subseteq R!Backends
  BY DEF RelayTypes, R!RelayAssumption, R!Backends

(* How a request comes to a server: it was there, the client thread sent   *)
(* it, or the server thread replayed initialize.                           *)
LEMMA SeenMoves ==
  ASSUME RelayInv, [R!Next]_R!vars, NEW i \in R!Ids \cup R!ReplayIds, NEW b \in R!Backends, Seen(i, b)'
  PROVE  \/ Seen(i, b)
         \/ R!SendLine /\ b = cback /\ cline = R!Request(i)
         \/ R!Replay /\ i = InitId /\ InitId \in pending
         \/ R!Replay /\ b = started /\ i = replays + 1 /\ i \in swallow' /\ i \in R!ReplayIds
  <1>0. R!RelayAssumption /\ ClientTypes /\ RelayTypes /\ ServerTypes /\ Latest
    BY DEF RelayInv, Types
  <1> USE DEF R!clientvars, R!fields, R!cvars, R!svars, R!world, Seen
  <1>1. CASE UNCHANGED <<inq, outq, running>>
    BY <1>1
  <1>2. CASE R!SendLine
    <2>1. cback \in R!Backends /\ cline \in R!Lines
      BY <1>0, <1>2, LastIn, LineTypes DEF R!SendLine, Latest, ClientTypes
    <2>2. Puts(cback, cline)
      BY <1>2 DEF R!SendLine, Puts
    <2>3. In(inq'[b], R!Request(i)) => In(inq[b], R!Request(i)) \/ (b = cback /\ R!Request(i) = cline)
      BY <1>0, <2>1, <2>2, InqGrows
    <2> QED
      BY <1>2, <2>3 DEF R!SendLine
  <1>3. CASE R!Replay
    <2>1. sback = started /\ sback \in R!Backends
      BY <1>0, <1>3 DEF R!Replay, Latest, RelayTypes
    <2>2. CASE Puts(sback, R!Request(InitId)) /\ InitId \in pending
      <3>1. R!Request(InitId) \in R!Lines
        BY <1>0, LineTypes DEF R!Ids
      <3>2. In(inq'[b], R!Request(i)) => In(inq[b], R!Request(i)) \/ R!Request(i) = R!Request(InitId)
        BY <1>0, <2>1, <2>2, <3>1, InqGrows
      <3> QED
        BY <1>3, <2>2, <3>2, LinesDiffer DEF R!Replay
    <2>3. CASE Puts(sback, R!Request(replays + 1))
               /\ swallow' = swallow \cup {replays + 1}
      <3>0. replays + 1 \in R!ReplayIds
        <4>1. replays < started - 1 /\ started \in R!Backends /\ replays \in Nat /\ MaxBackends \in Nat
          BY <1>0, <1>3 DEF R!Replay, Latest, RelayTypes, R!RelayAssumption
        <4> QED
          BY <4>1 DEF R!Backends, R!ReplayIds
      <3>1. R!Request(replays + 1) \in R!Lines
        BY <1>0, <3>0, LineTypes
      <3>2. In(inq'[b], R!Request(i))
               => In(inq[b], R!Request(i)) \/ (b = sback /\ R!Request(i) = R!Request(replays + 1))
        BY <1>0, <2>1, <2>3, <3>1, InqGrows
      <3> QED
        BY <1>3, <2>1, <2>3, <3>0, <3>2, LinesDiffer DEF R!Replay
    <2> QED
      BY <1>1, <1>3, <2>2, <2>3 DEF R!Replay, Puts
  <1>4. CASE R!ReplayInitialized
    <2>1. CASE Puts(sback, R!Initialized)
      <3>1. sback \in R!Backends /\ R!Initialized \in R!Lines
        BY <1>0, <1>4, LineTypes DEF R!ReplayInitialized, Latest, RelayTypes
      <3>2. In(inq'[b], R!Request(i)) => In(inq[b], R!Request(i)) \/ R!Request(i) = R!Initialized
        BY <1>0, <2>1, <3>1, InqGrows
      <3> QED
        BY <1>4, <3>2, LinesDiffer DEF R!ReplayInitialized
    <2> QED
      BY <1>1, <1>4, <2>1 DEF R!ReplayInitialized, Puts
  <1>5. CASE R!CopyAnswer
    <2>1. sback \in R!Backends
      BY <1>0, <1>5 DEF R!CopyAnswer, Latest, RelayTypes
    <2>2. In(outq'[b], i) => In(outq[b], i)
      BY <1>0, <1>5, <2>1, OutqShrinks DEF R!CopyAnswer
    <2> QED
      BY <1>5, <2>2 DEF R!CopyAnswer
  <1>6. ASSUME NEW c \in R!Backends, R!ServerReads(c)
        PROVE  Seen(i, b)
    <2> DEFINE line == Head(inq[c])
    <2>1. inq' = [inq EXCEPT ![c] = Tail(@)] /\ inq[c] # <<>> /\ outq' = outq
      BY <1>6 DEF R!ServerReads
    <2>2. In(inq[c], line) /\ (In(inq'[b], R!Request(i)) => In(inq[b], R!Request(i)))
      BY <1>0, <2>1, InqShrinks
    <2>3. i \in running'[b] => i \in running[b] \/ (b = c /\ line[1] = "request" /\ i = line[2])
      BY <1>0, <1>6 DEF R!ServerReads, ServerTypes
    <2>4. line \in R!Lines
      BY <1>0, <2>1, ShrunkHas DEF ServerTypes
    <2>5. line[1] = "request" => line = R!Request(line[2])
      BY <1>0, <2>4, LineTypes
    <2> HIDE DEF line
    <2> QED
      BY <2>1, <2>2, <2>3, <2>5
  <1>7. ASSUME NEW c \in R!Backends, R!ServerAnswers(c)
        PROVE  Seen(i, b)
    <2>1. PICK k \in running[c] : /\ Answers(c, k)
                                  /\ running' = [running EXCEPT ![c] = @ \ {k}]
      BY <1>7 DEF R!ServerAnswers, Answers
    <2>5. k \in R!Ids \cup R!ReplayIds
      BY <1>0, <2>1 DEF ServerTypes
    <2>2. In(outq'[b], i) => In(outq[b], i) \/ (b = c /\ i = k)
      BY <1>0, <2>1, <2>5, OutqGrows
    <2>3. i \in running'[b] => i \in running[b]
      BY <1>0, <2>1 DEF ServerTypes
    <2>4. inq' = inq
      BY <1>7 DEF R!ServerAnswers
    <2> QED
      BY <2>1, <2>2, <2>3, <2>4
  <1>8. ASSUME NEW c \in R!Backends, R!ServerDies(c)
        PROVE  Seen(i, b)
    <2>1. In(inq'[b], R!Request(i)) => In(inq[b], R!Request(i))
      BY <1>0, <1>8, EmptyHas DEF R!ServerDies, ServerTypes
    <2> QED
      BY <1>0, <1>8, <2>1 DEF R!ServerDies, ServerTypes
  <1>9. CASE R!ClientSpeaks
    BY <1>1, <1>9 DEF R!ClientSpeaks, R!Says
  <1>10. CASE R!ClientLeaves \/ R!NoteLine \/ R!NoteId \/ R!PickBackend \/ R!SendBreaks \/ R!ClientEnds
    BY <1>1, <1>10 DEF R!ClientLeaves, R!NoteLine, R!NoteId, R!PickBackend, R!SendBreaks, R!ClientEnds
  <1>11. CASE \/ R!ServerLoop \/ R!ReadEOF \/ R!FailInFlight \/ R!WriteError \/ R!Reconnect
              \/ R!ReplayBreaks \/ R!Install
    BY <1>1, <1>11 DEF R!ServerLoop, R!ReadEOF, R!FailInFlight, R!WriteError, R!Reconnect,
       R!ReplayBreaks, R!Install
  <1>12. CASE UNCHANGED R!vars
    BY <1>1, <1>12 DEF R!vars
  <1> QED
    BY <1>2, <1>3, <1>4, <1>5, <1>6, <1>7, <1>8, <1>9, <1>10, <1>11, <1>12
       DEF R!Next, R!ClientThread, R!ServerThread

(* A line of the client's goes one way only.                               *)
LEMMA LinesMove ==
  ASSUME RelayInv, [R!Next]_R!vars, NEW x \in ClientLines
  PROVE  /\ x \in said => x \in said'
         /\ In(stdin, x)' => x \in said' /\ (In(stdin, x) \/ x \notin said)
         /\ Takes(x)' => Takes(x) \/ In(stdin, x)
         /\ Carries(x)' => Carries(x) \/ In(stdin, x)
         /\ Once(stdin, x) /\ ~(In(stdin, x) /\ Carries(x))
               => Once(stdin, x)' /\ ~(In(stdin, x)' /\ Carries(x)')
  <1>0. ClientTypes /\ LinesOK
    BY DEF RelayInv, Types
  <1> USE DEF R!clientvars, R!fields, R!cvars, R!svars, R!world, Takes, Carries
  <1>1. In(stdin, x) \/ Carries(x) => x \in said
    BY <1>0 DEF LinesOK
  <1>2. CASE R!ClientSpeaks
    <2>1. PICK line \in ClientLines : R!Says(line)
      BY <1>2 DEF R!ClientSpeaks, ClientLines, R!Ids
    <2>2. /\ In(stdin', x) <=> In(stdin, x) \/ x = line
          /\ Once(stdin, x) /\ ~(x = line /\ In(stdin, x)) => Once(stdin', x)
      BY <1>0, <2>1, GrownHas DEF R!Says, ClientTypes
    <2>3. line \notin said /\ said' = said \cup {line} /\ cpc' = cpc /\ cline' = cline
      BY <2>1 DEF R!Says
    <2> QED
      BY <1>1, <2>2, <2>3
  <1>3. CASE R!NoteLine
    <2>1. /\ In(stdin, x) <=> In(stdin', x) \/ x = cline'
          /\ Once(stdin, x) => Once(stdin', x) /\ ~(x = cline' /\ In(stdin', x))
      BY <1>0, <1>3, ShrunkHas DEF R!NoteLine, ClientTypes
    <2>2. cpc = "read" /\ cpc' = "note" /\ said' = said
      BY <1>3 DEF R!NoteLine
    <2> QED
      BY <1>1, <2>1, <2>2
  <1>4. CASE /\ UNCHANGED <<said, stdin, cline>>
             /\ cpc' \in {"note", "pick", "send"} => cpc \in {"note", "pick", "send"}
             /\ cpc' = "note" => cpc = "note"
    BY <1>1, <1>4
  <1>5. CASE R!ClientLeaves \/ R!NoteId \/ R!PickBackend \/ R!SendLine
    BY <1>4, <1>5 DEF R!ClientLeaves, R!NoteId, R!PickBackend, R!SendLine
  <1>6. CASE R!SendBreaks \/ R!ClientEnds
    BY <1>4, <1>6 DEF R!SendBreaks, R!ClientEnds
  <1>7. CASE R!ServerLoop \/ R!CopyAnswer \/ R!ReadEOF \/ R!FailInFlight \/ R!WriteError
    BY <1>4, <1>7 DEF R!ServerLoop, R!CopyAnswer, R!ReadEOF, R!FailInFlight, R!WriteError
  <1>8. CASE R!Reconnect \/ R!Replay \/ R!ReplayInitialized \/ R!ReplayBreaks \/ R!Install
    BY <1>4, <1>8 DEF R!Reconnect, R!Replay, R!ReplayInitialized, R!ReplayBreaks, R!Install
  <1>9. ASSUME NEW b \in R!Backends, R!ServerReads(b) \/ R!ServerAnswers(b) \/ R!ServerDies(b)
        PROVE  UNCHANGED <<said, stdin, cline, cpc>>
    BY <1>9 DEF R!ServerReads, R!ServerAnswers, R!ServerDies
  <1>10. CASE UNCHANGED R!vars
    BY <1>4, <1>10 DEF R!vars
  <1> QED
    BY <1>2, <1>3, <1>4, <1>5, <1>6, <1>7, <1>8, <1>9, <1>10 DEF R!Next, R!ClientThread, R!ServerThread

(* Where an id in flight, to be failed, in the log or begun came from.     *)
LEMMA BooksMove ==
  ASSUME RelayInv, [R!Next]_R!vars, NEW i \in R!Ids
  PROVE  /\ i \in pending' => i \in pending \/ (R!NoteId /\ Takes(R!Request(i)))
         /\ i \in todo' => i \in todo \/ (R!FailInFlight /\ i \in pending)
         /\ \/ log'[i] = log[i]
            \/ /\ R!CopyAnswer /\ log'[i] = Append(log[i], "answer") /\ i \notin pending'
               /\ i = Head(outq[sback]) /\ In(outq[sback], i) /\ sback \in R!Backends
            \/ R!WriteError /\ i \in todo /\ i \notin todo' /\ log'[i] = Append(log[i], "error")
         /\ \/ runs'[i] = runs[i]
            \/ /\ runs'[i] = runs[i] + 1
               /\ \E b \in R!Backends : /\ R!ServerReads(b)
                                        /\ Head(inq[b]) = R!Request(i) /\ In(inq[b], R!Request(i))
  <1>0. R!RelayAssumption /\ ClientTypes /\ RelayTypes /\ ServerTypes /\ Latest
    BY DEF RelayInv, Types
  <1> USE DEF R!clientvars, R!fields, R!cvars, R!svars, R!world
  <1>1. CASE UNCHANGED <<pending, todo, log, runs>>
    BY <1>1
  <1>2. CASE R!NoteId
    <2>1. i \in pending' => i \in pending \/ cline = R!Request(i)
      BY <1>0, <1>2, LineTypes DEF R!NoteId, ClientTypes
    <2> QED
      BY <1>2, <2>1 DEF R!NoteId, Takes
  <1>3. CASE R!CopyAnswer
    <2>1. sback \in R!Backends /\ outq[sback] # <<>> /\ outq' = [outq EXCEPT ![sback] = Tail(@)]
      BY <1>0, <1>3 DEF R!CopyAnswer, Latest, RelayTypes
    <2>2. In(outq[sback], Head(outq[sback]))
      BY <1>0, <2>1, OutqShrinks
    <2>3. pending' \subseteq pending /\ UNCHANGED <<todo, runs>>
      BY <1>3 DEF R!CopyAnswer
    <2>4. CASE log' = log
      BY <2>3, <2>4
    <2>5. CASE /\ pending' = pending \ {Head(outq[sback])}
               /\ log' = [log EXCEPT ![Head(outq[sback])] = Append(@, "answer")]
      BY <1>0, <1>3, <2>1, <2>2, <2>3, <2>5 DEF RelayTypes
    <2> QED
      BY <1>3, <2>4, <2>5 DEF R!CopyAnswer
  <1>4. CASE R!FailInFlight
    BY <1>4 DEF R!FailInFlight
  <1>5. CASE R!WriteError
    BY <1>0, <1>5 DEF R!WriteError, RelayTypes, R!Ids
  <1>6. ASSUME NEW b \in R!Backends, R!ServerReads(b)
        PROVE  /\ UNCHANGED <<pending, todo, log>>
               /\ \/ runs'[i] = runs[i]
                  \/ runs'[i] = runs[i] + 1 /\ Head(inq[b]) = R!Request(i) /\ In(inq[b], R!Request(i))
    <2> DEFINE line == Head(inq[b])
    <2>1. inq' = [inq EXCEPT ![b] = Tail(@)] /\ inq[b] # <<>>
      BY <1>6 DEF R!ServerReads
    <2>2. line \in R!Lines /\ In(inq[b], line)
      BY <1>0, <2>1, InqShrinks
    <2>3. line[1] = "request" => line = R!Request(line[2])
      BY <1>0, <2>2, LineTypes
    <2>4. runs' = runs \/ (line[1] = "request" /\ runs' = [runs EXCEPT ![line[2]] = @ + 1])
      BY <1>6 DEF R!ServerReads
    <2>5. UNCHANGED <<pending, todo, log>>
      BY <1>6 DEF R!ServerReads
    <2> HIDE DEF line
    <2>6. runs'[i] = runs[i] \/ (runs'[i] = runs[i] + 1 /\ line = R!Request(i))
      BY <1>0, <2>3, <2>4 DEF ServerTypes
    <2> QED
      BY <2>2, <2>5, <2>6 DEF line
  <1>7. CASE R!ClientSpeaks
    BY <1>1, <1>7 DEF R!ClientSpeaks, R!Says
  <1>8. CASE R!ClientLeaves \/ R!NoteLine \/ R!PickBackend \/ R!SendLine \/ R!SendBreaks \/ R!ClientEnds
    BY <1>1, <1>8 DEF R!ClientLeaves, R!NoteLine, R!PickBackend, R!SendLine, R!SendBreaks, R!ClientEnds
  <1>9. CASE R!ServerLoop \/ R!ReadEOF \/ R!Reconnect
    BY <1>1, <1>9 DEF R!ServerLoop, R!ReadEOF, R!Reconnect
  <1>10. CASE R!Replay \/ R!ReplayInitialized \/ R!ReplayBreaks \/ R!Install
    BY <1>1, <1>10 DEF R!Replay, R!ReplayInitialized, R!ReplayBreaks, R!Install
  <1>11. ASSUME NEW b \in R!Backends, R!ServerAnswers(b) \/ R!ServerDies(b)
         PROVE  UNCHANGED <<pending, todo, log, runs>>
    BY <1>11 DEF R!ServerAnswers, R!ServerDies
  <1>12. CASE UNCHANGED R!vars
    BY <1>1, <1>12 DEF R!vars
  <1> QED
    BY <1>1, <1>2, <1>3, <1>4, <1>5, <1>6, <1>7, <1>8, <1>9, <1>10, <1>11, <1>12
       DEF R!Next, R!ClientThread, R!ServerThread

(* Every step keeps LinesOK, Unanswered, OrderOK.                          *)
LEMMA LinesStay ==
  ASSUME RelayInv, [R!Next]_R!vars
  PROVE  LinesOK'
  <1>0. R!RelayAssumption /\ ClientTypes /\ RelayTypes /\ ServerTypes /\ LinesOK
    BY DEF RelayInv, Types
  <1>1. ASSUME NEW x \in ClientLines, In(stdin, x)' \/ Carries(x)'
        PROVE  x \in said'
    <2>1. In(stdin, x) \/ Carries(x) \/ x \in said'
      BY <1>1, LinesMove
    <2> QED
      BY <1>0, <2>1, LinesMove DEF LinesOK
  <1>2. ASSUME NEW i \in R!Ids
        PROVE  Once(stdin, R!Request(i))' /\ ~(In(stdin, R!Request(i))' /\ Carries(R!Request(i))')
    <2>1. R!Request(i) \in ClientLines
      BY DEF ClientLines
    <2> QED
      BY <1>0, <2>1, LinesMove DEF LinesOK
  <1>3. ASSUME NEW i \in R!Ids, R!Request(i) \notin said'
        PROVE  /\ i \notin pending' \cup todo' /\ log'[i] = <<>> /\ runs'[i] = 0
               /\ \A b \in R!Backends : ~Seen(i, b)'
    <2>1. R!Request(i) \in ClientLines
      BY DEF ClientLines
    <2>2. R!Request(i) \notin said
      BY <1>3, <2>1, LinesMove
    <2>3. /\ i \notin pending \cup todo /\ log[i] = <<>> /\ runs[i] = 0
          /\ \A b \in R!Backends : ~Seen(i, b)
          /\ ~Carries(R!Request(i)) /\ ~Takes(R!Request(i))
      BY <1>0, <2>1, <2>2 DEF LinesOK, Takes, Carries
    <2>4. i \notin pending' \cup todo'
      BY <2>3, BooksMove
    <2>5. log'[i] = log[i]
      BY <2>3, BooksMove DEF Seen
    <2>6. runs'[i] = runs[i]
      BY <2>3, BooksMove DEF Seen
    <2>7. ASSUME NEW b \in R!Backends, Seen(i, b)'
          PROVE  FALSE
      <3>1. i \notin R!ReplayIds
        BY <1>0 DEF R!RelayAssumption
      <3>2. CASE R!SendLine /\ cline = R!Request(i)
        BY <2>3, <3>2 DEF R!SendLine, Carries
      <3>3. CASE R!Replay /\ i = InitId /\ InitId \in pending
        BY <2>3, <3>3
      <3> QED
        BY <2>3, <2>7, <3>1, <3>2, <3>3, SeenMoves
    <2> QED
      BY <2>3, <2>4, <2>5, <2>6, <2>7
  <1> QED
    BY <1>1, <1>2, <1>3 DEF LinesOK

LEMMA UnansweredStays ==
  ASSUME RelayInv, [R!Next]_R!vars
  PROVE  Unanswered'
  <1>0. /\ R!RelayAssumption /\ ClientTypes /\ RelayTypes /\ ServerTypes /\ LinesOK
        /\ Latest /\ Unanswered
    BY DEF RelayInv, Types
  <1> SUFFICES ASSUME NEW i \in R!Ids
               PROVE  /\ Unnoted(i)' => /\ log'[i] = <<>> /\ i \notin pending' /\ i \notin todo'
                                        /\ \A b \in R!Backends : ~Seen(i, b)'
                      /\ i \in pending' => log'[i] = <<>> /\ i \notin todo'
                      /\ i \in todo' => log'[i] = <<>>
    BY DEF Unanswered
  <1> DEFINE ask == R!Request(i)
  <1>1. ask \in ClientLines
    BY DEF ClientLines
  <1>2. /\ Unnoted(i) => /\ log[i] = <<>> /\ i \notin pending /\ i \notin todo
                         /\ \A b \in R!Backends : ~Seen(i, b)
        /\ i \in pending => log[i] = <<>> /\ i \notin todo
        /\ i \in todo => log[i] = <<>>
    BY <1>0 DEF Unanswered
  <1>3. /\ Carries(ask) => ask \in said /\ ~In(stdin, ask)
        /\ ask \notin said => /\ log[i] = <<>> /\ i \notin pending /\ i \notin todo
                              /\ \A b \in R!Backends : ~Seen(i, b)
    BY <1>0, <1>1 DEF LinesOK
  <1>4. R!NoteId => UNCHANGED <<log, todo, stdin>> /\ cpc' # "note"
    BY DEF R!NoteId, R!svars, R!clientvars
  <1>5. R!FailInFlight => todo' = pending \ {InitId} /\ pending' \subseteq {InitId} /\ log' = log
    BY DEF R!FailInFlight
  <1>6. ASSUME Unnoted(i)'
        PROVE  /\ log'[i] = <<>> /\ i \notin pending' /\ i \notin todo'
               /\ \A b \in R!Backends : ~Seen(i, b)'
    <2>1. Unnoted(i) \/ ask \notin said
      BY <1>1, <1>6, LinesMove DEF Unnoted
    <2>2. /\ log[i] = <<>> /\ i \notin pending /\ i \notin todo
          /\ \A b \in R!Backends : ~Seen(i, b)
      BY <1>2, <1>3, <2>1
    <2>3. ~(R!NoteId /\ Takes(ask))
      BY <1>3, <1>4, <1>6 DEF Unnoted, Takes, Carries
    <2>4. i \notin pending' /\ i \notin todo'
      BY <2>2, <2>3, BooksMove
    <2>5. log'[i] = <<>>
      BY <2>2, BooksMove DEF Seen
    <2>6. ASSUME NEW b \in R!Backends, Seen(i, b)'
          PROVE  FALSE
      <3>1. i \notin R!ReplayIds
        BY <1>0 DEF R!RelayAssumption
      <3>2. ~(R!SendLine /\ cline = ask)
        <4>1. R!SendLine /\ cline = ask => Carries(ask) /\ cpc # "note"
          BY DEF R!SendLine, Carries
        <4> QED
          BY <4>1, <1>3, <2>1 DEF Unnoted, Takes
      <3> QED
        BY <2>2, <2>6, <3>1, <3>2, SeenMoves
    <2> QED
      BY <2>4, <2>5, <2>6
  <1>7. ASSUME i \in pending'
        PROVE  log'[i] = <<>> /\ i \notin todo'
    <2>1. CASE R!NoteId /\ Takes(ask)
      BY <1>2, <1>4, <2>1 DEF Unnoted
    <2>2. CASE i \in pending
      <3>1. log'[i] = log[i]
        BY <1>2, <1>7, <2>2, BooksMove
      <3>2. i \notin todo'
        BY <1>2, <1>5, <1>7, <2>2, BooksMove
      <3> QED
        BY <1>2, <2>2, <3>1, <3>2
    <2> QED
      BY <1>7, <2>1, <2>2, BooksMove
  <1>8. ASSUME i \in todo'
        PROVE  log'[i] = <<>>
    <2>1. CASE i \in todo
      <3>1. ~R!CopyAnswer
        BY <1>0, <2>1 DEF Latest, R!CopyAnswer
      <3> QED
        BY <1>2, <1>8, <2>1, <3>1, BooksMove
    <2>2. CASE R!FailInFlight /\ i \in pending
      BY <1>2, <1>5, <2>2
    <2> QED
      BY <1>8, <2>1, <2>2, BooksMove
  <1> QED
    BY <1>6, <1>7, <1>8

(* The order of the lines the client wrote.                                *)
LEMMA OrderQueue ==
  ASSUME NEW S, NEW q \in Seq(S)
  PROVE  /\ \A y \in S : Behind(q) /\ (y \in RequestLines => In(q, R!Initialized)) => Behind(Append(q, y))
         /\ q # <<>> /\ Behind(q) => Head(q) \notin RequestLines
         /\ q # <<>> /\ Behind(q) /\ Head(q) # R!Initialized => Behind(Tail(q))
  <1>1. ASSUME NEW y \in S, Behind(q), y \in RequestLines => In(q, R!Initialized)
        PROVE  Behind(Append(q, y))
    <2> DEFINE n == Len(q)
               p == Append(q, y)
    <2>1. n \in Nat /\ Len(p) = n + 1 /\ p[n + 1] = y /\ \A k \in 1..n : p[k] = q[k]
      BY AppendProperties, LenProperties
    <2>2. \A k \in 1..(n + 1) : k \in 1..n \/ k = n + 1
      BY <2>1
    <2>3. \A k \in 1..n : \A j \in 1..(k - 1) : j \in 1..n
      BY <2>1
    <2>4. \A k \in 1..n : p[k] \in RequestLines => \E j \in 1..(k - 1) : p[j] = R!Initialized
      BY <1>1, <2>1, <2>3 DEF Behind
    <2>5. p[n + 1] \in RequestLines => \E j \in 1..((n + 1) - 1) : p[j] = R!Initialized
      BY <1>1, <2>1 DEF In
    <2> QED
      BY <2>1, <2>2, <2>4, <2>5 DEF Behind
  <1>2. ASSUME q # <<>>, Behind(q)
        PROVE  Head(q) \notin RequestLines
    <2>1. Len(q) \in Nat \ {0}
      BY <1>2, EmptySeq, Zenon
    <2>2. Head(q) = q[1]
      BY <1>2
    <2> QED
      BY <1>2, <2>1, <2>2 DEF Behind
  <1>3. ASSUME q # <<>>, Behind(q), Head(q) # R!Initialized
        PROVE  Behind(Tail(q))
    <2> DEFINE n == Len(q)
               p == Tail(q)
    <2>1. Len(p) = n - 1 /\ \A k \in 1..Len(p) : p[k] = q[k + 1]
      BY <1>3, HeadTailProperties, Zenon
    <2>2. Head(q) = q[1]
      BY <1>3
    <2>3. n \in Nat \ {0}
      BY <1>3, EmptySeq, Zenon
    <2> HIDE DEF n, p
    <2> SUFFICES ASSUME NEW k \in 1..(n - 1), p[k] \in RequestLines
                 PROVE  \E j \in 1..(k - 1) : p[j] = R!Initialized
      BY <2>1 DEF Behind, p
    <2>4. k + 1 \in 1..n /\ (k + 1) - 1 = k
      BY <2>3
    <2>5. PICK j \in 1..k : q[j] = R!Initialized
      BY <1>3, <2>1, <2>4 DEF Behind, n
    <2>6. j # 1
      BY <1>3, <2>2, <2>5
    <2>7. j - 1 \in 1..(k - 1) /\ j - 1 \in 1..(n - 1) /\ (j - 1) + 1 = j
      BY <2>3, <2>6
    <2>8. p[j - 1] = R!Initialized
      BY <2>1, <2>5, <2>7
    <2> QED
      BY <2>7, <2>8
  <1> QED
    BY <1>1, <1>2, <1>3

LEMMA CarriesMoves ==
  ASSUME RelayInv, [R!Next]_R!vars
  PROVE  /\ \A x : Carries(x)' => Carries(x) \/ (R!NoteLine /\ cline' = x)
         /\ R!ClientSpeaks \/ R!NoteLine \/ UNCHANGED <<said, stdin, initLine, initializedLine>>
  <1> USE DEF R!clientvars, R!fields, R!cvars, R!svars, R!world, Carries
  <1>1. CASE R!ClientSpeaks
    BY <1>1 DEF R!ClientSpeaks, R!Says
  <1>2. CASE R!NoteLine
    BY <1>2 DEF R!NoteLine
  <1>3. CASE R!ClientLeaves \/ R!NoteId \/ R!PickBackend \/ R!SendLine
    BY <1>3 DEF R!ClientLeaves, R!NoteId, R!PickBackend, R!SendLine
  <1>4. CASE R!SendBreaks \/ R!ClientEnds
    BY <1>4 DEF R!SendBreaks, R!ClientEnds
  <1>5. CASE R!ServerLoop \/ R!CopyAnswer \/ R!ReadEOF \/ R!FailInFlight \/ R!WriteError
    BY <1>5 DEF R!ServerLoop, R!CopyAnswer, R!ReadEOF, R!FailInFlight, R!WriteError
  <1>6. CASE R!Reconnect \/ R!Replay \/ R!ReplayInitialized \/ R!ReplayBreaks \/ R!Install
    BY <1>6 DEF R!Reconnect, R!Replay, R!ReplayInitialized, R!ReplayBreaks, R!Install
  <1>7. ASSUME NEW b \in R!Backends, R!ServerReads(b) \/ R!ServerAnswers(b) \/ R!ServerDies(b)
        PROVE  UNCHANGED <<said, stdin, initLine, initializedLine, cline, cpc>>
    BY <1>7 DEF R!ServerReads, R!ServerAnswers, R!ServerDies
  <1>8. CASE UNCHANGED R!vars
    BY <1>8 DEF R!vars
  <1> QED
    BY <1>1, <1>2, <1>3, <1>4, <1>5, <1>6, <1>7, <1>8 DEF R!Next, R!ClientThread, R!ServerThread

LEMMA OrderStays ==
  ASSUME RelayInv, [R!Next]_R!vars
  PROVE  OrderOK'
  <1>0. /\ R!RelayAssumption /\ ClientTypes /\ RelayTypes /\ ServerTypes /\ LinesOK
        /\ Latest /\ OrderOK
    BY DEF RelayInv, Types
  <1> USE DEF R!clientvars, R!fields, R!cvars, R!svars, R!world
  <1>1. /\ R!Initialized \in ClientLines /\ InitId \in R!Ids
        /\ \A r \in Reqs : r \in R!Ids /\ R!Request(r) \in ClientLines
        /\ \A r \in Reqs : R!Request(r) # R!Request(InitId)
        /\ \A line \in RequestLines : line # R!Initialized /\ line # R!Request(InitId)
        /\ \A r \in Reqs : R!Request(r) \in RequestLines
    BY <1>0, LinesDiffer DEF ClientLines, R!Ids, RequestLines, R!RelayAssumption
  <1>2. log[InitId] # <<>> => log'[InitId] # <<>>
    <2>1. \A w \in {"answer", "error"} : Append(log[InitId], w) # <<>>
      BY <1>0, <1>1, AppendProperties DEF RelayTypes
    <2> QED
      BY <1>1, <2>1, BooksMove
  <1>3. ASSUME initLine \in BOOLEAN, initLine => initLine', NEW b \in R!Backends, Seen(InitId, b)'
        PROVE  Carries(R!Request(InitId)) \/ InitId \in pending \/ Seen(InitId, b)
    <2>1. InitId \notin R!ReplayIds
      BY <1>0, <1>1 DEF R!RelayAssumption
    <2> QED
      BY <1>1, <1>3, <2>1, SeenMoves DEF R!SendLine, Carries
  <1>4. ASSUME initLine => initLine', R!NoteLine /\ cline' = R!Request(InitId) => initLine'
        PROVE  Carries(R!Request(InitId))' \/ InitId \in pending' \/ log'[InitId] # <<>>
                  \/ (\E b \in R!Backends : Seen(InitId, b)') => initLine'
    <2>1. Carries(R!Request(InitId))' => initLine'
      <3>1. Carries(R!Request(InitId))'
               => Carries(R!Request(InitId)) \/ (R!NoteLine /\ cline' = R!Request(InitId))
        BY <1>0, CarriesMoves
      <3> QED
        BY <1>0, <1>4, <3>1 DEF OrderOK
    <2>2. InitId \in pending' => initLine'
      BY <1>0, <1>1, <1>4, BooksMove DEF OrderOK, Takes, Carries
    <2>3. log'[InitId] # <<>> => initLine'
      <3>1. InitId \notin todo
        BY <1>0 DEF RelayTypes, R!RelayAssumption
      <3> QED
        BY <1>0, <1>1, <1>4, <3>1, BooksMove DEF OrderOK, Seen
    <2>4. ASSUME NEW b \in R!Backends, Seen(InitId, b)'
          PROVE  initLine'
      <3>1. Carries(R!Request(InitId)) \/ InitId \in pending \/ Seen(InitId, b)
        BY <1>0, <1>3, <1>4, <2>4 DEF ClientTypes
      <3> QED
        BY <1>0, <1>4, <3>1 DEF OrderOK
    <2> QED
      BY <2>1, <2>2, <2>3, <2>4
  <1>5. CASE UNCHANGED <<said, stdin, initLine, initializedLine>> /\ ~R!NoteLine
    <2>1. R!Initialized \in said => log'[InitId] # <<>>
      BY <1>0, <1>2 DEF OrderOK
    <2>2. \A x : Carries(x)' => Carries(x)
      BY <1>5, CarriesMoves
    <2>3. In(stdin, R!Initialized)' = In(stdin, R!Initialized) /\ Behind(stdin)' = Behind(stdin)
      BY <1>5 DEF In, Behind
    <2> QED
      BY <1>0, <1>4, <1>5, <2>1, <2>2, <2>3 DEF OrderOK
  <1>6. CASE R!ClientSpeaks
    <2>1. PICK line \in ClientLines : /\ R!Says(line)
                                      /\ line = R!Initialized => log[InitId] # <<>>
                                      /\ line \in RequestLines => R!Initialized \in said
      <3>1. CASE R!Says(R!Request(InitId))
        <4>1. R!Request(InitId) \in ClientLines
          BY <1>1 DEF ClientLines
        <4>2. R!Request(InitId) # R!Initialized /\ R!Request(InitId) \notin RequestLines
          BY <1>1, LinesDiffer
        <4> QED
          BY <3>1, <4>1, <4>2
      <3>2. CASE log[InitId] # <<>> /\ R!Says(R!Initialized)
        BY <1>1, <3>2
      <3>3. ASSUME NEW r \in Reqs, R!Initialized \in said, R!Says(R!Request(r))
            PROVE  R!Request(r) \in ClientLines /\ R!Says(R!Request(r)) /\ R!Request(r) # R!Initialized
                   /\ R!Initialized \in said
        BY <1>1, <3>3
      <3>4. ASSUME NEW r \in Reqs, R!Says(R!Cancelled(r))
            PROVE  R!Cancelled(r) \in ClientLines /\ R!Cancelled(r) \notin RequestLines
                   /\ R!Cancelled(r) # R!Initialized
        BY LinesDiffer DEF ClientLines, RequestLines
      <3> QED
        BY <1>6, <3>1, <3>2, <3>3, <3>4 DEF R!ClientSpeaks
    <2>2. /\ said' = said \cup {line} /\ stdin' = Append(stdin, line) /\ ~R!NoteLine
          /\ UNCHANGED <<log, initLine, initializedLine, cpc, cline>>
      BY <1>0, <2>1 DEF R!Says, R!NoteLine
    <2>3. In(stdin', R!Initialized) <=> In(stdin, R!Initialized) \/ R!Initialized = line
      BY <1>0, <2>2, GrownHas DEF ClientTypes
    <2>4. Behind(stdin) /\ (line \in RequestLines => In(stdin, R!Initialized)) => Behind(stdin')
      BY <1>0, <2>2, OrderQueue DEF ClientTypes
    <2>5. \A x : Carries(x)' => Carries(x)
      BY <2>2 DEF Carries
    <2>6. initializedLine' \/ Behind(stdin')
      BY <1>0, <2>1, <2>2, <2>4 DEF OrderOK
    <2>7. RequestLines \cap said' # {} => R!Initialized \in said'
      BY <1>0, <2>1, <2>2 DEF OrderOK
    <2> QED
      BY <1>0, <1>4, <2>1, <2>2, <2>3, <2>5, <2>6, <2>7 DEF OrderOK
  <1>7. CASE R!NoteLine
    <2>1. /\ cline' \in ClientLines
          /\ In(stdin, cline')
          /\ In(stdin, R!Initialized) => In(stdin', R!Initialized) \/ cline' = R!Initialized
      BY <1>0, <1>7, ShrunkHas DEF R!NoteLine, ClientTypes
    <2>2. /\ Behind(stdin) => cline' \notin RequestLines
          /\ Behind(stdin) /\ cline' # R!Initialized => Behind(stdin')
      BY <1>0, <1>7, OrderQueue DEF R!NoteLine, ClientTypes
    <2>3. /\ initLine' = (initLine \/ cline' = R!Request(InitId))
          /\ initializedLine' = (initializedLine \/ cline' = R!Initialized)
          /\ cpc = "read" /\ UNCHANGED <<said, log>>
      BY <1>7 DEF R!NoteLine
    <2>4. cline' \in said
      BY <1>0, <2>1 DEF LinesOK
    <2>5. \A x : Carries(x)' => x = cline'
      BY <2>3 DEF Carries
    <2>6. initializedLine' \/ (Behind(stdin') /\ cline' \notin RequestLines)
      BY <1>0, <2>2, <2>3 DEF OrderOK
    <2>7. \A r \in Reqs : Carries(R!Request(r))' => initializedLine'
      BY <1>1, <2>5, <2>6
    <2>8. Carries(R!Initialized)' => initializedLine'
      BY <2>3, <2>5
    <2>9. /\ R!Initialized \in said' => log'[InitId] # <<>>
          /\ R!Initialized \in said' => initializedLine' \/ In(stdin', R!Initialized)
          /\ initializedLine' => R!Initialized \in said'
          /\ RequestLines \cap said' # {} => R!Initialized \in said'
      BY <1>0, <2>1, <2>3, <2>4 DEF OrderOK
    <2>10. Carries(R!Request(InitId))' \/ InitId \in pending' \/ log'[InitId] # <<>>
                  \/ (\E b \in R!Backends : Seen(InitId, b)') => initLine'
      BY <1>4, <2>3
    <2> QED
      BY <2>6, <2>7, <2>8, <2>9, <2>10 DEF OrderOK
  <1> QED
    BY <1>5, <1>6, <1>7, CarriesMoves

(* Ids of the relay are not the client's.                                  *)
LEMMA NeverFresh ==
  ASSUME RelayInv, NEW i \in Tracked
  PROVE  i # InitId /\ (i \in Reqs \/ ~Fresh(i))
  <1>0. R!RelayAssumption /\ ClientTypes
    BY DEF RelayInv, Types
  <1>1. i # InitId
    BY <1>0 DEF R!RelayAssumption, Tracked, R!Ids
  <1>2. ASSUME i \notin Reqs
        PROVE  R!Request(i) \notin ClientLines
    BY <1>0, <1>1, <1>2, LinesDiffer DEF ClientLines, R!Ids
  <1>3. ASSUME In(stdin, R!Request(i))
        PROVE  R!Request(i) \in ClientLines
    BY <1>0, <1>3, LenProperties DEF In, ClientTypes
  <1> QED
    BY <1>0, <1>1, <1>2, <1>3 DEF Fresh, Carries, ClientTypes

(* A request leaves one stage for the next, and none twice.                *)
LEMMA StagesMove ==
  ASSUME RelayInv, [R!Next]_R!vars, NEW i \in Tracked, NEW b \in R!Backends
  PROVE  /\ OneStage(i, b)'
         /\ In(inq[b], R!Request(i))' => \/ In(inq[b], R!Request(i)) \/ i \notin Reqs
                                         \/ R!SendLine /\ Carries(R!Request(i))
         /\ R!ServerReads(b) /\ Head(inq[b]) = R!Request(i) => ~In(inq[b], R!Request(i))'
         /\ R!CopyAnswer /\ b = sback /\ Head(outq[sback]) = i => ~Seen(i, b)'
  <1>0. /\ R!RelayAssumption /\ ClientTypes /\ RelayTypes /\ ServerTypes /\ Latest
        /\ TokenOK /\ AnsweredOK
    BY DEF RelayInv, Types
  <1> USE DEF R!clientvars, R!fields, R!cvars, R!svars, R!world
  <1> DEFINE ask == R!Request(i)
  <1>1. OneStage(i, b) /\ (Fresh(i) => ~Seen(i, b))
    BY <1>0 DEF TokenOK
  <1>2. i # InitId /\ i \in R!Ids \cup R!ReplayIds
    BY NeverFresh DEF Tracked, R!Ids
  <1>3. CASE UNCHANGED <<inq, outq, running>> /\ ~R!CopyAnswer /\ ~R!ServerReads(b)
    BY <1>1, <1>3 DEF OneStage, Once, In
  <1>4. ASSUME NEW c \in R!Backends, NEW line \in R!Lines, Puts(c, line), UNCHANGED <<outq, running>>,
               c = b /\ line = ask => ~Seen(i, b)
        PROVE  OneStage(i, b)' /\ (In(inq[b], ask)' => In(inq[b], ask) \/ (c = b /\ line = ask))
    <2>1. /\ In(inq'[b], ask) <=> In(inq[b], ask) \/ (b = c /\ ask = line)
          /\ Once(inq[b], ask) /\ ~(b = c /\ ask = line /\ In(inq[c], line)) => Once(inq'[b], ask)
      BY <1>0, <1>4, InqGrows
    <2>2. In(outq[b], i)' = In(outq[b], i) /\ Once(outq[b], i)' = Once(outq[b], i)
      BY <1>4 DEF In, Once
    <2> QED
      BY <1>1, <1>4, <2>1, <2>2 DEF OneStage, Seen
  <1>5. CASE R!SendLine
    <2>1. cback \in R!Backends /\ cline \in R!Lines
      BY <1>0, <1>5, LastIn, LineTypes DEF R!SendLine, Latest, ClientTypes
    <2>2. cline = ask => Carries(ask)
      BY <1>5 DEF R!SendLine, Carries
    <2>3. Puts(cback, cline) /\ UNCHANGED <<outq, running>>
      BY <1>5 DEF R!SendLine, Puts
    <2>4. OneStage(i, b)' /\ (In(inq[b], ask)' => In(inq[b], ask) \/ (cback = b /\ cline = ask))
      BY <1>1, <1>4, <2>1, <2>2, <2>3 DEF Fresh
    <2>5. ~R!CopyAnswer /\ ~R!ServerReads(b)
      BY <1>5 DEF R!SendLine, R!CopyAnswer, R!ServerReads
    <2> QED
      BY <1>5, <2>2, <2>4, <2>5
  <1>6. CASE R!Replay
    <2>0. ~R!CopyAnswer /\ ~R!ServerReads(b) /\ UNCHANGED <<outq, running>>
      BY <1>6 DEF R!Replay, R!CopyAnswer, R!ServerReads
    <2>1. sback = started /\ sback \in R!Backends
      BY <1>0, <1>6 DEF R!Replay, Latest, RelayTypes
    <2>2. CASE Puts(sback, R!Request(InitId))
      <3>1. R!Request(InitId) \in R!Lines /\ ask # R!Request(InitId)
        BY <1>0, <1>2, LineTypes, LinesDiffer DEF R!Ids
      <3> QED
        BY <1>4, <2>0, <2>1, <2>2, <3>1
    <2>3. CASE Puts(sback, R!Request(replays + 1))
      <3>1. replays + 1 \in R!ReplayIds /\ replays + 1 \notin 1..replays
        <4>1. replays < started - 1 /\ started \in R!Backends /\ replays \in Nat /\ MaxBackends \in Nat
          BY <1>0, <1>6 DEF R!Replay, Latest, RelayTypes, R!RelayAssumption
        <4> QED
          BY <4>1 DEF R!Backends, R!ReplayIds
      <3>2. R!Request(replays + 1) \in R!Lines
        BY <1>0, <3>1, LineTypes
      <3>3. ASSUME ask = R!Request(replays + 1)
            PROVE  ~Seen(i, b) /\ i \notin Reqs
        <4>1. i = replays + 1
          BY <3>3, LinesDiffer
        <4> QED
          BY <1>0, <3>1, <4>1 DEF AnsweredOK, RelayTypes, R!RelayAssumption, R!Ids
      <3> QED
        BY <1>4, <2>0, <2>1, <2>3, <3>2, <3>3
    <2>4. CASE UNCHANGED inq
      BY <1>3, <2>0, <2>4
    <2> QED
      BY <1>6, <2>2, <2>3, <2>4 DEF R!Replay, Puts
  <1>7. CASE R!ReplayInitialized
    <2>0. ~R!CopyAnswer /\ ~R!ServerReads(b) /\ UNCHANGED <<outq, running>>
      BY <1>7 DEF R!ReplayInitialized, R!CopyAnswer, R!ServerReads
    <2>1. CASE Puts(sback, R!Initialized)
      <3>1. sback \in R!Backends /\ R!Initialized \in R!Lines /\ ask # R!Initialized
        BY <1>0, <1>7, LineTypes, LinesDiffer DEF R!ReplayInitialized, Latest, RelayTypes
      <3> QED
        BY <1>4, <2>0, <2>1, <3>1
    <2>2. CASE UNCHANGED inq
      BY <1>3, <2>0, <2>2
    <2> QED
      BY <1>7, <2>1, <2>2 DEF R!ReplayInitialized, Puts
  <1>8. CASE R!CopyAnswer
    <2>1. /\ sback \in R!Backends /\ outq[sback] # <<>> /\ outq' = [outq EXCEPT ![sback] = Tail(@)]
          /\ UNCHANGED <<inq, running>>
      BY <1>0, <1>8 DEF R!CopyAnswer, Latest, RelayTypes
    <2>2. /\ In(outq[b], i) <=> In(outq'[b], i) \/ (b = sback /\ i = Head(outq[sback]))
          /\ Once(outq[b], i) => Once(outq'[b], i)
                                 /\ ~(b = sback /\ i = Head(outq[sback]) /\ In(outq'[b], i))
      BY <1>0, <2>1, OutqShrinks
    <2>3. In(inq[b], ask)' = In(inq[b], ask) /\ Once(inq[b], ask)' = Once(inq[b], ask)
      BY <2>1 DEF In, Once
    <2>4. ~R!ServerReads(b)
      BY <1>8 DEF R!CopyAnswer, R!ServerReads
    <2> QED
      BY <1>1, <2>1, <2>2, <2>3, <2>4 DEF OneStage, Seen
  <1>9. ASSUME NEW c \in R!Backends, R!ServerReads(c)
        PROVE  /\ OneStage(i, b)' /\ (In(inq[b], ask)' => In(inq[b], ask)) /\ ~R!CopyAnswer
               /\ c = b /\ Head(inq[b]) = ask => ~In(inq[b], ask)'
    <2> DEFINE line == Head(inq[c])
    <2>1. inq' = [inq EXCEPT ![c] = Tail(@)] /\ inq[c] # <<>> /\ outq' = outq /\ ~R!CopyAnswer
      BY <1>9 DEF R!ServerReads, R!CopyAnswer
    <2>2. /\ line \in R!Lines
          /\ In(inq[b], ask) <=> In(inq'[b], ask) \/ (b = c /\ ask = line)
          /\ Once(inq[b], ask) => Once(inq'[b], ask) /\ ~(b = c /\ ask = line /\ In(inq'[b], ask))
      BY <1>0, <2>1, InqShrinks
    <2>3. i \in running'[b] => i \in running[b] \/ (b = c /\ line[1] = "request" /\ i = line[2])
      BY <1>0, <1>9 DEF R!ServerReads, ServerTypes
    <2>4. line[1] = "request" => line = R!Request(line[2])
      BY <1>0, <2>2, LineTypes
    <2>5. In(outq[b], i)' = In(outq[b], i) /\ Once(outq[b], i)' = Once(outq[b], i)
      BY <2>1 DEF In, Once
    <2> HIDE DEF line
    <2>6. i \in running'[b] => i \in running[b] \/ (b = c /\ ask = line)
      BY <2>3, <2>4
    <2> QED
      BY <1>1, <2>1, <2>2, <2>5, <2>6 DEF OneStage, line
  <1>10. ASSUME NEW c \in R!Backends, R!ServerAnswers(c)
         PROVE  /\ OneStage(i, b)' /\ (In(inq[b], ask)' => In(inq[b], ask))
                /\ ~R!CopyAnswer /\ ~R!ServerReads(b)
    <2>1. PICK k \in running[c] : /\ Answers(c, k)
                                  /\ running' = [running EXCEPT ![c] = @ \ {k}]
      BY <1>10 DEF R!ServerAnswers, Answers
    <2>2. k \in R!Ids \cup R!ReplayIds
      BY <1>0, <2>1 DEF ServerTypes
    <2>3. /\ In(outq'[b], i) <=> In(outq[b], i) \/ (b = c /\ i = k)
          /\ Once(outq[b], i) /\ ~(b = c /\ i = k /\ In(outq[c], k)) => Once(outq'[b], i)
      BY <1>0, <2>1, <2>2, OutqGrows
    <2>4. i \in running'[b] <=> i \in running[b] /\ ~(b = c /\ i = k)
      BY <1>0, <2>1 DEF ServerTypes
    <2>5. inq' = inq /\ ~R!CopyAnswer
      BY <1>10 DEF R!ServerAnswers, R!CopyAnswer
    <2>6. In(inq[b], ask)' = In(inq[b], ask) /\ Once(inq[b], ask)' = Once(inq[b], ask)
      BY <2>5 DEF In, Once
    <2>7. ~R!ServerReads(b)
      <3>1. Len(Tail(inq[b])) # Len(inq[b]) \/ inq[b] = <<>>
        BY <1>0, HeadTailProperties, LenProperties DEF ServerTypes
      <3> QED
        BY <1>0, <2>5, <3>1 DEF R!ServerReads, ServerTypes
    <2> QED
      BY <1>1, <2>1, <2>3, <2>4, <2>5, <2>6, <2>7 DEF OneStage
  <1>11. ASSUME NEW c \in R!Backends, R!ServerDies(c)
         PROVE  OneStage(i, b)' /\ (In(inq[b], ask)' => In(inq[b], ask))
    <2>1. outq' = outq /\ inq' = [inq EXCEPT ![c] = <<>>] /\ running' = [running EXCEPT ![c] = {}]
      BY <1>11 DEF R!ServerDies
    <2>2. In(outq[b], i)' = In(outq[b], i) /\ Once(outq[b], i)' = Once(outq[b], i)
      BY <2>1 DEF In, Once
    <2>3. i \in running'[b] => i \in running[b]
      BY <1>0, <2>1 DEF ServerTypes
    <2>4. inq'[b] = inq[b] \/ inq'[b] = <<>>
      BY <1>0, <2>1 DEF ServerTypes
    <2>5. (In(inq'[b], ask) => In(inq[b], ask)) /\ (Once(inq[b], ask) => Once(inq'[b], ask))
      BY <2>4, EmptyHas
    <2> QED
      BY <1>1, <2>2, <2>3, <2>5 DEF OneStage
  <1>12. CASE UNCHANGED <<inq, outq, running>>
    <2>1. OneStage(i, b)' /\ (In(inq[b], ask)' => In(inq[b], ask))
      BY <1>1, <1>12 DEF OneStage, Once, In
    <2> QED
      BY <2>1, <1>8, <1>9
  <1>13. CASE R!ClientSpeaks
    BY <1>12, <1>13 DEF R!ClientSpeaks, R!Says
  <1>14. CASE R!ClientLeaves \/ R!NoteLine \/ R!NoteId \/ R!PickBackend \/ R!SendBreaks \/ R!ClientEnds
    BY <1>12, <1>14 DEF R!ClientLeaves, R!NoteLine, R!NoteId, R!PickBackend, R!SendBreaks, R!ClientEnds
  <1>15. CASE \/ R!ServerLoop \/ R!ReadEOF \/ R!FailInFlight \/ R!WriteError \/ R!Reconnect
              \/ R!ReplayBreaks \/ R!Install
    BY <1>12, <1>15 DEF R!ServerLoop, R!ReadEOF, R!FailInFlight, R!WriteError, R!Reconnect,
       R!ReplayBreaks, R!Install
  <1>16. CASE UNCHANGED R!vars
    BY <1>12, <1>16 DEF R!vars
  <1>17. CASE \E c \in R!Backends : R!ServerReads(c) \/ R!ServerAnswers(c) \/ R!ServerDies(c)
    BY <1>8, <1>9, <1>10, <1>11, <1>17
  <1> HIDE DEF ask
  <1> QED
    BY <1>5, <1>6, <1>7, <1>8, <1>13, <1>14, <1>15, <1>16, <1>17
       DEF R!Next, R!ClientThread, R!ServerThread

(* Only what the client did not say before becomes fresh.                  *)
LEMMA FreshMoves ==
  ASSUME RelayInv, [R!Next]_R!vars, NEW i \in Tracked, Fresh(i)'
  PROVE  /\ i \in Reqs /\ ~(R!SendLine /\ cline = R!Request(i))
         /\ Fresh(i) \/ R!Request(i) \notin said
  <1>0. /\ R!RelayAssumption /\ ClientTypes /\ LinesOK /\ ClientTypes'
    BY ClientTypesStay DEF RelayInv, Types
  <1> DEFINE ask == R!Request(i)
  <1>1. ask \in ClientLines
    <2>1. In(stdin', ask) => ask \in ClientLines
      BY <1>0, LenProperties DEF In, ClientTypes
    <2>2. Carries(ask)' => ask \in ClientLines
      BY <1>0 DEF Carries, ClientTypes
    <2> QED
      BY <2>1, <2>2 DEF Fresh
  <1>2. i \in Reqs
    BY <1>0, <1>1, NeverFresh, LinesDiffer DEF ClientLines, R!Ids
  <1>3. ~(R!SendLine /\ cline = ask)
    <2>1. R!SendLine => UNCHANGED stdin /\ cpc' = "read" /\ cpc = "send"
      BY DEF R!SendLine, R!clientvars
    <2>2. R!SendLine /\ cline = ask => Carries(ask) /\ In(stdin, ask)
      BY <2>1 DEF Carries, Fresh, In
    <2> QED
      BY <1>0, <1>2, <2>2 DEF LinesOK, R!Ids
  <1>4. Fresh(i) \/ ask \notin said
    BY <1>1, LinesMove DEF Fresh
  <1> QED
    BY <1>2, <1>3, <1>4

(* Every step keeps TokenOK.                                               *)
LEMMA TokenStays ==
  ASSUME RelayInv, [R!Next]_R!vars
  PROVE  TokenOK'
  <1>0. /\ R!RelayAssumption /\ ClientTypes /\ RelayTypes /\ LinesOK /\ TokenOK /\ AnsweredOK
    BY DEF RelayInv, Types
  <1> SUFFICES ASSUME NEW i \in Tracked
               PROVE  /\ Fresh(i)' => \A b \in R!Backends : ~Seen(i, b)'
                      /\ \A b, c \in R!Backends : Seen(i, b)' /\ Seen(i, c)' => b = c
                      /\ \A b \in R!Backends : OneStage(i, b)'
    BY DEF TokenOK
  <1>1. i # InitId /\ i \in R!Ids \cup R!ReplayIds /\ (i \in Reqs \/ ~Fresh(i))
    BY NeverFresh DEF Tracked, R!Ids
  <1>2. i \in R!ReplayIds => i \notin Reqs
    BY <1>0 DEF R!RelayAssumption, R!Ids
  <1>3. ASSUME NEW b \in R!Backends, Seen(i, b)'
        PROVE  \/ Seen(i, b)
               \/ R!SendLine /\ b = cback /\ cline = R!Request(i) /\ Fresh(i)
               \/ R!Replay /\ b = started /\ i = replays + 1 /\ i \in R!ReplayIds
    BY <1>1, <1>3, SeenMoves DEF R!SendLine, Fresh, Carries
  <1>4. ASSUME NEW b \in R!Backends, Seen(i, b)
        PROVE  ~Fresh(i) /\ R!Request(i) \in said \cup {R!Request(n) : n \in R!ReplayIds}
               /\ (i \in R!ReplayIds => i # replays + 1)
    <2>1. ~Fresh(i)
      BY <1>0, <1>4 DEF TokenOK
    <2>2. i \in R!Ids => R!Request(i) \in said
      BY <1>0, <1>4 DEF LinesOK
    <2>3. i \in R!ReplayIds => i \in 1..replays
      BY <1>0, <1>4 DEF AnsweredOK, RelayTypes
    <2>4. replays + 1 \notin 1..replays
      BY <1>0 DEF RelayTypes, R!RelayAssumption, R!Backends
    <2> QED
      BY <1>1, <2>1, <2>2, <2>3, <2>4
  <1>5. ASSUME Fresh(i)', NEW b \in R!Backends, Seen(i, b)'
        PROVE  FALSE
    <2>1. i \in Reqs /\ ~(R!SendLine /\ cline = R!Request(i)) /\ (Fresh(i) \/ R!Request(i) \notin said)
      BY <1>5, FreshMoves
    <2>2. Seen(i, b)
      BY <1>2, <1>3, <1>5, <2>1
    <2>3. i \in R!Ids
      BY <2>1 DEF R!Ids
    <2> QED
      BY <1>0, <2>1, <2>2, <2>3 DEF TokenOK, LinesOK
  <1>6. ASSUME NEW b \in R!Backends, NEW c \in R!Backends, Seen(i, b)', Seen(i, c)'
        PROVE  b = c
    <2>1. Seen(i, b) /\ Seen(i, c) => b = c
      BY <1>0 DEF TokenOK
    <2> QED
      BY <1>1, <1>2, <1>3, <1>4, <1>6, <2>1
  <1> QED
    BY <1>5, <1>6, StagesMove

(* An id to be swallowed stays so until its answer is read.                *)
LEMMA SwallowMoves ==
  ASSUME RelayInv, [R!Next]_R!vars
  PROVE  \/ swallow \subseteq swallow'
         \/ /\ R!CopyAnswer /\ swallow' = swallow \ {Head(outq[sback])}
            /\ sback \in R!Backends /\ In(outq[sback], Head(outq[sback]))
  <1>0. R!RelayAssumption /\ RelayTypes /\ ServerTypes /\ Latest
    BY DEF RelayInv, Types
  <1> USE DEF R!clientvars, R!fields, R!cvars, R!svars, R!world
  <1>1. CASE R!CopyAnswer
    <2>1. sback \in R!Backends /\ outq[sback] # <<>> /\ outq' = [outq EXCEPT ![sback] = Tail(@)]
      BY <1>0, <1>1 DEF R!CopyAnswer, Latest, RelayTypes
    <2>2. In(outq[sback], Head(outq[sback]))
      BY <1>0, <2>1, OutqShrinks
    <2> QED
      BY <1>1, <2>1, <2>2 DEF R!CopyAnswer
  <1>2. CASE R!ClientSpeaks
    BY <1>2 DEF R!ClientSpeaks, R!Says
  <1>3. CASE \/ R!ClientLeaves \/ R!NoteLine \/ R!NoteId \/ R!PickBackend \/ R!SendLine
             \/ R!SendBreaks \/ R!ClientEnds
    BY <1>3 DEF R!ClientLeaves, R!NoteLine, R!NoteId, R!PickBackend, R!SendLine, R!SendBreaks, R!ClientEnds
  <1>4. CASE R!ServerLoop \/ R!ReadEOF \/ R!FailInFlight \/ R!WriteError \/ R!Reconnect
    BY <1>4 DEF R!ServerLoop, R!ReadEOF, R!FailInFlight, R!WriteError, R!Reconnect
  <1>5. CASE R!Replay \/ R!ReplayInitialized \/ R!ReplayBreaks \/ R!Install
    BY <1>5 DEF R!Replay, R!ReplayInitialized, R!ReplayBreaks, R!Install
  <1>6. ASSUME NEW b \in R!Backends, R!ServerReads(b) \/ R!ServerAnswers(b) \/ R!ServerDies(b)
        PROVE  UNCHANGED swallow
    BY <1>6 DEF R!ServerReads, R!ServerAnswers, R!ServerDies
  <1>7. CASE UNCHANGED R!vars
    BY <1>7 DEF R!vars
  <1> QED
    BY <1>1, <1>2, <1>3, <1>4, <1>5, <1>6, <1>7 DEF R!Next, R!ClientThread, R!ServerThread

(* Every step keeps AnsweredOK.                                            *)
LEMMA AnsweredStays ==
  ASSUME RelayInv, [R!Next]_R!vars
  PROVE  AnsweredOK'
  <1>0. /\ R!RelayAssumption /\ ClientTypes /\ RelayTypes /\ LinesOK /\ TokenOK /\ AnsweredOK
        /\ Unanswered
    BY DEF RelayInv, Types
  <1>1. \A i \in Reqs : i \in Tracked /\ i \in R!Ids /\ i # InitId /\ i \notin R!ReplayIds
    BY <1>0 DEF Tracked, R!Ids, R!RelayAssumption
  <1>2. ASSUME NEW i \in Reqs, NEW b \in R!Backends, Seen(i, b)'
        PROVE  Seen(i, b) \/ (R!SendLine /\ Fresh(i))
    BY <1>1, <1>2, SeenMoves DEF R!SendLine, Fresh, Carries
  <1>3. ASSUME NEW i \in Reqs, NEW b \in R!Backends, Seen(i, b)
        PROVE  ~Fresh(i) /\ ~Fresh(i)' /\ \A c \in R!Backends : Seen(i, c)' => c = b
    <2>1. ~Fresh(i) /\ R!Request(i) \in said
      BY <1>0, <1>1, <1>3 DEF TokenOK, LinesOK
    <2>2. ~Fresh(i)'
      BY <1>1, <2>1, FreshMoves
    <2>3. ASSUME NEW c \in R!Backends, Seen(i, c)'
          PROVE  c = b
      <3>1. Seen(i, c)
        BY <1>2, <2>1, <2>3
      <3> QED
        BY <1>0, <1>1, <1>3, <3>1 DEF TokenOK
    <2> QED
      BY <2>1, <2>2, <2>3
  <1>4. ASSUME NEW i \in Reqs, Fresh(i)' \/ (\E b \in R!Backends : Seen(i, b)')
        PROVE  log'[i] \in {<<>>, <<"error">>}
    <2>1. Fresh(i) \/ (\E b \in R!Backends : Seen(i, b)) \/ R!Request(i) \notin said
      BY <1>1, <1>2, <1>4, FreshMoves
    <2>2. log[i] \in {<<>>, <<"error">>}
      BY <1>0, <1>1, <2>1 DEF AnsweredOK, LinesOK
    <2>3. ~(R!CopyAnswer /\ i = Head(outq[sback]) /\ In(outq[sback], i) /\ sback \in R!Backends)
      BY <1>1, <1>3, <1>4, StagesMove DEF Seen
    <2>4. i \in todo => log[i] = <<>>
      BY <1>0, <1>1 DEF Unanswered
    <2>5. Append(<<>>, "error") = <<"error">>
      OBVIOUS
    <2>6. log'[i] = log[i] \/ (i \in todo /\ log'[i] = Append(log[i], "error"))
      BY <1>1, <2>3, BooksMove
    <2> QED
      BY <2>2, <2>4, <2>5, <2>6
  <1>5. ASSUME NEW i \in Reqs, Fresh(i)' \/ (\E b \in R!Backends : In(inq[b], R!Request(i))')
        PROVE  runs'[i] = 0
    <2>1. \/ Fresh(i) \/ R!Request(i) \notin said
          \/ \E b \in R!Backends : In(inq[b], R!Request(i))
      BY <1>1, <1>5, FreshMoves, StagesMove DEF Fresh
    <2>2. runs[i] = 0
      BY <1>0, <1>1, <2>1 DEF AnsweredOK, LinesOK
    <2>3. ASSUME NEW c \in R!Backends, R!ServerReads(c), Head(inq[c]) = R!Request(i),
                 In(inq[c], R!Request(i))
          PROVE  FALSE
      <3>1. Seen(i, c)
        BY <2>3 DEF Seen
      <3>2. PICK b \in R!Backends : In(inq[b], R!Request(i))'
        BY <1>3, <1>5, <3>1
      <3>3. Seen(i, b)'
        BY <3>2 DEF Seen
      <3>4. b = c
        BY <1>3, <3>1, <3>3
      <3> QED
        BY <1>1, <2>3, <3>2, <3>4, StagesMove
    <2> QED
      BY <1>1, <2>2, <2>3, BooksMove
  <1>6. ASSUME NEW i \in R!ReplayIds, NEW b \in R!Backends, Seen(i, b)'
        PROVE  i \in swallow'
    <2>1. i \in Tracked /\ i \in R!Ids \cup R!ReplayIds /\ i \notin R!Ids /\ i # InitId
      BY <1>0, <1>6 DEF Tracked, R!Ids, R!RelayAssumption
    <2>2. cline # R!Request(i)
      BY <1>0, <2>1, LinesDiffer DEF ClientTypes, ClientLines
    <2>3. CASE i \in swallow'
      BY <2>3
    <2>4. CASE Seen(i, b)
      <3>1. i \in swallow
        BY <1>0, <1>6, <2>4 DEF AnsweredOK
      <3>2. CASE R!CopyAnswer /\ sback \in R!Backends /\ i = Head(outq[sback]) /\ In(outq[sback], i)
        <4>1. b = sback
          BY <1>0, <2>1, <2>4, <3>2 DEF TokenOK, Seen
        <4> QED
          BY <1>6, <2>1, <3>2, <4>1, StagesMove
      <3> QED
        BY <3>1, <3>2, SwallowMoves
    <2> QED
      BY <1>6, <2>1, <2>2, <2>3, <2>4, SeenMoves
  <1> QED
    BY <1>4, <1>5, <1>6 DEF AnsweredOK

(* What happens to a server's queue and its session.                       *)
LEMMA QueueMoves ==
  ASSUME RelayInv, [R!Next]_R!vars, NEW b \in R!Backends
  PROVE  \/ inq'[b] = inq[b] /\ session'[b] = session[b] /\ ~(R!SendLine /\ b = cback)
         \/ /\ R!SendLine /\ b = cback /\ cline \in R!Lines
            /\ inq'[b] = Append(inq[b], cline) /\ session'[b] = session[b]
         \/ /\ R!Replay /\ b = started /\ session'[b] = session[b]
            /\ \E y \in R!Lines : Handshake(y) /\ inq'[b] = Append(inq[b], y)
         \/ /\ R!ReplayInitialized /\ b = started /\ initializedLine /\ R!Initialized \in R!Lines
            /\ inq'[b] = Append(inq[b], R!Initialized) /\ session'[b] = session[b]
         \/ /\ R!ServerReads(b) /\ inq[b] # <<>> /\ Head(inq[b]) \in R!Lines
            /\ inq'[b] = Tail(inq[b]) /\ session'[b] = SessionAfter(session[b], Head(inq[b]))
         \/ R!ServerDies(b) /\ inq'[b] = <<>> /\ session'[b] = session[b]
  <1>0. R!RelayAssumption /\ ClientTypes /\ RelayTypes /\ ServerTypes /\ Latest
    BY DEF RelayInv, Types
  <1> USE DEF R!clientvars, R!fields, R!cvars, R!svars, R!world
  <1>1. CASE UNCHANGED <<inq, session>> /\ ~R!SendLine
    BY <1>1
  <1>2. CASE R!SendLine
    <2>1. cback \in R!Backends /\ cline \in R!Lines
      BY <1>0, <1>2, LastIn, LineTypes DEF R!SendLine, Latest, ClientTypes
    <2>2. inq' = [inq EXCEPT ![cback] = Append(@, cline)] /\ session' = session
      BY <1>2 DEF R!SendLine
    <2> QED
      BY <1>0, <1>2, <2>1, <2>2 DEF ServerTypes
  <1>3. CASE R!Replay
    <2>1. sback = started /\ sback \in R!Backends /\ session' = session /\ ~R!SendLine
      BY <1>0, <1>3 DEF R!Replay, Latest, RelayTypes, R!SendLine
    <2>2. ASSUME NEW i \in R!Ids \cup R!ReplayIds, i \notin Reqs, Puts(sback, R!Request(i))
          PROVE  \/ inq'[b] = inq[b]
                 \/ b = started /\ \E y \in R!Lines : Handshake(y) /\ inq'[b] = Append(inq[b], y)
      <3>1. R!Request(i) \in R!Lines /\ Handshake(R!Request(i))
        BY <1>0, <2>2, LineTypes, LinesDiffer DEF Handshake
      <3>2. inq'[b] = inq[b] \/ (b = started /\ inq'[b] = Append(inq[b], R!Request(i)))
        BY <1>0, <2>1, <2>2 DEF ServerTypes, Puts
      <3> QED
        BY <3>1, <3>2
    <2>3. InitId \in R!Ids \cup R!ReplayIds /\ InitId \notin Reqs
      BY <1>0 DEF R!Ids, R!RelayAssumption
    <2>4. replays + 1 \in R!ReplayIds /\ replays + 1 \notin Reqs
      <3>1. replays < started - 1 /\ started \in R!Backends /\ replays \in Nat /\ MaxBackends \in Nat
        BY <1>0, <1>3 DEF R!Replay, Latest, RelayTypes, R!RelayAssumption
      <3>2. replays + 1 \in R!ReplayIds
        BY <3>1 DEF R!Backends, R!ReplayIds
      <3> QED
        BY <1>0, <3>2 DEF R!Ids, R!RelayAssumption
    <2>5. inq' = inq \/ Puts(sback, R!Request(InitId)) \/ Puts(sback, R!Request(replays + 1))
      BY <1>3 DEF R!Replay, Puts
    <2> QED
      BY <1>3, <2>1, <2>2, <2>3, <2>4, <2>5
  <1>4. CASE R!ReplayInitialized
    <2>1. /\ sback = started /\ sback \in R!Backends /\ session' = session
          /\ ~R!SendLine /\ R!Initialized \in R!Lines
      BY <1>0, <1>4, LineTypes DEF R!ReplayInitialized, Latest, RelayTypes, R!SendLine
    <2>2. inq' = inq \/ (initializedLine /\ inq' = [inq EXCEPT ![sback] = Append(@, R!Initialized)])
      BY <1>4 DEF R!ReplayInitialized
    <2> QED
      BY <1>0, <1>4, <2>1, <2>2 DEF ServerTypes
  <1>5. ASSUME NEW c \in R!Backends, R!ServerReads(c)
        PROVE  \/ inq'[b] = inq[b] /\ session'[b] = session[b] /\ ~R!SendLine
               \/ /\ R!ServerReads(b) /\ inq[b] # <<>> /\ Head(inq[b]) \in R!Lines
                  /\ inq'[b] = Tail(inq[b]) /\ session'[b] = SessionAfter(session[b], Head(inq[b]))
    <2>1. inq[c] # <<>> /\ inq' = [inq EXCEPT ![c] = Tail(@)]
      BY <1>5 DEF R!ServerReads
    <2>2. ~R!SendLine
      BY <1>5 DEF R!ServerReads, R!SendLine
    <2>3. CASE b # c
      <3>1. inq'[b] = inq[b]
        BY <1>0, <2>1, <2>3 DEF ServerTypes
      <3>2. session'[b] = session[b]
        BY <1>0, <1>5, <2>3 DEF ServerTypes, R!ServerReads
      <3> QED
        BY <2>2, <3>1, <3>2
    <2>4. CASE b = c
      <3>1. Head(inq[b]) \in R!Lines
        BY <1>0, <2>1, <2>4, InqShrinks
      <3>2. inq'[b] = Tail(inq[b])
        BY <1>0, <2>1, <2>4 DEF ServerTypes
      <3> DEFINE line == Head(inq[b])
      <3>3. session' = CASE line = R!Initialized /\ session[b] # "new" -> [session EXCEPT ![b] = "ready"]
                         [] line[1] = "request" /\ line[2] \notin Reqs /\ session[b] = "new"
                                                -> [session EXCEPT ![b] = "init"]
                         [] OTHER -> session
        BY <1>5, <2>4 DEF R!ServerReads
      <3>4. line = R!Initialized => line[1] # "request"
        BY <1>0, <3>1, LineTypes
      <3> HIDE DEF line
      <3>5. session'[b] = SessionAfter(session[b], line)
        BY <1>0, <3>3, <3>4 DEF SessionAfter, Handshake, ServerTypes
      <3> QED
        BY <1>5, <2>1, <2>4, <3>1, <3>2, <3>5 DEF line
    <2> QED
      BY <2>3, <2>4
  <1>6. ASSUME NEW c \in R!Backends, R!ServerDies(c)
        PROVE  \/ inq'[b] = inq[b] /\ session'[b] = session[b] /\ ~R!SendLine
               \/ R!ServerDies(b) /\ inq'[b] = <<>> /\ session'[b] = session[b]
    <2>1. inq' = [inq EXCEPT ![c] = <<>>] /\ session' = session /\ ~R!SendLine
      BY <1>6 DEF R!ServerDies, R!SendLine
    <2> QED
      BY <1>0, <1>6, <2>1 DEF ServerTypes
  <1>7. ASSUME NEW c \in R!Backends, R!ServerAnswers(c)
        PROVE  UNCHANGED <<inq, session>> /\ ~R!SendLine
    BY <1>7 DEF R!ServerAnswers, R!SendLine
  <1>8. CASE R!ClientSpeaks
    BY <1>1, <1>8 DEF R!ClientSpeaks, R!Says, R!SendLine
  <1>9. CASE R!ClientLeaves \/ R!NoteLine \/ R!NoteId \/ R!PickBackend \/ R!SendBreaks \/ R!ClientEnds
    BY <1>1, <1>9 DEF R!ClientLeaves, R!NoteLine, R!NoteId, R!PickBackend, R!SendBreaks, R!ClientEnds,
       R!SendLine
  <1>10. CASE R!ServerLoop \/ R!CopyAnswer \/ R!ReadEOF \/ R!FailInFlight \/ R!WriteError
    BY <1>1, <1>10 DEF R!ServerLoop, R!CopyAnswer, R!ReadEOF, R!FailInFlight, R!WriteError, R!SendLine
  <1>11. CASE R!Reconnect \/ R!ReplayBreaks \/ R!Install
    BY <1>1, <1>11 DEF R!Reconnect, R!ReplayBreaks, R!Install, R!SendLine
  <1>12. CASE UNCHANGED R!vars /\ ~R!SendLine
    BY <1>1, <1>12 DEF R!vars
  <1> QED
    BY <1>2, <1>3, <1>4, <1>5, <1>6, <1>7, <1>8, <1>9, <1>10, <1>11, <1>12, <1>1
       DEF R!Next, R!ClientThread, R!ServerThread

(* While the latest server is open: where the client thread has a line     *)
(* for it, and where the server thread is in the replay.                   *)
LEMMA PlacesMove ==
  ASSUME RelayInv, [R!Next]_R!vars, spc' # "replay", R!Open(started)'
  PROVE  /\ started' = started /\ R!Open(started)
         /\ \A x : Brings(x) => \/ Brings(x)' \/ (R!SendLine /\ cline = x /\ cback = started)
         /\ \/ R!NoteLine /\ cpc = "read"
            \/ /\ initLine' = initLine /\ initializedLine' = initializedLine
         /\ \/ spc' \in {"replay", "initialized"} <=> spc \in {"replay", "initialized"}
            \/ R!Replay \/ R!ReplayInitialized
            \/ spc = "replay" /\ ~initLine
         /\ spc = "replay" => R!Replay \/ ~initLine
  <1>0. R!RelayAssumption /\ ClientTypes /\ RelayTypes /\ Latest
    BY DEF RelayInv, Types
  <1> USE DEF R!clientvars, R!fields, R!cvars, R!svars, R!world, Brings, R!Open
  <1> DEFINE Goal ==
         /\ started' = started /\ R!Open(started)
         /\ \A x : Brings(x) => \/ Brings(x)' \/ (R!SendLine /\ cline = x /\ cback = started)
         /\ \/ R!NoteLine /\ cpc = "read"
            \/ /\ initLine' = initLine /\ initializedLine' = initializedLine
         /\ \/ spc' \in {"replay", "initialized"} <=> spc \in {"replay", "initialized"}
            \/ R!Replay \/ R!ReplayInitialized
            \/ spc = "replay" /\ ~initLine
         /\ spc = "replay" => R!Replay \/ ~initLine
  <1>a. spc \in {"replay", "initialized"} => sback = started
    BY <1>0 DEF Latest
  <1>1. CASE R!ClientSpeaks
    BY <1>0, <1>1 DEF R!ClientSpeaks, R!Says
  <1>2. CASE R!ClientLeaves
    BY <1>2 DEF R!ClientLeaves
  <1>3. CASE R!NoteLine
    BY <1>3 DEF R!NoteLine
  <1>4. CASE R!NoteId
    BY <1>4 DEF R!NoteId
  <1>5. CASE R!PickBackend
    BY <1>0, <1>5 DEF R!PickBackend, Latest
  <1>6. CASE R!SendLine
    BY <1>6 DEF R!SendLine
  <1>7. CASE R!SendBreaks
    BY <1>7 DEF R!SendBreaks
  <1>8. CASE R!ClientEnds
    BY <1>8 DEF R!ClientEnds
  <1>9. CASE R!ServerLoop
    BY <1>9 DEF R!ServerLoop
  <1>10. CASE R!CopyAnswer
    BY <1>10 DEF R!CopyAnswer
  <1>11. CASE R!ReadEOF
    BY <1>11 DEF R!ReadEOF
  <1>12. CASE R!FailInFlight
    BY <1>12 DEF R!FailInFlight
  <1>13. CASE R!WriteError
    BY <1>13 DEF R!WriteError
  <1>14. CASE R!Reconnect
    BY <1>14 DEF R!Reconnect
  <1>15. CASE R!Replay
    BY <1>15 DEF R!Replay
  <1>16. CASE R!ReplayInitialized
    BY <1>16 DEF R!ReplayInitialized
  <1>17. CASE R!ReplayBreaks
    BY <1>a, <1>17 DEF R!ReplayBreaks
  <1>18. CASE R!Install
    BY <1>a, <1>18 DEF R!Install
  <1>19. ASSUME NEW b \in R!Backends, R!ServerReads(b) \/ R!ServerAnswers(b)
         PROVE  Goal
    BY <1>19 DEF R!ServerReads, R!ServerAnswers
  <1>20. ASSUME NEW b \in R!Backends, R!ServerDies(b)
         PROVE  Goal
    BY <1>20 DEF R!ServerDies
  <1>21. CASE UNCHANGED R!vars
    BY <1>21 DEF R!vars
  <1> QED
    BY <1>1, <1>2, <1>3, <1>4, <1>5, <1>6, <1>7, <1>8, <1>9, <1>10, <1>11, <1>12, <1>13, <1>14,
       <1>15, <1>16, <1>17, <1>18, <1>19, <1>20, <1>21 DEF R!Next, R!ClientThread, R!ServerThread

(* No request enters a queue before the handshake did.                     *)
LEMMA OrderedStays ==
  ASSUME RelayInv, [R!Next]_R!vars, NEW b \in R!Backends
  PROVE  Ordered(session[b], inq[b])'
  <1>0. R!RelayAssumption /\ ClientTypes /\ RelayTypes /\ ServerTypes /\ Latest /\ OrderOK /\ SessionOK
    BY DEF RelayInv, Types
  <1>1. Ordered(session[b], inq[b]) /\ inq[b] \in Seq(R!Lines)
    BY <1>0 DEF SessionOK, ServerTypes
  <1>2. CASE /\ R!SendLine /\ b = cback /\ cline \in R!Lines
             /\ inq'[b] = Append(inq[b], cline) /\ session'[b] = session[b]
    <2>1. b = started /\ cpc = "send" /\ R!Open(b)
      BY <1>0, <1>2 DEF R!SendLine, Latest
    <2>2. ASSUME cline \in RequestLines
          PROVE  Ready(session[b], inq[b])
      <3>1. PICK r \in Reqs : cline = R!Request(r)
        BY <2>2 DEF RequestLines
      <3>2. initializedLine
        BY <1>0, <2>1, <3>1 DEF OrderOK, Carries
      <3>3. ~Brings(R!Initialized)
        BY <3>1, LinesDiffer DEF Brings
      <3>4. spc \notin {"replay", "initialized"}
        BY <1>0, <1>2, <2>1 DEF Latest
      <3> QED
        BY <1>0, <2>1, <3>2, <3>3, <3>4 DEF SessionOK
    <2> QED
      BY <1>1, <1>2, <2>2, SessionGrows
  <1>3. CASE session'[b] = session[b] /\ \E y \in R!Lines : Handshake(y) /\ inq'[b] = Append(inq[b], y)
    <2>1. \A y \in R!Lines : Handshake(y) => y \notin RequestLines
      BY LinesDiffer DEF Handshake, RequestLines
    <2> QED
      BY <1>1, <1>3, <2>1, SessionGrows
  <1>4. CASE R!Initialized \in R!Lines /\ inq'[b] = Append(inq[b], R!Initialized) /\ session'[b] = session[b]
    <2>1. R!Initialized \notin RequestLines
      BY LinesDiffer DEF RequestLines
    <2> QED
      BY <1>1, <1>4, <2>1, SessionGrows
  <1>5. CASE /\ inq[b] # <<>>
             /\ inq'[b] = Tail(inq[b]) /\ session'[b] = SessionAfter(session[b], Head(inq[b]))
    BY <1>1, <1>5, SessionShrinks
  <1>6. CASE inq'[b] = <<>> /\ session'[b] = session[b]
    BY <1>6, EmptyHas, EmptySeq DEF Ordered
  <1>7. CASE inq'[b] = inq[b] /\ session'[b] = session[b]
    BY <1>1, <1>7
  <1> QED
    BY <1>2, <1>3, <1>4, <1>5, <1>6, <1>7, QueueMoves

(* The server a line is put to.                                            *)
LEMMA LinePut ==
  ASSUME RelayInv, [R!Next]_R!vars
  PROVE  /\ started \in R!Backends
         /\ R!SendLine /\ cback = started
                => /\ cline \in R!Lines /\ session' = session
                   /\ inq'[started] = Append(inq[started], cline)
         /\ R!Replay /\ initLine
                => /\ session' = session
                   /\ \E y \in R!Lines : Handshake(y) /\ inq'[started] = Append(inq[started], y)
         /\ R!ReplayInitialized /\ initializedLine
                => /\ R!Initialized \in R!Lines /\ session' = session
                   /\ inq'[started] = Append(inq[started], R!Initialized)
  <1>0. /\ R!RelayAssumption /\ ClientTypes /\ RelayTypes /\ ServerTypes /\ Latest
        /\ started \in R!Backends
    BY LastIn DEF RelayInv, Types
  <1> USE DEF R!fields, R!world
  <1>1. ASSUME R!SendLine, cback = started
        PROVE  cline \in R!Lines /\ session' = session /\ inq'[started] = Append(inq[started], cline)
    BY <1>0, <1>1, LineTypes DEF R!SendLine, ServerTypes, ClientTypes
  <1>2. ASSUME R!Replay, initLine
        PROVE  /\ session' = session
               /\ \E y \in R!Lines : Handshake(y) /\ inq'[started] = Append(inq[started], y)
    <2>1. sback = started /\ session' = session
      BY <1>0, <1>2 DEF R!Replay, Latest
    <2>2. PICK i \in {InitId, replays + 1} : inq' = [inq EXCEPT ![sback] = Append(@, R!Request(i))]
      BY <1>2 DEF R!Replay
    <2>3. i \in R!Ids \cup R!ReplayIds /\ i \notin Reqs
      <3>1. replays < started - 1 /\ started \in R!Backends /\ replays \in Nat /\ MaxBackends \in Nat
        BY <1>0, <1>2 DEF R!Replay, Latest, RelayTypes, R!RelayAssumption
      <3>2. replays + 1 \in R!ReplayIds
        BY <3>1 DEF R!Backends, R!ReplayIds
      <3> QED
        BY <1>0, <3>2 DEF R!Ids, R!RelayAssumption
    <2>4. R!Request(i) \in R!Lines /\ Handshake(R!Request(i))
      BY <1>0, <2>3, LineTypes, LinesDiffer DEF Handshake
    <2>5. inq'[started] = Append(inq[started], R!Request(i))
      BY <1>0, <2>1, <2>2 DEF ServerTypes
    <2> QED
      BY <2>1, <2>4, <2>5
  <1>3. ASSUME R!ReplayInitialized, initializedLine
        PROVE  /\ R!Initialized \in R!Lines /\ session' = session
               /\ inq'[started] = Append(inq[started], R!Initialized)
    BY <1>0, <1>3, LineTypes DEF R!ReplayInitialized, Latest, ServerTypes
  <1> QED
    BY <1>0, <1>1, <1>2, <1>3

(* A session that is as far stays as far while its server is up.           *)
LEMMA SessionGoesOn ==
  ASSUME RelayInv, [R!Next]_R!vars, NEW b \in R!Backends, b \in up'
  PROVE  /\ Handshook(session[b], inq[b]) => Handshook(session'[b], inq'[b])
         /\ Ready(session[b], inq[b]) => Ready(session'[b], inq'[b])
  <1>0. inq[b] \in Seq(R!Lines) /\ ~R!ServerDies(b)
    BY DEF RelayInv, Types, ServerTypes, R!ServerDies
  <1>1. ASSUME NEW y \in R!Lines, inq'[b] = Append(inq[b], y), session'[b] = session[b]
        PROVE  /\ Handshook(session[b], inq[b]) => Handshook(session'[b], inq'[b])
               /\ Ready(session[b], inq[b]) => Ready(session'[b], inq'[b])
    BY <1>0, <1>1, SessionGrows
  <1>2. ASSUME inq[b] # <<>>, inq'[b] = Tail(inq[b]), session'[b] = SessionAfter(session[b], Head(inq[b]))
        PROVE  /\ Handshook(session[b], inq[b]) => Handshook(session'[b], inq'[b])
               /\ Ready(session[b], inq[b]) => Ready(session'[b], inq'[b])
    BY <1>0, <1>2, SessionShrinks
  <1> QED
    BY <1>0, <1>1, <1>2, QueueMoves

(* The notification is replayed only after an initialize.                  *)
LEMMA TurnsMove ==
  ASSUME RelayInv, [R!Next]_R!vars, spc' = "initialized"
  PROVE  spc = "initialized" \/ (R!Replay /\ initLine)
  <1> USE DEF R!clientvars, R!fields, R!cvars, R!svars, R!world
  <1>1. CASE R!ClientSpeaks
    BY <1>1 DEF R!ClientSpeaks, R!Says
  <1>2. CASE \/ R!ClientLeaves \/ R!NoteLine \/ R!NoteId \/ R!PickBackend \/ R!SendLine
             \/ R!SendBreaks \/ R!ClientEnds
    BY <1>2 DEF R!ClientLeaves, R!NoteLine, R!NoteId, R!PickBackend, R!SendLine, R!SendBreaks, R!ClientEnds
  <1>3. CASE R!ServerLoop \/ R!CopyAnswer \/ R!ReadEOF \/ R!FailInFlight \/ R!WriteError \/ R!Reconnect
    BY <1>3 DEF R!ServerLoop, R!CopyAnswer, R!ReadEOF, R!FailInFlight, R!WriteError, R!Reconnect
  <1>4. CASE R!Replay \/ R!ReplayInitialized \/ R!ReplayBreaks \/ R!Install
    BY <1>4 DEF R!Replay, R!ReplayInitialized, R!ReplayBreaks, R!Install
  <1>5. ASSUME NEW b \in R!Backends, R!ServerReads(b) \/ R!ServerAnswers(b) \/ R!ServerDies(b)
        PROVE  UNCHANGED spc
    BY <1>5 DEF R!ServerReads, R!ServerAnswers, R!ServerDies
  <1>6. CASE UNCHANGED R!vars
    BY <1>6 DEF R!vars
  <1> QED
    BY <1>1, <1>2, <1>3, <1>4, <1>5, <1>6 DEF R!Next, R!ClientThread, R!ServerThread

(* Every step keeps SessionOK.                                             *)
LEMMA SessionStays ==
  ASSUME RelayInv, [R!Next]_R!vars
  PROVE  SessionOK'
  <1>0. /\ R!RelayAssumption /\ ClientTypes /\ RelayTypes /\ ServerTypes /\ LinesOK
        /\ Latest /\ OrderOK /\ Unanswered /\ SessionOK /\ OrderOK'
    BY OrderStays DEF RelayInv, Types
  <1> DEFINE b == started
             s == session[b]
             q == inq[b]
  <1>1. /\ b \in R!Backends /\ q \in Seq(R!Lines)
        /\ R!Initialized # R!Request(InitId) /\ Handshake(R!Request(InitId))
    BY <1>0, LastIn, LinesDiffer DEF ServerTypes, Handshake, R!RelayAssumption
  <1>2. initializedLine => log[InitId] # <<>> /\ initLine
    BY <1>0 DEF OrderOK
  <1>3. ASSUME initializedLine'
        PROVE  ~Carries(R!Request(InitId))'
    <2>1. InitId \in R!Ids
      BY DEF R!Ids
    <2>2. initializedLine => ~Carries(R!Request(InitId)) /\ ~In(stdin, R!Request(InitId))
      BY <1>0, <1>2, <2>1 DEF SessionOK, Unanswered, Unnoted
    <2>3. CASE R!NoteLine
      <3>1. initializedLine \/ cline' = R!Initialized
        BY <1>3, <2>3 DEF R!NoteLine
      <3>2. In(stdin, cline')
        BY <1>0, <2>3, ShrunkHas DEF R!NoteLine, ClientTypes
      <3> QED
        BY <1>1, <2>2, <3>1, <3>2 DEF Carries
    <2>4. CASE ~R!NoteLine
      <3>1. initializedLine' = initializedLine
        <4>1. R!ClientSpeaks => initializedLine' = initializedLine
          BY DEF R!ClientSpeaks, R!Says, R!fields
        <4> QED
          BY <2>4, <4>1, CarriesMoves
      <3> QED
        BY <1>3, <2>2, <2>4, <3>1, CarriesMoves
    <2> QED
      BY <2>3, <2>4
  <1>4. ASSUME spc' = "initialized"
        PROVE  initLine'
    <2>1. initLine => initLine'
      <3>1. R!NoteLine \/ R!ClientSpeaks => (initLine => initLine')
        BY DEF R!NoteLine, R!ClientSpeaks, R!Says, R!fields
      <3> QED
        BY <1>0, <3>1, CarriesMoves DEF ClientTypes
    <2>2. spc = "initialized" \/ initLine
      BY <1>4, TurnsMove
    <2> QED
      BY <1>0, <2>1, <2>2 DEF SessionOK
  <1>5. ASSUME R!Open(started)', spc' # "replay", initLine', ~Brings(R!Request(InitId))'
        PROVE  Handshook(session[started], inq[started])'
    <2>1. b' = b /\ R!Open(b) /\ (spc = "replay" => R!Replay \/ ~initLine)
      BY <1>5, PlacesMove
    <2>2. initLine
      <3>1. R!NoteLine /\ cline' = R!Request(InitId) => Brings(R!Request(InitId))'
        BY DEF R!NoteLine, Brings
      <3>2. R!NoteLine => initLine' = (initLine \/ cline' = R!Request(InitId))
        BY DEF R!NoteLine
      <3> QED
        BY <1>0, <1>5, <3>1, <3>2, PlacesMove DEF ClientTypes
    <2>3. b \in up'
      BY <1>5, <2>1 DEF R!Open
    <2>4. CASE R!Replay
      BY <1>1, <2>1, <2>2, <2>4, LinePut, SessionGrows
    <2>5. CASE R!SendLine /\ cline = R!Request(InitId) /\ cback = b
      BY <1>1, <2>1, <2>5, LinePut, SessionGrows
    <2>6. CASE ~R!Replay /\ ~(R!SendLine /\ cline = R!Request(InitId) /\ cback = b)
      <3>1. ~Brings(R!Request(InitId)) /\ spc # "replay"
        BY <1>5, <2>1, <2>2, <2>6, PlacesMove
      <3>2. Handshook(s, q)
        BY <1>0, <2>1, <2>2, <3>1 DEF SessionOK
      <3> QED
        BY <1>1, <2>1, <2>3, <3>2, SessionGoesOn
    <2> QED
      BY <2>4, <2>5, <2>6
  <1>6. ASSUME R!Open(started)', spc' \notin {"replay", "initialized"}, initializedLine',
               ~Brings(R!Initialized)'
        PROVE  Ready(session[started], inq[started])'
    <2>1. b' = b /\ R!Open(b) /\ (spc = "replay" => R!Replay \/ ~initLine)
      BY <1>6, PlacesMove
    <2>2. initializedLine /\ initLine /\ log[InitId] # <<>> /\ InitId \notin pending
      <3>1. R!NoteLine /\ cline' = R!Initialized => Brings(R!Initialized)'
        BY DEF R!NoteLine, Brings
      <3>2. R!NoteLine => initializedLine' = (initializedLine \/ cline' = R!Initialized)
        BY DEF R!NoteLine
      <3>3. initializedLine
        BY <1>0, <1>6, <3>1, <3>2, PlacesMove DEF ClientTypes
      <3> QED
        BY <1>0, <1>2, <3>3 DEF Unanswered, R!Ids
    <2>3. b \in up'
      BY <1>6, <2>1 DEF R!Open
    <2>4. ~Carries(R!Request(InitId)) /\ ~Brings(R!Request(InitId))
      BY <1>0, <2>2 DEF SessionOK, Carries, Brings
    <2>5. spc # "replay" => Handshook(s, q)
      BY <1>0, <2>1, <2>2, <2>4 DEF SessionOK
    <2>6. ~R!Replay
      BY <1>6, <2>2 DEF R!Replay
    <2>7. CASE R!ReplayInitialized
      <3>1. Handshook(s, q)
        BY <2>5, <2>7 DEF R!ReplayInitialized
      <3> QED
        BY <1>1, <2>1, <2>2, <2>7, <3>1, LinePut, SessionGrows
    <2>8. CASE R!SendLine /\ cline = R!Initialized /\ cback = b
      <3>1. Handshook(s, q)
        BY <2>1, <2>2, <2>5, <2>6
      <3> QED
        BY <1>1, <2>1, <2>8, <3>1, LinePut, SessionGrows
    <2>9. CASE ~R!ReplayInitialized /\ ~(R!SendLine /\ cline = R!Initialized /\ cback = b)
      <3>1. ~Brings(R!Initialized) /\ spc \notin {"replay", "initialized"}
        BY <1>6, <2>2, <2>6, <2>9, PlacesMove
      <3>2. Ready(s, q)
        BY <1>0, <2>1, <2>2, <3>1 DEF SessionOK
      <3> QED
        BY <1>1, <2>1, <2>3, <3>2, SessionGoesOn
    <2> QED
      BY <2>7, <2>8, <2>9
  <1> QED
    BY <1>3, <1>4, <1>5, <1>6, OrderedStays DEF SessionOK

(* No request is begun in a session that is not ready.                     *)
LEMMA EarlyStays ==
  ASSUME RelayInv, [R!Next]_R!vars
  PROVE  R!InitializedFirst'
  <1>0. R!RelayAssumption /\ ServerTypes /\ SessionOK /\ R!InitializedFirst
    BY DEF RelayInv, Types, R!RelayAccounted, R!SessionLooksWhole
  <1> USE DEF R!clientvars, R!fields, R!cvars, R!svars, R!world, R!InitializedFirst
  <1>1. ASSUME NEW b \in R!Backends, R!ServerReads(b)
        PROVE  early' = early
    <2> DEFINE line == Head(inq[b])
    <2>1. /\ inq[b] # <<>> /\ inq[b] \in Seq(R!Lines) /\ Ordered(session[b], inq[b])
          /\ inq' = [inq EXCEPT ![b] = Tail(@)]
      BY <1>0, <1>1 DEF R!ServerReads, ServerTypes, SessionOK
    <2>2. line \in R!Lines
      BY <1>0, <2>1, InqShrinks
    <2>3. line \in RequestLines => session[b] = "ready"
      BY <2>1, SessionShrinks
    <2>4. line[1] = "request" /\ line[2] \in Reqs => line \in RequestLines
      <3>1. line[1] = "request" => line = R!Request(line[2])
        BY <1>0, <2>2, LineTypes
      <3> QED
        BY <3>1 DEF RequestLines
    <2>5. early' = IF line[1] = "request" /\ line[2] \in Reqs /\ session[b] # "ready"
                   THEN early \cup {line[2]} ELSE early
      BY <1>1 DEF R!ServerReads
    <2> QED
      BY <2>3, <2>4, <2>5
  <1>2. CASE R!ClientSpeaks
    BY <1>0, <1>2 DEF R!ClientSpeaks, R!Says
  <1>3. CASE \/ R!ClientLeaves \/ R!NoteLine \/ R!NoteId \/ R!PickBackend \/ R!SendLine
             \/ R!SendBreaks \/ R!ClientEnds
    BY <1>0, <1>3 DEF R!ClientLeaves, R!NoteLine, R!NoteId, R!PickBackend, R!SendLine, R!SendBreaks,
       R!ClientEnds
  <1>4. CASE R!ServerLoop \/ R!CopyAnswer \/ R!ReadEOF \/ R!FailInFlight \/ R!WriteError \/ R!Reconnect
    BY <1>0, <1>4 DEF R!ServerLoop, R!CopyAnswer, R!ReadEOF, R!FailInFlight, R!WriteError, R!Reconnect
  <1>5. CASE R!Replay \/ R!ReplayInitialized \/ R!ReplayBreaks \/ R!Install
    BY <1>0, <1>5 DEF R!Replay, R!ReplayInitialized, R!ReplayBreaks, R!Install
  <1>6. ASSUME NEW b \in R!Backends, R!ServerAnswers(b) \/ R!ServerDies(b)
        PROVE  early' = early
    BY <1>6 DEF R!ServerAnswers, R!ServerDies
  <1>7. CASE UNCHANGED R!vars
    BY <1>0, <1>7 DEF R!vars
  <1> QED
    BY <1>0, <1>1, <1>2, <1>3, <1>4, <1>5, <1>6, <1>7 DEF R!Next, R!ClientThread, R!ServerThread

(* The relay writes no answer to a handshake of its own.                   *)
LEMMA RelayIdsStaySilent ==
  ASSUME RelayInv, [R!Next]_R!vars, NEW n \in R!ReplayIds
  PROVE  log'[n] = <<>>
  <1>0. /\ R!RelayAssumption /\ RelayTypes /\ ServerTypes /\ Latest /\ AnsweredOK /\ log[n] = <<>>
        /\ n \in R!Ids \cup R!ReplayIds /\ n \notin R!Ids
    BY DEF RelayInv, Types, R!RelayAccounted, R!SessionLooksWhole, R!AnswerHistory, R!RelayAssumption
  <1> USE DEF R!clientvars, R!fields, R!cvars, R!svars, R!world
  <1>1. CASE R!CopyAnswer
    <2>1. sback \in R!Backends /\ outq[sback] # <<>> /\ outq' = [outq EXCEPT ![sback] = Tail(@)]
      BY <1>0, <1>1 DEF R!CopyAnswer, Latest, RelayTypes
    <2>2. In(outq[sback], Head(outq[sback]))
      BY <1>0, <2>1, OutqShrinks
    <2>3. Head(outq[sback]) = n => n \in swallow
      BY <1>0, <2>1, <2>2 DEF AnsweredOK, Seen
    <2>4. \/ log' = log
          \/ Head(outq[sback]) \notin swallow
             /\ log' = [log EXCEPT ![Head(outq[sback])] = Append(@, "answer")]
      BY <1>1 DEF R!CopyAnswer
    <2> QED
      BY <1>0, <2>3, <2>4 DEF RelayTypes
  <1>2. CASE R!WriteError
    BY <1>0, <1>2 DEF R!WriteError, RelayTypes, R!Ids
  <1>3. CASE R!ClientSpeaks
    BY <1>0, <1>3 DEF R!ClientSpeaks, R!Says
  <1>4. CASE \/ R!ClientLeaves \/ R!NoteLine \/ R!NoteId \/ R!PickBackend \/ R!SendLine
             \/ R!SendBreaks \/ R!ClientEnds
    BY <1>0, <1>4 DEF R!ClientLeaves, R!NoteLine, R!NoteId, R!PickBackend, R!SendLine, R!SendBreaks,
       R!ClientEnds
  <1>5. CASE R!ServerLoop \/ R!ReadEOF \/ R!FailInFlight \/ R!Reconnect
    BY <1>0, <1>5 DEF R!ServerLoop, R!ReadEOF, R!FailInFlight, R!Reconnect
  <1>6. CASE R!Replay \/ R!ReplayInitialized \/ R!ReplayBreaks \/ R!Install
    BY <1>0, <1>6 DEF R!Replay, R!ReplayInitialized, R!ReplayBreaks, R!Install
  <1>7. ASSUME NEW b \in R!Backends, R!ServerReads(b) \/ R!ServerAnswers(b) \/ R!ServerDies(b)
        PROVE  log' = log
    BY <1>7 DEF R!ServerReads, R!ServerAnswers, R!ServerDies
  <1>8. CASE UNCHANGED R!vars
    BY <1>0, <1>8 DEF R!vars
  <1> QED
    BY <1>0, <1>1, <1>2, <1>3, <1>4, <1>5, <1>6, <1>7, <1>8 DEF R!Next, R!ClientThread, R!ServerThread

(* Every step keeps the property itself.                                   *)
LEMMA AccountsStay ==
  ASSUME RelayInv, [R!Next]_R!vars
  PROVE  R!RelayAccounted'
  <1>0. /\ R!RelayAssumption /\ AnsweredOK /\ Unanswered /\ R!RunsAtMostOnce /\ R!AnswerHistory
        /\ ServerTypes
    BY DEF RelayInv, Types, R!RelayAccounted, R!SessionLooksWhole
  <1>1. \A r \in Reqs : r \in R!Ids
    BY DEF R!Ids
  <1>2. R!RunsAtMostOnce'
    <2> SUFFICES ASSUME NEW r \in Reqs PROVE runs'[r] <= 1
      BY DEF R!RunsAtMostOnce
    <2>1. runs'[r] = runs[r] \/ (runs'[r] = runs[r] + 1 /\ runs[r] = 0)
      BY <1>0, <1>1, BooksMove DEF AnsweredOK
    <2> QED
      BY <1>0, <2>1 DEF R!RunsAtMostOnce
  <1>3. ASSUME NEW r \in Reqs
        PROVE  log'[r] \in {<<>>, <<"answer">>, <<"error">>, <<"error", "answer">>}
    <2>1. log[r] \in {<<>>, <<"answer">>, <<"error">>, <<"error", "answer">>}
      BY <1>0 DEF R!AnswerHistory
    <2>2. /\ (\E b \in R!Backends : Seen(r, b)) => log[r] \in {<<>>, <<"error">>}
          /\ r \in todo => log[r] = <<>>
      BY <1>0, <1>1 DEF AnsweredOK, Unanswered
    <2>3. \/ log'[r] = log[r]
          \/ log[r] \in {<<>>, <<"error">>} /\ log'[r] = Append(log[r], "answer")
          \/ log[r] = <<>> /\ log'[r] = Append(log[r], "error")
      BY <1>1, <2>2, BooksMove DEF Seen
    <2>4. Append(<<>>, "answer") = <<"answer">> /\ Append(<<>>, "error") = <<"error">>
      OBVIOUS
    <2>5. Append(<<"error">>, "answer") = <<"error", "answer">>
      <3> DEFINE S == {"error", "answer"}
                 s == Append(<<"error">>, "answer")
                 t == <<"error", "answer">>
      <3>1. <<"error">> \in Seq(S) /\ Len(<<"error">>) = 1 /\ <<"error">>[1] = "error"
        OBVIOUS
      <3>2. s \in Seq(S) /\ Len(s) = 2 /\ s[1] = "error" /\ s[2] = "answer"
        BY <3>1, AppendProperties
      <3>3. t \in Seq(S) /\ Len(t) = 2 /\ t[1] = "error" /\ t[2] = "answer"
        OBVIOUS
      <3>4. \A k \in 1..2 : s[k] = t[k]
        BY <3>2, <3>3
      <3> HIDE DEF s, t, S
      <3>5. s = t
        BY <3>2, <3>3, <3>4, SeqEqual
      <3> QED
        BY <3>5 DEF s, t
    <2> QED
      BY <2>1, <2>3, <2>4, <2>5
  <1>4. R!AnswerHistory'
    BY <1>3, LinesStay, RelayIdsStaySilent DEF R!AnswerHistory, LinesOK
  <1>5. ClientLines \subseteq R!Lines
    BY <1>0, LineTypes
  <1>6. R!TypeOK'
    <2>1. stdin' \in Seq(R!Lines) /\ cline' \in R!Lines /\ said' \subseteq R!Lines
      <3>1. ClientTypes'
        BY ClientTypesStay
      <3>2. Seq(ClientLines) \subseteq Seq(R!Lines)
        BY <1>5, LenProperties, ElementOfSeq, SeqDef
      <3> QED
        BY <1>5, <3>1, <3>2 DEF ClientTypes
    <2> QED
      BY <2>1, ClientTypesStay, RelayTypesStay, ServerTypesStay
         DEF R!TypeOK, ClientTypes, RelayTypes, ServerTypes
  <1> QED
    BY <1>2, <1>4, <1>6, EarlyStays DEF R!RelayAccounted, R!SessionLooksWhole

LEMMA RelayBegins == R!RelayAssumption /\ R!Init => RelayInv
  <1> SUFFICES ASSUME R!RelayAssumption, R!Init PROVE RelayInv
    OBVIOUS
  <1>1. /\ Len(<<>>) = 0 /\ \A S : <<>> \in Seq(S)
    BY EmptySeq
  <1>2. 1 \in R!Backends /\ R!Initialized \in ClientLines /\ R!Initialized \in R!Lines
    BY DEF R!Init, ClientLines, R!Lines, R!RelayAssumption, R!Backends
  <1>3. Types
    <2>1. ClientTypes
      <3>1. stdin \in Seq(ClientLines)
        BY <1>1 DEF R!Init
      <3>2. cback \in 0..started /\ cpc = "read" /\ said = {} /\ cline = R!Initialized
        BY DEF R!Init, R!NoBackend
      <3>3. gone \in BOOLEAN /\ initLine \in BOOLEAN /\ initializedLine \in BOOLEAN /\ closing \in BOOLEAN
        BY DEF R!Init
      <3> QED
        BY <1>2, <3>1, <3>2, <3>3 DEF ClientTypes
    <2>2. RelayTypes
      <3>1. log \in [R!Ids \cup R!ReplayIds -> Seq({"answer", "error"})]
        BY <1>1 DEF R!Init
      <3> QED
        BY <1>2, <3>1 DEF R!Init, RelayTypes, R!NoBackend
    <2>3. ServerTypes
      <3>1. inq \in [R!Backends -> Seq(R!Lines)] /\ outq \in [R!Backends -> Seq(R!Ids \cup R!ReplayIds)]
        BY <1>1 DEF R!Init
      <3> QED
        BY <3>1 DEF R!Init, ServerTypes
    <2> QED
      BY <2>1, <2>2, <2>3 DEF Types
  <1>4. Latest
    BY DEF R!Init, Latest, R!Open, R!NoBackend
  <1>5. \A x : ~In(stdin, x) /\ ~Carries(x) /\ Once(stdin, x)
    BY EmptyHas DEF R!Init, Carries
  <1>6. \A i \in R!Ids \cup R!ReplayIds : \A b \in R!Backends :
           ~In(inq[b], R!Request(i)) /\ ~Seen(i, b) /\ OneStage(i, b) /\ log[i] = <<>>
    BY EmptyHas DEF R!Init, Seen, OneStage
  <1>7. LinesOK
    BY <1>5, <1>6 DEF R!Init, LinesOK
  <1>8. OrderOK
    <2>1. Behind(stdin)
      BY <1>1 DEF R!Init, Behind
    <2>2. InitId \in R!Ids
      BY DEF R!Ids
    <2> QED
      BY <1>5, <1>6, <2>1, <2>2 DEF R!Init, OrderOK
  <1>9. Unanswered
    BY <1>5, <1>6 DEF R!Init, Unanswered, Unnoted, Takes, Carries
  <1>10. TokenOK
    BY <1>5, <1>6 DEF TokenOK, Tracked, R!Ids, Fresh
  <1>11. AnsweredOK
    BY <1>6 DEF R!Init, AnsweredOK, R!Ids
  <1>12. SessionOK
    <2>1. \A b \in R!Backends : Ordered(session[b], inq[b])
      BY <1>1 DEF R!Init, Ordered
    <2> QED
      BY <1>5, <2>1 DEF R!Init, SessionOK
  <1>13. R!RelayAccounted
    <2>1. R!TypeOK
      BY <1>1, <1>2, <1>3 DEF R!Init, R!TypeOK, Types, ClientTypes, RelayTypes, ServerTypes
    <2>2. R!AnswerHistory
      BY <1>6 DEF R!AnswerHistory, R!Init, R!Ids
    <2> QED
      BY <2>1, <2>2 DEF R!Init, R!RelayAccounted, R!SessionLooksWhole, R!InitializedFirst,
         R!RunsAtMostOnce, R!Ids
  <1> QED
    BY <1>3, <1>4, <1>7, <1>8, <1>9, <1>10, <1>11, <1>12, <1>13 DEF RelayInv

(* For any number of requests and servers: no server begins a request      *)
(* after initialize twice and none begins it before its session is         *)
(* initialized; the client is answered to it at most once by a server and  *)
(* at most once by the relay, never after an answer, and never for a       *)
(* handshake that the relay replayed under an id of its own.               *)
THEOREM AnswersOnce == RelaySpec => []RelayAccounted
  <1>1. R!Init => RelayInv
    BY RelayBegins, InstanceAssumption
  <1>2. RelayInv /\ [R!Next]_R!vars => RelayInv'
    <2> SUFFICES ASSUME RelayInv, [R!Next]_R!vars PROVE RelayInv'
      OBVIOUS
    <2>1. R!RelayAssumption'
      BY DEF RelayInv, R!RelayAssumption, R!Ids, R!ReplayIds, R!Backends
    <2> QED
      BY <2>1, ClientTypesStay, RelayTypesStay, ServerTypesStay, LatestStays, LinesStay, OrderStays,
         UnansweredStays, TokenStays, AnsweredStays, SessionStays, AccountsStay DEF RelayInv, Types
  <1>3. RelayInv => RelayAccounted
    BY DEF RelayInv, RelayAccounted
  <1> QED
    BY <1>1, <1>2, <1>3, PTL DEF RelaySpec, R!Spec
=============================================================================
