----------------------------- MODULE AuthProofs -----------------------------
(***************************************************************************)
(* Proofs about the OAuth server (Auth), for any clients, approvals,       *)
(* tokens and limits: what the login page lets through is let through      *)
(* once, and what a client holds when it is revoked or refreshes.  Then    *)
(* about the pcbridge browser that agents share (Browser) and hand to the  *)
(* user (Handoff), for any calls, launches, pages and hand-overs.          *)
(***************************************************************************)
EXTENDS MCAuth, FiniteSetTheorems, FunctionTheorems, SequenceTheorems, TLAPS

authvars == <<part, vars, bvars, hvars>>

AccessRows(n, approved) == [id : 1..n, appr : approved]
RefreshRows(n, approved) == [id : 1..n, appr : approved, bound : 1..n]

Ats == {"idle", "authorize", "approved", "issue", "code", "taken", "refresh", "dropped", "bind"}
WithApproval == {"approved", "issue", "code", "taken"}
WithRefresh == {"refresh", "dropped", "bind"}
-----------------------------------------------------------------------------
(* What every table holds and what a handler is about.                     *)
AuthTypes ==
    /\ registered \in [Clients -> {"no", "yes", "revoked"}] /\ owner \in Seq(Clients)
    /\ Len(owner) <= MaxApprovals /\ minted \in 0..MaxTokens
    /\ pending \subseteq 1..Len(owner) /\ codes \subseteq 1..Len(owner) /\ stale \subseteq 1..Len(owner)
    /\ access \subseteq AccessRows(minted, 1..Len(owner))
    /\ refresh \subseteq RefreshRows(minted, 1..Len(owner))
    /\ count \in 0..MaxGuesses /\ locked \in BOOLEAN
    /\ cli \subseteq Clients /\ late \subseteq Clients /\ lapsed \subseteq 1..MaxTokens
    /\ at \in Ats
    /\ at = "authorize" => what \in Clients /\ Len(owner) < MaxApprovals
    /\ at \in WithApproval => what \in 1..Len(owner)
    /\ at \in WithRefresh => what \in RefreshRows(minted, 1..Len(owner))

(* An approval waits for the password, or for its code, or gave its pair.  *)
CodesOK ==
    /\ pending \cap codes = {}
    /\ exchanged \in [1..MaxApprovals -> {0, 1}]
    /\ \A a \in 1..MaxApprovals : exchanged[a] = 1 => a \notin codes /\ a \notin pending
    /\ \A a \in 1..MaxApprovals : a > Len(owner) => exchanged[a] = 0
    /\ at \in WithApproval => exchanged[what] = 0
    /\ at = "taken" => what \notin codes /\ what \notin pending

GuessesOK ==
    /\ count = guesses /\ unlocks \in Nat
    /\ guesses <= MaxFailed + unlocks
    /\ ~locked => guesses < MaxFailed + unlocks

LEMMA AuthConstants ==
    /\ MaxFailed \in Nat \ {0} /\ MaxApprovals \in Nat /\ MaxTokens \in Nat
    /\ MaxGuesses \in Nat /\ MaxCrashes \in Nat
  BY AuthAssumption

LEMMA NextGuesses ==
  ASSUME AuthTypes, GuessesOK, [Next]_vars
  PROVE  GuessesOK'
  <1> USE AuthConstants DEF GuessesOK
  <1>1. ASSUME NEW a \in Approvals, WrongPassword(a)
        PROVE  GuessesOK'
    <2>1. /\ count' = count + 1 /\ guesses' = guesses + 1 /\ unlocks' = unlocks /\ ~locked
          /\ locked' <=> count + 1 >= MaxFailed
      BY <1>1 DEF WrongPassword
    <2>2. count \in Nat
      BY DEF AuthTypes
    <2>3. guesses' <= MaxFailed + unlocks'
      BY <2>1, <2>2
    <2>4. ~locked' => guesses' < MaxFailed + unlocks'
      BY <2>1, <2>2
    <2> QED
      BY <2>1, <2>3, <2>4
  <1>2. ASSUME NEW a \in Approvals, RightPassword(a)
        PROVE  GuessesOK'
    BY <1>2 DEF RightPassword, AuthTypes
  <1>3. CASE LockoutEnds
    BY <1>3 DEF LockoutEnds, AuthTypes
  <1>4. CASE UNCHANGED attemptvars
    BY <1>4 DEF attemptvars
  <1> QED
    BY <1>1, <1>2, <1>3, <1>4, Zenon
       DEF Next, Handlers, vars, Register, Authorize, UseCode, UseRefresh, RevokeToken, PutPending, ReadPending, IssueCode,
           TakeCode, MintForCode, DropOld, MintForRefresh, Bind, NewTokens, SelectClients, Revoke, Expire, Crash

(* A new row of the table of approvals.                                    *)
LEMMA OneMoreApproval ==
  ASSUME NEW c \in Clients, NEW o \in Seq(Clients)
  PROVE  /\ Append(o, c) \in Seq(Clients) /\ Len(Append(o, c)) = Len(o) + 1 /\ Len(o) \in Nat
         /\ 1..Len(o) \subseteq 1..(Len(o) + 1) /\ Len(o) + 1 \in 1..(Len(o) + 1)
         /\ \A a \in 1..Len(o) : Append(o, c)[a] = o[a]
  OBVIOUS

LEMMA RowsGrow ==
  ASSUME NEW n \in Nat, NEW m \in Nat, n <= m, NEW S, NEW T, S \subseteq T
  PROVE  /\ AccessRows(n, S) \subseteq AccessRows(m, T)
         /\ RefreshRows(n, S) \subseteq RefreshRows(m, T)
  BY DEF AccessRows, RefreshRows

LEMMA MintTypes ==
  ASSUME AuthTypes, NEW a \in 1..Len(owner), NewTokens(a), at' \in {"idle", "bind"},
         at' = "bind" => what' \in RefreshRows(minted', 1..Len(owner'))
  PROVE  AuthTypes'
  <1> USE AuthConstants
  <1> DEFINE n == minted + 1
  <1>1. /\ minted < MaxTokens /\ minted' = n /\ minted \in Nat /\ n \in 1..n /\ minted <= n /\ n \in 0..MaxTokens
        /\ pending' \subseteq pending /\ codes' \subseteq codes
        /\ UNCHANGED <<registered, owner, stale, lapsed, count, locked, cli, late>>
    BY DEF NewTokens, attemptvars, AuthTypes
  <1>2. /\ access' = access \cup {[id |-> n, appr |-> a]}
        /\ refresh' = refresh \cup {[id |-> n, appr |-> a, bound |-> n]}
    BY Zenon DEF NewTokens
  <1> HIDE DEF n
  <1>3. /\ [id |-> n, appr |-> a] \in AccessRows(n, 1..Len(owner))
        /\ [id |-> n, appr |-> a, bound |-> n] \in RefreshRows(n, 1..Len(owner))
    BY <1>1 DEF AccessRows, RefreshRows
  <1>4. n \in Nat
    BY <1>1 DEF n
  <1>5. access' \subseteq AccessRows(n, 1..Len(owner)) /\ refresh' \subseteq RefreshRows(n, 1..Len(owner))
    BY <1>1, <1>2, <1>3, <1>4, RowsGrow DEF AuthTypes
  <1> QED
    BY <1>1, <1>5 DEF AuthTypes, Ats, WithApproval, WithRefresh

(* No handler step forgets what a row is: what the tables hold only gets   *)
(* less, or one row more.                                                  *)
LEMMA NextTypes ==
  ASSUME AuthTypes, CodesOK, GuessesOK, [Next]_vars
  PROVE  AuthTypes'
  <1> USE AuthConstants
  <1>0. Len(owner) \in Nat /\ minted \in Nat
    BY DEF AuthTypes
  <1>1. ASSUME NEW c \in Clients, Register(c)
        PROVE  AuthTypes'
    BY <1>1 DEF Register, rows, attemptvars, handler, history, AuthTypes
  <1>2. ASSUME NEW c \in Clients, Authorize(c)
        PROVE  AuthTypes'
    BY <1>2 DEF Authorize, Goes, rows, attemptvars, history, AuthTypes, Ats, WithApproval, WithRefresh
  <1>3. CASE PutPending
    <2>1. /\ owner' = Append(owner, what) /\ what \in Clients
          /\ pending' = pending \cup {Len(owner) + 1} /\ at' = "idle"
          /\ UNCHANGED <<registered, codes, stale, lapsed, access, refresh, minted, count, locked, cli, late>>
      BY <1>3 DEF PutPending, Done, Goes, attemptvars, history, AuthTypes
    <2>2. Len(owner) < MaxApprovals
      BY <1>3 DEF AuthTypes, PutPending
    <2>3. /\ owner' \in Seq(Clients) /\ Len(owner') = Len(owner) + 1
          /\ 1..Len(owner) \subseteq 1..Len(owner') /\ Len(owner) + 1 \in 1..Len(owner')
      BY <2>1, OneMoreApproval DEF AuthTypes
    <2>4. access \subseteq AccessRows(minted, 1..Len(owner')) /\ refresh \subseteq RefreshRows(minted, 1..Len(owner'))
      <3>1. /\ AccessRows(minted, 1..Len(owner)) \subseteq AccessRows(minted, 1..Len(owner'))
            /\ RefreshRows(minted, 1..Len(owner)) \subseteq RefreshRows(minted, 1..Len(owner'))
        BY <2>3 DEF AccessRows, RefreshRows
      <3> QED
        BY <3>1 DEF AuthTypes
    <2>5. /\ pending' \subseteq 1..Len(owner') /\ codes' \subseteq 1..Len(owner') /\ stale' \subseteq 1..Len(owner')
      BY <2>1, <2>3 DEF AuthTypes
    <2>6. Len(owner') <= MaxApprovals
      BY <1>0, <2>2, <2>3
    <2> QED
      BY <2>1, <2>3, <2>4, <2>5, <2>6 DEF AuthTypes, Ats, WithApproval, WithRefresh
  <1>4. ASSUME NEW a \in Approvals, WrongPassword(a)
        PROVE  AuthTypes'
    <2>1. /\ count' \in 0..MaxGuesses /\ locked' \in BOOLEAN
      BY <1>4 DEF WrongPassword, AuthTypes, GuessesOK
    <2> QED
      BY <1>4, <2>1 DEF WrongPassword, rows, handler, history, AuthTypes
  <1>5. ASSUME NEW a \in Approvals, RightPassword(a)
        PROVE  AuthTypes'
    BY <1>5 DEF RightPassword, Goes, rows, history, AuthTypes, Ats, WithApproval, WithRefresh
  <1>6. CASE LockoutEnds
    BY <1>6 DEF LockoutEnds, rows, handler, history, AuthTypes
  <1>7. CASE ReadPending
    BY <1>7 DEF ReadPending, Done, Goes, rows, attemptvars, history, AuthTypes, Ats, WithApproval, WithRefresh
  <1>8. CASE IssueCode
    BY <1>8 DEF IssueCode, Done, Goes, attemptvars, history, AuthTypes, Ats, WithApproval, WithRefresh
  <1>9. ASSUME NEW c \in Clients, NEW a \in Approvals, UseCode(c, a)
        PROVE  AuthTypes'
    BY <1>9 DEF UseCode, Goes, handler, attemptvars, history, AuthTypes, Ats, WithApproval, WithRefresh
  <1>10. CASE TakeCode
    BY <1>10 DEF TakeCode, Done, Goes, attemptvars, history, AuthTypes, Ats, WithApproval, WithRefresh
  <1>11. CASE MintForCode
    <2>1. what \in 1..Len(owner) /\ at' = "idle"
      BY <1>11 DEF MintForCode, Done, Goes, AuthTypes, WithApproval
    <2> QED
      BY <1>11, <2>1, MintTypes DEF MintForCode
  <1>12. ASSUME NEW c \in Clients, NEW r \in refresh, UseRefresh(c, r)
         PROVE  AuthTypes'
    BY <1>12 DEF UseRefresh, Goes, rows, attemptvars, history, AuthTypes, Ats, WithApproval, WithRefresh
  <1>13. CASE DropOld
    BY <1>13 DEF DropOld, Goes, attemptvars, history, AuthTypes, Ats, WithApproval, WithRefresh
  <1>14. CASE MintForRefresh
    <2>1. /\ what \in RefreshRows(minted, 1..Len(owner)) /\ at' = "bind" /\ minted' = minted + 1
          /\ what' = [what EXCEPT !.bound = minted + 1] /\ owner' = owner
      BY <1>14 DEF MintForRefresh, NewTokens, Goes, AuthTypes, WithRefresh
    <2>2. what' \in RefreshRows(minted', 1..Len(owner')) /\ what.appr \in 1..Len(owner)
      BY <1>0, <2>1 DEF RefreshRows
    <2>3. NewTokens(what.appr)
      BY <1>14 DEF MintForRefresh
    <2> QED
      BY <2>1, <2>2, <2>3, MintTypes
  <1>15. CASE Bind
    <2>1. \A r \in refresh' : r = what \/ r \in refresh
      BY <1>15 DEF Bind
    <2>2. /\ at' = "idle" /\ what \in RefreshRows(minted, 1..Len(owner))
          /\ UNCHANGED <<registered, owner, pending, codes, stale, lapsed, access, minted, count, locked, cli, late>>
      BY <1>15 DEF Bind, Done, Goes, attemptvars, history, AuthTypes, WithRefresh
    <2> QED
      BY <2>1, <2>2 DEF AuthTypes, Ats, WithApproval, WithRefresh
  <1>16. ASSUME NEW id \in Tokens, RevokeToken(id)
         PROVE  AuthTypes'
    BY <1>16 DEF RevokeToken, attemptvars, handler, history, AuthTypes
  <1>17. CASE SelectClients
    BY <1>17 DEF SelectClients, rows, attemptvars, handler, history, AuthTypes
  <1>18. CASE Revoke
    <2>1. /\ registered' \in [Clients -> {"no", "yes", "revoked"}] /\ cli' \subseteq Clients /\ late' \subseteq Clients
          /\ pending' \subseteq pending /\ codes' \subseteq codes /\ access' \subseteq access /\ refresh' \subseteq refresh
      BY <1>18 DEF Revoke, AuthTypes
    <2>2. UNCHANGED <<owner, stale, lapsed, minted, count, locked, at, what>>
      BY <1>18 DEF Revoke, attemptvars, handler
    <2> QED
      BY <2>1, <2>2 DEF AuthTypes
  <1>19. CASE Expire
    <2>1. \A t \in refresh : t.id \in 1..MaxTokens
      BY DEF AuthTypes, RefreshRows
    <2>2. /\ stale' \subseteq 1..Len(owner) /\ access' \subseteq access /\ lapsed' \subseteq 1..MaxTokens
      BY <1>19, <2>1 DEF Expire, AuthTypes
    <2>3. UNCHANGED <<registered, owner, pending, codes, refresh, minted, count, locked, at, what, cli, late>>
      BY <1>19 DEF Expire, attemptvars, handler, history
    <2> QED
      BY <2>2, <2>3 DEF AuthTypes
  <1>20. CASE Crash
    BY <1>20 DEF Crash, Done, Goes, rows, attemptvars, AuthTypes, Ats, WithApproval, WithRefresh
  <1>21. CASE UNCHANGED vars
    BY <1>21 DEF vars, rows, attemptvars, handler, history, AuthTypes
  <1> QED
    BY <1>1, <1>2, <1>3, <1>4, <1>5, <1>6, <1>7, <1>8, <1>9, <1>10, <1>11, <1>12, <1>13, <1>14, <1>15, <1>16,
       <1>17,
       <1>18, <1>19, <1>20, <1>21, Zenon DEF Next, Handlers

(* An approval moves from pending to codes to its pair, and never back.    *)
LEMMA NextCodes ==
  ASSUME AuthTypes, CodesOK, GuessesOK, [Next]_vars
  PROVE  CodesOK'
  <1> USE AuthConstants
  <1>0. Len(owner) \in Nat /\ Len(owner) <= MaxApprovals /\ 1..Len(owner) \subseteq 1..MaxApprovals
    BY DEF AuthTypes
  <1>1. ASSUME pending' \subseteq pending, codes' \subseteq codes, owner' = owner, exchanged' = exchanged,
               at' = "idle" \/ at' = "authorize" \/ at' \in WithRefresh \/ (at' = at /\ what' = what)
        PROVE  CodesOK'
    BY <1>1 DEF CodesOK, WithApproval, WithRefresh
  <1>2. CASE \/ \E c \in Clients : Register(c) \/ Authorize(c)
             \/ \E a \in Approvals : WrongPassword(a)
             \/ \E c \in Clients : \E r \in refresh : UseRefresh(c, r)
             \/ \E id \in Tokens : RevokeToken(id)
             \/ DropOld \/ Bind \/ LockoutEnds \/ SelectClients \/ Revoke \/ Expire \/ Crash \/ UNCHANGED vars
    <2>1. /\ pending' \subseteq pending /\ codes' \subseteq codes /\ owner' = owner /\ exchanged' = exchanged
          /\ at' = "idle" \/ at' = "authorize" \/ at' \in WithRefresh \/ (at' = at /\ what' = what)
      <3>1. (\E c \in Clients : Register(c) \/ Authorize(c)) => UNCHANGED <<pending, codes, owner, exchanged>>
              /\ (at' = "authorize" \/ (at' = at /\ what' = what))
        BY DEF Register, Authorize, Goes, rows, handler, history
      <3>2. (\E a \in Approvals : WrongPassword(a)) \/ LockoutEnds \/ SelectClients \/ UNCHANGED vars
              => UNCHANGED <<pending, codes, owner, exchanged, at, what>>
        BY DEF WrongPassword, LockoutEnds, SelectClients, vars, rows, handler, history
      <3>3. (\E c \in Clients : \E r \in refresh : UseRefresh(c, r)) \/ DropOld \/ Bind \/ Crash
              => UNCHANGED <<pending, codes, owner, exchanged>> /\ at' \in WithRefresh \cup {"idle"}
        BY DEF UseRefresh, DropOld, Bind, Crash, Goes, Done, rows, history, WithRefresh
      <3>4. (\E id \in Tokens : RevokeToken(id)) \/ Expire => UNCHANGED <<pending, codes, owner, exchanged, at, what>>
        BY DEF RevokeToken, Expire, handler, history
      <3>5. Revoke => /\ pending' \subseteq pending /\ codes' \subseteq codes
                      /\ UNCHANGED <<owner, exchanged, at, what>>
        BY DEF Revoke, handler
      <3> QED
        BY <1>2, <3>1, <3>2, <3>3, <3>4, <3>5
    <2> QED
      BY <1>1, <2>1
  <1>3. CASE PutPending
    <2>1. /\ owner' = Append(owner, what) /\ what \in Clients /\ at' = "idle"
          /\ pending' = pending \cup {Len(owner) + 1} /\ UNCHANGED <<codes, exchanged>>
      BY <1>3 DEF PutPending, Done, Goes, history, AuthTypes
    <2>2. Len(owner') = Len(owner) + 1
      BY <2>1, OneMoreApproval DEF AuthTypes
    <2>3. Len(owner) + 1 \in 1..MaxApprovals
      BY <1>0, <1>3 DEF PutPending, AuthTypes
    <2>4. Len(owner) + 1 \notin codes /\ Len(owner) + 1 \notin pending /\ exchanged[Len(owner) + 1] = 0
      BY <1>0, <2>3 DEF AuthTypes, CodesOK
    <2> QED
      BY <1>0, <2>1, <2>2, <2>4 DEF CodesOK, WithApproval
  <1>4. ASSUME NEW a \in Approvals, RightPassword(a)
        PROVE  CodesOK'
    <2>1. a \in pending /\ at' = "approved" /\ what' = a /\ UNCHANGED <<pending, codes, owner, exchanged>>
      BY <1>4 DEF RightPassword, Goes, rows, history
    <2>2. exchanged[a] = 0
      BY <2>1 DEF CodesOK, Approvals
    <2> QED
      BY <2>1, <2>2 DEF CodesOK, WithApproval
  <1>5. CASE ReadPending
    BY <1>5 DEF ReadPending, Done, Goes, rows, history, CodesOK, WithApproval
  <1>6. CASE IssueCode
    <2>1. /\ pending' = pending \ {what} /\ codes' = codes \cup {what} /\ at' = "idle" /\ exchanged[what] = 0
          /\ UNCHANGED <<owner, exchanged>>
      BY <1>6 DEF IssueCode, Done, Goes, history, CodesOK, WithApproval
    <2> QED
      BY <2>1 DEF CodesOK, WithApproval
  <1>7. ASSUME NEW c \in Clients, NEW a \in Approvals, UseCode(c, a)
        PROVE  CodesOK'
    <2>1. /\ a \in codes /\ codes' \subseteq codes /\ UNCHANGED <<pending, owner, exchanged>>
          /\ (at' = at /\ what' = what) \/ (at' = "code" /\ what' = a)
      BY <1>7 DEF UseCode, Goes, handler, history
    <2>2. exchanged[a] = 0
      BY <2>1 DEF CodesOK, Approvals
    <2> QED
      BY <2>1, <2>2 DEF CodesOK, WithApproval
  <1>8. CASE TakeCode
    <2>1. /\ UNCHANGED <<pending, owner, exchanged>> /\ at = "code" /\ exchanged[what] = 0
          /\ \/ at' = "idle" /\ codes' = codes
             \/ what \in codes /\ codes' = codes \ {what} /\ at' = "taken" /\ what' = what
      BY <1>8 DEF TakeCode, Done, Goes, history, CodesOK, WithApproval
    <2> QED
      BY <2>1 DEF CodesOK, WithApproval
  <1>9. CASE MintForCode
    <2>1. /\ what \in 1..Len(owner) /\ exchanged[what] = 0 /\ what \notin codes /\ what \notin pending
          /\ exchanged' = [exchanged EXCEPT ![what] = @ + 1] /\ at' = "idle"
          /\ pending' \subseteq pending /\ codes' \subseteq codes /\ owner' = owner
      BY <1>9 DEF MintForCode, NewTokens, Done, Goes, AuthTypes, CodesOK, WithApproval
    <2>2. \A a \in 1..MaxApprovals : exchanged'[a] = IF a = what THEN 1 ELSE exchanged[a]
      BY <2>1 DEF CodesOK
    <2>3. exchanged' \in [1..MaxApprovals -> {0, 1}]
      BY <1>0, <2>1, <2>2 DEF CodesOK
    <2> QED
      BY <1>0, <2>1, <2>2, <2>3 DEF CodesOK, WithApproval
  <1>10. CASE MintForRefresh
    <2>1. /\ pending' \subseteq pending /\ codes' \subseteq codes /\ owner' = owner /\ exchanged' = exchanged
          /\ at' = "bind"
      BY <1>10 DEF MintForRefresh, NewTokens, Goes
    <2> QED
      BY <1>1, <2>1 DEF WithRefresh
  <1> QED
    BY <1>2, <1>3, <1>4, <1>5, <1>6, <1>7, <1>8, <1>9, <1>10, Zenon DEF Next, Handlers

LEMMA AuthStarts == Init => AuthTypes /\ CodesOK /\ GuessesOK
  <1> SUFFICES ASSUME Init
               PROVE  AuthTypes /\ CodesOK /\ GuessesOK
    OBVIOUS
  <1> USE AuthConstants
  <1>1. owner = <<>> /\ owner \in Seq(Clients) /\ Len(owner) = 0
    BY DEF Init
  <1>2. AuthTypes
    <2>1. registered \in [Clients -> {"no", "yes", "revoked"}]
      BY DEF Init
    <2>2. 0 <= MaxApprovals /\ 0 \in 0..MaxTokens /\ 0 \in 0..MaxGuesses
      OBVIOUS
    <2>4. minted = 0 /\ count = 0 /\ locked = FALSE
      BY DEF Init
    <2>5. /\ Len(owner) <= MaxApprovals /\ minted \in 0..MaxTokens /\ count \in 0..MaxGuesses /\ locked \in BOOLEAN
      BY <1>1, <2>2, <2>4
    <2>3. at = "idle" /\ \A S \in {pending, codes, stale, lapsed, access, refresh, cli, late} : S = {}
      BY DEF Init
    <2> QED
      BY <1>1, <2>1, <2>3, <2>5 DEF AuthTypes, Ats, WithApproval, WithRefresh
  <1>3. CodesOK
    BY <1>1 DEF Init, CodesOK, Approvals, WithApproval
  <1>4. GuessesOK
    BY DEF Init, GuessesOK
  <1> QED
    BY <1>2, <1>3, <1>4
-----------------------------------------------------------------------------
(* The rows of the tokens.  A refresh is about a row that is still as it   *)
(* was read, or the client was revoked and everything of its approval is   *)
(* gone.                                                                   *)
RowsOK ==
    /\ \A s, t \in refresh : s.id = t.id => s = t
    /\ \A s, t \in refresh : s.bound = t.bound => s = t
    /\ \A s, t \in access : s.id = t.id => s = t
    /\ \A t \in access \cup refresh : exchanged[t.appr] = 1
    /\ at \in WithRefresh => exchanged[what.appr] = 1 /\ \A r \in refresh : r.id = what.id => r.appr = what.appr
    /\ at \in {"refresh", "dropped"} => what \in refresh \/ \A t \in access \cup refresh : t.appr # what.appr
    /\ at = "dropped" => \A r \in refresh, t \in access : r.id = what.id => r.bound # t.id
    /\ at = "bind" => what.id # what.bound /\ \A r \in refresh : r.bound = what.bound <=> r.id = what.bound

(* What a step of the other process, a death or the end of a row does.     *)
LEMMA RowsShrink ==
  ASSUME AuthTypes, RowsOK, refresh' \subseteq refresh, access' \subseteq access, exchanged' = exchanged,
         \/ at' \notin WithRefresh
         \/ /\ at' = at /\ what' = what
            /\ refresh' = refresh \/ at = "bind" \/ what \in refresh'
                 \/ \A t \in access' \cup refresh' : t.appr # what.appr
  PROVE  RowsOK'
  <1>1. /\ \A s, t \in refresh' : s.id = t.id => s = t
        /\ \A s, t \in refresh' : s.bound = t.bound => s = t
        /\ \A s, t \in access' : s.id = t.id => s = t
        /\ \A t \in access' \cup refresh' : exchanged'[t.appr] = 1
    BY DEF RowsOK
  <1>2. CASE at' \notin WithRefresh
    BY <1>1, <1>2 DEF RowsOK, WithRefresh
  <1>3. CASE at' = at /\ what' = what /\ (refresh' = refresh \/ at = "bind" \/ what \in refresh'
                                            \/ \A t \in access' \cup refresh' : t.appr # what.appr)
    BY <1>1, <1>3 DEF RowsOK
  <1> QED
    BY <1>2, <1>3

LEMMA NewRows ==
  ASSUME AuthTypes, CodesOK, RowsOK, NEW a \in 1..Len(owner), NewTokens(a), exchanged'[a] = 1,
         \A b \in 1..Len(owner) : exchanged[b] = 1 => exchanged'[b] = 1
  PROVE  /\ \A s, t \in refresh' : s.id = t.id => s = t
         /\ \A s, t \in refresh' : s.bound = t.bound => s = t
         /\ \A s, t \in access' : s.id = t.id => s = t
         /\ \A t \in access' \cup refresh' : exchanged'[t.appr] = 1
  <1> DEFINE n == minted + 1
             row == [id |-> n, appr |-> a, bound |-> n]
             key == [id |-> n, appr |-> a]
  <1>1. access' = access \cup {key} /\ refresh' = refresh \cup {row}
    BY Zenon DEF NewTokens
  <1>2. /\ \A t \in access : t.id # n /\ t.appr \in 1..Len(owner)
        /\ \A r \in refresh : r.id # n /\ r.bound # n /\ r.appr \in 1..Len(owner)
    <2>1. \A m \in 1..minted : m # n
      BY DEF AuthTypes
    <2> HIDE DEF n
    <2> QED
      BY <2>1 DEF AuthTypes, AccessRows, RefreshRows
  <1>3. row.id = n /\ row.bound = n /\ row.appr = a /\ key.id = n /\ key.appr = a
    OBVIOUS
  <1> HIDE DEF n, row, key
  <1> QED
    BY <1>1, <1>2, <1>3 DEF RowsOK

LEMMA NextRows ==
  ASSUME AuthTypes, CodesOK, GuessesOK, RowsOK, [Next]_vars
  PROVE  RowsOK'
  <1> USE AuthConstants
  <1>0. Len(owner) \in Nat /\ Len(owner) <= MaxApprovals /\ 1..Len(owner) \subseteq 1..MaxApprovals
    BY DEF AuthTypes
  <1>1. CASE \/ \E c \in Clients : Register(c) \/ Authorize(c)
             \/ \E a \in Approvals : WrongPassword(a) \/ RightPassword(a)
             \/ \E c \in Clients : \E a \in Approvals : UseCode(c, a)
             \/ PutPending \/ ReadPending \/ IssueCode \/ TakeCode
             \/ LockoutEnds \/ SelectClients \/ Crash \/ UNCHANGED vars
    <2>1. UNCHANGED <<access, refresh, exchanged>> /\ (at' \notin WithRefresh \/ (at' = at /\ what' = what))
      <3>1. (\E c \in Clients : Register(c) \/ Authorize(c)) \/ PutPending \/ LockoutEnds \/ SelectClients \/ Crash
              => UNCHANGED <<access, refresh, exchanged>> /\ (at' \notin WithRefresh \/ (at' = at /\ what' = what))
        BY DEF Register, Authorize, PutPending, LockoutEnds, SelectClients, Crash, Done, Goes, rows, handler,
           history, WithRefresh
      <3>2. (\E a \in Approvals : WrongPassword(a) \/ RightPassword(a)) \/ (\E c \in Clients : \E a \in Approvals : UseCode(c, a))
              => UNCHANGED <<access, refresh, exchanged>> /\ (at' \notin WithRefresh \/ (at' = at /\ what' = what))
        BY DEF WrongPassword, RightPassword, UseCode, Done, Goes, rows, handler, history, WithRefresh
      <3>3. ReadPending \/ IssueCode \/ TakeCode
              => UNCHANGED <<access, refresh, exchanged>> /\ (at' \notin WithRefresh \/ (at' = at /\ what' = what))
        BY DEF ReadPending, IssueCode, TakeCode, Done, Goes, rows, handler, history, WithRefresh
      <3>4. UNCHANGED vars => UNCHANGED <<access, refresh, exchanged, at, what>>
        BY DEF vars, rows, handler, history
      <3> QED
        BY <1>1, <3>1, <3>2, <3>3, <3>4
    <2> QED
      BY <2>1, RowsShrink
  <1>2. CASE MintForCode
    <2>1. /\ what \in 1..Len(owner) /\ exchanged' = [exchanged EXCEPT ![what] = @ + 1] /\ exchanged[what] = 0
          /\ NewTokens(what) /\ at' = "idle"
      BY <1>2 DEF MintForCode, Done, Goes, AuthTypes, CodesOK, WithApproval
    <2>2. exchanged'[what] = 1 /\ \A b \in 1..Len(owner) : exchanged[b] = 1 => exchanged'[b] = 1
      BY <1>0, <2>1 DEF CodesOK
    <2>3. /\ \A s, t \in refresh' : s.id = t.id => s = t
          /\ \A s, t \in refresh' : s.bound = t.bound => s = t
          /\ \A s, t \in access' : s.id = t.id => s = t
          /\ \A t \in access' \cup refresh' : exchanged'[t.appr] = 1
      BY <2>1, <2>2, NewRows
    <2> QED
      BY <2>1, <2>3 DEF RowsOK, WithRefresh
  <1>3. ASSUME NEW c \in Clients, NEW r \in refresh, UseRefresh(c, r)
        PROVE  RowsOK'
    <2>1. at' = "refresh" /\ what' = r /\ UNCHANGED <<access, refresh, exchanged>>
      BY <1>3 DEF UseRefresh, Goes, rows, history
    <2> QED
      BY <2>1 DEF RowsOK, WithRefresh
  <1>4. CASE DropOld
    <2>1. /\ at = "refresh" /\ at' = "dropped" /\ what' = what /\ UNCHANGED <<refresh, exchanged>>
          /\ access' = {t \in access : ~\E r \in refresh : r.id = what.id /\ r.bound = t.id}
      BY <1>4 DEF DropOld, Goes, history
    <2> QED
      BY <2>1 DEF RowsOK, WithRefresh
  <1>5. CASE MintForRefresh
    <2>1. /\ what \in RefreshRows(minted, 1..Len(owner)) /\ at = "dropped" /\ at' = "bind"
          /\ what' = [what EXCEPT !.bound = minted + 1] /\ exchanged' = exchanged /\ NewTokens(what.appr)
      BY <1>5 DEF MintForRefresh, Goes, AuthTypes, WithRefresh
    <2>2. /\ what.appr \in 1..Len(owner) /\ exchanged'[what.appr] = 1
          /\ what'.id = what.id /\ what'.appr = what.appr /\ what'.bound = minted + 1 /\ what.id \in 1..minted
      BY <2>1 DEF RefreshRows, RowsOK, WithRefresh
    <2>3. /\ \A s, t \in refresh' : s.id = t.id => s = t
          /\ \A s, t \in refresh' : s.bound = t.bound => s = t
          /\ \A s, t \in access' : s.id = t.id => s = t
          /\ \A t \in access' \cup refresh' : exchanged'[t.appr] = 1
      BY <2>1, <2>2, NewRows
    <2>4. /\ \A r \in refresh' : r \in refresh \/ (r.id = minted + 1 /\ r.bound = minted + 1 /\ r.appr = what.appr)
          /\ minted + 1 # what.id
          /\ \A r \in refresh : r.bound # minted + 1 /\ r.id # minted + 1
      <3>1. refresh' = refresh \cup {[id |-> minted + 1, appr |-> what.appr, bound |-> minted + 1]}
        BY <2>1, Zenon DEF NewTokens
      <3>2. \A m \in 1..minted : m # minted + 1
        BY DEF AuthTypes
      <3> QED
        BY <2>2, <3>1, <3>2 DEF AuthTypes, RefreshRows
    <2>5. what'.id # what'.bound /\ \A r \in refresh' : r.bound = what'.bound <=> r.id = what'.bound
      BY <2>2, <2>4
    <2>6. exchanged'[what'.appr] = 1 /\ \A r \in refresh' : r.id = what'.id => r.appr = what'.appr
      BY <2>1, <2>2, <2>4 DEF RowsOK, WithRefresh
    <2> QED
      BY <2>1, <2>3, <2>5, <2>6 DEF RowsOK
  <1>6. CASE Bind
    <2>1. /\ at = "bind" /\ at' = "idle" /\ UNCHANGED <<access, exchanged>>
          /\ refresh' = {IF r.id = what.id THEN what ELSE r : r \in {x \in refresh : x.id # what.bound}}
      BY <1>6 DEF Bind, Done, Goes, history
    <2>2. \A s \in refresh' : \E r \in refresh : /\ r.id # what.bound /\ s.id = r.id /\ s.appr = r.appr
                                                 /\ s = IF r.id = what.id THEN what ELSE r
      BY <2>1 DEF RowsOK, WithRefresh
    <2>3. /\ \A s, t \in refresh' : s.id = t.id => s = t
          /\ \A t \in access' \cup refresh' : exchanged'[t.appr] = 1
      BY <2>1, <2>2 DEF RowsOK
    <2>4. \A s, t \in refresh' : s.bound = t.bound => s = t
      BY <2>1, <2>2 DEF RowsOK
    <2> QED
      BY <2>1, <2>3, <2>4 DEF RowsOK, WithRefresh
  <1>7. ASSUME NEW id \in Tokens, RevokeToken(id)
        PROVE  RowsOK'
    <2>1. /\ at = "idle" /\ at' = at /\ access' \subseteq access /\ refresh' \subseteq refresh /\ exchanged' = exchanged
      BY <1>7 DEF RevokeToken, handler, history
    <2> QED
      BY <2>1, RowsShrink DEF WithRefresh
  <1>8. CASE Revoke
    <2>1. /\ at' = at /\ what' = what /\ exchanged' = exchanged
          /\ access' = {t \in access : owner[t.appr] \notin cli}
          /\ refresh' = {t \in refresh : owner[t.appr] \notin cli}
      BY <1>8 DEF Revoke, handler
    <2>2. CASE at \in {"refresh", "dropped"}
      <3>1. what \in refresh \/ \A t \in access \cup refresh : t.appr # what.appr
        BY <2>2 DEF RowsOK
      <3> QED
        BY <2>1, <2>2, <3>1, RowsShrink
    <2>3. CASE at \notin {"refresh", "dropped"}
      BY <2>1, <2>3, RowsShrink DEF WithRefresh
    <2> QED
      BY <2>2, <2>3
  <1>9. CASE Expire
    <2>1. access' \subseteq access /\ UNCHANGED <<refresh, exchanged, at, what>>
      BY <1>9 DEF Expire, handler, history
    <2> QED
      BY <2>1, RowsShrink
  <1> QED
    BY <1>1, <1>2, <1>3, <1>4, <1>5, <1>6, <1>7, <1>8, <1>9, Zenon DEF Next, Handlers

LEMMA RowsStart == Init => RowsOK
  BY DEF Init, RowsOK, WithRefresh

(* What the login page lets through is let through once: an approval gives *)
(* one code and a code one pair of tokens, and every guess past the limit  *)
(* costs a lockout (auth.py).                                              *)
THEOREM LoginsLetThroughOnce == PartsSpec => []LoginsAccounted
  <1> DEFINE Inv == AuthTypes /\ CodesOK /\ GuessesOK /\ RowsOK
  <1>1. PartsInit => Inv
    BY AuthStarts, RowsStart DEF PartsInit
  <1>2. Inv /\ [PartsNext]_authvars => Inv'
    <2> SUFFICES ASSUME Inv, [PartsNext]_authvars
                 PROVE  Inv'
      OBVIOUS
    <2>1. [Next]_vars
      BY Zenon DEF PartsNext, authvars
    <2> QED
      BY <2>1, NextTypes, NextCodes, NextGuesses, NextRows
  <1>3. Inv => LoginsAccounted
    <2> SUFFICES ASSUME Inv
                 PROVE  LoginsAccounted
      OBVIOUS
    <2> USE AuthConstants
    <2>1. DOMAIN owner = 1..Len(owner)
      BY DEF AuthTypes
    <2>2. TypeOK
      BY <2>1 DEF AuthTypes, RowsOK, TypeOK, AccessRows, RefreshRows, Tokens
    <2>3. OnePairPerApproval
      BY DEF OnePairPerApproval, CodesOK, Approvals
    <2>4. GuessesBounded
      BY DEF GuessesBounded, GuessesOK
    <2> QED
      BY <2>2, <2>3, <2>4 DEF LoginsAccounted
  <1> QED
    BY <1>1, <1>2, <1>3, PTL DEF PartsSpec, authvars

(* A client is revoked once; an exchange that is past its last look then   *)
(* is remembered in late, and mints once.                                  *)
Excused(c) == registered[c] = "yes" \/ (c \in late /\ after[c] = 0)

RevokedOK ==
    /\ after \in [Clients -> {0, 1}]
    /\ \A c \in Clients : after[c] = 1 => c \in late /\ registered[c] = "revoked"
    /\ \A c \in cli : registered[c] = "yes"
    /\ at = "code" => registered[owner[what]] = "yes" \/ what \notin codes
    /\ at = "taken" => Excused(owner[what])
    /\ at \in {"refresh", "dropped"} => Excused(owner[what.appr])

(* The clients of the approval that is issued or exchanged.                *)
LEMMA Owners ==
  ASSUME AuthTypes
  PROVE  /\ \A a \in 1..Len(owner) : owner[a] \in Clients
         /\ at \in WithApproval => owner[what] \in Clients
         /\ at \in WithRefresh => owner[what.appr] \in Clients
  BY DEF AuthTypes, WithApproval, WithRefresh, RefreshRows

(* A step that says nothing of clients.                                    *)
LEMMA ClientsStay ==
  ASSUME RevokedOK, UNCHANGED <<registered, owner, cli, late, after>>, codes' \subseteq codes,
         \/ at' \notin {"code", "taken", "refresh", "dropped"}
         \/ UNCHANGED <<at, what>>
         \/ at = "refresh" /\ at' = "dropped" /\ what' = what
         \/ at = "code" /\ at' = "taken" /\ what' = what /\ what \in codes
  PROVE  RevokedOK'
  BY DEF RevokedOK, Excused

LEMMA MintClients ==
  ASSUME AuthTypes, RevokedOK, NEW a \in 1..Len(owner), Excused(owner[a]), NewTokens(a),
         at' \notin {"code", "taken", "refresh", "dropped"}
  PROVE  RevokedOK'
  <1> DEFINE c == owner[a]
  <1>1. c \in Clients
    BY Owners
  <1>2. /\ after' = IF registered[c] = "revoked" THEN [after EXCEPT ![c] = @ + 1] ELSE after
        /\ UNCHANGED <<registered, owner, cli, late>>
    BY DEF NewTokens
  <1>3. CASE registered[c] = "revoked"
    <2>1. c \in late /\ after[c] = 0
      BY <1>3 DEF Excused
    <2>2. after' = [after EXCEPT ![c] = 1]
      BY <1>1, <1>2, <1>3, <2>1 DEF RevokedOK
    <2> HIDE DEF c
    <2> QED
      BY <1>1, <1>2, <1>3, <2>1, <2>2 DEF RevokedOK
  <1>4. CASE registered[c] # "revoked"
    BY <1>2, <1>4 DEF RevokedOK
  <1> QED
    BY <1>3, <1>4

LEMMA NextRevoked ==
  ASSUME AuthTypes, RevokedOK, [Next]_vars
  PROVE  RevokedOK'
  <1> USE AuthConstants
  <1>1. CASE \/ \E a \in Approvals : WrongPassword(a) \/ RightPassword(a)
             \/ IssueCode \/ TakeCode \/ DropOld \/ Bind \/ \E id \in Tokens : RevokeToken(id)
             \/ ReadPending \/ LockoutEnds \/ Expire \/ Crash \/ UNCHANGED vars
    <2>1. CASE (\E a \in Approvals : WrongPassword(a) \/ RightPassword(a)) \/ LockoutEnds \/ Crash \/ ReadPending
      BY <2>1, ClientsStay
         DEF WrongPassword, RightPassword, LockoutEnds, Crash, ReadPending, Goes, Done, rows, history, handler
    <2>2. CASE IssueCode
      BY <2>2 DEF IssueCode, Goes, Done, history, RevokedOK
    <2>3. CASE TakeCode
      <3>1. at = "code" /\ UNCHANGED <<registered, owner, cli, late, after>> /\ codes' \subseteq codes
        BY <2>3 DEF TakeCode, history
      <3>2. (at' = "taken" /\ what' = what /\ what \in codes) \/ at' = "idle"
        BY <2>3 DEF TakeCode, Goes, Done
      <3> QED
        BY <3>1, <3>2, ClientsStay
    <2>4. CASE DropOld \/ Bind \/ \E id \in Tokens : RevokeToken(id)
      BY <2>4, ClientsStay DEF DropOld, Bind, RevokeToken, Goes, Done, history, handler
    <2>5. CASE Expire \/ UNCHANGED vars
      BY <2>5, ClientsStay DEF Expire, vars, rows, history, handler
    <2> QED
      BY <1>1, <2>1, <2>2, <2>3, <2>4, <2>5
  <1>2. ASSUME NEW c \in Clients, Register(c)
        PROVE  RevokedOK'
    <2>1. /\ registered[c] = "no" /\ registered' = [registered EXCEPT ![c] = "yes"] /\ at' = "idle"
          /\ UNCHANGED <<owner, cli, late, after>>
      BY <1>2 DEF Register, history, handler
    <2>2. /\ registered'[c] = "yes"
          /\ \A d \in Clients : d # c => registered'[d] = registered[d]
      BY <2>1 DEF AuthTypes
    <2> QED
      BY <2>1, <2>2 DEF RevokedOK, AuthTypes
  <1>3. ASSUME NEW c \in Clients, Authorize(c)
        PROVE  RevokedOK'
    BY <1>3, ClientsStay DEF Authorize, Goes, rows, history
  <1>4. CASE PutPending
    <2>1. /\ at' = "idle" /\ UNCHANGED <<registered, cli, late, after>>
      BY <1>4 DEF PutPending, Goes, Done, history
    <2> QED
      BY <2>1 DEF RevokedOK
  <1>5. ASSUME NEW c \in Clients, NEW a \in Approvals, UseCode(c, a)
        PROVE  RevokedOK'
    <2>1. /\ registered[c] = "yes" /\ owner[a] = c /\ UNCHANGED <<registered, owner, cli, late, after>>
          /\ codes' \subseteq codes
          /\ (at' = "idle" \/ (at' = "code" /\ what' = a))
      BY <1>5 DEF UseCode, Goes, history, handler
    <2> QED
      BY <2>1 DEF RevokedOK
  <1>6. ASSUME NEW c \in Clients, NEW r \in refresh, UseRefresh(c, r)
        PROVE  RevokedOK'
    <2>1. /\ registered[c] = "yes" /\ owner[r.appr] = c /\ UNCHANGED <<registered, owner, cli, late, after>>
          /\ at' = "refresh" /\ what' = r
      BY <1>6 DEF UseRefresh, Goes, history
    <2> QED
      BY <2>1 DEF RevokedOK, Excused
  <1>7. CASE MintForCode
    <2>1. /\ what \in 1..Len(owner) /\ Excused(owner[what]) /\ NewTokens(what) /\ at' = "idle"
      BY <1>7 DEF MintForCode, Goes, Done, AuthTypes, WithApproval, RevokedOK
    <2> QED
      BY <2>1, MintClients
  <1>8. CASE MintForRefresh
    <2>1. /\ what.appr \in 1..Len(owner) /\ Excused(owner[what.appr]) /\ NewTokens(what.appr) /\ at' = "bind"
      BY <1>8 DEF MintForRefresh, Goes, AuthTypes, WithRefresh, RefreshRows, RevokedOK
    <2> QED
      BY <2>1, MintClients
  <1>9. CASE SelectClients
    <2>1. cli' \subseteq {c \in Clients : registered[c] = "yes"} /\ UNCHANGED <<registered, owner, late, after, codes, at, what>>
      BY <1>9 DEF SelectClients, rows, handler, history
    <2> QED
      BY <2>1 DEF RevokedOK, Excused
  <1>10. CASE Revoke
    <2>1. /\ cli' = {} /\ UNCHANGED <<owner, after, at, what>>
          /\ registered' = [c \in Clients |-> IF c \in cli THEN "revoked" ELSE registered[c]]
          /\ codes' = {a \in codes : owner[a] \notin cli}
          /\ late' = late \cup (cli \cap About)
      BY <1>10 DEF Revoke, handler
    <2>2. \A c \in Clients : after[c] = 1 => c \notin cli /\ c \in late' /\ registered'[c] = "revoked"
      BY <2>1 DEF RevokedOK
    <2>3. at = "code" => registered'[owner[what]] = "yes" \/ what \notin codes'
      BY <2>1, Owners DEF RevokedOK, WithApproval
    <2>4. \A c \in Clients \cap About : Excused(c) => Excused(c)'
      BY <2>1, <2>2 DEF RevokedOK, Excused
    <2>5. at = "taken" => Excused(owner[what])'
      BY <2>1, <2>4, Owners DEF RevokedOK, WithApproval, About
    <2>6. at \in {"refresh", "dropped"} => Excused(owner[what.appr])'
      BY <2>1, <2>4, Owners DEF RevokedOK, WithRefresh, About
    <2> QED
      BY <2>1, <2>2, <2>3, <2>5, <2>6 DEF RevokedOK
  <1> QED
    BY <1>1, <1>2, <1>3, <1>4, <1>5, <1>6, <1>7, <1>8, <1>9, <1>10, Zenon DEF Next, Handlers

LEMMA RevokedStart == Init => RevokedOK
  BY DEF Init, RevokedOK
-----------------------------------------------------------------------------
(* The pairs of tokens that an approval can still use, each by the number  *)
(* of its access token: an access token is there, or a refresh token will  *)
(* drop it.  A refresh that has minted has already moved its row to the    *)
(* new pair and will delete the row that came with it.                     *)
Bound(r) == IF at = "bind" /\ r.id = what.id THEN what.bound ELSE r.bound
Keys(a) == {t \in access : t.appr = a}
Rows(a) == {r \in refresh : r.appr = a}
Kept(a) == {r \in Rows(a) : ~(at = "bind" /\ r.id = what.bound)}
Slots(a) == {t.id : t \in Keys(a)} \cup {Bound(r) : r \in Kept(a)}

SlotsOK ==
    /\ crashes \in Nat
    /\ \A a \in 1..MaxApprovals : IsFiniteSet(Slots(a)) /\ Cardinality(Slots(a)) <= 1 + crashes

(* Fewer slots are fine, and one that takes the place of another.          *)
LEMMA FewerSlots ==
  ASSUME NEW S, NEW n \in Nat, IsFiniteSet(S), Cardinality(S) <= n, NEW T, T \subseteq S
  PROVE  IsFiniteSet(T) /\ Cardinality(T) <= n
  <1>1. IsFiniteSet(T) /\ Cardinality(T) <= Cardinality(S) /\ Cardinality(S) \in Nat /\ Cardinality(T) \in Nat
    BY FS_Subset, FS_CardinalityType
  <1> QED
    BY <1>1

LEMMA SwapSlots ==
  ASSUME NEW S, NEW n \in Nat, IsFiniteSet(S), Cardinality(S) <= n, NEW b \in S, NEW m, NEW T,
         T \subseteq (S \ {b}) \cup {m}
  PROVE  IsFiniteSet(T) /\ Cardinality(T) <= n
  <1> DEFINE R == S \ {b}
             U == R \cup {m}
  <1>1. IsFiniteSet(R) /\ Cardinality(R) = Cardinality(S) - 1 /\ Cardinality(S) \in Nat /\ Cardinality(R) \in Nat
    BY FS_RemoveElement, FS_CardinalityType
  <1>2. IsFiniteSet(U) /\ Cardinality(U) = (IF m \in R THEN Cardinality(R) ELSE Cardinality(R) + 1)
    <2> HIDE DEF R
    <2> QED
      BY <1>1, FS_AddElement
  <1>3. Cardinality(U) <= n
    BY <1>1, <1>2
  <1> QED
    <2>1. T \subseteq U
      OBVIOUS
    <2> HIDE DEF U
    <2> QED
      BY <1>2, <1>3, <2>1, FewerSlots

LEMMA OneSlot ==
  ASSUME NEW m, NEW T, T \subseteq {m}, NEW n \in Nat
  PROVE  IsFiniteSet(T) /\ Cardinality(T) <= 1 + n
  <1>1. IsFiniteSet({m}) /\ Cardinality({m}) = 1
    BY FS_Singleton
  <1> QED
    BY <1>1, FewerSlots

LEMMA SlotsStay ==
  ASSUME SlotsOK, crashes' = crashes, \A a \in 1..MaxApprovals : Slots(a)' \subseteq Slots(a)
  PROVE  SlotsOK'
  <1>1. 1 + crashes \in Nat
    BY DEF SlotsOK
  <1>2. ASSUME NEW a \in 1..MaxApprovals
        PROVE  IsFiniteSet(Slots(a)') /\ Cardinality(Slots(a)') <= 1 + crashes
    <2>1. IsFiniteSet(Slots(a)) /\ Cardinality(Slots(a)) <= 1 + crashes /\ Slots(a)' \subseteq Slots(a)
      BY <1>2 DEF SlotsOK
    <2> QED
      BY <1>1, <2>1, FewerSlots
  <1> QED
    BY <1>2 DEF SlotsOK

(* A step that leaves the rows alone, or takes some away.                  *)
LEMMA RowsLeave ==
  ASSUME access' \subseteq access, refresh' \subseteq refresh,
         \/ at' = at /\ what' = what
         \/ at # "bind" /\ at' # "bind"
  PROVE  \A a \in 1..MaxApprovals : Slots(a)' \subseteq Slots(a)
  <1> SUFFICES ASSUME NEW a \in 1..MaxApprovals
               PROVE  Slots(a)' \subseteq Slots(a)
    OBVIOUS
  <1>1. Kept(a)' \subseteq Kept(a) /\ \A r \in Kept(a)' : Bound(r)' = Bound(r)
    BY DEF Kept, Rows, Bound
  <1>2. Keys(a)' \subseteq Keys(a)
    BY DEF Keys
  <1> QED
    BY <1>1, <1>2 DEF Slots

(* A new pair of approval a, for its code or in place of an older pair.    *)
LEMMA MintSlots ==
  ASSUME AuthTypes, RowsOK, SlotsOK, NEW a \in 1..Len(owner), NewTokens(a),
         \/ at = "taken" /\ at' = "idle" /\ a = what /\ \A t \in access \cup refresh : t.appr # a
         \/ at = "dropped" /\ at' = "bind" /\ a = what.appr /\ what' = [what EXCEPT !.bound = minted + 1]
  PROVE  SlotsOK'
  <1> USE AuthConstants
  <1> DEFINE n == minted + 1
             row == [id |-> n, appr |-> a, bound |-> n]
             key == [id |-> n, appr |-> a]
  <1>1. access' = access \cup {key} /\ refresh' = refresh \cup {row} /\ crashes' = crashes
    BY Zenon DEF NewTokens
  <1>2. row.id = n /\ row.appr = a /\ row.bound = n /\ key.id = n /\ key.appr = a
    OBVIOUS
  <1>3. /\ \A r \in refresh : r.id # n
        /\ at = "dropped" => /\ what \in RefreshRows(minted, 1..Len(owner)) /\ what.id # n
                             /\ what'.id = what.id /\ what'.appr = what.appr
                             /\ (at' = "bind" => what'.bound = n)
    <2>1. \A m \in 1..minted : m # n
      BY DEF AuthTypes
    <2>2. at = "dropped" => what \in RefreshRows(minted, 1..Len(owner))
      BY DEF AuthTypes, WithRefresh
    <2>3. \A r \in RefreshRows(minted, 1..Len(owner)) : r.id # n
      BY <2>1 DEF RefreshRows
    <2> QED
      BY <2>2, <2>3 DEF AuthTypes, RefreshRows
  <1> HIDE DEF n, row, key
  <1>4. ASSUME NEW b \in 1..MaxApprovals, b # a
        PROVE  Slots(b)' \subseteq Slots(b)
    <2>1. Keys(b)' = Keys(b) /\ Rows(b)' = Rows(b)
      BY <1>1, <1>2, <1>4 DEF Keys, Rows
    <2>2. \A r \in Rows(b) : ~(at' = "bind" /\ r.id = what'.bound) /\ Bound(r)' = Bound(r)
      BY <1>3, <1>4 DEF Rows, Bound, RowsOK, WithRefresh
    <2>3. Kept(b)' \subseteq Kept(b)
      BY <2>1, <2>2 DEF Kept
    <2> QED
      BY <2>1, <2>2, <2>3 DEF Slots, Kept
  <1>5. 1 + crashes \in Nat /\ a \in 1..MaxApprovals
    BY DEF SlotsOK, AuthTypes
  <1>6. CASE \A t \in access \cup refresh : t.appr # a
    <2>1. Keys(a)' = {key} /\ Rows(a)' = {row}
      BY <1>1, <1>2, <1>6 DEF Keys, Rows
    <2>2. \A r \in Rows(a)' : Bound(r)' = n
      BY <1>2, <1>3, <2>1 DEF Bound
    <2>3. Slots(a)' \subseteq {n}
      BY <1>2, <2>1, <2>2 DEF Slots, Kept
    <2>4. IsFiniteSet(Slots(a)') /\ Cardinality(Slots(a)') <= 1 + crashes
      BY <2>3, OneSlot DEF SlotsOK
    <2>5. \A c \in 1..MaxApprovals : c # a => IsFiniteSet(Slots(c)') /\ Cardinality(Slots(c)') <= 1 + crashes
      BY <1>4, <1>5, FewerSlots DEF SlotsOK
    <2> QED
      BY <1>1, <2>4, <2>5 DEF SlotsOK
  <1>7. CASE at = "dropped" /\ what \in refresh
    <2> DEFINE b == what.bound
    <2>1. what.appr = a /\ at' = "bind" /\ what'.bound = n /\ what'.id = what.id
      BY <1>3, <1>7
    <2>2. Rows(a)' = Rows(a) \cup {row} /\ Keys(a)' = Keys(a) \cup {key}
      BY <1>1, <1>2 DEF Rows, Keys
    <2>3. Kept(a)' \subseteq Rows(a) /\ Kept(a) = Rows(a) /\ what \in Rows(a)
      BY <1>2, <1>7, <2>1, <2>2 DEF Kept, Rows
    <2>4. b \in Slots(a)
      BY <1>7, <2>3 DEF Slots, Bound
    <2>5. \A t \in Keys(a)' : t.id = n \/ (t \in Keys(a) /\ t.id # b)
      BY <1>2, <1>7, <2>2 DEF Keys, RowsOK
    <2>6. \A r \in Rows(a) : Bound(r)' = n \/ (Bound(r)' = Bound(r) /\ Bound(r) # b)
      <3> SUFFICES ASSUME NEW r \in Rows(a), r.id # what.id
                   PROVE  Bound(r)' = Bound(r) /\ Bound(r) # b
        BY <2>1 DEF Bound
      <3>1. r # what /\ r \in refresh
        BY DEF Rows
      <3>2. r.bound # b
        BY <1>7, <3>1 DEF RowsOK
      <3> QED
        BY <1>7, <2>1, <3>2 DEF Bound
    <2>7. Slots(a)' \subseteq (Slots(a) \ {b}) \cup {n}
      <3>1. \A x \in Slots(a)' : (\E t \in Keys(a)' : x = t.id) \/ (\E r \in Kept(a)' : x = Bound(r)')
        BY DEF Slots
      <3>2. \A t \in Keys(a) : t.id \in Slots(a)
        BY DEF Slots
      <3>3. \A r \in Kept(a) : Bound(r) \in Slots(a)
        BY DEF Slots
      <3> HIDE DEF b
      <3> QED
        BY <2>3, <2>5, <2>6, <3>1, <3>2, <3>3
    <2>8. IsFiniteSet(Slots(a)) /\ Cardinality(Slots(a)) <= 1 + crashes
      BY <1>5 DEF SlotsOK
    <2>9. IsFiniteSet(Slots(a)') /\ Cardinality(Slots(a)') <= 1 + crashes
      <3> HIDE DEF b
      <3> QED
        BY <1>5, <2>4, <2>7, <2>8, SwapSlots
    <2>10. \A c \in 1..MaxApprovals : c # a => IsFiniteSet(Slots(c)') /\ Cardinality(Slots(c)') <= 1 + crashes
      BY <1>4, <1>5, FewerSlots DEF SlotsOK
    <2> QED
      BY <1>1, <2>9, <2>10 DEF SlotsOK
  <1> QED
    BY <1>6, <1>7 DEF RowsOK

LEMMA NextSlots ==
  ASSUME AuthTypes, CodesOK, RowsOK, SlotsOK, [Next]_vars
  PROVE  SlotsOK'
  <1> USE AuthConstants
  <1>1. CASE \/ \E c \in Clients : Register(c) \/ Authorize(c)
             \/ \E a \in Approvals : WrongPassword(a) \/ RightPassword(a)
             \/ \E c \in Clients : (\E a \in Approvals : UseCode(c, a)) \/ (\E r \in refresh : UseRefresh(c, r))
             \/ \E id \in Tokens : RevokeToken(id)
             \/ PutPending \/ ReadPending \/ IssueCode \/ TakeCode
             \/ LockoutEnds \/ SelectClients \/ Revoke \/ Expire \/ UNCHANGED vars
    <2>1. /\ access' \subseteq access /\ refresh' \subseteq refresh /\ crashes' = crashes
          /\ (at' = at /\ what' = what) \/ (at # "bind" /\ at' # "bind")
      <3>1. CASE \/ \E c \in Clients : Register(c) \/ Authorize(c)
                 \/ \E a \in Approvals : WrongPassword(a) \/ RightPassword(a)
                 \/ PutPending \/ LockoutEnds
        BY <3>1 DEF Register, Authorize, WrongPassword, RightPassword, PutPending, LockoutEnds, Goes, Done,
           rows, history, handler
      <3>2. CASE \/ \E c \in Clients : (\E a \in Approvals : UseCode(c, a)) \/ (\E r \in refresh : UseRefresh(c, r))
                 \/ \E id \in Tokens : RevokeToken(id)
                 \/ ReadPending \/ IssueCode \/ TakeCode
        BY <3>2 DEF UseCode, UseRefresh, RevokeToken, ReadPending, IssueCode, TakeCode, Goes, Done, rows,
           history, handler
      <3>3. CASE SelectClients \/ Revoke \/ Expire \/ UNCHANGED vars
        BY <3>3 DEF SelectClients, Revoke, Expire, vars, rows, history, handler
      <3> QED
        BY <1>1, <3>1, <3>2, <3>3
    <2> QED
      BY <2>1, RowsLeave, SlotsStay
  <1>2. CASE MintForCode
    <2>1. /\ at = "taken" /\ at' = "idle" /\ what \in 1..Len(owner) /\ exchanged[what] = 0 /\ NewTokens(what)
      BY <1>2 DEF MintForCode, Goes, Done, AuthTypes, CodesOK, WithApproval
    <2>2. \A t \in access \cup refresh : t.appr # what
      BY <2>1 DEF RowsOK
    <2> QED
      BY <2>1, <2>2, MintSlots
  <1>3. CASE DropOld
    <2>1. /\ access' \subseteq access /\ refresh' = refresh /\ crashes' = crashes /\ at = "refresh" /\ at' = "dropped"
      BY <1>3 DEF DropOld, Goes, history
    <2> QED
      BY <2>1, RowsLeave, SlotsStay
  <1>4. CASE MintForRefresh
    <2>1. /\ at = "dropped" /\ at' = "bind" /\ what.appr \in 1..Len(owner) /\ NewTokens(what.appr)
          /\ what' = [what EXCEPT !.bound = minted + 1]
      BY <1>4 DEF MintForRefresh, Goes, AuthTypes, WithRefresh, RefreshRows
    <2> QED
      BY <2>1, MintSlots
  <1>5. CASE Bind
    <2>1. /\ at = "bind" /\ at' = "idle" /\ access' = access /\ crashes' = crashes
          /\ refresh' = {IF r.id = what.id THEN what ELSE r : r \in {x \in refresh : x.id # what.bound}}
      BY <1>5 DEF Bind, Goes, Done, history
    <2>2. ASSUME NEW a \in 1..MaxApprovals
          PROVE  Slots(a)' \subseteq Slots(a)
      <3>1. \A s \in refresh' : \E r \in refresh : /\ r.id # what.bound /\ s.appr = r.appr
                                                   /\ s = IF r.id = what.id THEN what ELSE r
        BY <2>1 DEF RowsOK, WithRefresh
      <3>2. \A s \in Kept(a)' : Bound(s)' = s.bound /\ s \in refresh' /\ s.appr = a
        BY <2>1 DEF Kept, Rows, Bound
      <3>3. \A s \in Kept(a)' : \E r \in Kept(a) : Bound(s)' = Bound(r)
        <4> SUFFICES ASSUME NEW s \in Kept(a)'
                     PROVE  \E r \in Kept(a) : s.bound = Bound(r)
          BY <3>2
        <4>1. PICK r \in refresh : /\ r.id # what.bound /\ s.appr = r.appr
                                   /\ s = IF r.id = what.id THEN what ELSE r
          BY <3>1, <3>2
        <4>2. r \in Kept(a)
          BY <3>2, <4>1 DEF Kept, Rows
        <4>3. s.bound = Bound(r)
          BY <2>1, <4>1 DEF Bound
        <4> QED
          BY <4>2, <4>3
      <3>4. Keys(a)' = Keys(a)
        BY <2>1 DEF Keys
      <3> QED
        BY <3>3, <3>4 DEF Slots
    <2> QED
      BY <2>1, <2>2, SlotsStay
  <1>6. CASE Crash
    <2>1. /\ access' = access /\ refresh' = refresh /\ crashes' = crashes + 1 /\ at' = "idle"
      BY <1>6 DEF Crash, Goes, Done, rows
    <2>2. ASSUME NEW a \in 1..MaxApprovals
          PROVE  IsFiniteSet(Slots(a)') /\ Cardinality(Slots(a)') <= 1 + (crashes + 1)
      <3>1. IsFiniteSet(Slots(a)) /\ Cardinality(Slots(a)) <= 1 + crashes /\ Cardinality(Slots(a)) \in Nat /\ crashes \in Nat
        BY FS_CardinalityType DEF SlotsOK
      <3>2. Keys(a)' = Keys(a) /\ \A r \in Kept(a)' : Bound(r)' = r.bound /\ r \in Rows(a)
        BY <2>1 DEF Keys, Rows, Kept, Bound
      <3>3. \A r \in Rows(a) : r.id # what.id /\ r.id # what.bound => r.bound \in Slots(a)
        BY DEF Slots, Kept, Bound
      <3>4. \E m : Slots(a)' \subseteq Slots(a) \cup {m}
        <4>1. CASE at = "bind" /\ \E q \in Rows(a) : q.id = what.id
          <5>1. PICK q \in Rows(a) : q.id = what.id
            BY <4>1
          <5>2. what.bound \in Slots(a)
            BY <4>1, <5>1 DEF Slots, Kept, Bound, RowsOK
          <5>3. \A r \in Rows(a) : r.bound \in Slots(a) \cup {q.bound}
            BY <3>3, <4>1, <5>1, <5>2 DEF Rows, RowsOK
          <5> QED
            BY <3>2, <5>3 DEF Slots
        <4>2. CASE at = "bind" /\ ~\E q \in Rows(a) : q.id = what.id
          <5>1. \A r \in Rows(a) : r.bound \in Slots(a) \cup {what.bound}
            BY <3>3, <4>2 DEF Rows, RowsOK
          <5> QED
            BY <3>2, <5>1 DEF Slots
        <4>3. CASE at # "bind"
          BY <4>3, <3>2 DEF Slots, Kept, Rows, Bound
        <4> QED
          BY <4>1, <4>2, <4>3
      <3>5. PICK m : Slots(a)' \subseteq Slots(a) \cup {m}
        BY <3>4
      <3>6. IsFiniteSet(Slots(a) \cup {m}) /\ Cardinality(Slots(a) \cup {m}) <= 1 + (crashes + 1)
        BY <3>1, FS_AddElement
      <3> QED
        BY <3>1, <3>5, <3>6, FewerSlots
    <2> QED
      BY <2>1, <2>2 DEF SlotsOK
  <1> QED
    BY <1>1, <1>2, <1>3, <1>4, <1>5, <1>6, Zenon DEF Next, Handlers

LEMMA SlotsStart == Init => SlotsOK
  <1> SUFFICES ASSUME Init
               PROVE  SlotsOK
    OBVIOUS
  <1>1. crashes = 0 /\ \A a \in 1..MaxApprovals : Slots(a) = {}
    BY DEF Init, Slots, Keys, Kept, Rows
  <1>2. IsFiniteSet({}) /\ Cardinality({}) = 0
    BY FS_EmptySet
  <1> QED
    BY <1>1, <1>2 DEF SlotsOK

(* What is counted of the tables is no more than the slots.                *)
LEMMA Counted ==
  ASSUME NEW S, NEW T, NEW f \in [S -> T], \A x, y \in S : f[x] = f[y] => x = y,
         NEW n \in Nat, IsFiniteSet(T), Cardinality(T) <= n
  PROVE  IsFiniteSet(S) /\ Cardinality(S) <= n
  <1>1. f \in Injection(S, T)
    BY DEF Injection, IsInjective
  <1>2. IsFiniteSet(S) /\ Cardinality(S) <= Cardinality(T) /\ Cardinality(T) \in Nat /\ Cardinality(S) \in Nat
    BY <1>1, FS_Injection, FS_CardinalityType
  <1> QED
    BY <1>2

LEMMA PairsCounted ==
  ASSUME RowsOK, SlotsOK, NEW a \in 1..MaxApprovals
  PROVE  /\ Cardinality(Keys(a)) <= 1 + crashes
         /\ Cardinality(Rows(a)) <= 1 + crashes + (IF at = "bind" THEN 1 ELSE 0)
  <1>1. IsFiniteSet(Slots(a)) /\ Cardinality(Slots(a)) <= 1 + crashes /\ crashes \in Nat /\ 1 + crashes \in Nat
    BY DEF SlotsOK
  <1>2. Cardinality(Keys(a)) <= 1 + crashes
    <2> DEFINE f == [t \in Keys(a) |-> t.id]
    <2>1. f \in [Keys(a) -> Slots(a)]
      BY DEF Slots
    <2>2. \A x, y \in Keys(a) : f[x] = f[y] => x = y
      BY DEF Keys, RowsOK
    <2> HIDE DEF f
    <2> QED
      BY <1>1, <2>1, <2>2, Counted
  <1>3. IsFiniteSet(Kept(a)) /\ Cardinality(Kept(a)) <= 1 + crashes
    <2> DEFINE f == [r \in Kept(a) |-> Bound(r)]
    <2>1. f \in [Kept(a) -> Slots(a)]
      BY DEF Slots
    <2>2. \A x, y \in Kept(a) : Bound(x) = Bound(y) => x = y
      BY DEF Kept, Rows, Bound, RowsOK
    <2>3. \A x, y \in Kept(a) : f[x] = f[y] => x = y
      BY <2>2
    <2> HIDE DEF f
    <2> QED
      BY <1>1, <2>1, <2>3, Counted
  <1>4. CASE at # "bind"
    <2>1. Kept(a) = Rows(a)
      BY <1>4 DEF Kept
    <2> QED
      BY <1>1, <1>2, <1>3, <1>4, <2>1
  <1>5. CASE at = "bind"
    <2>1. \E m : Rows(a) \subseteq Kept(a) \cup {m}
      <3>1. CASE \E q \in Rows(a) : q.id = what.bound
        BY <3>1 DEF Kept, Rows, RowsOK
      <3>2. CASE ~\E q \in Rows(a) : q.id = what.bound
        BY <3>2 DEF Kept
      <3> QED
        BY <3>1, <3>2
    <2>2. PICK m : Rows(a) \subseteq Kept(a) \cup {m}
      BY <2>1
    <2>3. IsFiniteSet(Kept(a) \cup {m}) /\ Cardinality(Kept(a) \cup {m}) <= 1 + crashes + 1 /\ 1 + crashes + 1 \in Nat
      <3>1. /\ IsFiniteSet(Kept(a) \cup {m})
            /\ Cardinality(Kept(a) \cup {m}) \in {Cardinality(Kept(a)), Cardinality(Kept(a)) + 1}
        BY <1>3, FS_AddElement
      <3>2. Cardinality(Kept(a)) \in Nat
        BY <1>3, FS_CardinalityType
      <3> QED
        BY <1>1, <1>3, <3>1, <3>2
    <2>4. Cardinality(Rows(a)) <= 1 + crashes + 1
      BY <2>2, <2>3, FewerSlots
    <2> QED
      BY <1>2, <1>5, <2>4
  <1> QED
    BY <1>4, <1>5

(* A client that was revoked gets at most the pair it was about to get     *)
(* when the command line deleted it, and an approval has one pair that     *)
(* works, one more for each death inside a refresh (auth.py,               *)
(* remoteclients.py).                                                      *)
THEOREM TokensCounted == PartsSpec => []TokensAccounted
  <1> DEFINE Inv == AuthTypes /\ CodesOK /\ GuessesOK /\ RowsOK /\ RevokedOK /\ SlotsOK
  <1>1. PartsInit => Inv
    BY AuthStarts, RowsStart, RevokedStart, SlotsStart DEF PartsInit
  <1>2. Inv /\ [PartsNext]_authvars => Inv'
    <2> SUFFICES ASSUME Inv, [PartsNext]_authvars
                 PROVE  Inv'
      OBVIOUS
    <2>1. [Next]_vars
      BY Zenon DEF PartsNext, authvars
    <2> QED
      BY <2>1, NextTypes, NextCodes, NextGuesses, NextRows, NextRevoked, NextSlots
  <1>3. Inv => TokensAccounted
    <2> SUFFICES ASSUME Inv
                 PROVE  TokensAccounted
      OBVIOUS
    <2>1. RevokedGetsAtMostOne
      BY DEF RevokedGetsAtMostOne, RevokedOK
    <2>2. OneLivePair
      BY PairsCounted DEF OneLivePair, Keys, Rows, Approvals
    <2> QED
      BY <2>1, <2>2 DEF TokensAccounted
  <1> QED
    BY <1>1, <1>2, <1>3, PTL DEF PartsSpec, authvars
-----------------------------------------------------------------------------
(* The hand-over of the browser.                                           *)
HandoffStages == {"none", "take", "show", "notify", "note", "write", "link", "over"}
Records(n) == {H!None} \cup [id : 1..n, note : 0..MaxGives]

(* What a record holds, how far the call of a hand-over is, and what an    *)
(* agent may have seen.                                                    *)
HandoffTypes ==
    /\ given \in 0..MaxGives
    /\ record \in Records(given)
    /\ gone \subseteq 1..given /\ shown \subseteq 1..given
    /\ stage \in [H!Gives -> HandoffStages] /\ copy \in [H!Gives -> Records(given)]
    /\ \A h \in H!Gives : h > given => stage[h] = "none"
    /\ \A h \in H!Gives : copy[h] # H!None <=> stage[h] = "write"
    /\ \A h \in shown : stage[h] \in {"note", "write", "link", "over"}
    /\ turn \in [Agents -> [in : BOOLEAN, seen : 0..given]]

(* What a thread that notes its notification read is in the record, or is  *)
(* excepted, with what is in the record then.                              *)
CopiesOK ==
    \A h \in H!Gives : copy[h].id \notin {0, record.id} =>
        copy[h].id \in early /\ (record.id # 0 => record.id \in early)

(* The same of the hand-over it is for, until it returns.                  *)
CallsOK ==
    \A h \in H!Busy : record.id # h => h \in early /\ (record.id # 0 => record.id \in early)

(* The record names the notification of its hand-over, if that is on the   *)
(* screen, unless the call of the hand-over is still to note it.           *)
OwnNotes ==
    /\ record.id \in shown \ early => record.note = record.id \/ record.id \in H!Busy
    /\ \A h \in H!Gives : copy[h] # H!None => copy[h].note = h

(* An agent that is in saw no hand-over, the present one not either.       *)
KeepsOut ==
    \A a \in Agents : turn[a].in /\ record.id # 0 /\ turn[a].seen >= record.id => record.id \in early

HandoffInv == HandoffTypes /\ CopiesOK /\ CallsOK /\ OwnNotes /\ KeepsOut /\ H!HandoffAccounted
-----------------------------------------------------------------------------
(* The hand-over of a record, and a record with a notification noted.      *)
LEMMA RecordParts ==
  ASSUME NEW n \in Nat, NEW r \in Records(n)
  PROVE  /\ r.id \in 0..n /\ (r.id = 0 <=> r = H!None)
         /\ \A h : r # H!None => [r EXCEPT !.note = h].id = r.id /\ [r EXCEPT !.note = h].note = h
         /\ \A h \in 1..MaxGives : r # H!None => [r EXCEPT !.note = h] \in Records(n)
                                                 /\ [r EXCEPT !.note = h] # H!None
         /\ r \in Records(n + 1)
  BY DEF Records, H!None

(* Every step keeps the types.                                            *)
LEMMA HandoffTypesStay ==
  ASSUME MaxGives \in Nat, HandoffTypes, [H!Next]_H!vars
  PROVE  HandoffTypes'
  <1> USE DEF HandoffTypes
  <1>0. given \in Nat /\ 1..given \subseteq H!Gives /\ H!None \in Records(given)
    BY DEF H!Gives, Records
  <1>1. ASSUME NEW by \in {"agent", "user"}, H!Give(by)
        PROVE  HandoffTypes'
    <2>1. /\ given' = given + 1 /\ given' \in 0..MaxGives /\ given' \in H!Gives /\ given' \in 1..given'
          /\ record' = [id |-> given', note |-> 0]
          /\ UNCHANGED <<gone, shown, copy, turn>>
      BY <1>1, <1>0 DEF H!Give, H!Gives
    <2>2. stage' = [stage EXCEPT ![given'] = IF by = "agent" THEN "show" ELSE "take"]
      BY <1>1 DEF H!Give
    <2>3. record' \in Records(given')
      BY <2>1 DEF Records
    <2>4. copy' \in [H!Gives -> Records(given')]
      BY <2>1, <1>0 DEF Records
    <2>5. /\ stage' \in [H!Gives -> HandoffStages] /\ stage[given'] = "none" /\ stage'[given'] # "write"
          /\ \A h \in H!Gives : h # given' => stage'[h] = stage[h]
      BY <2>1, <2>2, <1>0 DEF HandoffStages, H!Gives
    <2>6. gone' \subseteq 1..given' /\ shown' \subseteq 1..given' /\ given' \notin shown
      BY <2>1, <1>0
    <2>7. copy[given'] = H!None
      BY <2>1, <2>5
    <2>8. \A h \in H!Gives : h > given' => stage'[h] = "none"
      BY <2>1, <2>5, <1>0 DEF H!Gives
    <2>9. \A h \in H!Gives : copy'[h] # H!None <=> stage'[h] = "write"
      BY <2>1, <2>5, <2>7
    <2>10. \A h \in shown' : stage'[h] \in {"note", "write", "link", "over"}
      BY <2>1, <2>5, <2>6, <1>0
    <2>11. turn' \in [Agents -> [in : BOOLEAN, seen : 0..given']]
      BY <2>1, <1>0
    <2> QED
      BY <2>1, <2>3, <2>4, <2>5, <2>6, <2>8, <2>9, <2>10, <2>11
  <1>2. ASSUME NEW h \in H!Gives, H!Show(h) \/ H!CreateLink(h)
        PROVE  HandoffTypes'
    <2>1. /\ UNCHANGED <<given, record, gone, shown, copy, turn>>
          /\ stage[h] \in {"show", "take", "link"} /\ \E v \in {"notify", "over"} : stage' = [stage EXCEPT ![h] = v]
          /\ stage[h] = "link" => stage' = [stage EXCEPT ![h] = "over"]
      BY <1>2 DEF H!Show, H!CreateLink
    <2> QED
      BY <2>1, <1>0 DEF HandoffStages, H!Gives
  <1>3. ASSUME NEW h \in H!Gives, H!Notify(h)
        PROVE  HandoffTypes'
    <2>1. /\ UNCHANGED <<given, record, gone, copy, turn>>
          /\ stage[h] = "notify" /\ \E v \in {"note", "link"} : stage' = [stage EXCEPT ![h] = v]
          /\ shown' \subseteq shown \cup {h}
      BY <1>3 DEF H!Notify
    <2>2. h \in 1..given
      BY <2>1, <1>0 DEF H!Gives
    <2> QED
      BY <2>1, <2>2, <1>0 DEF HandoffStages, H!Gives
  <1>4. ASSUME NEW h \in H!Gives, H!NoteRead(h)
        PROVE  HandoffTypes'
    <2>1. /\ UNCHANGED <<given, record, gone, shown, turn>>
          /\ stage[h] = "note" /\ stage' = [stage EXCEPT ![h] = IF H!UserHasIt THEN "write" ELSE "link"]
      BY <1>4 DEF H!NoteRead
    <2>2. copy' = [copy EXCEPT ![h] = IF H!UserHasIt THEN [record EXCEPT !.note = h] ELSE H!None]
      BY <1>4 DEF H!NoteRead
    <2>3. H!UserHasIt => [record EXCEPT !.note = h] \in Records(given) \ {H!None}
      BY RecordParts, <1>0 DEF H!UserHasIt, H!Gives
    <2>4. copy' \in [H!Gives -> Records(given)]
      BY <2>2, <2>3, <1>0
    <2>5. /\ stage' \in [H!Gives -> HandoffStages] /\ stage'[h] \in {"write", "link"}
          /\ \A g \in H!Gives : g # h => stage'[g] = stage[g] /\ copy'[g] = copy[g]
          /\ copy'[h] # H!None <=> stage'[h] = "write"
      BY <2>1, <2>2, <2>3 DEF HandoffStages
    <2> QED
      BY <2>1, <2>4, <2>5, <1>0
  <1>5. ASSUME NEW h \in H!Gives, H!NoteWrite(h)
        PROVE  HandoffTypes'
    <2>1. /\ UNCHANGED <<given, gone, shown, turn>> /\ record' = copy[h]
          /\ stage[h] = "write" /\ stage' = [stage EXCEPT ![h] = "link"] /\ copy' = [copy EXCEPT ![h] = H!None]
      BY <1>5 DEF H!NoteWrite
    <2> QED
      BY <2>1, <1>0 DEF HandoffStages, H!Gives
  <1>6. ASSUME NEW b, H!BackBegins(b)
        PROVE  HandoffTypes'
    BY <1>6 DEF H!BackBegins, H!browservars, H!giving, H!history
  <1>7. CASE H!BackReads \/ H!LinkExpires \/ H!WindowAppears \/ H!BrowserEnds \/ \E a \in Agents : H!Act(a)
    BY <1>7 DEF H!BackReads, H!LinkExpires, H!WindowAppears, H!BrowserEnds, H!Act, H!browservars, H!giving,
       H!history
  <1>8. ASSUME NEW got, H!Removed(got), shown' \subseteq shown, UNCHANGED <<given, stage, copy, turn>>
        PROVE  HandoffTypes'
    <2>1. record' = H!None /\ gone' \subseteq gone \cup ({record.id} \ {0})
      BY <1>8 DEF H!Removed
    <2>2. gone' \subseteq 1..given
      BY <2>1, <1>0, RecordParts
    <2> QED
      BY <1>8, <2>1, <2>2, <1>0
  <1>9. CASE H!BackUnlinks \/ H!Stop \/ \E a \in Agents : H!Launch(a)
    BY <1>9, <1>8 DEF H!BackUnlinks, H!Stop, H!Launch, H!giving
  <1>10. ASSUME NEW a \in Agents, H!Check(a) \/ H!Hide(a) \/ H!Done(a)
         PROVE  HandoffTypes'
    <2>1. /\ UNCHANGED <<given, record, gone, shown, stage, copy>>
          /\ turn' = [turn EXCEPT ![a] = [in |-> TRUE, seen |-> given]] \/ turn' = [turn EXCEPT ![a] = H!Out]
      BY <1>10 DEF H!Check, H!Hide, H!Done, H!giving, H!browservars
    <2>2. /\ H!Out \in [in : BOOLEAN, seen : 0..given]
          /\ [in |-> TRUE, seen |-> given] \in [in : BOOLEAN, seen : 0..given]
      BY <1>0 DEF H!Out
    <2>3. turn' \in [Agents -> [in : BOOLEAN, seen : 0..given]]
      BY <2>1, <2>2
    <2> QED
      BY <2>1, <2>3
  <1>11. CASE H!DaemonRestarts
    <2>1. /\ UNCHANGED <<given, record, gone>> /\ shown' = {}
          /\ turn' = [a \in Agents |-> H!Out] /\ copy' = [h \in H!Gives |-> H!None]
          /\ stage' = [h \in H!Gives |-> IF stage[h] \in {"none", "take"} THEN stage[h] ELSE "over"]
      BY <1>11 DEF H!DaemonRestarts
    <2> QED
      BY <2>1, <1>0 DEF HandoffStages, H!Out
  <1>12. CASE UNCHANGED H!vars
    BY <1>12 DEF H!vars, H!browservars, H!giving, H!history
  <1> QED
    BY <1>1, <1>2, <1>3, <1>4, <1>5, <1>6, <1>7, <1>9, <1>10, <1>11, <1>12 DEF H!Next

(* Every step keeps the property and what it rests on.                     *)
LEMMA HandoffStays ==
  ASSUME MaxGives \in Nat, HandoffInv, [H!Next]_H!vars
  PROVE  /\ CopiesOK' /\ CallsOK' /\ OwnNotes' /\ KeepsOut'
         /\ H!BackIsBack' /\ H!AgentKeepsOut' /\ H!NotificationEnds'
  <1> DEFINE Rest == /\ CopiesOK' /\ CallsOK' /\ OwnNotes' /\ KeepsOut'
                     /\ H!BackIsBack' /\ H!AgentKeepsOut' /\ H!NotificationEnds'
  <1>0. /\ given \in Nat /\ 1..given \subseteq H!Gives /\ H!None \in Records(given) /\ 0 \notin gone
        /\ record.id \in 0..given /\ \A h \in H!Gives : copy[h].id \in 0..given
        /\ \A h \in H!Gives : copy[h] # H!None => h \in H!Busy /\ copy[h].id # 0
        /\ H!Busy \subseteq 1..given
        /\ H!None.id = 0 /\ H!None.note = 0
    <2>1. given \in Nat /\ 1..given \subseteq H!Gives /\ H!None \in Records(given) /\ H!None.id = 0 /\ H!None.note = 0
          /\ 0 \notin gone
      BY DEF HandoffInv, HandoffTypes, H!Gives, Records, H!None
    <2>2. /\ record.id \in 0..given
          /\ \A h \in H!Gives : copy[h].id \in 0..given /\ (copy[h].id = 0 <=> copy[h] = H!None)
      BY <2>1, RecordParts DEF HandoffInv, HandoffTypes
    <2>3. \A h \in H!Gives : copy[h] # H!None => h \in H!Busy
      BY DEF HandoffInv, HandoffTypes, H!Busy
    <2>4. H!Busy \subseteq 1..given
      BY <2>1 DEF HandoffInv, HandoffTypes, H!Busy, H!Gives
    <2> QED
      BY <2>1, <2>2, <2>3, <2>4
  <1> USE DEF CopiesOK, CallsOK, OwnNotes, KeepsOut, H!BackIsBack, H!AgentKeepsOut, H!NotificationEnds
  <1>1. ASSUME NEW by \in {"agent", "user"}, H!Give(by)
        PROVE  Rest
    <2> DEFINE g == given + 1
    <2>1. /\ given' = g /\ g \in H!Gives /\ record'.id = g /\ record' = [id |-> g, note |-> 0]
          /\ UNCHANGED <<gone, shown, copy, turn, clashed>>
          /\ g \notin gone /\ g \notin shown /\ g # 0
          /\ \A a \in Agents : turn[a].seen < g
      BY <1>1, <1>0 DEF H!Give, H!Gives, HandoffInv, HandoffTypes
    <2>2. /\ H!Busy' \subseteq H!Busy \cup {g}
          /\ H!Busy # {} => early' = early \cup H!Ending \cup {g}
          /\ early \subseteq early'
      BY <1>1, <2>1 DEF H!Give, H!Busy, HandoffInv, HandoffTypes
    <2>3. \A h \in H!Gives : copy[h].id # 0 => h \in H!Busy /\ copy[h].id \in H!Ending
      BY <1>0 DEF H!Ending
    <2>4. CopiesOK'
      BY <2>1, <2>2, <2>3
    <2>5. CallsOK'
      BY <2>1, <2>2 DEF H!Ending
    <2>6. OwnNotes'
      BY <2>1 DEF HandoffInv
    <2>7. KeepsOut'
      BY <2>1, <1>0 DEF HandoffInv, HandoffTypes
    <2> QED
      BY <2>1, <2>2, <2>4, <2>5, <2>6, <2>7 DEF HandoffInv, H!HandoffAccounted
  <1>2. ASSUME NEW h \in H!Gives, H!Show(h) \/ H!CreateLink(h)
        PROVE  Rest
    <2>1. /\ UNCHANGED <<given, record, gone, shown, copy, turn, early, clashed>>
          /\ stage[h] \in {"show", "take", "link"} /\ \E v \in {"notify", "over"} : stage' = [stage EXCEPT ![h] = v]
          /\ stage[h] = "show" => stage' = [stage EXCEPT ![h] = "notify"]
          /\ stage[h] # "show" => stage' = [stage EXCEPT ![h] = "over"]
      BY <1>2 DEF H!Show, H!CreateLink, H!history
    <2>2. H!Busy' = H!Busy
      BY <2>1 DEF H!Busy, HandoffInv, HandoffTypes
    <2> QED
      BY <2>1, <2>2 DEF HandoffInv, H!HandoffAccounted
  <1>3. ASSUME NEW h \in H!Gives, H!Notify(h)
        PROVE  Rest
    <2>1. /\ UNCHANGED <<given, record, gone, copy, turn, early, clashed>>
          /\ stage[h] = "notify" /\ h \in H!Busy
          /\ \/ shown' = shown \cup {h} /\ stage' = [stage EXCEPT ![h] = "note"]
             \/ shown' = shown /\ stage' = [stage EXCEPT ![h] = "link"]
      BY <1>3 DEF H!Notify, H!history, H!Busy
    <2>2. \/ H!Busy' = H!Busy /\ shown' = shown \cup {h}
          \/ H!Busy' = H!Busy \ {h} /\ shown' = shown /\ h \notin shown
      BY <2>1 DEF H!Busy, HandoffInv, HandoffTypes
    <2>3. h \in gone => h \in early
      BY <2>1 DEF HandoffInv, H!HandoffAccounted
    <2> QED
      BY <2>1, <2>2, <2>3 DEF HandoffInv, H!HandoffAccounted
  <1>4. ASSUME NEW h \in H!Gives, H!NoteRead(h)
        PROVE  Rest
    <2>1. /\ UNCHANGED <<given, record, gone, shown, turn, early, clashed>>
          /\ stage[h] = "note" /\ stage' = [stage EXCEPT ![h] = IF H!UserHasIt THEN "write" ELSE "link"]
          /\ copy' = [copy EXCEPT ![h] = IF H!UserHasIt THEN [record EXCEPT !.note = h] ELSE H!None]
      BY <1>4 DEF H!NoteRead, H!history
    <2>2. /\ H!UserHasIt => copy'[h].id = record.id /\ copy'[h].note = h /\ record.id # 0
          /\ ~H!UserHasIt => copy'[h] = H!None /\ record.id = 0
          /\ \A g \in H!Gives : g # h => copy'[g] = copy[g]
      BY <2>1, RecordParts, <1>0 DEF H!UserHasIt, HandoffInv, HandoffTypes
    <2>3. H!Busy' \subseteq H!Busy /\ (H!UserHasIt => H!Busy' = H!Busy)
      BY <2>1 DEF H!Busy, HandoffInv, HandoffTypes
    <2>4. CopiesOK' /\ OwnNotes'
      BY <2>1, <2>2, <2>3, <1>0 DEF HandoffInv, HandoffTypes
    <2> QED
      BY <2>1, <2>3, <2>4 DEF HandoffInv, H!HandoffAccounted
  <1>5. ASSUME NEW h \in H!Gives, H!NoteWrite(h)
        PROVE  Rest
    <2>1. /\ UNCHANGED <<given, gone, shown, turn, early, clashed>> /\ record' = copy[h]
          /\ stage[h] = "write" /\ stage' = [stage EXCEPT ![h] = "link"] /\ copy' = [copy EXCEPT ![h] = H!None]
      BY <1>5 DEF H!NoteWrite, H!history
    <2>2. h \in H!Busy /\ H!Busy' = H!Busy \ {h}
      BY <2>1 DEF H!Busy, HandoffInv, HandoffTypes
    <2>3. /\ copy[h].id # 0
          /\ record.id # copy[h].id => copy[h].id \in early
          /\ \A g \in H!Gives : copy[g].id \notin {0, copy[h].id}
                                => copy[g].id \in early /\ copy[h].id \in early
      BY <2>1, <1>0 DEF HandoffInv, HandoffTypes
    <2>4. CopiesOK'
      BY <2>1, <2>3, <1>0 DEF HandoffInv, HandoffTypes
    <2>5. CallsOK'
      BY <2>1, <2>2, <2>3, <1>0 DEF HandoffInv
    <2>6. OwnNotes'
      BY <2>1, <2>2, <2>3, <1>0 DEF HandoffInv, HandoffTypes
    <2>7. KeepsOut' /\ H!BackIsBack'
      BY <2>1, <2>3 DEF HandoffInv, H!HandoffAccounted
    <2> QED
      BY <2>1, <2>4, <2>5, <2>6, <2>7 DEF HandoffInv, H!HandoffAccounted
  <1>6. ASSUME NEW b, H!BackBegins(b)
        PROVE  Rest
    <2>1. UNCHANGED <<given, record, gone, stage, copy, turn, early, clashed>> /\ shown' \subseteq shown
      BY <1>6 DEF H!BackBegins, H!giving, H!history
    <2>2. H!Busy' = H!Busy
      BY <2>1 DEF H!Busy
    <2> QED
      BY <2>1, <2>2 DEF HandoffInv, H!HandoffAccounted
  <1>7. CASE H!BackReads \/ H!LinkExpires \/ H!WindowAppears \/ H!BrowserEnds \/ UNCHANGED H!vars
    <2>1. UNCHANGED <<given, record, gone, stage, copy, turn, early, clashed, shown>>
      BY <1>7 DEF H!BackReads, H!LinkExpires, H!WindowAppears, H!BrowserEnds, H!vars, H!giving, H!history
    <2>2. H!Busy' = H!Busy
      BY <2>1 DEF H!Busy
    <2> QED
      BY <2>1, <2>2 DEF HandoffInv, H!HandoffAccounted
  <1>8. ASSUME NEW got, H!Removed(got), shown' = shown \ {got.note}, UNCHANGED <<given, stage, copy, turn, clashed>>
        PROVE  Rest
    <2>1. /\ record' = H!None /\ record'.id = 0 /\ gone' = gone \cup ({record.id} \ {0})
          /\ early' = early \cup H!Ending \/ early' = early \cup H!Ending \cup ({record.id} \ {0})
          /\ record # got => early' = early \cup H!Ending \cup ({record.id} \ {0})
      BY <1>8, <1>0 DEF H!Removed
    <2>2. /\ H!Busy' = H!Busy /\ H!Busy \subseteq H!Ending
          /\ \A h \in H!Gives : copy[h].id # 0 => copy[h].id \in H!Ending
      BY <1>8, <1>0 DEF H!Busy, H!Ending
    <2>3. CopiesOK' /\ CallsOK' /\ KeepsOut' /\ H!BackIsBack' /\ H!AgentKeepsOut'
      BY <1>8, <2>1, <2>2, <1>0 DEF HandoffInv, H!HandoffAccounted
    <2>4. OwnNotes'
      BY <1>8, <2>1, <1>0 DEF HandoffInv, HandoffTypes
    <2>5. H!NotificationEnds'
      <3> SUFFICES ASSUME NEW h \in shown', h \in gone', h \notin early'
                   PROVE  FALSE
        OBVIOUS
      <3>1. h = record.id /\ record = got
        BY <1>8, <2>1 DEF HandoffInv, H!HandoffAccounted
      <3>2. record.note = h
        BY <3>1, <1>8, <2>1, <2>2 DEF HandoffInv
      <3> QED
        BY <3>1, <3>2, <1>8
    <2> QED
      BY <2>3, <2>4, <2>5
  <1>9. CASE H!BackUnlinks \/ H!Stop \/ \E a \in Agents : H!Launch(a)
    BY <1>9, <1>8 DEF H!BackUnlinks, H!Stop, H!Launch, H!giving
  <1>10. ASSUME NEW a \in Agents, H!Check(a) \/ H!Done(a)
         PROVE  Rest
    <2>1. /\ UNCHANGED <<given, record, gone, shown, stage, copy, early, clashed>>
          /\ \/ record = H!None /\ turn' = [turn EXCEPT ![a] = [in |-> TRUE, seen |-> given]]
             \/ turn' = [turn EXCEPT ![a] = H!Out]
      BY <1>10 DEF H!Check, H!Done, H!giving, H!browservars, H!history, H!UserHasIt
    <2>2. H!Busy' = H!Busy
      BY <2>1 DEF H!Busy
    <2>3. KeepsOut'
      BY <2>1, <1>0 DEF HandoffInv, HandoffTypes, H!Out
    <2> QED
      BY <2>1, <2>2, <2>3 DEF HandoffInv, H!HandoffAccounted
  <1>11. ASSUME NEW a \in Agents, H!Act(a) \/ H!Hide(a)
         PROVE  Rest
    <2>1. /\ UNCHANGED <<given, record, gone, shown, stage, copy, early>>
          /\ turn[a].in /\ H!Clash(a)
          /\ turn' = turn \/ turn' = [turn EXCEPT ![a] = H!Out]
      BY <1>11 DEF H!Act, H!Hide, H!giving, H!browservars
    <2>2. H!Busy' = H!Busy
      BY <2>1 DEF H!Busy
    <2>3. clashed' \subseteq early
      BY <2>1 DEF HandoffInv, H!HandoffAccounted, H!Clash
    <2>4. KeepsOut'
      BY <2>1 DEF HandoffInv, HandoffTypes, H!Out
    <2> QED
      BY <2>1, <2>2, <2>3, <2>4 DEF HandoffInv, H!HandoffAccounted
  <1>12. CASE H!DaemonRestarts
    <2>1. /\ UNCHANGED <<given, record, gone, early, clashed>> /\ shown' = {}
          /\ turn' = [a \in Agents |-> H!Out] /\ copy' = [h \in H!Gives |-> H!None]
          /\ stage' = [h \in H!Gives |-> IF stage[h] \in {"none", "take"} THEN stage[h] ELSE "over"]
      BY <1>12 DEF H!DaemonRestarts, H!history
    <2>2. H!Busy' = {}
      BY <2>1 DEF H!Busy
    <2> QED
      BY <2>1, <2>2, <1>0 DEF HandoffInv, H!HandoffAccounted, H!Out
  <1> QED
    BY <1>1, <1>2, <1>3, <1>4, <1>5, <1>6, <1>7, <1>9, <1>10, <1>11, <1>12 DEF H!Next

(* At first nobody has it.                                                 *)
LEMMA HandoffStarts ==
  ASSUME MaxGives \in Nat, H!Init
  PROVE  HandoffInv
  BY DEF H!Init, HandoffInv, HandoffTypes, CopiesOK, CallsOK, OwnNotes, KeepsOut, H!HandoffAccounted,
         H!BackIsBack, H!AgentKeepsOut, H!NotificationEnds, H!Busy, H!None, H!Out, HandoffStages, Records, H!Gives
-----------------------------------------------------------------------------
(* The browser, its keepers, and the calls of agents.                      *)
KeeperStates == {"none", "forked", "bound", "up", "closing", "unlinked", "gone"}

(* What keepers and calls may be.                                          *)
BrowserTypes ==
    /\ keeper \in [B!Keepers -> KeeperStates] /\ alive \subseteq B!Keepers
    /\ tabs \in Nat /\ overlap \in BOOLEAN /\ blunder \in BOOLEAN
    /\ DOMAIN call = Calls /\ \A c \in Calls : call[c].what \in {"none", "close", "act"}

(* A keeper has the profile to itself.                                     *)
OneBrowser ==
    /\ \A j, k \in alive : j = k
    /\ \A k \in alive : keeper[k] \in {"up", "closing"}
    /\ alive # {} => tabs >= 1

(* Without an overlap one keeper is between its launch and its end, and    *)
(* the path and the record are its own from when it has written them.      *)
OneKeeper ==
    ~overlap =>
        /\ \A j, k \in B!Keepers : {keeper[j], keeper[k]} \subseteq {"forked", "bound", "up", "closing"} => j = k
        /\ \A k \in B!Keepers : keeper[k] \in {"bound", "up", "closing"} => sock = k
        /\ \A k \in B!Keepers : keeper[k] \in {"up", "closing"} => info = k

(* A call knows its browser, and unless it is crossed what it came for.    *)
Knows(c) ==
    call[c].what # "none" =>
        /\ call[c].of \in B!Keepers /\ keeper[call[c].of] \notin {"none", "forked", "bound"}
        /\ c \notin crossed =>
              /\ call[c].what = "act" => call[c].doc = doc
              /\ call[c].what = "close" /\ call[c].of \in alive => tabs >= 2
CallsKnow == \A c \in Calls : Knows(c)

BrowserInv == BrowserTypes /\ OneBrowser /\ OneKeeper /\ CallsKnow /\ ~blunder
-----------------------------------------------------------------------------
(* Every step keeps the types, and the profile with one keeper.            *)
LEMMA BrowserTypesStay ==
  ASSUME BrowserInv, [B!Next]_B!vars
  PROVE  BrowserTypes' /\ OneBrowser'
  <1> USE DEF BrowserInv, BrowserTypes, OneBrowser
  <1>1. CASE B!Connect \/ B!Launched \/ B!LaunchFails \/ B!StatusCleans
    <2>1. UNCHANGED <<keeper, alive, tabs, overlap, blunder, call>>
      BY <1>1 DEF B!Connect, B!Launched, B!LaunchFails, B!StatusCleans, B!procvars, B!pagevars, B!history
    <2> QED
      BY <2>1
  <1>2. CASE B!Launch
    <2>1. /\ UNCHANGED <<alive, tabs, blunder, call>> /\ overlap' \in BOOLEAN
          /\ \E k \in B!Keepers : keeper[k] = "none" /\ keeper' = [keeper EXCEPT ![k] = "forked"]
      BY <1>2 DEF B!Launch, B!pagevars
    <2> QED
      BY <2>1 DEF KeeperStates
  <1>3. CASE B!DaemonRestarts
    <2>1. UNCHANGED <<keeper, alive, tabs, overlap, blunder>> /\ call' = [c \in Calls |-> B!Free]
      BY <1>3 DEF B!DaemonRestarts, B!procvars, B!pagevars
    <2> QED
      BY <2>1 DEF B!Free
  <1>4. CASE B!Stop
    <2>1. /\ UNCHANGED <<alive, tabs, overlap, blunder, call>> /\ info \in B!Keepers
          /\ keeper' = [keeper EXCEPT ![info] = "closing"]
      BY <1>4 DEF B!Stop, B!Running, B!Live, B!pagevars, B!history
    <2> QED
      BY <2>1 DEF KeeperStates
  <1>5. ASSUME NEW k \in B!Keepers, B!Bind(k) \/ B!Unlink(k) \/ B!Ends(k)
        PROVE  BrowserTypes' /\ OneBrowser'
    <2>1. /\ UNCHANGED <<alive, tabs, overlap, blunder, call>> /\ k \notin alive
          /\ \E s \in {"bound", "unlinked", "gone"} : keeper' = [keeper EXCEPT ![k] = s]
      BY <1>5 DEF B!Bind, B!Unlink, B!Ends, B!pagevars, B!history
    <2> QED
      BY <2>1 DEF KeeperStates
  <1>6. ASSUME NEW k \in B!Keepers, B!StartBrowser(k)
        PROVE  BrowserTypes' /\ OneBrowser'
    <2>1. /\ keeper[k] = "bound" /\ keeper' = [keeper EXCEPT ![k] = "up"] /\ UNCHANGED <<overlap, blunder, call>>
          /\ \/ alive = {} /\ alive' = {k} /\ tabs' = 1
             \/ alive' = alive /\ tabs' = tabs
      BY <1>6 DEF B!StartBrowser, B!history
    <2> QED
      BY <2>1 DEF KeeperStates
  <1>7. ASSUME NEW k \in B!Keepers, B!Killed(k)
        PROVE  BrowserTypes' /\ OneBrowser'
    <2>1. /\ keeper' = [keeper EXCEPT ![k] = "gone"] /\ UNCHANGED <<overlap, blunder, call>>
          /\ alive' = alive \ {k} /\ tabs' = IF k \in alive THEN 0 ELSE tabs
      BY <1>7 DEF B!Killed, B!history
    <2> QED
      BY <2>1 DEF KeeperStates
  <1>8. ASSUME NEW k \in B!Keepers, B!BrowserEnds(k)
        PROVE  BrowserTypes' /\ OneBrowser'
    <2>1. UNCHANGED <<keeper, overlap, blunder, call>> /\ alive' = {} /\ tabs' = 0
      BY <1>8 DEF B!BrowserEnds, B!history
    <2> QED
      BY <2>1
  <1>9. ASSUME NEW c \in Calls, B!Open(c) \/ B!Read(c)
        PROVE  BrowserTypes' /\ OneBrowser'
    <2>1. UNCHANGED <<keeper, alive, overlap, blunder, call>> /\ tabs' \in {tabs, tabs + 1}
      BY <1>9 DEF B!Open, B!Read, B!procvars, B!history
    <2> QED
      BY <2>1
  <1>10. ASSUME NEW c \in Calls, B!CloseBegins(c) \/ B!Node(c)
         PROVE  BrowserTypes' /\ OneBrowser'
    <2>1. /\ UNCHANGED <<keeper, alive, overlap, blunder>> /\ tabs' \in {tabs, 2}
          /\ conn \in alive
          /\ \E w \in {"close", "act"}, d \in {0, doc} :
                call' = [call EXCEPT ![c] = [what |-> w, doc |-> d, of |-> conn]]
      BY <1>10 DEF B!CloseBegins, B!Node, B!Begin, B!Connected, B!procvars, B!history, B!pagevars
    <2> QED
      BY <2>1 DEF B!Keepers
  <1>11. ASSUME NEW c \in Calls, B!CloseEnds(c) \/ B!Act(c)
         PROVE  BrowserTypes' /\ OneBrowser'
    <2>1. /\ UNCHANGED <<keeper, overlap>> /\ blunder' \in BOOLEAN /\ call' = [call EXCEPT ![c] = B!Free]
          /\ \/ UNCHANGED <<alive, tabs>>
             \/ alive # {} /\ B!TabCloses
      BY <1>11 DEF B!CloseEnds, B!Act, B!Over, B!Still, B!Connected, B!procvars, B!pagevars
    <2>2. B!TabCloses /\ alive # {} => tabs' \in Nat /\ alive' \subseteq alive /\ (alive' # {} => tabs' >= 1)
      BY DEF B!TabCloses
    <2> QED
      BY <2>1, <2>2 DEF B!Free
  <1>12. CASE B!PageChanges
    <2>1. /\ UNCHANGED <<keeper, overlap, blunder, call>> /\ alive # {}
          /\ UNCHANGED <<alive, tabs>> \/ B!TabCloses
      BY <1>12 DEF B!PageChanges
    <2>2. B!TabCloses /\ alive # {} => tabs' \in Nat /\ alive' \subseteq alive /\ (alive' # {} => tabs' >= 1)
      BY DEF B!TabCloses
    <2> QED
      BY <2>1, <2>2
  <1>13. CASE UNCHANGED B!vars
    BY <1>13 DEF B!vars, B!procvars, B!pagevars, B!history
  <1> QED
    BY <1>1, <1>2, <1>3, <1>4, <1>5, <1>6, <1>7, <1>8, <1>9, <1>10, <1>11, <1>12, <1>13, Zenon DEF B!Next

(* A keeper that is launched alone stays alone until it has let go.        *)
LEMMA OneKeeperStays ==
  ASSUME BrowserInv, [B!Next]_B!vars
  PROVE  OneKeeper'
  <1> USE DEF BrowserInv, OneKeeper
  <1>0. keeper \in [B!Keepers -> KeeperStates] /\ 0 \notin B!Keepers
    BY DEF BrowserTypes, B!Keepers
  <1>1. CASE UNCHANGED <<keeper, info, sock, overlap>>
    BY <1>1
  <1>2. CASE B!Launch
    <2>1. PICK k \in B!Keepers : keeper[k] = "none" /\ keeper' = [keeper EXCEPT ![k] = "forked"]
      BY <1>2 DEF B!Launch
    <2>2. /\ UNCHANGED sock
          /\ overlap' = (overlap \/ \E j \in B!Live : keeper[j] # "unlinked")
      BY <1>2 DEF B!Launch
    <2>3. ~overlap' => \A j \in B!Keepers : keeper[j] \in {"none", "gone", "unlinked"}
      BY <2>2 DEF B!Live
    <2> QED
      BY <2>1, <2>2, <2>3, <1>0
  <1>3. CASE B!LaunchFails \/ B!StatusCleans
    <2>1. UNCHANGED <<keeper, sock, overlap>> /\ info' = IF info \in B!Live /\ sock = 0 THEN 0 ELSE info
      BY <1>3 DEF B!LaunchFails, B!StatusCleans, B!Cleaned, B!history
    <2> QED
      BY <2>1, <1>0
  <1>4. CASE B!Stop
    <2>1. /\ UNCHANGED <<info, sock, overlap>> /\ info \in B!Keepers
          /\ keeper[info] = "up" /\ keeper' = [keeper EXCEPT ![info] = "closing"]
      BY <1>4 DEF B!Stop, B!Running, B!Live, B!history
    <2> QED
      BY <2>1, <1>0
  <1>5. ASSUME NEW k \in B!Keepers, B!Bind(k)
        PROVE  OneKeeper'
    <2>1. /\ UNCHANGED <<info, overlap>> /\ sock' = k
          /\ keeper[k] = "forked" /\ keeper' = [keeper EXCEPT ![k] = "bound"]
      BY <1>5 DEF B!Bind, B!history
    <2> QED
      BY <2>1, <1>0
  <1>6. ASSUME NEW k \in B!Keepers, B!StartBrowser(k)
        PROVE  OneKeeper'
    <2>1. /\ UNCHANGED <<sock, overlap>> /\ info' = k
          /\ keeper[k] = "bound" /\ keeper' = [keeper EXCEPT ![k] = "up"]
      BY <1>6 DEF B!StartBrowser, B!history
    <2> QED
      BY <2>1, <1>0
  <1>7. ASSUME NEW k \in B!Keepers, B!Unlink(k)
        PROVE  OneKeeper'
    <2>1. /\ UNCHANGED <<info, overlap>>
          /\ keeper[k] \in {"up", "closing"} /\ keeper' = [keeper EXCEPT ![k] = "unlinked"]
      BY <1>7 DEF B!Unlink, B!history
    <2> QED
      BY <2>1, <1>0
  <1>8. ASSUME NEW k \in B!Keepers, B!Ends(k) \/ B!Killed(k)
        PROVE  OneKeeper'
    <2>1. /\ UNCHANGED <<sock, overlap>> /\ keeper' = [keeper EXCEPT ![k] = "gone"]
          /\ info' = info \/ (keeper[k] = "unlinked" /\ info = k)
      BY <1>8 DEF B!Ends, B!Killed, B!history
    <2> QED
      BY <2>1, <1>0
  <1>9. CASE B!Connect \/ B!Launched \/ B!DaemonRestarts \/ B!PageChanges \/ UNCHANGED B!vars
    <2>1. UNCHANGED <<keeper, info, sock, overlap>>
      BY <1>9 DEF B!Connect, B!Launched, B!DaemonRestarts, B!PageChanges, B!vars, B!procvars, B!history
    <2> QED
      BY <2>1, <1>1
  <1>10. ASSUME NEW k \in B!Keepers, B!BrowserEnds(k)
         PROVE  OneKeeper'
    BY <1>1, <1>10 DEF B!BrowserEnds, B!history
  <1>11. ASSUME NEW c \in Calls, \/ B!Open(c) \/ B!Read(c) \/ B!CloseBegins(c) \/ B!CloseEnds(c)
                                 \/ B!Node(c) \/ B!Act(c)
         PROVE  OneKeeper'
    <2>1. UNCHANGED <<keeper, info, sock, overlap>>
      BY <1>11 DEF B!Open, B!Read, B!CloseBegins, B!CloseEnds, B!Node, B!Act, B!procvars, B!history
    <2> QED
      BY <2>1, <1>1
  <1> QED
    BY <1>2, <1>3, <1>4, <1>5, <1>6, <1>7, <1>8, <1>9, <1>10, <1>11, Zenon DEF B!Next

(* The calls of the others are crossed by what closes a tab or changes the *)
(* page, and a browser that starts is nobody's yet.                        *)
LEMMA CallsKnowStay ==
  ASSUME BrowserInv, [B!Next]_B!vars
  PROVE  CallsKnow' /\ ~blunder'
  <1> USE DEF BrowserInv, CallsKnow, Knows
  <1>0. /\ keeper \in [B!Keepers -> KeeperStates] /\ alive \subseteq B!Keepers /\ DOMAIN call = Calls
        /\ tabs \in Nat /\ blunder \in BOOLEAN
    BY DEF BrowserTypes
  <1>1. ASSUME UNCHANGED <<keeper, doc, tabs, call, blunder>>, crossed \subseteq crossed', alive' \subseteq alive
        PROVE  CallsKnow' /\ ~blunder'
    BY <1>1
  <1>2. CASE B!Connect \/ B!Launched \/ B!LaunchFails \/ B!StatusCleans \/ UNCHANGED B!vars
    <2>1. UNCHANGED <<keeper, doc, tabs, call, blunder, crossed, alive>>
      BY <1>2 DEF B!Connect, B!Launched, B!LaunchFails, B!StatusCleans, B!procvars, B!pagevars, B!history, B!vars
    <2> QED
      BY <2>1, <1>1
  <1>3. ASSUME NEW k \in B!Keepers, NEW s, keeper' = [keeper EXCEPT ![k] = s], s \in KeeperStates,
               \/ s \notin {"none", "forked", "bound"}
               \/ keeper[k] \in {"none", "forked", "bound"},
               alive' \subseteq alive \/ (keeper[k] = "bound" /\ alive' = {k}),
               tabs' = tabs \/ alive' = {} \/ (keeper[k] = "bound" /\ alive' = {k}),
               UNCHANGED <<doc, call, blunder, crossed>>
        PROVE  CallsKnow' /\ ~blunder'
    <2> SUFFICES ASSUME NEW c \in Calls, call[c].what # "none"
                 PROVE  /\ call[c].of \in B!Keepers /\ keeper'[call[c].of] \notin {"none", "forked", "bound"}
                        /\ c \notin crossed => /\ call[c].what = "act" => call[c].doc = doc
                                               /\ call[c].what = "close" /\ call[c].of \in alive' => tabs' >= 2
      BY <1>3
    <2>1. call[c].of \in B!Keepers /\ keeper[call[c].of] \notin {"none", "forked", "bound"}
      OBVIOUS
    <2>2. keeper'[call[c].of] \notin {"none", "forked", "bound"}
      BY <1>3, <2>1, <1>0
    <2>3. call[c].of \in alive' => alive' \subseteq alive /\ tabs' = tabs
      BY <1>3, <2>1
    <2> QED
      BY <2>1, <2>2, <2>3
  <1>4. CASE B!Launch
    <2>1. PICK k \in B!Keepers : keeper[k] = "none" /\ keeper' = [keeper EXCEPT ![k] = "forked"]
      BY <1>4 DEF B!Launch
    <2>2. UNCHANGED <<alive, tabs, doc, call, blunder, crossed>>
      BY <1>4 DEF B!Launch, B!pagevars
    <2> QED
      BY <2>1, <2>2, <1>3 DEF KeeperStates
  <1>5. CASE B!DaemonRestarts
    <2>1. UNCHANGED blunder /\ call' = [c \in Calls |-> B!Free]
      BY <1>5 DEF B!DaemonRestarts
    <2> QED
      BY <2>1 DEF B!Free
  <1>6. CASE B!Stop
    <2>1. /\ UNCHANGED <<alive, tabs, doc, call, blunder, crossed>> /\ info \in B!Keepers
          /\ keeper' = [keeper EXCEPT ![info] = "closing"]
      BY <1>6 DEF B!Stop, B!Running, B!Live, B!pagevars, B!history
    <2> QED
      BY <2>1, <1>3 DEF KeeperStates
  <1>7. ASSUME NEW k \in B!Keepers, B!Bind(k) \/ B!Unlink(k) \/ B!Ends(k)
        PROVE  CallsKnow' /\ ~blunder'
    <2>1. /\ UNCHANGED <<alive, tabs, doc, call, blunder, crossed>>
          /\ \/ keeper[k] = "forked" /\ keeper' = [keeper EXCEPT ![k] = "bound"]
             \/ keeper' = [keeper EXCEPT ![k] = "unlinked"] \/ keeper' = [keeper EXCEPT ![k] = "gone"]
      BY <1>7 DEF B!Bind, B!Unlink, B!Ends, B!pagevars, B!history
    <2>2. {"bound", "unlinked", "gone"} \subseteq KeeperStates
      BY DEF KeeperStates
    <2> HIDE DEF BrowserInv, CallsKnow, Knows
    <2> QED
      BY <2>1, <2>2, <1>3
  <1>8. ASSUME NEW k \in B!Keepers, B!StartBrowser(k)
        PROVE  CallsKnow' /\ ~blunder'
    <2>1. /\ keeper[k] = "bound" /\ keeper' = [keeper EXCEPT ![k] = "up"] /\ UNCHANGED <<doc, call, blunder, crossed>>
          /\ alive' = {k} \/ (alive' = alive /\ tabs' = tabs)
      BY <1>8 DEF B!StartBrowser, B!history
    <2> QED
      BY <2>1, <1>3 DEF KeeperStates
  <1>9. ASSUME NEW k \in B!Keepers, B!Killed(k)
        PROVE  CallsKnow' /\ ~blunder'
    <2>1. /\ keeper' = [keeper EXCEPT ![k] = "gone"] /\ UNCHANGED <<doc, call, blunder, crossed>>
          /\ alive' = alive \ {k} /\ tabs' = IF k \in alive THEN 0 ELSE tabs
      BY <1>9 DEF B!Killed, B!history
    <2>2. k \in alive => alive' = {}
      BY <2>1 DEF OneBrowser
    <2> QED
      BY <2>1, <2>2, <1>3 DEF KeeperStates
  <1>10. ASSUME NEW k \in B!Keepers, B!BrowserEnds(k)
         PROVE  CallsKnow' /\ ~blunder'
    <2>1. UNCHANGED <<keeper, doc, call, blunder, crossed>> /\ alive' = {}
      BY <1>10 DEF B!BrowserEnds, B!history
    <2> QED
      BY <2>1
  <1>11. ASSUME UNCHANGED keeper, alive' \subseteq alive, NEW d \in Calls,
                \/ call'[d].what = "none"
                \/ call'[d] = call[d] /\ d \in crossed'
                \/ call'[d] = call[d] /\ d \notin crossed /\ doc' = doc /\ (tabs >= 2 => tabs' >= 2)
         PROVE  Knows(d)'
    BY <1>11
  <1>12. ASSUME NEW c \in Calls, B!Open(c) \/ B!Read(c)
         PROVE  CallsKnow' /\ ~blunder'
    <2>1. /\ UNCHANGED <<keeper, alive, call, blunder>> /\ call[c].what = "none"
          /\ \/ crossed' = crossed /\ doc' = doc /\ tabs' \in {tabs, tabs + 1}
             \/ crossed' = crossed \cup B!Others(c)
      BY <1>12 DEF B!Open, B!Read, B!procvars, B!history, B!Free
    <2>2. \A d \in Calls : call[d].what = "none" \/ d \in B!Others(c)
      BY <2>1 DEF B!Others
    <2> QED
      BY <2>1, <2>2, <1>11, <1>0
  <1>13. ASSUME NEW c \in Calls, B!CloseBegins(c) \/ B!Node(c)
         PROVE  CallsKnow' /\ ~blunder'
    <2>1. /\ UNCHANGED <<keeper, alive, blunder, crossed, doc>> /\ conn \in alive
          /\ \/ B!Begin(c, "close", 0) /\ tabs' = IF tabs = 1 THEN 2 ELSE tabs
             \/ B!Begin(c, "act", doc) /\ tabs' = tabs
      BY <1>13 DEF B!CloseBegins, B!Node, B!Begin, B!Connected, B!procvars, B!history, B!pagevars
    <2>2. \A d \in Calls \ {c} : call'[d] = call[d]
      BY <2>1, <1>0 DEF B!Begin
    <2>3. /\ call'[c].of = conn /\ call'[c].what \in {"close", "act"}
          /\ call'[c].what = "act" => call'[c].doc = doc
          /\ call'[c].what = "close" => tabs' = IF tabs = 1 THEN 2 ELSE tabs
      BY <2>1, <1>0 DEF B!Begin
    <2>4. conn \in B!Keepers /\ keeper[conn] \in {"up", "closing"} /\ tabs >= 1
      BY <2>1, <1>0 DEF OneBrowser
    <2>5. Knows(c)'
      BY <2>1, <2>3, <2>4, <1>0
    <2>6. \A d \in Calls \ {c} : Knows(d)'
      BY <2>1, <2>2, <1>11, <1>0
    <2> QED
      BY <2>1, <2>5, <2>6
  <1>14. ASSUME NEW c \in Calls, B!CloseEnds(c)
         PROVE  CallsKnow' /\ ~blunder'
    <2>1. /\ UNCHANGED <<keeper, doc>> /\ call' = [call EXCEPT ![c] = B!Free] /\ call[c].what = "close"
          /\ \/ crossed' = crossed \ {c} /\ UNCHANGED <<alive, tabs, blunder>>
             \/ /\ B!Still(c) /\ B!TabCloses /\ crossed' = (crossed \cup B!Others(c)) \ {c}
                /\ blunder' = (blunder \/ (tabs = 1 /\ c \notin crossed))
      BY <1>14 DEF B!CloseEnds, B!Over, B!pagevars
    <2>2. alive' \subseteq alive
      BY <2>1 DEF B!TabCloses
    <2>3. ~blunder'
      <3>1. B!Still(c) /\ c \notin crossed => tabs >= 2
        BY <2>1 DEF B!Still, B!Connected
      <3> QED
        BY <2>1, <3>1, <1>0
    <2>4. call'[c].what = "none" /\ \A d \in Calls \ {c} : call'[d] = call[d]
      BY <2>1, <1>0 DEF B!Free
    <2>5. \A d \in Calls \ {c} : call[d].what = "none" \/ d \in B!Others(c)
      BY DEF B!Others
    <2> QED
      BY <2>1, <2>2, <2>3, <2>4, <2>5, <1>11
  <1>15. ASSUME NEW c \in Calls, B!Act(c)
         PROVE  CallsKnow' /\ ~blunder'
    <2>1. /\ UNCHANGED <<keeper, alive, tabs>> /\ call' = [call EXCEPT ![c] = B!Free] /\ call[c].what = "act"
          /\ blunder' = (blunder \/ (B!Still(c) /\ call[c].doc # doc /\ c \notin crossed))
          /\ \/ crossed' = crossed \ {c} /\ UNCHANGED doc
             \/ crossed' = (crossed \cup B!Others(c)) \ {c}
      BY <1>15 DEF B!Act, B!Over, B!procvars
    <2>3. ~blunder'
      BY <2>1, <1>0
    <2>4. call'[c].what = "none" /\ \A d \in Calls \ {c} : call'[d] = call[d]
      BY <2>1, <1>0 DEF B!Free
    <2>5. \A d \in Calls \ {c} : call[d].what = "none" \/ d \in B!Others(c)
      BY DEF B!Others
    <2> QED
      BY <2>1, <2>3, <2>4, <2>5, <1>11
  <1>16. CASE B!PageChanges
    <2>1. /\ UNCHANGED <<keeper, call, blunder>> /\ alive' \subseteq alive
          /\ crossed' = crossed \cup {c \in Calls : call[c].what # "none"}
      BY <1>16 DEF B!PageChanges, B!TabCloses
    <2> QED
      BY <2>1, <1>11
  <1> QED
    BY <1>2, <1>4, <1>5, <1>6, <1>7, <1>8, <1>9, <1>10, <1>12, <1>13, <1>14, <1>15, <1>16, Zenon DEF B!Next

(* At first there is no keeper and no call.                                *)
LEMMA BrowserStarts ==
  ASSUME B!Init
  PROVE  BrowserInv
  BY DEF B!Init, BrowserInv, BrowserTypes, OneBrowser, OneKeeper, CallsKnow, Knows, KeeperStates, B!Free
-----------------------------------------------------------------------------
(* What the browser's own properties follow from.                          *)
LEMMA BrowserFound ==
  ASSUME BrowserInv
  PROVE  B!BrowserAccounted
  BY DEF BrowserInv, BrowserTypes, OneBrowser, OneKeeper, B!BrowserAccounted, B!BrowserIsFound,
     B!ConnectedToRecord,
         B!CallsKeepPage

(* A browser that runs is found where the record says; no agent's call     *)
(* closes the last tab or acts on another page than the one it read        *)
(* (manager.py, keeper.py); what the user gave back is not taken away      *)
(* again, no call that began before acts in a hand-over, and its           *)
(* notification goes with it (control.py, handoff.py).                     *)
THEOREM BrowserShared == PartsSpec => []BrowserAccounted
  <1> DEFINE Inv == BrowserInv /\ HandoffInv
  <1>0. MaxGives \in Nat
    BY PartsAssumption DEF H!HandoffAssumption
  <1>1. PartsInit => Inv
    BY <1>0, BrowserStarts, HandoffStarts DEF PartsInit
  <1>2. Inv /\ [PartsNext]_authvars => Inv'
    <2> SUFFICES ASSUME Inv, [PartsNext]_authvars
                 PROVE  Inv'
      OBVIOUS
    <2>1. [B!Next]_B!vars
      BY Zenon DEF PartsNext, authvars, bvars, B!vars, B!procvars, B!pagevars, B!history
    <2>2. [H!Next]_H!vars
      BY Zenon DEF PartsNext, authvars, hvars, H!vars, H!browservars, H!giving, H!history
    <2>3. BrowserInv'
      BY <2>1, BrowserTypesStay, OneKeeperStays, CallsKnowStay DEF BrowserInv
    <2>4. HandoffInv'
      BY <1>0, <2>2, HandoffTypesStay, HandoffStays DEF HandoffInv, H!HandoffAccounted
    <2> QED
      BY <2>3, <2>4
  <1>3. Inv => BrowserAccounted
    BY BrowserFound DEF BrowserAccounted, HandoffInv
  <1> QED
    BY <1>1, <1>2, <1>3, PTL DEF PartsSpec, authvars
=============================================================================
