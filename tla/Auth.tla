-------------------------------- MODULE Auth --------------------------------
(***************************************************************************)
(* The OAuth server (auth.py): its handlers run on one event loop and do   *)
(* not suspend between their transactions, so only the command line, which *)
(* revokes clients in the same database (remoteclients.py), and a death of *)
(* the daemon come in between.  Rows that expire read as absent; a client  *)
(* may use any row, also one of a pair that a crash kept from it.          *)
(***************************************************************************)
EXTENDS Naturals, FiniteSets, Sequences

CONSTANTS Clients,      \* registrations; an id is never used twice
          MaxApprovals, \* bound: connection requests, numbered
          MaxTokens,    \* bound: pairs of tokens, numbered
          MaxFailed,    \* max_failed_attempts
          MaxGuesses,   \* bound: wrong passwords
          MaxCrashes    \* bound

Approvals == 1..MaxApprovals
Tokens == 1..MaxTokens

ASSUME AuthAssumption ==
    /\ IsFiniteSet(Clients) /\ MaxFailed \in Nat \ {0}
    /\ {MaxApprovals, MaxTokens, MaxGuesses, MaxCrashes} \subseteq Nat

VARIABLES
    registered,   \* table clients: "no", "yes", "revoked" per client
    owner,        \* the clients that asked for approvals 1, 2, ...
    pending,      \* table pending: approvals that wait for the password
    codes,        \* table auth_codes, by approval
    stale,        \* approvals whose row of these two has expired
    lapsed,       \* refresh tokens that have expired; their rows stay
    access,       \* table access_tokens: [id, appr]
    refresh,      \* table refresh_tokens: [id, appr, bound]
    minted,       \* pairs of tokens so far
    count, locked, \* table attempts, of one address
    at,           \* the handler that runs, "idle" when none does
    what,         \* the client, approval or refresh token it is about
    cli,          \* the registrations `pcbridge remote revoke` has selected
    exchanged,    \* history: pairs that a code was exchanged for
    late,         \* history: clients revoked inside their exchange
    after,        \* history: pairs minted for a revoked client
    guesses,      \* history: wrong passwords since the right one
    unlocks, crashes \* history

rows == <<pending, codes, stale, lapsed, access, refresh, minted>>
attemptvars == <<count, locked, guesses, unlocks>>
handler == <<at, what>>
history == <<exchanged, late, after, crashes>>
vars == <<registered, owner, rows, attemptvars, handler, cli, history>>

Init ==
    /\ registered = [c \in Clients |-> "no"]
    /\ owner = <<>>
    /\ pending = {} /\ codes = {} /\ stale = {} /\ lapsed = {} /\ access = {} /\ refresh = {} /\ minted = 0
    /\ count = 0 /\ locked = FALSE /\ guesses = 0 /\ unlocks = 0
    /\ at = "idle" /\ what = 0 /\ cli = {}
    /\ exchanged = [a \in Approvals |-> 0] /\ late = {} /\ after = [c \in Clients |-> 0] /\ crashes = 0

Goes(step, about) == at' = step /\ what' = about
Done == Goes("idle", 0)
-----------------------------------------------------------------------------
Register(c) ==            \* register_client
    /\ at = "idle" /\ registered[c] = "no"
    /\ registered' = [registered EXCEPT ![c] = "yes"]
    /\ UNCHANGED <<owner, rows, attemptvars, handler, cli, history>>

Authorize(c) ==           \* get_client ...
    /\ at = "idle" /\ registered[c] = "yes" /\ Len(owner) < MaxApprovals
    /\ Goes("authorize", c)
    /\ UNCHANGED <<registered, owner, rows, attemptvars, cli, history>>

PutPending ==             \* ... and authorize
    /\ at = "authorize"
    /\ owner' = Append(owner, what) /\ pending' = pending \cup {Len(owner) + 1}
    /\ Done /\ UNCHANGED <<registered, codes, stale, lapsed, access, refresh, minted, attemptvars, cli, history>>

WrongPassword(a) ==       \* consent_post, record_failure
    /\ at = "idle" /\ ~locked /\ a \in pending \ stale /\ guesses < MaxGuesses
    /\ count' = count + 1
    /\ locked' = (count + 1 >= MaxFailed) /\ guesses' = guesses + 1
    /\ UNCHANGED <<registered, owner, rows, unlocks, handler, cli, history>>

RightPassword(a) ==       \* consent_post, clear_failures
    /\ at = "idle" /\ ~locked /\ a \in pending \ stale
    /\ count' = 0 /\ guesses' = 0 /\ unlocks' = 0
    /\ Goes("approved", a)
    /\ UNCHANGED <<registered, owner, rows, locked, cli, history>>

LockoutEnds ==
    /\ locked /\ locked' = FALSE /\ unlocks' = unlocks + 1
    /\ UNCHANGED <<registered, owner, rows, count, guesses, handler, cli, history>>

ReadPending ==            \* _issue_code reads the request ...
    /\ at = "approved"
    /\ IF what \in pending \ stale THEN Goes("issue", what) ELSE Done
    /\ UNCHANGED <<registered, owner, rows, attemptvars, cli, history>>

(* Faulty variant: the request stays and can be approved again.            *)
IssueCodeAgain ==
    /\ at = "issue"
    /\ codes' = codes \cup {what}
    /\ Done /\ UNCHANGED <<registered, owner, pending, stale, lapsed, access, refresh, minted, attemptvars, cli, history>>

IssueCode ==              \* ... and replaces it by a code
    /\ at = "issue"
    /\ pending' = pending \ {what} /\ codes' = codes \cup {what}
    /\ Done /\ UNCHANGED <<registered, owner, stale, lapsed, access, refresh, minted, attemptvars, cli, history>>
-----------------------------------------------------------------------------
UseCode(c, a) ==          \* get_client, load_authorization_code
    /\ at = "idle" /\ registered[c] = "yes" /\ a \in codes /\ owner[a] = c
    /\ IF a \in stale THEN codes' = codes \ {a} /\ UNCHANGED handler
                       ELSE Goes("code", a) /\ UNCHANGED codes
    /\ UNCHANGED <<registered, owner, pending, stale, lapsed, access, refresh, minted, attemptvars, cli, history>>

TakeCode ==               \* exchange_authorization_code
    /\ at = "code"
    /\ IF what \in codes THEN codes' = codes \ {what} /\ Goes("taken", what)
                         ELSE UNCHANGED codes /\ Done
    /\ UNCHANGED <<registered, owner, pending, stale, lapsed, access, refresh, minted, attemptvars, cli, history>>

(* _new_tokens and its _gc, for approval a.                                *)
NewTokens(a) ==
    /\ minted < MaxTokens /\ minted' = minted + 1
    /\ access' = access \cup {[id |-> minted + 1, appr |-> a]}
    /\ refresh' = refresh \cup {[id |-> minted + 1, appr |-> a, bound |-> minted + 1]}
    /\ pending' = pending \ stale /\ codes' = codes \ stale
    /\ after' = IF registered[owner[a]] = "revoked" THEN [after EXCEPT ![owner[a]] = @ + 1] ELSE after
    /\ UNCHANGED <<registered, owner, stale, lapsed, attemptvars, cli, late, crashes>>

MintForCode ==
    /\ at = "taken" /\ NewTokens(what)
    /\ exchanged' = [exchanged EXCEPT ![what] = @ + 1]
    /\ Done

UseRefresh(c, r) ==       \* get_client, load_refresh_token
    /\ at = "idle" /\ registered[c] = "yes" /\ r \in refresh /\ r.id \notin lapsed /\ owner[r.appr] = c
    /\ Goes("refresh", r)
    /\ UNCHANGED <<registered, owner, rows, attemptvars, cli, history>>

(* exchange_refresh_token: the row is read again, and its absence only     *)
(* means that there is no access token to drop.                            *)
DropOld ==
    /\ at = "refresh"
    /\ access' = {t \in access : ~\E r \in refresh : r.id = what.id /\ r.bound = t.id}
    /\ Goes("dropped", what)
    /\ UNCHANGED <<registered, owner, pending, codes, stale, lapsed, refresh, minted, attemptvars, cli, history>>

MintForRefresh ==
    /\ at = "dropped" /\ NewTokens(what.appr)
    /\ Goes("bind", [what EXCEPT !.bound = minted + 1])
    /\ UNCHANGED exchanged

(* Faulty variant: the old row keeps pointing to the dropped access token. *)
BindNothing ==
    /\ at = "bind"
    /\ refresh' = {r \in refresh : r.id # what.bound}
    /\ Done /\ UNCHANGED <<registered, owner, pending, codes, stale, lapsed, access, minted, attemptvars, cli, history>>

Bind ==                   \* the new access token, and not the new refresh token
    /\ at = "bind"
    /\ refresh' = {IF r.id = what.id THEN what ELSE r : r \in {x \in refresh : x.id # what.bound}}
    /\ Done /\ UNCHANGED <<registered, owner, pending, codes, stale, lapsed, access, minted, attemptvars, cli, history>>

RevokeToken(id) ==        \* revoke_token: one of the pair, as the client asks
    /\ at = "idle"
    /\ \/ \E t \in access : t.id = id /\ access' = access \ {t} /\ UNCHANGED refresh
       \/ \E r \in refresh : r.id = id /\ id \notin lapsed /\ refresh' = refresh \ {r} /\ UNCHANGED access
    /\ UNCHANGED <<registered, owner, pending, codes, stale, lapsed, minted, attemptvars, handler, cli, history>>
-----------------------------------------------------------------------------
(* The other process: select or registrations, then one transaction.       *)
SelectClients ==
    /\ cli = {} /\ cli' \in SUBSET {c \in Clients : registered[c] = "yes"}
    /\ cli' # {}
    /\ UNCHANGED <<registered, owner, rows, attemptvars, handler, history>>

About == IF at \in {"refresh", "dropped"} THEN {owner[what.appr]}
         ELSE IF at = "taken" THEN {owner[what]} ELSE {}

Revoke ==
    /\ cli # {} /\ cli' = {}
    /\ registered' = [c \in Clients |-> IF c \in cli THEN "revoked" ELSE registered[c]]
    /\ pending' = {a \in pending : owner[a] \notin cli}
    /\ codes' = {a \in codes : owner[a] \notin cli}
    /\ access' = {t \in access : owner[t.appr] \notin cli}
    /\ refresh' = {t \in refresh : owner[t.appr] \notin cli}
    /\ late' = late \cup (cli \cap About)
    /\ UNCHANGED <<owner, stale, lapsed, minted, attemptvars, handler, exchanged, after, crashes>>

Expire ==                 \* a row of any of the four tables
    /\ \/ \E a \in (pending \cup codes) \ stale : stale' = stale \cup {a} /\ UNCHANGED <<access, lapsed>>
       \/ \E t \in access : access' = access \ {t} /\ UNCHANGED <<stale, lapsed>>
       \/ \E t \in refresh : t.id \notin lapsed /\ lapsed' = lapsed \cup {t.id} /\ UNCHANGED <<stale, access>>
    /\ UNCHANGED <<registered, owner, pending, codes, refresh, minted, attemptvars, handler, cli, history>>

Crash ==                  \* the daemon dies between two transactions
    /\ at # "idle" /\ crashes < MaxCrashes
    /\ Done /\ crashes' = crashes + 1
    /\ UNCHANGED <<registered, owner, rows, attemptvars, cli, exchanged, late, after>>
-----------------------------------------------------------------------------
Handlers ==
    \/ \E c \in Clients : Register(c) \/ Authorize(c)
    \/ \E a \in Approvals : WrongPassword(a) \/ RightPassword(a)
    \/ \E c \in Clients : (\E a \in Approvals : UseCode(c, a)) \/ (\E r \in refresh : UseRefresh(c, r))
    \/ \E id \in Tokens : RevokeToken(id)
    \/ PutPending \/ ReadPending \/ IssueCode \/ TakeCode \/ MintForCode
    \/ DropOld \/ MintForRefresh \/ Bind

Next == Handlers \/ LockoutEnds \/ SelectClients \/ Revoke \/ Expire \/ Crash

Spec == Init /\ [][Next]_vars
-----------------------------------------------------------------------------
TypeOK ==
    /\ registered \in [Clients -> {"no", "yes", "revoked"}] /\ owner \in Seq(Clients)
    /\ Len(owner) <= MaxApprovals /\ minted \in 0..MaxTokens
    /\ pending \cup codes \cup stale \subseteq DOMAIN owner
    /\ access \subseteq [id : 1..minted, appr : DOMAIN owner]
    /\ refresh \subseteq [id : 1..minted, appr : DOMAIN owner, bound : 1..minted]
    /\ \A s, t \in refresh : s.id = t.id => s = t
    /\ count \in 0..MaxGuesses /\ locked \in BOOLEAN
    /\ cli \cup late \subseteq Clients /\ lapsed \subseteq Tokens

(* One approval on the consent page gives one code, and a code one pair of *)
(* tokens, whatever is revoked, expires or dies in between.                *)
OnePairPerApproval ==
    \A a \in Approvals : exchanged[a] <= 1 /\ (exchanged[a] = 1 => a \notin codes \cup pending)

(* "Revoking a client deletes its registration together with its access    *)
(* tokens, refresh tokens, ..." (remoteclients.py:13).  Only an exchange   *)
(* that is past its last look at the database when the client is revoked   *)
(* can leave a pair behind, one pair, and nothing renews it.               *)
RevokedGetsAtMostOne ==
    \A c \in Clients : after[c] <= (IF c \in late THEN 1 ELSE 0)

(* A refresh drops the access token it replaces: an approval has one pair  *)
(* of tokens, one more for each time the daemon died inside a refresh.     *)
OneLivePair ==
    \A a \in Approvals :
        /\ Cardinality({t \in access : t.appr = a}) <= 1 + crashes
        /\ Cardinality({t \in refresh : t.appr = a}) <= 1 + crashes + (IF at = "bind" THEN 1 ELSE 0)

(* Once the limit of failures is reached every further guess costs another *)
(* lockout, until the right password is entered.                           *)
GuessesBounded == guesses <= MaxFailed + unlocks

(* What the login page lets through is let through once.                   *)
LoginsAccounted == TypeOK /\ OnePairPerApproval /\ GuessesBounded
=============================================================================
