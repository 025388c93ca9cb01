------------------------------- MODULE MCAuth -------------------------------
(***************************************************************************)
(* Small instances of who may do what through the daemon: the clients that *)
(* log in (Auth), the calls that share the pcbridge browser (Browser), and *)
(* the agent and the user who hand it to each other (Handoff).  A login    *)
(* opens no browser, and to Handoff the browser only runs or not; so each  *)
(* behaviour moves one part and leaves the others where they started.      *)
(* Two clients, so that one is revoked while the other exchanges; three    *)
(* pairs of tokens, so that one approval is refreshed twice.               *)
(***************************************************************************)
EXTENDS Auth, TLC

CONSTANTS Parts,                                       \* of "logins", "browser", "handoff"
          c1, c2,
          Calls, MaxKeepers, MaxTabs, MaxDocs,         \* Browser
          Agents, Cli, Page, MaxGives                  \* Handoff

VARIABLES
    part,      \* which of the three moves
    keeper, alive, stray, info, sock, launching, conn, tabs, doc, call, ref, overlap, crossed, blunder,
    running, win, wanted, record, given, gone, stage, copy, shown, link, back, turn, early, clashed

MCClients == {c1, c2}
MCSymmetry == Permutations(MCClients)

B == INSTANCE Browser
H == INSTANCE Handoff WITH call <- turn

ASSUME PartsAssumption == B!BrowserAssumption /\ H!HandoffAssumption

bvars == <<keeper, alive, stray, info, sock, launching, conn, tabs, doc, call, ref, overlap, crossed, blunder>>
hvars == <<running, win, wanted, record, given, gone, stage, copy, shown, link, back, turn, early, clashed>>

PartsInit ==
    /\ part \in Parts
    /\ Init /\ B!Init /\ H!Init /\ (part # "handoff" => ~running)

PartsNext ==
    \/ part = "logins" /\ Next /\ UNCHANGED <<part, bvars, hvars>>
    \/ part = "browser" /\ B!Next /\ UNCHANGED <<part, vars, hvars>>
    \/ part = "handoff" /\ H!Next /\ UNCHANGED <<part, vars, bvars>>

PartsSpec == PartsInit /\ [][PartsNext]_<<part, vars, bvars, hvars>>
-----------------------------------------------------------------------------
(* TokensAccounted: a client that was revoked gets at most the pair it was *)
(* about to get, and an approval has one pair that works.                  *)
TokensAccounted == RevokedGetsAtMostOne /\ OneLivePair

(* The properties of the other modules, stated and explained there.        *)
BrowserAccounted == B!BrowserAccounted /\ H!HandoffAccounted
=============================================================================
