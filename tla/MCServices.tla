----------------------------- MODULE MCServices -----------------------------
(* Services that share no state, side by side: an instance is of one of     *)
(* them, chosen at the start, while the others stay as they are.            *)
EXTENDS LogFetcher, RawEvidence, Portfolio

VARIABLE part  \* the service an instance is of
allVars == <<part, vars, evidenceVars, portfolioVars>>

MCKinds == {<<"SWAP", "LP">>, <<"START", "END">>}

Action(tx, action, in, out, fee) ==
  [tx |-> tx, action |-> action, in |-> in, out |-> out, fee |-> fee, locked |-> 0]
Some(asset, qty) == {[asset |-> asset, qty |-> qty]}

(* A native token N, tokens A and B, the token P of their pool, and HEX.    *)
MCGroups == <<
  Action(1, "TRANSFER", Some("N", 3), {}, 0),
  Action(2, "TRANSFER", Some("A", 2), {}, 0),
  Action(3, "SWAP", Some("B", 1), Some("A", 1), 1),
  Action(4, "TRANSFER", {}, Some("N", 1), 1),
  Action(4, "TRANSFER", Some("B", 1), {}, 0),
  Action(5, "LP_ADD", Some("P", 1), Some("A", 1) \cup Some("B", 1), 0),
  Action(6, "TRANSFER", Some("A", 1), Some("A", 1), 0),
  Action(7, "TRANSFER", Some("HEX", 3), {}, 0),
  Action(8, "HEX_STAKE_START", {}, Some("HEX", 2), 0),
  [Action(9, "HEX_STAKE_END", Some("HEX", 3), {}, 0) EXCEPT !.locked = 2],
  [Action(9, "HEX_STAKE_END", Some("HEX", 1), {}, 0) EXCEPT !.locked = 2],
  Action(9, "HEX_STAKE_END", Some("HEX", 3), {}, 0),
  Action(10, "LP_REMOVE", Some("A", 1) \cup Some("B", 1), Some("P", 1), 0)>>

(* A price that holds from its block on, one that no longer does at the end,*)
(* and three that are never accepted.                                       *)
Price(asset, source, until) ==
  [asset |-> asset, quote |-> "USD", source |-> source, pDaiRoute |-> FALSE,
   confident |-> TRUE, until |-> until]
MCPrices == SUBSET (
  {Price(asset, "ORACLE", until) : asset \in {"A", "B", "N"}, until \in {3, 13}} \cup
  {Price("B", "DEXSCREENER", 13), [Price("B", "ORACLE", 13) EXCEPT !.confident = FALSE],
   [Price("B", "ONCHAIN_ROUTE", 13) EXCEPT !.pDaiRoute = TRUE]})

(* No siblings in a transaction; a sibling on the other side; a transfer to *)
(* itself; liquidity, and a token paid before any came in; a stake that ends*)
(* in time, too early, or before its start is known.                        *)
MCLedgers == {{1, 2, 3, 4}, {1, 3, 4, 5}, {1, 2, 4, 7, 8, 10}, {2, 3, 6, 12, 13}, {7, 8, 11}}

(* One transaction with a transfer made of something else is enough.        *)
OneFabricated == \A a \in Actions \ {1} : Active(a) \cap Fabricated = {}

IdleFetch    == Init /\ ask = [start |-> 0, end |-> 0, size |-> 1]
IdleEvidence == EvidenceInit /\ kind = <<"SWAP", "LP">>
                  /\ \A a \in Actions : rows[a] = NoRow /\ Active(a) = {}
IdlePortfolio == PortfolioInit /\ ledger = {} /\ material = NoMaterial

ServicesInit ==
  \/ part = "logs" /\ Init /\ IdleEvidence /\ IdlePortfolio
  \/ part = "evidence" /\ IdleFetch /\ EvidenceInit /\ OneFabricated /\ IdlePortfolio
  \/ part = "portfolio" /\ IdleFetch /\ IdleEvidence /\ PortfolioInit

ServicesNext ==
  /\ UNCHANGED part
  /\ \/ part = "logs" /\ Next /\ UNCHANGED <<evidenceVars, portfolioVars>>
     \/ part = "evidence" /\ EvidenceNext /\ UNCHANGED <<vars, portfolioVars>>
     \/ part = "portfolio" /\ PortfolioNext /\ UNCHANGED <<vars, evidenceVars>>

ServicesSpec == ServicesInit /\ [][ServicesNext]_allVars

(* A portfolio that starts with nothing.                                    *)
FreshSpec == ServicesInit /\ part = "portfolio" /\ IdlePortfolio /\ [][ServicesNext]_allVars

(* Every variable of every service has a value the code can give it.        *)
ServicesTypeOK == TypeOK /\ EvidenceTypeOK /\ PortfolioTypeOK
=============================================================================
