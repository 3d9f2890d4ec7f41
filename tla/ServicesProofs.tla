--------------------------- MODULE ServicesProofs ---------------------------
(***************************************************************************)
(* What is proved of each service by itself holds of the three side by     *)
(* side, as the run that checks them together has them.                    *)
(***************************************************************************)
EXTENDS MCServices, LogFetcherProofs, RawEvidenceProofs, PortfolioProofs

(* Whichever part a behavior is of, it is one of each service: what a run   *)
(* on small instances finds of the three is found of the specifications     *)
(* that the theorems about fetches, evidence and positions are about.       *)
THEOREM EachOnItsOwn == ServicesSpec => Spec /\ EvidenceSpec /\ PortfolioSpec
<1>1. ServicesInit => Init /\ EvidenceInit /\ PortfolioInit
  BY DEF ServicesInit, IdleFetch, IdleEvidence, IdlePortfolio
<1>2. [ServicesNext]_allVars =>
        [Next]_vars /\ [EvidenceNext]_evidenceVars /\ [PortfolioNext]_portfolioVars
  BY DEF ServicesNext, allVars
<1> QED
  BY <1>1, <1>2, PTL DEF ServicesSpec, Spec, EvidenceSpec, PortfolioSpec

(* Every variable of every service has a value the code can give it.        *)
THEOREM ServicesTyped == ServicesSpec => []ServicesTypeOK
<1>1. TypeOK /\ EvidenceTypeOK /\ PortfolioTypeOK => ServicesTypeOK
  BY DEF ServicesTypeOK
<1> QED
  BY <1>1, EachOnItsOwn, FetchTyped, EvidenceTyped, PortfolioTyped, PTL
=============================================================================
