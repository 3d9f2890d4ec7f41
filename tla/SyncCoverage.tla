---------------------------- MODULE SyncCoverage ----------------------------
(***************************************************************************)
(* What a sync cursor promises of one wallet on one chain: the window it   *)
(* shows for a source family only grows, stays in one piece, and never     *)
(* covers a block whose ledger entries are not stored.                     *)
(***************************************************************************)
EXTENDS Integers

CONSTANTS
  Families,   \* the source families
  MaxBlock    \* the last block of the chain

VARIABLES
  persisted,  \* the blocks of each family whose ledger entries are stored
  window      \* the blocks each family's cursor claims

covVars == <<persisted, window>>

Segments == {i .. j : i, j \in 0 .. MaxBlock}

CovInit ==
  /\ persisted = [f \in Families |-> {}]
  /\ window = [f \in Families |-> {}]

Persist(f) ==
  /\ \E w \in Segments : persisted' = [persisted EXCEPT ![f] = @ \cup w]
  /\ UNCHANGED window

Extend(f) ==
  /\ \E w \in Segments :
       /\ window[f] \subseteq w /\ w \subseteq persisted[f]
       /\ window' = [window EXCEPT ![f] = w]
  /\ UNCHANGED persisted

CovNext == \E f \in Families : Persist(f) \/ Extend(f)

CovSpec == CovInit /\ [][CovNext]_covVars
=============================================================================
