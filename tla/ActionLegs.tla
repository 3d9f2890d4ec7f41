----------------------------- MODULE ActionLegs -----------------------------
(***************************************************************************)
(* The ledger entries an action is drafted as: the normalizers of          *)
(* src/services/normalization, as the syncs and the rebuild call them.     *)
(*                                                                         *)
(* An action is what the wallet did in a transaction: the amounts that left*)
(* it and came to it, one per token, the gas it paid, and for the end of a *)
(* stake what its start had locked, 0 where the start is not stored.       *)
(***************************************************************************)
EXTENDS Naturals

CONSTANT FeeAsset  \* the native asset

ActionTypes == {"TRANSFER", "SWAP", "LP_ADD", "LP_REMOVE", "HEX_STAKE_START",
                "HEX_STAKE_END"}
Amounts == [asset : STRING, qty : Nat \ {0}]
RawActions == [tx : Nat, action : ActionTypes, out : SUBSET Amounts, in : SUBSET Amounts,
               fee : Nat, locked : Nat]

Entry(type, dir, asset, qty) == [type |-> type, dir |-> dir, asset |-> asset, qty |-> qty]

Outgoing(r, type) == {Entry(type, "OUT", a.asset, a.qty) : a \in r.out}
Incoming(r, type) == {Entry(type, "IN", a.asset, a.qty) : a \in r.in}

(* No leg stands for nothing.                                               *)
Nonzero(legs) == {l \in legs : l.qty # 0}
FeeLegs(r) == Nonzero({Entry("FEE", "OUT", FeeAsset, r.fee)})

SwapLegs(r)     == Outgoing(r, "SWAP_OUT") \cup Incoming(r, "SWAP_IN") \cup FeeLegs(r)
LpAddLegs(r)    == Outgoing(r, "LP_ADD_OUT") \cup Incoming(r, "LP_ADD_IN") \cup FeeLegs(r)
LpRemoveLegs(r) == Outgoing(r, "LP_REMOVE_OUT") \cup Incoming(r, "LP_REMOVE_IN") \cup FeeLegs(r)

(* A token that left for the wallet itself has not moved.                   *)
Internal(r) == r.out \cap r.in
TransferLegs(r) ==
  {l \in Outgoing(r, "SEND") : [asset |-> l.asset, qty |-> l.qty] \notin Internal(r)}
  \cup {l \in Incoming(r, "RECEIVE") : [asset |-> l.asset, qty |-> l.qty] \notin Internal(r)}
  \cup {Entry("INTERNAL_TRANSFER", "INTERNAL", a.asset, a.qty) : a \in Internal(r)}
  \cup FeeLegs(r)

(* The start and the end of a stake are marked by legs of no quantity.      *)
StakeStartLegs(r) ==
  {Entry("STAKE_START", "INTERNAL", a.asset, 0) : a \in r.out}
  \cup Outgoing(r, "STAKE_PRINCIPAL_LOCKED") \cup FeeLegs(r)

(* What came back, against what was locked: a loss is a penalty.            *)
StakeSplit(returned, locked) ==
  [principal |-> IF returned < locked THEN returned ELSE locked,
   yield     |-> IF returned > locked THEN returned - locked ELSE 0,
   penalty   |-> IF returned < locked THEN locked - returned ELSE 0]

ReturnLegs(a, locked) ==
  LET split == StakeSplit(a.qty, locked)
  IN  Nonzero({Entry("STAKE_PRINCIPAL_RETURNED", "IN", a.asset, split.principal),
               Entry("STAKE_YIELD_RECEIVED", "IN", a.asset, split.yield),
               Entry("STAKE_PENALTY", "OUT", a.asset, split.penalty)})

StakeEndLegs(r) ==
  {Entry("STAKE_END", "INTERNAL", a.asset, 0) : a \in r.in}
  \cup (IF r.locked = 0 THEN Incoming(r, "STAKE_RETURN_UNALLOCATED")
        ELSE UNION {ReturnLegs(a, r.locked) : a \in r.in})
  \cup FeeLegs(r)

LegsOf(r) ==
  CASE r.action = "TRANSFER"        -> TransferLegs(r)
    [] r.action = "SWAP"            -> SwapLegs(r)
    [] r.action = "LP_ADD"          -> LpAddLegs(r)
    [] r.action = "LP_REMOVE"       -> LpRemoveLegs(r)
    [] r.action = "HEX_STAKE_START" -> StakeStartLegs(r)
    [] r.action = "HEX_STAKE_END"   -> StakeEndLegs(r)
=============================================================================
