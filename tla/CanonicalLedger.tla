-------------------------- MODULE CanonicalLedger --------------------------
(***************************************************************************)
(* The canonical ledger of one wallet on one chain, as pure operators: the *)
(* entries the normalizers of src/services/normalization draft from stored *)
(* raw rows, and what persistNormalizedLedger and deleteScopedLedgerEntries*)
(* of src/services/sync/ledger-store.ts make of them.                      *)
(*                                                                         *)
(* An entry and a group are named by what their hashed identities tell     *)
(* apart: the transaction and the role.  The amounts play no part in what  *)
(* is kept, moved or deleted and are left out.  A ledger is a record: the  *)
(* groups that exist, and the group that owns each entry.                  *)
(***************************************************************************)
EXTENDS Integers

CONSTANTS
  Txs,             \* transactions, each named by the block it is in
  Logs,            \* names of transfer logs within a transaction
  ActionFamilies,  \* the families of protocol actions: DEX, LP, STAKING
  Shape            \* what each transaction did to the wallet

Families == ActionFamilies \cup {"TRANSFERS"}

(* family: the family whose shape test accepts the transfers, which are     *)
(* mutually exclusive, or TRANSFERS.  pays: the wallet sent the transaction.*)
(* value: it moves native value to or from the wallet.  inline: its         *)
(* transfers, of which there are some, look like a protocol action to the   *)
(* transfer normalizer.                                                     *)
(* genuine: its transfer rows decode real Transfer events.                  *)
Shapes == [logs : SUBSET Logs, family : Families, pays : BOOLEAN,
           value : BOOLEAN, inline : BOOLEAN, genuine : BOOLEAN]

ASSUME NamesAssumption ==
  /\ Txs \subseteq Nat
  /\ "TRANSFERS" \notin ActionFamilies
  /\ Logs \cap {"tx", "action", "native", "fee", "legacyFee"} = {}
ASSUME ShapeAssumption ==
  /\ Shape \in [Txs -> Shapes]
  /\ \A t \in Txs : Shape[t].family # "TRANSFERS" =>
       Shape[t].logs # {} /\ Shape[t].pays /\ Shape[t].genuine
  /\ \A t \in Txs : ~Shape[t].genuine => ~Shape[t].pays /\ ~Shape[t].value
  /\ \A t \in Txs : Shape[t].inline => Shape[t].logs # {}

(* The group "tx" holds what the transaction itself moved and paid, one     *)
(* group per log holds a transfer, and "action" the protocol action.  The   *)
(* fee of a transaction has one identity whichever family computes it, and  *)
(* another in rows written before that identity was introduced.             *)
Groups  == Txs \X (Logs \cup {"tx", "action"})
Entries == Txs \X (Logs \cup {"native", "action", "fee", "legacyFee"})
NoGroup == <<>>
Ledgers == [groups : SUBSET Groups, owner : [Entries -> Groups \cup {NoGroup}]]

Tx(x)          == x[1]
IsFee(e)       == e[2] \in {"fee", "legacyFee"}
GroupFamily(g) == IF g[2] = "action" THEN Shape[g[1]].family ELSE "TRANSFERS"
Present(L)     == {e \in Entries : L.owner[e] # NoGroup}
Members(L, g)  == {e \in Entries : L.owner[e] = g}

Drafts == [entry : Entries, group : Groups]

-----------------------------------------------------------------------------
(* Normalization                                                            *)

Draft(t, e, g) == [entry |-> <<t, e>>, group |-> <<t, g>>]

(* The transactions the transfer normalizer leaves to a protocol family:    *)
(* those with a stored action and those whose transfers look like one.      *)
LeftToProtocol(snap) ==
  snap.protocol \cup {t \in snap.transfers \cap snap.transactions : Shape[t].inline}

(* A transfer in, out or between the wallet's own addresses drafts one      *)
(* entry in a group of its own; one proven consumed by an action drafts     *)
(* nothing.                                                                 *)
TransferDrafts(ts) == UNION {{Draft(t, l, l) : l \in Shape[t].logs} : t \in ts}

(* The transaction itself drafts the native value it moved, unless it has   *)
(* tracked token transfers as well, and the fee if the wallet sent it.      *)
NativeDrafts(ts, withTransfers) ==
  {Draft(t, "native", "tx") : t \in {u \in ts \ withTransfers : Shape[u].value}}
  \cup {Draft(t, "fee", "tx") : t \in {u \in ts : Shape[u].pays}}

NormalizeTransfers(snap, consumed) ==
  TransferDrafts(snap.transfers \ consumed)
  \cup NativeDrafts(snap.transactions \ LeftToProtocol(snap), snap.transfers)

ActionDrafts(t) == {Draft(t, e, "action") : e \in {"action", "fee"}}
NormalizeActions(acts) == UNION {ActionDrafts(t) : t \in acts}

-----------------------------------------------------------------------------
(* persistNormalizedLedger                                                  *)

(* Mutated: the transfer keeps the fee it recorded first.                   *)
FeeOwnerPriorityFlat(g) == 0

(* Every protocol action outranks the generic transfer as owner of a fee.   *)
FeeOwnerPriority(g) == IF g[2] = "action" THEN 0 ELSE 1

SelectCanonicalFees(D) ==
  {d \in D : IsFee(d.entry) =>
     \A x \in D : IsFee(x.entry) /\ Tx(x.entry) = Tx(d.entry) =>
       FeeOwnerPriority(d.group) <= FeeOwnerPriority(x.group)}

(* Mutated: only a row with the identity of the draft is recognized.         *)
StoredFeesByIdentity(L, t) == {e \in Present(L) : e = <<t, "fee">>}

(* Mutated: the filter on the transaction is left out.                       *)
StoredFeesOfWallet(L, t) == {e \in Present(L) : IsFee(e)}

StoredFees(L, t) == {e \in Present(L) : IsFee(e) /\ Tx(e) = t}

(* The stored fee whose group ranks first.                                  *)
BestFee(L, t) ==
  CHOOSE e \in StoredFees(L, t) : \A x \in StoredFees(L, t) :
    FeeOwnerPriority(L.owner[e]) <= FeeOwnerPriority(L.owner[x])

(* A draft of a fee that is already stored is dropped, and when its group   *)
(* outranks the stored row's group the stored row moves there.              *)
IsDropped(L, d) == IsFee(d.entry) /\ StoredFees(L, Tx(d.entry)) # {}

Moves(L, D) ==
  {d \in D : IsDropped(L, d) /\
     FeeOwnerPriority(d.group) < FeeOwnerPriority(L.owner[BestFee(L, Tx(d.entry))])}

(* The stored transfer entries of the batch's protocol transactions whose   *)
(* raw transfers are proven consumed.                                       *)
ConsumedShadows(L, D, consumed) ==
  {e \in Present(L) : e[2] \in Logs /\ Tx(e) \in consumed /\
     GroupFamily(L.owner[e]) = "TRANSFERS" /\
     \E d \in D : Tx(d.entry) = Tx(e) /\ GroupFamily(d.group) # "TRANSFERS"}

(* Mutated: the groups stay.                                                *)
WithoutEntriesOnly(L, E) ==
  [groups |-> L.groups,
   owner  |-> [e \in Entries |-> IF e \in E THEN NoGroup ELSE L.owner[e]]]

(* The entries are deleted, and the groups that lose all of theirs.         *)
WithoutEntries(L, E) ==
  [groups |-> L.groups \ {g \in L.groups : Members(L, g) # {} /\ Members(L, g) \subseteq E},
   owner  |-> [e \in Entries |-> IF e \in E THEN NoGroup ELSE L.owner[e]]]

(* Rows that are there already are skipped.                                 *)
WithEntries(L, D) ==
  [groups |-> L.groups \cup {d.group : d \in D},
   owner  |-> [e \in Entries |->
                 IF L.owner[e] = NoGroup /\ \E d \in D : d.entry = e
                 THEN (CHOOSE d \in D : d.entry = e).group ELSE L.owner[e]]]

(* Each moved fee is owned by the group that outranks the previous one; the *)
(* group must exist, the previous one goes if it is empty and unreferenced. *)
WithFeesMoved(L, M) ==
  [groups |-> L.groups \cup {d.group : d \in M},
   owner  |-> [e \in Entries |->
                 IF \E d \in M : e = BestFee(L, Tx(d.entry))
                 THEN (CHOOSE d \in M : e = BestFee(L, Tx(d.entry))).group
                 ELSE L.owner[e]]]

PreviousOwners(L, M) == {L.owner[BestFee(L, Tx(d.entry))] : d \in M}

(* Mutated: the group a fee moved out of is left as it is.                   *)
WithEmpty(L, G) == L

WithoutEmpty(L, G) == [L EXCEPT !.groups = @ \ {g \in G : Members(L, g) = {}}]

PersistNormalizedLedger(L, drafts, consumed) ==
  LET D      == SelectCanonicalFees(drafts)
      kept   == {d \in D : ~IsDropped(L, d)}
      moves  == Moves(L, D)
      clean  == WithoutEntries(L, ConsumedShadows(L, kept, consumed))
      stored == WithEntries(WithFeesMoved(clean, moves), kept)
  IN  WithoutEmpty(stored,
        PreviousOwners(L, moves) \ {d.group : d \in kept \cup moves})

(* deleteScopedLedgerEntries                                                *)
DeleteScoped(L, families, scope) ==
  LET doomed == {g \in L.groups : GroupFamily(g) \in families /\ Tx(g) \in scope}
  IN  [groups |-> L.groups \ doomed,
       owner  |-> [e \in Entries |-> IF L.owner[e] \in doomed THEN NoGroup ELSE L.owner[e]]]
=============================================================================
