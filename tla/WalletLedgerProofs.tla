------------------------- MODULE WalletLedgerProofs -------------------------
(***************************************************************************)
(* For any transactions and histories, any number of processes, overlapping*)
(* or not: whatever syncs, rebuilds and repairs read, draft and write, and *)
(* wherever they stop, each transaction has one fee, every action group in *)
(* the ledger owns it, and no group is without entries.                    *)
(*                                                                         *)
(* If the operations wait for each other, the ledger holds besides exactly *)
(* what it should of every transaction the cursors passed, and rebuilds    *)
(* keep to their windows.                                                  *)
(*                                                                         *)
(* The first part is about the functions of CanonicalLedger alone: what    *)
(* persistNormalizedLedger and deleteScopedLedgerEntries preserve, for any *)
(* ledger, any batch the normalizers may draft and any set of consumed     *)
(* transactions, and what persisting a batch adds, moves and takes away.   *)
(***************************************************************************)
EXTENDS WalletLedger, Sequences, WellFoundedInduction, TLAPS

-----------------------------------------------------------------------------
(* The ledger                                                               *)

(* The group an entry may be in: a function of the entry, but for the fee.  *)
Placed(e, g) ==
  /\ g[1] = e[1]
  /\ e[2] \in Logs => g[2] = e[2]
  /\ e[2] = "native" => g[2] = "tx"
  /\ e[2] = "action" => g[2] = "action"
  /\ IsFee(e) => g[2] \in {"tx", "action"}

WellPlaced(L) == \A e \in Entries : L.owner[e] # NoGroup => Placed(e, L.owner[e])
FeeUnique(L) ==
  \A d, e \in Present(L) : IsFee(d) /\ IsFee(e) /\ Tx(d) = Tx(e) => d = e
ActionsPay(L) ==
  \A t \in Txs : <<t, "action">> \in L.groups =>
    \E e \in Members(L, <<t, "action">>) : IsFee(e)
InUse(L) == L.groups = {L.owner[e] : e \in Present(L)}

Sound(L) ==
  L \in Ledgers /\ WellPlaced(L) /\ FeeUnique(L) /\ ActionsPay(L) /\ InUse(L)

(* What the normalizers draft: entries in their places, fees under their    *)
(* present identity, and with every entry of an action its fee.             *)
GoodDrafts(D) ==
  /\ D \subseteq Drafts
  /\ \A d \in D : Placed(d.entry, d.group)
  /\ \A d \in D : IsFee(d.entry) => d.entry[2] = "fee"
  /\ \A d \in D : d.group[2] = "action" => Draft(Tx(d.entry), "fee", "action") \in D

Functional(D) == \A d, x \in D : d.entry = x.entry => d.group = x.group

-----------------------------------------------------------------------------
LEMMA EntryFacts ==
  /\ \A e \in Entries : e[1] \in Txs /\ e[2] \in Logs \cup {"native", "action", "fee", "legacyFee"}
  /\ \A d, e \in Entries : d[1] = e[1] /\ d[2] = e[2] => d = e
  /\ \A t \in Txs : \A n \in Logs \cup {"native", "action", "fee", "legacyFee"} :
       <<t, n>> \in Entries
BY DEF Entries

LEMMA GroupFacts ==
  /\ \A g \in Groups : g[1] \in Txs /\ g[2] \in Logs \cup {"tx", "action"}
  /\ \A g, h \in Groups : g[1] = h[1] /\ g[2] = h[2] => g = h
  /\ \A t \in Txs : \A n \in Logs \cup {"tx", "action"} : <<t, n>> \in Groups
  /\ NoGroup \notin Groups
<1>1. \A g \in Groups : Len(g) = 2
  BY DEF Groups
<1>2. NoGroup \notin Groups
  BY <1>1 DEF NoGroup
<1>3. QED
  BY <1>2 DEF Groups

LEMMA LedgerFacts ==
  ASSUME NEW L \in Ledgers
  PROVE  /\ L.groups \subseteq Groups
         /\ \A e \in Entries : L.owner[e] \in Groups \cup {NoGroup}
         /\ \A e \in Entries : e \in Present(L) <=> L.owner[e] # NoGroup
         /\ Present(L) \subseteq Entries
         /\ \A g : \A e : e \in Members(L, g) <=> e \in Entries /\ L.owner[e] = g
BY DEF Ledgers, Present, Members

(* An entry that is no fee has one place.                                   *)
LEMMA OnePlace ==
  ASSUME NEW e \in Entries, ~IsFee(e), NEW g \in Groups, NEW h \in Groups,
         Placed(e, g), Placed(e, h)
  PROVE  g = h
BY EntryFacts, GroupFacts DEF Placed, IsFee

-----------------------------------------------------------------------------
(* Scoped deletion keeps what is sound.                                     *)
LEMMA DeleteKeepsSound ==
  ASSUME NEW L, Sound(L), NEW families, NEW scope
  PROVE  Sound(DeleteScoped(L, families, scope))
<1> DEFINE doomed == {g \in L.groups : GroupFamily(g) \in families /\ Tx(g) \in scope}
           R == DeleteScoped(L, families, scope)
<1>1. L \in Ledgers /\ WellPlaced(L) /\ FeeUnique(L) /\ ActionsPay(L) /\ InUse(L)
  BY DEF Sound
<1>2. /\ R.groups = L.groups \ doomed
      /\ R.owner = [e \in Entries |-> IF L.owner[e] \in doomed THEN NoGroup ELSE L.owner[e]]
      /\ R = [groups |-> R.groups, owner |-> R.owner]
  BY DEF DeleteScoped
<1>3. doomed \subseteq L.groups
  OBVIOUS
<1> HIDE DEF doomed, R
<1>4. R \in Ledgers
  BY <1>1, <1>2 DEF Ledgers
<1>5. \A e \in Entries : R.owner[e] # NoGroup => R.owner[e] = L.owner[e]
  BY <1>2
<1>6. WellPlaced(R)
  BY <1>1, <1>5 DEF WellPlaced
<1>7. FeeUnique(R)
  BY <1>1, <1>4, <1>5, LedgerFacts DEF FeeUnique
<1>8. InUse(R)
  <2>1. NoGroup \notin doomed
    BY <1>1, <1>3, GroupFacts, LedgerFacts
  <2>2. \A g : g \in R.groups <=> \E e \in Entries : R.owner[e] # NoGroup /\ R.owner[e] = g
    BY <1>1, <1>2, <1>3, <2>1, LedgerFacts DEF InUse
  <2>3. QED
    BY <2>2, <1>4, LedgerFacts DEF InUse, Present
<1>9. ActionsPay(R)
  <2> SUFFICES ASSUME NEW t \in Txs, <<t, "action">> \in R.groups
               PROVE  \E e \in Members(R, <<t, "action">>) : IsFee(e)
    BY DEF ActionsPay
  <2>1. PICK e \in Members(L, <<t, "action">>) : IsFee(e)
    BY <1>1, <1>2 DEF ActionsPay
  <2>2. e \in Entries /\ L.owner[e] = <<t, "action">> /\ <<t, "action">> \notin doomed
    BY <1>1, <1>2, <2>1, LedgerFacts
  <2>3. QED
    BY <1>2, <1>4, <2>1, <2>2, LedgerFacts
<1>10. Sound(R)
  BY <1>4, <1>6, <1>7, <1>8, <1>9 DEF Sound
<1>11. QED
  BY <1>10 DEF R

-----------------------------------------------------------------------------
(* Of the fees of a transaction one is selected, and with an action its fee.*)
LEMMA SelectFacts ==
  ASSUME NEW drafts, GoodDrafts(drafts)
  PROVE  LET D == SelectCanonicalFees(drafts) IN GoodDrafts(D) /\ Functional(D)
<1> DEFINE D == SelectCanonicalFees(drafts)
<1>1. D \subseteq drafts /\ drafts \subseteq Drafts
  BY DEF SelectCanonicalFees, GoodDrafts
<1>2. \A d \in D : IsFee(d.entry) => \A x \in drafts :
        IsFee(x.entry) /\ Tx(x.entry) = Tx(d.entry) =>
          FeeOwnerPriority(d.group) <= FeeOwnerPriority(x.group)
  BY DEF SelectCanonicalFees
<1>3. \A d \in drafts : d.entry \in Entries /\ d.group \in Groups /\ Placed(d.entry, d.group)
  BY <1>1 DEF GoodDrafts, Drafts
<1>4. ASSUME NEW d \in drafts, d.group[2] = "action"
      PROVE  Draft(Tx(d.entry), "fee", "action") \in D
  <2> DEFINE fee == Draft(Tx(d.entry), "fee", "action")
  <2>1. fee \in drafts
    BY <1>4 DEF GoodDrafts
  <2>2. FeeOwnerPriority(fee.group) = 0
    BY DEF FeeOwnerPriority, Draft
  <2>3. \A x \in drafts : FeeOwnerPriority(x.group) \in {0, 1}
    BY DEF FeeOwnerPriority
  <2>4. QED
    BY <2>1, <2>2, <2>3 DEF SelectCanonicalFees
<1>5. GoodDrafts(D)
  BY <1>1, <1>4 DEF GoodDrafts
<1>6. ASSUME NEW d \in D, NEW x \in D, d.entry = x.entry
      PROVE  d.group = x.group
  <2>1. d.group \in Groups /\ x.group \in Groups
        /\ Placed(d.entry, d.group) /\ Placed(d.entry, x.group) /\ d.entry \in Entries
    BY <1>1, <1>3, <1>6
  <2>2. CASE ~IsFee(d.entry)
    BY <2>1, <2>2, OnePlace
  <2>3. CASE IsFee(d.entry)
    <3>1. /\ FeeOwnerPriority(d.group) <= FeeOwnerPriority(x.group)
          /\ FeeOwnerPriority(x.group) <= FeeOwnerPriority(d.group)
      BY <1>1, <1>2, <1>6, <2>3
    <3>2. d.group[2] \in {"tx", "action"} /\ x.group[2] \in {"tx", "action"}
          /\ d.group[1] = x.group[1]
      BY <2>1, <2>3 DEF Placed
    <3>3. d.group[2] = x.group[2]
      BY <3>1, <3>2 DEF FeeOwnerPriority
    <3>4. QED
      BY <2>1, <3>2, <3>3, GroupFacts
  <2>4. QED
    BY <2>2, <2>3
<1>7. QED
  BY <1>5, <1>6 DEF Functional

(* Where a transaction has one fee, it is the one that ranks first.         *)
LEMMA BestFeeIs ==
  ASSUME NEW L \in Ledgers, FeeUnique(L), NEW t, NEW b \in StoredFees(L, t)
  PROVE  StoredFees(L, t) = {b} /\ BestFee(L, t) = b
<1>1. StoredFees(L, t) = {b}
  BY DEF StoredFees, FeeUnique
<1>2. FeeOwnerPriority(L.owner[b]) <= FeeOwnerPriority(L.owner[b])
  BY DEF FeeOwnerPriority
<1>3. QED
  BY <1>1, <1>2 DEF BestFee

(* An action's group takes the fee over from that of its transaction.       *)
LEMMA MoveFacts ==
  ASSUME NEW L, Sound(L), NEW D, GoodDrafts(D), NEW d \in Moves(L, D)
  PROVE  LET b == BestFee(L, Tx(d.entry)) IN
         /\ b \in Entries /\ IsFee(b) /\ Tx(b) = Tx(d.entry)
         /\ StoredFees(L, Tx(b)) = {b}
         /\ L.owner[b] = <<Tx(b), "tx">> /\ d.group = <<Tx(b), "action">>
         /\ Tx(b) \in Txs
<1> DEFINE t == Tx(d.entry)
<1>1. L \in Ledgers /\ WellPlaced(L) /\ FeeUnique(L)
  BY DEF Sound
<1>2. d \in D /\ IsFee(d.entry) /\ StoredFees(L, t) # {}
      /\ FeeOwnerPriority(d.group) < FeeOwnerPriority(L.owner[BestFee(L, t)])
  BY DEF Moves, IsDropped
<1>3. d.entry \in Entries /\ d.group \in Groups /\ Placed(d.entry, d.group)
  BY <1>2 DEF GoodDrafts, Drafts
<1>4. PICK b \in StoredFees(L, t) : TRUE
  BY <1>2
<1>5. BestFee(L, t) = b /\ StoredFees(L, t) = {b}
  BY <1>1, <1>4, BestFeeIs
<1>6. b \in Entries /\ IsFee(b) /\ Tx(b) = t /\ L.owner[b] # NoGroup
  BY <1>1, <1>4, LedgerFacts DEF StoredFees
<1>7. L.owner[b] \in Groups /\ Placed(b, L.owner[b])
  BY <1>1, <1>6, LedgerFacts DEF WellPlaced
<1>8. d.group[2] = "action" /\ L.owner[b][2] = "tx"
  BY <1>2, <1>3, <1>5, <1>6, <1>7 DEF FeeOwnerPriority, Placed
<1>9. d.group[1] = t /\ L.owner[b][1] = t /\ t \in Txs
  BY <1>3, <1>6, <1>7, EntryFacts DEF Placed, Tx
<1>10. d.group = <<t, "action">> /\ L.owner[b] = <<t, "tx">>
  <2>1. <<t, "action">> \in Groups /\ <<t, "tx">> \in Groups
    BY <1>9, GroupFacts
  <2>2. <<t, "action">>[1] = t /\ <<t, "action">>[2] = "action"
        /\ <<t, "tx">>[1] = t /\ <<t, "tx">>[2] = "tx"
    OBVIOUS
  <2> HIDE DEF t
  <2>3. QED
    BY <1>3, <1>7, <1>8, <1>9, <2>1, <2>2, GroupFacts
<1>11. QED
  BY <1>5, <1>6, <1>9, <1>10

Kept(L, D) == {d \in D : ~IsDropped(L, d)}
Owners(L, D, E) ==
  WithEntries(WithFeesMoved(WithoutEntries(L, E), Moves(L, D)), Kept(L, D)).owner

(* Rows that come out of the three steps, one entry at a time.              *)
LEMMA StoredOwner ==
  ASSUME NEW L, Sound(L), NEW D, GoodDrafts(D), Functional(D),
         NEW E \in SUBSET Present(L), \A e \in E : ~IsFee(e),
         NEW kept, kept = Kept(L, D),
         NEW moves, moves = Moves(L, D),
         NEW O, O = Owners(L, D, E)
  PROVE  /\ O \in [Entries -> Groups \cup {NoGroup}]
         /\ \A d \in kept : O[d.entry] = d.group
         /\ \A d \in moves : O[BestFee(L, Tx(d.entry))] = d.group
         /\ \A e \in Entries :
              L.owner[e] # NoGroup /\ e \notin E
                /\ (\A d \in moves : e # BestFee(L, Tx(d.entry))) => O[e] = L.owner[e]
         /\ \A e \in Entries : O[e] # NoGroup =>
              \/ \E d \in kept : d.entry = e /\ O[e] = d.group
              \/ \E d \in moves : e = BestFee(L, Tx(d.entry)) /\ O[e] = d.group
              \/ L.owner[e] # NoGroup /\ e \notin E /\ O[e] = L.owner[e]
<1> DEFINE clean == WithoutEntries(L, E)
           fees  == WithFeesMoved(clean, moves)
<1>0. kept = {d \in D : ~IsDropped(L, d)}
  BY DEF Kept
<1>1. L \in Ledgers /\ FeeUnique(L)
  BY DEF Sound
<1>2. \A e \in Entries : clean.owner[e] = IF e \in E THEN NoGroup ELSE L.owner[e]
  BY DEF WithoutEntries
<1>3. \A t : StoredFees(clean, t) = StoredFees(L, t)
  BY <1>2 DEF StoredFees, Present
<1>4. ASSUME NEW d \in moves
      PROVE  BestFee(clean, Tx(d.entry)) = BestFee(L, Tx(d.entry))
  <2> DEFINE b == BestFee(L, Tx(d.entry))
  <2>1. b \in Entries /\ IsFee(b) /\ Tx(b) = Tx(d.entry) /\ StoredFees(L, Tx(b)) = {b}
    BY <1>4, MoveFacts
  <2>2. StoredFees(clean, Tx(d.entry)) = {b}
    BY <1>3, <2>1
  <2> HIDE DEF b, clean
  <2>3. FeeOwnerPriority(clean.owner[b]) <= FeeOwnerPriority(clean.owner[b])
    BY DEF FeeOwnerPriority
  <2>4. BestFee(clean, Tx(d.entry)) = b
    BY <2>2, <2>3 DEF BestFee
  <2>5. QED
    BY <2>4 DEF b
<1>5. \A d, x \in moves : BestFee(L, Tx(d.entry)) = BestFee(L, Tx(x.entry)) =>
        d.group = x.group
  BY MoveFacts
<1> HIDE DEF clean
<1>6. \A e \in Entries : fees.owner[e] =
        IF \E d \in moves : e = BestFee(clean, Tx(d.entry))
        THEN (CHOOSE d \in moves : e = BestFee(clean, Tx(d.entry))).group
        ELSE clean.owner[e]
  BY DEF WithFeesMoved
<1>7. ASSUME NEW d \in moves
      PROVE  fees.owner[BestFee(L, Tx(d.entry))] = d.group
  <2> DEFINE b == BestFee(L, Tx(d.entry))
             x == CHOOSE y \in moves : b = BestFee(clean, Tx(y.entry))
  <2>1. b \in Entries /\ b = BestFee(clean, Tx(d.entry))
    BY <1>4, <1>7, MoveFacts
  <2>2. x \in moves /\ b = BestFee(clean, Tx(x.entry))
    BY <2>1
  <2>3. x.group = d.group
    BY <1>4, <1>5, <2>1, <2>2
  <2>4. fees.owner[b] = x.group
    BY <1>6, <2>1
  <2>5. QED
    BY <2>3, <2>4
<1>8. \A e \in Entries : (\A d \in moves : e # BestFee(L, Tx(d.entry))) =>
        fees.owner[e] = clean.owner[e]
  BY <1>4, <1>6
<1> HIDE DEF fees
<1>9. \A e \in Entries : O[e] =
        IF fees.owner[e] = NoGroup /\ \E d \in kept : d.entry = e
        THEN (CHOOSE d \in kept : d.entry = e).group ELSE fees.owner[e]
  BY DEF WithEntries, fees, clean, Owners
<1>10. \A d \in D : d.entry \in Entries /\ d.group \in Groups /\ Placed(d.entry, d.group)
  BY DEF GoodDrafts, Drafts
<1>11. ASSUME NEW d \in kept
       PROVE  (CHOOSE x \in kept : x.entry = d.entry).group = d.group
  BY <1>0, <1>11 DEF Functional
<1>12. ASSUME NEW d \in moves
       PROVE  /\ BestFee(L, Tx(d.entry)) \in Entries
              /\ d.group \in Groups /\ d.group # NoGroup
              /\ O[BestFee(L, Tx(d.entry))] = d.group
  <2>1. d \in D
    BY <1>12 DEF Moves
  <2>2. BestFee(L, Tx(d.entry)) \in Entries
    BY <1>12, MoveFacts
  <2>3. d.group \in Groups /\ d.group # NoGroup
    BY <1>10, <2>1, GroupFacts
  <2>4. fees.owner[BestFee(L, Tx(d.entry))] = d.group
    BY <1>7
  <2>5. QED
    BY <1>9, <2>2, <2>3, <2>4
<1>13. ASSUME NEW d \in kept
       PROVE  O[d.entry] = d.group
  <2>1. d \in D /\ d.entry \in Entries /\ d.group \in Groups /\ Placed(d.entry, d.group)
    BY <1>0, <1>10
  <2>2. CASE fees.owner[d.entry] = NoGroup
    BY <1>9, <1>11, <2>1, <2>2
  <2>3. CASE fees.owner[d.entry] # NoGroup
    <3>1. O[d.entry] = fees.owner[d.entry]
      BY <1>9, <2>1, <2>3
    <3>2. CASE IsFee(d.entry)
      <4>1. StoredFees(L, Tx(d.entry)) = {}
        BY <1>0, <3>2 DEF IsDropped
      <4>2. L.owner[d.entry] = NoGroup
        BY <1>1, <2>1, <3>2, <4>1, LedgerFacts DEF StoredFees
      <4>3. \A x \in moves : d.entry # BestFee(L, Tx(x.entry))
        BY <4>1, MoveFacts
      <4>4. QED
        BY <1>2, <1>8, <2>1, <2>3, <4>2, <4>3
    <3>3. CASE ~IsFee(d.entry)
      <4>1. \A x \in moves : d.entry # BestFee(L, Tx(x.entry))
        BY <3>3, MoveFacts
      <4>2. fees.owner[d.entry] = L.owner[d.entry] /\ L.owner[d.entry] # NoGroup
        BY <1>2, <1>8, <2>1, <2>3, <4>1
      <4>3. L.owner[d.entry] \in Groups /\ Placed(d.entry, L.owner[d.entry])
        BY <1>1, <2>1, <4>2, LedgerFacts DEF Sound, WellPlaced
      <4>4. QED
        BY <2>1, <3>1, <3>3, <4>2, <4>3, OnePlace
    <3>4. QED
      BY <3>2, <3>3
  <2>4. QED
    BY <2>2, <2>3
<1>14. ASSUME NEW e \in Entries, L.owner[e] # NoGroup, e \notin E,
              \A d \in moves : e # BestFee(L, Tx(d.entry))
       PROVE  O[e] = L.owner[e]
  BY <1>2, <1>8, <1>9, <1>14
<1>15. ASSUME NEW e \in Entries, O[e] # NoGroup
       PROVE  \/ \E d \in kept : d.entry = e /\ O[e] = d.group
              \/ \E d \in moves : e = BestFee(L, Tx(d.entry)) /\ O[e] = d.group
              \/ L.owner[e] # NoGroup /\ e \notin E /\ O[e] = L.owner[e]
  <2>1. CASE \E d \in kept : d.entry = e
    BY <1>13, <2>1
  <2>2. CASE \E d \in moves : e = BestFee(L, Tx(d.entry))
    BY <1>12, <2>2
  <2>3. CASE /\ ~\E d \in kept : d.entry = e
             /\ ~\E d \in moves : e = BestFee(L, Tx(d.entry))
    <3>1. O[e] = clean.owner[e]
      BY <1>8, <1>9, <2>3
    <3>2. QED
      BY <1>2, <1>15, <3>1
  <2>4. QED
    BY <2>1, <2>2, <2>3
<1>16. O \in [Entries -> Groups \cup {NoGroup}]
  <2>1. O = [e \in Entries |-> O[e]]
    BY DEF WithEntries, Owners
  <2>2. \A e \in Entries : O[e] \in Groups \cup {NoGroup}
    <3> SUFFICES ASSUME NEW e \in Entries, O[e] # NoGroup PROVE O[e] \in Groups
      OBVIOUS
    <3>1. CASE \E d \in kept : d.entry = e /\ O[e] = d.group
      BY <1>0, <1>10, <3>1
    <3>2. CASE \E d \in moves : e = BestFee(L, Tx(d.entry)) /\ O[e] = d.group
      BY <1>12, <3>2
    <3>3. CASE L.owner[e] # NoGroup /\ e \notin E /\ O[e] = L.owner[e]
      BY <1>1, <3>3, LedgerFacts
    <3>4. QED
      BY <1>15, <3>1, <3>2, <3>3
  <2> HIDE DEF fees
  <2>3. QED
    BY <2>1, <2>2
<1>17. QED
  BY <1>12, <1>13, <1>14, <1>15, <1>16

-----------------------------------------------------------------------------
(* Whatever was stored and whatever the batch drafts: afterwards too every  *)
(* transaction has at most one fee, under either identity, every action     *)
(* group owns the fee of its transaction, and no group is left without      *)
(* entries by what moved or went.                                           *)
THEOREM PersistKeepsSound ==
  ASSUME NEW L, Sound(L), NEW drafts, GoodDrafts(drafts), NEW consumed
  PROVE  Sound(PersistNormalizedLedger(L, drafts, consumed))
<1> DEFINE D      == SelectCanonicalFees(drafts)
           kept   == {d \in D : ~IsDropped(L, d)}
           moves  == Moves(L, D)
           E      == ConsumedShadows(L, kept, consumed)
           clean  == WithoutEntries(L, E)
           S      == WithEntries(WithFeesMoved(clean, moves), kept)
           O      == S.owner
           new    == {d.group : d \in kept \cup moves}
           prev   == PreviousOwners(L, moves) \ new
           R      == PersistNormalizedLedger(L, drafts, consumed)
<1>1. L \in Ledgers /\ WellPlaced(L) /\ FeeUnique(L) /\ ActionsPay(L) /\ InUse(L)
  BY DEF Sound
<1>2. GoodDrafts(D) /\ Functional(D)
  BY SelectFacts
<1>3. /\ E \in SUBSET Present(L)
      /\ \A e \in E : ~IsFee(e)
  <2>1. \A e \in E : e \in Present(L) /\ e[2] \in Logs
    BY DEF ConsumedShadows
  <2>2. QED
    BY <2>1, NamesAssumption DEF IsFee
<1>4. R = WithoutEmpty(S, prev)
  BY DEF PersistNormalizedLedger
<1>5. /\ S = [groups |-> S.groups, owner |-> O]
      /\ S.groups = clean.groups \cup {d.group : d \in moves} \cup {d.group : d \in kept}
      /\ clean.groups = L.groups \ {g \in L.groups : Members(L, g) # {} /\ Members(L, g) \subseteq E}
  BY DEF WithEntries, WithFeesMoved, WithoutEntries
<1>6. prev = {L.owner[BestFee(L, Tx(d.entry))] : d \in moves} \ new
  BY DEF PreviousOwners
<1>7. \A d \in D : d.entry \in Entries /\ d.group \in Groups /\ Placed(d.entry, d.group)
                 /\ (IsFee(d.entry) => d.entry[2] = "fee")
                 /\ (d.group[2] = "action" => Draft(Tx(d.entry), "fee", "action") \in D)
  BY <1>2 DEF GoodDrafts, Drafts
<1>8. kept \subseteq D /\ moves \subseteq D
      /\ \A d \in D : d \in kept <=> ~(IsFee(d.entry) /\ StoredFees(L, Tx(d.entry)) # {})
  BY DEF Moves, IsDropped
<1>9. /\ O \in [Entries -> Groups \cup {NoGroup}]
      /\ \A d \in kept : O[d.entry] = d.group
      /\ \A d \in moves : O[BestFee(L, Tx(d.entry))] = d.group
      /\ \A e \in Entries :
           L.owner[e] # NoGroup /\ e \notin E
             /\ (\A d \in moves : e # BestFee(L, Tx(d.entry))) => O[e] = L.owner[e]
      /\ \A e \in Entries : O[e] # NoGroup =>
           \/ \E d \in kept : d.entry = e /\ O[e] = d.group
           \/ \E d \in moves : e = BestFee(L, Tx(d.entry)) /\ O[e] = d.group
           \/ L.owner[e] # NoGroup /\ e \notin E /\ O[e] = L.owner[e]
  <2> HIDE DEF D, E
  <2>1. O = Owners(L, D, E)
    BY DEF Owners, Kept
  <2> HIDE DEF kept, moves, S, O, clean, new, prev, R
  <2>2. kept = Kept(L, D) /\ moves = Moves(L, D)
    BY DEF kept, moves, Kept
  <2>3. QED
    BY <1>2, <1>3, <2>1, <2>2, StoredOwner
<1>10. \A d \in moves :
         LET b == BestFee(L, Tx(d.entry)) IN
           /\ b \in Entries /\ IsFee(b) /\ Tx(b) = Tx(d.entry)
           /\ StoredFees(L, Tx(b)) = {b}
           /\ L.owner[b] = <<Tx(b), "tx">> /\ d.group = <<Tx(b), "action">>
           /\ Tx(b) \in Txs
  BY <1>2, MoveFacts
<1> HIDE DEF D, kept, moves, E, clean, S
<1>11. /\ R.owner = O
       /\ R.groups = S.groups \ {g \in prev : Members(S, g) = {}}
       /\ R = [groups |-> R.groups, owner |-> R.owner]
  BY <1>4, <1>5 DEF WithoutEmpty
<1> HIDE DEF R
<1>12. \A d \in kept \cup moves : d.group \in Groups
  BY <1>7, <1>8
<1>13. S.groups \subseteq Groups /\ R.groups \subseteq Groups
  BY <1>1, <1>5, <1>11, <1>12, LedgerFacts
<1>14. R \in Ledgers
  BY <1>9, <1>11, <1>13 DEF Ledgers
<1>15. \A g : Members(S, g) = {e \in Entries : O[e] = g}
  BY DEF Members
<1> HIDE DEF O
<1>16. \A e \in Entries : e \in Present(R) <=> O[e] # NoGroup
  BY <1>11, <1>14, LedgerFacts
<1>17. WellPlaced(R)
  <2> SUFFICES ASSUME NEW e \in Entries, O[e] # NoGroup
               PROVE  Placed(e, O[e])
    BY <1>11 DEF WellPlaced
  <2>1. CASE \E d \in kept : d.entry = e /\ O[e] = d.group
    BY <1>7, <1>8, <2>1
  <2>2. CASE \E d \in moves : e = BestFee(L, Tx(d.entry)) /\ O[e] = d.group
    <3>1. IsFee(e) /\ O[e] = <<Tx(e), "action">>
      BY <1>10, <2>2
    <3>2. O[e][1] = e[1] /\ O[e][2] = "action"
      BY <3>1 DEF Tx
    <3>3. e[2] \notin Logs /\ e[2] # "native" /\ e[2] # "action"
      BY <3>1, NamesAssumption DEF IsFee
    <3>4. QED
      BY <3>2, <3>3 DEF Placed
  <2>3. CASE L.owner[e] # NoGroup /\ e \notin E /\ O[e] = L.owner[e]
    BY <1>1, <2>3 DEF WellPlaced
  <2>4. QED
    BY <1>9, <2>1, <2>2, <2>3
<1>18. FeeUnique(R)
  <2> SUFFICES ASSUME NEW d \in Entries, NEW e \in Entries, O[d] # NoGroup, O[e] # NoGroup,
                      IsFee(d), IsFee(e), Tx(d) = Tx(e)
               PROVE  d = e
    BY <1>14, <1>16, LedgerFacts DEF FeeUnique
  <2>1. ASSUME NEW x \in Entries, O[x] # NoGroup, IsFee(x)
        PROVE  \/ L.owner[x] # NoGroup
               \/ x[2] = "fee" /\ StoredFees(L, Tx(x)) = {}
    <3>1. CASE \E y \in kept : y.entry = x /\ O[x] = y.group
      BY <1>7, <1>8, <2>1, <3>1
    <3>2. CASE \E y \in moves : x = BestFee(L, Tx(y.entry)) /\ O[x] = y.group
      <4>1. x \in StoredFees(L, Tx(x))
        BY <1>10, <3>2
      <4>2. QED
        BY <1>1, <4>1, LedgerFacts DEF StoredFees
    <3>3. QED
      BY <1>9, <2>1, <3>1, <3>2
  <2>2. \A x \in Entries : L.owner[x] # NoGroup /\ IsFee(x) => x \in StoredFees(L, Tx(x))
    BY <1>1, LedgerFacts DEF StoredFees
  <2>3. CASE L.owner[d] # NoGroup /\ L.owner[e] # NoGroup
    BY <1>1, <2>3, LedgerFacts DEF FeeUnique
  <2>4. CASE d[2] = "fee" /\ e[2] = "fee"
    BY <2>4, EntryFacts DEF Tx
  <2>5. QED
    BY <2>1, <2>2, <2>3, <2>4
<1>19. \A g \in new : \E e \in Entries : O[e] = g
  <2>1. \A d \in kept : d.entry \in Entries /\ O[d.entry] = d.group
    BY <1>7, <1>8, <1>9
  <2>2. \A d \in moves : BestFee(L, Tx(d.entry)) \in Entries
                        /\ O[BestFee(L, Tx(d.entry))] = d.group
    BY <1>9, <1>10
  <2>3. QED
    BY <2>1, <2>2
<1>20. \A g : g \in S.groups <=> g \in clean.groups \/ g \in new
  BY <1>5
<1>21. prev \cap new = {}
  OBVIOUS
<1>22. \A g : g \in prev => \E d \in moves : g = L.owner[BestFee(L, Tx(d.entry))]
  BY <1>6
<1>23. \A d \in moves : L.owner[BestFee(L, Tx(d.entry))] \in prev \cup new
  BY <1>6
<1>24. \A d \in kept \cup moves : d.group \in new
  OBVIOUS
<1> HIDE DEF new, prev
<1>25. \A g \in R.groups : \E e \in Entries : O[e] = g
  <2> SUFFICES ASSUME NEW g \in R.groups, g \in clean.groups, g \notin new
               PROVE  \E e \in Entries : O[e] = g
    BY <1>11, <1>19, <1>20
  <2>1. g \in L.groups /\ ~(Members(L, g) # {} /\ Members(L, g) \subseteq E)
    BY <1>5
  <2>2. PICK e \in Members(L, g) : e \notin E
    BY <1>1, <2>1, LedgerFacts DEF InUse
  <2>3. e \in Entries /\ L.owner[e] = g /\ g # NoGroup
    BY <1>1, <2>1, <2>2, LedgerFacts, GroupFacts
  <2>4. CASE \E d \in moves : e = BestFee(L, Tx(d.entry))
    <3>1. g \in prev
      BY <1>23, <2>3, <2>4
    <3>2. Members(S, g) # {}
      BY <1>11, <3>1
    <3>3. QED
      BY <1>15, <3>2
  <2>5. CASE \A d \in moves : e # BestFee(L, Tx(d.entry))
    BY <1>9, <2>2, <2>3, <2>5
  <2>6. QED
    BY <2>4, <2>5
<1>26. \A e \in Entries : O[e] # NoGroup => O[e] \in R.groups
  <2> SUFFICES ASSUME NEW e \in Entries, O[e] # NoGroup PROVE O[e] \in R.groups
    OBVIOUS
  <2>1. Members(S, O[e]) # {}
    BY <1>15
  <2>2. O[e] \in S.groups
    <3>1. CASE (\E d \in kept : O[e] = d.group) \/ (\E d \in moves : O[e] = d.group)
      BY <1>20, <1>24, <3>1
    <3>2. CASE L.owner[e] # NoGroup /\ e \notin E /\ O[e] = L.owner[e]
      <4>1. O[e] \in L.groups /\ e \in Members(L, O[e])
        BY <1>1, <3>2, LedgerFacts DEF InUse
      <4>2. O[e] \in clean.groups
        BY <1>5, <3>2, <4>1
      <4>3. QED
        BY <1>20, <4>2
    <3>3. QED
      BY <1>9, <3>1, <3>2
  <2>3. QED
    BY <1>11, <2>1, <2>2
<1>27. InUse(R)
  <2>1. \A g \in R.groups : g # NoGroup
    BY <1>13, GroupFacts
  <2>2. \A g : g \in R.groups <=> \E e \in Entries : O[e] # NoGroup /\ O[e] = g
    BY <1>25, <1>26, <2>1
  <2>3. Present(R) \subseteq Entries
    BY <1>14, LedgerFacts
  <2>4. \A g : g \in R.groups <=> \E e \in Present(R) : R.owner[e] = g
    BY <1>11, <1>16, <2>2, <2>3
  <2>5. QED
    BY <2>4 DEF InUse
<1>28. ActionsPay(R)
  <2> SUFFICES ASSUME NEW t \in Txs, <<t, "action">> \in R.groups
               PROVE  \E e \in Entries : O[e] = <<t, "action">> /\ IsFee(e)
    BY <1>11, <1>14, LedgerFacts DEF ActionsPay
  <2> DEFINE g == <<t, "action">>
  <2>1. g[1] = t /\ g[2] = "action" /\ g \in Groups
    BY <1>13
  <2>2. ASSUME NEW b \in Entries, IsFee(b), Tx(b) = t, L.owner[b] # NoGroup,
               L.owner[b][2] = "action"
        PROVE  O[b] = g
    <3>1. L.owner[b] = g
      <4>1. L.owner[b] \in Groups /\ L.owner[b][1] = t
        BY <1>1, <2>2, LedgerFacts DEF WellPlaced, Placed, Tx
      <4> HIDE DEF g
      <4>2. QED
        BY <2>1, <2>2, <4>1, GroupFacts
    <3>2. \A d \in moves : b # BestFee(L, Tx(d.entry))
      <4> SUFFICES ASSUME NEW d \in moves, b = BestFee(L, Tx(d.entry)) PROVE FALSE
        OBVIOUS
      <4>1. L.owner[b] = <<Tx(b), "tx">>
        BY <1>10
      <4>2. L.owner[b][2] = "tx"
        BY <4>1
      <4>3. QED
        BY <2>2, <4>2
    <3>3. QED
      BY <1>3, <1>9, <2>2, <3>1, <3>2
  <2>3. CASE g \in L.groups
    <3>1. PICK e \in Members(L, g) : IsFee(e)
      BY <1>1, <2>3 DEF ActionsPay
    <3>2. e \in Entries /\ L.owner[e] = g /\ L.owner[e] # NoGroup
      BY <1>1, <2>1, <3>1, LedgerFacts, GroupFacts
    <3>3. Tx(e) = t /\ L.owner[e][2] = "action"
      BY <1>1, <2>1, <3>2 DEF WellPlaced, Placed, Tx
    <3>4. O[e] = g
      BY <2>2, <3>1, <3>2, <3>3
    <3>5. QED
      BY <3>1, <3>2, <3>4
  <2>4. CASE \E d \in moves : d.group = g
    BY <1>9, <1>10, <2>4
  <2>5. CASE \E d \in kept : d.group = g
    <3>1. PICK d \in kept : d.group = g
      BY <2>5
    <3>2. d \in D /\ d.group[2] = "action" /\ Tx(d.entry) = t
      BY <1>7, <1>8, <2>1, <3>1 DEF Placed, Tx
    <3> DEFINE fee == Draft(t, "fee", "action")
    <3>3. fee \in D
      BY <1>7, <3>2
    <3>4. fee.entry = <<t, "fee">> /\ fee.group = g /\ IsFee(fee.entry) /\ Tx(fee.entry) = t
      BY DEF Draft, IsFee, Tx
    <3>5. fee.entry \in Entries
      BY <1>7, <3>3
    <3> HIDE DEF fee, g
    <3>6. CASE StoredFees(L, t) = {}
      <4>1. fee \in kept
        BY <1>8, <3>3, <3>4, <3>6
      <4>2. O[fee.entry] = g
        BY <1>9, <3>4, <4>1
      <4>3. QED
        BY <3>4, <3>5, <4>2 DEF g
    <3>7. CASE StoredFees(L, t) # {}
      <4>1. PICK b \in StoredFees(L, t) : TRUE
        BY <3>7
      <4>2. b \in Entries /\ IsFee(b) /\ Tx(b) = t /\ L.owner[b] # NoGroup
        BY <1>1, <4>1, LedgerFacts DEF StoredFees
      <4>3. BestFee(L, t) = b
        BY <1>1, <4>1, BestFeeIs
      <4>4. CASE L.owner[b][2] = "action"
        BY <2>2, <4>2, <4>4 DEF g
      <4>5. CASE L.owner[b][2] # "action"
        <5>1. FeeOwnerPriority(fee.group) < FeeOwnerPriority(L.owner[b])
          BY <2>1, <3>4, <4>5 DEF FeeOwnerPriority
        <5>2. fee \in moves
          BY <3>3, <3>4, <3>7, <4>3, <5>1 DEF moves, Moves, IsDropped
        <5>3. O[b] = g
          BY <1>9, <3>4, <4>3, <5>2
        <5>4. QED
          BY <4>2, <5>3 DEF g
      <4>6. QED
        BY <4>4, <4>5
    <3>8. QED
      BY <3>6, <3>7
  <2>6. g \in L.groups \/ (\E d \in moves : d.group = g) \/ (\E d \in kept : d.group = g)
    BY <1>5, <1>11
  <2>7. QED
    BY <2>3, <2>4, <2>5, <2>6
<1>29. QED
  BY <1>14, <1>17, <1>18, <1>27, <1>28 DEF Sound, R

-----------------------------------------------------------------------------
(* Of the fees drafted for a transaction one is selected.                   *)
LEMMA SelectedFee ==
  ASSUME NEW drafts, NEW d \in drafts
  PROVE  /\ ~IsFee(d.entry) => d \in SelectCanonicalFees(drafts)
         /\ IsFee(d.entry) => \E x \in SelectCanonicalFees(drafts) :
                               IsFee(x.entry) /\ Tx(x.entry) = Tx(d.entry)
<1>1. CASE \E x \in drafts : IsFee(x.entry) /\ Tx(x.entry) = Tx(d.entry) /\ x.group[2] = "action"
  BY <1>1 DEF SelectCanonicalFees, FeeOwnerPriority
<1>2. CASE ~ \E x \in drafts : IsFee(x.entry) /\ Tx(x.entry) = Tx(d.entry) /\ x.group[2] = "action"
  BY <1>2 DEF SelectCanonicalFees, FeeOwnerPriority
<1>3. QED
  BY <1>1, <1>2

(* What persisting makes of each entry, as far as it matters who drafted it:*)
(* stored entries go only as shadows of an action in the batch, whatever is *)
(* there was stored or drafted, and whatever was drafted is there, a fee    *)
(* under one identity or the other.                                         *)
LEMMA PersistFacts ==
  ASSUME NEW L, Sound(L), NEW drafts, GoodDrafts(drafts), NEW consumed,
         NEW R, R = PersistNormalizedLedger(L, drafts, consumed)
  PROVE  /\ \A e \in Entries : L.owner[e] # NoGroup /\ R.owner[e] = NoGroup =>
              /\ e[2] \in Logs
              /\ \E d \in drafts : Tx(d.entry) = Tx(e) /\ GroupFamily(d.group) # "TRANSFERS"
         /\ \A e \in Entries : R.owner[e] # NoGroup =>
              \/ R.owner[e] = L.owner[e]
              \/ \E d \in drafts : /\ Tx(d.entry) = Tx(e) /\ R.owner[e] = d.group
                                   /\ d.entry = e \/ (IsFee(e) /\ IsFee(d.entry))
         /\ \A d \in drafts : ~IsFee(d.entry) => R.owner[d.entry] # NoGroup
         /\ \A d \in drafts : IsFee(d.entry) =>
              \E e \in Entries : IsFee(e) /\ Tx(e) = Tx(d.entry) /\ R.owner[e] # NoGroup
         /\ \A e \in Entries :
              /\ e[2] \in Logs /\ Tx(e) \in consumed
              /\ \E d \in drafts : /\ Tx(d.entry) = Tx(e) /\ ~IsFee(d.entry)
                                   /\ GroupFamily(d.group) # "TRANSFERS"
              /\ \A d \in drafts : d.entry # e
              => R.owner[e] = NoGroup
<1> DEFINE D     == SelectCanonicalFees(drafts)
           kept  == Kept(L, D)
           moves == Moves(L, D)
           E     == ConsumedShadows(L, kept, consumed)
           O     == Owners(L, D, E)
<1>1. L \in Ledgers /\ WellPlaced(L) /\ FeeUnique(L)
  BY DEF Sound
<1>2. GoodDrafts(D) /\ Functional(D) /\ D \subseteq drafts
  BY SelectFacts DEF SelectCanonicalFees
<1>3. R.owner = O
  BY DEF PersistNormalizedLedger, WithoutEmpty, Owners, Kept
<1>4. /\ E \in SUBSET Present(L)
      /\ \A e \in E : e[2] \in Logs /\ ~IsFee(e)
      /\ \A e \in E : \E d \in kept : Tx(d.entry) = Tx(e) /\ GroupFamily(d.group) # "TRANSFERS"
  <2>1. \A e \in E : e \in Present(L) /\ e[2] \in Logs
    BY DEF ConsumedShadows
  <2>2. \A e \in E : \E d \in kept : Tx(d.entry) = Tx(e) /\ GroupFamily(d.group) # "TRANSFERS"
    BY DEF ConsumedShadows
  <2>3. QED
    BY <2>1, <2>2, NamesAssumption DEF IsFee
<1>5. \A d \in D : d \in kept <=> ~(IsFee(d.entry) /\ StoredFees(L, Tx(d.entry)) # {})
  BY DEF Kept, IsDropped
<1>6. kept \subseteq D /\ moves \subseteq D
  BY DEF Kept, Moves
<1>7. \A d \in moves :
         LET b == BestFee(L, Tx(d.entry)) IN
           b \in Entries /\ IsFee(b) /\ Tx(b) = Tx(d.entry) /\ IsFee(d.entry)
  BY <1>2, MoveFacts DEF Moves, IsDropped
<1>8. \A d \in drafts : /\ ~IsFee(d.entry) => d \in D
                        /\ IsFee(d.entry) => \E x \in D : IsFee(x.entry)
                                                         /\ Tx(x.entry) = Tx(d.entry)
  BY SelectedFee
<1>9. \A d \in drafts : d.entry \in Entries /\ d.group \in Groups
  BY DEF GoodDrafts, Drafts
<1>10. ASSUME NEW e \in Entries, e[2] \in Logs, Tx(e) \in consumed, L.owner[e] # NoGroup,
              NEW d \in drafts, Tx(d.entry) = Tx(e), ~IsFee(d.entry),
              GroupFamily(d.group) # "TRANSFERS"
       PROVE  e \in E
  <2>1. d \in kept
    BY <1>5, <1>8, <1>10
  <2>2. L.owner[e][2] = e[2]
    BY <1>1, <1>10 DEF WellPlaced, Placed
  <2>3. GroupFamily(L.owner[e]) = "TRANSFERS"
    BY <1>10, <2>2, NamesAssumption DEF GroupFamily
  <2>4. e \in Present(L)
    BY <1>1, <1>10, LedgerFacts
  <2>5. QED
    BY <1>10, <2>1, <2>3, <2>4 DEF ConsumedShadows
<1> HIDE DEF D, kept, moves, E, O
<1>11. /\ \A d \in kept : O[d.entry] = d.group
       /\ \A d \in moves : O[BestFee(L, Tx(d.entry))] = d.group
       /\ \A e \in Entries :
            L.owner[e] # NoGroup /\ e \notin E
              /\ (\A d \in moves : e # BestFee(L, Tx(d.entry))) => O[e] = L.owner[e]
       /\ \A e \in Entries : O[e] # NoGroup =>
            \/ \E d \in kept : d.entry = e /\ O[e] = d.group
            \/ \E d \in moves : e = BestFee(L, Tx(d.entry)) /\ O[e] = d.group
            \/ L.owner[e] # NoGroup /\ e \notin E /\ O[e] = L.owner[e]
  <2>1. kept = Kept(L, D) /\ moves = Moves(L, D) /\ O = Owners(L, D, E)
    BY DEF kept, moves, O
  <2>2. QED
    BY <1>2, <1>4, <2>1, StoredOwner
<1>12. \A d \in drafts : d.group # NoGroup
  BY <1>9, GroupFacts
<1>13. ASSUME NEW e \in Entries, L.owner[e] # NoGroup, e \notin E
       PROVE  O[e] # NoGroup
  BY <1>2, <1>6, <1>11, <1>12, <1>13
<1>14. ASSUME NEW d \in drafts, ~IsFee(d.entry)
       PROVE  O[d.entry] # NoGroup
  BY <1>5, <1>8, <1>11, <1>12, <1>14
<1>15. ASSUME NEW d \in drafts, IsFee(d.entry)
       PROVE  \E e \in Entries : IsFee(e) /\ Tx(e) = Tx(d.entry) /\ O[e] # NoGroup
  <2>1. PICK x \in D : IsFee(x.entry) /\ Tx(x.entry) = Tx(d.entry)
    BY <1>8, <1>15
  <2>2. CASE x \in kept
    BY <1>2, <1>9, <1>11, <1>12, <2>1, <2>2
  <2>3. CASE x \notin kept
    <3>1. PICK b \in StoredFees(L, Tx(x.entry)) : TRUE
      BY <1>5, <2>1, <2>3
    <3>2. b \in Entries /\ L.owner[b] # NoGroup /\ IsFee(b) /\ Tx(b) = Tx(x.entry)
      BY <1>1, <3>1, LedgerFacts DEF StoredFees
    <3>3. O[b] # NoGroup
      BY <1>4, <1>13, <3>2
    <3>4. QED
      BY <2>1, <3>2, <3>3
  <2>4. QED
    BY <2>2, <2>3
<1>16. ASSUME NEW e \in Entries, e \in E, \A d \in drafts : d.entry # e
       PROVE  O[e] = NoGroup
  <2>1. \A d \in kept : d.entry # e
    BY <1>2, <1>6, <1>16
  <2>2. \A d \in moves : e # BestFee(L, Tx(d.entry))
    BY <1>4, <1>7, <1>16
  <2>3. QED
    BY <1>11, <1>16, <2>1, <2>2
<1>17. ASSUME NEW e \in Entries, L.owner[e] = NoGroup, \A d \in drafts : d.entry # e, ~IsFee(e)
       PROVE  O[e] = NoGroup
  <2>1. \A d \in kept : d.entry # e
    BY <1>2, <1>6, <1>17
  <2>2. \A d \in moves : e # BestFee(L, Tx(d.entry))
    BY <1>7, <1>17
  <2>3. QED
    BY <1>11, <1>17, <2>1, <2>2
<1>18. ASSUME NEW e \in Entries, O[e] # NoGroup
       PROVE  \/ O[e] = L.owner[e]
              \/ \E d \in drafts : /\ Tx(d.entry) = Tx(e) /\ O[e] = d.group
                                   /\ d.entry = e \/ (IsFee(e) /\ IsFee(d.entry))
  BY <1>2, <1>6, <1>7, <1>11, <1>18
<1>19. ASSUME NEW e \in Entries, L.owner[e] # NoGroup, O[e] = NoGroup
       PROVE  /\ e[2] \in Logs
              /\ \E d \in drafts : Tx(d.entry) = Tx(e) /\ GroupFamily(d.group) # "TRANSFERS"
  <2>1. e \in E
    BY <1>13, <1>19
  <2>2. QED
    BY <1>2, <1>4, <1>6, <2>1
<1>20. ASSUME NEW e \in Entries, e[2] \in Logs, Tx(e) \in consumed,
              NEW d \in drafts, Tx(d.entry) = Tx(e), ~IsFee(d.entry),
              GroupFamily(d.group) # "TRANSFERS", \A x \in drafts : x.entry # e
       PROVE  O[e] = NoGroup
  <2>1. ~IsFee(e)
    BY <1>20, NamesAssumption DEF IsFee
  <2>2. CASE L.owner[e] # NoGroup
    BY <1>10, <1>16, <1>20, <2>2
  <2>3. CASE L.owner[e] = NoGroup
    BY <1>17, <1>20, <2>1, <2>3
  <2>4. QED
    BY <2>2, <2>3
<1>21. QED
  BY <1>3, <1>14, <1>15, <1>18, <1>19, <1>20

-----------------------------------------------------------------------------
(* The processes                                                            *)

(* What a process is about to persist is what its normalizers draft.        *)
DraftsGood == \A p \in Procs : GoodDrafts(op[p].drafts)

(* Evidence is recorded for an action that was found.                       *)
ActionInHand == \A p \in Procs : op[p].pc = "evidence" => op[p].todo # {}

IInv == TypeOK /\ Sound(ledger) /\ DraftsGood /\ ActionInHand

-----------------------------------------------------------------------------
(* Drafts                                                                   *)

LEMMA NoDrafts == GoodDrafts({})
BY DEF GoodDrafts

LEMMA BothGood ==
  ASSUME NEW A, NEW B, GoodDrafts(A), GoodDrafts(B)
  PROVE  GoodDrafts(A \cup B)
BY DEF GoodDrafts

LEMMA DraftPlaced ==
  ASSUME NEW t \in Txs, NEW e \in Logs \cup {"native", "action", "fee", "legacyFee"},
         NEW g \in Logs \cup {"tx", "action"},
         \/ e \in Logs /\ g = e
         \/ e \in {"native", "legacyFee"} /\ g = "tx"
         \/ e = "action" /\ g = "action"
         \/ e = "fee" /\ g \in {"tx", "action"}
  PROVE  /\ Draft(t, e, g) \in Drafts
         /\ Placed(Draft(t, e, g).entry, Draft(t, e, g).group)
<1>1. Draft(t, e, g) = [entry |-> <<t, e>>, group |-> <<t, g>>]
  BY DEF Draft
<1>2. <<t, e>> \in Entries /\ <<t, g>> \in Groups
  BY EntryFacts, GroupFacts
<1>3. Placed(<<t, e>>, <<t, g>>)
  BY NamesAssumption DEF Placed, IsFee
<1>4. QED
  BY <1>1, <1>2, <1>3 DEF Drafts

LEMMA ActionDraftsGood ==
  ASSUME NEW acts \in SUBSET Txs
  PROVE  GoodDrafts(NormalizeActions(acts))
<1> DEFINE D == NormalizeActions(acts)
<1>1. \A d \in D : \E t \in acts : d = Draft(t, "action", "action") \/ d = Draft(t, "fee", "action")
  BY DEF NormalizeActions, ActionDrafts
<1>2. \A t \in acts : Draft(t, "action", "action") \in D /\ Draft(t, "fee", "action") \in D
  BY DEF NormalizeActions, ActionDrafts
<1> HIDE DEF D
<1>3. \A t \in Txs : \A e \in {"action", "fee"} :
        /\ Draft(t, e, "action") \in Drafts
        /\ Placed(Draft(t, e, "action").entry, Draft(t, e, "action").group)
  BY DraftPlaced
<1>4. \A t : Tx(Draft(t, "action", "action").entry) = t /\ Tx(Draft(t, "fee", "action").entry) = t
  BY DEF Draft, Tx
<1>5. \A t : ~IsFee(Draft(t, "action", "action").entry)
             /\ Draft(t, "fee", "action").entry[2] = "fee"
  BY DEF Draft, IsFee
<1>6. GoodDrafts(D)
  BY <1>1, <1>2, <1>3, <1>4, <1>5 DEF GoodDrafts
<1>7. QED
  BY <1>6 DEF D

LEMMA TransferDraftsGood ==
  ASSUME NEW snap \in Snapshots, NEW consumed
  PROVE  GoodDrafts(NormalizeTransfers(snap, consumed))
<1> DEFINE D == NormalizeTransfers(snap, consumed)
<1>1. snap.transfers \subseteq Txs /\ snap.transactions \subseteq Txs
  BY DEF Snapshots
<1>2. \A t \in Txs : Shape[t].logs \subseteq Logs
  BY ShapeAssumption DEF Shapes
<1>3. \A d \in D : \E t \in Txs :
        \/ \E l \in Logs : d = Draft(t, l, l)
        \/ d = Draft(t, "native", "tx")
        \/ d = Draft(t, "fee", "tx")
  BY <1>1, <1>2 DEF NormalizeTransfers, TransferDrafts, NativeDrafts
<1> HIDE DEF D
<1>4. ASSUME NEW t \in Txs, NEW e, NEW g,
             \/ e \in Logs /\ g = e
             \/ e \in {"native", "fee"} /\ g = "tx"
      PROVE  /\ Draft(t, e, g) \in Drafts
             /\ Placed(Draft(t, e, g).entry, Draft(t, e, g).group)
             /\ IsFee(Draft(t, e, g).entry) => Draft(t, e, g).entry[2] = "fee"
             /\ Draft(t, e, g).group[2] # "action"
  <2>1. /\ Draft(t, e, g) \in Drafts
        /\ Placed(Draft(t, e, g).entry, Draft(t, e, g).group)
    BY <1>4, DraftPlaced
  <2>2. Draft(t, e, g).entry[2] = e /\ Draft(t, e, g).group[2] = g
    BY DEF Draft
  <2>3. QED
    BY <1>4, <2>1, <2>2, NamesAssumption DEF IsFee
<1>5. \A d \in D : /\ d \in Drafts
                   /\ Placed(d.entry, d.group)
                   /\ IsFee(d.entry) => d.entry[2] = "fee"
                   /\ d.group[2] # "action"
  BY <1>3, <1>4
<1>6. GoodDrafts(D)
  BY <1>5 DEF GoodDrafts
<1>7. QED
  BY <1>6 DEF D

(* What earlier versions left is sound: they knew no actions.               *)
LEMMA LegacySound ==
  ASSUME NEW H \in Histories
  PROVE  Sound(WithEntries([groups |-> {}, owner |-> [e \in Entries |-> NoGroup]],
                           LegacyDrafts(H)))
<1> DEFINE D == LegacyDrafts(H)
           none == [groups |-> {}, owner |-> [e \in Entries |-> NoGroup]]
           L == WithEntries(none, D)
<1>1. H \subseteq Txs
  BY HistoriesAssumption
<1>2. \A t \in Txs : Shape[t].logs \subseteq Logs
  BY ShapeAssumption DEF Shapes
<1>3. \A d \in D : \E t \in Txs :
        (\E l \in Logs : d = Draft(t, l, l)) \/ d = Draft(t, "legacyFee", "tx")
  <2> SUFFICES ASSUME NEW d \in D
               PROVE  \E t \in Txs :
                        (\E l \in Logs : d = Draft(t, l, l)) \/ d = Draft(t, "legacyFee", "tx")
    OBVIOUS
  <2>1. CASE d \in UNION {{Draft(t, l, l) : l \in Shape[t].logs} : t \in H}
    BY <1>1, <1>2, <2>1
  <2>2. CASE d \in {Draft(t, "legacyFee", "tx") : t \in {u \in H : Shape[u].pays}}
    BY <1>1, <2>2
  <2>3. QED
    BY <2>1, <2>2 DEF LegacyDrafts
<1> DEFINE Fits(d) == /\ d \in Drafts
                      /\ Placed(d.entry, d.group)
                      /\ IsFee(d.entry) => d.entry[2] = "legacyFee"
                      /\ d.group[2] # "action"
<1>4. \A t \in Txs : Fits(Draft(t, "legacyFee", "tx")) /\ \A l \in Logs : Fits(Draft(t, l, l))
  <2> SUFFICES ASSUME NEW t \in Txs
               PROVE  Fits(Draft(t, "legacyFee", "tx")) /\ \A l \in Logs : Fits(Draft(t, l, l))
    OBVIOUS
  <2>1. Fits(Draft(t, "legacyFee", "tx"))
    <3> DEFINE d == Draft(t, "legacyFee", "tx")
    <3>1. d \in Drafts /\ Placed(d.entry, d.group)
      BY DraftPlaced
    <3>2. d.entry[2] = "legacyFee" /\ d.group[2] = "tx"
      BY DEF Draft
    <3>3. QED
      BY <3>1, <3>2
  <2>2. ASSUME NEW l \in Logs PROVE Fits(Draft(t, l, l))
    <3> DEFINE d == Draft(t, l, l)
    <3>1. d \in Drafts /\ Placed(d.entry, d.group)
      BY DraftPlaced
    <3>2. d.entry[2] = l /\ d.group[2] = l
      BY DEF Draft
    <3>3. QED
      BY <3>1, <3>2, NamesAssumption DEF IsFee
  <2>3. QED
    BY <2>1, <2>2
<1> HIDE DEF D, Fits
<1>5. \A d \in D : /\ d \in Drafts
                   /\ Placed(d.entry, d.group)
                   /\ IsFee(d.entry) => d.entry[2] = "legacyFee"
                   /\ d.group[2] # "action"
  <2>1. \A d \in D : Fits(d)
    BY <1>3, <1>4
  <2>2. QED
    BY <2>1 DEF Fits
<1>6. \A d \in D : d.entry \in Entries /\ d.group \in Groups
  BY <1>5 DEF Drafts
<1>7. ASSUME NEW d \in D, NEW x \in D, d.entry = x.entry
      PROVE  d.group = x.group
  <2>1. CASE ~IsFee(d.entry)
    BY <1>5, <1>6, <1>7, <2>1, OnePlace
  <2>2. CASE IsFee(d.entry)
    <3>1. \A y \in D : IsFee(y.entry) => \E t \in Txs : y = Draft(t, "legacyFee", "tx")
      <4>1. \A t \in Txs, l \in Logs : ~IsFee(Draft(t, l, l).entry)
        BY NamesAssumption DEF Draft, IsFee
      <4>2. QED
        BY <1>3, <4>1
    <3>2. PICK t \in Txs : d = Draft(t, "legacyFee", "tx")
      BY <2>2, <3>1
    <3>3. PICK u \in Txs : x = Draft(u, "legacyFee", "tx")
      BY <1>7, <2>2, <3>1
    <3>4. t = u
      BY <1>7, <3>2, <3>3 DEF Draft
    <3>5. QED
      BY <3>2, <3>3, <3>4
  <2>3. QED
    BY <2>1, <2>2
<1>8. /\ L.groups = {d.group : d \in D}
      /\ L.owner = [e \in Entries |-> IF \E d \in D : d.entry = e
                       THEN (CHOOSE d \in D : d.entry = e).group ELSE NoGroup]
      /\ L = [groups |-> L.groups, owner |-> L.owner]
  BY DEF WithEntries
<1>9. \A d \in D : L.owner[d.entry] = d.group
  <2> SUFFICES ASSUME NEW d \in D PROVE L.owner[d.entry] = d.group
    OBVIOUS
  <2>1. (CHOOSE x \in D : x.entry = d.entry).group = d.group
    BY <1>7
  <2>2. QED
    BY <1>6, <1>8, <2>1
<1>10. \A e \in Entries : L.owner[e] # NoGroup => \E d \in D : d.entry = e /\ L.owner[e] = d.group
  BY <1>8, <1>9
<1> HIDE DEF L
<1>11. L \in Ledgers
  <2>1. L.groups \subseteq Groups
    BY <1>6, <1>8
  <2>2. \A e \in Entries : L.owner[e] \in Groups \cup {NoGroup}
    BY <1>6, <1>10
  <2>3. L.owner \in [Entries -> Groups \cup {NoGroup}]
    BY <1>8, <2>2
  <2>4. QED
    BY <1>8, <2>1, <2>3 DEF Ledgers
<1>12. WellPlaced(L)
  BY <1>5, <1>10 DEF WellPlaced
<1>13. FeeUnique(L)
  <2>1. \A e \in Present(L) : IsFee(e) => e \in Entries /\ e[2] = "legacyFee"
    BY <1>5, <1>10, <1>11, LedgerFacts
  <2>2. QED
    BY <2>1, EntryFacts DEF FeeUnique, Tx
<1>14. InUse(L)
  <2>1. \A g : g \in L.groups <=> \E e \in Present(L) : L.owner[e] = g
    <3>1. ASSUME NEW d \in D
          PROVE  d.entry \in Present(L) /\ L.owner[d.entry] = d.group
      BY <1>6, <1>9, <1>11, LedgerFacts, GroupFacts
    <3>2. ASSUME NEW e \in Present(L)
          PROVE  \E d \in D : L.owner[e] = d.group
      BY <1>10, <1>11, LedgerFacts
    <3>3. \A g : g \in L.groups <=> \E d \in D : g = d.group
      BY <1>8
    <3>4. QED
      BY <3>1, <3>2, <3>3
  <2>2. QED
    BY <2>1 DEF InUse
<1>15. ActionsPay(L)
  <2>1. \A g \in L.groups : g[2] # "action"
    BY <1>5, <1>8
  <2>2. \A t \in Txs : <<t, "action">>[2] = "action"
    OBVIOUS
  <2>3. QED
    BY <2>1, <2>2 DEF ActionsPay
<1>16. QED
  BY <1>11, <1>12, <1>13, <1>14, <1>15 DEF Sound, L, D

-----------------------------------------------------------------------------
(* The first of some blocks is one of them.                                 *)
LEMMA FirstIn ==
  ASSUME NEW S \in SUBSET Txs, S # {}
  PROVE  First(S) \in S
<1>1. S \subseteq Nat
  BY NamesAssumption
<1>2. PICK t \in S : \A u \in S : ~(<<u, t>> \in OpToRel(<, Nat))
  BY <1>1, NatLessThanWellFounded, WFMin
<1>3. \A u \in S : t <= u
  <2>1. \A u \in S : ~(u < t)
    BY <1>1, <1>2 DEF OpToRel
  <2>2. QED
    BY <1>1, <2>1
<1>4. QED
  BY <1>3 DEF First

LEMMA SnapshotTypes == ASSUME TypeOK, NEW W \in SUBSET Txs
                       PROVE  RowsIn(W) \in Snapshots /\ WithoutTransfers(RowsIn(W)) \in SUBSET Txs
BY DEF TypeOK, RowsIn, Snapshots, WithoutTransfers, TransferLogs

LEMMA IdleTypes == Idle \in Ops /\ NoRows \in Snapshots /\ GoodDrafts(Idle.drafts)
<1>1. NoRows \in Snapshots
  BY DEF NoRows, Snapshots
<1>2. Idle \in Ops
  BY <1>1 DEF Idle, Ops, Steps
<1>3. Idle.drafts = {}
  BY DEF Idle
<1>4. QED
  BY <1>1, <1>2, <1>3, NoDrafts

LEMMA OpTypes ==
  ASSUME TypeOK, NEW p \in Procs
  PROVE  /\ op[p] \in Ops /\ op[p].window \in SUBSET Txs /\ op[p].todo \in SUBSET Txs
         /\ op[p].drafts \in SUBSET Drafts /\ op[p].scope \in SUBSET Txs
         /\ op[p].families \in SUBSET Families /\ op[p].rows \in Snapshots
BY DEF TypeOK, Ops

(* A step of one process, by what becomes of it.                            *)
LEMMA ProcessStep ==
  ASSUME IInv, NEW p \in Procs, NEW o \in Ops, op' = [op EXCEPT ![p] = o],
         GoodDrafts(o.drafts), o.pc = "evidence" => o.todo # {}
  PROVE  op' \in [Procs -> Ops] /\ DraftsGood' /\ ActionInHand'
<1>1. op \in [Procs -> Ops]
  BY DEF IInv, TypeOK
<1>2. op' \in [Procs -> Ops] /\ \A q \in Procs : op'[q] = IF q = p THEN o ELSE op[q]
  BY <1>1
<1>3. QED
  BY <1>2 DEF IInv, DraftsGood, ActionInHand

LEMMA InitInvariant == Init => IInv
<1> SUFFICES ASSUME Init PROVE IInv
  OBVIOUS
<1>1. PICK H \in Histories :
        /\ blocks = H
        /\ transactions = {t \in H : Touches(t)}
        /\ transfers = H
        /\ actions = {t \in H : Actual(t)}
        /\ ledger = WithEntries([groups |-> {}, owner |-> [e \in Entries |-> NoGroup]],
                               LegacyDrafts(H))
  BY DEF Init
<1>2. H \subseteq Txs
  BY HistoriesAssumption
<1>3. Sound(ledger)
  BY <1>1, LegacySound
<1>4. op = [p \in Procs |-> Idle] /\ evidence = {} /\ misread = FALSE /\ premature = {}
      /\ covered = [f \in Families |-> {}]
  BY DEF Init
<1>5. TypeOK
  BY <1>1, <1>2, <1>3, <1>4, IdleTypes DEF TypeOK, Sound
<1>6. DraftsGood /\ ActionInHand
  BY <1>4, IdleTypes DEF DraftsGood, ActionInHand, Idle
<1>7. QED
  BY <1>3, <1>5, <1>6 DEF IInv

-----------------------------------------------------------------------------
(* Steps that leave the ledger alone.                                       *)

LEMMA StartSyncKeeps ==
  ASSUME IInv, NEW p \in Procs, NEW f \in Families, NEW W \in Windows, StartSync(p, f, W)
  PROVE  IInv'
<1> DEFINE o == [Idle EXCEPT !.pc = "scan", !.families = {f}, !.window = W, !.todo = W]
<1>1. W \in SUBSET Txs
  BY DEF Windows
<1>2. op' = [op EXCEPT ![p] = o] /\ UNCHANGED <<raw, ledger, covered, misread, premature>>
  BY DEF StartSync
<1>3. o \in Ops /\ o.drafts = Idle.drafts /\ o.pc # "evidence"
  BY <1>1, IdleTypes DEF Ops, Steps, SyncSteps, RebuildSteps, Idle
<1>4. op' \in [Procs -> Ops] /\ DraftsGood' /\ ActionInHand'
  BY <1>2, <1>3, ProcessStep, IdleTypes
<1>5. QED
  BY <1>2, <1>4 DEF IInv, TypeOK, raw

LEMMA StartRebuildKeeps ==
  ASSUME IInv, NEW p \in Procs, NEW F \in SUBSET Families, NEW W \in Windows, StartRebuild(p, F, W)
  PROVE  IInv'
<1> DEFINE o == [Idle EXCEPT !.pc = "readAll", !.families = F, !.window = W]
<1>1. W \in SUBSET Txs
  BY DEF Windows
<1>2. op' = [op EXCEPT ![p] = o] /\ UNCHANGED <<raw, ledger, covered, misread, premature>>
  BY DEF StartRebuild
<1>3. o \in Ops /\ o.drafts = Idle.drafts /\ o.pc # "evidence"
  BY <1>1, IdleTypes DEF Ops, Steps, SyncSteps, RebuildSteps, Idle
<1>4. op' \in [Procs -> Ops] /\ DraftsGood' /\ ActionInHand'
  BY <1>2, <1>3, ProcessStep, IdleTypes
<1>5. QED
  BY <1>2, <1>4 DEF IInv, TypeOK, raw

LEMMA ScanBlockKeeps ==
  ASSUME IInv, NEW p \in Procs, ScanBlock(p)
  PROVE  IInv'
<1>1. TypeOK /\ Sound(ledger) /\ op[p].todo \in SUBSET Txs /\ op[p].todo # {}
  BY OpTypes DEF IInv, ScanBlock
<1> DEFINE b == First(op[p].todo)
           o == [op[p] EXCEPT !.todo = @ \ {b}]
<1>2. b \in Txs
  BY <1>1, FirstIn
<1>3. /\ blocks' = blocks \cup {b}
      /\ transactions' = transactions \cup {t \in {b} : Touches(t)}
      /\ op' = [op EXCEPT ![p] = o]
      /\ op[p].pc = "scan"
      /\ UNCHANGED <<transfers, actions, evidence, ledger, covered, misread, premature>>
  BY DEF ScanBlock
<1> HIDE DEF b
<1>4. o \in Ops /\ o.drafts = op[p].drafts /\ o.pc # "evidence"
  BY <1>1, <1>2, <1>3, OpTypes DEF Ops
<1>5. op' \in [Procs -> Ops] /\ DraftsGood' /\ ActionInHand'
  BY <1>3, <1>4, ProcessStep DEF IInv, DraftsGood
<1>6. QED
  BY <1>1, <1>2, <1>3, <1>5 DEF IInv, TypeOK

LEMMA StoreTransfersKeeps ==
  ASSUME IInv, NEW p \in Procs, StoreTransfers(p)
  PROVE  IInv'
<1>1. TypeOK /\ op[p].window \in SUBSET Txs
  BY OpTypes DEF IInv
<1>2. PICK lost \in SUBSET MayBeUnreadable(op[p].window) :
        /\ transfers' = transfers \cup (TransferLogs(op[p].window) \ lost)
        /\ op' = [op EXCEPT ![p].pc = "read", ![p].warned = lost # {}]
  BY DEF StoreTransfers
<1> DEFINE o == [op[p] EXCEPT !.pc = "read", !.warned = lost # {}]
<1>8. op' = [op EXCEPT ![p] = o]
  BY <1>1, <1>2 DEF TypeOK
<1>3. o \in Ops /\ o.drafts = op[p].drafts /\ o.pc # "evidence"
  BY <1>1, OpTypes DEF Ops, Steps, SyncSteps
<1>4. op' \in [Procs -> Ops] /\ DraftsGood' /\ ActionInHand'
  BY <1>3, <1>8, ProcessStep DEF IInv, DraftsGood
<1>5. UNCHANGED <<blocks, transactions, actions, evidence, ledger, covered, misread, premature>>
  BY DEF StoreTransfers
<1>6. transfers' \in SUBSET Txs
  BY <1>1, <1>2 DEF TypeOK, TransferLogs
<1>7. QED
  BY <1>4, <1>5, <1>6 DEF IInv, TypeOK

LEMMA ReadArtifactsKeeps ==
  ASSUME IInv, NEW p \in Procs, ReadArtifacts(p)
  PROVE  IInv'
<1> DEFINE W == op[p].window
<1>1. TypeOK /\ W \in SUBSET Txs
  BY OpTypes DEF IInv
<1>2. RowsIn(W) \in Snapshots /\ WithoutTransfers(RowsIn(W)) \in SUBSET Txs
  BY <1>1, SnapshotTypes
<1>3. UNCHANGED <<raw, ledger, covered, misread>>
  BY DEF ReadArtifacts
<1>4. CASE /\ op' = [op EXCEPT ![p].rows = RowsIn(W), ![p].pc = "consumed"]
           /\ premature' = premature \cup WithoutTransfers(RowsIn(W))
  <2> DEFINE o == [op[p] EXCEPT !.rows = RowsIn(W), !.pc = "consumed"]
  <2>1. op' = [op EXCEPT ![p] = o]
    BY <1>1, <1>4 DEF TypeOK
  <2>2. o \in Ops /\ o.drafts = op[p].drafts /\ o.pc # "evidence"
    BY <1>1, <1>2, OpTypes DEF Ops, Steps, SyncSteps
  <2>3. op' \in [Procs -> Ops] /\ DraftsGood' /\ ActionInHand'
    BY <2>1, <2>2, ProcessStep DEF IInv, DraftsGood
  <2>4. premature' \in SUBSET Txs
    BY <1>1, <1>2, <1>4 DEF TypeOK
  <2>5. QED
    BY <1>3, <2>3, <2>4 DEF IInv, TypeOK, raw
<1>5. CASE \E todo \in SUBSET Txs :
             /\ op' = [op EXCEPT ![p].todo = todo, ![p].pc = "actions"]
             /\ UNCHANGED premature
  <2>1. PICK todo \in SUBSET Txs :
             /\ op' = [op EXCEPT ![p].todo = todo, ![p].pc = "actions"]
             /\ UNCHANGED premature
    BY <1>5
  <2> DEFINE o == [op[p] EXCEPT !.todo = todo, !.pc = "actions"]
  <2>2. op' = [op EXCEPT ![p] = o]
    BY <1>1, <2>1 DEF TypeOK
  <2>3. o \in Ops /\ o.drafts = op[p].drafts /\ o.pc # "evidence"
    BY <1>1, OpTypes DEF Ops, Steps, SyncSteps
  <2>4. op' \in [Procs -> Ops] /\ DraftsGood' /\ ActionInHand'
    BY <2>2, <2>3, ProcessStep DEF IInv, DraftsGood
  <2>5. QED
    BY <1>3, <2>1, <2>4 DEF IInv, TypeOK, raw
<1>6. {t \in transfers \cap W : Shape[t].family \in op[p].families} \in SUBSET Txs
  BY <1>1
<1>7. QED
  BY <1>4, <1>5, <1>6 DEF ReadArtifacts

LEMMA StoreActionKeeps ==
  ASSUME IInv, NEW p \in Procs, StoreAction(p)
  PROVE  IInv'
<1> DEFINE t == First(op[p].todo)
           o == [op[p] EXCEPT !.pc = "evidence"]
<1>1. TypeOK /\ op[p].todo \in SUBSET Txs /\ op[p].todo # {}
  BY OpTypes DEF IInv, StoreAction
<1>2. t \in Txs
  BY <1>1, FirstIn
<1>3. /\ transactions' = transactions \cup {t} /\ actions' = actions \cup {t}
      /\ op' = [op EXCEPT ![p] = o]
      /\ UNCHANGED <<blocks, transfers, evidence, ledger, covered, misread, premature>>
  BY <1>1 DEF StoreAction, Goto, TypeOK
<1> HIDE DEF t
<1>4. o \in Ops /\ o.drafts = op[p].drafts /\ o.todo # {}
  BY <1>1, OpTypes DEF Ops, Steps, SyncSteps
<1>5. op' \in [Procs -> Ops] /\ DraftsGood' /\ ActionInHand'
  BY <1>3, <1>4, ProcessStep DEF IInv, DraftsGood
<1>6. QED
  BY <1>1, <1>2, <1>3, <1>5 DEF IInv, TypeOK

LEMMA RecordEvidenceKeeps ==
  ASSUME IInv, NEW p \in Procs, RecordEvidence(p)
  PROVE  IInv'
<1> DEFINE t == First(op[p].todo)
           o == [op[p] EXCEPT !.todo = @ \ {t}, !.pc = "actions"]
<1>1. TypeOK /\ op[p].todo \in SUBSET Txs /\ op[p].todo # {}
  BY OpTypes DEF IInv, ActionInHand, RecordEvidence
<1>2. t \in Txs
  BY <1>1, FirstIn
<1>3. /\ evidence' = evidence \cup {t}
      /\ op' = [op EXCEPT ![p].todo = @ \ {First(@)}, ![p].pc = "actions"]
      /\ UNCHANGED <<blocks, transactions, transfers, actions, ledger, covered, misread,
                    premature>>
  BY DEF RecordEvidence
<1>4. op' = [op EXCEPT ![p] = o]
  BY <1>1, <1>3 DEF TypeOK
<1> HIDE DEF t
<1>5. o \in Ops /\ o.drafts = op[p].drafts /\ o.pc # "evidence"
  BY <1>1, OpTypes DEF Ops, Steps, SyncSteps
<1>6. op' \in [Procs -> Ops] /\ DraftsGood' /\ ActionInHand'
  BY <1>4, <1>5, ProcessStep DEF IInv, DraftsGood
<1>7. QED
  BY <1>1, <1>2, <1>3, <1>6 DEF IInv, TypeOK

LEMMA ActionDraftsOfOp ==
  ASSUME TypeOK, NEW p \in Procs
  PROVE  GoodDrafts(DraftsOfActions(p)) /\ ActionsIn(p) \in SUBSET Txs
<1>1. ActionsIn(p) \in SUBSET Txs
  BY DEF ActionsIn, ActionRows, TypeOK
<1>2. QED
  BY <1>1, ActionDraftsGood DEF DraftsOfActions

LEMMA ReadActionsKeeps ==
  ASSUME IInv, NEW p \in Procs, ReadActions(p)
  PROVE  IInv'
<1> DEFINE D == DraftsOfActions(p)
           o == [op[p] EXCEPT !.drafts = D, !.pc = "persist"]
<1>1. TypeOK /\ GoodDrafts(D)
  BY ActionDraftsOfOp DEF IInv
<1>2. D \in SUBSET Drafts
  BY <1>1 DEF GoodDrafts
<1> HIDE DEF D
<1>3. /\ op' = [op EXCEPT ![p].drafts = D, ![p].pc = "persist"]
      /\ UNCHANGED <<raw, ledger, covered, misread, premature>>
  BY DEF ReadActions, D
<1>4. op' = [op EXCEPT ![p] = o]
  BY <1>1, <1>3 DEF TypeOK
<1>5. o \in Ops /\ o.drafts = D /\ o.pc # "evidence"
  BY <1>1, <1>2, OpTypes DEF Ops, Steps, SyncSteps
<1>6. op' \in [Procs -> Ops] /\ DraftsGood' /\ ActionInHand'
  BY <1>1, <1>4, <1>5, ProcessStep
<1>7. QED
  BY <1>3, <1>6 DEF IInv, TypeOK, raw

LEMMA ReadConsumedKeeps ==
  ASSUME IInv, NEW p \in Procs, ReadConsumed(p)
  PROVE  IInv'
<1>1. PICK consumed \in {Consumed, {}} :
        /\ op' = [op EXCEPT
             ![p].drafts = @ \cup NormalizeTransfers(op[p].rows, consumed),
             ![p].rows = NoRows,
             ![p].pc = AfterConsumed[@]]
        /\ misread' = (misread \/ consumed # Consumed)
  BY DEF ReadConsumed
<1>2. TypeOK /\ GoodDrafts(op[p].drafts) /\ op[p].rows \in Snapshots
  BY OpTypes DEF IInv, DraftsGood
<1> DEFINE new == NormalizeTransfers(op[p].rows, consumed)
           D   == op[p].drafts \cup new
           pc  == AfterConsumed[op[p].pc]
           o   == [op[p] EXCEPT !.drafts = D, !.rows = NoRows, !.pc = pc]
<1>3. GoodDrafts(D)
  BY <1>2, TransferDraftsGood, BothGood
<1>4. D \in SUBSET Drafts
  BY <1>3 DEF GoodDrafts
<1>5. pc \in {"persist", "replace"}
  BY DEF ReadConsumed, AfterConsumed
<1>6. op' = [op EXCEPT ![p] = o]
  BY <1>1, <1>2 DEF TypeOK
<1> HIDE DEF D, pc
<1>7. o \in Ops /\ o.drafts = D /\ o.pc # "evidence"
  BY <1>2, <1>4, <1>5, OpTypes, IdleTypes DEF Ops, Steps, SyncSteps, RebuildSteps
<1>8. op' \in [Procs -> Ops] /\ DraftsGood' /\ ActionInHand'
  BY <1>3, <1>6, <1>7, ProcessStep
<1>9. UNCHANGED <<raw, ledger, covered, premature>> /\ misread' \in BOOLEAN
  BY <1>1 DEF ReadConsumed
<1>10. QED
  BY <1>8, <1>9 DEF IInv, TypeOK, raw

LEMMA UpdateCursorKeeps ==
  ASSUME IInv, NEW p \in Procs, UpdateCursor(p)
  PROVE  IInv'
<1>1. TypeOK /\ op[p].window \in SUBSET Txs
  BY OpTypes DEF IInv
<1>2. /\ op' = [op EXCEPT ![p] = Idle]
      /\ UNCHANGED <<raw, ledger, misread, premature>>
  BY DEF UpdateCursor
<1>3. covered' \in [Families -> SUBSET Txs]
  BY <1>1 DEF UpdateCursor, TypeOK
<1>4. op' \in [Procs -> Ops] /\ DraftsGood' /\ ActionInHand'
  BY <1>2, IdleTypes, ProcessStep DEF Idle
<1>5. QED
  BY <1>2, <1>3, <1>4 DEF IInv, TypeOK, raw

LEMMA StopKeeps ==
  ASSUME IInv, NEW p \in Procs, Stop(p)
  PROVE  IInv'
<1>1. op' = [op EXCEPT ![p] = Idle] /\ UNCHANGED <<raw, ledger, covered, misread, premature>>
  BY DEF Stop
<1>2. op' \in [Procs -> Ops] /\ DraftsGood' /\ ActionInHand'
  BY <1>1, IdleTypes, ProcessStep DEF Idle
<1>3. QED
  BY <1>1, <1>2 DEF IInv, TypeOK, raw

LEMMA ReadAllKeeps ==
  ASSUME IInv, NEW p \in Procs, ReadAll(p)
  PROVE  IInv'
<1> DEFINE ofTransfers == "TRANSFERS" \in op[p].families
           rows  == IF ofTransfers THEN RowsIn(op[p].window) ELSE NoRows
           scope == DeleteScope(p)
           D     == DraftsOfActions(p)
           pc    == IF ofTransfers THEN "consumedAll" ELSE "replace"
           o     == [op[p] EXCEPT !.scope = scope, !.drafts = D, !.rows = rows, !.pc = pc]
<1>1. TypeOK /\ GoodDrafts(D) /\ ActionsIn(p) \in SUBSET Txs
  BY ActionDraftsOfOp DEF IInv
<1>2. D \in SUBSET Drafts
  BY <1>1 DEF GoodDrafts
<1>3. op[p].window \in SUBSET Txs /\ RowsIn(op[p].window) \in Snapshots
      /\ WithoutTransfers(RowsIn(op[p].window)) \in SUBSET Txs
  BY <1>1, OpTypes, SnapshotTypes
<1>4. rows \in Snapshots /\ WithoutTransfers(rows) \in SUBSET Txs
  BY <1>3, IdleTypes DEF WithoutTransfers, TransferLogs
<1>5. scope \in SUBSET Txs
  <2>1. SnapshotTxs(p) \in SUBSET Txs
    BY <1>1, <1>3 DEF SnapshotTxs, Snapshots
  <2>2. TimeRange(p) \in SUBSET Txs
    BY DEF TimeRange
  <2>3. QED
    BY <2>1, <2>2 DEF DeleteScope
<1>6. /\ op' = [op EXCEPT ![p].scope = scope, ![p].drafts = D, ![p].rows = rows, ![p].pc = pc]
      /\ premature' = premature \cup WithoutTransfers(rows)
      /\ UNCHANGED <<raw, ledger, covered, misread>>
  BY DEF ReadAll
<1>7. pc \in {"consumedAll", "replace"}
  OBVIOUS
<1> HIDE DEF rows, scope, D, pc
<1>8. op' = [op EXCEPT ![p] = o]
  BY <1>1, <1>6 DEF TypeOK
<1>9. o \in Ops /\ o.drafts = D /\ o.pc # "evidence"
  BY <1>1, <1>2, <1>4, <1>5, <1>7, OpTypes DEF Ops, Steps, RebuildSteps
<1>10. op' \in [Procs -> Ops] /\ DraftsGood' /\ ActionInHand'
  BY <1>1, <1>8, <1>9, ProcessStep
<1>11. premature' \in SUBSET Txs
  BY <1>1, <1>4, <1>6 DEF TypeOK
<1>12. QED
  BY <1>6, <1>10, <1>11 DEF IInv, TypeOK, raw

LEMMA RepairKeeps ==
  ASSUME IInv, NEW t \in Txs, Repair(t)
  PROVE  IInv'
<1>1. UNCHANGED <<blocks, transactions, actions, ledger, covered, op, misread, premature>>
  BY DEF Repair, RepairFabricated, RepairProvenance
<1>2. transfers' \in SUBSET Txs /\ evidence' \in SUBSET Txs
  BY DEF Repair, RepairFabricated, RepairProvenance, IInv, TypeOK
<1>3. QED
  BY <1>1, <1>2 DEF IInv, TypeOK, DraftsGood, ActionInHand

-----------------------------------------------------------------------------
(* Steps that write the ledger.                                             *)

LEMMA PersistSyncKeeps ==
  ASSUME IInv, NEW p \in Procs, PersistSync(p)
  PROVE  IInv'
<1> DEFINE o == [op[p] EXCEPT !.pc = "cursor", !.drafts = {}]
<1>1. TypeOK /\ Sound(ledger) /\ GoodDrafts(op[p].drafts)
  BY DEF IInv, DraftsGood
<1>2. /\ ledger' = PersistNormalizedLedger(ledger, op[p].drafts, Consumed)
      /\ op' = [op EXCEPT ![p].pc = "cursor", ![p].drafts = {}]
      /\ UNCHANGED <<raw, covered, misread, premature>>
  BY DEF PersistSync
<1>3. Sound(ledger')
  BY <1>1, <1>2, PersistKeepsSound
<1>4. op' = [op EXCEPT ![p] = o]
  BY <1>1, <1>2 DEF TypeOK
<1>5. o \in Ops /\ o.drafts = {} /\ o.pc # "evidence"
  BY <1>1, OpTypes DEF Ops, Steps, SyncSteps
<1>6. op' \in [Procs -> Ops] /\ DraftsGood' /\ ActionInHand'
  BY <1>4, <1>5, NoDrafts, ProcessStep
<1>7. ledger' \in Ledgers
  BY <1>3 DEF Sound
<1>8. QED
  BY <1>1, <1>2, <1>3, <1>6, <1>7 DEF IInv, TypeOK, raw

LEMMA ReplaceKeeps ==
  ASSUME IInv, NEW p \in Procs, Replace(p)
  PROVE  IInv'
<1> DEFINE rest == DeleteScoped(ledger, op[p].families, op[p].scope)
<1>1. TypeOK /\ Sound(ledger) /\ GoodDrafts(op[p].drafts)
  BY DEF IInv, DraftsGood
<1>2. /\ ledger' = PersistNormalizedLedger(rest, op[p].drafts, Consumed)
      /\ op' = [op EXCEPT ![p] = Idle]
      /\ UNCHANGED <<raw, covered, misread>>
  BY DEF Replace
<1>3. premature' \in SUBSET Txs
  BY <1>1 DEF Replace, TypeOK
<1>4. Sound(rest)
  BY <1>1, DeleteKeepsSound
<1> HIDE DEF rest
<1>5. Sound(ledger')
  BY <1>1, <1>2, <1>4, PersistKeepsSound
<1>6. op' \in [Procs -> Ops] /\ DraftsGood' /\ ActionInHand'
  BY <1>2, IdleTypes, ProcessStep DEF Idle
<1>7. ledger' \in Ledgers
  BY <1>5 DEF Sound
<1>8. QED
  BY <1>1, <1>2, <1>3, <1>5, <1>6, <1>7 DEF IInv, TypeOK, raw

-----------------------------------------------------------------------------
LEMMA NextInvariant == IInv /\ [Next]_vars => IInv'
<1> SUFFICES ASSUME IInv, [Next]_vars PROVE IInv'
  OBVIOUS
<1>1. ASSUME NEW p \in Procs, Sync(p) PROVE IInv'
  BY <1>1, StartSyncKeeps, ScanBlockKeeps, StoreTransfersKeeps, ReadArtifactsKeeps,
     StoreActionKeeps, RecordEvidenceKeeps, ReadActionsKeeps, PersistSyncKeeps,
     UpdateCursorKeeps DEF Sync
<1>2. ASSUME NEW p \in Procs, Rebuild(p) PROVE IInv'
  BY <1>2, StartRebuildKeeps, ReadAllKeeps, ReplaceKeeps DEF Rebuild
<1>3. ASSUME NEW p \in Procs, ReadConsumed(p) \/ Stop(p) PROVE IInv'
  BY <1>3, ReadConsumedKeeps, StopKeeps
<1>4. ASSUME NEW t \in Txs, Repair(t) PROVE IInv'
  BY <1>4, RepairKeeps
<1>5. CASE UNCHANGED vars
  BY <1>5 DEF vars, raw, IInv, TypeOK, DraftsGood, ActionInHand
<1>6. QED
  BY <1>1, <1>2, <1>3, <1>4, <1>5 DEF Next

LEMMA Invariance == Spec => []IInv
<1>1. Init => IInv
  BY InitInvariant
<1>2. IInv /\ [Next]_vars => IInv'
  BY NextInvariant
<1>3. QED
  BY <1>1, <1>2, PTL DEF Spec

(* Every table of the wallet keeps rows the code can write.                 *)
THEOREM TypeCorrect == Spec => []TypeOK
<1>1. IInv => TypeOK
  BY DEF IInv
<1>2. QED
  BY <1>1, Invariance, PTL

(* Gas is paid once: of one identity or of the two, no transaction ever has *)
(* two fees, though any number of operations overlap and stop anywhere.     *)
THEOREM FeesPaidOnce == Spec => []FeePaidOnce
<1>1. IInv => FeePaidOnce
  BY DEF IInv, Sound, FeeUnique, FeePaidOnce
<1>2. QED
  BY <1>1, Invariance, PTL

(* In whatever order the families are persisted and rebuilt, an action that *)
(* is in the ledger owns the fee of its transaction.                        *)
THEOREM FeesFollowActions == Spec => []FeeFollowsAction
<1>1. IInv => FeeFollowsAction
  BY DEF IInv, Sound, ActionsPay, FeeFollowsAction
<1>2. QED
  BY <1>1, Invariance, PTL

(* Neither moved fees nor removed shadows nor scoped deletions leave a group*)
(* without entries or an entry without its group.                           *)
THEOREM GroupsAreInUse == Spec => []GroupsInUse
<1>1. IInv => GroupsInUse
  BY DEF IInv, Sound, InUse, GroupsInUse
<1>2. QED
  BY <1>1, Invariance, PTL

-----------------------------------------------------------------------------
(* What the ledger holds, when operations do not overlap                    *)

(* Operations wait for each other, rebuilds name only ranges that a sync has*)
(* scanned at least in part, and no earlier version recorded a fee that the *)
(* normalizer of today leaves to a protocol nobody finds.                   *)
Serial ==
  /\ ~Overlap /\ ~Unscanned
  /\ \A H \in Histories : \A t \in H : Shape[t].pays /\ Shape[t].inline => Actual(t)

(* At most one process is at work.                                          *)
Alone == \A p, q \in Procs : op[p].pc # "idle" /\ op[q].pc # "idle" => p = q

Genuine(t) == Shape[t].genuine

(* What is there of a transaction a sync without warnings went over.        *)
Stored(t) ==
  /\ Touches(t) => t \in transactions
  /\ Genuine(t) /\ Shape[t].logs # {} => t \in transfers
Proven(t) == t \in actions /\ t \in evidence

RawHolds ==
  /\ \A t \in actions : Actual(t) /\ t \in transfers
  /\ \A t \in transfers : Shape[t].logs # {}
  /\ \A f \in Families : \A t \in covered[f] :
       Stored(t) /\ (Actual(t) /\ Shape[t].family = f => Proven(t))

(* What an entry in a group says of its transaction.                        *)
EntryFits(e, g) ==
  Genuine(Tx(e)) =>
    /\ e[2] \in Logs => e[2] \in Shape[Tx(e)].logs
    /\ e[2] = "native" => Shape[Tx(e)].value /\ (Shape[Tx(e)].logs = {} \/ Tx(e) \in premature)
    /\ g[2] = "action" => Actual(Tx(e))
    /\ IsFee(e) => /\ Shape[Tx(e)].pays
                   /\ Actual(Tx(e)) \/ ~Shape[Tx(e)].inline \/ Tx(e) \in premature

LedgerFits == \A e \in Present(ledger) : EntryFits(e, ledger.owner[e])

(* Nothing of a transaction that is no action is missing.                   *)
Whole(L, t) ==
  /\ \A l \in Shape[t].logs : L.owner[<<t, l>>] # NoGroup
  /\ Shape[t].value /\ Shape[t].logs = {} => L.owner[<<t, "native">>] # NoGroup
  /\ Shape[t].pays /\ ~Shape[t].inline =>
       \E e \in Entries : IsFee(e) /\ Tx(e) = t /\ L.owner[e] # NoGroup

(* An action is there, and its transfers are not there besides.             *)
Settled(L, t) ==
  /\ L.owner[<<t, "action">>] # NoGroup
  /\ misread \/ \A l \in Logs : L.owner[<<t, l>>] = NoGroup

CoveredHolds ==
  \A t \in Txs : Genuine(t) =>
    /\ ~Actual(t) /\ t \in covered["TRANSFERS"] => Whole(ledger, t)
    /\ Actual(t) /\ t \in covered[Shape[t].family] => Settled(ledger, t)

(* A process at rest has nothing in hand, and a sync is of one family.      *)
Shaped(o) ==
  /\ o.pc = "idle" => o = Idle
  /\ o.pc # "idle" => o.window \in Windows
  /\ o.pc \in SyncSteps => \E f \in Families : o.families = {f}
  /\ o.pc \in {"consumed", "consumedAll"} => "TRANSFERS" \in o.families
  /\ o.pc \in {"actions", "evidence"} => "TRANSFERS" \notin o.families

(* What was scanned of the window is stored.                                *)
ScanHolds(o) ==
  /\ o.pc = "scan" => \A t \in o.window \ o.todo : Touches(t) => t \in transactions
  /\ o.pc \in SyncSteps \ {"scan"} /\ ~o.warned => \A t \in o.window : Stored(t)
  /\ o.pc = "readAll" => o.window \cap blocks # {}

(* The rows in hand are those of the window.                                *)
RowsHold(o) ==
  o.pc \in {"consumed", "consumedAll"} =>
    /\ WithoutTransfers(o.rows) \subseteq premature
    /\ o.rows.transactions \subseteq o.window /\ o.rows.transfers \subseteq o.window
    /\ \A t \in o.window : Genuine(t) =>
         /\ t \in o.rows.transactions <=> t \in transactions
         /\ t \in o.rows.transfers <=> t \in transfers
         /\ t \in o.rows.protocol <=> t \in actions

(* The actions of the window have their evidence, or it is still to do.     *)
FoundHolds(o) ==
  o.pc \in {"actions", "evidence"} =>
    /\ \A t \in o.todo : t \in transfers /\ Actual(t)
    /\ o.pc = "evidence" => First(o.todo) \in actions
    /\ \A t \in o.window : t \in transfers /\ Shape[t].family \in o.families /\ t \notin o.todo
                           => Proven(t)

(* The drafts are of the window, in it every action has its drafts, and no  *)
(* transfer of an action that was synced is among them.                     *)
OfActions(D) == \A d \in D : d.group[2] = "action"
NotConsumed(D) ==
  \A d \in D : Actual(Tx(d.entry)) /\ Tx(d.entry) \in covered[Shape[Tx(d.entry)].family] =>
    d.entry[2] \notin Logs
DraftsHold(o) ==
  /\ \A d \in o.drafts : Tx(d.entry) \in o.window /\ EntryFits(d.entry, d.group)
  /\ o.pc \in {"scan", "read", "consumed", "actions", "evidence", "readAll", "cursor"} =>
       o.drafts = {}
  /\ o.pc = "consumedAll" \/ (o.pc = "persist" /\ o.families # {"TRANSFERS"}) =>
       OfActions(o.drafts)
  /\ o.pc \in {"persist", "consumedAll", "replace"} =>
       /\ misread \/ NotConsumed(o.drafts)
       /\ \A t \in actions : t \in o.window /\ Shape[t].family \in o.families =>
            Draft(t, "action", "action") \in o.drafts

(* What a sync without warnings drafts, and leaves behind, is all there is. *)
SyncHolds(o) ==
  ~o.warned => \A t \in o.window : Genuine(t) =>
    /\ o.pc \in {"persist", "cursor"} /\ Actual(t) /\ Shape[t].family \in o.families => Proven(t)
    /\ o.pc = "persist" /\ ~Actual(t) /\ o.families = {"TRANSFERS"} =>
         Canonical(t) \subseteq o.drafts
    /\ o.pc = "cursor" /\ ~Actual(t) /\ o.families = {"TRANSFERS"} => Whole(ledger, t)
    /\ o.pc = "cursor" /\ Actual(t) /\ Shape[t].family \in o.families => Settled(ledger, t)

(* A rebuild deletes nothing outside its window, and no more of what is     *)
(* covered than it drafts.                                                  *)
RebuildHolds(o) ==
  /\ o.pc \in {"consumedAll", "replace"} => o.scope \subseteq o.window
  /\ o.pc = "replace" /\ "TRANSFERS" \in o.families =>
       \A t \in o.scope : Genuine(t) /\ ~Actual(t) /\ t \in covered["TRANSFERS"] =>
         Canonical(t) \subseteq o.drafts

Knows(o) ==
  /\ Shaped(o) /\ ScanHolds(o) /\ RowsHold(o) /\ FoundHolds(o)
  /\ DraftsHold(o) /\ SyncHolds(o) /\ RebuildHolds(o)

ContentHolds == RawHolds /\ LedgerFits /\ CoveredHolds
SerialInv == Alone /\ ContentHolds /\ \A p \in Procs : Knows(op[p])

-----------------------------------------------------------------------------
LEMMA DraftFields ==
  ASSUME NEW t, NEW e, NEW g
  PROVE  /\ Draft(t, e, g).entry = <<t, e>> /\ Draft(t, e, g).group = <<t, g>>
         /\ Tx(Draft(t, e, g).entry) = t /\ Draft(t, e, g).entry[2] = e
         /\ Draft(t, e, g).group[2] = g
         /\ IsFee(Draft(t, e, g).entry) <=> e \in {"fee", "legacyFee"}
BY DEF Draft, Tx, IsFee

LEMMA Names ==
  /\ \A l \in Logs : l \notin {"tx", "action", "native", "fee", "legacyFee"}
  /\ \A t \in Txs : Shape[t].logs \subseteq Logs /\ Shape[t].family \in Families
  /\ \A t \in Txs : Actual(t) <=> Shape[t].family # "TRANSFERS"
  /\ \A t \in Txs : Actual(t) => Shape[t].logs # {} /\ Shape[t].pays /\ Genuine(t)
  /\ \A t \in Txs : Shape[t].inline => Shape[t].logs # {}
  /\ "TRANSFERS" \in Families
BY NamesAssumption, ShapeAssumption DEF Shapes, Families, Actual, Genuine

LEMMA DraftsOfActionsAre ==
  ASSUME NEW acts
  PROVE  /\ \A d \in NormalizeActions(acts) : \E t \in acts :
              d = Draft(t, "action", "action") \/ d = Draft(t, "fee", "action")
         /\ \A t \in acts : Draft(t, "action", "action") \in NormalizeActions(acts)
BY DEF NormalizeActions, ActionDrafts

LEMMA DraftsOfTransfersAre ==
  ASSUME NEW snap, NEW consumed, NEW d \in NormalizeTransfers(snap, consumed)
  PROVE  \/ \E t \in snap.transfers \ consumed : \E l \in Shape[t].logs : d = Draft(t, l, l)
         \/ \E t \in (snap.transactions \ LeftToProtocol(snap)) \ snap.transfers :
              Shape[t].value /\ d = Draft(t, "native", "tx")
         \/ \E t \in snap.transactions \ LeftToProtocol(snap) :
              Shape[t].pays /\ d = Draft(t, "fee", "tx")
BY DEF NormalizeTransfers, TransferDrafts, NativeDrafts

(* Of a transaction that is no action the transfer normalizer drafts all.   *)
LEMMA CanonicalDrafted ==
  ASSUME NEW t \in Txs, Genuine(t), ~Actual(t), Stored(t), RawHolds, NEW rows,
         t \in rows.transactions <=> t \in transactions,
         t \in rows.transfers <=> t \in transfers,
         t \in rows.protocol <=> t \in actions,
         NEW consumed \in {Consumed, {}}
  PROVE  Canonical(t) \subseteq NormalizeTransfers(rows, consumed)
<1>1. t \notin actions /\ t \notin consumed
  BY DEF RawHolds, Consumed
<1>2. ASSUME NEW l \in Shape[t].logs
      PROVE  Draft(t, l, l) \in NormalizeTransfers(rows, consumed)
  BY <1>1, <1>2 DEF Stored, NormalizeTransfers, TransferDrafts
<1>3. Shape[t].logs = {} => t \notin rows.transfers
  BY DEF RawHolds
<1>4. ASSUME Shape[t].pays \/ Shape[t].value, ~Shape[t].inline
      PROVE  t \in rows.transactions \ LeftToProtocol(rows)
  BY <1>1, <1>4 DEF Stored, Touches, LeftToProtocol
<1>5. ASSUME Shape[t].value, Shape[t].logs = {}
      PROVE  Draft(t, "native", "tx") \in NormalizeTransfers(rows, consumed)
  BY <1>3, <1>4, <1>5, Names DEF NormalizeTransfers, NativeDrafts
<1>6. ASSUME Shape[t].pays, ~Shape[t].inline
      PROVE  Draft(t, "fee", "tx") \in NormalizeTransfers(rows, consumed)
  BY <1>4, <1>6 DEF NormalizeTransfers, NativeDrafts
<1>7. QED
  BY <1>2, <1>5, <1>6 DEF Canonical

(* What the normalizers draft of the rows fits.                             *)
LEMMA TransferDraftsFit ==
  ASSUME NEW snap \in Snapshots, NEW consumed, WithoutTransfers(snap) \subseteq premature,
         NEW d \in NormalizeTransfers(snap, consumed)
  PROVE  EntryFits(d.entry, d.group) /\ Tx(d.entry) \in snap.transactions \cup snap.transfers
<1>1. snap.transactions \subseteq Txs /\ snap.transfers \subseteq Txs
  BY DEF Snapshots
<1>2. ASSUME NEW t \in snap.transactions, t \notin snap.transfers, Genuine(t), Shape[t].logs # {}
      PROVE  t \in premature
  BY <1>1, <1>2 DEF WithoutTransfers, TransferLogs, Genuine
<1>3. CASE \E t \in snap.transfers \ consumed : \E l \in Shape[t].logs : d = Draft(t, l, l)
  <2>1. PICK t \in snap.transfers \ consumed : \E l \in Shape[t].logs : d = Draft(t, l, l)
    BY <1>3
  <2>2. PICK l \in Shape[t].logs : d = Draft(t, l, l)
    BY <2>1
  <2>3. l \in Logs
    BY <1>1, Names
  <2>4. QED
    BY <2>2, <2>3, DraftFields, Names DEF EntryFits
<1>4. CASE \E t \in (snap.transactions \ LeftToProtocol(snap)) \ snap.transfers :
             Shape[t].value /\ d = Draft(t, "native", "tx")
  <2>1. PICK t \in (snap.transactions \ LeftToProtocol(snap)) \ snap.transfers :
             Shape[t].value /\ d = Draft(t, "native", "tx")
    BY <1>4
  <2>2. QED
    BY <1>2, <2>1, DraftFields, Names DEF EntryFits
<1>5. CASE \E t \in snap.transactions \ LeftToProtocol(snap) :
             Shape[t].pays /\ d = Draft(t, "fee", "tx")
  <2>1. PICK t \in snap.transactions \ LeftToProtocol(snap) :
             Shape[t].pays /\ d = Draft(t, "fee", "tx")
    BY <1>5
  <2>2. Genuine(t) /\ Shape[t].inline => t \in premature
    BY <1>1, <1>2, <2>1, Names DEF LeftToProtocol
  <2>3. QED
    BY <2>1, <2>2, DraftFields, Names DEF EntryFits
<1>6. QED
  BY <1>3, <1>4, <1>5, DraftsOfTransfersAre

LEMMA ActionDraftsFit ==
  ASSUME NEW acts \in SUBSET Txs, \A t \in acts : Actual(t), NEW d \in NormalizeActions(acts)
  PROVE  /\ EntryFits(d.entry, d.group) /\ Tx(d.entry) \in acts
         /\ d.group[2] = "action" /\ d.entry[2] \notin Logs
<1>1. PICK t \in acts : d = Draft(t, "action", "action") \/ d = Draft(t, "fee", "action")
  BY DraftsOfActionsAre
<1>2. CASE d = Draft(t, "action", "action")
  BY <1>1, <1>2, DraftFields, Names DEF EntryFits
<1>3. CASE d = Draft(t, "fee", "action")
  BY <1>1, <1>3, DraftFields, Names DEF EntryFits
<1>4. QED
  BY <1>1, <1>2, <1>3

-----------------------------------------------------------------------------
(* Steps of one process while the others are at rest                        *)

LEMMA IdleKnows == Knows(Idle) /\ Knows(Idle)'
<1>1. /\ Idle.pc = "idle" /\ Idle.drafts = {}
      /\ Idle.pc \notin SyncSteps /\ Idle.pc \notin RebuildSteps
  BY DEF Idle, SyncSteps, RebuildSteps
<1>2. Knows(Idle)
  BY <1>1 DEF Knows, Shaped, ScanHolds, RowsHold, FoundHolds, DraftsHold, SyncHolds,
              RebuildHolds, SyncSteps, RebuildSteps
<1>3. Knows(Idle)'
  BY <1>1 DEF Knows, Shaped, ScanHolds, RowsHold, FoundHolds, DraftsHold, SyncHolds,
              RebuildHolds, SyncSteps, RebuildSteps
<1>4. QED
  BY <1>2, <1>3

(* Whoever takes a step, the others have nothing in hand.                   *)
LEMMA StepFrame ==
  ASSUME TypeOK, SerialInv, Serial, NEW p \in Procs, NEW o, op' = [op EXCEPT ![p] = o],
         op[p].pc # "idle" \/ Admitted(p), Knows(o)', ContentHolds'
  PROVE  SerialInv'
<1>1. op \in [Procs -> Ops]
  BY DEF TypeOK
<1>2. \A q \in Procs : q # p => op[q].pc = "idle"
  BY DEF SerialInv, Alone, Serial, Admitted
<1>3. \A q \in Procs : q # p => op'[q] = Idle
  BY <1>1, <1>2 DEF SerialInv, Knows, Shaped
<1>4. op'[p] = o
  BY <1>1
<1>5. \A q \in Procs : op'[q] = o \/ op'[q] = Idle
  BY <1>3, <1>4
<1>6. \A q \in Procs : Knows(op[q])'
  BY <1>5, IdleKnows
<1>7. \A q \in Procs : q # p => op'[q].pc = "idle"
  BY <1>3 DEF Idle
<1>8. Alone'
  BY <1>7 DEF Alone
<1>9. QED
  BY <1>6, <1>8 DEF SerialInv

(* Rows that are added take nothing from what the ledger holds.             *)
LEMMA Grows ==
  ASSUME TypeOK, ContentHolds, ledger' = ledger, covered' = covered,
         transactions \subseteq transactions', actions \subseteq actions',
         evidence \subseteq evidence', premature \subseteq premature', misread => misread',
         \A t \in transfers : Genuine(t) => t \in transfers',
         \A t \in transfers' : Shape[t].logs # {},
         \A t \in actions' : Actual(t) /\ t \in transfers'
  PROVE  ContentHolds'
<1>1. RawHolds'
  BY DEF ContentHolds, RawHolds, Stored, Proven, Genuine, Touches, Actual
<1>2. \A e, g : EntryFits(e, g) => EntryFits(e, g)'
  BY DEF EntryFits, Genuine, Actual
<1>3. LedgerFits'
  BY <1>2 DEF ContentHolds, LedgerFits, Present
<1>4. CoveredHolds'
  BY DEF ContentHolds, CoveredHolds, Whole, Settled, Genuine, Actual
<1>5. QED
  BY <1>1, <1>3, <1>4 DEF ContentHolds

(* What is so as long as raw rows, cursors and the ledger stay.             *)
LEMMA SameContent ==
  ASSUME ContentHolds, UNCHANGED <<raw, ledger, covered, misread, premature>>
  PROVE  ContentHolds'
BY DEF ContentHolds, RawHolds, LedgerFits, CoveredHolds, Stored, Proven, EntryFits, Whole,
       Settled, Genuine, Touches, Actual, Present, raw

LEMMA AddedFit ==
  ASSUME premature \subseteq premature'
  PROVE  \A e, g : EntryFits(e, g) => EntryFits(e, g)'
BY DEF EntryFits, Genuine, Actual

LEMMA StartSyncSerial ==
  ASSUME IInv, SerialInv, Serial, NEW p \in Procs, NEW f \in Families, NEW W \in Windows,
         StartSync(p, f, W)
  PROVE  SerialInv'
<1>1. PICK o : o = [Idle EXCEPT !.pc = "scan", !.families = {f}, !.window = W, !.todo = W]
  OBVIOUS
<1>2. op' = [op EXCEPT ![p] = o] /\ Admitted(p)
      /\ UNCHANGED <<raw, ledger, covered, misread, premature>>
  BY <1>1 DEF StartSync
<1>3. /\ o.pc = "scan" /\ o.families = {f} /\ o.window = W /\ o.todo = W
      /\ o.drafts = {}
  BY <1>1 DEF Idle
<1>4. ContentHolds'
  BY <1>2, SameContent DEF SerialInv
<1>5. Knows(o)'
  BY <1>3 DEF Knows, Shaped, ScanHolds, RowsHold, FoundHolds, DraftsHold, SyncHolds,
              RebuildHolds, SyncSteps, RebuildSteps, Windows
<1>6. QED
  BY <1>2, <1>4, <1>5, StepFrame DEF IInv

LEMMA StartRebuildSerial ==
  ASSUME IInv, SerialInv, Serial, NEW p \in Procs, NEW F, NEW W \in Windows,
         StartRebuild(p, F, W)
  PROVE  SerialInv'
<1>1. PICK o : o = [Idle EXCEPT !.pc = "readAll", !.families = F, !.window = W]
  OBVIOUS
<1>2. op' = [op EXCEPT ![p] = o] /\ Admitted(p) /\ W \cap blocks # {}
      /\ UNCHANGED <<raw, ledger, covered, misread, premature>>
  BY <1>1 DEF StartRebuild, Serial
<1>3. o.pc = "readAll" /\ o.families = F /\ o.window = W /\ o.drafts = {}
  BY <1>1 DEF Idle
<1>4. ContentHolds'
  BY <1>2, SameContent DEF SerialInv
<1>5. Knows(o)'
  BY <1>2, <1>3 DEF Knows, Shaped, ScanHolds, RowsHold, FoundHolds, DraftsHold, SyncHolds,
              RebuildHolds, SyncSteps, RebuildSteps, Windows, raw
<1>6. QED
  BY <1>2, <1>4, <1>5, StepFrame DEF IInv

LEMMA StopSerial ==
  ASSUME IInv, SerialInv, Serial, NEW p \in Procs, Stop(p)
  PROVE  SerialInv'
<1>1. op' = [op EXCEPT ![p] = Idle] /\ op[p].pc # "idle"
      /\ UNCHANGED <<raw, ledger, covered, misread, premature>>
  BY DEF Stop
<1>2. ContentHolds'
  BY <1>1, SameContent DEF SerialInv
<1>3. QED
  BY <1>1, <1>2, IdleKnows, StepFrame DEF IInv

LEMMA ScanBlockSerial ==
  ASSUME IInv, SerialInv, Serial, NEW p \in Procs, ScanBlock(p)
  PROVE  SerialInv'
<1>1. PICK b : b = First(op[p].todo)
  OBVIOUS
<1>2. PICK o : o = [op[p] EXCEPT !.todo = @ \ {b}]
  OBVIOUS
<1>3. /\ op' = [op EXCEPT ![p] = o] /\ op[p].pc = "scan"
      /\ transactions' = transactions \cup {t \in {b} : Touches(t)}
      /\ UNCHANGED <<transfers, actions, evidence, ledger, covered, misread, premature>>
  BY <1>1, <1>2 DEF ScanBlock
<1>4. TypeOK /\ op[p] \in Ops /\ Knows(op[p]) /\ ContentHolds
  BY OpTypes DEF IInv, SerialInv
<1>5. /\ o.pc = "scan" /\ o.families = op[p].families /\ o.window = op[p].window
      /\ o.todo = op[p].todo \ {b} /\ o.drafts = op[p].drafts
  BY <1>2, <1>3, <1>4 DEF Ops
<1>6. ContentHolds'
  BY <1>3, <1>4, Grows DEF ContentHolds, RawHolds
<1>7. \A t \in op[p].window \ op[p].todo : Touches(t) => t \in transactions
  BY <1>3, <1>4 DEF Knows, ScanHolds
<1>8. Shaped(op[p]) /\ op[p].drafts = {}
  BY <1>3, <1>4 DEF Knows, DraftsHold
<1>9. \A t \in o.window \ o.todo : Touches(t) => t \in transactions'
  BY <1>3, <1>5, <1>7
<1>10. Knows(o)'
  BY <1>3, <1>5, <1>8, <1>9 DEF Knows, Shaped, ScanHolds, RowsHold, FoundHolds,
         DraftsHold, SyncHolds, RebuildHolds, SyncSteps, RebuildSteps, Windows, Touches
<1>11. QED
  BY <1>3, <1>4, <1>6, <1>10, StepFrame

LEMMA StoreTransfersSerial ==
  ASSUME IInv, SerialInv, Serial, NEW p \in Procs, StoreTransfers(p)
  PROVE  SerialInv'
<1>1. PICK lost \in SUBSET MayBeUnreadable(op[p].window) :
        /\ transfers' = transfers \cup (TransferLogs(op[p].window) \ lost)
        /\ op' = [op EXCEPT ![p].pc = "read", ![p].warned = lost # {}]
  BY DEF StoreTransfers
<1>2. PICK o : o = [op[p] EXCEPT !.pc = "read", !.warned = lost # {}]
  OBVIOUS
<1>3. TypeOK /\ op[p] \in Ops /\ Knows(op[p]) /\ ContentHolds
  BY OpTypes DEF IInv, SerialInv
<1>4. /\ op' = [op EXCEPT ![p] = o] /\ op[p].pc = "scan" /\ op[p].todo = {}
      /\ UNCHANGED <<transactions, actions, evidence, ledger, covered, misread, premature>>
  BY <1>1, <1>2, <1>3 DEF StoreTransfers, TypeOK
<1>5. /\ o.pc = "read" /\ o.families = op[p].families /\ o.window = op[p].window
      /\ o.drafts = op[p].drafts /\ o.warned = (lost # {})
  BY <1>2, <1>3 DEF Ops
<1>6. \A t \in TransferLogs(op[p].window) : Shape[t].logs # {}
  BY DEF TransferLogs
<1>7. ContentHolds'
  BY <1>1, <1>3, <1>4, <1>6, Grows DEF ContentHolds, RawHolds
<1>8. \A t \in op[p].window : Touches(t) => t \in transactions
  BY <1>3, <1>4 DEF Knows, ScanHolds
<1>9. Shaped(op[p]) /\ op[p].drafts = {}
  BY <1>3, <1>4 DEF Knows, DraftsHold
<1>10. lost = {} => \A t \in op[p].window : Genuine(t) /\ Shape[t].logs # {} => t \in transfers'
  BY <1>1 DEF TransferLogs, Genuine
<1>11. ~o.warned => \A t \in o.window : Stored(t)'
  BY <1>4, <1>5, <1>8, <1>10 DEF Stored, Touches, Genuine
<1>12. Knows(o)'
  BY <1>4, <1>5, <1>9, <1>11 DEF Knows, Shaped, ScanHolds, RowsHold, FoundHolds,
         DraftsHold, SyncHolds, RebuildHolds, SyncSteps, RebuildSteps, Windows
<1>13. QED
  BY <1>3, <1>4, <1>7, <1>12, StepFrame

(* The rows of a window are read as they are stored.                        *)
LEMMA RowsRead ==
  ASSUME TypeOK, NEW W \in SUBSET Txs, NEW rows, rows = RowsIn(W)
  PROVE  /\ rows.transactions \subseteq W /\ rows.transfers \subseteq W
         /\ \A t \in W : /\ t \in rows.transactions <=> t \in transactions
                         /\ t \in rows.transfers <=> t \in transfers
                         /\ t \in rows.protocol <=> t \in actions
BY DEF RowsIn

LEMMA ReadArtifactsSerial ==
  ASSUME IInv, SerialInv, Serial, NEW p \in Procs, ReadArtifacts(p)
  PROVE  SerialInv'
<1>1. TypeOK /\ op[p] \in Ops /\ Knows(op[p]) /\ ContentHolds /\ op[p].window \in SUBSET Txs
  BY OpTypes DEF IInv, SerialInv
<1>2. op[p].pc = "read" /\ UNCHANGED <<raw, ledger, covered, misread>>
  BY DEF ReadArtifacts
<1>3. Shaped(op[p]) /\ op[p].drafts = {}
      /\ \A t \in op[p].window : ~op[p].warned => Stored(t)
  BY <1>1, <1>2 DEF Knows, DraftsHold, ScanHolds, SyncSteps
<1>4. CASE /\ op[p].families = {"TRANSFERS"}
           /\ op' = [op EXCEPT ![p].rows = RowsIn(op[p].window), ![p].pc = "consumed"]
           /\ premature' = premature \cup WithoutTransfers(RowsIn(op[p].window))
  <2>1. PICK rows : rows = RowsIn(op[p].window)
    OBVIOUS
  <2>2. PICK o : o = [op[p] EXCEPT !.rows = rows, !.pc = "consumed"]
    OBVIOUS
  <2>3. op' = [op EXCEPT ![p] = o]
    BY <1>1, <1>4, <2>1, <2>2 DEF TypeOK
  <2>4. /\ o.pc = "consumed" /\ o.families = op[p].families /\ o.window = op[p].window
        /\ o.drafts = op[p].drafts /\ o.rows = rows /\ o.warned = op[p].warned
    BY <1>1, <2>2 DEF Ops
  <2>5. ContentHolds'
    BY <1>1, <1>2, <1>4, Grows DEF ContentHolds, RawHolds, raw
  <2>6. RowsHold(o)'
    BY <1>1, <1>2, <1>4, <2>1, <2>4, RowsRead DEF RowsHold, raw, WithoutTransfers
  <2>7. ScanHolds(o)'
    BY <1>2, <1>3, <2>4 DEF ScanHolds, Stored, Touches, Genuine, raw
  <2>8. Knows(o)'
    BY <1>2, <1>3, <1>4, <2>4, <2>6, <2>7 DEF Knows, Shaped, FoundHolds, DraftsHold,
           SyncHolds, RebuildHolds, SyncSteps, RebuildSteps, Windows
  <2>9. QED
    BY <1>1, <1>2, <2>3, <2>5, <2>8, StepFrame
<1>5. CASE /\ op[p].families # {"TRANSFERS"}
           /\ op' = [op EXCEPT
                ![p].todo = {t \in transfers \cap op[p].window :
                               Shape[t].family \in op[p].families},
                ![p].pc = "actions"]
           /\ UNCHANGED premature
  <2>1. PICK todo : todo = {t \in transfers \cap op[p].window :
                              Shape[t].family \in op[p].families}
    OBVIOUS
  <2>2. PICK o : o = [op[p] EXCEPT !.todo = todo, !.pc = "actions"]
    OBVIOUS
  <2>3. op' = [op EXCEPT ![p] = o]
    BY <1>1, <1>5, <2>1, <2>2 DEF TypeOK
  <2>4. /\ o.pc = "actions" /\ o.families = op[p].families /\ o.window = op[p].window
        /\ o.drafts = op[p].drafts /\ o.todo = todo /\ o.warned = op[p].warned
    BY <1>1, <2>2 DEF Ops
  <2>5. ContentHolds'
    BY <1>1, <1>2, <1>5, SameContent
  <2>6. "TRANSFERS" \notin op[p].families
    BY <1>2, <1>3, <1>5 DEF Shaped, SyncSteps
  <2>7. FoundHolds(o)'
    BY <1>1, <1>2, <2>1, <2>4, <2>6, Names DEF FoundHolds, Actual, raw
  <2>8. ScanHolds(o)'
    BY <1>2, <1>3, <2>4 DEF ScanHolds, Stored, Touches, Genuine, raw
  <2>9. Knows(o)'
    BY <1>2, <1>3, <2>4, <2>6, <2>7, <2>8 DEF Knows, Shaped, RowsHold, DraftsHold,
           SyncHolds, RebuildHolds, SyncSteps, RebuildSteps, Windows
  <2>10. QED
    BY <1>1, <1>2, <2>3, <2>5, <2>9, StepFrame
<1>6. QED
  BY <1>4, <1>5 DEF ReadArtifacts

LEMMA StoreActionSerial ==
  ASSUME IInv, SerialInv, Serial, NEW p \in Procs, StoreAction(p)
  PROVE  SerialInv'
<1>1. TypeOK /\ op[p] \in Ops /\ Knows(op[p]) /\ ContentHolds /\ op[p].todo \in SUBSET Txs
  BY OpTypes DEF IInv, SerialInv
<1>2. PICK t : t = First(op[p].todo)
  OBVIOUS
<1>3. PICK o : o = [op[p] EXCEPT !.pc = "evidence"]
  OBVIOUS
<1>4. /\ op[p].pc = "actions" /\ op[p].todo # {}
      /\ transactions' = transactions \cup {t} /\ actions' = actions \cup {t}
      /\ op' = [op EXCEPT ![p] = o]
      /\ UNCHANGED <<blocks, transfers, evidence, ledger, covered, misread, premature>>
  BY <1>1, <1>2, <1>3 DEF StoreAction, Goto, TypeOK
<1>5. /\ o.pc = "evidence" /\ o.families = op[p].families /\ o.window = op[p].window
      /\ o.drafts = op[p].drafts /\ o.todo = op[p].todo /\ o.warned = op[p].warned
  BY <1>1, <1>3 DEF Ops
<1>6. t \in op[p].todo
  BY <1>1, <1>2, <1>4, FirstIn
<1>7. Shaped(op[p]) /\ op[p].drafts = {} /\ FoundHolds(op[p])
      /\ \A u \in op[p].window : ~op[p].warned => Stored(u)
  BY <1>1, <1>4 DEF Knows, DraftsHold, ScanHolds, SyncSteps
<1>8. t \in transfers /\ Actual(t)
  BY <1>4, <1>6, <1>7 DEF FoundHolds
<1>9. ContentHolds'
  BY <1>1, <1>4, <1>8, Grows DEF ContentHolds, RawHolds
<1>10. FoundHolds(o)'
  BY <1>2, <1>4, <1>5, <1>7 DEF FoundHolds, Proven, Actual, First
<1>11. ScanHolds(o)'
  BY <1>4, <1>5, <1>7 DEF ScanHolds, Stored, Touches, Genuine
<1>12. Knows(o)'
  BY <1>4, <1>5, <1>7, <1>10, <1>11 DEF Knows, Shaped, RowsHold, DraftsHold,
         SyncHolds, RebuildHolds, SyncSteps, RebuildSteps, Windows
<1>13. QED
  BY <1>1, <1>4, <1>9, <1>12, StepFrame

LEMMA RecordEvidenceSerial ==
  ASSUME IInv, SerialInv, Serial, NEW p \in Procs, RecordEvidence(p)
  PROVE  SerialInv'
<1>1. TypeOK /\ op[p] \in Ops /\ Knows(op[p]) /\ ContentHolds
  BY OpTypes DEF IInv, SerialInv
<1>2. PICK t : t = First(op[p].todo)
  OBVIOUS
<1>3. PICK o : o = [op[p] EXCEPT !.todo = @ \ {t}, !.pc = "actions"]
  OBVIOUS
<1>4. /\ op[p].pc = "evidence" /\ evidence' = evidence \cup {t}
      /\ op' = [op EXCEPT ![p] = o]
      /\ UNCHANGED <<blocks, transactions, transfers, actions, ledger, covered, misread,
                    premature>>
  BY <1>1, <1>2, <1>3 DEF RecordEvidence, TypeOK
<1>5. /\ o.pc = "actions" /\ o.families = op[p].families /\ o.window = op[p].window
      /\ o.drafts = op[p].drafts /\ o.todo = op[p].todo \ {t} /\ o.warned = op[p].warned
  BY <1>1, <1>3 DEF Ops
<1>6. Shaped(op[p]) /\ op[p].drafts = {} /\ FoundHolds(op[p])
      /\ \A u \in op[p].window : ~op[p].warned => Stored(u)
  BY <1>1, <1>4 DEF Knows, DraftsHold, ScanHolds, SyncSteps
<1>7. t \in actions
  BY <1>2, <1>4, <1>6 DEF FoundHolds
<1>8. ContentHolds'
  BY <1>1, <1>4, Grows DEF ContentHolds, RawHolds
<1>9. FoundHolds(o)'
  BY <1>4, <1>5, <1>6, <1>7 DEF FoundHolds, Proven, Actual
<1>10. ScanHolds(o)'
  BY <1>4, <1>5, <1>6 DEF ScanHolds, Stored, Touches, Genuine
<1>11. Knows(o)'
  BY <1>4, <1>5, <1>6, <1>9, <1>10 DEF Knows, Shaped, RowsHold, DraftsHold,
         SyncHolds, RebuildHolds, SyncSteps, RebuildSteps, Windows
<1>12. QED
  BY <1>1, <1>4, <1>8, <1>11, StepFrame

(* The drafts of the actions found in a window.                             *)
LEMMA FoundDrafts ==
  ASSUME TypeOK, RawHolds, NEW p \in Procs
  PROVE  /\ \A d \in DraftsOfActions(p) :
              /\ Tx(d.entry) \in op[p].window /\ EntryFits(d.entry, d.group)
              /\ d.group[2] = "action" /\ d.entry[2] \notin Logs
         /\ \A t \in actions : t \in op[p].window /\ Shape[t].family \in op[p].families =>
              Draft(t, "action", "action") \in DraftsOfActions(p)
<1>1. ActionsIn(p) \in SUBSET Txs /\ ActionsIn(p) \subseteq op[p].window
  BY DEF ActionsIn, ActionRows, TypeOK
<1>2. \A t \in ActionsIn(p) : Actual(t)
  BY DEF ActionsIn, ActionRows, RawHolds
<1>3. ASSUME NEW d \in DraftsOfActions(p)
      PROVE  /\ Tx(d.entry) \in op[p].window /\ EntryFits(d.entry, d.group)
             /\ d.group[2] = "action" /\ d.entry[2] \notin Logs
  BY <1>1, <1>2, <1>3, ActionDraftsFit DEF DraftsOfActions
<1>4. ASSUME NEW t \in actions, t \in op[p].window, Shape[t].family \in op[p].families
      PROVE  Draft(t, "action", "action") \in DraftsOfActions(p)
  BY <1>4, DraftsOfActionsAre DEF DraftsOfActions, ActionsIn, ActionRows
<1>5. QED
  BY <1>3, <1>4

LEMMA ReadActionsSerial ==
  ASSUME IInv, SerialInv, Serial, NEW p \in Procs, ReadActions(p)
  PROVE  SerialInv'
<1>1. TypeOK /\ op[p] \in Ops /\ Knows(op[p]) /\ ContentHolds /\ op[p].window \in SUBSET Txs
  BY OpTypes DEF IInv, SerialInv
<1>2. PICK D : D = DraftsOfActions(p)
  OBVIOUS
<1>3. PICK o : o = [op[p] EXCEPT !.drafts = D, !.pc = "persist"]
  OBVIOUS
<1>4. /\ op[p].pc = "actions" /\ op[p].todo = {} /\ op' = [op EXCEPT ![p] = o]
      /\ UNCHANGED <<raw, ledger, covered, misread, premature>>
  BY <1>1, <1>2, <1>3 DEF ReadActions, TypeOK
<1>5. /\ o.pc = "persist" /\ o.families = op[p].families /\ o.window = op[p].window
      /\ o.drafts = D /\ o.warned = op[p].warned
  BY <1>1, <1>3 DEF Ops
<1>6. Shaped(op[p]) /\ FoundHolds(op[p]) /\ "TRANSFERS" \notin op[p].families
      /\ \A u \in op[p].window : ~op[p].warned => Stored(u)
  BY <1>1, <1>4 DEF Knows, ScanHolds, SyncSteps, Shaped
<1>7. ContentHolds'
  BY <1>1, <1>4, SameContent
<1>8. /\ \A d \in D : /\ Tx(d.entry) \in op[p].window /\ EntryFits(d.entry, d.group)
                      /\ d.group[2] = "action" /\ d.entry[2] \notin Logs
      /\ \A t \in actions : t \in op[p].window /\ Shape[t].family \in op[p].families =>
              Draft(t, "action", "action") \in D
  BY <1>1, <1>2, FoundDrafts DEF ContentHolds
<1>9. DraftsHold(o)'
  <2>1. \A d \in D : EntryFits(d.entry, d.group)'
    BY <1>4, <1>8, AddedFit
  <2>2. OfActions(D)' /\ NotConsumed(D)'
    BY <1>8 DEF OfActions, NotConsumed
  <2>3. QED
    BY <1>4, <1>5, <1>8, <2>1, <2>2 DEF DraftsHold, raw
<1>10. SyncHolds(o)'
  <2> SUFFICES ASSUME ~o.warned, NEW t \in o.window, Genuine(t), Actual(t),
                      Shape[t].family \in o.families
               PROVE  Proven(t)
    BY <1>4, <1>5, <1>6 DEF SyncHolds, Proven, raw, Genuine, Actual
  <2>1. t \in transfers
    BY <1>1, <1>5, <1>6, Names DEF Stored
  <2>2. QED
    BY <1>4, <1>5, <1>6, <2>1 DEF FoundHolds
<1>11. ScanHolds(o)'
  BY <1>4, <1>5, <1>6 DEF ScanHolds, Stored, Touches, Genuine, raw
<1>12. Knows(o)'
  BY <1>4, <1>5, <1>6, <1>9, <1>10, <1>11 DEF Knows, Shaped, RowsHold, FoundHolds,
         RebuildHolds, SyncSteps, RebuildSteps, Windows
<1>13. QED
  BY <1>1, <1>4, <1>7, <1>12, StepFrame

LEMMA ReadConsumedSerial ==
  ASSUME IInv, SerialInv, Serial, NEW p \in Procs, ReadConsumed(p)
  PROVE  SerialInv'
<1>1. PICK consumed \in {Consumed, {}} :
        /\ op' = [op EXCEPT
             ![p].drafts = @ \cup NormalizeTransfers(op[p].rows, consumed),
             ![p].rows = NoRows,
             ![p].pc = AfterConsumed[@]]
        /\ misread' = (misread \/ consumed # Consumed)
  BY DEF ReadConsumed
<1>2. TypeOK /\ op[p] \in Ops /\ Knows(op[p]) /\ ContentHolds /\ op[p].window \in SUBSET Txs
      /\ op[p].rows \in Snapshots
  BY OpTypes DEF IInv, SerialInv
<1>3. PICK new : new = NormalizeTransfers(op[p].rows, consumed)
  OBVIOUS
<1>4. PICK pc : pc = AfterConsumed[op[p].pc]
  OBVIOUS
<1>5. PICK o : o = [op[p] EXCEPT !.drafts = @ \cup new, !.rows = NoRows, !.pc = pc]
  OBVIOUS
<1>6. /\ op' = [op EXCEPT ![p] = o]
      /\ UNCHANGED <<raw, ledger, covered, premature>>
      /\ op[p].pc \in {"consumed", "consumedAll"}
      /\ op[p].pc = "consumed" => pc = "persist"
      /\ op[p].pc = "consumedAll" => pc = "replace"
  <2>1. op' = [op EXCEPT ![p].drafts = @ \cup new, ![p].rows = NoRows, ![p].pc = pc]
    BY <1>1, <1>3, <1>4
  <2>2. op \in [Procs -> Ops]
    BY <1>2 DEF TypeOK
  <2>3. op' = [op EXCEPT ![p] = o]
    BY <1>2, <1>5, <2>1, <2>2
  <2>4. UNCHANGED <<raw, ledger, covered, premature>> /\ op[p].pc \in DOMAIN AfterConsumed
    BY DEF ReadConsumed
  <2>5. QED
    BY <1>4, <2>3, <2>4 DEF AfterConsumed
<1>7. /\ o.pc = pc /\ o.families = op[p].families /\ o.window = op[p].window
      /\ o.drafts = op[p].drafts \cup new /\ o.warned = op[p].warned /\ o.scope = op[p].scope
  BY <1>2, <1>5 DEF Ops
<1>8. /\ Shaped(op[p]) /\ "TRANSFERS" \in op[p].families
      /\ op[p].pc = "consumed" => op[p].families = {"TRANSFERS"}
  BY <1>2, <1>6 DEF Knows, Shaped, SyncSteps
<1>9. /\ WithoutTransfers(op[p].rows) \subseteq premature
      /\ op[p].rows.transactions \subseteq op[p].window
      /\ op[p].rows.transfers \subseteq op[p].window
      /\ \A t \in op[p].window : Genuine(t) =>
           /\ t \in op[p].rows.transactions <=> t \in transactions
           /\ t \in op[p].rows.transfers <=> t \in transfers
           /\ t \in op[p].rows.protocol <=> t \in actions
  BY <1>2, <1>6 DEF Knows, RowsHold
<1>10. DraftsHold(op[p]) /\ ScanHolds(op[p]) /\ RebuildHolds(op[p])
  BY <1>2 DEF Knows
<1>11. ContentHolds'
  BY <1>1, <1>2, <1>6, Grows DEF ContentHolds, RawHolds, raw
<1>12. \A d \in new : EntryFits(d.entry, d.group) /\ Tx(d.entry) \in op[p].window
  BY <1>2, <1>3, <1>9, TransferDraftsFit
<1>13. \A t \in op[p].window : Genuine(t) /\ ~Actual(t) /\ Stored(t) => Canonical(t) \subseteq new
  BY <1>2, <1>3, <1>9, CanonicalDrafted DEF ContentHolds
<1>14. misread' \/ NotConsumed(new)
  <2> SUFFICES ASSUME ~misread', NEW d \in new, Actual(Tx(d.entry)),
                      Tx(d.entry) \in covered[Shape[Tx(d.entry)].family], d.entry[2] \in Logs
               PROVE  FALSE
    BY DEF NotConsumed
  <2>1. consumed = Consumed
    BY <1>1
  <2>2. d.entry[2] \notin {"native", "fee"}
    BY Names
  <2>3. PICK t \in op[p].rows.transfers \ consumed : \E l \in Shape[t].logs : d = Draft(t, l, l)
    BY <1>3, <2>2, DraftsOfTransfersAre, DraftFields
  <2>4. Tx(d.entry) = t /\ t \in Txs
    BY <1>2, <1>9, <2>3, DraftFields
  <2>5. Proven(t) /\ Stored(t)
    BY <1>2, <2>4, Names DEF ContentHolds, RawHolds
  <2>6. t \in transfers
    BY <2>4, <2>5, Names DEF Stored
  <2>7. QED
    BY <2>1, <2>3, <2>5, <2>6 DEF Consumed, Proven
<1>15. DraftsHold(o)'
  <2>1. \A d \in o.drafts : Tx(d.entry) \in o.window /\ EntryFits(d.entry, d.group)'
    BY <1>6, <1>7, <1>10, <1>12, AddedFit DEF DraftsHold
  <2>2. pc \in {"persist", "replace"}
    BY <1>6
  <2>3. pc = "persist" => o.families = {"TRANSFERS"}
    BY <1>6, <1>7, <1>8
  <2>4. misread' \/ NotConsumed(o.drafts)'
    <3>1. misread \/ NotConsumed(op[p].drafts)
      BY <1>6, <1>10 DEF DraftsHold, NotConsumed
    <3>2. misread => misread'
      BY <1>1
    <3>3. QED
      BY <1>6, <1>7, <1>14, <3>1, <3>2 DEF NotConsumed, Actual
  <2>5. \A t \in actions : t \in o.window /\ Shape[t].family \in o.families =>
          Draft(t, "action", "action") \in o.drafts
    <3>1. CASE op[p].pc = "consumed"
      <4>1. \A t \in actions : t \in Txs /\ Actual(t)
        BY <1>2 DEF ContentHolds, RawHolds, TypeOK
      <4>2. QED
        BY <1>7, <1>8, <3>1, <4>1, Names
    <3>2. CASE op[p].pc = "consumedAll"
      BY <1>7, <1>10, <3>2 DEF DraftsHold
    <3>3. QED
      BY <1>6, <3>1, <3>2
  <2>6. QED
    BY <1>6, <1>7, <2>1, <2>2, <2>3, <2>4, <2>5 DEF DraftsHold, raw
<1>16. SyncHolds(o)'
  <2> SUFFICES ASSUME ~o.warned, NEW t \in o.window, Genuine(t), pc = "persist",
                      ~Actual(t)
               PROVE  Canonical(t) \subseteq o.drafts
    <3>1. ASSUME NEW t \in o.window, Actual(t), pc = "persist"
          PROVE  Shape[t].family \notin o.families
      BY <1>2, <1>6, <1>7, <1>8, <3>1, Names
    <3>2. pc \in {"persist", "replace"}
      BY <1>6
    <3>3. QED
      BY <1>7, <3>1, <3>2 DEF SyncHolds, Genuine, Actual, Canonical
  <2>1. Stored(t)
    BY <1>6, <1>7, <1>10 DEF ScanHolds, SyncSteps
  <2>2. QED
    BY <1>7, <1>13, <2>1
<1>17. RebuildHolds(o)'
  <2> SUFFICES ASSUME pc = "replace"
               PROVE  /\ o.scope \subseteq o.window
                      /\ \A t \in o.scope : Genuine(t) /\ ~Actual(t) /\ t \in covered["TRANSFERS"] =>
                           Canonical(t) \subseteq o.drafts
    BY <1>6, <1>7 DEF RebuildHolds, Genuine, Actual, Canonical
  <2>1. o.scope \subseteq o.window
    BY <1>6, <1>7, <1>10 DEF RebuildHolds
  <2>2. \A t \in covered["TRANSFERS"] : Stored(t)
    BY <1>2, Names DEF ContentHolds, RawHolds
  <2>3. QED
    BY <1>7, <1>13, <2>1, <2>2
<1>18. ScanHolds(o)'
  BY <1>6, <1>7, <1>10 DEF ScanHolds, Stored, Touches, Genuine, raw, SyncSteps
<1>19. Knows(o)'
  BY <1>6, <1>7, <1>8, <1>15, <1>16, <1>17, <1>18 DEF Knows, Shaped, RowsHold, FoundHolds,
         SyncSteps, RebuildSteps, Windows
<1>20. QED
  BY <1>2, <1>6, <1>11, <1>19, StepFrame

LEMMA UpdateCursorSerial ==
  ASSUME IInv, SerialInv, Serial, NEW p \in Procs, UpdateCursor(p)
  PROVE  SerialInv'
<1>1. TypeOK /\ Knows(op[p]) /\ ContentHolds
  BY DEF IInv, SerialInv
<1>2. /\ op[p].pc = "cursor" /\ op' = [op EXCEPT ![p] = Idle]
      /\ UNCHANGED <<raw, ledger, misread, premature>>
      /\ covered' = [f \in Families |-> covered[f] \cup
           IF f \in op[p].families /\ ~op[p].warned THEN op[p].window ELSE {}]
  BY DEF UpdateCursor
<1>3. ~op[p].warned => \A t \in op[p].window : Stored(t)
  BY <1>1, <1>2 DEF Knows, ScanHolds, SyncSteps
<1>4. ~op[p].warned => \A t \in op[p].window : Genuine(t) =>
        /\ Actual(t) /\ Shape[t].family \in op[p].families => Proven(t) /\ Settled(ledger, t)
        /\ ~Actual(t) /\ op[p].families = {"TRANSFERS"} => Whole(ledger, t)
  BY <1>1, <1>2 DEF Knows, SyncHolds
<1>5. \E f \in Families : op[p].families = {f}
  BY <1>1, <1>2 DEF Knows, Shaped, SyncSteps
<1>6. op[p].window \in SUBSET Txs
  BY <1>1, OpTypes
<1>7. RawHolds'
  <2>1. ASSUME NEW f \in Families, NEW t \in covered'[f]
        PROVE  Stored(t) /\ (Actual(t) /\ Shape[t].family = f => Proven(t))
    <3>1. CASE t \in covered[f]
      BY <1>1, <3>1 DEF ContentHolds, RawHolds
    <3>2. CASE t \notin covered[f]
      <4>1. f \in op[p].families /\ ~op[p].warned /\ t \in op[p].window
        BY <1>2, <2>1, <3>2
      <4>2. QED
        BY <1>3, <1>4, <1>6, <4>1, Names
    <3>3. QED
      BY <3>1, <3>2
  <2>2. QED
    BY <1>1, <1>2, <2>1 DEF ContentHolds, RawHolds, raw, Stored, Proven, Actual, Genuine, Touches
<1>8. CoveredHolds'
  <2>1. ASSUME NEW t \in Txs, Genuine(t), ~Actual(t), t \in covered'["TRANSFERS"]
        PROVE  Whole(ledger, t)
    <3>1. CASE t \in covered["TRANSFERS"]
      BY <1>1, <2>1, <3>1 DEF ContentHolds, CoveredHolds
    <3>2. CASE t \notin covered["TRANSFERS"]
      BY <1>2, <1>4, <1>5, <2>1, <3>2, Names
    <3>3. QED
      BY <3>1, <3>2
  <2>2. ASSUME NEW t \in Txs, Genuine(t), Actual(t), t \in covered'[Shape[t].family]
        PROVE  Settled(ledger, t)
    <3>1. CASE t \in covered[Shape[t].family]
      BY <1>1, <2>2, <3>1 DEF ContentHolds, CoveredHolds
    <3>2. CASE t \notin covered[Shape[t].family]
      BY <1>2, <1>4, <2>2, <3>2, Names
    <3>3. QED
      BY <3>1, <3>2
  <2>3. QED
    BY <1>2, <2>1, <2>2 DEF CoveredHolds, Whole, Settled, Genuine, Actual
<1>9. LedgerFits'
  BY <1>1, <1>2, AddedFit DEF ContentHolds, LedgerFits, Present
<1>10. ContentHolds'
  BY <1>7, <1>8, <1>9 DEF ContentHolds
<1>11. QED
  BY <1>1, <1>2, <1>10, IdleKnows, StepFrame

(* What a rebuild deletes lies in its window, blocks of which are stored.   *)
LEMMA ScopeInWindow ==
  ASSUME TypeOK, NEW p \in Procs, op[p].window \in Windows, op[p].window \cap blocks # {}
  PROVE  DeleteScope(p) \subseteq op[p].window
<1>1. SnapshotTxs(p) \subseteq op[p].window
  BY DEF SnapshotTxs, RowsIn, ActionsIn, ActionRows
<1>2. PICK a \in Txs, b \in Txs : op[p].window = {t \in Txs : a <= t /\ t <= b}
  BY DEF Windows
<1>3. ASSUME NEW t \in Txs, NEW c \in op[p].window, NEW d \in op[p].window, c <= t, t <= d
      PROVE  t \in op[p].window
  <2>1. c \in Txs /\ a <= c /\ d \in Txs /\ d <= b
    BY <1>2
  <2>2. a \in Nat /\ b \in Nat /\ c \in Nat /\ d \in Nat /\ t \in Nat
    BY <2>1, NamesAssumption
  <2>3. a <= t /\ t <= b
    BY <1>3, <2>1, <2>2
  <2>4. QED
    BY <1>2, <2>3
<1>4. TimeRange(p) \subseteq op[p].window
  BY <1>3 DEF TimeRange
<1>5. QED
  BY <1>1, <1>4 DEF DeleteScope

LEMMA ReadAllSerial ==
  ASSUME IInv, SerialInv, Serial, NEW p \in Procs, ReadAll(p)
  PROVE  SerialInv'
<1>1. TypeOK /\ op[p] \in Ops /\ Knows(op[p]) /\ ContentHolds /\ op[p].window \in SUBSET Txs
  BY OpTypes DEF IInv, SerialInv
<1>2. PICK rows : rows = IF "TRANSFERS" \in op[p].families THEN RowsIn(op[p].window) ELSE NoRows
  OBVIOUS
<1>3. PICK scope : scope = DeleteScope(p)
  OBVIOUS
<1>4. PICK D : D = DraftsOfActions(p)
  OBVIOUS
<1>5. PICK pc : pc = IF "TRANSFERS" \in op[p].families THEN "consumedAll" ELSE "replace"
  OBVIOUS
<1>6. PICK o : o = [op[p] EXCEPT !.scope = scope, !.drafts = D, !.rows = rows, !.pc = pc]
  OBVIOUS
<1>7. /\ op[p].pc = "readAll" /\ op' = [op EXCEPT ![p] = o]
      /\ premature' = premature \cup WithoutTransfers(rows)
      /\ UNCHANGED <<raw, ledger, covered, misread>>
  BY <1>1, <1>2, <1>3, <1>4, <1>5, <1>6 DEF ReadAll, TypeOK
<1>8. /\ o.pc = pc /\ o.families = op[p].families /\ o.window = op[p].window
      /\ o.drafts = D /\ o.scope = scope /\ o.rows = rows
  BY <1>1, <1>6 DEF Ops
<1>9. Shaped(op[p]) /\ op[p].window \in Windows /\ op[p].window \cap blocks # {}
  BY <1>1, <1>7 DEF Knows, Shaped, ScanHolds
<1>10. scope \subseteq op[p].window
  BY <1>1, <1>3, <1>9, ScopeInWindow
<1>11. ContentHolds'
  BY <1>1, <1>7, Grows DEF ContentHolds, RawHolds, raw
<1>12. /\ \A d \in D : /\ Tx(d.entry) \in op[p].window /\ EntryFits(d.entry, d.group)
                       /\ d.group[2] = "action" /\ d.entry[2] \notin Logs
       /\ \A t \in actions : t \in op[p].window /\ Shape[t].family \in op[p].families =>
              Draft(t, "action", "action") \in D
  BY <1>1, <1>4, FoundDrafts DEF ContentHolds
<1>13. DraftsHold(o)'
  <2>1. \A d \in D : EntryFits(d.entry, d.group)'
    BY <1>7, <1>12, AddedFit
  <2>2. OfActions(D)' /\ NotConsumed(D)'
    BY <1>12 DEF OfActions, NotConsumed
  <2>3. QED
    BY <1>5, <1>7, <1>8, <1>12, <2>1, <2>2 DEF DraftsHold, raw
<1>14. RowsHold(o)'
  BY <1>1, <1>2, <1>5, <1>7, <1>8, RowsRead DEF RowsHold, raw, WithoutTransfers
<1>15. RebuildHolds(o)'
  BY <1>5, <1>8, <1>10 DEF RebuildHolds
<1>16. Knows(o)'
  BY <1>5, <1>8, <1>9, <1>13, <1>14, <1>15 DEF Knows, Shaped, ScanHolds, FoundHolds,
         SyncHolds, SyncSteps, RebuildSteps, Windows
<1>17. QED
  BY <1>1, <1>7, <1>11, <1>16, StepFrame

LEMMA RepairSerial ==
  ASSUME IInv, SerialInv, NEW t \in Txs, Repair(t)
  PROVE  SerialInv'
<1>1. UNCHANGED <<blocks, transactions, actions, ledger, covered, op, misread, premature>>
  BY DEF Repair, RepairFabricated, RepairProvenance
<1>2. TypeOK /\ ContentHolds
  BY DEF IInv, SerialInv
<1>3. /\ evidence \subseteq evidence' /\ transfers' \subseteq transfers
      /\ \A u \in transfers : Genuine(u) => u \in transfers'
  BY DEF Repair, RepairFabricated, RepairProvenance, Genuine
<1>4. \A u \in actions : Actual(u) /\ u \in transfers'
  BY <1>2, <1>3, Names DEF ContentHolds, RawHolds, TypeOK
<1>5. ContentHolds'
  BY <1>1, <1>2, <1>3, <1>4, Grows DEF ContentHolds, RawHolds
<1>6. ASSUME NEW p \in Procs
      PROVE  Knows(op[p])'
  <2>1. PICK o : o = op[p]
    OBVIOUS
  <2>2. Knows(o) /\ op'[p] = o /\ o.window \in SUBSET Txs /\ o.todo \in SUBSET Txs
    BY <1>1, <1>2, <2>1, OpTypes DEF SerialInv
  <2>3. \A u \in Txs : Actual(u) => Genuine(u)
    BY Names
  <2>4. Shaped(o)' /\ ScanHolds(o)'
    BY <1>1, <1>3, <2>2 DEF Knows, Shaped, ScanHolds, Stored, Touches, Genuine, Windows
  <2>5. RowsHold(o)'
    BY <1>1, <1>3, <2>2 DEF Knows, RowsHold, Genuine, WithoutTransfers, TransferLogs
  <2>6. FoundHolds(o)'
    BY <1>1, <1>3, <2>2, <2>3 DEF Knows, FoundHolds, Proven, Actual
  <2>7. DraftsHold(o)'
    BY <1>1, <2>2 DEF Knows, DraftsHold, OfActions, NotConsumed, EntryFits, Genuine, Actual
  <2>8. SyncHolds(o)'
    BY <1>1, <1>3, <2>2 DEF Knows, SyncHolds, Proven, Canonical, Whole, Settled, Genuine, Actual
  <2>9. RebuildHolds(o)'
    BY <1>1, <2>2 DEF Knows, RebuildHolds, Canonical, Genuine, Actual
  <2>10. Knows(o)'
    BY <2>4, <2>5, <2>6, <2>7, <2>8, <2>9 DEF Knows
  <2>11. QED
    BY <2>2, <2>10
<1>7. Alone'
  BY <1>1 DEF SerialInv, Alone
<1>8. QED
  BY <1>5, <1>6, <1>7 DEF SerialInv

LEMMA StutterSerial ==
  ASSUME SerialInv, UNCHANGED vars
  PROVE  SerialInv'
<1>1. UNCHANGED <<raw, ledger, covered, misread, premature>> /\ op' = op
  BY DEF vars
<1>2. ContentHolds'
  BY <1>1, SameContent DEF SerialInv
<1>3. ASSUME NEW p \in Procs
      PROVE  Knows(op[p])'
  <2>1. PICK o : o = op[p]
    OBVIOUS
  <2>2. Knows(o) /\ op'[p] = o
    BY <1>1, <2>1 DEF SerialInv
  <2>3. Knows(o)'
    BY <1>1, <2>2 DEF Knows, Shaped, ScanHolds, RowsHold, FoundHolds, DraftsHold, SyncHolds,
           RebuildHolds, Stored, Proven, Touches, Genuine, Actual, Windows, OfActions,
           NotConsumed, EntryFits, Canonical, Whole, Settled, WithoutTransfers, raw
  <2>4. QED
    BY <2>2, <2>3
<1>4. QED
  BY <1>1, <1>2, <1>3 DEF SerialInv, Alone

-----------------------------------------------------------------------------
(* Steps that write the ledger                                              *)

(* What is persisted fits if the drafts do.                                 *)
LEMMA PersistFits ==
  ASSUME NEW L, Sound(L), NEW drafts, GoodDrafts(drafts), NEW consumed,
         NEW R, R = PersistNormalizedLedger(L, drafts, consumed),
         \A e \in Entries : L.owner[e] # NoGroup => EntryFits(e, L.owner[e]),
         \A d \in drafts : EntryFits(d.entry, d.group)
  PROVE  \A e \in Entries : R.owner[e] # NoGroup => EntryFits(e, R.owner[e])
<1> SUFFICES ASSUME NEW e \in Entries, R.owner[e] # NoGroup
             PROVE  EntryFits(e, R.owner[e])
  OBVIOUS
<1>1. CASE R.owner[e] = L.owner[e]
  BY <1>1
<1>2. CASE R.owner[e] # L.owner[e]
  <2>1. PICK d \in drafts : /\ Tx(d.entry) = Tx(e) /\ R.owner[e] = d.group
                            /\ d.entry = e \/ (IsFee(e) /\ IsFee(d.entry))
    BY <1>2, PersistFacts
  <2>2. EntryFits(d.entry, d.group)
    OBVIOUS
  <2>3. IsFee(e) => e[2] \notin Logs /\ e[2] # "native"
    BY NamesAssumption DEF IsFee
  <2>4. QED
    BY <2>1, <2>2, <2>3 DEF EntryFits
<1>3. QED
  BY <1>1, <1>2

(* Nothing is taken from a transaction that is no action.                   *)
LEMMA WholeStays ==
  ASSUME NEW L, Sound(L), NEW drafts, GoodDrafts(drafts), NEW consumed,
         NEW R, R = PersistNormalizedLedger(L, drafts, consumed),
         \A d \in drafts : EntryFits(d.entry, d.group),
         NEW t \in Txs, Genuine(t), ~Actual(t), Whole(L, t)
  PROVE  Whole(R, t)
<1>1. ASSUME NEW e \in Entries, Tx(e) = t, L.owner[e] # NoGroup
      PROVE  R.owner[e] # NoGroup
  <2> SUFFICES ASSUME R.owner[e] = NoGroup PROVE FALSE
    OBVIOUS
  <2>1. PICK d \in drafts : Tx(d.entry) = Tx(e) /\ GroupFamily(d.group) # "TRANSFERS"
    BY <1>1, PersistFacts
  <2>2. d.group[2] = "action"
    BY <2>1 DEF GroupFamily
  <2>3. QED
    BY <1>1, <2>1, <2>2 DEF EntryFits
<1>2. \A l \in Shape[t].logs : <<t, l>> \in Entries /\ Tx(<<t, l>>) = t
  BY EntryFacts, Names DEF Tx
<1>3. <<t, "native">> \in Entries /\ Tx(<<t, "native">>) = t
  BY EntryFacts DEF Tx
<1>4. QED
  BY <1>1, <1>2, <1>3 DEF Whole

LEMMA WholeDrafted ==
  ASSUME NEW L, Sound(L), NEW drafts, GoodDrafts(drafts), NEW consumed,
         NEW R, R = PersistNormalizedLedger(L, drafts, consumed),
         NEW t \in Txs, ~Actual(t), Canonical(t) \subseteq drafts
  PROVE  Whole(R, t)
<1>1. ASSUME NEW l \in Shape[t].logs
      PROVE  R.owner[<<t, l>>] # NoGroup
  <2>1. Draft(t, l, l) \in drafts
    BY <1>1 DEF Canonical
  <2>2. ~IsFee(Draft(t, l, l).entry) /\ Draft(t, l, l).entry = <<t, l>>
    BY <1>1, Names, DraftFields
  <2>3. \A d \in drafts : ~IsFee(d.entry) => R.owner[d.entry] # NoGroup
    BY PersistFacts
  <2>4. QED
    BY <2>1, <2>2, <2>3
<1>2. ASSUME Shape[t].value, Shape[t].logs = {}
      PROVE  R.owner[<<t, "native">>] # NoGroup
  <2>1. Draft(t, "native", "tx") \in drafts
    BY <1>2 DEF Canonical
  <2>2. ~IsFee(Draft(t, "native", "tx").entry)
        /\ Draft(t, "native", "tx").entry = <<t, "native">>
    BY DraftFields
  <2>3. QED
    BY <2>1, <2>2, PersistFacts
<1>3. ASSUME Shape[t].pays, ~Shape[t].inline
      PROVE  \E e \in Entries : IsFee(e) /\ Tx(e) = t /\ R.owner[e] # NoGroup
  <2>1. Draft(t, "fee", "tx") \in drafts
    BY <1>3 DEF Canonical
  <2>2. IsFee(Draft(t, "fee", "tx").entry) /\ Tx(Draft(t, "fee", "tx").entry) = t
    BY DraftFields
  <2>3. QED
    BY <2>1, <2>2, PersistFacts
<1>4. QED
  BY <1>1, <1>2, <1>3 DEF Whole

(* An action that is there or drafted is there, and transfers of it that are*)
(* neither there nor drafted are not.                                       *)
LEMMA SettledStays ==
  ASSUME NEW L, Sound(L), NEW drafts, GoodDrafts(drafts), NEW consumed,
         NEW R, R = PersistNormalizedLedger(L, drafts, consumed),
         NEW t \in Txs,
         \/ L.owner[<<t, "action">>] # NoGroup
         \/ Draft(t, "action", "action") \in drafts,
         \/ misread
         \/ /\ \A l \in Logs : L.owner[<<t, l>>] = NoGroup
            /\ \A d \in drafts : Tx(d.entry) = t => d.entry[2] \notin Logs
  PROVE  Settled(R, t)
<1>1. R.owner[<<t, "action">>] # NoGroup
  <2>1. <<t, "action">> \in Entries /\ <<t, "action">>[2] = "action" /\ "action" \notin Logs
    BY EntryFacts, Names
  <2>2. CASE L.owner[<<t, "action">>] # NoGroup
    BY <2>1, <2>2, PersistFacts
  <2>3. CASE Draft(t, "action", "action") \in drafts
    <3>1. ~IsFee(Draft(t, "action", "action").entry)
          /\ Draft(t, "action", "action").entry = <<t, "action">>
      BY DraftFields
    <3>2. QED
      BY <2>3, <3>1, PersistFacts
  <2>4. QED
    BY <2>2, <2>3
<1>2. ASSUME ~misread, NEW l \in Logs
      PROVE  R.owner[<<t, l>>] = NoGroup
  <2>1. PICK e \in Entries : e = <<t, l>>
    BY EntryFacts
  <2>2. Tx(e) = t /\ e[2] = l /\ ~IsFee(e)
    BY <2>1, Names DEF Tx, IsFee
  <2>3. L.owner[e] = NoGroup /\ \A d \in drafts : d.entry # e
    BY <1>2, <2>1, <2>2
  <2>4. QED
    BY <2>1, <2>2, <2>3, PersistFacts
<1>3. QED
  BY <1>1, <1>2 DEF Settled

(* Protocol drafts take the place of the transfers proven consumed.         *)
LEMMA SettledDrafted ==
  ASSUME NEW L, Sound(L), NEW drafts, GoodDrafts(drafts), OfActions(drafts), NEW consumed,
         NEW R, R = PersistNormalizedLedger(L, drafts, consumed),
         NEW t \in Txs, Actual(t), t \in consumed, Draft(t, "action", "action") \in drafts
  PROVE  Settled(R, t)
<1> DEFINE a == Draft(t, "action", "action")
<1>1. a \in drafts /\ a.entry = <<t, "action">> /\ a.group = <<t, "action">>
      /\ Tx(a.entry) = t /\ ~IsFee(a.entry)
  BY DraftFields
<1>2. GroupFamily(a.group) # "TRANSFERS"
  BY <1>1, Names DEF GroupFamily
<1> HIDE DEF a
<1>3. R.owner[<<t, "action">>] # NoGroup
  BY <1>1, PersistFacts
<1>4. ASSUME NEW l \in Logs
      PROVE  R.owner[<<t, l>>] = NoGroup
  <2>1. PICK e \in Entries : e = <<t, l>>
    BY EntryFacts
  <2>2. Tx(e) = t /\ e[2] \in Logs
    BY <2>1 DEF Tx
  <2>3. \A d \in drafts : d.entry # e
    BY <2>2, Names DEF GoodDrafts, Placed, OfActions
  <2>4. QED
    BY <1>1, <1>2, <2>1, <2>2, <2>3, PersistFacts
<1>5. QED
  BY <1>3, <1>4 DEF Settled

LEMMA PersistSyncSerial ==
  ASSUME IInv, SerialInv, Serial, NEW p \in Procs, PersistSync(p)
  PROVE  SerialInv'
<1>1. TypeOK /\ op[p] \in Ops /\ Knows(op[p]) /\ ContentHolds /\ op[p].window \in SUBSET Txs
      /\ Sound(ledger) /\ GoodDrafts(op[p].drafts)
  BY OpTypes DEF IInv, SerialInv, DraftsGood
<1>2. PICK o : o = [op[p] EXCEPT !.pc = "cursor", !.drafts = {}]
  OBVIOUS
<1>3. PICK D : D = op[p].drafts
  OBVIOUS
<1>4. /\ op[p].pc = "persist" /\ op' = [op EXCEPT ![p] = o]
      /\ ledger' = PersistNormalizedLedger(ledger, D, Consumed)
      /\ UNCHANGED <<raw, covered, misread, premature>>
  BY <1>1, <1>2, <1>3 DEF PersistSync, TypeOK
<1>5. /\ o.pc = "cursor" /\ o.families = op[p].families /\ o.window = op[p].window
      /\ o.drafts = {} /\ o.warned = op[p].warned
  BY <1>1, <1>2 DEF Ops
<1>6. Shaped(op[p]) /\ ScanHolds(op[p]) /\ DraftsHold(op[p]) /\ SyncHolds(op[p])
  BY <1>1 DEF Knows
<1>7. GoodDrafts(D) /\ \A d \in D : EntryFits(d.entry, d.group)
  BY <1>1, <1>3, <1>6 DEF DraftsHold
<1>8. misread \/ NotConsumed(D)
  BY <1>3, <1>4, <1>6 DEF DraftsHold
<1>9. \A e \in Entries : ledger.owner[e] # NoGroup => EntryFits(e, ledger.owner[e])
  BY <1>1 DEF ContentHolds, LedgerFits, Present
<1>10. PICK R : R = ledger'
  OBVIOUS
<1>11. R = PersistNormalizedLedger(ledger, D, Consumed)
  BY <1>4, <1>10
<1>12. \A e \in Entries : R.owner[e] # NoGroup => EntryFits(e, R.owner[e])
  BY <1>1, <1>7, <1>9, <1>11, PersistFits
<1>13. ASSUME NEW t \in Txs, Genuine(t), ~Actual(t), t \in covered["TRANSFERS"]
       PROVE  Whole(R, t)
  <2>1. Whole(ledger, t)
    BY <1>1, <1>13 DEF ContentHolds, CoveredHolds
  <2>2. QED
    BY <1>1, <1>7, <1>11, <1>13, <2>1, WholeStays
<1>14. ASSUME NEW t \in Txs, Genuine(t), Actual(t), t \in covered[Shape[t].family]
       PROVE  Settled(R, t)
  <2>1. Settled(ledger, t)
    BY <1>1, <1>14 DEF ContentHolds, CoveredHolds
  <2>2. misread \/ \A d \in D : Tx(d.entry) = t => d.entry[2] \notin Logs
    BY <1>8, <1>14 DEF NotConsumed
  <2>3. QED
    BY <1>1, <1>7, <1>11, <2>1, <2>2, SettledStays DEF Settled
<1>15. ASSUME ~o.warned, NEW t \in o.window, Genuine(t), ~Actual(t), o.families = {"TRANSFERS"}
       PROVE  Whole(R, t)
  <2>1. Canonical(t) \subseteq D
    BY <1>3, <1>4, <1>5, <1>6, <1>15 DEF SyncHolds
  <2>2. QED
    BY <1>1, <1>5, <1>7, <1>11, <1>15, <2>1, WholeDrafted
<1>16. ASSUME ~o.warned, NEW t \in o.window, Genuine(t), Actual(t), Shape[t].family \in o.families
       PROVE  Proven(t) /\ Settled(R, t)
  <2>1. Proven(t)
    BY <1>4, <1>5, <1>6, <1>16 DEF SyncHolds
  <2>2. t \in Consumed
    BY <1>1, <2>1 DEF Consumed, Proven, ContentHolds, RawHolds
  <2>3. Draft(t, "action", "action") \in D
    BY <1>3, <1>4, <1>5, <1>6, <1>16, <2>1 DEF DraftsHold, Proven
  <2>4. o.families # {"TRANSFERS"}
    BY <1>1, <1>5, <1>16, Names
  <2>5. OfActions(D)
    BY <1>3, <1>4, <1>5, <1>6, <2>4 DEF DraftsHold
  <2>6. Settled(R, t)
    BY <1>1, <1>5, <1>7, <1>11, <1>16, <2>2, <2>3, <2>5, SettledDrafted
  <2>7. QED
    BY <2>1, <2>6
<1>17. RawHolds'
  BY <1>1, <1>4 DEF ContentHolds, RawHolds, Stored, Proven, Genuine, Touches, Actual, raw
<1>18. LedgerFits'
  BY <1>4, <1>10, <1>12, AddedFit DEF LedgerFits, Present
<1>19. CoveredHolds'
  BY <1>4, <1>10, <1>13, <1>14 DEF CoveredHolds, Whole, Settled, Genuine, Actual
<1>20. ContentHolds'
  BY <1>17, <1>18, <1>19 DEF ContentHolds
<1>21. SyncHolds(o)'
  BY <1>4, <1>5, <1>10, <1>15, <1>16 DEF SyncHolds, Proven, Whole, Settled, Genuine, Actual, raw
<1>22. ScanHolds(o)'
  BY <1>4, <1>5, <1>6 DEF ScanHolds, Stored, Touches, Genuine, raw, SyncSteps
<1>23. Knows(o)'
  BY <1>4, <1>5, <1>6, <1>21, <1>22 DEF Knows, Shaped, RowsHold, FoundHolds, DraftsHold,
         RebuildHolds, SyncSteps, RebuildSteps, Windows
<1>24. QED
  BY <1>1, <1>4, <1>20, <1>23, StepFrame

(* The scope is cleared of the families, and nothing else.                  *)
LEMMA DeleteFacts ==
  ASSUME NEW L, Sound(L), NEW families, NEW scope,
         NEW S, S = DeleteScoped(L, families, scope)
  PROVE  /\ Sound(S)
         /\ \A e \in Entries : S.owner[e] \in {L.owner[e], NoGroup}
         /\ \A e \in Entries : L.owner[e] # NoGroup =>
              (S.owner[e] = NoGroup <=>
                 Tx(e) \in scope /\ GroupFamily(L.owner[e]) \in families)
<1>1. L \in Ledgers /\ WellPlaced(L) /\ InUse(L) /\ Sound(S)
  BY DeleteKeepsSound DEF Sound
<1>2. \A e \in Entries : S.owner[e] =
        IF L.owner[e] \in {g \in L.groups : GroupFamily(g) \in families /\ Tx(g) \in scope}
        THEN NoGroup ELSE L.owner[e]
  BY DEF DeleteScoped
<1>3. \A e \in Entries : L.owner[e] # NoGroup => L.owner[e] \in L.groups /\ Tx(L.owner[e]) = Tx(e)
  BY <1>1, LedgerFacts DEF InUse, WellPlaced, Placed, Tx
<1>4. QED
  BY <1>1, <1>2, <1>3

LEMMA ReplaceSerial ==
  ASSUME IInv, SerialInv, Serial, NEW p \in Procs, Replace(p)
  PROVE  SerialInv'
<1>1. TypeOK /\ op[p] \in Ops /\ Knows(op[p]) /\ ContentHolds /\ op[p].window \in SUBSET Txs
      /\ Sound(ledger) /\ GoodDrafts(op[p].drafts) /\ op[p].scope \in SUBSET Txs
  BY OpTypes DEF IInv, SerialInv, DraftsGood
<1>2. PICK D : D = op[p].drafts
  OBVIOUS
<1>3. PICK F : F = op[p].families
  OBVIOUS
<1>4. PICK scope : scope = op[p].scope
  OBVIOUS
<1>5. PICK L : L = ledger
  OBVIOUS
<1>6. PICK S : S = DeleteScoped(L, F, scope)
  OBVIOUS
<1>7. PICK R : R = ledger'
  OBVIOUS
<1>8. /\ op[p].pc = "replace" /\ op' = [op EXCEPT ![p] = Idle]
      /\ R = PersistNormalizedLedger(S, D, Consumed)
      /\ UNCHANGED <<raw, covered, misread>>
      /\ premature' = premature \
           IF "TRANSFERS" \in F
           THEN {t \in scope : \A d \in D : d.group # <<t, "tx">>} ELSE {}
  BY <1>2, <1>3, <1>4, <1>5, <1>6, <1>7 DEF Replace
<1>9. DraftsHold(op[p]) /\ RebuildHolds(op[p])
  BY <1>1 DEF Knows
<1>10. GoodDrafts(D) /\ \A d \in D : EntryFits(d.entry, d.group)
  BY <1>1, <1>2, <1>9 DEF DraftsHold
<1>11. misread \/ NotConsumed(D)
  BY <1>2, <1>8, <1>9 DEF DraftsHold
<1>12. /\ Sound(L) /\ Sound(S)
       /\ \A e \in Entries : S.owner[e] \in {L.owner[e], NoGroup}
       /\ \A e \in Entries : L.owner[e] # NoGroup =>
            (S.owner[e] = NoGroup <=> Tx(e) \in scope /\ GroupFamily(L.owner[e]) \in F)
  BY <1>1, <1>5, <1>6, DeleteFacts
<1>13. \A e \in Entries : L.owner[e] # NoGroup => EntryFits(e, L.owner[e])
  BY <1>1, <1>5 DEF ContentHolds, LedgerFits, Present
<1>14. \A e \in Entries : S.owner[e] # NoGroup => EntryFits(e, S.owner[e])
  BY <1>12, <1>13
<1>15. \A e \in Entries : R.owner[e] # NoGroup => EntryFits(e, R.owner[e])
  BY <1>8, <1>10, <1>12, <1>14, PersistFits
<1>16. WellPlaced(R)
  BY <1>8, <1>10, <1>12, PersistKeepsSound DEF Sound
<1>17. ASSUME NEW e \in Entries, R.owner[e] # NoGroup, Tx(e) \in premature, Tx(e) \notin premature'
       PROVE  R.owner[e][2] # "tx"
  <2> SUFFICES ASSUME R.owner[e][2] = "tx" PROVE FALSE
    OBVIOUS
  <2>1. "TRANSFERS" \in F /\ Tx(e) \in scope /\ \A d \in D : d.group # <<Tx(e), "tx">>
    BY <1>8, <1>17
  <2>2. R.owner[e] \in Groups /\ R.owner[e][1] = Tx(e)
    <3>1. R \in Ledgers
      BY <1>8, <1>10, <1>12, PersistKeepsSound DEF Sound
    <3>2. QED
      BY <1>16, <1>17, <3>1, LedgerFacts DEF WellPlaced, Placed, Tx
  <2>3. Tx(e) \in Txs /\ R.owner[e] = <<Tx(e), "tx">>
    <3>0. PICK t : t = Tx(e)
      OBVIOUS
    <3>1. PICK g \in Groups : g = R.owner[e] /\ t = Tx(e) /\ g[1] = t /\ g[2] = "tx"
      BY <2>2, <3>0
    <3>2. t \in Txs
      BY <3>1, GroupFacts
    <3>3. PICK h \in Groups : h = <<t, "tx">>
      BY <3>2, GroupFacts
    <3>4. h[1] = g[1] /\ h[2] = g[2]
      BY <3>1, <3>3
    <3>5. g = h
      BY <3>4, GroupFacts
    <3>6. QED
      BY <3>1, <3>2, <3>3, <3>5
  <2>4. R.owner[e] = S.owner[e]
    <3>1. \/ R.owner[e] = S.owner[e]
          \/ \E d \in D : R.owner[e] = d.group
      BY <1>8, <1>10, <1>12, <1>17, PersistFacts
    <3>2. QED
      BY <2>1, <2>3, <3>1
  <2>5. L.owner[e] = R.owner[e] /\ GroupFamily(L.owner[e]) = "TRANSFERS"
    BY <1>12, <1>17, <2>4 DEF GroupFamily
  <2>6. QED
    BY <1>12, <1>17, <2>1, <2>4, <2>5
<1>18. \A e \in Entries : R.owner[e] # NoGroup => EntryFits(e, R.owner[e])'
  <2> SUFFICES ASSUME NEW e \in Entries, R.owner[e] # NoGroup, Genuine(Tx(e))
               PROVE  EntryFits(e, R.owner[e])'
    BY DEF EntryFits, Genuine
  <2>1. EntryFits(e, R.owner[e])
    BY <1>15
  <2>2. CASE Tx(e) \in premature => Tx(e) \in premature'
    BY <2>1, <2>2 DEF EntryFits, Genuine, Actual
  <2>3. CASE Tx(e) \in premature /\ Tx(e) \notin premature'
    <3>1. R.owner[e][2] # "tx"
      BY <1>17, <2>3
    <3>2. Placed(e, R.owner[e])
      BY <1>16 DEF WellPlaced
    <3>3. e[2] # "native" /\ (IsFee(e) => Actual(Tx(e)))
      BY <2>1, <3>1, <3>2 DEF Placed, EntryFits
    <3>4. QED
      BY <2>1, <3>3 DEF EntryFits, Genuine, Actual
  <2>4. QED
    BY <2>2, <2>3
<1>19. ASSUME NEW t \in Txs, Genuine(t), ~Actual(t), t \in covered["TRANSFERS"]
       PROVE  Whole(R, t)
  <2>1. CASE "TRANSFERS" \in F /\ t \in scope
    <3>1. Canonical(t) \subseteq D
      BY <1>2, <1>3, <1>4, <1>8, <1>9, <1>19, <2>1 DEF RebuildHolds
    <3>2. QED
      BY <1>8, <1>10, <1>12, <1>19, <3>1, WholeDrafted
  <2>2. CASE ~("TRANSFERS" \in F /\ t \in scope)
    <3>1. Whole(L, t)
      BY <1>1, <1>5, <1>19 DEF ContentHolds, CoveredHolds
    <3>2. ASSUME NEW e \in Entries, Tx(e) = t, L.owner[e] # NoGroup
          PROVE  S.owner[e] # NoGroup
      <4>1. L.owner[e][2] # "action"
        BY <1>13, <1>19, <3>2 DEF EntryFits
      <4>2. GroupFamily(L.owner[e]) = "TRANSFERS"
        BY <4>1 DEF GroupFamily
      <4>3. QED
        BY <1>12, <2>2, <3>2, <4>2
    <3>3. \A l \in Shape[t].logs : <<t, l>> \in Entries /\ Tx(<<t, l>>) = t
      BY EntryFacts, Names DEF Tx
    <3>4. <<t, "native">> \in Entries /\ Tx(<<t, "native">>) = t
      BY EntryFacts DEF Tx
    <3>5. Whole(S, t)
      BY <3>1, <3>2, <3>3, <3>4 DEF Whole
    <3>6. QED
      BY <1>8, <1>10, <1>12, <1>19, <3>5, WholeStays
  <2>3. QED
    BY <2>1, <2>2
<1>20. ASSUME NEW t \in Txs, Genuine(t), Actual(t), t \in covered[Shape[t].family]
       PROVE  Settled(R, t)
  <2>1. Settled(L, t)
    BY <1>1, <1>5, <1>20 DEF ContentHolds, CoveredHolds
  <2>2. misread \/ \A d \in D : Tx(d.entry) = t => d.entry[2] \notin Logs
    BY <1>11, <1>20 DEF NotConsumed
  <2>3. PICK e \in Entries : e = <<t, "action">>
    BY EntryFacts
  <2>4. Tx(e) = t /\ L.owner[e] # NoGroup
    BY <2>1, <2>3 DEF Tx, Settled
  <2>5. S.owner[<<t, "action">>] # NoGroup \/ Draft(t, "action", "action") \in D
    <3>1. CASE S.owner[e] # NoGroup
      BY <2>3, <3>1
    <3>2. CASE S.owner[e] = NoGroup
      <4>1. t \in scope /\ GroupFamily(L.owner[e]) \in F
        BY <1>12, <2>4, <3>2
      <4>2. L.owner[e][2] = "action" /\ L.owner[e][1] = t
        BY <1>12, <2>3, <2>4 DEF Sound, WellPlaced, Placed, Tx
      <4>3. Shape[t].family \in F
        BY <4>1, <4>2 DEF GroupFamily
      <4>4. t \in op[p].window
        BY <1>4, <1>8, <1>9, <4>1 DEF RebuildHolds
      <4>5. t \in actions
        BY <1>1, <1>20, Names DEF ContentHolds, RawHolds, Proven
      <4>6. QED
        BY <1>2, <1>3, <1>8, <1>9, <4>3, <4>4, <4>5 DEF DraftsHold
    <3>3. QED
      BY <3>1, <3>2
  <2>6. misread \/ \A l \in Logs : S.owner[<<t, l>>] = NoGroup
    <3>1. \A l \in Logs : <<t, l>> \in Entries
      BY EntryFacts
    <3>2. QED
      BY <1>12, <2>1, <3>1 DEF Settled
  <2>7. QED
    BY <1>8, <1>10, <1>12, <2>2, <2>5, <2>6, SettledStays
<1>21. RawHolds'
  BY <1>1, <1>8 DEF ContentHolds, RawHolds, Stored, Proven, Genuine, Touches, Actual, raw
<1>22. LedgerFits'
  BY <1>7, <1>18 DEF LedgerFits, Present
<1>23. CoveredHolds'
  BY <1>7, <1>8, <1>19, <1>20 DEF CoveredHolds, Whole, Settled, Genuine, Actual
<1>24. ContentHolds'
  BY <1>21, <1>22, <1>23 DEF ContentHolds
<1>25. QED
  BY <1>1, <1>8, <1>24, IdleKnows, StepFrame

-----------------------------------------------------------------------------
(* What earlier versions left fits.                                         *)
LEMMA LegacyFits ==
  ASSUME NEW H \in Histories, Serial, NEW d \in LegacyDrafts(H)
  PROVE  EntryFits(d.entry, d.group)
<1>1. H \subseteq Txs /\ \A t \in H : Shape[t].pays /\ Shape[t].inline => Actual(t)
  BY HistoriesAssumption DEF Serial
<1>2. CASE d \in UNION {{Draft(t, l, l) : l \in Shape[t].logs} : t \in H}
  <2>1. PICK t \in H : \E l \in Shape[t].logs : d = Draft(t, l, l)
    BY <1>2
  <2>2. PICK l \in Shape[t].logs : d = Draft(t, l, l)
    BY <2>1
  <2>3. l \in Logs
    BY <1>1, Names
  <2>4. QED
    BY <2>2, <2>3, DraftFields, Names DEF EntryFits
<1>3. CASE d \in {Draft(t, "legacyFee", "tx") : t \in {u \in H : Shape[u].pays}}
  <2>1. PICK t \in H : Shape[t].pays /\ d = Draft(t, "legacyFee", "tx")
    BY <1>3
  <2>2. QED
    BY <1>1, <2>1, DraftFields, Names DEF EntryFits
<1>4. QED
  BY <1>2, <1>3 DEF LegacyDrafts

LEMMA InitSerial == ASSUME Serial, Init PROVE SerialInv
<1>1. PICK H \in Histories :
        /\ blocks = H
        /\ transactions = {t \in H : Touches(t)}
        /\ transfers = H
        /\ actions = {t \in H : Actual(t)}
        /\ ledger = WithEntries([groups |-> {}, owner |-> [e \in Entries |-> NoGroup]],
                               LegacyDrafts(H))
  BY DEF Init
<1>2. op = [p \in Procs |-> Idle] /\ covered = [f \in Families |-> {}]
  BY DEF Init
<1>3. RawHolds
  BY <1>1, <1>2, HistoriesAssumption DEF RawHolds
<1>4. LedgerFits
  <2> SUFFICES ASSUME NEW e \in Entries, ledger.owner[e] # NoGroup
               PROVE  EntryFits(e, ledger.owner[e])
    BY DEF LedgerFits, Present
  <2> DEFINE D == LegacyDrafts(H)
             d == CHOOSE x \in D : x.entry = e
  <2>1. ledger.owner[e] = IF \E x \in D : x.entry = e THEN d.group ELSE NoGroup
    BY <1>1 DEF WithEntries
  <2>2. \E x \in D : x.entry = e
    BY <2>1
  <2>3. d \in D /\ d.entry = e /\ ledger.owner[e] = d.group
    BY <2>1, <2>2
  <2> HIDE DEF d
  <2>4. QED
    BY <2>3, LegacyFits
<1>5. CoveredHolds
  BY <1>2, Names DEF CoveredHolds
<1>6. Alone
  BY <1>2 DEF Alone, Idle
<1>7. \A p \in Procs : Knows(op[p])
  BY <1>2, IdleKnows
<1>8. QED
  BY <1>3, <1>4, <1>5, <1>6, <1>7 DEF SerialInv, ContentHolds

LEMMA NextSerial == ASSUME Serial, IInv, SerialInv, [Next]_vars PROVE SerialInv'
<1>1. ASSUME NEW p \in Procs, Sync(p) PROVE SerialInv'
  BY <1>1, StartSyncSerial, ScanBlockSerial, StoreTransfersSerial, ReadArtifactsSerial,
     StoreActionSerial, RecordEvidenceSerial, ReadActionsSerial, PersistSyncSerial,
     UpdateCursorSerial DEF Sync
<1>2. ASSUME NEW p \in Procs, Rebuild(p) PROVE SerialInv'
  BY <1>2, StartRebuildSerial, ReadAllSerial, ReplaceSerial DEF Rebuild
<1>3. ASSUME NEW p \in Procs, ReadConsumed(p) \/ Stop(p) PROVE SerialInv'
  BY <1>3, ReadConsumedSerial, StopSerial
<1>4. ASSUME NEW t \in Txs, Repair(t) PROVE SerialInv'
  BY <1>4, RepairSerial
<1>5. CASE UNCHANGED vars
  BY <1>5, StutterSerial
<1>6. QED
  BY <1>1, <1>2, <1>3, <1>4, <1>5 DEF Next

LEMMA SerialInvariance == ASSUME Serial PROVE Spec => []SerialInv
<1>1. Init => SerialInv
  BY InitSerial
<1>2. IInv /\ SerialInv /\ [Next]_vars => SerialInv'
  BY NextSerial
<1>3. QED
  BY <1>1, <1>2, Invariance, PTL DEF Spec

-----------------------------------------------------------------------------
(* What is held of a transaction every cursor has passed                    *)

LEMMA HeldIs ==
  ASSUME NEW t
  PROVE  /\ \A e \in Present(ledger) : Tx(e) = t =>
              [entry |-> IF IsFee(e) THEN <<t, "fee">> ELSE e, group |-> ledger.owner[e]]
                \in Held(t)
         /\ \A d \in Held(t) : \E e \in Present(ledger) :
              /\ Tx(e) = t
              /\ d = [entry |-> IF IsFee(e) THEN <<t, "fee">> ELSE e, group |-> ledger.owner[e]]
BY DEF Held

(* Each entry is in its place: its group is known by its name.              *)
LEMMA PlaceOf ==
  ASSUME IInv, NEW e \in Present(ledger)
  PROVE  /\ e \in Entries /\ Tx(e) \in Txs /\ e = <<Tx(e), e[2]>>
         /\ ledger.owner[e] = <<Tx(e), ledger.owner[e][2]>>
         /\ Placed(e, ledger.owner[e])
<1>1. ledger \in Ledgers /\ WellPlaced(ledger)
  BY DEF IInv, Sound
<1>2. e \in Entries /\ ledger.owner[e] \in Groups /\ Placed(e, ledger.owner[e])
  BY <1>1, LedgerFacts DEF WellPlaced
<1>3. ledger.owner[e] = <<ledger.owner[e][1], ledger.owner[e][2]>> /\ e = <<e[1], e[2]>>
  BY <1>2 DEF Groups, Entries
<1>4. QED
  BY <1>2, <1>3, EntryFacts DEF Placed, Tx

LEMMA CanonicalIsHeld ==
  ASSUME IInv, SerialInv, NEW t \in Txs, Genuine(t), t \in covered["TRANSFERS"],
         t \in covered[Shape[t].family]
  PROVE  Canonical(t) \subseteq Held(t)
<1>1. ledger \in Ledgers /\ InUse(ledger) /\ ActionsPay(ledger)
  BY DEF IInv, Sound
<1>2. ASSUME NEW e \in Entries, Tx(e) = t, ledger.owner[e] # NoGroup
      PROVE  /\ e \in Present(ledger) /\ EntryFits(e, ledger.owner[e])
             /\ Placed(e, ledger.owner[e]) /\ ledger.owner[e] = <<t, ledger.owner[e][2]>>
             /\ [entry |-> IF IsFee(e) THEN <<t, "fee">> ELSE e, group |-> ledger.owner[e]]
                  \in Held(t)
  <2>1. e \in Present(ledger)
    BY <1>1, <1>2, LedgerFacts
  <2>2. QED
    BY <1>2, <2>1, HeldIs, PlaceOf DEF SerialInv, ContentHolds, LedgerFits
<1>3. CASE Actual(t)
  <2> DEFINE g == <<t, "action">>
  <2>1. g \in Entries /\ Tx(g) = t /\ g[2] = "action" /\ ~IsFee(g)
    BY EntryFacts DEF Tx, IsFee
  <2>2. ledger.owner[g] # NoGroup
    BY <1>3 DEF SerialInv, ContentHolds, CoveredHolds, Settled
  <2>3. ledger.owner[g] = g /\ g \in Present(ledger)
    BY <1>2, <2>1, <2>2 DEF Placed
  <2>4. Draft(t, "action", "action") \in Held(t)
    BY <1>2, <2>1, <2>2, <2>3 DEF Draft
  <2>5. PICK e \in Members(ledger, g) : IsFee(e)
    BY <1>1, <2>3 DEF InUse, ActionsPay
  <2>6. e \in Entries /\ ledger.owner[e] = g /\ g # NoGroup
    BY <1>1, <2>2, <2>3, <2>5, LedgerFacts
  <2>7. Tx(e) = t
    <3>1. e \in Present(ledger)
      BY <1>1, <2>6, LedgerFacts
    <3>2. QED
      BY <2>6, <3>1, PlaceOf
  <2>8. Draft(t, "fee", "action") \in Held(t)
    BY <1>2, <2>5, <2>6, <2>7 DEF Draft
  <2>9. QED
    BY <1>3, <2>4, <2>8 DEF Canonical
<1>4. CASE ~Actual(t)
  <2>1. Whole(ledger, t)
    BY <1>4 DEF SerialInv, ContentHolds, CoveredHolds
  <2>2. ASSUME NEW l \in Shape[t].logs
        PROVE  Draft(t, l, l) \in Held(t)
    <3>1. PICK e \in Entries : e = <<t, l>>
      BY <2>2, EntryFacts, Names
    <3>2. Tx(e) = t /\ e[2] = l /\ l \in Logs /\ ~IsFee(e) /\ ledger.owner[e] # NoGroup
      BY <2>1, <2>2, <3>1, Names DEF Tx, IsFee, Whole
    <3>3. ledger.owner[e] = <<t, l>>
      BY <1>2, <3>2 DEF Placed
    <3>4. QED
      BY <1>2, <3>1, <3>2, <3>3 DEF Draft
  <2>3. ASSUME Shape[t].value, Shape[t].logs = {}
        PROVE  Draft(t, "native", "tx") \in Held(t)
    <3>1. PICK e \in Entries : e = <<t, "native">>
      BY EntryFacts
    <3>2. Tx(e) = t /\ e[2] = "native" /\ ~IsFee(e) /\ ledger.owner[e] # NoGroup
      BY <2>1, <2>3, <3>1 DEF Tx, IsFee, Whole
    <3>3. ledger.owner[e] = <<t, "tx">>
      BY <1>2, <3>2 DEF Placed
    <3>4. QED
      BY <1>2, <3>1, <3>2, <3>3 DEF Draft
  <2>4. ASSUME Shape[t].pays, ~Shape[t].inline
        PROVE  Draft(t, "fee", "tx") \in Held(t)
    <3>1. PICK e \in Entries : IsFee(e) /\ Tx(e) = t /\ ledger.owner[e] # NoGroup
      BY <2>1, <2>4 DEF Whole
    <3>2. EntryFits(e, ledger.owner[e]) /\ Placed(e, ledger.owner[e])
      BY <1>2, <3>1
    <3>3. ledger.owner[e][2] = "tx"
      BY <1>4, <3>1, <3>2 DEF EntryFits, Placed
    <3>4. ledger.owner[e] = <<t, "tx">>
      BY <1>2, <3>1, <3>3
    <3>5. QED
      BY <1>2, <3>1, <3>4 DEF Draft
  <2>5. QED
    BY <1>4, <2>2, <2>3, <2>4 DEF Canonical
<1>5. QED
  BY <1>3, <1>4

LEMMA HeldIsCanonical ==
  ASSUME IInv, SerialInv, NEW t \in Txs, Genuine(t), t \in covered["TRANSFERS"],
         t \in covered[Shape[t].family], NEW d \in Held(t), d \notin Canonical(t)
  PROVE  \/ misread /\ Actual(t) /\ \E l \in Shape[t].logs : d = Draft(t, l, l)
         \/ t \in premature /\ d.group = <<t, "tx">>
<1>1. PICK e \in Present(ledger) :
        /\ Tx(e) = t
        /\ d = [entry |-> IF IsFee(e) THEN <<t, "fee">> ELSE e, group |-> ledger.owner[e]]
  BY HeldIs
<1>2. PICK g : g = ledger.owner[e]
  OBVIOUS
<1>3. /\ e \in Entries /\ e = <<t, e[2]>> /\ g = <<t, g[2]>> /\ Placed(e, g)
      /\ d = [entry |-> IF IsFee(e) THEN <<t, "fee">> ELSE e, group |-> g]
      /\ EntryFits(e, g) /\ d.group = g
  BY <1>1, <1>2, PlaceOf DEF SerialInv, ContentHolds, LedgerFits
<1>4. ledger \in Ledgers /\ InUse(ledger) /\ ActionsPay(ledger) /\ FeeUnique(ledger)
  BY DEF IInv, Sound
<1>5. CASE e[2] \in Logs
  <2>1. e[2] \in Shape[t].logs /\ g[2] = e[2] /\ ~IsFee(e)
    BY <1>1, <1>3, <1>5, Names DEF EntryFits, Placed, IsFee
  <2>2. d = Draft(t, e[2], e[2])
    BY <1>3, <2>1 DEF Draft
  <2>3. Actual(t)
    BY <2>1, <2>2 DEF Canonical
  <2>4. misread
    <3>1. Settled(ledger, t)
      BY <2>3 DEF SerialInv, ContentHolds, CoveredHolds
    <3>2. ledger.owner[<<t, e[2]>>] # NoGroup
      BY <1>1, <1>3, <1>4, LedgerFacts
    <3>3. QED
      BY <1>5, <3>1, <3>2 DEF Settled
  <2>5. QED
    BY <2>1, <2>2, <2>3, <2>4
<1>6. CASE e[2] = "native"
  <2>1. g[2] = "tx" /\ ~IsFee(e) /\ Shape[t].value
        /\ (Shape[t].logs = {} \/ t \in premature)
    BY <1>1, <1>3, <1>6 DEF EntryFits, Placed, IsFee
  <2>2. d = Draft(t, "native", "tx") /\ g = <<t, "tx">>
    BY <1>3, <1>6, <2>1 DEF Draft
  <2>3. Shape[t].logs # {}
    BY <2>1, <2>2, Names DEF Canonical
  <2>4. QED
    BY <1>3, <2>1, <2>2, <2>3
<1>7. CASE e[2] = "action"
  <2>1. g[2] = "action" /\ ~IsFee(e) /\ Actual(t)
    BY <1>1, <1>3, <1>7 DEF EntryFits, Placed, IsFee
  <2>2. d = Draft(t, "action", "action")
    BY <1>3, <1>7, <2>1 DEF Draft
  <2>3. QED
    BY <2>1, <2>2 DEF Canonical
<1>8. CASE IsFee(e)
  <2>1. /\ Shape[t].pays /\ g[2] \in {"tx", "action"}
        /\ Actual(t) \/ ~Shape[t].inline \/ t \in premature
        /\ g[2] = "action" => Actual(t)
    BY <1>1, <1>3, <1>8 DEF EntryFits, Placed
  <2>2. d = Draft(t, "fee", g[2])
    BY <1>3, <1>8 DEF Draft
  <2>3. g[2] = "tx"
    BY <2>1, <2>2 DEF Canonical
  <2>4. CASE ~Actual(t)
    BY <1>3, <2>1, <2>2, <2>3, <2>4 DEF Canonical
  <2>5. CASE Actual(t)
    <3> DEFINE a == <<t, "action">>
    <3>1. a \in Entries /\ Tx(a) = t /\ a[2] = "action"
      BY EntryFacts DEF Tx
    <3>2. a \in Present(ledger)
      BY <1>4, <2>5, <3>1, LedgerFacts DEF SerialInv, ContentHolds, CoveredHolds, Settled
    <3>3. ledger.owner[a] = a
      BY <3>1, <3>2, PlaceOf DEF Placed
    <3>4. PICK x \in Members(ledger, a) : IsFee(x)
      BY <1>4, <3>2, <3>3 DEF InUse, ActionsPay
    <3>5. x \in Present(ledger) /\ ledger.owner[x] = a
      BY <1>4, <3>2, <3>3, <3>4, LedgerFacts
    <3>6. Tx(x) = t
      BY <3>5, PlaceOf
    <3>7. x = e
      BY <1>1, <1>4, <1>8, <3>4, <3>5, <3>6 DEF FeeUnique
    <3>8. g[2] = "action"
      BY <1>2, <3>5, <3>7
    <3>9. QED
      BY <2>3, <3>8
  <2>6. QED
    BY <2>4, <2>5
<1>9. e[2] \in Logs \cup {"native", "action"} \/ IsFee(e)
  BY <1>3, EntryFacts DEF IsFee
<1>10. QED
  BY <1>5, <1>6, <1>7, <1>8, <1>9

(* While operations wait for each other: once the cursors of TRANSFERS and  *)
(* of its own family were moved over a transaction without warnings, the    *)
(* ledger holds exactly what it should of it, in whichever order syncs,     *)
(* rebuilds, repairs and failures came, as long as the query for consumed   *)
(* transfers never failed and the transaction was not drafted before its    *)
(* transfers were stored, or was rebuilt since.                             *)
THEOREM CanonicalLedgerReached == ASSUME Serial PROVE Spec => []CanonicalWhenCovered
<1>1. ASSUME IInv, SerialInv PROVE CanonicalWhenCovered
  <2> SUFFICES ASSUME ~misread, NEW t \in covered["TRANSFERS"] \ premature,
                      Shape[t].genuine, t \in covered[Shape[t].family]
               PROVE  Held(t) = Canonical(t)
    BY DEF CanonicalWhenCovered
  <2>1. t \in Txs
    BY <1>1, Names DEF IInv, TypeOK
  <2>2. QED
    BY <1>1, <2>1, CanonicalIsHeld, HeldIsCanonical DEF Genuine
<1>2. IInv /\ SerialInv => CanonicalWhenCovered
  BY <1>1
<1>3. QED
  BY <1>2, Invariance, SerialInvariance, PTL

(* And whatever failed or came too early, nothing that is covered is        *)
(* missing, and all there is besides are transfers of an action and what the*)
(* transaction itself moved and paid.                                       *)
THEOREM NothingIsMissing == ASSUME Serial PROVE Spec => []NothingMissing
<1>1. ASSUME IInv, SerialInv PROVE NothingMissing
  <2> SUFFICES ASSUME NEW t \in covered["TRANSFERS"],
                      Shape[t].genuine, t \in covered[Shape[t].family]
               PROVE  /\ Canonical(t) \subseteq Held(t)
                      /\ \A d \in Held(t) \ Canonical(t) :
                           \/ Actual(t) /\ \E l \in Shape[t].logs : d = Draft(t, l, l)
                           \/ t \in premature /\ d.group = <<t, "tx">>
    BY DEF NothingMissing
  <2>1. t \in Txs
    BY <1>1, Names DEF IInv, TypeOK
  <2>2. QED
    BY <1>1, <2>1, CanonicalIsHeld, HeldIsCanonical DEF Genuine
<1>2. IInv /\ SerialInv => NothingMissing
  BY <1>1
<1>3. QED
  BY <1>2, Invariance, SerialInvariance, PTL

-----------------------------------------------------------------------------
(* Only a rebuild changes the ledger while one is about to.                 *)
LEMMA LedgerWriters ==
  ASSUME SerialInv, Next, NEW p \in Procs, op[p].pc = "replace", ledger' # ledger
  PROVE  Replace(p)
<1>1. \A q \in Procs : op[q].pc # "idle" => q = p
  BY DEF SerialInv, Alone
<1>2. PICK q \in Procs : PersistSync(q) \/ Replace(q)
  BY DEF Next, Sync, Rebuild, Repair, StartSync, ScanBlock, StoreTransfers, ReadArtifacts,
         StoreAction, RecordEvidence, ReadActions, UpdateCursor, StartRebuild, ReadAll,
         ReadConsumed, Stop, RepairFabricated, RepairProvenance
<1>3. op[q].pc # "idle"
  BY <1>2 DEF PersistSync, Replace
<1>4. QED
  BY <1>1, <1>2, <1>3 DEF PersistSync

LEMMA ReplaceStaysInWindow ==
  ASSUME IInv, SerialInv, NEW p \in Procs, Replace(p), NEW e \in Entries,
         ledger'.owner[e] # ledger.owner[e]
  PROVE  Tx(e) \in op[p].window
<1>1. Knows(op[p]) /\ Sound(ledger) /\ GoodDrafts(op[p].drafts)
  BY DEF IInv, SerialInv, DraftsGood
<1>2. PICK S : S = DeleteScoped(ledger, op[p].families, op[p].scope)
  OBVIOUS
<1>3. PICK R : R = ledger'
  OBVIOUS
<1>4. op[p].pc = "replace" /\ R = PersistNormalizedLedger(S, op[p].drafts, Consumed)
  BY <1>2, <1>3 DEF Replace
<1>5. op[p].scope \subseteq op[p].window /\ \A d \in op[p].drafts : Tx(d.entry) \in op[p].window
  BY <1>1, <1>4 DEF Knows, RebuildHolds, DraftsHold
<1>6. /\ Sound(S) /\ S.owner[e] \in {ledger.owner[e], NoGroup}
      /\ ledger.owner[e] # NoGroup /\ S.owner[e] = NoGroup => Tx(e) \in op[p].scope
  BY <1>1, <1>2, DeleteFacts
<1>7. \/ S.owner[e] # NoGroup /\ R.owner[e] = NoGroup
           /\ \E d \in op[p].drafts : Tx(d.entry) = Tx(e)
      \/ R.owner[e] = NoGroup /\ S.owner[e] = NoGroup
      \/ R.owner[e] # NoGroup
           /\ (R.owner[e] = S.owner[e] \/ \E d \in op[p].drafts : Tx(d.entry) = Tx(e))
  BY <1>1, <1>4, <1>6, PersistFacts
<1>8. QED
  BY <1>3, <1>5, <1>6, <1>7

(* A rebuild deletes and writes the ledger of no transaction outside its    *)
(* block range, whichever families it replaces and whether its snapshots or *)
(* the time range set the scope of the deletion.                            *)
THEOREM RebuildsStayInWindow == ASSUME Serial PROVE Spec => RebuildStaysInWindow
<1>1. ASSUME IInv, SerialInv, [Next]_vars, NEW p \in Procs, op[p].pc = "replace",
             ledger' # ledger, NEW e \in Entries, ledger'.owner[e] # ledger.owner[e]
      PROVE  Tx(e) \in op[p].window
  <2>1. Next
    BY <1>1 DEF vars
  <2>2. Replace(p)
    BY <1>1, <2>1, LedgerWriters
  <2>3. QED
    BY <1>1, <2>2, ReplaceStaysInWindow
<1>2. IInv /\ SerialInv /\ [Next]_vars =>
        [\A p \in Procs : op[p].pc = "replace" /\ ledger' # ledger =>
           \A e \in Entries : ledger'.owner[e] # ledger.owner[e] => Tx(e) \in op[p].window]_vars
  BY <1>1
<1>3. QED
  BY <1>2, Invariance, SerialInvariance, PTL DEF Spec, RebuildStaysInWindow
=============================================================================
