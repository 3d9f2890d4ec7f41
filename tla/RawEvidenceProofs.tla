------------------------- MODULE RawEvidenceProofs -------------------------
(***************************************************************************)
(* For any actions of any kinds, any reorgs, batches and attempts: what a  *)
(* repair of provenance records for an action is exactly what the amounts  *)
(* of the action were summed from, and remains so.                         *)
(***************************************************************************)
EXTENDS RawEvidence, FiniteSetTheorems, FunctionTheorems, WellFoundedInduction, TLAPS

Kinds == {"SWAP", "LP", "START", "END"}
Transferable == [dir : {"IN", "OUT"}, asset : {"A", "B", "L", "H"}, fake : BOOLEAN]
Rows  == [status : {"absent", "ACTIVE", "REORGED"},
          evidence : {"null", "RECORDED", "VERIFIED_EMPTY"},
          amounts : SUBSET Transferable, legs : SUBSET Transferable]

(* The transfers an action of the kind looks at.                            *)
OfKind(k, ts) == IF k \in {"START", "END"} THEN OfStakeToken(ts) ELSE ts

(* The genuine transfers of a transaction have been stored, whatever became *)
(* of them: from then on its active transfers only become fewer.            *)
Settled(a) == \A t \in Transfers(a) : ~t.fake => stored[a][t] # "absent"
Looked(a)  == OfKind(kind[a], Active(a))

RowsTyped ==
  /\ kind \in ActionKinds
  /\ DOMAIN stored = Actions
  /\ rows \in [Actions -> Rows]
  /\ mended \subseteq Actions

(* A row has amounts that no later look at its transfers goes beyond.       *)
RowsHold ==
  \A a \in Actions : rows[a] # NoRow =>
    /\ Settled(a)
    /\ rows[a].amounts # {}
    /\ Looked(a) \subseteq rows[a].amounts
    /\ rows[a].legs \subseteq rows[a].amounts

(* Nor does what a producer has in hand, whoever made the row.              *)
SyncHolds ==
  /\ sync.pc # "idle" => sync.action \in Actions /\ Settled(sync.action)
  /\ sync.pc \in {"store", "record"} =>
       /\ sync.seen # {} /\ sync.seen \subseteq Transferable
       /\ Looked(sync.action) \subseteq sync.seen
       /\ rows[sync.action] # NoRow => sync.seen \subseteq rows[sync.action].amounts
  /\ sync.pc = "record" => rows[sync.action] # NoRow

(* What a repair is about to record are the amounts.                        *)
CallHolds ==
  /\ call.survivors \subseteq call.pending
  /\ \A p \in call.pending :
       /\ p.action \in Actions
       /\ rows[p.action] # NoRow
       /\ p.legs = rows[p.action].amounts

EvidenceInv == RowsTyped /\ RowsHold /\ SyncHolds /\ CallHolds /\ RecordedAsProduced

-----------------------------------------------------------------------------
LEMMA KindFacts ==
  ASSUME kind \in ActionKinds, NEW a \in Actions
  PROVE  kind[a] \in Kinds /\ Transfers(a) \subseteq Transferable
<1>1. kind[a] \in Kinds
  BY EvidenceAssumption DEF Kinds
<1>2. \A l \in Genuine[kind[a]] : l.dir \in {"IN", "OUT"} /\ l.asset \in {"A", "B", "L", "H"}
  <2>1. CASE kind[a] = "SWAP"
    BY <2>1 DEF Genuine, Leg
  <2>2. CASE kind[a] = "LP"
    BY <2>2 DEF Genuine, Leg
  <2>3. CASE kind[a] = "START"
    BY <2>3 DEF Genuine, Leg
  <2>4. CASE kind[a] = "END"
    BY <2>4 DEF Genuine, Leg
  <2>5. QED
    BY <1>1, <2>1, <2>2, <2>3, <2>4 DEF Kinds
<1>3. Fabricated \subseteq Transferable
  <2>1. [dir |-> "OUT", asset |-> "A", fake |-> TRUE] \in Transferable
    BY DEF Transferable
  <2>2. [dir |-> "OUT", asset |-> "H", fake |-> TRUE] \in Transferable
    BY DEF Transferable
  <2>3. Fabricated = {[dir |-> "OUT", asset |-> "A", fake |-> TRUE],
                      [dir |-> "OUT", asset |-> "H", fake |-> TRUE]}
    BY DEF Fabricated
  <2>4. QED
    BY <2>1, <2>2, <2>3
<1>4. {[dir |-> l.dir, asset |-> l.asset, fake |-> FALSE] : l \in Genuine[kind[a]]} \subseteq Transferable
  <2>1. SUFFICES ASSUME NEW l \in Genuine[kind[a]]
                 PROVE  [dir |-> l.dir, asset |-> l.asset, fake |-> FALSE] \in Transferable
    OBVIOUS
  <2>2. l.dir \in {"IN", "OUT"} /\ l.asset \in {"A", "B", "L", "H"}
    BY <1>2
  <2>3. QED
    BY <2>2 DEF Transferable
<1>5. QED
  BY <1>1, <1>3, <1>4 DEF Transfers

LEMMA ActiveFacts ==
  ASSUME RowsTyped, NEW a \in Actions
  PROVE  Active(a) \subseteq Transferable /\ Looked(a) \subseteq Transferable
BY KindFacts DEF RowsTyped, Active, Looked, OfKind, OfStakeToken

LEMMA NoRowFacts == /\ NoRow \in Rows /\ NoRow.evidence = "null"
                    /\ NoRow.amounts = {} /\ NoRow.legs = {}
BY DEF NoRow, Rows

(* A summary takes all the transfers it looks at or none.                   *)
LEMMA SummarizedAll ==
  ASSUME NEW k \in Kinds, NEW ts
  PROVE  Summarized(k, ts) = {} \/ Summarized(k, ts) = OfKind(k, ts)
BY DEF Summarized, OfKind, Kinds

LEMMA Monotone ==
  ASSUME NEW k, NEW ts, NEW us, ts \subseteq us
  PROVE  OfKind(k, ts) \subseteq OfKind(k, us)
BY DEF OfKind, OfStakeToken

LEMMA NewRowFacts ==
  ASSUME NEW ts \in SUBSET Transferable
  PROVE  /\ NewRow(ts) \in Rows /\ NewRow(ts) # NoRow
         /\ NewRow(ts).amounts = ts /\ NewRow(ts).legs = {}
BY DEF NewRow, NoRow, Rows

-----------------------------------------------------------------------------
(* The writers of transfers: what is settled stays so, and only shrinks.    *)
Shrinks == \A a \in Actions : Settled(a) => Settled(a)' /\ Active(a)' \subseteq Active(a)

LEMMA StoredAlone ==
  ASSUME UNCHANGED <<kind, stored>>
  PROVE  Shrinks /\ \A a \in Actions : Settled(a)' = Settled(a) /\ Active(a)' = Active(a)
                                       /\ Looked(a)' = Looked(a)
BY DEF Shrinks, Settled, Active, Transfers, Looked

LEMMA StoreTransfersShrinks ==
  ASSUME RowsTyped, NEW a \in Actions, StoreTransfers(a), UNCHANGED kind
  PROVE  Shrinks /\ Settled(a)' /\ DOMAIN stored' = Actions
<1>1. stored' = [stored EXCEPT ![a] = InsertTransfers(a)]
  BY DEF StoreTransfers
<1>2. DOMAIN stored' = Actions
  BY <1>1 DEF RowsTyped
<1>3. \A b \in Actions : Transfers(b)' = Transfers(b)
  BY DEF Transfers
<1>4. \A t \in Transfers(a) : stored'[a][t] =
        IF ~t.fake /\ stored[a][t] = "absent" THEN "ACTIVE" ELSE stored[a][t]
  BY <1>1 DEF RowsTyped, InsertTransfers
<1>5. \A b \in Actions : b # a => stored'[b] = stored[b]
  BY <1>1 DEF RowsTyped
<1>6. Settled(a)'
  BY <1>3, <1>4 DEF Settled
<1>7. Settled(a) => Active(a)' \subseteq Active(a)
  BY <1>3, <1>4 DEF Settled, Active
<1>8. \A b \in Actions : b # a => Settled(b)' = Settled(b) /\ Active(b)' = Active(b)
  BY <1>3, <1>5 DEF Settled, Active
<1>9. QED
  BY <1>2, <1>6, <1>7, <1>8 DEF Shrinks

LEMMA MarkReorgedShrinks ==
  ASSUME RowsTyped, NEW from \in Actions, MarkReorged(from), UNCHANGED kind
  PROVE  Shrinks /\ DOMAIN stored' = Actions
<1>1. stored' = [a \in Actions |-> [t \in Transfers(a) |->
        IF a \in ReorgWindow(from) /\ stored[a][t] # "absent"
          THEN "REORGED" ELSE stored[a][t]]]
  BY DEF MarkReorged
<1>2. \A a \in Actions : Transfers(a)' = Transfers(a)
  BY DEF Transfers
<1>3. \A a \in Actions : \A t \in Transfers(a) :
        stored'[a][t] = stored[a][t] \/ stored'[a][t] = "REORGED"
  BY <1>1
<1>4. QED
  BY <1>1, <1>2, <1>3 DEF Shrinks, Settled, Active

LEMMA InvalidateShrinks ==
  ASSUME RowsTyped, InvalidateFabricated, UNCHANGED kind
  PROVE  Shrinks /\ DOMAIN stored' = Actions
<1>1. stored' = [a \in Actions |-> [t \in Transfers(a) |->
        IF a \in fixer.found /\ t.fake /\ stored[a][t] = "ACTIVE"
          THEN "REORGED" ELSE stored[a][t]]]
  BY DEF InvalidateFabricated
<1>2. \A a \in Actions : Transfers(a)' = Transfers(a)
  BY DEF Transfers
<1>3. \A a \in Actions : \A t \in Transfers(a) :
        stored'[a][t] = stored[a][t] \/ stored'[a][t] = "REORGED"
  BY <1>1
<1>4. QED
  BY <1>1, <1>2, <1>3 DEF Shrinks, Settled, Active

-----------------------------------------------------------------------------
(* A step that writes transfers and leaves rows, or only their status,      *)
(* alone keeps everything.                                                  *)
LEMMA WritersKeep ==
  ASSUME EvidenceInv, Shrinks, DOMAIN stored' = Actions, rows' \in [Actions -> Rows],
         \A a \in Actions : /\ (rows'[a] = NoRow <=> rows[a] = NoRow)
                            /\ rows'[a].evidence = rows[a].evidence
                            /\ rows'[a].amounts = rows[a].amounts
                            /\ rows'[a].legs = rows[a].legs,
         UNCHANGED <<kind, call, mended>>,
         \/ UNCHANGED sync
         \/ sync'.pc = "idle"
         \/ sync'.pc = "summarize" /\ sync'.action \in Actions /\ Settled(sync.action)'
  PROVE  EvidenceInv'
<1>1. RowsTyped'
  BY DEF EvidenceInv, RowsTyped
<1>2. \A a \in Actions : Settled(a) => Settled(a)' /\ Looked(a)' \subseteq Looked(a)
  BY Monotone DEF Shrinks, Looked, OfKind, OfStakeToken
<1>3. RowsHold'
  BY <1>2 DEF EvidenceInv, RowsHold
<1>4. SyncHolds'
  <2>1. CASE UNCHANGED sync
    BY <2>1, <1>2 DEF EvidenceInv, SyncHolds
  <2>2. CASE sync'.pc = "idle"
    BY <2>2 DEF SyncHolds
  <2>3. CASE sync'.pc = "summarize" /\ sync'.action \in Actions /\ Settled(sync.action)'
    BY <2>3 DEF SyncHolds
  <2>4. QED
    BY <2>1, <2>2, <2>3
<1>5. CallHolds'
  BY DEF EvidenceInv, CallHolds
<1>6. RecordedAsProduced'
  BY DEF EvidenceInv, RecordedAsProduced, RowsTyped
<1>7. QED
  BY <1>1, <1>3, <1>4, <1>5, <1>6 DEF EvidenceInv

(* A step that changes the repair's call alone keeps all but CallHolds.     *)
LEMMA CallersKeep ==
  ASSUME EvidenceInv, UNCHANGED <<kind, stored, rows, sync, mended>>, CallHolds'
  PROVE  EvidenceInv'
<1>1. \A a \in Actions : Settled(a)' = Settled(a) /\ Looked(a)' = Looked(a)
  BY StoredAlone
<1>2. RowsTyped'
  BY DEF EvidenceInv, RowsTyped
<1>3. RowsHold'
  BY <1>1 DEF EvidenceInv, RowsHold
<1>4. SyncHolds'
  BY <1>1 DEF EvidenceInv, SyncHolds
<1>5. RecordedAsProduced'
  BY DEF EvidenceInv, RecordedAsProduced
<1>6. QED
  BY <1>2, <1>3, <1>4, <1>5 DEF EvidenceInv

-----------------------------------------------------------------------------
(* One lemma for each kind of step.                                         *)
LEMMA InitEstablishes == EvidenceInit => EvidenceInv
<1> SUFFICES ASSUME EvidenceInit PROVE EvidenceInv
  OBVIOUS
<1> PICK h \in {f \in [Actions -> UNION {Histories(a) : a \in Actions}] :
                  \A a \in Actions : f[a] \in Histories(a)} :
       /\ stored = [a \in Actions |-> [t \in Transfers(a) |->
                      IF t \in h[a].ts THEN "ACTIVE" ELSE "absent"]]
       /\ rows = [a \in Actions |->
                    IF h[a].acted /\ Summarized(kind[a], h[a].ts) # {}
                      THEN NewRow(Summarized(kind[a], h[a].ts)) ELSE NoRow]
  BY DEF EvidenceInit
<1>1. \A a \in Actions :
        /\ h[a].ts \subseteq Transfers(a)
        /\ h[a].ts # {} => Transfers(a) \ Fabricated \subseteq h[a].ts
  <2>1. SUFFICES ASSUME NEW a \in Actions
                 PROVE  /\ h[a].ts \subseteq Transfers(a)
                        /\ h[a].ts # {} => Transfers(a) \ Fabricated \subseteq h[a].ts
    OBVIOUS
  <2>2. h[a] \in Histories(a)
    OBVIOUS
  <2>3. Fabricated \subseteq Transfers(a)
    BY DEF Transfers
  <2> DEFINE Left == {{}} \cup {(Transfers(a) \ Fabricated) \cup fs :
                                 fs \in {{}} \cup {{f} : f \in Fabricated}}
  <2>4. \A ts \in Left : /\ ts \subseteq Transfers(a)
                         /\ ts # {} => Transfers(a) \ Fabricated \subseteq ts
    BY <2>3
  <2> HIDE DEF Left
  <2>5. Histories(a) = {[ts |-> ts, acted |-> b] : ts \in Left, b \in BOOLEAN}
    BY DEF Histories, Left
  <2>6. PICK ts \in Left, b \in BOOLEAN : h[a] = [ts |-> ts, acted |-> b]
    BY <2>2, <2>5
  <2>7. QED
    BY <2>4, <2>6
<1>2. ASSUME NEW a \in Actions
      PROVE  /\ kind[a] \in Kinds
             /\ h[a].ts \subseteq Transferable
             /\ Active(a) = h[a].ts
             /\ Summarized(kind[a], {}) = {}
             /\ rows[a] \in Rows
             /\ rows[a] # NoRow =>
                  /\ rows[a].amounts # {}
                  /\ rows[a].amounts = Looked(a)
                  /\ rows[a].legs = {}
                  /\ h[a].ts # {}
  <2>0. kind \in ActionKinds
    BY DEF EvidenceInit
  <2>1. kind[a] \in Kinds
    BY <2>0, EvidenceAssumption DEF Kinds
  <2>2. h[a].ts \subseteq Transferable
    BY <2>0, <1>1, KindFacts
  <2>3. Active(a) = h[a].ts
    BY <1>1 DEF Active
  <2>4. Summarized(kind[a], {}) = {}
    BY <2>1, SummarizedAll DEF OfKind, OfStakeToken
  <2>5. CASE rows[a] = NoRow
    BY <2>1, <2>2, <2>3, <2>4, <2>5, NoRowFacts
  <2>6. CASE rows[a] # NoRow
    <3> DEFINE ts == Summarized(kind[a], h[a].ts)
    <3>1. ts # {} /\ rows[a] = NewRow(ts)
      BY <2>6
    <3>2. ts = Looked(a) /\ ts \subseteq h[a].ts
      BY <3>1, <2>1, <2>3, SummarizedAll DEF Looked, OfKind, OfStakeToken
    <3>3. ts \in SUBSET Transferable
      BY <3>2, <2>2
    <3> HIDE DEF ts
    <3>4. QED
      BY <3>1, <3>2, <3>3, <2>1, <2>2, <2>3, <2>4, NewRowFacts
  <2>7. QED
    BY <2>5, <2>6
<1>3. RowsTyped
  <2>1. rows \in [Actions -> Rows]
    BY <1>2
  <2>2. QED
    BY <2>1 DEF RowsTyped, EvidenceInit
<1>4. RowsHold
  <2>1. ASSUME NEW a \in Actions, h[a].ts # {}
        PROVE  Settled(a)
    <3>1. \A t \in Fabricated : t.fake
      BY DEF Fabricated
    <3>2. \A t \in Transfers(a) : ~t.fake => t \in h[a].ts
      BY <2>1, <1>1, <3>1
    <3>3. QED
      BY <3>2 DEF Settled
  <2>2. QED
    BY <2>1, <1>2 DEF RowsHold
<1>5. SyncHolds
  BY DEF EvidenceInit, SyncHolds, IdleSync, Producer
<1>6. CallHolds
  BY DEF EvidenceInit, CallHolds, NoCall
<1>7. RecordedAsProduced
  BY DEF EvidenceInit, RecordedAsProduced
<1>8. QED
  BY <1>3, <1>4, <1>5, <1>6, <1>7 DEF EvidenceInv

LEMMA SameRows ==
  ASSUME EvidenceInv, UNCHANGED rows
  PROVE  /\ rows' \in [Actions -> Rows]
         /\ \A a \in Actions : /\ (rows'[a] = NoRow <=> rows[a] = NoRow)
                               /\ rows'[a].evidence = rows[a].evidence
                               /\ rows'[a].amounts = rows[a].amounts
                               /\ rows'[a].legs = rows[a].legs
BY DEF EvidenceInv, RowsTyped

LEMMA StoreTransfersKeeps ==
  ASSUME EvidenceInv, NEW a \in Actions, StoreTransfers(a), UNCHANGED kind
  PROVE  EvidenceInv'
<1>1. RowsTyped /\ UNCHANGED <<kind, rows, call, mended>>
  BY DEF EvidenceInv, StoreTransfers
<1>2. Shrinks /\ Settled(a)' /\ DOMAIN stored' = Actions
  BY <1>1, StoreTransfersShrinks
<1>3. sync'.pc = "summarize" /\ sync'.action = a
  BY DEF StoreTransfers, Producer
<1>4. Settled(sync.action)'
  BY <1>2, <1>3
<1>5. QED
  BY <1>1, <1>2, <1>3, <1>4, SameRows, WritersKeep

LEMMA MarkReorgedKeeps ==
  ASSUME EvidenceInv, NEW from \in Actions, MarkReorged(from), UNCHANGED kind
  PROVE  EvidenceInv'
<1>1. RowsTyped /\ UNCHANGED <<kind, sync, call, mended>>
  BY DEF EvidenceInv, MarkReorged
<1>2. Shrinks /\ DOMAIN stored' = Actions
  BY <1>1, MarkReorgedShrinks
<1>3. rows' = [a \in Actions |->
        IF a \in ReorgWindow(from) /\ rows[a] # NoRow
          THEN [rows[a] EXCEPT !.status = "REORGED"] ELSE rows[a]]
  BY DEF MarkReorged
<1>4. ASSUME NEW a \in Actions
      PROVE  /\ rows'[a] \in Rows
             /\ (rows'[a] = NoRow <=> rows[a] = NoRow)
             /\ rows'[a].evidence = rows[a].evidence
             /\ rows'[a].amounts = rows[a].amounts
             /\ rows'[a].legs = rows[a].legs
  <2>1. rows[a] \in Rows
    BY <1>1 DEF RowsTyped
  <2>2. CASE rows'[a] = rows[a]
    BY <2>1, <2>2
  <2>3. CASE rows'[a] = [rows[a] EXCEPT !.status = "REORGED"]
    BY <2>1, <2>3, <1>3 DEF Rows, NoRow
  <2>4. QED
    BY <2>2, <2>3, <1>3
<1>5. rows' \in [Actions -> Rows]
  BY <1>3, <1>4
<1>6. QED
  BY <1>1, <1>2, <1>4, <1>5, WritersKeep

LEMMA InvalidateKeeps ==
  ASSUME EvidenceInv, InvalidateFabricated, UNCHANGED kind
  PROVE  EvidenceInv'
<1>1. RowsTyped /\ UNCHANGED <<kind, rows, sync, call, mended>>
  BY DEF EvidenceInv, InvalidateFabricated
<1>2. Shrinks /\ DOMAIN stored' = Actions
  BY <1>1, InvalidateShrinks
<1>3. QED
  BY <1>1, <1>2, SameRows, WritersKeep

LEMMA SyncDiesKeeps ==
  ASSUME EvidenceInv, SyncDies, UNCHANGED kind
  PROVE  EvidenceInv'
<1>1. UNCHANGED <<kind, stored, rows, call, mended>> /\ sync'.pc = "idle"
  BY DEF SyncDies, IdleSync, Producer
<1>2. Shrinks /\ DOMAIN stored' = Actions
  BY <1>1, StoredAlone DEF EvidenceInv, RowsTyped
<1>3. QED
  BY <1>1, <1>2, SameRows, WritersKeep

-----------------------------------------------------------------------------
LEMMA SummarizeKeeps ==
  ASSUME EvidenceInv, NEW a \in Actions, Summarize(a), UNCHANGED kind
  PROVE  EvidenceInv'
<1> DEFINE ts == Summarized(kind[a], Active(a))
<1>1. /\ UNCHANGED <<kind, stored, rows, call, mended>>
      /\ sync.pc = "summarize" /\ sync.action = a
      /\ sync' = IF ts = {} THEN IdleSync ELSE Producer("store", a, ts)
  BY DEF Summarize
<1>2. RowsTyped /\ Shrinks /\ DOMAIN stored' = Actions
  BY <1>1, StoredAlone DEF EvidenceInv, RowsTyped
<1>3. CASE ts = {}
  <2>1. sync'.pc = "idle"
    BY <1>1, <1>3 DEF IdleSync, Producer
  <2>2. QED
    BY <1>1, <1>2, <2>1, SameRows, WritersKeep
<1>4. CASE ts # {}
  <2>1. sync' = Producer("store", a, ts)
    BY <1>1, <1>4
  <2>2. Settled(a)' /\ Looked(a)' = Looked(a)
    BY <1>1, StoredAlone DEF EvidenceInv, SyncHolds
  <2>3. kind[a] \in Kinds
    BY <1>2, KindFacts DEF RowsTyped
  <2>4. ts = Looked(a)
    BY <1>4, <2>3, SummarizedAll DEF Looked
  <2>5. ts \subseteq Transferable
    BY <2>4, <1>2, ActiveFacts
  <2>6. rows'[a] # NoRow => ts \subseteq rows'[a].amounts
    BY <2>4, <1>1 DEF EvidenceInv, RowsHold
  <2> HIDE DEF ts
  <2>7. SyncHolds'
    BY <1>4, <2>1, <2>2, <2>4, <2>5, <2>6 DEF SyncHolds, Producer
  <2>8. RowsTyped' /\ CallHolds' /\ RecordedAsProduced'
    BY <1>1 DEF EvidenceInv, RowsTyped, CallHolds, RecordedAsProduced
  <2>9. RowsHold'
    <3>1. \A b \in Actions : Settled(b)' = Settled(b) /\ Looked(b)' = Looked(b)
      BY <1>1, StoredAlone
    <3>2. QED
      BY <3>1, <1>1 DEF EvidenceInv, RowsHold
  <2>10. QED
    BY <2>7, <2>8, <2>9 DEF EvidenceInv
<1>5. QED
  BY <1>3, <1>4

LEMMA StoreActionKeeps ==
  ASSUME EvidenceInv, NEW a \in Actions, StoreAction(a), UNCHANGED kind
  PROVE  EvidenceInv'
<1>1. /\ UNCHANGED <<kind, stored, call, mended>>
      /\ sync.pc = "store" /\ sync.action = a
      /\ rows' = [rows EXCEPT ![a] = IF @ = NoRow THEN NewRow(sync.seen) ELSE @]
      /\ sync' = [sync EXCEPT !.pc = "record"]
  BY DEF StoreAction
<1>2. \A b \in Actions : Settled(b)' = Settled(b) /\ Looked(b)' = Looked(b)
  BY <1>1, StoredAlone
<1>3. /\ Settled(a) /\ sync.seen # {} /\ sync.seen \subseteq Transferable
      /\ Looked(a) \subseteq sync.seen
      /\ rows[a] # NoRow => sync.seen \subseteq rows[a].amounts
  BY <1>1 DEF EvidenceInv, SyncHolds
<1>4. /\ \A b \in Actions : b # a => rows'[b] = rows[b]
      /\ rows[a] # NoRow => rows'[a] = rows[a]
      /\ rows[a] = NoRow => rows'[a] = NewRow(sync.seen)
  BY <1>1 DEF EvidenceInv, RowsTyped
<1>5. /\ NewRow(sync.seen) \in Rows /\ NewRow(sync.seen) # NoRow
      /\ NewRow(sync.seen).amounts = sync.seen /\ NewRow(sync.seen).legs = {}
  BY <1>3, NewRowFacts
<1>6. RowsTyped'
  <2>1. rows' \in [Actions -> Rows]
    BY <1>1, <1>5 DEF EvidenceInv, RowsTyped
  <2>2. QED
    BY <2>1, <1>1 DEF EvidenceInv, RowsTyped
<1>7. RowsHold'
  BY <1>2, <1>3, <1>4, <1>5 DEF EvidenceInv, RowsHold
<1>8. SyncHolds'
  <2>1. rows'[a] # NoRow /\ sync.seen \subseteq rows'[a].amounts
    BY <1>3, <1>4, <1>5
  <2>2. (sync' = sync \/ sync'.pc = "record") /\ sync'.action = sync.action /\ sync'.seen = sync.seen
    BY <1>1
  <2>3. QED
    BY <1>1, <1>2, <1>3, <2>1, <2>2 DEF SyncHolds
<1>9. CallHolds'
  BY <1>1, <1>4 DEF EvidenceInv, CallHolds
<1>10. RecordedAsProduced'
  BY <1>1, <1>4, NoRowFacts DEF EvidenceInv, RecordedAsProduced, RowsTyped
<1>11. QED
  BY <1>6, <1>7, <1>8, <1>9, <1>10 DEF EvidenceInv

LEMMA RecordedFacts ==
  ASSUME NEW row \in Rows, NEW legs \in SUBSET Transferable
  PROVE  /\ Recorded(row, legs) \in Rows
         /\ Recorded(row, legs).amounts = row.amounts
         /\ Recorded(row, legs).legs = row.legs \cup legs
         /\ legs # {} => Recorded(row, legs).evidence = "RECORDED"
         /\ legs # {} => Recorded(row, legs) # NoRow
BY DEF Recorded, EvidenceStatus, Rows, NoRow

LEMMA RecordLegsKeeps ==
  ASSUME EvidenceInv, NEW a \in Actions, RecordLegs(a), UNCHANGED kind
  PROVE  EvidenceInv'
<1>1. /\ UNCHANGED <<kind, stored, call, mended>>
      /\ sync.pc = "record" /\ sync.action = a
      /\ rows' = [rows EXCEPT ![a] = Recorded(@, sync.seen)]
      /\ sync'.pc = "idle"
  BY DEF RecordLegs, IdleSync, Producer
<1>2. \A b \in Actions : Settled(b)' = Settled(b) /\ Looked(b)' = Looked(b)
  BY <1>1, StoredAlone
<1>3. /\ rows[a] # NoRow /\ rows[a] \in Rows
      /\ sync.seen # {} /\ sync.seen \in SUBSET Transferable
      /\ sync.seen \subseteq rows[a].amounts
  BY <1>1 DEF EvidenceInv, RowsTyped, SyncHolds
<1>4. /\ \A b \in Actions : b # a => rows'[b] = rows[b]
      /\ rows'[a] = Recorded(rows[a], sync.seen)
  BY <1>1 DEF EvidenceInv, RowsTyped
<1>5. /\ rows'[a] \in Rows /\ rows'[a] # NoRow
      /\ rows'[a].evidence = "RECORDED"
      /\ rows'[a].amounts = rows[a].amounts
      /\ rows'[a].legs = rows[a].legs \cup sync.seen
  BY <1>3, <1>4, RecordedFacts
<1>6. RowsTyped'
  <2>1. rows' \in [Actions -> Rows]
    BY <1>1, <1>4, <1>5 DEF EvidenceInv, RowsTyped
  <2>2. QED
    BY <2>1, <1>1 DEF EvidenceInv, RowsTyped
<1>7. RowsHold'
  BY <1>2, <1>3, <1>4, <1>5 DEF EvidenceInv, RowsHold
<1>8. SyncHolds'
  BY <1>1 DEF SyncHolds
<1>9. CallHolds'
  BY <1>1, <1>4, <1>5 DEF EvidenceInv, CallHolds
<1>10. RecordedAsProduced'
  <2>1. ASSUME NEW b \in mended
        PROVE  rows'[b].evidence = "RECORDED" /\ rows'[b].legs = rows'[b].amounts
    <3>1. b \in Actions /\ rows[b].evidence = "RECORDED" /\ rows[b].legs = rows[b].amounts
      BY DEF EvidenceInv, RowsTyped, RecordedAsProduced
    <3>2. CASE b = a
      BY <3>1, <3>2, <1>3, <1>5
    <3>3. CASE b # a
      BY <3>1, <3>3, <1>4
    <3>4. QED
      BY <3>2, <3>3
  <2>2. QED
    BY <1>1, <2>1 DEF RecordedAsProduced
<1>11. QED
  BY <1>6, <1>7, <1>8, <1>9, <1>10 DEF EvidenceInv

-----------------------------------------------------------------------------
(* The steps of a call of the repair.                                       *)
LEMMA ReconstructedFacts ==
  ASSUME EvidenceInv, NEW a \in Actions, Reconstructed(a)
  PROVE  Resummarized(a) = rows[a].amounts /\ rows[a] # NoRow
BY NoRowFacts DEF Reconstructed

LEMMA JudgeKeeps ==
  ASSUME EvidenceInv, NEW a \in Actions, Judge(a), UNCHANGED kind
  PROVE  EvidenceInv'
<1>1. UNCHANGED <<kind, stored, rows, sync, mended>>
  BY DEF Judge
<1>2. CASE Reconstructed(a)
  <2>1. call'.pending = call.pending \cup {[action |-> a, legs |-> Resummarized(a)]}
        /\ call'.survivors = call.survivors
    BY <1>2 DEF Judge
  <2>2. CallHolds'
    BY <1>1, <1>2, <2>1, ReconstructedFacts DEF EvidenceInv, CallHolds
  <2>3. QED
    BY <1>1, <2>2, CallersKeep
<1>3. CASE ~Reconstructed(a)
  <2>1. call'.pending = call.pending /\ call'.survivors = call.survivors
    BY <1>3 DEF Judge
  <2>2. CallHolds'
    BY <1>1, <2>1 DEF EvidenceInv, CallHolds
  <2>3. QED
    BY <1>1, <2>2, CallersKeep
<1>4. QED
  BY <1>2, <1>3

LEMMA CallStepsKeep ==
  ASSUME EvidenceInv, UNCHANGED <<kind, stored, rows, sync, mended>>,
         \/ call'.pending = {} /\ call'.survivors = {}
         \/ call'.pending = call.pending /\ call'.survivors \subseteq call.pending
  PROVE  EvidenceInv'
<1>1. CallHolds'
  BY DEF EvidenceInv, CallHolds
<1>2. QED
  BY <1>1, CallersKeep

LEMMA InvokeKeeps ==
  ASSUME EvidenceInv, NEW f, NEW c, NEW n, NEW b, Invoke(f, c, n, b)
  PROVE  EvidenceInv'
<1>1. call'.pending = {} /\ call'.survivors = {}
  BY DEF Invoke, NoCall
<1>2. QED
  BY <1>1, CallStepsKeep DEF Invoke

LEMMA ReportsKeep ==
  ASSUME EvidenceInv, ReturnScan \/ Open \/ Revalidate \/ Abort \/ RepairFails, UNCHANGED kind
  PROVE  EvidenceInv'
<1>1. UNCHANGED <<stored, rows, sync, mended>>
  BY DEF ReturnScan, Open, Revalidate, Abort, RepairFails
<1>2. CASE ReturnScan
  BY <1>1, <1>2, CallStepsKeep DEF ReturnScan, Reported, NoCall
<1>3. CASE Open
  BY <1>1, <1>3, CallStepsKeep DEF Open, EvidenceInv, CallHolds
<1>4. CASE Revalidate
  BY <1>1, <1>4, CallStepsKeep DEF Revalidate
<1>5. CASE Abort
  BY <1>1, <1>5, CallStepsKeep DEF Abort, Thrown, NoCall
<1>6. CASE RepairFails
  BY <1>1, <1>6, CallStepsKeep DEF RepairFails, Thrown, NoCall
<1>7. QED
  BY <1>2, <1>3, <1>4, <1>5, <1>6

(* The survivors are all without evidence as the transaction commits: what  *)
(* is recorded is the amounts of their rows, and nothing else is.           *)
LEMMA CommitRepairKeeps ==
  ASSUME EvidenceInv, CommitRepair, UNCHANGED kind
  PROVE  EvidenceInv'
<1> DEFINE Legs(a) == UNION {p.legs : p \in {q \in call.survivors : q.action = a}}
<1> DEFINE Chosen(a) == \E p \in call.survivors : p.action = a
<1>1. /\ UNCHANGED <<kind, stored, sync>>
      /\ rows' = [a \in Actions |-> IF Chosen(a) THEN Recorded(rows[a], Legs(a)) ELSE rows[a]]
      /\ mended' = mended \cup {p.action : p \in call.survivors}
      /\ call' = Reported(call.count - Cardinality(Invalidated),
                          {p.action : p \in call.survivors})
  BY DEF CommitRepair
<1>2. \A b \in Actions : Settled(b)' = Settled(b) /\ Looked(b)' = Looked(b)
  BY <1>1, StoredAlone
<1>3. call'.pending = {} /\ call'.survivors = {}
  BY <1>1 DEF Reported, NoCall
<1>4. ASSUME NEW a \in Actions, Chosen(a)
      PROVE  /\ Legs(a) = rows[a].amounts /\ rows[a] # NoRow
             /\ rows[a].amounts # {} /\ rows[a].amounts \in SUBSET Transferable
             /\ rows[a] \in Rows
  <2>1. \A p \in call.survivors : p.action = a => p.legs = rows[a].amounts /\ rows[a] # NoRow
    BY DEF EvidenceInv, CallHolds
  <2>2. Legs(a) = rows[a].amounts /\ rows[a] # NoRow
    BY <1>4, <2>1
  <2>3. rows[a] \in Rows /\ rows[a].amounts # {}
    BY <2>2 DEF EvidenceInv, RowsTyped, RowsHold
  <2>4. QED
    BY <2>2, <2>3 DEF Rows
<1> HIDE DEF Legs
<1>5. ASSUME NEW a \in Actions, Chosen(a)
      PROVE  /\ rows'[a] \in Rows /\ rows'[a] # NoRow
             /\ rows'[a].evidence = "RECORDED"
             /\ rows'[a].amounts = rows[a].amounts
             /\ rows'[a].legs = rows[a].amounts
  <2>1. rows'[a] = Recorded(rows[a], rows[a].amounts)
    BY <1>1, <1>4, <1>5
  <2>2. rows[a].legs \subseteq rows[a].amounts
    BY <1>4, <1>5 DEF EvidenceInv, RowsHold
  <2>3. /\ rows[a] \in Rows /\ rows[a].amounts \in SUBSET Transferable /\ rows[a].amounts # {}
        /\ rows[a].legs \cup rows[a].amounts = rows[a].amounts
    BY <1>4, <1>5, <2>2
  <2>4. /\ Recorded(rows[a], rows[a].amounts) \in Rows
        /\ Recorded(rows[a], rows[a].amounts) # NoRow
        /\ Recorded(rows[a], rows[a].amounts).evidence = "RECORDED"
        /\ Recorded(rows[a], rows[a].amounts).amounts = rows[a].amounts
        /\ Recorded(rows[a], rows[a].amounts).legs = rows[a].legs \cup rows[a].amounts
    BY <2>3, RecordedFacts
  <2>5. QED
    BY <2>1, <2>3, <2>4
<1>6. \A a \in Actions : ~Chosen(a) => rows'[a] = rows[a]
  BY <1>1
<1>7. {p.action : p \in call.survivors} = {a \in Actions : Chosen(a)}
  BY DEF EvidenceInv, CallHolds
<1> HIDE DEF Chosen
<1>8. RowsTyped'
  <2>1. \A a \in Actions : rows'[a] \in Rows
    BY <1>5, <1>6 DEF EvidenceInv, RowsTyped
  <2>2. rows' \in [Actions -> Rows]
    BY <1>1, <2>1
  <2>3. QED
    BY <2>2, <1>1, <1>7 DEF EvidenceInv, RowsTyped
<1>9. RowsHold'
  <2>1. ASSUME NEW a \in Actions, rows'[a] # NoRow
        PROVE  /\ rows[a] # NoRow
               /\ rows'[a].amounts = rows[a].amounts
               /\ rows'[a].legs \subseteq rows[a].amounts
    BY <2>1, <1>4, <1>5, <1>6 DEF EvidenceInv, RowsHold
  <2>2. QED
    BY <2>1, <1>2 DEF EvidenceInv, RowsHold
<1>10. SyncHolds'
  <2>1. \A a \in Actions : (rows'[a] # NoRow <=> rows[a] # NoRow)
                           /\ rows'[a].amounts = rows[a].amounts
    BY <1>4, <1>5, <1>6
  <2>2. QED
    BY <2>1, <1>1, <1>2 DEF EvidenceInv, SyncHolds
<1>11. CallHolds'
  BY <1>3 DEF CallHolds
<1>12. RecordedAsProduced'
  <2>1. ASSUME NEW a \in mended'
        PROVE  rows'[a].evidence = "RECORDED" /\ rows'[a].legs = rows'[a].amounts
    <3>1. CASE Chosen(a)
      BY <3>1, <2>1, <1>1, <1>5, <1>7 DEF EvidenceInv, RowsTyped
    <3>2. CASE ~Chosen(a)
      BY <3>2, <2>1, <1>1, <1>6, <1>7 DEF EvidenceInv, RowsTyped, RecordedAsProduced
    <3>3. QED
      BY <3>1, <3>2
  <2>2. QED
    BY <2>1 DEF RecordedAsProduced
<1>13. QED
  BY <1>8, <1>9, <1>10, <1>11, <1>12 DEF EvidenceInv

-----------------------------------------------------------------------------
LEMMA StepKeeps ==
  ASSUME EvidenceInv, EvidenceStep, UNCHANGED kind
  PROVE  EvidenceInv'
<1>1. CASE \E a \in Actions : Produce(a)
  <2>1. PICK a \in Actions : Produce(a)
    BY <1>1
  <2>2. CASE StoreTransfers(a)
    BY <2>2, StoreTransfersKeeps
  <2>3. CASE Summarize(a)
    BY <2>3, SummarizeKeeps
  <2>4. CASE StoreSwap(a) \/ StoreLp(a) \/ StoreStake(a)
    BY <2>4, StoreActionKeeps DEF StoreSwap, StoreLp, StoreStake
  <2>5. CASE RecordSwapLegs(a) \/ RecordLpLegs(a) \/ RecordStakeLegs(a)
    BY <2>5, RecordLegsKeeps DEF RecordSwapLegs, RecordLpLegs, RecordStakeLegs
  <2>6. QED
    BY <2>1, <2>2, <2>3, <2>4, <2>5 DEF Produce
<1>2. CASE \E a \in Actions : MarkReorged(a)
  BY <1>2, MarkReorgedKeeps
<1>3. CASE \E a \in Actions : Judge(a)
  BY <1>3, JudgeKeeps
<1>4. CASE Maintain
  <2>1. CASE SyncDies
    BY <2>1, SyncDiesKeeps
  <2>2. CASE FindFabricated
    BY <2>2, CallStepsKeep DEF FindFabricated, EvidenceInv, CallHolds
  <2>3. CASE InvalidateFabricated
    BY <2>3, InvalidateKeeps
  <2>4. CASE CommitRepair
    BY <2>4, CommitRepairKeeps
  <2>5. CASE ReturnScan \/ Open \/ Revalidate \/ Abort \/ RepairFails
    BY <2>5, ReportsKeep
  <2>6. QED
    BY <1>4, <2>1, <2>2, <2>3, <2>4, <2>5 DEF Maintain
<1>5. QED
  BY <1>1, <1>2, <1>3, <1>4 DEF EvidenceStep

LEMMA NextKeeps == EvidenceInv /\ [EvidenceNext]_evidenceVars => EvidenceInv'
<1> SUFFICES ASSUME EvidenceInv, [EvidenceNext]_evidenceVars
             PROVE  EvidenceInv'
  OBVIOUS
<1>1. CASE EvidenceStep /\ UNCHANGED kind
  BY <1>1, StepKeeps
<1>2. CASE \E f \in {"SWAP", "LP", "STAKE"}, c \in Actions \cup {0},
             n \in Takes, b \in BOOLEAN : Invoke(f, c, n, b)
  BY <1>2, InvokeKeeps
<1>3. CASE UNCHANGED evidenceVars
  BY <1>3, CallStepsKeep DEF evidenceVars, EvidenceInv, CallHolds
<1>4. QED
  BY <1>1, <1>2, <1>3 DEF EvidenceNext

LEMMA EvidenceInvariance == EvidenceSpec => []EvidenceInv
BY InitEstablishes, NextKeeps, PTL DEF EvidenceSpec

(* What a repair recorded for an action is exactly what the producer of the *)
(* action consumed, and stays so whatever is ingested, marked, recorded and *)
(* repaired afterwards.                                                     *)
THEOREM RecordedStaysAsProduced == EvidenceSpec => []RecordedAsProduced
<1>1. EvidenceInv => RecordedAsProduced
  BY DEF EvidenceInv
<1>2. QED
  BY <1>1, EvidenceInvariance, PTL

-----------------------------------------------------------------------------
(* The batches of a scan.                                                   *)
Below(S, a)      == {b \in S : b < a}
Lowest(S, take)  == {a \in S : Cardinality(Below(S, a)) < take}

LEMMA BelowFacts ==
  ASSUME NEW S \in SUBSET Nat, IsFiniteSet(S), NEW a \in S
  PROVE  /\ Cardinality(Below(S, a)) \in Nat
         /\ \A b \in S : b < a => Cardinality(Below(S, b)) < Cardinality(Below(S, a))
<1>1. ASSUME NEW b \in S
      PROVE  IsFiniteSet(Below(S, b)) /\ Cardinality(Below(S, b)) \in Nat
  BY FS_Subset, FS_CardinalityType DEF Below
<1>2. ASSUME NEW b \in S, b < a
      PROVE  Cardinality(Below(S, b)) < Cardinality(Below(S, a))
  <2>1. b \notin Below(S, b)
    BY DEF Below
  <2>2. Below(S, b) \cup {b} \subseteq Below(S, a)
    <3>1. \A c \in S : c < b => c < a
      BY <1>2
    <3> QED
      BY <3>1, <1>2 DEF Below
  <2>3. Cardinality(Below(S, b) \cup {b}) = Cardinality(Below(S, b)) + 1
    BY <1>1, <2>1, FS_AddElement
  <2>4. Cardinality(Below(S, b) \cup {b}) <= Cardinality(Below(S, a))
    BY <1>1, <2>2, FS_Subset
  <2> QED
    BY <1>1, <2>3, <2>4
<1> QED
  BY <1>1, <1>2

(* The lowest members of a set of numbers, as many as are asked for if there *)
(* are so many; whoever is left out is above them all.                       *)
LEMMA LowestFacts ==
  ASSUME NEW S \in SUBSET Nat, IsFiniteSet(S), NEW take \in Nat \ {0},
         NEW L, L = Lowest(S, take)
  PROVE  /\ IsFiniteSet(L) /\ Cardinality(L) \in 0 .. take
         /\ \A a \in S \ L : Cardinality(L) = take /\ \A b \in L : b < a
         /\ Cardinality(L) = take => \E m \in L : \A b \in L : b <= m
<1> DEFINE rank == [a \in L |-> Cardinality(Below(S, a))]
<1>1. L \subseteq S /\ IsFiniteSet(L) /\ Cardinality(L) \in Nat
  BY FS_Subset, FS_CardinalityType DEF Lowest
<1>2. \A a \in L : rank[a] \in 0 .. take - 1
  BY <1>1, BelowFacts DEF Lowest
<1>3. \A a, b \in L : b < a => rank[b] < rank[a]
  BY <1>1, BelowFacts
<1>4. \A a, b \in L : rank[a] = rank[b] => a = b
  <2> SUFFICES ASSUME NEW a \in L, NEW b \in L, rank[a] = rank[b], a # b
               PROVE  FALSE
    OBVIOUS
  <2>1. a \in Nat /\ b \in Nat
    BY <1>1
  <2>2. a < b \/ b < a
    BY <2>1
  <2> QED
    BY <1>2, <1>3, <2>2
<1>5. rank \in Injection(L, 0 .. take - 1)
  <2>1. rank \in [L -> 0 .. take - 1]
    BY <1>2
  <2> HIDE DEF rank
  <2> QED
    BY <1>4, <2>1, Fun_IsInj
<1>6. IsFiniteSet(0 .. take - 1) /\ Cardinality(0 .. take - 1) = take
  BY FS_Interval
<1>7. Cardinality(L) <= take
  BY <1>5, <1>6, FS_Injection
<1>8. ASSUME NEW a \in S \ L
      PROVE  Cardinality(L) = take /\ \A b \in L : b < a
  <2>1. \A c \in S \ L : \A b \in L : b < c
    <3> SUFFICES ASSUME NEW c \in S \ L, NEW b \in L
                 PROVE  b < c
      OBVIOUS
    <3>1. c \in Nat /\ b \in Nat /\ b # c
      BY <1>1
    <3>2. ~(c < b)
      BY <1>1, <3>1, BelowFacts DEF Lowest
    <3> QED
      BY <3>1, <3>2
  <2>2. S \ L \subseteq Nat /\ S \ L # {}
    OBVIOUS
  <2>3. PICK c \in S \ L : \A d \in S \ L : ~(<<d, c>> \in OpToRel(<, Nat))
    BY <2>2, NatLessThanWellFounded, WFMin
  <2>4. Below(S, c) \subseteq L
    <3>1. \A d \in S \ L : ~(d < c)
      BY <2>2, <2>3 DEF OpToRel
    <3> QED
      BY <3>1 DEF Below
  <2>5. Cardinality(Below(S, c)) >= take
    BY BelowFacts DEF Lowest
  <2>6. Cardinality(Below(S, c)) <= Cardinality(L)
    BY <1>1, <2>4, FS_Subset
  <2>7. Cardinality(L) = take
    BY <1>1, <1>7, <2>5, <2>6, BelowFacts
  <2> QED
    BY <2>1, <2>7
<1>9. ASSUME Cardinality(L) = take
      PROVE  \E m \in L : \A b \in L : b <= m
  <2>1. rank \in Surjection(L, 0 .. take - 1)
    BY <1>5, <1>6, <1>9, FS_Injection
  <2>2. PICK m \in L : rank[m] = take - 1
    <3> HIDE DEF rank
    <3>1. \A t \in 0 .. take - 1 : \E b \in L : rank[b] = t
      BY <2>1 DEF Surjection
    <3>2. take - 1 \in 0 .. take - 1
      OBVIOUS
    <3> QED
      BY <3>1, <3>2
  <2>3. ASSUME NEW b \in L
        PROVE  b <= m
    <3>1. ~(m < b)
      BY <1>2, <1>3, <2>2
    <3> QED
      BY <1>1, <3>1
  <2> QED
    BY <2>3
<1> QED
  BY <1>1, <1>7, <1>8, <1>9

Going   == {"judging", "opening", "writing"}
Kept    == [action : Actions, legs : SUBSET Transferable]
Edges   == Actions \cup {0}
Calls   == [pc : Going \cup {"idle", "returned", "thrown"}, family : {"SWAP", "LP", "STAKE"},
            apply : BOOLEAN, todo : SUBSET Actions, pending : SUBSET Kept,
            attempt : 0 .. MaxCommitAttempts, survivors : SUBSET Kept,
            count : 0 .. MaxActions, turned : SUBSET Actions, from : Edges, next : Edges]

(* A batch is what it should be, and its cursor leaves nobody behind.       *)
LEMMA BatchFacts ==
  ASSUME NEW family, NEW cursor \in Nat, NEW take \in Takes,
         NEW batch, batch = Batch(family, cursor, take)
  PROVE  /\ batch \in SUBSET Actions /\ IsFiniteSet(batch)
         /\ Cardinality(batch) \in 0 .. MaxActions
         /\ CursorAfter(batch, take) \in Edges
         /\ \A a \in Candidates(family) : a > cursor =>
              \/ a \in batch
              \/ CursorAfter(batch, take) # 0 /\ a > CursorAfter(batch, take)
<1> DEFINE beyond == {a \in Candidates(family) : a > cursor}
<1>1. beyond \in SUBSET Actions /\ beyond \in SUBSET Nat /\ IsFiniteSet(beyond)
  BY EvidenceAssumption, FS_Subset DEF Candidates
<1>2. take \in Nat \ {0} /\ take <= MaxActions
  BY EvidenceAssumption DEF Takes
<1>3. batch = Lowest(beyond, take) /\ batch \subseteq beyond
  BY DEF Batch, Lowest, Below
<1> HIDE DEF beyond
<1>4. /\ IsFiniteSet(batch) /\ Cardinality(batch) \in 0 .. take
      /\ \A a \in beyond \ batch : Cardinality(batch) = take /\ \A b \in batch : b < a
      /\ Cardinality(batch) = take => \E m \in batch : \A b \in batch : b <= m
  BY <1>1, <1>2, <1>3, LowestFacts
<1>5. Cardinality(batch) \in 0 .. MaxActions
  BY <1>2, <1>4, EvidenceAssumption
<1>6. CASE Cardinality(batch) = take
  <2>1. CursorAfter(batch, take) = CHOOSE a \in batch : \A b \in batch : b <= a
    BY <1>6 DEF CursorAfter
  <2>2. CursorAfter(batch, take) \in batch
    BY <1>4, <1>6, <2>1
  <2>3. CursorAfter(batch, take) \in Actions \ {0}
    BY <1>1, <1>3, <2>2, EvidenceAssumption
  <2>4. \A a \in beyond \ batch : a > CursorAfter(batch, take)
    <3> SUFFICES ASSUME NEW a \in beyond \ batch
                 PROVE  a > CursorAfter(batch, take)
      OBVIOUS
    <3>1. CursorAfter(batch, take) < a
      BY <1>4, <2>2
    <3>2. a \in Nat /\ CursorAfter(batch, take) \in Nat
      BY <1>1, <1>3, <2>2
    <3> QED
      BY <3>1, <3>2
  <2> QED
    BY <1>1, <1>3, <1>4, <1>5, <2>3, <2>4 DEF beyond, Edges
<1>7. CASE Cardinality(batch) # take
  <2>1. CursorAfter(batch, take) = 0
    BY <1>7 DEF CursorAfter
  <2>2. beyond \subseteq batch
    BY <1>4, <1>7
  <2> QED
    BY <1>1, <1>3, <1>4, <1>5, <2>1, <2>2 DEF beyond, Edges
<1> QED
  BY <1>6, <1>7

-----------------------------------------------------------------------------
(* What is counted.                                                         *)

(* Each action of the batch is still to be judged, or was found repairable  *)
(* and counted, or was dropped; what is reported is what was turned.        *)
CountHolds ==
  /\ call \in Calls
  /\ call.pc \in Going =>
       /\ IsFiniteSet(call.pending)
       /\ call.count = Cardinality(call.pending)
       /\ call.count + Cardinality(call.todo) <= MaxActions
       /\ \A p \in call.pending : p.action \notin call.todo
  /\ call.pc \in {"opening", "writing"} => call.todo = {}
  /\ call.pc = "returned" /\ call.apply => call.count = Cardinality(call.turned)

LEMMA NoCallFacts == NoCall \in Calls /\ Cardinality({}) = 0
<1>1. MaxCommitAttempts \in Nat /\ MaxActions \in Nat
  BY EvidenceAssumption
<1> QED
  BY <1>1, FS_EmptySet DEF NoCall, Calls, Edges, Going

LEMMA ReportFacts ==
  ASSUME call \in Calls, NEW count \in 0 .. MaxActions, NEW turned \in SUBSET Actions
  PROVE  /\ Reported(count, turned) \in Calls /\ Reported(count, turned).pc = "returned"
         /\ Reported(count, turned).count = count /\ Reported(count, turned).turned = turned
         /\ Reported(count, turned).apply = call.apply
         /\ Reported(count, turned).family = call.family
         /\ Reported(count, turned).next = call.next
         /\ Thrown \in Calls /\ Thrown.pc = "thrown" /\ Thrown.apply = FALSE
         /\ Thrown.family = call.family /\ Thrown.from = call.from
<1>1. NoCall \in Calls /\ NoCall.apply = FALSE
  BY NoCallFacts DEF NoCall
<1>2. /\ call.family \in {"SWAP", "LP", "STAKE"} /\ call.apply \in BOOLEAN
      /\ call.next \in Edges /\ call.from \in Edges
  BY DEF Calls
<1>3. /\ Thrown \in Calls /\ Thrown.pc = "thrown" /\ Thrown.apply = FALSE
      /\ Thrown.family = call.family /\ Thrown.from = call.from
  BY <1>1, <1>2 DEF Thrown, Calls
<1> DEFINE r == Reported(count, turned)
<1>4. /\ r \in Calls /\ r.pc = "returned" /\ r.count = count /\ r.turned = turned
      /\ r.apply = call.apply /\ r.family = call.family /\ r.next = call.next
  BY <1>1, <1>2 DEF Reported, Calls
<1> QED
  BY <1>3, <1>4

LEMMA InvokeCounts ==
  ASSUME CountHolds, NEW f \in {"SWAP", "LP", "STAKE"}, NEW c \in Edges, NEW n \in Takes,
         NEW b \in BOOLEAN, Invoke(f, c, n, b)
  PROVE  CountHolds'
<1> DEFINE batch == Batch(f, c, n)
<1>1. c \in Nat
  BY EvidenceAssumption DEF Edges
<1>2. /\ batch \in SUBSET Actions /\ IsFiniteSet(batch) /\ Cardinality(batch) \in 0 .. MaxActions
      /\ CursorAfter(batch, n) \in Edges
  BY <1>1, BatchFacts
<1>3. call' = [NoCall EXCEPT !.pc = "judging", !.family = f, !.apply = b, !.from = c,
                             !.todo = batch, !.next = CursorAfter(batch, n)]
  BY DEF Invoke
<1> HIDE DEF batch
<1>4. /\ call' \in Calls /\ call'.pc = "judging" /\ call'.pending = {} /\ call'.count = 0
      /\ call'.todo = batch
  BY <1>2, <1>3, NoCallFacts DEF Calls, NoCall, Going
<1> QED
  BY <1>2, <1>4, FS_EmptySet, EvidenceAssumption DEF CountHolds

LEMMA JudgeCounts ==
  ASSUME EvidenceInv, CountHolds, NEW a \in Actions, Judge(a), UNCHANGED kind
  PROVE  CountHolds'
<1> DEFINE p == [action |-> a, legs |-> Resummarized(a)]
<1>1. /\ call.pc = "judging" /\ a \in call.todo
      /\ call' = [call EXCEPT
           !.todo = @ \ {a},
           !.count = IF Reconstructed(a) THEN @ + 1 ELSE @,
           !.pending = IF Reconstructed(a) THEN @ \cup {p} ELSE @]
  BY DEF Judge
<1>2. /\ IsFiniteSet(call.pending) /\ call.count = Cardinality(call.pending)
      /\ call.count + Cardinality(call.todo) <= MaxActions
      /\ \A q \in call.pending : q.action \notin call.todo
      /\ call \in Calls
  BY <1>1 DEF CountHolds, Going
<1>3. /\ call.todo \in SUBSET Actions /\ IsFiniteSet(call.todo)
      /\ Cardinality(call.todo) \in Nat /\ call.count \in 0 .. MaxActions
  BY <1>2, EvidenceAssumption, FS_Subset, FS_CardinalityType DEF Calls
<1>4. Cardinality(call.todo \ {a}) = Cardinality(call.todo) - 1
  BY <1>1, <1>3, FS_RemoveElement
<1>5. p.action = a /\ p \notin call.pending
  BY <1>1, <1>2
<1>6. Reconstructed(a) => p \in Kept
  <2>1. RowsTyped /\ kind[a] \in Kinds
    BY KindFacts DEF EvidenceInv, RowsTyped
  <2>2. Active(a) \subseteq Transferable
    BY <2>1, ActiveFacts
  <2>3. Resummarized(a) \subseteq Transferable
    BY <2>1, <2>2, SummarizedAll DEF Resummarized, OfKind, OfStakeToken
  <2> QED
    BY <2>3 DEF Kept
<1> HIDE DEF p
<1>7. Cardinality(call.pending \cup {p}) = call.count + 1 /\ IsFiniteSet(call.pending \cup {p})
  BY <1>2, <1>5, FS_AddElement
<1>8. CASE Reconstructed(a)
  <2>1. call' = [call EXCEPT !.todo = @ \ {a}, !.count = @ + 1, !.pending = @ \cup {p}]
    BY <1>1, <1>8
  <2>2. /\ call'.pc = "judging" /\ call'.todo = call.todo \ {a} /\ call'.count = call.count + 1
        /\ call'.pending = call.pending \cup {p}
    BY <1>1, <1>2, <2>1 DEF Calls
  <2>3. call.count + 1 \in 0 .. MaxActions
    <3>1. Cardinality(call.todo \ {a}) \in Nat
      BY <1>3, FS_RemoveElement, FS_CardinalityType
    <3> QED
      BY <1>2, <1>3, <1>4, <3>1, EvidenceAssumption
  <2>4. call' \in Calls
    BY <1>2, <1>3, <1>6, <1>8, <2>1, <2>3 DEF Calls
  <2>5. call'.count + Cardinality(call'.todo) <= MaxActions
    BY <1>2, <1>3, <1>4, <2>2, EvidenceAssumption
  <2> QED
    BY <1>2, <1>5, <1>7, <2>2, <2>4, <2>5 DEF CountHolds, Going
<1>9. CASE ~Reconstructed(a)
  <2>1. call' = [call EXCEPT !.todo = @ \ {a}]
    BY <1>1, <1>2, <1>9 DEF Calls
  <2>2. call \in Calls /\ call.pc = "judging" /\ call.todo \ {a} \in SUBSET Actions
    BY <1>1, <1>2, <1>3
  <2>4. /\ call'.pc = "judging" /\ call'.todo = call.todo \ {a} /\ call'.count = call.count
        /\ call'.pending = call.pending /\ call' \in Calls
    BY <2>1, <2>2 DEF Calls
  <2>3. call'.count + Cardinality(call'.todo) <= MaxActions
    BY <1>2, <1>3, <1>4, <2>4, EvidenceAssumption
  <2> QED
    BY <1>2, <2>3, <2>4 DEF CountHolds, Going
<1> QED
  BY <1>8, <1>9

(* Of one action at most one summary is pending.                            *)
LEMMA SurvivorsCounted ==
  ASSUME EvidenceInv, CountHolds, call.pc = "writing"
  PROVE  /\ {p.action : p \in call.survivors} \in SUBSET Actions
         /\ call.count - Cardinality(Invalidated) \in 0 .. MaxActions
         /\ call.count - Cardinality(Invalidated)
              = Cardinality({p.action : p \in call.survivors})
<1> DEFINE S == call.survivors
           acts == {p.action : p \in S}
           name == [p \in S |-> p.action]
<1>1. /\ call \in Calls /\ IsFiniteSet(call.pending) /\ call.count = Cardinality(call.pending)
      /\ S \subseteq call.pending /\ call.pending \subseteq Kept
  BY DEF CountHolds, Going, EvidenceInv, CallHolds, Calls
<1>2. IsFiniteSet(S) /\ Cardinality(S) \in Nat /\ call.pending \cap S = S
  BY <1>1, FS_Subset, FS_CardinalityType
<1>3. call.count - Cardinality(Invalidated) = Cardinality(S)
  <2>1. Cardinality(Invalidated) = Cardinality(call.pending) - Cardinality(S)
    <3>1. Cardinality(call.pending \ S)
            = Cardinality(call.pending) - Cardinality(call.pending \cap S)
      BY <1>1, FS_Difference
    <3> QED
      BY <1>2, <3>1 DEF Invalidated
  <2>2. Cardinality(call.pending) \in Nat
    BY <1>1, FS_CardinalityType
  <2> QED
    BY <1>1, <1>2, <2>1, <2>2
<1>4. name \in Surjection(S, acts)
  <2>1. name \in [S -> acts] /\ \A t \in acts : \E s \in S : name[s] = t
    OBVIOUS
  <2> HIDE DEF name, acts
  <2> QED
    BY <2>1, Fun_IsSurj
<1>5. name \in Injection(S, acts)
  <2>1. \A p, q \in S : p.action = q.action => p = q
    <3> SUFFICES ASSUME NEW p \in S, NEW q \in S, p.action = q.action
                 PROVE  p = q
      OBVIOUS
    <3>1. p.legs = q.legs
      BY <1>1 DEF EvidenceInv, CallHolds
    <3>2. p \in Kept /\ q \in Kept
      BY <1>1
    <3> QED
      BY <3>1, <3>2 DEF Kept
  <2>2. name \in [S -> acts] /\ \A p, q \in S : name[p] = name[q] => p = q
    BY <2>1
  <2> HIDE DEF name, acts
  <2> QED
    BY <2>2, Fun_IsInj
<1>6. Cardinality(acts) = Cardinality(S)
  <2> HIDE DEF name, acts, S
  <2> QED
    BY <1>2, <1>4, <1>5, FS_Surjection
<1>7. acts \in SUBSET Actions
  BY <1>1 DEF Kept
<1>8. Cardinality(S) <= call.count
  BY <1>1, FS_Subset
<1>9. Cardinality(S) \in 0 .. MaxActions
  BY <1>1, <1>2, <1>8, EvidenceAssumption DEF Calls
<1> QED
  BY <1>3, <1>6, <1>7, <1>9

LEMMA CallCounts ==
  ASSUME EvidenceInv, CountHolds,
         ReturnScan \/ Open \/ Revalidate \/ CommitRepair \/ Abort \/ RepairFails
  PROVE  CountHolds'
<1>1. call \in Calls /\ 0 \in 0 .. MaxActions /\ {} \in SUBSET Actions
  BY EvidenceAssumption DEF CountHolds
<1>2. CASE ReturnScan
  <2>1. call.pc \in Going /\ call' = Reported(call.count, {})
    BY <1>2 DEF ReturnScan, Going
  <2>2. call.apply => call.count = 0
    BY <1>2, <2>1, FS_EmptySet DEF ReturnScan, CountHolds
  <2>3. call.count \in 0 .. MaxActions
    BY <1>1 DEF Calls
  <2> DEFINE r == Reported(call.count, {})
  <2>4. /\ r \in Calls /\ r.pc = "returned" /\ r.count = call.count /\ r.turned = {}
        /\ r.apply = call.apply
    BY <1>1, <2>3, ReportFacts
  <2> HIDE DEF r
  <2>5. call' = r
    BY <2>1 DEF r
  <2> QED
    BY <2>2, <2>4, <2>5, FS_EmptySet DEF CountHolds, Going
<1>3. CASE Open
  <2>1. call.pc = "judging" /\ call.todo = {}
        /\ call' = [call EXCEPT !.pc = "opening", !.attempt = 1]
    BY <1>3 DEF Open
  <2>2. 1 \in 0 .. MaxCommitAttempts
    BY EvidenceAssumption
  <2>3. /\ call' \in Calls /\ call'.pc = "opening" /\ call'.todo = call.todo
        /\ call'.count = call.count /\ call'.pending = call.pending
    BY <1>1, <2>1, <2>2 DEF Calls, Going
  <2> QED
    BY <2>1, <2>3 DEF CountHolds, Going
<1>4. CASE Revalidate
  <2> DEFINE S == {p \in call.pending : StillEligible(p)}
  <2>1. call.pc = "opening" /\ call' = [call EXCEPT !.pc = "writing", !.survivors = S]
    BY <1>4 DEF Revalidate
  <2>2. S \in SUBSET Kept
    BY <1>1 DEF Calls
  <2> HIDE DEF S
  <2>3. /\ call' \in Calls /\ call'.pc = "writing" /\ call'.todo = call.todo
        /\ call'.count = call.count /\ call'.pending = call.pending
    BY <1>1, <2>1, <2>2 DEF Calls, Going
  <2> QED
    BY <2>1, <2>3 DEF CountHolds, Going
<1>5. CASE CommitRepair
  <2> DEFINE acts == {p.action : p \in call.survivors}
             count == call.count - Cardinality(Invalidated)
  <2>1. call.pc = "writing" /\ call' = Reported(count, acts)
    BY <1>5 DEF CommitRepair
  <2>2. acts \in SUBSET Actions /\ count \in 0 .. MaxActions /\ count = Cardinality(acts)
    BY <2>1, SurvivorsCounted
  <2> HIDE DEF acts, count
  <2> DEFINE r == Reported(count, acts)
  <2>3. /\ r \in Calls /\ r.pc = "returned" /\ r.count = count /\ r.turned = acts
    BY <1>1, <2>2, ReportFacts
  <2> HIDE DEF r
  <2>4. call' = r
    BY <2>1 DEF r
  <2> QED
    BY <2>2, <2>3, <2>4 DEF CountHolds, Going
<1>6. ASSUME call' = Thrown
      PROVE  CountHolds'
  BY <1>1, <1>6, ReportFacts DEF CountHolds, Going
<1>7. CASE Abort /\ call.attempt # MaxCommitAttempts
  <2>1. call.pc = "writing"
        /\ call' = [call EXCEPT !.pc = "opening", !.attempt = @ + 1, !.survivors = {}]
    BY <1>7 DEF Abort
  <2>2. call.attempt + 1 \in 0 .. MaxCommitAttempts
    BY <1>1, <1>7, EvidenceAssumption DEF Calls
  <2>3. /\ call' \in Calls /\ call'.pc = "opening" /\ call'.todo = call.todo
        /\ call'.count = call.count /\ call'.pending = call.pending
    BY <1>1, <2>1, <2>2 DEF Calls, Going
  <2> QED
    BY <2>1, <2>3 DEF CountHolds, Going
<1>8. CASE Abort /\ call.attempt = MaxCommitAttempts
  BY <1>6, <1>8 DEF Abort
<1>9. CASE RepairFails
  BY <1>6, <1>9 DEF RepairFails
<1> QED
  BY <1>2, <1>3, <1>4, <1>5, <1>7, <1>8, <1>9

LEMMA InitCounts == EvidenceInit => CountHolds
<1> SUFFICES ASSUME EvidenceInit PROVE CountHolds
  OBVIOUS
<1>1. call = NoCall /\ NoCall.pc = "idle"
  BY DEF EvidenceInit, NoCall
<1> QED
  BY <1>1, NoCallFacts DEF CountHolds, Going

LEMMA NextCounts == EvidenceInv /\ CountHolds /\ [EvidenceNext]_evidenceVars => CountHolds'
<1> SUFFICES ASSUME EvidenceInv, CountHolds, [EvidenceNext]_evidenceVars
             PROVE  CountHolds'
  OBVIOUS
<1>1. ASSUME UNCHANGED call
      PROVE  CountHolds'
  BY <1>1 DEF CountHolds
<1>2. CASE \E f \in {"SWAP", "LP", "STAKE"}, c \in Actions \cup {0},
              n \in Takes, b \in BOOLEAN : Invoke(f, c, n, b)
  BY <1>2, InvokeCounts DEF Edges
<1>3. ASSUME NEW a \in Actions, Produce(a) \/ MarkReorged(a)
      PROVE  CountHolds'
  BY <1>1, <1>3 DEF Produce, StoreTransfers, Summarize, StoreSwap, StoreLp, StoreStake,
     StoreAction, RecordSwapLegs, RecordLpLegs, RecordStakeLegs, RecordLegs, MarkReorged
<1>4. ASSUME NEW a \in Actions, Judge(a), UNCHANGED kind
      PROVE  CountHolds'
  BY <1>4, JudgeCounts
<1>5. CASE SyncDies \/ FindFabricated \/ InvalidateFabricated
  BY <1>1, <1>5 DEF SyncDies, FindFabricated, InvalidateFabricated
<1>6. CASE ReturnScan \/ Open \/ Revalidate \/ CommitRepair \/ Abort \/ RepairFails
  BY <1>6, CallCounts
<1>7. CASE UNCHANGED evidenceVars
  BY <1>1, <1>7 DEF evidenceVars
<1> QED
  BY <1>2, <1>3, <1>4, <1>5, <1>6, <1>7 DEF EvidenceNext, EvidenceStep, Maintain

LEMMA CountsHold == EvidenceSpec => []CountHolds
<1>1. EvidenceInv /\ EvidenceInv' /\ CountHolds /\ [EvidenceNext]_evidenceVars => CountHolds'
  BY NextCounts
<1> QED
  BY <1>1, InitCounts, EvidenceInvariance, PTL DEF EvidenceSpec

(* The report of a call that wrote is the number of actions it turned to    *)
(* RECORDED, however often it was rolled back and whatever was taken from   *)
(* it meanwhile.                                                            *)
THEOREM ReportsAreActual == EvidenceSpec => []ReportIsActual
<1>1. CountHolds => ReportIsActual
  BY DEF CountHolds, ReportIsActual
<1> QED
  BY <1>1, CountsHold, PTL

-----------------------------------------------------------------------------
(* What is passed over.                                                     *)

Ahead(a, edge) == edge # 0 /\ a > edge

(* Where an action that could be repaired all along may be: it is due in    *)
(* the batch at hand or beyond its end, never behind where the scan is.     *)
CursorHolds ==
  /\ call.pc = "idle" => due = {}
  /\ ~call.apply /\ call.pc # "thrown" => due = {}
  /\ \A a \in due :
       /\ call.pc \in Going \cup {"thrown"} => a > call.from
       /\ call.pc = "returned" => Ahead(a, call.next)
       /\ call.pc \in {"judging", "opening"} =>
            \/ Ahead(a, call.next)
            \/ a \in call.todo
            \/ \E p \in call.pending : p.action = a
       /\ call.pc = "writing" =>
            Ahead(a, call.next) \/ \E p \in call.survivors : p.action = a

ScanHolds ==
  /\ \A a \in due : a \in Actions /\ Repairable(a) /\ Family(a) = call.family
  /\ CursorHolds

(* Whoever is due after a step was so before, and may still be repaired.    *)
Fewer == due' = {a \in due : Repairable(a)'}

LEMMA DueStays ==
  ASSUME ScanHolds, Fewer, UNCHANGED kind, call'.family = call.family
  PROVE  \A a \in due' : /\ a \in due /\ a \in Actions /\ Repairable(a) /\ Repairable(a)'
                         /\ Family(a)' = call'.family
BY DEF ScanHolds, Fewer, Family

LEMMA OthersScan ==
  ASSUME ScanHolds, Fewer, UNCHANGED <<kind, call>>
  PROVE  ScanHolds'
<1>1. \A a \in due' : /\ a \in due /\ a \in Actions /\ Repairable(a)'
                      /\ Family(a)' = call'.family
  BY DueStays
<1>2. CursorHolds'
  BY <1>1 DEF ScanHolds, CursorHolds, Ahead
<1> QED
  BY <1>1, <1>2 DEF ScanHolds

LEMMA InvokeScans ==
  ASSUME CountHolds, ScanHolds, NEW f \in {"SWAP", "LP", "STAKE"}, NEW c \in Edges,
         NEW n \in Takes, NEW b \in BOOLEAN, Invoke(f, c, n, b)
  PROVE  ScanHolds'
<1> DEFINE batch == Batch(f, c, n)
           next  == CursorAfter(batch, n)
<1>1. c \in Nat
  BY EvidenceAssumption DEF Edges
<1>2. \A a \in Candidates(f) : a > c => a \in batch \/ Ahead(a, next)
  BY <1>1, BatchFacts DEF Ahead
<1>3. /\ call' = [NoCall EXCEPT !.pc = "judging", !.family = f, !.apply = b, !.from = c,
                                !.todo = batch, !.next = next]
      /\ due' = CASE ~b -> {}
                  [] b /\ c = 0 -> {a \in Candidates(f) : Repairable(a)}
                  [] OTHER -> due
      /\ c = 0 \/ Resumable(f, c)
      /\ call.pc \in {"idle", "returned", "thrown"}
      /\ UNCHANGED <<kind, stored, rows>>
  BY DEF Invoke
<1> HIDE DEF batch, next
<1>4. /\ call'.pc = "judging" /\ call'.family = f /\ call'.apply = b /\ call'.from = c
      /\ call'.todo = batch /\ call'.next = next
  BY <1>3 DEF NoCall
<1>5. \A a \in due' : a \in Candidates(f) /\ Repairable(a) /\ a > c /\ b
  <2> SUFFICES ASSUME NEW a \in due'
               PROVE  a \in Candidates(f) /\ Repairable(a) /\ a > c /\ b
    OBVIOUS
  <2>1. CASE c = 0 /\ b
    <3>1. a \in Candidates(f) /\ Repairable(a)
      BY <1>3, <2>1
    <3>2. a \in Nat \ {0}
      BY <3>1, EvidenceAssumption DEF Candidates
    <3> QED
      BY <2>1, <3>1, <3>2
  <2>2. CASE c # 0 /\ b
    <3>1. a \in due /\ a \in Actions /\ Repairable(a) /\ Family(a) = call.family
      BY <1>3, <2>2 DEF ScanHolds
    <3>2. f = call.family /\ c = IF call.pc = "thrown" THEN call.from ELSE call.next
      BY <1>3, <2>2 DEF Resumable
    <3>3. a > c
      BY <1>3, <3>1, <3>2 DEF ScanHolds, CursorHolds, Ahead
    <3> QED
      BY <2>2, <3>1, <3>2, <3>3 DEF Candidates, Repairable
  <2>3. b
    BY <1>3
  <2> QED
    BY <2>1, <2>2, <2>3
<1>6. \A a \in Actions : Repairable(a)' = Repairable(a) /\ Family(a)' = Family(a)
  BY <1>3, StoredAlone DEF Repairable, Unevaluated, Reconstructed, Resummarized, Family
<1>7. \A a \in due' : a \in Actions /\ Repairable(a)' /\ Family(a)' = call'.family
  BY <1>4, <1>5, <1>6 DEF Candidates
<1>8. CursorHolds'
  <2>1. call'.pc # "returned" /\ call'.pc # "writing" /\ call'.pc # "idle" /\ call'.pc # "thrown"
    BY <1>4
  <2>2. ~call'.apply => due' = {}
    BY <1>3, <1>4
  <2>3. \A a \in due' : a > call'.from /\ (Ahead(a, call'.next) \/ a \in call'.todo)
    BY <1>2, <1>4, <1>5
  <2> QED
    BY <2>1, <2>2, <2>3 DEF CursorHolds, Ahead
<1> QED
  BY <1>7, <1>8 DEF ScanHolds

LEMMA JudgeScans ==
  ASSUME CountHolds, ScanHolds, Fewer, NEW a \in Actions, Judge(a), UNCHANGED kind
  PROVE  ScanHolds'
<1>1. /\ call \in Calls /\ call.pc = "judging"
      /\ call' = [call EXCEPT
           !.todo = @ \ {a},
           !.count = IF Reconstructed(a) THEN @ + 1 ELSE @,
           !.pending = IF Reconstructed(a)
             THEN @ \cup {[action |-> a, legs |-> Resummarized(a)]} ELSE @]
  BY DEF Judge, CountHolds
<1>2. /\ call'.pc = "judging" /\ call'.todo = call.todo \ {a} /\ call'.apply = call.apply
      /\ call'.family = call.family /\ call'.from = call.from /\ call'.next = call.next
      /\ call.pending \subseteq call'.pending
      /\ Reconstructed(a) => \E p \in call'.pending : p.action = a
  <2> DEFINE p == [action |-> a, legs |-> Resummarized(a)]
             m == IF Reconstructed(a) THEN call.count + 1 ELSE call.count
             P == IF Reconstructed(a) THEN call.pending \cup {p} ELSE call.pending
  <2>1. call.pending \subseteq P /\ (Reconstructed(a) => p \in P /\ p.action = a)
    OBVIOUS
  <2>2. call' = [call EXCEPT !.todo = @ \ {a}, !.count = m, !.pending = P]
    BY <1>1
  <2> HIDE DEF p, m, P
  <2>3. /\ call'.pc = "judging" /\ call'.todo = call.todo \ {a} /\ call'.apply = call.apply
        /\ call'.family = call.family /\ call'.from = call.from /\ call'.next = call.next
        /\ call'.pending = P
    BY <1>1, <2>2 DEF Calls
  <2> QED
    BY <2>1, <2>3
<1>3. \A d \in due' : /\ d \in due /\ d \in Actions /\ Repairable(d) /\ Repairable(d)'
                      /\ Family(d)' = call'.family
  BY <1>2, DueStays
<1>4. CursorHolds'
  <2>1. ~call'.apply => due' = {}
    BY <1>1, <1>2, <1>3 DEF ScanHolds, CursorHolds
  <2>2. \A d \in due' : /\ d > call'.from
                        /\ \/ Ahead(d, call'.next) \/ d \in call'.todo
                           \/ \E p \in call'.pending : p.action = d
    <3> SUFFICES ASSUME NEW d \in due'
                 PROVE  /\ d > call'.from
                        /\ \/ Ahead(d, call'.next) \/ d \in call'.todo
                           \/ \E p \in call'.pending : p.action = d
      OBVIOUS
    <3>1. /\ d > call.from
          /\ \/ Ahead(d, call.next) \/ d \in call.todo
             \/ \E p \in call.pending : p.action = d
      BY <1>1, <1>3 DEF ScanHolds, CursorHolds, Going
    <3>2. Reconstructed(d)
      BY <1>3 DEF Repairable
    <3>3. CASE d = a
      BY <1>2, <3>1, <3>2, <3>3
    <3>4. CASE d # a
      BY <1>2, <3>1, <3>4
    <3> QED
      BY <3>3, <3>4
  <2> QED
    BY <1>2, <2>1, <2>2 DEF CursorHolds, Ahead
<1> QED
  BY <1>3, <1>4 DEF ScanHolds

(* An action that can be repaired keeps its place among those pending when  *)
(* the transaction looks again.                                             *)
LEMMA StillAmong ==
  ASSUME EvidenceInv, NEW p \in call.pending, Repairable(p.action)
  PROVE  StillEligible(p)
<1>1. p.legs = rows[p.action].amounts /\ p.action \in Actions
  BY DEF EvidenceInv, CallHolds
<1>2. p.legs = Resummarized(p.action) /\ p.legs # {} /\ Unevaluated(p.action)
  BY <1>1 DEF Repairable, Reconstructed
<1>3. kind[p.action] \in Kinds
  BY <1>1, KindFacts DEF EvidenceInv, RowsTyped
<1>4. Resummarized(p.action) \subseteq Active(p.action)
  BY <1>2, <1>3, SummarizedAll DEF Resummarized, OfKind, OfStakeToken
<1> QED
  BY <1>2, <1>4 DEF StillEligible

LEMMA CallScans ==
  ASSUME EvidenceInv, CountHolds, ScanHolds, Fewer, UNCHANGED kind,
         ReturnScan \/ Open \/ Revalidate \/ CommitRepair \/ Abort \/ RepairFails
  PROVE  ScanHolds'
<1>1. call \in Calls /\ call.count \in 0 .. MaxActions
  BY DEF CountHolds, Calls
<1>2. ASSUME call' = Thrown, call.pc \in Going
      PROVE  ScanHolds'
  <2>1. call'.pc = "thrown" /\ call'.family = call.family /\ call'.from = call.from
    BY <1>1, <1>2, ReportFacts, EvidenceAssumption
  <2>2. \A a \in due' : a \in due /\ a \in Actions /\ Repairable(a)' /\ Family(a)' = call'.family
    BY <2>1, DueStays
  <2>3. CursorHolds'
    BY <1>2, <2>1, <2>2 DEF ScanHolds, CursorHolds, Going
  <2> QED
    BY <2>2, <2>3 DEF ScanHolds
<1>3. ASSUME NEW count \in 0 .. MaxActions, NEW turned \in SUBSET Actions,
             call' = Reported(count, turned), call.pc \in Going, call.apply,
             \A a \in due' : Ahead(a, call.next)
      PROVE  ScanHolds'
  <2>1. /\ call'.pc = "returned" /\ call'.family = call.family /\ call'.apply = call.apply
        /\ call'.next = call.next
    BY <1>1, <1>3, ReportFacts
  <2>2. \A a \in due' : a \in Actions /\ Repairable(a)' /\ Family(a)' = call'.family
    BY <2>1, DueStays
  <2>3. CursorHolds'
    BY <1>3, <2>1 DEF CursorHolds, Ahead, Going
  <2> QED
    BY <2>2, <2>3 DEF ScanHolds
<1>4. CASE ReturnScan
  <2>1. /\ call.pc = "judging" /\ call.todo = {} /\ call' = Reported(call.count, {})
        /\ ~call.apply \/ call.pending = {}
    BY <1>4 DEF ReturnScan
  <2>2. CASE call.apply
    <3>1. \A a \in due' : Ahead(a, call.next)
      BY <2>1, <2>2 DEF ScanHolds, CursorHolds, Fewer
    <3> QED
      BY <1>1, <1>3, <2>1, <2>2, <3>1 DEF Going
  <2>3. CASE ~call.apply
    <3>1. due' = {}
      BY <2>1, <2>3 DEF ScanHolds, CursorHolds, Fewer
    <3> QED
      BY <3>1 DEF ScanHolds, CursorHolds
  <2> QED
    BY <2>2, <2>3
<1>5. CASE Open
  <2>1. call.pc = "judging" /\ call.todo = {}
        /\ call' = [call EXCEPT !.pc = "opening", !.attempt = 1]
    BY <1>5 DEF Open
  <2>2. /\ call'.pc = "opening" /\ call'.family = call.family /\ call'.apply = call.apply
        /\ call'.next = call.next /\ call'.from = call.from /\ call'.todo = call.todo
        /\ call'.pending = call.pending
    BY <1>1, <2>1 DEF Calls
  <2>3. \A a \in due' : a \in due /\ a \in Actions /\ Repairable(a)' /\ Family(a)' = call'.family
    BY <2>2, DueStays
  <2>4. CursorHolds'
    BY <2>1, <2>2, <2>3 DEF ScanHolds, CursorHolds, Ahead, Going
  <2> QED
    BY <2>3, <2>4 DEF ScanHolds
<1>6. CASE Revalidate
  <2> DEFINE S == {p \in call.pending : StillEligible(p)}
  <2>1. call.pc = "opening" /\ call' = [call EXCEPT !.pc = "writing", !.survivors = S]
    BY <1>6 DEF Revalidate
  <2>2. /\ call'.pc = "writing" /\ call'.family = call.family /\ call'.apply = call.apply
        /\ call'.next = call.next /\ call'.from = call.from /\ call'.survivors = S
    BY <1>1, <2>1 DEF Calls
  <2>3. \A a \in due' : /\ a \in due /\ a \in Actions /\ Repairable(a) /\ Repairable(a)'
                        /\ Family(a)' = call'.family
    BY <2>2, DueStays
  <2>4. call.todo = {}
    BY <2>1 DEF CountHolds
  <2>5. \A a \in due' : Ahead(a, call.next) \/ \E p \in call'.survivors : p.action = a
    <3> SUFFICES ASSUME NEW a \in due', ~Ahead(a, call.next)
                 PROVE  \E p \in call'.survivors : p.action = a
      OBVIOUS
    <3>1. PICK p \in call.pending : p.action = a
      BY <2>1, <2>3, <2>4 DEF ScanHolds, CursorHolds
    <3>2. StillEligible(p)
      BY <2>3, <3>1, StillAmong
    <3> QED
      BY <2>2, <3>1, <3>2
  <2> HIDE DEF S
  <2>6. CursorHolds'
    BY <2>1, <2>2, <2>3, <2>5 DEF ScanHolds, CursorHolds, Ahead, Going
  <2> QED
    BY <2>3, <2>6 DEF ScanHolds
<1>7. CASE CommitRepair
  <2> DEFINE Legs(a) == UNION {p.legs : p \in {q \in call.survivors : q.action = a}}
  <2>1. /\ call.pc = "writing"
        /\ rows' = [a \in Actions |-> IF \E p \in call.survivors : p.action = a
                                        THEN Recorded(rows[a], Legs(a)) ELSE rows[a]]
        /\ call' = Reported(call.count - Cardinality(Invalidated),
                            {p.action : p \in call.survivors})
    BY <1>7 DEF CommitRepair
  <2>2. \A a \in due' : a \in due /\ a \in Actions /\ Repairable(a)'
    BY DEF Fewer, ScanHolds
  <2>3. \A a \in due' : Ahead(a, call.next)
    <3> SUFFICES ASSUME NEW a \in due', NEW p \in call.survivors, p.action = a
                 PROVE  FALSE
      BY <2>1, <2>2 DEF ScanHolds, CursorHolds
    <3>1. rows'[a].evidence = EvidenceStatus(Legs(a))
      <4>1. rows'[a] = Recorded(rows[a], Legs(a)) /\ rows[a] \in Rows
        BY <2>1, <2>2 DEF EvidenceInv, RowsTyped
      <4> HIDE DEF Legs
      <4> QED
        BY <4>1 DEF Recorded, Rows
    <3>2. rows'[a].evidence # "null"
      BY <3>1 DEF EvidenceStatus
    <3> QED
      BY <2>2, <3>2 DEF Repairable, Unevaluated
  <2>4. CASE call.apply
    BY <1>3, <2>1, <2>3, <2>4, SurvivorsCounted DEF Going
  <2>5. CASE ~call.apply
    <3>1. due' = {}
      BY <2>1, <2>5 DEF ScanHolds, CursorHolds, Fewer
    <3> QED
      BY <3>1 DEF ScanHolds, CursorHolds
  <2> QED
    BY <2>4, <2>5
<1>8. CASE Abort /\ call.attempt = MaxCommitAttempts
  BY <1>2, <1>8 DEF Abort, Going
<1>9. CASE Abort /\ call.attempt # MaxCommitAttempts
  <2>1. call.pc = "writing"
        /\ call' = [call EXCEPT !.pc = "opening", !.attempt = @ + 1, !.survivors = {}]
    BY <1>9 DEF Abort
  <2>2. /\ call'.pc = "opening" /\ call'.family = call.family /\ call'.apply = call.apply
        /\ call'.next = call.next /\ call'.from = call.from
        /\ call'.pending = call.pending
    BY <1>1, <2>1 DEF Calls
  <2>3. \A a \in due' : a \in due /\ a \in Actions /\ Repairable(a)' /\ Family(a)' = call'.family
    BY <2>2, DueStays
  <2>4. call.survivors \subseteq call.pending
    BY DEF EvidenceInv, CallHolds
  <2>5. CursorHolds'
    BY <2>1, <2>2, <2>3, <2>4 DEF ScanHolds, CursorHolds, Ahead, Going
  <2> QED
    BY <2>3, <2>5 DEF ScanHolds
<1>10. CASE RepairFails
  BY <1>2, <1>10 DEF RepairFails, Going
<1> QED
  BY <1>4, <1>5, <1>6, <1>7, <1>8, <1>9, <1>10

LEMMA NextScans ==
  EvidenceInv /\ CountHolds /\ ScanHolds /\ [EvidenceNext]_evidenceVars => ScanHolds'
<1> SUFFICES ASSUME EvidenceInv, CountHolds, ScanHolds, [EvidenceNext]_evidenceVars
             PROVE  ScanHolds'
  OBVIOUS
<1>1. CASE \E f \in {"SWAP", "LP", "STAKE"}, c \in Actions \cup {0},
              n \in Takes, b \in BOOLEAN : Invoke(f, c, n, b)
  BY <1>1, InvokeScans DEF Edges
<1>2. CASE UNCHANGED evidenceVars
  <2>1. Fewer
    <3>1. \A a \in Actions : Repairable(a)' = Repairable(a)
      BY <1>2, StoredAlone
         DEF evidenceVars, Repairable, Unevaluated, Reconstructed, Resummarized
    <3> QED
      BY <1>2, <3>1 DEF evidenceVars, ScanHolds, Fewer
  <2> QED
    BY <1>2, <2>1, OthersScan DEF evidenceVars
<1>3. CASE EvidenceStep /\ UNCHANGED kind /\ Fewer
  <2>1. ASSUME NEW a \in Actions, Produce(a) \/ MarkReorged(a)
        PROVE  UNCHANGED call
    BY <2>1 DEF Produce, StoreTransfers, Summarize, StoreSwap, StoreLp, StoreStake,
       StoreAction, RecordSwapLegs, RecordLpLegs, RecordStakeLegs, RecordLegs, MarkReorged
  <2>2. SyncDies \/ FindFabricated \/ InvalidateFabricated => UNCHANGED call
    BY DEF SyncDies, FindFabricated, InvalidateFabricated
  <2>3. CASE UNCHANGED call
    BY <1>3, <2>3, OthersScan
  <2>4. ASSUME NEW a \in Actions, Judge(a)
        PROVE  ScanHolds'
    BY <1>3, <2>4, JudgeScans
  <2>5. CASE ReturnScan \/ Open \/ Revalidate \/ CommitRepair \/ Abort \/ RepairFails
    BY <1>3, <2>5, CallScans
  <2> QED
    BY <1>3, <2>1, <2>2, <2>3, <2>4, <2>5 DEF EvidenceStep, Maintain
<1> QED
  BY <1>1, <1>2, <1>3 DEF EvidenceNext, Fewer

LEMMA Scanned == EvidenceSpec => []ScanHolds
<1>1. EvidenceInit => ScanHolds
  BY DEF EvidenceInit, ScanHolds, CursorHolds, NoCall
<1>2. EvidenceInv /\ CountHolds /\ ScanHolds /\ [EvidenceNext]_evidenceVars => ScanHolds'
  BY NextScans
<1> QED
  BY <1>1, <1>2, EvidenceInvariance, CountsHold, PTL DEF EvidenceSpec

(* A scan followed to its end, batch by batch and through calls that failed *)
(* and were repeated, passes over no action it could have repaired all the  *)
(* while, although those it repairs drop out of the query it pages through. *)
THEOREM ScansPassNothingOver == EvidenceSpec => []NothingPassedOver
<1>1. ScanHolds => NothingPassedOver
  BY DEF ScanHolds, CursorHolds, Ahead, NothingPassedOver
<1> QED
  BY <1>1, Scanned, PTL

-----------------------------------------------------------------------------
(* What is of which shape.                                                  *)
RowStatuses == {"absent", "ACTIVE", "REORGED"}

Shapes ==
  /\ \A a \in Actions :
       /\ stored[a] \in [Transfers(a) -> RowStatuses]
       /\ rows[a].amounts \subseteq Transfers(a)
  /\ sync.pc \in {"idle", "summarize", "store", "record"}
  /\ sync.pc \in {"store", "record"} =>
       \E a \in Actions : sync.action = a /\ sync.seen \subseteq Transfers(a)
  /\ fixer.pc \in {"idle", "update"}
  /\ reorgs \in 0 .. MaxReorgs

LEMMA ShapesGive ==
  ASSUME EvidenceInv, CountHolds, ScanHolds, Shapes
  PROVE  EvidenceTypeOK
<1>1. \A a \in Actions : /\ rows[a].status \in {"absent", "ACTIVE", "REORGED"}
                         /\ rows[a].evidence \in {"null", "RECORDED", "VERIFIED_EMPTY"}
                         /\ rows[a].amounts \cup rows[a].legs \subseteq Transfers(a)
  <2> SUFFICES ASSUME NEW a \in Actions
               PROVE  /\ rows[a].status \in {"absent", "ACTIVE", "REORGED"}
                      /\ rows[a].evidence \in {"null", "RECORDED", "VERIFIED_EMPTY"}
                      /\ rows[a].amounts \cup rows[a].legs \subseteq Transfers(a)
    OBVIOUS
  <2>1. rows[a] \in Rows
    BY DEF EvidenceInv, RowsTyped
  <2>2. rows[a].amounts \subseteq Transfers(a)
    BY DEF Shapes
  <2>3. rows[a].legs \subseteq rows[a].amounts
    BY NoRowFacts DEF EvidenceInv, RowsHold
  <2> QED
    BY <2>1, <2>2, <2>3 DEF Rows
<1>2. /\ call.pc \in {"idle", "judging", "opening", "writing", "returned", "thrown"}
      /\ call.attempt \in 0 .. MaxCommitAttempts
      /\ call.count \in 0 .. MaxActions
  BY DEF CountHolds, Calls, Going
<1>3. kind \in ActionKinds /\ mended \cup due \subseteq Actions
  BY DEF EvidenceInv, RowsTyped, ScanHolds
<1> QED
  BY <1>1, <1>2, <1>3 DEF EvidenceTypeOK, Shapes, RowStatuses

LEMMA SummarizedWithin ==
  ASSUME NEW k \in Kinds, NEW ts
  PROVE  Summarized(k, ts) \subseteq ts
BY SummarizedAll DEF OfKind, OfStakeToken

LEMMA InitShapes == EvidenceInit => Shapes
<1> SUFFICES ASSUME EvidenceInit PROVE Shapes
  OBVIOUS
<1>1. ASSUME NEW a \in Actions
      PROVE  stored[a] \in [Transfers(a) -> RowStatuses] /\ rows[a].amounts \subseteq Transfers(a)
  <2> PICK h \in {f \in [Actions -> UNION {Histories(b) : b \in Actions}] :
                    \A b \in Actions : f[b] \in Histories(b)} :
         /\ stored = [b \in Actions |-> [t \in Transfers(b) |->
                        IF t \in h[b].ts THEN "ACTIVE" ELSE "absent"]]
         /\ rows = [b \in Actions |->
                      IF h[b].acted /\ Summarized(kind[b], h[b].ts) # {}
                        THEN NewRow(Summarized(kind[b], h[b].ts)) ELSE NoRow]
    BY DEF EvidenceInit
  <2>1. h[a].ts \subseteq Transfers(a)
    <3>1. h[a] \in Histories(a) /\ Fabricated \subseteq Transfers(a)
      BY DEF Transfers
    <3> QED
      BY <3>1 DEF Histories
  <2>2. kind[a] \in Kinds
    BY EvidenceAssumption DEF EvidenceInit, Kinds
  <2>3. Summarized(kind[a], h[a].ts) \subseteq h[a].ts
    BY <2>2, SummarizedWithin
  <2>4. rows[a].amounts \subseteq h[a].ts
    <3> DEFINE ts == Summarized(kind[a], h[a].ts)
    <3>1. rows[a] = NewRow(ts) \/ rows[a] = NoRow
      OBVIOUS
    <3>2. NewRow(ts).amounts = ts /\ NoRow.amounts = {}
      BY DEF NewRow, NoRow
    <3> QED
      BY <2>3, <3>1, <3>2
  <2>5. stored[a] \in [Transfers(a) -> RowStatuses]
    BY DEF RowStatuses
  <2> QED
    BY <2>1, <2>4, <2>5
<1>2. sync.pc = "idle" /\ fixer.pc = "idle" /\ reorgs = 0 /\ MaxReorgs \in Nat
  BY EvidenceAssumption DEF EvidenceInit, IdleSync, Producer
<1>3. \A a \in Actions : /\ stored[a] \in [Transfers(a) -> RowStatuses]
                         /\ rows[a].amounts \subseteq Transfers(a)
  BY <1>1
<1> HIDE DEF EvidenceInit
<1> QED
  BY <1>2, <1>3 DEF Shapes

LEMMA SameTransfers ==
  ASSUME UNCHANGED kind
  PROVE  \A a \in Actions : Transfers(a)' = Transfers(a)
BY DEF Transfers

(* It is enough to look at what a step makes of each variable on its own.   *)
LEMMA ShapesStay ==
  ASSUME UNCHANGED kind,
         \A b \in Actions : stored'[b] \in [Transfers(b) -> RowStatuses],
         \A b \in Actions : rows'[b].amounts \subseteq Transfers(b),
         sync'.pc \in {"idle", "summarize", "store", "record"},
         sync'.pc \in {"store", "record"} =>
           \E a \in Actions : sync'.action = a /\ sync'.seen \subseteq Transfers(a),
         fixer'.pc \in {"idle", "update"},
         reorgs' \in 0 .. MaxReorgs
  PROVE  Shapes'
<1>1. \A b \in Actions : Transfers(b)' = Transfers(b)
  BY SameTransfers
<1>2. ASSUME NEW b \in Actions
      PROVE  stored'[b] \in [Transfers(b)' -> RowStatuses] /\ rows'[b].amounts \subseteq Transfers(b)'
  <2>1. Transfers(b)' = Transfers(b)
    BY <1>1
  <2>2. stored'[b] \in [Transfers(b) -> RowStatuses] /\ rows'[b].amounts \subseteq Transfers(b)
    OBVIOUS
  <2> QED
    BY <2>1, <2>2
<1>3. sync'.pc \in {"store", "record"} =>
        \E a \in Actions : sync'.action = a /\ sync'.seen \subseteq Transfers(a)'
  BY <1>1
<1> QED
  BY <1>2, <1>3 DEF Shapes

LEMMA ProduceShapes ==
  ASSUME EvidenceInv, Shapes, NEW a \in Actions, Produce(a), UNCHANGED kind
  PROVE  Shapes'
<1>0. /\ DOMAIN rows = Actions /\ DOMAIN stored = Actions
      /\ \A b \in Actions : stored[b] \in [Transfers(b) -> RowStatuses]
      /\ \A b \in Actions : rows[b].amounts \subseteq Transfers(b)
      /\ fixer.pc \in {"idle", "update"} /\ reorgs \in 0 .. MaxReorgs
  BY DEF Shapes, EvidenceInv, RowsTyped
<1>1. CASE StoreTransfers(a)
  <2>1. InsertTransfers(a) \in [Transfers(a) -> RowStatuses]
    BY DEF InsertTransfers, Shapes, RowStatuses
  <2>2. /\ stored' = [stored EXCEPT ![a] = InsertTransfers(a)]
        /\ UNCHANGED <<rows, fixer, reorgs>> /\ sync'.pc = "summarize"
    BY <1>1 DEF StoreTransfers, Producer
  <2>3. \A b \in Actions : stored'[b] \in [Transfers(b) -> RowStatuses]
    BY <1>0, <2>1, <2>2
  <2> QED
    BY <1>0, <2>2, <2>3, ShapesStay
<1>2. CASE Summarize(a)
  <2>1. kind[a] \in Kinds
    BY KindFacts DEF EvidenceInv, RowsTyped
  <2>2. Summarized(kind[a], Active(a)) \subseteq Transfers(a)
    BY <2>1, SummarizedWithin DEF Active
  <2>3. /\ \/ sync' = IdleSync
           \/ sync' = Producer("store", a, Summarized(kind[a], Active(a)))
        /\ UNCHANGED <<stored, rows, fixer, reorgs>>
    BY <1>2 DEF Summarize
  <2>4. /\ sync'.pc \in {"idle", "store"}
        /\ sync'.pc = "store" => sync'.action = a /\ sync'.seen \subseteq Transfers(a)
    BY <2>2, <2>3 DEF IdleSync, Producer
  <2> QED
    BY <1>0, <2>3, <2>4, ShapesStay
<1>3. CASE StoreSwap(a) \/ StoreLp(a) \/ StoreStake(a)
  <2>1. /\ UNCHANGED <<stored, fixer, reorgs>>
        /\ sync.pc = "store" /\ sync.action = a
        /\ rows' = [rows EXCEPT ![a] = IF @ = NoRow THEN NewRow(sync.seen) ELSE @]
        /\ sync' = [sync EXCEPT !.pc = "record"]
    BY <1>3 DEF StoreSwap, StoreLp, StoreStake, StoreAction
  <2>2. sync.seen \subseteq Transfers(a)
    BY <2>1 DEF Shapes
  <2>3. NewRow(sync.seen).amounts = sync.seen
    BY DEF NewRow, NoRow
  <2>4. \A b \in Actions : rows'[b].amounts \subseteq Transfers(b)
    BY <1>0, <2>1, <2>2, <2>3
  <2>5. (sync' = sync \/ sync'.pc = "record") /\ sync'.action = a /\ sync'.seen = sync.seen
    BY <2>1
  <2>6. sync'.pc \in {"store", "record"}
    BY <2>1, <2>5
  <2> QED
    BY <1>0, <2>1, <2>2, <2>4, <2>5, <2>6, ShapesStay
<1>4. CASE RecordSwapLegs(a) \/ RecordLpLegs(a) \/ RecordStakeLegs(a)
  <2>1. /\ UNCHANGED <<stored, fixer, reorgs>>
        /\ rows' = [rows EXCEPT ![a] = Recorded(@, sync.seen)]
        /\ sync'.pc = "idle"
    BY <1>4 DEF RecordSwapLegs, RecordLpLegs, RecordStakeLegs, RecordLegs, IdleSync, Producer
  <2>2. Recorded(rows[a], sync.seen).amounts = rows[a].amounts
    BY DEF Recorded
  <2>3. \A b \in Actions : rows'[b].amounts \subseteq Transfers(b)
    BY <1>0, <2>1, <2>2
  <2> QED
    BY <1>0, <2>1, <2>3, ShapesStay
<1> QED
  BY <1>1, <1>2, <1>3, <1>4 DEF Produce

LEMMA MaintainShapes ==
  ASSUME EvidenceInv, Shapes, UNCHANGED kind, Maintain \/ \E a \in Actions : MarkReorged(a) \/ Judge(a)
  PROVE  Shapes'
<1>1. /\ \A b \in Actions : stored[b] \in [Transfers(b) -> RowStatuses]
      /\ \A b \in Actions : rows[b].amounts \subseteq Transfers(b)
      /\ sync.pc \in {"idle", "summarize", "store", "record"}
      /\ sync.pc \in {"store", "record"} =>
           \E a \in Actions : sync.action = a /\ sync.seen \subseteq Transfers(a)
      /\ fixer.pc \in {"idle", "update"} /\ reorgs \in 0 .. MaxReorgs
  BY DEF Shapes
<1>2. ASSUME NEW a \in Actions, MarkReorged(a)
      PROVE  Shapes'
  <2>1. /\ UNCHANGED <<sync, fixer>> /\ reorgs < MaxReorgs /\ reorgs' = reorgs + 1
        /\ stored' = [b \in Actions |-> [t \in Transfers(b) |->
             IF b \in ReorgWindow(a) /\ stored[b][t] # "absent" THEN "REORGED" ELSE stored[b][t]]]
        /\ rows' = [b \in Actions |->
             IF b \in ReorgWindow(a) /\ rows[b] # NoRow
               THEN [rows[b] EXCEPT !.status = "REORGED"] ELSE rows[b]]
    BY <1>2 DEF MarkReorged
  <2>2. \A b \in Actions : stored'[b] \in [Transfers(b) -> RowStatuses]
    BY <2>1 DEF Shapes, RowStatuses
  <2>3. \A b \in Actions : rows'[b].amounts = rows[b].amounts
    BY <2>1
  <2>4. reorgs' \in 0 .. MaxReorgs
    BY <2>1, EvidenceAssumption DEF Shapes
  <2> QED
    BY <1>1, <2>1, <2>2, <2>3, <2>4, ShapesStay
<1>3. CASE InvalidateFabricated
  <2>1. /\ UNCHANGED <<rows, sync, reorgs>> /\ fixer'.pc = "idle"
        /\ stored' = [a \in Actions |-> [t \in Transfers(a) |->
             IF a \in fixer.found /\ t.fake /\ stored[a][t] = "ACTIVE"
               THEN "REORGED" ELSE stored[a][t]]]
    BY <1>3 DEF InvalidateFabricated
  <2>2. \A b \in Actions : stored'[b] \in [Transfers(b) -> RowStatuses]
    BY <2>1 DEF Shapes, RowStatuses
  <2> QED
    BY <1>1, <2>1, <2>2, ShapesStay
<1>4. CASE FindFabricated
  <2>1. UNCHANGED <<stored, rows, sync, reorgs>> /\ fixer'.pc = "update"
    BY <1>4 DEF FindFabricated
  <2> QED
    BY <1>1, <2>1, ShapesStay
<1>5. CASE SyncDies
  <2>1. UNCHANGED <<stored, rows, fixer, reorgs>> /\ sync'.pc = "idle"
    BY <1>5 DEF SyncDies, IdleSync, Producer
  <2> QED
    BY <1>1, <2>1, ShapesStay
<1>6. CASE CommitRepair
  <2> DEFINE Legs(a) == UNION {p.legs : p \in {q \in call.survivors : q.action = a}}
  <2>1. /\ UNCHANGED <<stored, sync, fixer, reorgs>>
        /\ rows' = [a \in Actions |-> IF \E p \in call.survivors : p.action = a
                                        THEN Recorded(rows[a], Legs(a)) ELSE rows[a]]
    BY <1>6 DEF CommitRepair
  <2>2. \A row, legs : Recorded(row, legs).amounts = row.amounts
    BY DEF Recorded
  <2> HIDE DEF Legs
  <2>3. \A b \in Actions : rows'[b].amounts = rows[b].amounts
    BY <2>1, <2>2
  <2> QED
    BY <1>1, <2>1, <2>3, ShapesStay
<1>7. CASE \/ ReturnScan \/ Open \/ Revalidate \/ Abort \/ RepairFails
           \/ \E a \in Actions : Judge(a)
  <2>1. UNCHANGED <<stored, rows, sync, fixer, reorgs>>
    BY <1>7 DEF ReturnScan, Open, Revalidate, Abort, RepairFails, Judge
  <2> QED
    BY <1>1, <2>1, ShapesStay
<1> QED
  BY <1>2, <1>3, <1>4, <1>5, <1>6, <1>7 DEF Maintain

LEMMA NextShapes == EvidenceInv /\ Shapes /\ [EvidenceNext]_evidenceVars => Shapes'
<1> SUFFICES ASSUME EvidenceInv, Shapes, [EvidenceNext]_evidenceVars
             PROVE  Shapes'
  OBVIOUS
<1>1. ASSUME UNCHANGED <<kind, stored, rows, sync, fixer, reorgs>>
      PROVE  Shapes'
  BY <1>1, ShapesStay DEF Shapes
<1>2. CASE \E f \in {"SWAP", "LP", "STAKE"}, c \in Actions \cup {0},
              n \in Takes, b \in BOOLEAN : Invoke(f, c, n, b)
  BY <1>1, <1>2 DEF Invoke
<1>3. CASE UNCHANGED evidenceVars
  BY <1>1, <1>3 DEF evidenceVars
<1>4. CASE EvidenceStep /\ UNCHANGED kind
  BY <1>4, ProduceShapes, MaintainShapes DEF EvidenceStep
<1> QED
  BY <1>2, <1>3, <1>4 DEF EvidenceNext

(* Every row, and all that an actor has in hand, is what the code can make  *)
(* it: amounts and evidence are transfers of the transaction, counts and    *)
(* attempts within their limits.                                            *)
THEOREM EvidenceTyped == EvidenceSpec => []EvidenceTypeOK
<1>1. EvidenceInv /\ CountHolds /\ ScanHolds /\ Shapes => EvidenceTypeOK
  BY ShapesGive
<1>2. EvidenceSpec => []Shapes
  BY InitShapes, NextShapes, EvidenceInvariance, PTL DEF EvidenceSpec
<1> QED
  BY <1>1, <1>2, EvidenceInvariance, CountsHold, Scanned, PTL
=============================================================================
