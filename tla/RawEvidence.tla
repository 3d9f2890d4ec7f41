---------------------------- MODULE RawEvidence ----------------------------
(***************************************************************************)
(* Raw transfers, the swaps, liquidity and stake actions summarized from   *)
(* them, and the evidence that says which transfers an action consumed.    *)
(*                                                                         *)
(* Four actors write these rows: the producers of a sync (dex-sync.ts,     *)
(* lp-sync.ts, stake-sync.ts under src/services/sync), the reorg marker    *)
(* (raw-store.ts), the repair of fabricated transfers and the repair of    *)
(* provenance (canonical-provenance-repair.ts).  The database takes no     *)
(* lock on behalf of any of them but the last.                             *)
(*                                                                         *)
(* An action stands for its transaction as well, and its number is both    *)
(* its id, by which repairs page, and its block, by which reorgs cut.  An  *)
(* amount is the set of the transfers it was summed from.                  *)
(***************************************************************************)
EXTENDS Integers, Sequences, FiniteSets

CONSTANTS
  Actions,           \* the actions, numbered from 1
  ActionKinds,       \* the kinds they may be of: functions from Actions
  MaxActions,        \* the most candidates one call of the repair takes
  MaxCommitAttempts, \* MAX_SERIALIZABLE_TRANSACTION_ATTEMPTS
  MaxReorgs          \* bound: reorgs that are marked

ASSUME EvidenceAssumption ==
  /\ Actions \subseteq Nat \ {0}
  /\ IsFiniteSet(Actions)
  /\ ActionKinds \subseteq [Actions -> {"SWAP", "LP", "START", "END"}]
  /\ MaxActions \in Nat \ {0}
  /\ MaxCommitAttempts \in Nat \ {0}
  /\ MaxReorgs \in Nat

VARIABLES
  kind,    \* the kind of each action
  stored,  \* the status of each transfer of each transaction
  rows,    \* the rows of the action tables
  sync,    \* the producer of a sync
  fixer,   \* the repair of fabricated transfers
  call,    \* the repair of provenance: its present or last call
  mended,  \* the actions repairs of provenance have recorded
  due,     \* those a scan must not pass over: repairable all along
  reorgs   \* the reorgs marked

evidenceVars == <<kind, stored, rows, sync, fixer, call, mended, due, reorgs>>

-----------------------------------------------------------------------------
(* The transfers of a transaction, by what the wallet did in it.            *)
Leg(dir, asset) == [dir |-> dir, asset |-> asset]
Genuine ==
  [SWAP  |-> {Leg("OUT", "A"), Leg("IN", "B")},
   LP    |-> {Leg("OUT", "A"), Leg("OUT", "B"), Leg("IN", "L")},
   START |-> {Leg("OUT", "H")},
   END   |-> {Leg("IN", "H")}]

(* What the former decoder made of an event that is no transfer: one more   *)
(* transfer, of an asset of the transaction or of another.                  *)
Fabricated == {[dir |-> "OUT", asset |-> x, fake |-> TRUE] : x \in {"A", "H"}}

Transfers(a) ==
  {[dir |-> l.dir, asset |-> l.asset, fake |-> FALSE] : l \in Genuine[kind[a]]}
    \cup Fabricated
Active(a) == {t \in Transfers(a) : stored[a][t] = "ACTIVE"}

Assets(ts, dir) == {t.asset : t \in {u \in ts : u.dir = dir}}
Moved(ts, dir)  == Cardinality({t \in ts : t.dir = dir})

SwapShape(ts) ==
  /\ Cardinality(Assets(ts, "OUT")) = 1
  /\ Cardinality(Assets(ts, "IN")) = 1
  /\ Assets(ts, "OUT") # Assets(ts, "IN")

LpShape(ts) ==
  /\ {Cardinality(Assets(ts, "OUT")), Cardinality(Assets(ts, "IN"))} = {1, 2}
  /\ Assets(ts, "OUT") \cap Assets(ts, "IN") = {}

StakeStartShape(ts) == Moved(ts, "OUT") = 1 /\ Moved(ts, "IN") = 0
StakeEndShape(ts)   == Moved(ts, "OUT") = 0 /\ Moved(ts, "IN") = 1

(* Those of a stake are looked for among the transfers of its token alone.  *)
OfStakeToken(ts) == {t \in ts : t.asset = "H"}

(* The transfers an action of the kind is made from, {} if the transaction  *)
(* does not have its shape.                                                 *)
Summarized(k, ts) ==
  CASE k = "SWAP" /\ SwapShape(ts) -> ts
    [] k = "LP" /\ LpShape(ts) -> ts
    [] k = "START" /\ StakeStartShape(OfStakeToken(ts)) -> OfStakeToken(ts)
    [] k = "END" /\ StakeEndShape(OfStakeToken(ts)) -> OfStakeToken(ts)
    [] OTHER -> {}

Family(a) == IF kind[a] \in {"START", "END"} THEN "STAKE" ELSE kind[a]

NoRow == [status |-> "absent", evidence |-> "null", amounts |-> {}, legs |-> {}]
NewRow(ts) == [NoRow EXCEPT !.status = "ACTIVE", !.amounts = ts]

Producer(pc, a, ts) == [pc |-> pc, action |-> a, seen |-> ts]
IdleSync == Producer("idle", 0, {})
NoCall ==
  [pc |-> "idle", family |-> "SWAP", apply |-> FALSE, todo |-> {},
   pending |-> {}, attempt |-> 0, survivors |-> {}, count |-> 0,
   turned |-> {}, from |-> 0, next |-> 0]

EvidenceTypeOK ==
  /\ kind \in ActionKinds
  /\ \A a \in Actions :
       /\ stored[a] \in [Transfers(a) -> {"absent", "ACTIVE", "REORGED"}]
       /\ rows[a].status \in {"absent", "ACTIVE", "REORGED"}
       /\ rows[a].evidence \in {"null", "RECORDED", "VERIFIED_EMPTY"}
       /\ rows[a].amounts \cup rows[a].legs \subseteq Transfers(a)
  /\ sync.pc \in {"idle", "summarize", "store", "record"}
  /\ fixer.pc \in {"idle", "update"}
  /\ call.pc \in {"idle", "judging", "opening", "writing", "returned", "thrown"}
  /\ call.attempt \in 0 .. MaxCommitAttempts
  /\ call.count \in 0 .. MaxActions
  /\ mended \cup due \subseteq Actions
  /\ reorgs \in 0 .. MaxReorgs

-----------------------------------------------------------------------------
(* What an earlier release left: transfers, fabricated ones among them, and *)
(* actions without evidence.                                                *)
Histories(a) ==
  {[ts |-> ts, acted |-> b] :
     ts \in {{}} \cup {(Transfers(a) \ Fabricated) \cup fs :
                         fs \in {{}} \cup {{f} : f \in Fabricated}},
     b \in BOOLEAN}

EvidenceInit ==
  /\ kind \in ActionKinds
  /\ \E h \in {f \in [Actions -> UNION {Histories(a) : a \in Actions}] :
                 \A a \in Actions : f[a] \in Histories(a)} :
       /\ stored = [a \in Actions |-> [t \in Transfers(a) |->
                      IF t \in h[a].ts THEN "ACTIVE" ELSE "absent"]]
       /\ rows = [a \in Actions |->
                    IF h[a].acted /\ Summarized(kind[a], h[a].ts) # {}
                      THEN NewRow(Summarized(kind[a], h[a].ts)) ELSE NoRow]
  /\ sync = IdleSync
  /\ fixer = [pc |-> "idle", found |-> {}]
  /\ call = NoCall
  /\ mended = {} /\ due = {} /\ reorgs = 0

-----------------------------------------------------------------------------
(* A sync ingests a block: the transfers of the transaction are stored      *)
(* unless they are there already, whatever their status.                    *)
InsertTransfers(a) ==
  [t \in Transfers(a) |->
     IF ~t.fake /\ stored[a][t] = "absent" THEN "ACTIVE" ELSE stored[a][t]]

StoreTransfers(a) ==
  /\ sync.pc = "idle"
  /\ stored' = [stored EXCEPT ![a] = InsertTransfers(a)]
  /\ sync' = Producer("summarize", a, {})
  /\ UNCHANGED <<rows, fixer, call, mended, reorgs>>

(* The active transfers are read and summarized; a transaction without the  *)
(* shape of an action is skipped with a warning.                            *)
Summarize(a) ==
  /\ sync.pc = "summarize" /\ sync.action = a
  /\ LET ts == Summarized(kind[a], Active(a))
     IN  sync' = IF ts = {} THEN IdleSync ELSE Producer("store", a, ts)
  /\ UNCHANGED <<stored, rows, fixer, call, mended, reorgs>>

(* The action is inserted; a row of the same identity stays as it is.       *)
StoreAction(a) ==
  /\ sync.pc = "store" /\ sync.action = a
  /\ rows' = [rows EXCEPT ![a] = IF @ = NoRow THEN NewRow(sync.seen) ELSE @]
  /\ sync' = [sync EXCEPT !.pc = "record"]
  /\ UNCHANGED <<stored, fixer, call, mended, reorgs>>

StoreSwap(a)  == kind[a] = "SWAP" /\ StoreAction(a)
StoreLp(a)    == kind[a] = "LP" /\ StoreAction(a)
StoreStake(a) == kind[a] \in {"START", "END"} /\ StoreAction(a)

EvidenceStatus(legs) == IF legs = {} THEN "VERIFIED_EMPTY" ELSE "RECORDED"

(* One transaction adds the evidence and sets the status, without a look at *)
(* the statuses the rows have by now.                                       *)
Recorded(row, legs) ==
  [row EXCEPT !.legs = @ \cup legs, !.evidence = EvidenceStatus(legs)]

RecordLegs(a) ==
  /\ sync.pc = "record" /\ sync.action = a
  /\ rows' = [rows EXCEPT ![a] = Recorded(@, sync.seen)]
  /\ sync' = IdleSync
  /\ UNCHANGED <<stored, fixer, call, mended, reorgs>>

RecordSwapLegs(a)  == kind[a] = "SWAP" /\ RecordLegs(a)
RecordLpLegs(a)    == kind[a] = "LP" /\ RecordLegs(a)
RecordStakeLegs(a) == kind[a] \in {"START", "END"} /\ RecordLegs(a)

SyncDies ==
  /\ sync.pc # "idle"
  /\ sync' = IdleSync
  /\ UNCHANGED <<stored, rows, fixer, call, mended, reorgs>>

-----------------------------------------------------------------------------
(* A mismatch at a block: every row from there to the latest block ingested *)
(* is marked, all tables in one transaction.                                *)
ReorgWindow(from) == {a \in Actions : a >= from}

MarkReorged(from) ==
  /\ reorgs < MaxReorgs
  /\ reorgs' = reorgs + 1
  /\ stored' = [a \in Actions |-> [t \in Transfers(a) |->
       IF a \in ReorgWindow(from) /\ stored[a][t] # "absent"
         THEN "REORGED" ELSE stored[a][t]]]
  /\ rows' = [a \in Actions |->
       IF a \in ReorgWindow(from) /\ rows[a] # NoRow
         THEN [rows[a] EXCEPT !.status = "REORGED"] ELSE rows[a]]
  /\ UNCHANGED <<sync, fixer, call, mended>>

-----------------------------------------------------------------------------
(* The repair of fabricated transfers reads the active ones and marks those *)
(* still active when the update comes.                                      *)
FindFabricated ==
  /\ fixer.pc = "idle"
  /\ LET found == {a \in Actions : Active(a) \cap Fabricated # {}}
     IN  found # {} /\ fixer' = [pc |-> "update", found |-> found]
  /\ UNCHANGED <<stored, rows, sync, call, mended, reorgs>>

InvalidateFabricated ==
  /\ fixer.pc = "update"
  /\ stored' = [a \in Actions |-> [t \in Transfers(a) |->
       IF a \in fixer.found /\ t.fake /\ stored[a][t] = "ACTIVE"
         THEN "REORGED" ELSE stored[a][t]]]
  /\ fixer' = [pc |-> "idle", found |-> {}]
  /\ UNCHANGED <<rows, sync, call, mended, reorgs>>

-----------------------------------------------------------------------------
(* The repair of provenance, one family and one batch for each call.        *)
Unevaluated(a) == rows[a].status = "ACTIVE" /\ rows[a].evidence = "null"

Candidates(family) == {a \in Actions : Family(a) = family /\ Unevaluated(a)}

(* The first candidates beyond the cursor, as many as the call asks for.    *)
Batch(family, cursor, take) ==
  LET beyond == {a \in Candidates(family) : a > cursor}
  IN  {a \in beyond : Cardinality({b \in beyond : b < a}) < take}

(* Mutated: a batch is full only if it holds more than it may.              *)
CursorAfterOverfull(batch, take) ==
  IF Cardinality(batch) > take
    THEN CHOOSE a \in batch : \A b \in batch : b <= a ELSE 0

(* The last of a full batch; 0 for null: nothing is left.                   *)
CursorAfter(batch, take) ==
  IF Cardinality(batch) = take
    THEN CHOOSE a \in batch : \A b \in batch : b <= a ELSE 0

(* The producer's own summary of the transfers that are active now must be  *)
(* the one the action was stored with.                                      *)
Resummarized(a) == Summarized(kind[a], Active(a))

(* Mutated: any summary will do.                                            *)
ReconstructedAnyhow(a) == Resummarized(a) # {}

Reconstructed(a) == Resummarized(a) # {} /\ Resummarized(a) = rows[a].amounts

Repairable(a) == Unevaluated(a) /\ Reconstructed(a)

(* How many candidates a call may take.                                     *)
Takes == 1 .. MaxActions

(* The operator starts a scan, goes on from the cursor of the last report,  *)
(* or repeats a call that failed.  Without apply nothing is written.        *)
Resumable(family, cursor) ==
  /\ family = call.family
  /\ cursor = IF call.pc = "thrown" THEN call.from ELSE call.next

Invoke(family, cursor, take, apply) ==
  /\ call.pc \in {"idle", "returned", "thrown"}
  /\ cursor = 0 \/ Resumable(family, cursor)
  /\ LET batch == Batch(family, cursor, take)
     IN  call' = [NoCall EXCEPT !.pc = "judging", !.family = family,
                    !.apply = apply, !.from = cursor, !.todo = batch,
                    !.next = CursorAfter(batch, take)]
  /\ due' = CASE ~apply -> {}
              [] apply /\ cursor = 0 -> {a \in Candidates(family) : Repairable(a)}
              [] OTHER -> due
  /\ UNCHANGED <<kind, stored, rows, sync, fixer, mended, reorgs>>

Judge(a) ==
  /\ call.pc = "judging"
  /\ a \in call.todo /\ \A b \in call.todo : a <= b
  /\ call' = [call EXCEPT
       !.todo = @ \ {a},
       !.count = IF Reconstructed(a) THEN @ + 1 ELSE @,
       !.pending = IF Reconstructed(a)
         THEN @ \cup {[action |-> a, legs |-> Resummarized(a)]} ELSE @]
  /\ UNCHANGED <<stored, rows, sync, fixer, mended, reorgs>>

(* What is left of a call that reports, and of one that does not.           *)
Reported(count, turned) ==
  [NoCall EXCEPT !.pc = "returned", !.family = call.family, !.apply = call.apply,
                 !.next = call.next, !.count = count, !.turned = turned]
Thrown ==
  [NoCall EXCEPT !.pc = "thrown", !.family = call.family, !.from = call.from]

(* Nothing to write: the report is that of the scan.                        *)
ReturnScan ==
  /\ call.pc = "judging" /\ call.todo = {}
  /\ ~call.apply \/ call.pending = {}
  /\ call' = Reported(call.count, {})
  /\ UNCHANGED <<stored, rows, sync, fixer, mended, reorgs>>

Open ==
  /\ call.pc = "judging" /\ call.todo = {}
  /\ call.apply /\ call.pending # {}
  /\ call' = [call EXCEPT !.pc = "opening", !.attempt = 1]
  /\ UNCHANGED <<stored, rows, sync, fixer, mended, reorgs>>

(* The first reads of the Serializable transaction fix what it sees: which  *)
(* actions are still without evidence and which transfers still active.     *)
StillEligible(p) == Unevaluated(p.action) /\ p.legs \subseteq Active(p.action)

Revalidate ==
  /\ call.pc = "opening"
  /\ call' = [call EXCEPT !.pc = "writing",
                          !.survivors = {p \in call.pending : StillEligible(p)}]
  /\ UNCHANGED <<stored, rows, sync, fixer, mended, reorgs>>

(* Another transaction has changed a row this one updates.                  *)
Conflicting == \E p \in call.survivors : ~Unevaluated(p.action)

Invalidated == call.pending \ call.survivors

(* The transaction commits, and only now is the report corrected by what    *)
(* was found ineligible.  A transfer that is marked meanwhile is not        *)
(* noticed: the count before the commit reads the snapshot.                 *)
CommitRepair ==
  /\ call.pc = "writing" /\ ~Conflicting
  /\ rows' = [a \in Actions |->
       IF \E p \in call.survivors : p.action = a
         THEN Recorded(rows[a], UNION {p.legs : p \in {q \in call.survivors : q.action = a}})
         ELSE rows[a]]
  /\ mended' = mended \cup {p.action : p \in call.survivors}
  /\ call' = Reported(call.count - Cardinality(Invalidated),
                      {p.action : p \in call.survivors})
  /\ UNCHANGED <<stored, sync, fixer, reorgs>>

(* Mutated: the attempt that is rolled back has corrected the report.       *)
AbortReporting ==
  /\ call.pc = "writing"
  /\ call' = IF call.attempt = MaxCommitAttempts THEN Thrown
             ELSE [call EXCEPT !.pc = "opening", !.attempt = @ + 1,
                               !.survivors = {},
                               !.count = @ - Cardinality(Invalidated)]
  /\ UNCHANGED <<stored, rows, sync, fixer, mended, reorgs>>

(* A write conflict, or another reason of the database, rolls the attempt   *)
(* back; it is tried again as often as it may.                              *)
Abort ==
  /\ call.pc = "writing"
  /\ call' = IF call.attempt = MaxCommitAttempts THEN Thrown
             ELSE [call EXCEPT !.pc = "opening", !.attempt = @ + 1, !.survivors = {}]
  /\ UNCHANGED <<stored, rows, sync, fixer, mended, reorgs>>

(* Any other error ends the call without a report, at any point.            *)
RepairFails ==
  /\ call.pc \in {"judging", "opening", "writing"}
  /\ call' = Thrown
  /\ UNCHANGED <<stored, rows, sync, fixer, mended, reorgs>>

-----------------------------------------------------------------------------
Produce(a) ==
  \/ StoreTransfers(a) \/ Summarize(a)
  \/ StoreSwap(a) \/ StoreLp(a) \/ StoreStake(a)
  \/ RecordSwapLegs(a) \/ RecordLpLegs(a) \/ RecordStakeLegs(a)

Maintain ==
  \/ SyncDies \/ FindFabricated \/ InvalidateFabricated
  \/ ReturnScan \/ Open \/ Revalidate \/ CommitRepair \/ Abort \/ RepairFails

EvidenceStep ==
  \/ \E a \in Actions : Produce(a) \/ MarkReorged(a) \/ Judge(a)
  \/ Maintain

EvidenceNext ==
  \/ /\ EvidenceStep
     /\ UNCHANGED kind
     /\ due' = {a \in due : Repairable(a)'}
  \/ \E f \in {"SWAP", "LP", "STAKE"}, c \in Actions \cup {0},
       n \in Takes, b \in BOOLEAN : Invoke(f, c, n, b)

EvidenceSpec == EvidenceInit /\ [][EvidenceNext]_evidenceVars

-----------------------------------------------------------------------------
(* The report of a call that wrote says how many actions its transaction    *)
(* turned to RECORDED, however many attempts were rolled back before and    *)
(* whatever syncs, reorgs and other repairs took from it meanwhile.         *)
ReportIsActual ==
  call.pc = "returned" /\ call.apply => call.count = Cardinality(call.turned)

(* What a repair recorded is what the producer would have: exactly the      *)
(* transfers the amounts of the action were summed from, and it stays so    *)
(* whatever is ingested, marked and recorded afterwards.                    *)
RecordedAsProduced ==
  \A a \in mended : rows[a].evidence = "RECORDED" /\ rows[a].legs = rows[a].amounts

(* A scan that was followed cursor by cursor to its end, calls that failed  *)
(* and were repeated included, has passed over no action that could be      *)
(* repaired all the while.                                                  *)
NothingPassedOver == call.pc = "returned" /\ call.apply /\ call.next = 0 => due = {}
=============================================================================
