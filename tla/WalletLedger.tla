---------------------------- MODULE WalletLedger ----------------------------
(***************************************************************************)
(* How syncs, rebuilds and repairs of one wallet bring the canonical       *)
(* ledger about: ingestion stores raw rows and their evidence step by step,*)
(* drafts are made from snapshots read outside any transaction, and one    *)
(* database transaction writes them.  Any operation may stop at any step.  *)
(*                                                                         *)
(* The lock of module OperationLock keeps the operations of a wallet apart *)
(* unless an operator releases a live one; the repair scripts take no lock.*)
(***************************************************************************)
EXTENDS CanonicalLedger, FiniteSets

CONSTANTS
  Procs,       \* processes that run operations
  Overlap,     \* whether operations were let run at the same time
  Unscanned,   \* whether a rebuild may name a range no sync has scanned
  Histories    \* the transactions whose rows earlier versions may have written

ASSUME HistoriesAssumption ==
  \A H \in Histories : H \subseteq Txs /\ \A t \in H : Shape[t].logs # {}
ASSUME FlagsAssumption == {Overlap, Unscanned} \subseteq BOOLEAN

VARIABLES
  blocks,        \* the RawBlock rows
  transactions,  \* the RawTransaction rows that involve the wallet
  transfers,     \* the transactions with ACTIVE RawTokenTransfer rows
  actions,       \* those with a RawDexSwap, RawLpAction or RawStakeAction row
  evidence,      \* those whose action has its transfer evidence RECORDED
  ledger,        \* the LedgerActionGroup and LedgerEntry rows
  covered,       \* what syncs that passed over nothing moved each cursor over
  op,            \* what each process is doing
  misread,       \* whether a query for consumed transfers ever failed
  premature      \* the transactions drafted before their transfers were stored

raw  == <<blocks, transactions, transfers, actions, evidence>>
vars == <<raw, ledger, covered, op, misread, premature>>

Windows   == {W \in {{t \in Txs : a <= t /\ t <= b} : a, b \in Txs} : W # {}}
Snapshots == [transactions : SUBSET Txs, transfers : SUBSET Txs, protocol : SUBSET Txs]
NoRows    == [transactions |-> {}, transfers |-> {}, protocol |-> {}]

SyncSteps    == {"scan", "read", "consumed", "actions", "evidence",
                 "persist", "cursor"}
RebuildSteps == {"readAll", "consumedAll", "replace"}
Steps        == {"idle"} \cup SyncSteps \cup RebuildSteps

Ops == [pc : Steps, families : SUBSET Families, window : SUBSET Txs, todo : SUBSET Txs,
        rows : Snapshots, drafts : SUBSET Drafts, scope : SUBSET Txs, warned : BOOLEAN]
Idle == [pc |-> "idle", families |-> {}, window |-> {}, todo |-> {},
         rows |-> NoRows, drafts |-> {}, scope |-> {}, warned |-> FALSE]

TypeOK ==
  /\ blocks \in SUBSET Txs
  /\ transactions \in SUBSET Txs
  /\ transfers \in SUBSET Txs
  /\ actions \in SUBSET Txs
  /\ evidence \in SUBSET Txs
  /\ ledger \in Ledgers
  /\ covered \in [Families -> SUBSET Txs]
  /\ op \in [Procs -> Ops]
  /\ misread \in BOOLEAN
  /\ premature \in SUBSET Txs

First(S)   == CHOOSE t \in S : \A u \in S : t <= u
Actual(t)  == Shape[t].family \in ActionFamilies
Touches(t) == Shape[t].pays \/ Shape[t].value

(* Earlier versions stored transfers unchecked, actions without evidence,   *)
(* and fees under an identity of their own.                                 *)
LegacyDrafts(H) ==
  (UNION {{Draft(t, l, l) : l \in Shape[t].logs} : t \in H})
  \cup {Draft(t, "legacyFee", "tx") : t \in {u \in H : Shape[u].pays}}

Init ==
  /\ \E H \in Histories :
       /\ blocks = H
       /\ transactions = {t \in H : Touches(t)}
       /\ transfers = H
       /\ actions = {t \in H : Actual(t)}
       /\ ledger = WithEntries([groups |-> {}, owner |-> [e \in Entries |-> NoGroup]],
                              LegacyDrafts(H))
  /\ evidence = {}
  /\ covered = [f \in Families |-> {}]
  /\ op = [p \in Procs |-> Idle]
  /\ misread = FALSE
  /\ premature = {}

-----------------------------------------------------------------------------
Admitted(p) == op[p].pc = "idle" /\ (Overlap \/ \A q \in Procs : op[q].pc = "idle")

Goto(p, l) == op' = [op EXCEPT ![p].pc = l]

(* A sync takes a family and a window through ingestion.                    *)
StartSync(p, f, W) ==
  /\ Admitted(p)
  /\ op' = [op EXCEPT ![p] = [Idle EXCEPT !.pc = "scan", !.families = {f},
                                          !.window = W, !.todo = W]]
  /\ UNCHANGED <<raw, ledger, covered, misread, premature>>

(* Mutated: the scan starts one block late and runs one block too far.       *)
ScanBlockLate(p) ==
  /\ op[p].pc = "scan"
  /\ op[p].todo # {}
  /\ LET b == First(op[p].todo)
     IN  /\ blocks' = blocks \cup {b + 1}
         /\ transactions' = transactions \cup {t \in {b + 1} \cap Txs : Touches(t)}
         /\ op' = [op EXCEPT ![p].todo = @ \ {b}]
  /\ UNCHANGED <<transfers, actions, evidence, ledger, covered, misread, premature>>

(* Block by block, the scan stores the block and the wallet's transaction.  *)
ScanBlock(p) ==
  /\ op[p].pc = "scan"
  /\ op[p].todo # {}
  /\ LET b == First(op[p].todo)
     IN  /\ blocks' = blocks \cup {b}
         /\ transactions' = transactions \cup {t \in {b} : Touches(t)}
         /\ op' = [op EXCEPT ![p].todo = @ \ {b}]
  /\ UNCHANGED <<transfers, actions, evidence, ledger, covered, misread, premature>>

(* Only logs that decode as Transfer events are stored, once all blocks are.*)
TransferLogs(W) == {t \in W : Shape[t].genuine /\ Shape[t].logs # {}}

(* The token of a stored transfer is known; any other is read from the      *)
(* chain, and that may fail.                                                *)
MayBeUnreadable(W) == TransferLogs(W) \ transfers

(* A log whose token cannot be read is passed over with a warning.          *)
StoreTransfers(p) ==
  /\ op[p].pc = "scan"
  /\ op[p].todo = {}
  /\ \E lost \in SUBSET MayBeUnreadable(op[p].window) :
       /\ transfers' = transfers \cup (TransferLogs(op[p].window) \ lost)
       /\ op' = [op EXCEPT ![p].pc = "read", ![p].warned = lost # {}]
  /\ UNCHANGED <<blocks, transactions, actions, evidence, ledger, covered, misread,
                 premature>>

RowsIn(W) == [transactions |-> transactions \cap W,
              transfers    |-> transfers \cap W,
              protocol     |-> actions \cap W]

(* The transactions of a snapshot that lack the transfers they made.        *)
WithoutTransfers(snap) ==
  {t \in TransferLogs(Txs) : t \in snap.transactions /\ t \notin snap.transfers}

(* The stored rows of the window, historical ones included, are what goes   *)
(* on to normalization, or what is searched for protocol actions.           *)
ReadArtifacts(p) ==
  /\ op[p].pc = "read"
  /\ LET W == op[p].window
     IN  \/ /\ op[p].families = {"TRANSFERS"}
            /\ op' = [op EXCEPT ![p].rows = RowsIn(W), ![p].pc = "consumed"]
            /\ premature' = premature \cup WithoutTransfers(RowsIn(W))
         \/ /\ op[p].families # {"TRANSFERS"}
            /\ op' = [op EXCEPT
                 ![p].todo = {t \in transfers \cap W : Shape[t].family \in op[p].families},
                 ![p].pc = "actions"]
            /\ UNCHANGED premature
  /\ UNCHANGED <<raw, ledger, covered, misread>>

StoreAction(p) ==
  /\ op[p].pc = "actions"
  /\ op[p].todo # {}
  /\ LET t == First(op[p].todo)
     IN  /\ transactions' = transactions \cup {t}
         /\ actions' = actions \cup {t}
  /\ Goto(p, "evidence")
  /\ UNCHANGED <<blocks, transfers, evidence, ledger, covered, misread, premature>>

(* Mutated: the evidence of an action is left to a later repair.             *)
SkipEvidence(p) ==
  /\ op[p].pc = "evidence"
  /\ op' = [op EXCEPT ![p].todo = @ \ {First(@)}, ![p].pc = "actions"]
  /\ UNCHANGED <<raw, ledger, covered, misread, premature>>

RecordEvidence(p) ==
  /\ op[p].pc = "evidence"
  /\ evidence' = evidence \cup {First(op[p].todo)}
  /\ op' = [op EXCEPT ![p].todo = @ \ {First(@)}, ![p].pc = "actions"]
  /\ UNCHANGED <<blocks, transactions, transfers, actions, ledger, covered, misread, premature>>

(* Each family has its own table of actions and its own normalizer.         *)
ActionRows(F, W) == {t \in actions \cap W : Shape[t].family \in F}
ActionsIn(p) == ActionRows(op[p].families, op[p].window)
DraftsOfActions(p) == NormalizeActions(ActionsIn(p))

ReadActions(p) ==
  /\ op[p].pc = "actions"
  /\ op[p].todo = {}
  /\ op' = [op EXCEPT ![p].drafts = DraftsOfActions(p), ![p].pc = "persist"]
  /\ UNCHANGED <<raw, ledger, covered, misread, premature>>

AfterConsumed == [consumed |-> "persist", consumedAll |-> "replace"]

(* The transfers proven consumed are read after the rows: an ACTIVE         *)
(* transfer with RECORDED evidence of an ACTIVE action.  A failed query     *)
(* counts as none, but within a database transaction it fails that as well. *)
Consumed == evidence \cap actions \cap transfers

ReadConsumed(p) ==
  /\ op[p].pc \in DOMAIN AfterConsumed
  /\ \E consumed \in {Consumed, {}} :
       /\ op' = [op EXCEPT
            ![p].drafts = @ \cup NormalizeTransfers(op[p].rows, consumed),
            ![p].rows = NoRows,
            ![p].pc = AfterConsumed[@]]
       /\ misread' = (misread \/ consumed # Consumed)
  /\ UNCHANGED <<raw, ledger, covered, premature>>

PersistSync(p) ==
  /\ op[p].pc = "persist"
  /\ ledger' = PersistNormalizedLedger(ledger, op[p].drafts, Consumed)
  /\ op' = [op EXCEPT ![p].pc = "cursor", ![p].drafts = {}]
  /\ UNCHANGED <<raw, covered, misread, premature>>

(* The cursor is moved with or without warnings; the runbooks count on what *)
(* a run without any moved it over.                                         *)
UpdateCursor(p) ==
  /\ op[p].pc = "cursor"
  /\ covered' = [f \in Families |-> covered[f] \cup
       IF f \in op[p].families /\ ~op[p].warned THEN op[p].window ELSE {}]
  /\ op' = [op EXCEPT ![p] = Idle]
  /\ UNCHANGED <<raw, ledger, misread, premature>>

-----------------------------------------------------------------------------
StartRebuild(p, F, W) ==
  /\ Admitted(p)
  /\ Unscanned \/ W \cap blocks # {}
  /\ op' = [op EXCEPT ![p] = [Idle EXCEPT !.pc = "readAll", !.families = F, !.window = W]]
  /\ UNCHANGED <<raw, ledger, covered, misread, premature>>

(* The transactions of the snapshots a rebuild of the families reads.       *)
SnapshotTxs(p) ==
  LET rows == RowsIn(op[p].window)
  IN  ActionsIn(p) \cup
      IF "TRANSFERS" \in op[p].families
      THEN rows.transfers \cup (rows.transactions \ LeftToProtocol(rows)) ELSE {}

(* Mutated: nothing but the snapshots limits the deletion.                  *)
DeleteScopeBySnapshots(p) == IF SnapshotTxs(p) # {} THEN SnapshotTxs(p) ELSE Txs

(* The time between the first and the last stored block of the window; all  *)
(* time if there is none.                                                   *)
TimeRange(p) ==
  LET scanned == blocks \cap op[p].window
  IN  IF scanned = {} THEN Txs
      ELSE {t \in Txs : \E a, b \in scanned : a <= t /\ t <= b}

(* The ledger is deleted for the transactions of the snapshots; without any,*)
(* for the time range of the window.                                        *)
DeleteScope(p) == IF SnapshotTxs(p) # {} THEN SnapshotTxs(p) ELSE TimeRange(p)

(* All families are read outside the transaction, the transfers' evidence   *)
(* after their rows.                                                        *)
ReadAll(p) ==
  /\ op[p].pc = "readAll"
  /\ LET ofTransfers == "TRANSFERS" \in op[p].families
         rows == IF ofTransfers THEN RowsIn(op[p].window) ELSE NoRows
     IN  /\ op' = [op EXCEPT ![p].scope = DeleteScope(p),
                            ![p].drafts = DraftsOfActions(p),
                            ![p].rows = rows,
                            ![p].pc = IF ofTransfers THEN "consumedAll" ELSE "replace"]
         /\ premature' = premature \cup WithoutTransfers(rows)
  /\ UNCHANGED <<raw, ledger, covered, misread>>

(* One transaction deletes the scope and persists the drafts.  A rebuild of *)
(* TRANSFERS has nothing premature left in its scope, except what it drafts.*)
Replace(p) ==
  /\ op[p].pc = "replace"
  /\ ledger' = PersistNormalizedLedger(
                 DeleteScoped(ledger, op[p].families, op[p].scope), op[p].drafts, Consumed)
  /\ premature' = premature \
       IF "TRANSFERS" \in op[p].families
       THEN {t \in op[p].scope : \A d \in op[p].drafts : d.group # <<t, "tx">>} ELSE {}
  /\ op' = [op EXCEPT ![p] = Idle]
  /\ UNCHANGED <<raw, covered, misread>>

(* An operation may throw or its process may die at any step.               *)
Stop(p) ==
  /\ op[p].pc # "idle"
  /\ op' = [op EXCEPT ![p] = Idle]
  /\ UNCHANGED <<raw, ledger, covered, misread, premature>>

-----------------------------------------------------------------------------
(* repair-fabricated-token-transfers marks fabricated transfers REORGED.    *)
RepairFabricated(t) ==
  /\ t \in transfers
  /\ ~Shape[t].genuine
  /\ transfers' = transfers \ {t}
  /\ UNCHANGED <<blocks, transactions, actions, evidence, ledger, covered, op, misread, premature>>

(* repair-canonical-provenance records the evidence of a historical action, *)
(* and leaves the ledger alone.                                             *)
RepairProvenance(t) ==
  /\ t \in (actions \cap transfers) \ evidence
  /\ evidence' = evidence \cup {t}
  /\ UNCHANGED <<blocks, transactions, transfers, actions, ledger, covered, op, misread, premature>>

Sync(p) ==
  \/ \E f \in Families, W \in Windows : StartSync(p, f, W)
  \/ ScanBlock(p)
  \/ StoreTransfers(p)
  \/ ReadArtifacts(p)
  \/ StoreAction(p)
  \/ RecordEvidence(p)
  \/ ReadActions(p)
  \/ PersistSync(p)
  \/ UpdateCursor(p)

Rebuild(p) ==
  \/ \E F \in (SUBSET Families) \ {{}}, W \in Windows : StartRebuild(p, F, W)
  \/ ReadAll(p)
  \/ Replace(p)

Repair(t) == RepairFabricated(t) \/ RepairProvenance(t)

Next ==
  \/ \E p \in Procs : Sync(p) \/ Rebuild(p) \/ ReadConsumed(p) \/ Stop(p)
  \/ \E t \in Txs : Repair(t)

Spec == Init /\ [][Next]_vars

-----------------------------------------------------------------------------
(* What the ledger should hold for a transaction, whatever the order of the *)
(* operations that brought it there.                                        *)
Canonical(t) ==
  IF Actual(t)
  THEN {Draft(t, "action", "action"), Draft(t, "fee", "action")}
  ELSE {Draft(t, l, l) : l \in Shape[t].logs}
       \cup {Draft(t, "native", "tx") : u \in {v \in {t} : Shape[v].value /\ Shape[v].logs = {}}}
       \cup {Draft(t, "fee", "tx") : u \in {v \in {t} : Shape[v].pays /\ ~Shape[v].inline}}

Held(t) == {[entry |-> IF IsFee(e) THEN <<t, "fee">> ELSE e, group |-> ledger.owner[e]] :
              e \in {x \in Present(ledger) : Tx(x) = t}}

(* Once runs without warnings moved the cursors of TRANSFERS and of its own *)
(* family over a transaction, the ledger holds each of its transfers exactly*)
(* once and its fee with the right owner, in whichever order, after whatever*)
(* failures, retries, rebuilds and repairs that came about: the claim of    *)
(* ledger-store.ts that ownership and shadows do not depend on which family *)
(* persists first.  It rests on the query for consumed transfers, and on a  *)
(* transaction that was not drafted before its transfers were stored, or was*)
(* rebuilt since; for the others see below.                                 *)
CanonicalWhenCovered ==
  ~misread => \A t \in covered["TRANSFERS"] \ premature :
    Shape[t].genuine /\ t \in covered[Shape[t].family] => Held(t) = Canonical(t)

(* Even where the query for consumed transfers fails, "closed to no         *)
(* suppression" as tests/services/ingestion/raw-store.test.ts:211 has it,   *)
(* or a transaction was drafted too early, nothing of what is covered is    *)
(* missing from the ledger.  All it may hold besides are the transfers its  *)
(* action consumed, and what the transaction itself moved and paid from when*)
(* its transfers were not stored.                                           *)
NothingMissing ==
  \A t \in covered["TRANSFERS"] : Shape[t].genuine /\ t \in covered[Shape[t].family] =>
    /\ Canonical(t) \subseteq Held(t)
    /\ \A d \in Held(t) \ Canonical(t) :
         \/ Actual(t) /\ \E l \in Shape[t].logs : d = Draft(t, l, l)
         \/ t \in premature /\ d.group = <<t, "tx">>

(* A transaction pays gas once: no two FEE entries for it, of one identity  *)
(* or of the two, even when operations overlap.                             *)
FeePaidOnce ==
  \A d, e \in Present(ledger) :
    IsFee(d) /\ IsFee(e) /\ Tx(d) = Tx(e) => d = e

(* The fee of a transaction is owned by its protocol action as soon as the  *)
(* ledger knows one.                                                        *)
FeeFollowsAction ==
  \A t \in Txs : <<t, "action">> \in ledger.groups =>
    \E e \in Members(ledger, <<t, "action">>) : IsFee(e)

(* No action group is left without entries, and no entry without its group, *)
(* by the moves of fees, the removal of shadows and scoped deletions.       *)
GroupsInUse == ledger.groups = {ledger.owner[e] : e \in Present(ledger)}

(* A rebuild touches the ledger of no transaction outside its block range.  *)
RebuildStaysInWindow ==
  [][\A p \in Procs : op[p].pc = "replace" /\ ledger' # ledger =>
       \A e \in Entries : ledger'.owner[e] # ledger.owner[e] => Tx(e) \in op[p].window]_vars

(* A rebuild of TRANSFERS that read its rows after they were repaired       *)
(* purges the entries fabricated transfers left in its range, as            *)
(* docs/transfer-history-backfill-operator-plan.md:226-231 says.            *)
RebuildPurgesRepaired ==
  [][\A p \in Procs :
       op[p].pc = "replace" /\ ledger' # ledger /\ "TRANSFERS" \in op[p].families =>
         \A t \in op[p].window :
           ~Shape[t].genuine /\ t \notin transfers
             /\ (\A d \in op[p].drafts : Tx(d.entry) # t) =>
               \A l \in Shape[t].logs : ledger'.owner[<<t, l>>] = NoGroup]_vars
=============================================================================
