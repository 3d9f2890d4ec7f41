# A TLA+ model of CoinPulse's operations and data pipeline

CoinPulse is a portfolio tracker for PulseChain wallets.  A wallet's on-chain history is
*synced* from an RPC provider into PostgreSQL, in stages: raw blocks, logs and transactions;
normalized action groups with their ledger entries; and a cursor per source family that says
how far the ledger reaches.  A *rebuild* recomputes ledger entries from the raw tables and
then *materializes* positions from the ledger.  Everything the user sees (portfolio,
dashboard, transactions, profit and loss) is read from what these operations left behind.
Operators extend and repair a wallet's history with scripts that work beside the server, from
the same rows.  The questions worth a model are about all of these together: what two
operations may do to each other, what a crash or a failed call leaves behind, and whether what
is recorded as covered, completed, owned or clean really is.

Paths are relative to the repository's root.

## 1. Inventory

| Part | State it keeps | Operations | Hard behaviours | Model |
|---|---|---|---|---|
| Operation lock: `src/services/operations/operation-lock.ts` | `SyncRun` rows (trigger, status, wallet, chain) | `reserveOperationRun`, `checkOperationConflict` | no lock object: mutual exclusion by Serializable transactions; P2034 retries; rows left active by crashes | `OperationLock` |
| Manual sync and rebuild routes: `app/api/sync/manual/route.ts`, `app/api/rebuild/route.ts` | none | reserve, answer 202, run the operation in `after()` | process death between the answer and the run; errors before the try block | `WalletSync`, `OperationLock` |
| Sync orchestration and state: `src/services/sync/sync-orchestrator.ts`, `sync-state-store.ts` | `SyncRun`, `SyncCursor` | `runWalletSync`, `updateRun`, `upsertCursor`, `mergeCursorWindow`, the cut of warnings | cursors read early and used late; failure at every stage; out-of-order windows | `WalletSync`, `SyncWarnings` |
| Log fetching: `src/services/ingestion/log-fetcher.ts`, `block-window.ts` | queue of windows | `buildAdaptiveWindows`, `fetchLogsWithAdaptiveRetry` | refusals at any moment; split and retry | `LogFetcher` |
| Raw ingestion: `src/services/sync/sync-common.ts`, `*-sync.ts`, `src/services/ingestion/raw-store.ts` | raw tables, evidence rows | `ingestWalletTransferArtifacts`, `persistRaw*`, evidence reads, `markRawDataRangeReorged` | steps apart in time, tokens that cannot be read, a query whose failure counts as an answer | `WalletLedger`, `RawEvidence` |
| Normalization: `src/services/normalization/*` | none | one normalizer per family | which transactions each leaves to the others; what entries an action becomes | `CanonicalLedger`, `ActionLegs` |
| Ledger store: `src/services/sync/ledger-store.ts` | action groups, ledger entries | `persistNormalizedLedger`, fee ownership, shadow reconciliation, `deleteScopedLedgerEntries` | families persisted in any order must agree on who owns a fee | `CanonicalLedger` |
| Rebuild: `src/services/rebuild/*` | the ledger | `rebuildCanonicalLedger`, `runRebuildOperation` | snapshot outside the transaction, scope of the deletion | `WalletLedger`, `Portfolio` |
| Materialization and portfolio: `src/services/portfolio/*` | positions, materialization row | `materializeCurrentPortfolioPositions` | reads outside the transaction, a row written after it | `Portfolio` |
| Onboarding status: `src/services/operations/wallet-onboarding-status.ts` | none | status of a wallet | two rows read by two statements | `Portfolio` |
| Pricing, profit and loss: `src/services/pricing/*`, `src/services/pnl/*` | price observations | resolver, average cost | order of groups, what is skipped and whether that is said | `Portfolio` |
| Repairs: `src/services/sync/canonical-provenance-repair.ts`, `src/services/ingestion/fabricated-transfer-repair.ts` | raw tables, evidence | paging, judging, planning, Serializable write with retries | plan and write apart in time, reports after rollbacks | `RawEvidence`, `WalletLedger` |
| Operator scripts: `scripts/wallet-forward-*.ts`, `scripts/transfer-backfill-runner.ts`, `scripts/evidence-directed-window-runner.ts` | evidence files; otherwise the rows of the server | windows, gates, verification, checkpoints, child processes | requests whose answer is lost or late, runs with warnings, a restart that knows the cursor alone, a child that outlives its parent | `ForwardWindows` and the modules that extend it |
| HEX mining evidence, RPC policies, read side, UI, other scripts | see section 5 | | | not modelled |

How they interact: a route reserves a run (one `SyncRun` row) and starts the operation after
the response; the operation announces each stage by updating its row; a sync calls ingestion
(which calls the log fetcher twice, for the incoming and the outgoing transfers), a
normalizer, the ledger store and the cursor store, family after family; a rebuild calls the
rebuild service, which deletes and rewrites ledger entries in one transaction, and then
materialization.  The scripts post to the routes and then watch the `SyncRun` and `SyncCursor`
rows.  All share the database only, and nothing but the active rows of `SyncRun` keeps the
operations apart; the repairs do not even look at those.

## 2. Modules

| Module | Models | Extends / instantiates |
|---|---|---|
| `ExclusiveOperations` | what the operation lock promises: an operation is granted when none it excludes is active, and ends once | |
| `OperationLock` | `reserveOperationRun`, `checkOperationConflict` and the life of a `SyncRun` row | `INSTANCE ExclusiveOperations` as `Ideal` |
| `SyncCoverage` | what a cursor promises: one window per family that only grows, by touching segments, inside what is persisted | |
| `WalletSync` | the manual sync route, `runWalletSync`, `upsertCursor` and `mergeCursorWindow` | `INSTANCE SyncCoverage` as `Coverage` |
| `LogFetcher` | `buildAdaptiveWindows`, `splitBlockWindow`, `fetchLogsWithAdaptiveRetry` | |
| `CanonicalLedger` | pure operators: what the normalizers draft, `persistNormalizedLedger`, `deleteScopedLedgerEntries` | |
| `WalletLedger` | syncs, rebuilds and repairs of one wallet as the steps that read raw rows and write the ledger | extends `CanonicalLedger` |
| `RawEvidence` | raw transfers, actions and evidence under producers, reorgs and both repairs | |
| `ActionLegs` | pure operators: the legs each kind of action is drafted as | |
| `Portfolio` | balances, prices, average cost; the rebuild from the ledger to the end of its run; the onboarding status | extends `ActionLegs` |
| `SyncWarnings` | the warnings a `SyncRun` row keeps, and how scripts judge a row | |
| `ForwardWindows` | `wallet-forward-sync-primitives.ts`, the rows, the server and what goes on around a script | extends `SyncWarnings` |
| `ForwardCampaign` | `wallet-forward-campaign-runner.ts` | extends `ForwardWindows` |
| `ForwardSupervisor` | `wallet-forward-supervisor.ts` and its children | extends `ForwardCampaign` |
| `WindowRunner` | `wallet-forward-sync-runner.ts` | extends `ForwardWindows` |
| `HistoryBackfill` | `transfer-backfill-runner.ts` | extends `ForwardWindows` |
| `EvidenceWindow` | `evidence-directed-window-runner.ts` | extends `ForwardWindows` |
| `OperatorTools` | the composition: one of the scripts, the server, another client, drift | extends the four scripts |
| `*Proofs` | theorems about the module they are named after; `ForwardProofs` about `OperatorTools`, `WalletLedgerProofs` about `CanonicalLedger` too | that module and `TLAPS` |
| `ServicesProofs` | theorems about the three services side by side | extends `MCServices` and the three services' proofs |
| `MC*` | the instances TLC checks | the module they are named after; `MCServices` extends `LogFetcher`, `RawEvidence` and `Portfolio` |

A definition whose comment begins with *Mutated* is a plausible mistake in the definition that
follows it.  No specification uses one; the runs are repeated with it in place of the original,
to see that the property it is listed with does notice.

### How state and actions correspond to the code

**OperationLock.** `run[r]` is the status column of the `SyncRun` row a request creates, `pc[r]`
the place of its process, `seen[r]` the rows in the snapshot of its transaction, `attempt[r]` the
loop counter of `reserveOperationRun`.  The snapshot is taken by `findMany`, the only read
(`BeginTransaction`); the insert and the commit are `CommitTransaction`; P2034 is
`AbortTransaction`, and the check that follows it outside any transaction is `Recheck`.
A rebuild excludes every operation, a sync the syncs of its own wallet and chain, exactly as
`buildConflictWhere` has it; the relation is not symmetric and the model keeps that.
Preconditions of a Serializable transaction are stated by `Overlap` and `Unserializable`:
PostgreSQL is external, and is modelled by what it guarantees, two transactions neither of which
saw the other's row cannot both commit if each one's read would have matched the other's row.
`RelationLocks` distinguishes the two precisions a predicate lock may have; the conflict query
has no index, so it takes the whole table, and that is what the run checks.  Row-level locks are
covered by the proofs.

**WalletSync.** The reservation is one atomic step, which is what `OperationLock` shows it to
implement.  `plan` is what the cursors said before the families are worked on, `base` what the
cursor transaction read, `raw` and `ledger` the blocks of each family whose evidence and entries
are stored, `cursor` the `SyncCursor` row.  The stages of `runWalletSync` are `pc` values and
`EnterStage` is the `updateRun` before each.  `EnterTry` marks the try block: what fails before it
(`RejectPlan`) leaves the run PENDING, what fails inside it (`Throw`, `IngestFails`) goes through
`RecordFailure`, which may fail itself.  `Crash` is a process that dies.  `OperatorRelease` is the
operator who marks a stale run FAILED while its process may be alive: the only way two syncs of
one wallet come to overlap, and the code must cope with it, since `updateRun` writes RUNNING
whatever the row has become.  A call of `runWalletSync` that did not go through the route would
not be reserved at all; no code in the repository makes one.

**LogFetcher.** `queue` holds windows with their attempt, `next` is the block
`buildAdaptiveWindows` would cut next, `attempted` the windows passed to `eth_getLogs`.  The
provider is external: it answers with the logs of the window, of which each block has one for
which its number stands, or it refuses.  The pause between attempts is left out.

**CanonicalLedger and WalletLedger.** An entry or group is the pair of its transaction and its
role; the SHA-256 identities of `buildActionGroupKey` and `buildSourceLogKey` tell no more apart
than that.  A transaction is named by its block, one per block.  `Shape` says what it did to the
wallet: the family whose shape test accepts it (at most one does), whether the wallet paid for it,
whether it carries native value, whether `inferInlineProtocolTransferTxHashes` recognizes it
without a stored action, and whether its transfer rows decode real `Transfer` events.  One
protocol action stands for those of the three families, which have the same three writes: the
action row, its evidence, the ledger batch.  `StoreAction` and `RecordEvidence` are two steps, as
in the code, with a crash possible between.  `persistNormalizedLedger` and the body of a rebuild's
`$transaction` are one step each.  `Histories` are the transactions whose rows earlier versions
wrote: transfers unchecked, actions without evidence, fees under an identity of their own.
`StoreTransfers` may pass over logs whose token cannot be read, which leaves a warning; it does so
for all logs of a transaction or none.  `covered` is what runs *without* warnings moved each
cursor over, since that is what the runbooks count on (how cursors merge is the matter of
`WalletSync`).  `premature` is a history variable: transactions that were drafted before their
transfers were stored, by a rebuild or a retry after an interrupted sync; `NormalizeTransfers`
then drafts their native value, and a later sync does not take it back (a rebuild of TRANSFERS
does, and removes them from the set).  `misread` records that the query for consumed transfers
failed once, which `readCanonicallyConsumedRawTokenTransferIds` catches and answers with the empty
set.

**RawEvidence.** One action stands for its transaction; its number is the id by which repairs page
and the block by which reorgs cut.  An amount is the set of the transfers it was summed from, so
that "the same summary" is equality of sets.  `sync` is a producer between its reads and writes,
one at a time; `MarkReorged` is `markRawDataRangeReorged`; `fixer` is the repair of fabricated
transfers between its query and its update; `call` is one call of the provenance repair: its page
(`todo`), what it judged repairable (`pending`), what its Serializable transaction found still
eligible (`survivors`), its attempt and its report.  A snapshot is what `Revalidate` reads; the
commit fails if a row it updates changed since (`Conflicting`), and not if a transfer it only read
did.  `due` is a history variable: the actions that were repairable all the while a scan went on.
Each transaction holds at most one fabricated transfer that is left, LP actions are additions, and
the row identity of an LP action uses the log of its LP leg.

**Portfolio.** An action is what the wallet moved and paid; `LegsOf` (`ActionLegs`) turns it into
ledger entries as the normalizers do, `Balance` adds them up as materialization does, and
`AverageCostPnl` walks the groups as `average-cost.ts` does, keeping the quantity in the cost
basis and the codes of its warnings.  `Prices` are sets of observations as far as the resolver
looks at them.  The stages of `runRebuildOperation` after the ledger are `LedgerRebuilt`,
`ReadEntries`, `ReplacePositions`, `PersistCompleted` or `PersistFailed`, `FinishRebuild`; `Die`
and `Release` may come anywhere.  `look` is a derivation of the onboarding status that reads its
two rows one after the other.  No run completes in the instant it began.

**The operator scripts.** `ForwardWindows` holds what they share: the `SyncRun` rows with the
warnings they report, the TRANSFERS cursor, the blocks with fabricated transfers, the requests
whose sender gave up (`adrift`), the checkout and backend (`world`), and the runs whose completion
is in an evidence file (`recorded`).  The server ends a run cleanly (`CompleteRun`) or otherwise
(`SpoilRun`: warnings, fabricated transfers, FAILED before or after the cursor moved).  Each
script is a sequence of steps from its options through gates, POST, poll, verification, evidence
and checkpoint; each `await` on something that may throw or die is a step at which it may stop.
`ForwardSupervisor` invokes campaigns as children and judges them by what they print and by the
cursor.  A delayed POST may reach the server after its sender stopped (`DeliverLate`), and so a
label may occur twice.

## 3. Runs

| Run | Instance and bounds | Why that is enough |
|---|---|---|
| `lock` | 3 requests, 2 scopes, relation-level predicate locks, fairness | a reservation needs two others to lose twice; two scopes tell the wallet-wide from the global rules; up to a renaming of requests and scopes (`Representative`), under which nothing is told apart |
| `wallet_sync_overlap` | 2 syncs, 1 family listed once or twice, blocks 0..2, 2 cursor attempts | three blocks are the least on which windows overlap, touch, contain one another and lie apart |
| `wallet_sync_families` | 2 syncs, one supported family both take and then a second one, supported or not, blocks 0..1, fairness | both meet on the first cursor while the second family is still to come, and a run may be failed by its second family before the first starts |
| `wallet_sync_rejected` | 2 syncs, 1 family | finding 1 |
| `ledger_serial` | 3 transactions (a historical action, a fabricated transfer, a native payment), 1 process, all windows and family sets | every pair of transactions inside and outside a window, every order of syncs, rebuilds, repairs, failures |
| `ledger_overlap` | 2 transactions, 2 overlapping processes | any two operations interleaved at every step |
| `ledger_purge`, `ledger_scope` | 2 transactions, 1 process | findings 2 and 3 |
| `forward_execute` | windows of 2 blocks, 3 windows to the target (2 and then 1 for a child) or 2 to the floor, 4 runs, 2 faults, 2 invocations of each script, 1 sync of another client | a child that is followed by another, a restart after a stop, a checkpoint inside and after a child; two faults let the effect of one be met by another |
| `forward_summary` | the same, without faults, with the summary as the runner prints it | finding 4 |
| `services` | `LogFetcher`: ranges in 0..7, sizes 1..8, floor 2, 2 attempts.  `RawEvidence`: a swap and a liquidity action, or the start and the end of a stake, at first with a fabricated transfer in at most the first transaction; pages of 1 or 2, 2 attempts, 1 reorg.  `Portfolio`: 5 ledgers of 13 groups, all subsets of 9 price observations, 3 instants | three halvings down to the floor; a page that is full and one that is not, a cut between the two actions; siblings, self-transfers, unpaid disposals, liquidity, and stakes ended in time, early, or before their start is known |
| `services_stakes` | the same, syncs and rebuilds from an empty ledger | finding 5 |

The three parts of `services` share no state, so that an instance is of one of them, chosen at
the start; the properties of the others hold of their initial states.  Bounds that cut something
off are `MaxRuns`, `MaxOthers`, `MaxFaults`, the numbers of invocations (scripts), `MaxReorgs` and
`MaxClock`; all others are those of the code or of the inputs.  The code's values are 2 attempts
for the lock, 3 for the cursor transaction, those of its caller for the fetcher; the proofs hold
for all.  Symmetry is used over syncs and processes where no liveness property is checked.
`CHECK_DEADLOCK FALSE` is given where requests, calls and invocations are finite and simply end;
the ledger never ends.

What they show, beyond the plain safety properties:

- `MutualExclusion` and `ImplementsIdeal`: the row table is a lock although nothing locks it;
  `CommitReadCommitted` shows that this rests on the isolation level alone.
- `NoSyncAdmittedDuringRebuild` needs `RelationLocks`: the conflict rule is not symmetric, so
  with row-level locks a sync may be serialized before the rebuild it did not see.
- `CursorSound`, `CompletedReachesEnd`, `CompletedIsPersisted` and `ImplementsCoverage` hold even
  when two syncs overlap because of a released run.
- `CanonicalWhenCovered`: whatever the order of families, retries, rebuilds and repairs, a
  transaction that both its families cover has each movement once, and its fee where it belongs.
  It needs the operations one at a time, a query that does not fail, and transactions that were
  not drafted too early.  `NothingMissing` is what is left without the last two.  `FeePaidOnce`,
  `FeeFollowsAction` and `GroupsInUse` need none of the three.
- `RecordedAsProduced`, `ReportIsActual`, `NothingPassedOver`: a provenance repair records what
  the producer would have, counts what it committed, and a scan followed to its end misses
  nothing that was there to be repaired all along, although the repaired ones drop out of the
  query it pages through.
- `NeverOlderThanClaimed`, `MaterializedIsCurrent`: the materialization row never runs ahead of
  the positions, and a wallet shown as materialized was, at some moment of the request.
- `AvailableAgrees`: profit and loss that is called available rests on the quantity the portfolio
  shows; whatever the walk skips it says.
- `RecordedIsClean`, `PredecessorsRecorded`, `CleanStopIsComplete`, `TargetReachedCleanly`,
  `CheckpointSpacing`, `BatchLeavesNothingBehind`, `BackfillInTurn`, `CompleteAfterFinalRebuild`,
  `EvidenceMovesNoCursor`: an operator may believe an evidence file and a clean stop, in spite of
  lost answers, late requests, other clients and dead processes.

### Fairness

`OperationLock`: weak fairness of the four steps of a reservation.  They are consecutive awaits of
one request handler and wait for nobody; the operation after it gets none, so that it may hang.
`WalletSync`: weak fairness of the steps of an admitted sync, the same reason.  Reservation,
failures, crashes and the operator's release get none.  The other modules state no liveness: the
scripts stop at the first thing they did not expect, and what goes on waits for an operator.

### Findings

1. `wallet_sync_rejected`: `runWalletSync` may reject and leave its run PENDING or RUNNING; the
   comment at `app/api/sync/manual/route.ts:120` says it "already marks the SyncRun as FAILED".
   The wallet is then blocked until an operator acts.
2. `ledger_purge`: repairing a fabricated transfer and rebuilding TRANSFERS over its range leaves
   its entry whenever the range holds another transaction of the wallet, because the deletion is
   scoped to the transactions of the snapshots and the repaired one is in none.
   `docs/transfer-history-backfill-operator-plan.md:226-231` relies on the opposite.
3. `ledger_scope`: a rebuild over a range without raw blocks deletes the families' entries of
   all ranges.  The plan at line 95 says "for its range".  The passing runs rebuild ranges with at
   least one block that was scanned (`Unscanned = FALSE`), this one does not.
4. `forward_summary`: the campaign runner prints its summary over many lines, the supervisor
   parses the last line alone, so that it stops after its first child however clean that was.
   The passing run takes `OneLineSummary = TRUE`, the child the tests inject.
5. `services_stakes`: a stake that returns less than it locked has its loss in the balance twice,
   in the principal that did not come back and in the entry of the penalty.

Met while modelling, without a run of their own:

- A dry-run supervisor plans its second child from a cursor it imagines, and the child refuses to
  plan from one that is not in the database (campaign runner line 1636, supervisor line 959),
  although the runbook (line 122) has dry runs preview the whole way.
- A rebuild that was due when a backfill ended (stopped, failed, or no longer allowed) is asked for
  by no later invocation, which knows the cursor alone (the backfill runbook, lines 165 and 183,
  reads as if it were); and a FAILED window keeps its label, so that the same window cannot be
  submitted again by the script although the operator plan (lines 357-358) says to.
- The evidence runner accepts a wallet without a cursor, although the sync then creates one, and
  reports `execute_completed` even if a cursor moved.
- `canonical-provenance-repair.ts:70` and `docs/canonical-raw-transfer-provenance-repair.md:111`
  extend the guarantee of a Serializable transaction to concurrent ones "at any isolation level".
  PostgreSQL tracks reads among Serializable transactions only; syncs and the marking of reorgs
  are not.  The model has what is left: a write to the same row conflicts, a transfer that was only
  read may be marked meanwhile.  What the repair records is right all the same
  (`RecordedAsProduced`); that its transfers are still ACTIVE at the commit is not promised.
- The warning `skipped non-ERC20 log` is also given when a token's metadata cannot be read for a
  moment (`sync-common.ts:514-519`).
- The design asks for prices at the time of an event
  (`docs/superpowers/specs/2026-05-08-coinpulse-v1-design.md:321`); the resolver accepts later
  observations as well, and freshness looks only at time.
- A rebuild updates its own `SyncRun` after the materialization row, so that the run is newer than
  the row and the wallet shows as partial after a successful rebuild, unless both fall in one
  instant.
- A stake's end ingested before its start keeps its return unallocated, and the split is never
  redone; the balance is right all the same.
- A supervisor that is resumed passes over a window in the middle of its way that ended with
  warnings, since only the run at the cursor is looked at; another client's sync by whole windows
  between two children is accepted silently.
- With `--checkpoint-interval 1`, a window submitted again after a conflict and the first ordinary
  one after it go out with no checkpoint in between, although the comment at
  `scripts/wallet-forward-campaign-runner.ts:1609-1614` says that the repeated one counts like an
  ordinary one.  `CheckpointSpacing` allows for it.

## 4. Proofs

All for every value of the constants, from the assumptions named in the modules (sizes are
positive, supported families are families, shapes are consistent, lists are not empty, the
warning an operator may expect is a code of its own and not the marker of a truncated list).

- **Lock.** `IInv` adds to `TypeOK` and `MutualExclusion` that a row exists exactly for a request
  past its commit (`RowMatchesOwner`) and that a transaction about to insert has found no
  conflict among the rows of its snapshot that are still active (`SnapshotHolds`).  Without the
  second the commit step would know nothing of the rows it saw: those it saw are excluded by its
  read, those it did not by the database.  `Refinement` maps a commit to `Grant`, a terminal
  update to `Release`, all else to a stutter.  `StrictAdmission` is the action property under
  `RelationLocks`.
- **Sync.** `IInv` says what each stage has behind it (`StagesHold`: in `persisted` and later the
  range is in `ledger`, and so on), that positions passed are persisted (`PassedIsPersisted`),
  that windows are ordered, and where the list is (`UnreadInList`, `FreshPosition`).
  `CompletedMeansReached` needs one more invariant, that no cursor a sync has read can fall behind
  its plan: cursors only grow, and a window that starts where the cursor stood is never
  disconnected from it.  `Refinement` maps `PersistLedger` to `Persist` and `CommitCursor` to
  `Extend`.
- **Fetcher.** The invariant is `Tiling`: the logs received, the window in hand, the queue and the
  rest of the range tile the range from its first block on.  Cutting, splitting at the midpoint
  and retrying keep the tiling, delivering moves its first tile to the logs.  The lemmas on tiled
  sequences carry it.
- **Ledger store** (the first part of `WalletLedgerProofs`).  `Sound` says of a ledger that it is well formed,
  every entry is in a group of its own transaction and of a kind that may hold it, a fee is stored
  once, an action's group has a fee, and groups and entries match.  `DeleteKeepsSound` and the
  theorem `PersistKeepsSound` show that scoped deletion and the persistence of any well-formed
  batch keep it, by way of what each of the five parts of a batch does: the canonical fees of the
  batch, the drafts dropped, the fees moved, the shadows removed, the emptied groups.  The hardest
  is the last: a group a fee moved out of goes only if the batch does not use it.  `PersistFacts`
  says exactly what a batch adds, moves and takes away; the proofs about content rest on it.
- **Ledger** (`WalletLedgerProofs`).  `IInv` adds that what every process has drafted is well
  formed (`DraftsGood`: the drafts of an action come with its fee, those of transfers sit in their
  own groups) and that a process about to record evidence has an action in hand (`ActionInHand`).  The three
  ledger invariants follow from `Sound` for any number of overlapping processes, stopped
  anywhere; that the invariant says nothing of what *other* processes have read is the point: a
  batch is safe whatever stale reads it was made from.

  What the ledger *contains* is proved under `Serial`, by a second invariant beside `IInv`.
  `ContentHolds` says that raw rows of a transaction come whole (`RawHolds`), that every entry has
  a transaction that gives rise to it and sits in the group the normalizer would choose
  (`LedgerFits`), and that what a pair of cursors covers is stored (`CoveredHolds`); `Knows(o)`
  says for each stage of an operation that what it scanned is stored, that the rows in hand are
  those of its window, that an action it found has evidence or is still to be done, that its
  drafts lie in the window and contain all that is canonical there, and that a rebuild deletes
  nothing it does not draft again.  `Alone` lets one process's knowledge survive: no other is at
  work.  TLC checked the invariant on instances of one and two transactions before the proof.
  `Serial` excludes three things, each for a reason that can be seen: operations that overlap
  (two syncs of TRANSFERS recreate a shadow that the first one removed), rebuilds of a range no
  sync has scanned (finding 3), and histories with a fee of a transaction that only looks like an
  action (today's normalizer leaves that fee to a protocol nobody finds, so that one recorded by
  an earlier version stays until a rebuild).  The proof also asked for what `ShapeAssumption` now
  says, that a transaction looks like an action only by transfers it has: the normalizer goes
  through stored transfers (`transfer-sync.ts:353-428`).
- **Evidence** (`RawEvidenceProofs`).  A row's amounts are the transfers seen when it was made.
  The invariant says that once the genuine transfers of a transaction are stored, whatever is
  active afterwards is among those amounts (`Settled`, `RowsHold`), also for what a producer has in
  hand (`SyncHolds`) and for what a repair has pending (`CallHolds`).  Every writer of transfers
  only takes away from a settled transaction (`Shrinks`): that is why no later sync can add
  evidence beyond what a repair recorded.  `CountHolds` says that the counts of a call are the
  sizes of what it has pending, so that its report is what it commits.  `ScanHolds` and
  `CursorHolds` say that whatever is due and was so all along is in the batch at hand or beyond
  its end; a lemma on the lowest members of a set of numbers shows that a page leaves nothing
  below its last row.
- **Portfolio** (`PortfolioProofs`).  `InTime` and `StageHolds` say what each stage of a rebuild
  knows of the ledger, the positions and the times; `RunHolds` that no run on record, or a completed
  one no later than the row, means current positions; `LookHolds` carries that over the two reads,
  in either order: as long as the positions were never the ledger's since the first read, the pair
  of rows that will have been read cannot pass for materialized.
  `AvailableIsHeld` compares two computations: a sum over the entries of every group, and the
  walk of `Average` over the priced groups in their order.  Sums over finite sets are the folds of
  the community modules; what they compute is defined once more as a function on subsets (`Sums`),
  shown to exist and to be unique by looking at a smallest set where it fails, and then split,
  added and reindexed (`SumSplits`, `SumDiffers`, `SumOfImage`).  The walk is compared index by
  index in the same way (`WalkAgrees`): as long as nothing was skipped, the quantity held after
  `m` groups is the balance of the first `m`.  That each group's `Change` is its legs in less its
  legs out, whichever of `AddGroup`'s branches it takes, needs the legs of `ActionLegs` one action
  at a time, as does `GroupsExplained`: what the legs add up to is what the transaction moved, less
  the entries of penalties.  From it come `BalancesLessPenalties` and `ConsistentUnlessPenalized`,
  under `StakesAlone`, which is how stake actions are ingested: nothing comes in at a start,
  nothing leaves at an end, and a token comes back in one amount.
- **Services** (`ServicesProofs`).  Each step of the composition is a step of one service and leaves
  the variables of the others alone, so that a behavior of the three is one of each
  (`EachOnItsOwn`); the theorems about each then hold of the three.
- **Scripts** (`ForwardProofs`). One invariant, `ForwardInv`, for all scripts together, since they
  meet in the rows. `RowsInv` says what a row is: a completed sync lies inside the cursor or
  stayed apart from it, a completed run has no process any more. Every step of the surroundings is
  `Steady`: no run is relabelled, a completed row stays as it is and the cursor only grows, so
  that what a script read of them may be used later. The other parts are `EvidenceHolds`, that a
  run in an evidence file is completed, inside the cursor, and clean but for a repeated window's
  overlooked warning; `CampaignHolds`, `BatchHolds`, `BackHolds` and `ProbeHolds`, one per script,
  that everything before the window at hand is in evidence. Windows are named by the arithmetic of
  the grid (`LastWindow` and the lemmas on remainders): the window after one that ended at a
  boundary is the next of the grid, and a batch ends at its target. Two more invariants are built
  on these. `Spaced` is behind `CheckpointsKept`: the requests since the last checkpoint are the
  windows counted modulo `Interval`, plus the one repeated. `Ending`, `ChildShape` and
  `SupervisorKnows` are behind `TargetReached`: a child has the shape its supervisor gave it, and
  at each stage of the supervisor the cursor is where the last clean run ended. Previews submit
  nothing, and nothing is claimed of them. Other clients, drift, late requests, released and
  spoiled runs are steps like any other in these proofs: they hold for any number of faults.
  `TypeCorrect` has an invariant of its own, `AllTyped`: every label is the number of a row or
  none, every kind of label is one the script gives, and counts stay below what the operator
  allowed.

| Theorem | States | Checked on small instances by |
|---|---|---|
| `OperationLockProofs.TypeCorrect`, `Exclusion`, `Refinement`, `StrictAdmission` | `TypeOK`, `MutualExclusion`, `ImplementsIdeal`, `NoSyncAdmittedDuringRebuild` | `lock` |
| `WalletSyncProofs.TypeCorrect`, `CursorIsSound`, `HighWaterHash`, `CompletedMeansPersisted`, `CompletedMeansReached`, `Refinement` | `TypeOK`, `CursorSound`, `HashNamesHighWater`, `CompletedIsPersisted`, `CompletedReachesEnd`, `ImplementsCoverage` | `wallet_sync_overlap`, `wallet_sync_families` |
| `LogFetcherProofs.FetchTyped`, `InOrder`, `Whole`, `AtFloor` | `TypeOK`, `LogsInOrder`, `ReturnsWholeRange`, `GivesUpAtFloor` | `services` |
| `WalletLedgerProofs.PersistKeepsSound` | persisting keeps a ledger sound | |
| `WalletLedgerProofs.TypeCorrect`, `FeesPaidOnce`, `FeesFollowActions`, `GroupsAreInUse` | `TypeOK`, `FeePaidOnce`, `FeeFollowsAction`, `GroupsInUse` | `ledger_serial`, `ledger_overlap` |
| `WalletLedgerProofs.CanonicalLedgerReached`, `NothingIsMissing`, `RebuildsStayInWindow`, under `Serial` | `CanonicalWhenCovered`, `NothingMissing`, `RebuildStaysInWindow` | `ledger_serial` |
| `RawEvidenceProofs.EvidenceTyped`, `RecordedStaysAsProduced`, `ReportsAreActual`, `ScansPassNothingOver` | `EvidenceTypeOK`, `RecordedAsProduced`, `ReportIsActual`, `NothingPassedOver` | `services` |
| `PortfolioProofs.PortfolioTyped`, `PositionsAsNewAsClaimed`, `MaterializedWasCurrent` | `PortfolioTypeOK`, `NeverOlderThanClaimed`, `MaterializedIsCurrent` | `services` |
| `PortfolioProofs.AvailableIsHeld` | `AvailableAgrees` | `services` |
| `PortfolioProofs.BalancesLessPenalties`, `ConsistentUnlessPenalized`, under `StakesAlone` | how far finding 5 reaches: balances are what was moved less the penalties, and exact where there are none | `services_stakes` shows the difference |
| `ServicesProofs.EachOnItsOwn`, `ServicesTyped` | the composition is each service; `ServicesTypeOK` | `services` |
| `ForwardProofs.TypeCorrect` | `TypeOK` | `forward_execute` |
| `ForwardProofs.EligibleTellsAll`, `EvidenceIsClean`, `CursorStaysForEvidence` | `EligibleMeansOverlooked`, `RecordedIsClean`, `EvidenceMovesNoCursor` | `forward_execute` |
| `ForwardProofs.NothingSkipped`, `CleanStopsDeliver`, `CheckpointsKept`, `TargetReached` | `PredecessorsRecorded`, `CleanStopIsComplete`, `CheckpointSpacing`, `TargetReachedCleanly` | `forward_execute` |
| `ForwardProofs.BatchSkipsNothing`, `BackfillGoesInTurn`, `ReportedCompleteIs` | `BatchLeavesNothingBehind`, `BackfillInTurn`, `CompleteAfterFinalRebuild` | `forward_execute` |

Every safety property of the passing runs is proved.  Only model-checked: liveness
(`ReservationAnswered`, `SyncSettles`), which is out of the prover's reach.  The properties of the
runs that expect a violation are not proved, being false of the code; `ConsistentUnlessPenalized`
says where the last of them, `BalancesConsistent`, does hold.

## 5. Not modelled

Left out of the modules above:

- Statements inside a ledger transaction under READ COMMITTED: two overlapping transactions can
  meet at a unique key or a foreign key.  The ledger modules take each transaction as one step; the
  lock keeps the operations of a wallet apart.
- Reads of the families of a rebuild happen in parallel and are one step here.  With one
  operation at a time this cannot be told apart.
- Overlapping TRANSFERS syncs recreate shadows of an action another operation has persisted, so
  `CanonicalWhenCovered` is not claimed for `Overlap = TRUE`; and a released rebuild that is still
  alive may overwrite the positions of a later one, so `Portfolio` has one run at a time.
- The fee of a transaction that merely looks like an action is left to a family that then rejects
  it, and no family records it; `Canonical` states this as the code does.
- Blocks that other wallets of the chain share, and the proof of a persistence shortfall
  (`sync-common.ts`) that rests on them.
- The comparison of block hashes of the reorg guard: nothing but tests calls it.  What it would call
  for, `markRawDataRangeReorged`, is in `RawEvidence`.
- Average costs and realized profit, which price of several accepted ones is taken, the quantities
  of LP and stake positions: no property here tells such values apart.  The dashboard's five reads
  are not one snapshot, and its profit and loss, computed from the ledger of the moment, may stand
  beside older positions.
- Of the four cursors the evidence script compares, the modules keep that of TRANSFERS; the others
  are treated alike.  Syncs of another client that extend a cursor further back are there for the
  backfill alone, since the other scripts refuse a cursor whose lower edge moved.  The searches for
  duplicate rows after a window never find any under the unique keys of the schema.
- Texts and codes of warnings beyond those the scripts judge, counts, error messages, run metadata.

Left out as components, with the reason:

- HEX mining evidence: observations of a contract's state, read and stored one by one under their
  own keys and shown as they are; no step of one depends on the state of another.
- RPC policies: `LogFetcher` lets any call be refused, and the other reads fail at any step; what
  the transport repeats beneath that changes no outcome.
- Read side and user interface: queries and shaping of what the operations leave behind, without
  state of their own.
- The other operator scripts: single queries and reports.
