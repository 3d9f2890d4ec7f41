----------------------------- MODULE WalletSync -----------------------------
(***************************************************************************)
(* The syncs of one wallet on one chain: POST /api/sync/manual, which      *)
(* reserves a SyncRun, and runWalletSync of                                *)
(* src/services/sync/sync-orchestrator.ts, which takes every requested     *)
(* family through ingestion, normalization, ledger persistence and the     *)
(* cursor update of src/services/sync/sync-state-store.ts.                 *)
(*                                                                         *)
(* The reservation is the atomic step that module OperationLock shows the  *)
(* lock to implement.  It does not keep two syncs apart for good: a run    *)
(* flagged as stale is marked FAILED by the operator, and the process      *)
(* behind it may be slow rather than dead.                                 *)
(***************************************************************************)
EXTENDS Integers, Sequences

CONSTANTS
  Syncs,           \* the sync requests of the wallet
  Families,        \* the source families a request may name
  Supported,       \* those with a concrete sync path
  FamilyLists,     \* the lists of families the requests give, repeats allowed
  MaxLength,       \* their greatest length
  MaxBlock,        \* the last block of the chain
  CursorAttempts   \* the attempts of a cursor transaction, 3 in the code

ASSUME FamiliesAssumption ==
  /\ Supported \subseteq Families
  /\ FamilyLists \subseteq Seq(Families)
  /\ \A l \in FamilyLists : Len(l) \in 1 .. MaxLength
ASSUME BoundsAssumption ==
  MaxLength \in Nat \ {0} /\ MaxBlock \in Nat /\ CursorAttempts \in Nat \ {0}

VARIABLES
  input,    \* what each sync was asked for
  run,      \* the status of each sync's SyncRun row
  pc,       \* where each sync is
  unread,   \* the positions of its list whose cursor it has not read yet
  plan,     \* the block it starts from, for each position of its list
  pos,      \* the position it works on
  base,     \* the cursor its transaction read
  tries,    \* the attempt its cursor transaction is on
  raw,      \* the blocks of each family whose raw evidence is stored
  ledger,   \* the blocks of each family whose ledger entries are stored
  cursor    \* the SyncCursor row of each family

local == <<input, unread, plan, pos, base, tries>>
store == <<raw, ledger, cursor>>
vars  == <<local, run, pc, store>>

Blocks    == 0 .. MaxBlock
Positions == 1 .. MaxLength
NoStart   == -1
NoRow     == "NO_ROW"

(* A cursor is a window and the hash of its highest block, for which the    *)
(* number of the block hashed stands.  The absent row is the empty window.  *)
NoCursor == [from |-> 0, to |-> -1, hash |-> -1]
Windows  == [from : Blocks, to : Blocks, hash : Blocks]

Inputs == {i \in [start : Blocks \cup {NoStart}, end : Blocks, families : FamilyLists] :
             i.start <= i.end}

Working == {"loop", "ingesting", "ingested", "normalizing", "persisting",
            "persisted", "updating", "merging"}
Live    == Working \cup {"planning", "failing"}
Settled == {"refused", "completed", "threw", "gone"}

TypeOK ==
  /\ input \in [Syncs -> Inputs]
  /\ run \in [Syncs -> {NoRow, "PENDING", "RUNNING", "COMPLETED", "FAILED"}]
  /\ pc \in [Syncs -> Live \cup Settled \cup {"idle"}]
  /\ unread \in [Syncs -> SUBSET Positions]
  /\ plan \in [Syncs -> [Positions -> 0 .. MaxBlock + 1]]
  /\ pos \in [Syncs -> 1 .. MaxLength + 1]
  /\ base \in [Syncs -> Windows \cup {NoCursor}]
  /\ tries \in [Syncs -> 1 .. CursorAttempts]
  /\ raw \in [Families -> SUBSET Blocks]
  /\ ledger \in [Families -> SUBSET Blocks]
  /\ cursor \in [Families -> Windows \cup {NoCursor}]

Length(s)  == Len(input[s].families)
Family(s)  == input[s].families[pos[s]]
From(s)    == plan[s][pos[s]]
End(s)     == input[s].end
Segment(s) == From(s) .. End(s)

-----------------------------------------------------------------------------
(* mergeCursorWindow                                                        *)

Disconnected(old, new) == new.from > old.to + 1 \/ new.to + 1 < old.from

(* Mutated: a disconnected window is taken over like any other.              *)
MergeAnyWindow(old, new) ==
  IF old = NoCursor THEN new
  ELSE [from |-> IF new.from < old.from THEN new.from ELSE old.from,
        to   |-> IF new.to > old.to THEN new.to ELSE old.to,
        hash |-> IF new.to > old.to THEN new.hash ELSE old.hash]

(* Mutated: the hash of the latest window replaces the high-water hash.      *)
MergeLatestHash(old, new) ==
  IF old = NoCursor THEN new
  ELSE IF Disconnected(old, new) THEN old
  ELSE [from |-> IF new.from < old.from THEN new.from ELSE old.from,
        to   |-> IF new.to > old.to THEN new.to ELSE old.to,
        hash |-> new.hash]

(* Mutated: the later window wins.                                          *)
MergeOverwrite(old, new) == new

(* A window that touches the covered one extends it, and a window apart     *)
(* from it leaves it as it is.  Ingestion always returns the hash of the    *)
(* block it scanned last, so the refusal to advance without one is moot.    *)
MergeCursorWindow(old, new) ==
  IF old = NoCursor THEN new
  ELSE IF Disconnected(old, new) THEN old
  ELSE [from |-> IF new.from < old.from THEN new.from ELSE old.from,
        to   |-> IF new.to > old.to THEN new.to ELSE old.to,
        hash |-> IF new.to > old.to THEN new.hash ELSE old.hash]

Merged(s) ==
  MergeCursorWindow(base[s], [from |-> From(s), to |-> End(s), hash |-> End(s)])

-----------------------------------------------------------------------------
Init ==
  /\ input \in [Syncs -> Inputs]
  /\ run = [s \in Syncs |-> NoRow]
  /\ pc = [s \in Syncs |-> "idle"]
  /\ unread = [s \in Syncs |-> 1 .. Len(input[s].families)]
  /\ plan = [s \in Syncs |-> [i \in Positions |-> 0]]
  /\ pos = [s \in Syncs |-> 1]
  /\ base = [s \in Syncs |-> NoCursor]
  /\ tries = [s \in Syncs |-> 1]
  /\ raw = [f \in Families |-> {}]
  /\ ledger = [f \in Families |-> {}]
  /\ cursor = [f \in Families |-> NoCursor]

Goto(s, l) == pc' = [pc EXCEPT ![s] = l]

SetRun(s, status) == run' = [run EXCEPT ![s] = status]

ActiveRuns == {s \in Syncs : run[s] \in {"PENDING", "RUNNING"}}

(* The route reserves a run or answers 409.                                 *)
Reserve(s) ==
  /\ pc[s] = "idle"
  /\ \/ ActiveRuns = {} /\ SetRun(s, "PENDING") /\ Goto(s, "planning")
     \/ ActiveRuns # {} /\ Goto(s, "refused") /\ UNCHANGED run
  /\ UNCHANGED <<local, store>>

(* Mutated: the window of a cursor is taken to end before the next block.   *)
ReadCursorSkippingBlock(s, i) ==
  /\ pc[s] = "planning"
  /\ i \in unread[s]
  /\ LET start == input[s].start
         seen  == cursor[input[s].families[i]]
     IN  plan' = [plan EXCEPT ![s][i] =
                    IF start # NoStart THEN start
                    ELSE IF seen = NoCursor THEN 0 ELSE seen.to + 2]
  /\ unread' = [unread EXCEPT ![s] = @ \ {i}]
  /\ UNCHANGED <<input, pos, base, tries, run, pc, store>>

(* The cursors of all families are read at once, in any order.              *)
ReadCursor(s, i) ==
  /\ pc[s] = "planning"
  /\ i \in unread[s]
  /\ LET start == input[s].start
         seen  == cursor[input[s].families[i]]
     IN  plan' = [plan EXCEPT ![s][i] =
                    IF start # NoStart THEN start
                    ELSE IF seen = NoCursor THEN 0 ELSE seen.to + 1]
  /\ unread' = [unread EXCEPT ![s] = @ \ {i}]
  /\ UNCHANGED <<input, pos, base, tries, run, pc, store>>

(* A cursor read fails before the try block: runWalletSync rejects.         *)
RejectPlan(s) ==
  /\ pc[s] = "planning"
  /\ unread[s] # {}
  /\ Goto(s, "threw")
  /\ UNCHANGED <<local, run, store>>

(* Inside the try block: an unsupported family fails the whole run.         *)
EnterTry(s) ==
  /\ pc[s] = "planning"
  /\ unread[s] = {}
  /\ \/ /\ \A i \in 1 .. Length(s) : input[s].families[i] \in Supported
        /\ Goto(s, "loop")
     \/ /\ \E i \in 1 .. Length(s) : input[s].families[i] \notin Supported
        /\ Goto(s, "failing")
  /\ UNCHANGED <<local, run, store>>

NextFamily(s) == pos' = [pos EXCEPT ![s] = @ + 1]

(* Mutated: a range of a single block is taken for an empty one.             *)
SkipSingleBlock(s) ==
  /\ pc[s] = "loop"
  /\ pos[s] <= Length(s)
  /\ From(s) >= End(s)
  /\ NextFamily(s)
  /\ UNCHANGED <<input, unread, plan, base, tries, run, pc, store>>

SkipFamily(s) ==
  /\ pc[s] = "loop"
  /\ pos[s] <= Length(s)
  /\ From(s) > End(s)
  /\ NextFamily(s)
  /\ UNCHANGED <<input, unread, plan, base, tries, run, pc, store>>

(* Every stage is announced by an update of the run to RUNNING, whatever    *)
(* the status of the row has become.                                        *)
NextStage == [loop |-> "ingesting", ingested |-> "normalizing",
              normalizing |-> "persisting", persisted |-> "updating"]

EnterStage(s) ==
  /\ pc[s] \in DOMAIN NextStage
  /\ pc[s] = "loop" => pos[s] <= Length(s) /\ From(s) <= End(s)
  /\ SetRun(s, "RUNNING")
  /\ Goto(s, NextStage[pc[s]])
  /\ UNCHANGED <<local, store>>

Ingest(s) ==
  /\ pc[s] = "ingesting"
  /\ raw' = [raw EXCEPT ![Family(s)] = @ \cup Segment(s)]
  /\ Goto(s, "ingested")
  /\ UNCHANGED <<local, run, ledger, cursor>>

(* The windows of a range are stored in ascending order up to the one that  *)
(* fails.                                                                   *)
IngestFails(s) ==
  /\ pc[s] = "ingesting"
  /\ \E b \in Segment(s) :
       raw' = [raw EXCEPT ![Family(s)] = @ \cup From(s) .. b - 1]
  /\ Goto(s, "failing")
  /\ UNCHANGED <<local, run, ledger, cursor>>

PersistLedger(s) ==
  /\ pc[s] = "persisting"
  /\ ledger' = [ledger EXCEPT ![Family(s)] = @ \cup Segment(s)]
  /\ Goto(s, "persisted")
  /\ UNCHANGED <<local, run, raw, cursor>>

(* upsertCursor: a Serializable transaction that reads the row, merges and  *)
(* writes, started again when another one changed the row in between.       *)
OpenCursor(s) ==
  /\ pc[s] = "updating"
  /\ base' = [base EXCEPT ![s] = cursor[Family(s)]]
  /\ Goto(s, "merging")
  /\ UNCHANGED <<input, unread, plan, pos, tries, run, store>>

(* Mutated: the family is not left behind once its cursor is written.        *)
CommitCursorAndStay(s) ==
  /\ pc[s] = "merging"
  /\ Merged(s) = base[s] \/ cursor[Family(s)] = base[s]
  /\ cursor' = [cursor EXCEPT ![Family(s)] =
                  IF Merged(s) = base[s] THEN @ ELSE Merged(s)]
  /\ tries' = [tries EXCEPT ![s] = 1]
  /\ Goto(s, "loop")
  /\ UNCHANGED <<input, unread, plan, pos, base, run, raw, ledger>>

(* Mutated: the row is written whatever became of it since it was read.      *)
CommitCursorBlindly(s) ==
  /\ pc[s] = "merging"
  /\ cursor' = [cursor EXCEPT ![Family(s)] = Merged(s)]
  /\ tries' = [tries EXCEPT ![s] = 1]
  /\ NextFamily(s)
  /\ Goto(s, "loop")
  /\ UNCHANGED <<input, unread, plan, base, run, raw, ledger>>

CommitCursor(s) ==
  /\ pc[s] = "merging"
  /\ Merged(s) = base[s] \/ cursor[Family(s)] = base[s]
  /\ cursor' = [cursor EXCEPT ![Family(s)] =
                  IF Merged(s) = base[s] THEN @ ELSE Merged(s)]
  /\ tries' = [tries EXCEPT ![s] = 1]
  /\ NextFamily(s)
  /\ Goto(s, "loop")
  /\ UNCHANGED <<input, unread, plan, base, run, raw, ledger>>

AbortCursor(s) ==
  /\ pc[s] = "merging"
  /\ Merged(s) # base[s]
  /\ cursor[Family(s)] # base[s]
  /\ \/ /\ tries[s] < CursorAttempts
        /\ tries' = [tries EXCEPT ![s] = @ + 1]
        /\ Goto(s, "updating")
     \/ /\ tries[s] = CursorAttempts
        /\ Goto(s, "failing")
        /\ UNCHANGED tries
  /\ UNCHANGED <<input, unread, plan, pos, base, run, store>>

Complete(s) ==
  /\ pc[s] = "loop"
  /\ pos[s] > Length(s)
  /\ SetRun(s, "COMPLETED")
  /\ Goto(s, "completed")
  /\ UNCHANGED <<local, store>>

(* Any database or provider error inside the try block.                     *)
Throw(s) ==
  /\ pc[s] \in Working
  /\ Goto(s, "failing")
  /\ UNCHANGED <<local, run, store>>

(* The catch block records the failure and rethrows; recording it may be    *)
(* what fails.                                                              *)
RecordFailure(s) ==
  /\ pc[s] = "failing"
  /\ SetRun(s, "FAILED") \/ UNCHANGED run
  /\ Goto(s, "threw")
  /\ UNCHANGED <<local, store>>

Crash(s) ==
  /\ pc[s] \in Live
  /\ Goto(s, "gone")
  /\ UNCHANGED <<local, run, store>>

(* The operator marks a run that appears stale FAILED, its process alive or *)
(* not.                                                                     *)
OperatorRelease(s) ==
  /\ s \in ActiveRuns
  /\ SetRun(s, "FAILED")
  /\ UNCHANGED <<local, pc, store>>

(* The steps runWalletSync takes when nothing fails, and its way out when   *)
(* something has.                                                           *)
Advance(s) ==
  \/ \E i \in Positions : ReadCursor(s, i)
  \/ EnterTry(s)
  \/ SkipFamily(s)
  \/ EnterStage(s)
  \/ Ingest(s)
  \/ PersistLedger(s)
  \/ OpenCursor(s)
  \/ CommitCursor(s)
  \/ AbortCursor(s)
  \/ Complete(s)
  \/ RecordFailure(s)

Disturb(s) ==
  \/ RejectPlan(s)
  \/ IngestFails(s)
  \/ Throw(s)
  \/ Crash(s)
  \/ OperatorRelease(s)

Next == \E s \in Syncs : Reserve(s) \/ Advance(s) \/ Disturb(s)

(* A sync that was admitted keeps running.                                  *)
Fairness == \A s \in Syncs : WF_vars(Advance(s))

Spec == Init /\ [][Next]_vars /\ Fairness

-----------------------------------------------------------------------------
(* A cursor never claims a block that was not both ingested and persisted,  *)
(* through crashes, failures at any stage and syncs that overlap because a  *)
(* live run was released.                                                   *)
CursorSound ==
  \A f \in Families :
    cursor[f].from .. cursor[f].to \subseteq raw[f] \cap ledger[f]

(* The high-water hash is the hash of the highest block of the window, not  *)
(* of the block some later, lower window ended at.                          *)
HashNamesHighWater == \A f \in Families : cursor[f].hash = cursor[f].to

(* A sync that left its start to the cursors and COMPLETED has brought every *)
(* cursor it was asked for up to its end block: no part of it was dropped   *)
(* as disconnected.                                                         *)
CompletedReachesEnd ==
  \A s \in Syncs :
    pc[s] = "completed" /\ input[s].start = NoStart =>
      \A i \in 1 .. Length(s) : cursor[input[s].families[i]].to >= End(s)

(* COMPLETED means done: the ledger holds every block of the range a sync   *)
(* planned, for every family it was asked for.                              *)
CompletedIsPersisted ==
  \A s \in Syncs :
    pc[s] = "completed" =>
      \A i \in 1 .. Length(s) : plan[s][i] .. End(s) \subseteq ledger[input[s].families[i]]

(* Every sync that was admitted comes to an end, contention on its cursors  *)
(* included.                                                                *)
SyncSettles == \A s \in Syncs : pc[s] \in Live ~> pc[s] \in Settled

(* When runWalletSync rejects, its SyncRun is FAILED, as the comment of the *)
(* route's catch block says (app/api/sync/manual/route.ts:120).             *)
RejectedIsFailed == \A s \in Syncs : pc[s] = "threw" => run[s] = "FAILED"

(* The pipeline implements the promise of a sync cursor.                    *)
Coverage == INSTANCE SyncCoverage WITH
              persisted <- ledger,
              window <- [f \in Families |-> cursor[f].from .. cursor[f].to]

ImplementsCoverage == Coverage!CovSpec
=============================================================================
