--------------------------- MODULE OperationLock ---------------------------
(***************************************************************************)
(* src/services/operations/operation-lock.ts and the life of the SyncRun   *)
(* row it creates.  There is no lock object: a sync or a rebuild is        *)
(* admitted by a Serializable transaction that reads the active SyncRun    *)
(* rows and inserts one of its own, and it is released by the update that  *)
(* makes that row COMPLETED or FAILED.                                     *)
(*                                                                         *)
(* A request is one POST to /api/sync/manual or /api/rebuild.  It creates  *)
(* at most one row, which bears the request's name here.                   *)
(***************************************************************************)
EXTENDS Naturals, FiniteSets

CONSTANTS
  Requests,        \* the requests
  Scopes,          \* the (wallet, chain) pairs
  RelationLocks    \* whether the database's predicate locks cover the whole
                   \* SyncRun table (a sequential scan) or only matching rows

ASSUME RelationLocksAssumption == RelationLocks \in BOOLEAN

VARIABLES
  op,        \* the operation each request asks for
  run,       \* the status of the SyncRun row of each request
  pc,        \* where each request is
  seen,      \* the rows in the snapshot of a request's transaction
  attempt    \* the attempt of reserveOperationRun a request is on

vars == <<op, run, pc, seen, attempt>>

SyncLike   == {"MANUAL", "IMPORT"}
Operations == [trigger : SyncLike \cup {"REBUILD"}, scope : Scopes]
NoRow      == "NO_ROW"
Statuses   == {"PENDING", "RUNNING", "COMPLETED", "FAILED"}
MaxAttempts == 2

Rows   == {u \in Requests : run[u] # NoRow}
Active == {u \in Requests : run[u] \in {"PENDING", "RUNNING"}}

Unanswered == {"begin", "inserting", "rechecking"}
Owning     == {"reserved", "working", "failing"}
PCs == Unanswered \cup Owning
         \cup {"refused", "contended", "errored", "finished", "abandoned"}

TypeOK ==
  /\ op \in [Requests -> Operations]
  /\ run \in [Requests -> Statuses \cup {NoRow}]
  /\ pc \in [Requests -> PCs]
  /\ seen \in [Requests -> SUBSET Requests]
  /\ attempt \in [Requests -> 1 .. MaxAttempts]

(* Mutated: rebuilds are scoped as syncs are.                               *)
ConflictsInScope(r, u) == op[u].scope = op[r].scope

(* The active run of u makes checkOperationConflict refuse r: any rebuild    *)
(* does, and a sync of r's own wallet and chain.                            *)
Conflicts(r, u) ==
  \/ op[u].trigger = "REBUILD"
  \/ op[u].trigger \in SyncLike /\ op[u].scope = op[r].scope

ConflictIn(r, rows) == \E u \in rows : Conflicts(r, u)

-----------------------------------------------------------------------------
(* What a Serializable transaction of the database guarantees.              *)

(* Rows committed since the snapshot of r was taken.                        *)
Unseen(r) == Rows \ seen[r]

(* A row of u among the unseen ones forms a read-write conflict with r.      *)
Overlap(r, u) == RelationLocks \/ Conflicts(r, u) \/ Conflicts(u, r)

(* r and u, neither of which saw the other's row, cannot both commit: each  *)
(* would have to come before the other.                                     *)
Unserializable(r, u) ==
  RelationLocks \/ (Conflicts(r, u) /\ Conflicts(u, r))

-----------------------------------------------------------------------------
Init ==
  /\ op \in [Requests -> Operations]
  /\ run = [r \in Requests |-> NoRow]
  /\ pc = [r \in Requests |-> "begin"]
  /\ seen = [r \in Requests |-> {}]
  /\ attempt = [r \in Requests |-> 1]

Goto(r, l) == pc' = [pc EXCEPT ![r] = l]

SetRun(r, status) == run' = [run EXCEPT ![r] = status]

(* Mutated: a conflicting request polls until the blocker is gone.          *)
AwaitTransaction(r) ==
  /\ pc[r] = "begin"
  /\ ~ConflictIn(r, Active)
  /\ seen' = [seen EXCEPT ![r] = Rows]
  /\ Goto(r, "inserting")
  /\ UNCHANGED <<op, run, attempt>>

(* The transaction takes its snapshot with its only read, the conflicting   *)
(* active runs: it refuses at once or goes on to create its row.            *)
BeginTransaction(r) ==
  /\ pc[r] = "begin"
  /\ seen' = [seen EXCEPT ![r] = Rows]
  /\ Goto(r, IF ConflictIn(r, Active) THEN "refused" ELSE "inserting")
  /\ UNCHANGED <<op, run, attempt>>

(* Mutated: the transaction runs at READ COMMITTED.                         *)
CommitReadCommitted(r) ==
  /\ pc[r] = "inserting"
  /\ SetRun(r, "PENDING")
  /\ Goto(r, "reserved")
  /\ UNCHANGED <<op, seen, attempt>>

CommitTransaction(r) ==
  /\ pc[r] = "inserting"
  /\ ~\E u \in Unseen(r) : Unserializable(r, u)
  /\ SetRun(r, "PENDING")
  /\ Goto(r, "reserved")
  /\ UNCHANGED <<op, seen, attempt>>

(* P2034: the database aborts the transaction because of one that committed *)
(* after its snapshot.                                                      *)
AbortTransaction(r) ==
  /\ pc[r] = "inserting"
  /\ \E u \in Unseen(r) : Overlap(r, u)
  /\ Goto(r, "rechecking")
  /\ UNCHANGED <<op, run, seen, attempt>>

(* Mutated: the retry does not look at the attempt it is on.                *)
RecheckForEver(r) ==
  /\ pc[r] = "rechecking"
  /\ \/ /\ ConflictIn(r, Active)
        /\ Goto(r, "refused")
        /\ UNCHANGED attempt
     \/ /\ ~ConflictIn(r, Active)
        /\ Goto(r, "begin")
        /\ attempt' = [attempt EXCEPT ![r] = @ + 1]
  /\ UNCHANGED <<op, run, seen>>

(* After a P2034 the conflicting runs are read again, outside any            *)
(* transaction: a conflict is reported as such, and the second failure is   *)
(* handed to the caller.                                                    *)
Recheck(r) ==
  /\ pc[r] = "rechecking"
  /\ \/ /\ ConflictIn(r, Active)
        /\ Goto(r, "refused")
        /\ UNCHANGED attempt
     \/ /\ ~ConflictIn(r, Active)
        /\ attempt[r] = MaxAttempts
        /\ Goto(r, "contended")
        /\ UNCHANGED attempt
     \/ /\ ~ConflictIn(r, Active)
        /\ attempt[r] < MaxAttempts
        /\ Goto(r, "begin")
        /\ attempt' = [attempt EXCEPT ![r] = @ + 1]
  /\ UNCHANGED <<op, run, seen>>

(* Any other database error is thrown as it is.                             *)
ReservationError(r) ==
  /\ pc[r] \in Unanswered
  /\ Goto(r, "errored")
  /\ UNCHANGED <<op, run, seen, attempt>>

-----------------------------------------------------------------------------
(* The operation that owns the row: runWalletSync and runRebuildOperation.  *)

(* Mutated: a late stage update reaches a row that is already terminal.      *)
EnterStageLate(r) ==
  /\ pc[r] \in {"reserved", "working", "finished"}
  /\ SetRun(r, "RUNNING")
  /\ Goto(r, "working")
  /\ UNCHANGED <<op, seen, attempt>>

(* Every stage announces itself with an update to RUNNING.                  *)
EnterStage(r) ==
  /\ pc[r] \in {"reserved", "working"}
  /\ SetRun(r, "RUNNING")
  /\ Goto(r, "working")
  /\ UNCHANGED <<op, seen, attempt>>

(* A sync whose families are all up to date completes from PENDING.         *)
Complete(r) ==
  /\ \/ pc[r] = "working"
     \/ pc[r] = "reserved" /\ op[r].trigger \in SyncLike
  /\ SetRun(r, "COMPLETED")
  /\ Goto(r, "finished")
  /\ UNCHANGED <<op, seen, attempt>>

Throw(r) ==
  /\ pc[r] \in {"reserved", "working"}
  /\ Goto(r, "failing")
  /\ UNCHANGED <<op, run, seen, attempt>>

RecordFailure(r) ==
  /\ pc[r] = "failing"
  /\ SetRun(r, "FAILED")
  /\ Goto(r, "finished")
  /\ UNCHANGED <<op, seen, attempt>>

(* The owner is gone and its row still active: the process died, the update *)
(* to FAILED was rejected, or the operation threw before its try block.     *)
Abandon(r) ==
  /\ pc[r] \in Owning
  /\ Goto(r, "abandoned")
  /\ UNCHANGED <<op, run, seen, attempt>>

(* The operator marks the run of a dead owner FAILED by hand; no code does. *)
OperatorRelease(r) ==
  /\ pc[r] = "abandoned"
  /\ r \in Active
  /\ SetRun(r, "FAILED")
  /\ UNCHANGED <<op, pc, seen, attempt>>

Reserve(r) ==
  \/ BeginTransaction(r)
  \/ CommitTransaction(r)
  \/ AbortTransaction(r)
  \/ Recheck(r)

Operate(r) ==
  \/ EnterStage(r)
  \/ Complete(r)
  \/ Throw(r)
  \/ RecordFailure(r)
  \/ Abandon(r)
  \/ OperatorRelease(r)

Next == \E r \in Requests : Reserve(r) \/ ReservationError(r) \/ Operate(r)

(* The service keeps executing a reservation it has begun.                  *)
Fairness == \A r \in Requests : WF_vars(Reserve(r))

Spec == Init /\ [][Next]_vars /\ Fairness

-----------------------------------------------------------------------------
(* No two active runs exclude each other, however their reservations        *)
(* overlapped: at most one rebuild anywhere, at most one sync of a wallet   *)
(* and chain, and no sync beside a rebuild of its own wallet and chain.     *)
MutualExclusion ==
  \A r, u \in Active :
    r # u => ~(Conflicts(r, u) /\ Conflicts(u, r))

(* A sync is never admitted while a rebuild, of any wallet, is active.  The *)
(* opposite order is allowed: a rebuild is admitted beside a sync of        *)
(* another wallet.                                                          *)
NoSyncAdmittedDuringRebuild ==
  [][\A r \in Requests :
       r \in Rows' \ Rows /\ op[r].trigger \in SyncLike
         => \A u \in Active : op[u].trigger # "REBUILD"]_vars

(* Every reservation is answered, whoever else is active: it neither waits  *)
(* for the operation it conflicts with nor retries for ever.                *)
ReservationAnswered ==
  \A r \in Requests : pc[r] \in Unanswered ~> pc[r] \notin Unanswered

(* The row table with its transactions implements the ideal lock.           *)
Ideal == INSTANCE ExclusiveOperations WITH
           active <- Active,
           ended <- Rows \ Active

ImplementsIdeal == Ideal!AbsSpec
=============================================================================
