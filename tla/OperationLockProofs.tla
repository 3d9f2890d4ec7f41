------------------------ MODULE OperationLockProofs ------------------------
(***************************************************************************)
(* For any number of requests and scopes and for either granularity of the *)
(* database's predicate locks: active runs never exclude each other, and   *)
(* the row table implements the ideal lock of ExclusiveOperations.         *)
(***************************************************************************)
EXTENDS OperationLock, TLAPS

(* The row of a request says how far the request got.                       *)
RowMatchesOwner ==
  \A r \in Requests :
    /\ pc[r] \in Unanswered \cup {"refused", "contended", "errored"}
         => run[r] = NoRow
    /\ pc[r] \in Owning => run[r] \in {"PENDING", "RUNNING"}
    /\ pc[r] = "finished" => run[r] \in {"COMPLETED", "FAILED"}
    /\ pc[r] = "abandoned" => run[r] # NoRow

(* What a transaction about to insert read is still true of the rows it     *)
(* read: they exist, and those still active do not conflict with it.        *)
SnapshotHolds ==
  \A r \in Requests :
    /\ seen[r] \subseteq Rows
    /\ pc[r] = "inserting" => ~ConflictIn(r, Active \cap seen[r])

IInv == TypeOK /\ RowMatchesOwner /\ SnapshotHolds /\ MutualExclusion

(* The type invariant of the lock holds in every reachable state.           *)
THEOREM TypeCorrect == Spec => []TypeOK
<1>1. Init => TypeOK
  BY DEF Init, TypeOK, PCs, Unanswered, NoRow, MaxAttempts
<1>2. TypeOK /\ [Next]_vars => TypeOK'
  <2> SUFFICES ASSUME TypeOK, [Next]_vars PROVE TypeOK'
    OBVIOUS
  <2> USE DEF TypeOK, PCs, Unanswered, Owning, Statuses, NoRow, Rows, Goto, SetRun
  <2>1. CASE UNCHANGED vars
    BY <2>1 DEF vars
  <2>2. ASSUME NEW r \in Requests, Reserve(r) \/ ReservationError(r) PROVE TypeOK'
    <3>1. CASE BeginTransaction(r)
      BY <3>1 DEF BeginTransaction
    <3>2. CASE CommitTransaction(r)
      BY <3>2 DEF CommitTransaction
    <3>3. CASE AbortTransaction(r)
      BY <3>3 DEF AbortTransaction
    <3>4. CASE Recheck(r)
      BY <3>4 DEF Recheck, MaxAttempts
    <3>5. CASE ReservationError(r)
      BY <3>5 DEF ReservationError
    <3>6. QED
      BY <2>2, <3>1, <3>2, <3>3, <3>4, <3>5 DEF Reserve
  <2>3. ASSUME NEW r \in Requests, Operate(r) PROVE TypeOK'
    BY <2>3 DEF Operate, EnterStage, Complete, Throw, RecordFailure, Abandon,
                OperatorRelease
  <2>4. QED
    BY <2>1, <2>2, <2>3 DEF Next
<1>3. QED
  BY <1>1, <1>2, PTL DEF Spec

-----------------------------------------------------------------------------
(* In the terms of the ideal lock, two operations exclude each other exactly *)
(* when each one's conflict query matches the other's run.                  *)
LEMMA ExcludeIsMutualConflict ==
  ASSUME TypeOK, NEW r \in Requests, NEW u \in Requests
  PROVE  Ideal!Exclude(op[r], op[u]) <=> Conflicts(r, u) /\ Conflicts(u, r)
<1>1. op[r] \in Operations /\ op[u] \in Operations
  BY DEF TypeOK
<1>2. /\ op[r].trigger \in SyncLike \cup {"REBUILD"}
      /\ op[u].trigger \in SyncLike \cup {"REBUILD"}
  BY <1>1 DEF Operations
<1>3. QED
  BY <1>2 DEF Ideal!Exclude, Conflicts, SyncLike

(* Steps other than a commit add no active run, and none of the steps that  *)
(* update a run touches one that is over.                                   *)
LEMMA OnlyCommitAdds ==
  ASSUME IInv, NEW r \in Requests,
         \/ BeginTransaction(r) \/ AbortTransaction(r) \/ Recheck(r)
         \/ ReservationError(r) \/ Operate(r)
  PROVE  /\ Active' \subseteq Active
         /\ Rows' = Rows
         /\ UNCHANGED op
         /\ Active' = Active \/ (r \in Active /\ Active' = Active \ {r})
<1> USE DEF IInv, TypeOK, RowMatchesOwner, Rows, Active, Goto, SetRun, NoRow,
            Owning, Statuses, PCs
<1>1. CASE BeginTransaction(r) \/ AbortTransaction(r) \/ Recheck(r) \/ ReservationError(r)
  BY <1>1 DEF BeginTransaction, AbortTransaction, Recheck, ReservationError
<1>2. CASE Throw(r) \/ Abandon(r)
  BY <1>2 DEF Throw, Abandon
<1>3. CASE EnterStage(r)
  BY <1>3 DEF EnterStage
<1>4. CASE Complete(r)
  BY <1>4 DEF Complete
<1>5. CASE RecordFailure(r)
  BY <1>5 DEF RecordFailure
<1>6. CASE OperatorRelease(r)
  BY <1>6 DEF OperatorRelease
<1>7. QED
  BY <1>1, <1>2, <1>3, <1>4, <1>5, <1>6 DEF Operate

(* A commit adds the row of a request that had none, and that row excludes  *)
(* no active one.                                                           *)
LEMMA CommitExcludesNone ==
  ASSUME IInv, NEW r \in Requests, CommitTransaction(r)
  PROVE  /\ r \notin Rows
         /\ Active' = Active \cup {r}
         /\ Rows' = Rows \cup {r}
         /\ UNCHANGED op
         /\ \A u \in Active : ~(Conflicts(r, u) /\ Conflicts(u, r))
<1>1. r \notin Rows
  BY DEF IInv, RowMatchesOwner, CommitTransaction, Unanswered, Rows
<1>2. Active' = Active \cup {r} /\ Rows' = Rows \cup {r} /\ UNCHANGED op
  BY DEF IInv, TypeOK, CommitTransaction, SetRun, Active, Rows, NoRow
<1>3. ASSUME NEW u \in Active PROVE ~(Conflicts(r, u) /\ Conflicts(u, r))
  <2>1. CASE u \in seen[r]
    BY <2>1 DEF IInv, SnapshotHolds, CommitTransaction, ConflictIn
  <2>2. CASE u \notin seen[r]
    <3>1. u \in Unseen(r)
      BY <2>2 DEF Active, Unseen, Rows, NoRow
    <3>2. QED
      BY <3>1 DEF CommitTransaction, Unserializable
  <2>3. QED
    BY <2>1, <2>2
<1>4. QED
  BY <1>1, <1>2, <1>3

LEMMA MutualExclusionStep ==
  ASSUME IInv, [Next]_vars
  PROVE  MutualExclusion'
<1>1. CASE UNCHANGED vars
  BY <1>1 DEF IInv, MutualExclusion, vars, Active, Conflicts
<1>2. ASSUME NEW r \in Requests, CommitTransaction(r) PROVE MutualExclusion'
  <2>1. \A u, v \in Active : u # v => ~(Conflicts(u, v) /\ Conflicts(v, u))
    BY DEF IInv, MutualExclusion
  <2>2. QED
    BY <1>2, <2>1, CommitExcludesNone DEF MutualExclusion, Conflicts
<1>3. ASSUME NEW r \in Requests,
             \/ BeginTransaction(r) \/ AbortTransaction(r) \/ Recheck(r)
             \/ ReservationError(r) \/ Operate(r)
      PROVE  MutualExclusion'
  BY <1>3, OnlyCommitAdds DEF IInv, MutualExclusion, Conflicts
<1>4. QED
  BY <1>1, <1>2, <1>3 DEF Next, Reserve

LEMMA SnapshotHoldsStep ==
  ASSUME IInv, [Next]_vars
  PROVE  SnapshotHolds'
<1>1. CASE UNCHANGED vars
  BY <1>1 DEF IInv, SnapshotHolds, vars, Rows, Active, ConflictIn, Conflicts
<1>2. ASSUME NEW r \in Requests, CommitTransaction(r) PROVE SnapshotHolds'
  <2>1. /\ r \notin Rows /\ UNCHANGED <<op, seen>>
        /\ Active' = Active \cup {r} /\ Rows' = Rows \cup {r}
        /\ \A x \in Requests : pc'[x] = "inserting" => pc[x] = "inserting"
    BY <1>2, CommitExcludesNone DEF CommitTransaction, Goto, IInv, TypeOK
  <2>2. \A x \in Requests : Active' \cap seen[x] = Active \cap seen[x]
    BY <2>1 DEF IInv, SnapshotHolds
  <2>3. QED
    BY <2>1, <2>2 DEF IInv, SnapshotHolds, ConflictIn, Conflicts
<1>3. ASSUME NEW r \in Requests, BeginTransaction(r) PROVE SnapshotHolds'
  <2>1. /\ UNCHANGED <<op, run>>
        /\ seen' = [seen EXCEPT ![r] = Rows]
        /\ pc' = [pc EXCEPT ![r] = IF ConflictIn(r, Active) THEN "refused" ELSE "inserting"]
    BY <1>3 DEF BeginTransaction, Goto
  <2>2. Active' = Active /\ Rows' = Rows
    BY <2>1 DEF Active, Rows
  <2>3. ASSUME NEW x \in Requests
        PROVE  /\ seen'[x] \subseteq Rows
               /\ pc'[x] = "inserting" => ~ConflictIn(x, Active \cap seen'[x])
    <3>1. CASE x = r
      BY <3>1, <2>1 DEF IInv, TypeOK, ConflictIn
    <3>2. CASE x # r
      BY <3>2, <2>1 DEF IInv, TypeOK, SnapshotHolds
    <3>3. QED
      BY <3>1, <3>2
  <2>4. QED
    BY <2>1, <2>2, <2>3 DEF SnapshotHolds, ConflictIn, Conflicts
<1>4. ASSUME NEW r \in Requests,
             AbortTransaction(r) \/ Recheck(r) \/ ReservationError(r) \/ Operate(r)
      PROVE  SnapshotHolds'
  <2>1. Active' \subseteq Active /\ Rows' = Rows /\ UNCHANGED op
    BY <1>4, OnlyCommitAdds
  <2>2. /\ UNCHANGED seen
        /\ \A x \in Requests : pc'[x] = "inserting" => pc[x] = "inserting"
    BY <1>4 DEF IInv, TypeOK, AbortTransaction, Recheck, ReservationError, Operate,
                EnterStage, Complete, Throw, RecordFailure, Abandon,
                OperatorRelease, Goto
  <2>3. QED
    BY <2>1, <2>2 DEF IInv, SnapshotHolds, ConflictIn, Conflicts
<1>5. QED
  BY <1>1, <1>2, <1>3, <1>4 DEF Next, Reserve

LEMMA RowMatchesOwnerStep ==
  ASSUME IInv, [Next]_vars
  PROVE  RowMatchesOwner'
<1> USE DEF IInv, TypeOK, RowMatchesOwner, PCs, Unanswered, Owning, NoRow,
            Statuses, Goto, SetRun
<1>1. CASE UNCHANGED vars
  BY <1>1 DEF vars
<1>2. ASSUME NEW r \in Requests, Reserve(r) \/ ReservationError(r) PROVE RowMatchesOwner'
  BY <1>2 DEF Reserve, BeginTransaction, CommitTransaction, AbortTransaction,
              Recheck, ReservationError
<1>3. ASSUME NEW r \in Requests, Operate(r) PROVE RowMatchesOwner'
  BY <1>3 DEF Operate, EnterStage, Complete, Throw, RecordFailure, Abandon,
              OperatorRelease
<1>4. QED
  BY <1>1, <1>2, <1>3 DEF Next

(* The strengthened invariant is inductive.                                 *)
THEOREM Invariance == Spec => []IInv
<1>1. Init => IInv
  BY DEF Init, IInv, TypeOK, PCs, Unanswered, NoRow, MaxAttempts, RowMatchesOwner,
         SnapshotHolds, MutualExclusion, Rows, Active, Owning, ConflictIn
<1>2. IInv /\ [Next]_vars /\ TypeOK' => IInv'
  BY MutualExclusionStep, SnapshotHoldsStep, RowMatchesOwnerStep DEF IInv
<1>3. QED
  BY <1>1, <1>2, TypeCorrect, PTL DEF Spec

(* No two active runs exclude each other: at most one rebuild in the whole  *)
(* service, at most one sync of a wallet and chain, and no sync beside a    *)
(* rebuild of its own wallet and chain (reserveOperationRun).               *)
THEOREM Exclusion == Spec => []MutualExclusion
<1>1. IInv => MutualExclusion
  BY DEF IInv
<1>2. QED
  BY <1>1, Invariance, PTL

-----------------------------------------------------------------------------
(* Every behaviour of the row table is a behaviour of the ideal lock: a     *)
(* commit grants, the update to a terminal status releases, and every other *)
(* step is invisible.                                                       *)
THEOREM Refinement == Spec => ImplementsIdeal
<1>1. Init => Ideal!AbsInit
  BY DEF Init, Ideal!AbsInit, Operations, SyncLike, Ideal!Operations, Active, Rows,
         NoRow
<1>2. IInv /\ [Next]_vars => [Ideal!AbsNext]_(Ideal!absVars)
  <2> SUFFICES ASSUME IInv, [Next]_vars PROVE [Ideal!AbsNext]_(Ideal!absVars)
    OBVIOUS
  <2>1. CASE UNCHANGED vars
    BY <2>1 DEF vars, Ideal!absVars, Active, Rows
  <2>2. ASSUME NEW r \in Requests, CommitTransaction(r) PROVE Ideal!AbsNext
    <3>1. /\ r \notin Rows /\ UNCHANGED op
          /\ Active' = Active \cup {r} /\ Rows' = Rows \cup {r}
          /\ \A u \in Active : ~(Conflicts(r, u) /\ Conflicts(u, r))
      BY <2>2, CommitExcludesNone
    <3>2. Active \subseteq Rows
      BY DEF Active, Rows, NoRow
    <3>3. \A u \in Active : ~Ideal!Exclude(op[r], op[u])
      BY <3>1, ExcludeIsMutualConflict DEF IInv, Active
    <3>4. Ideal!Grant(r)
      BY <3>1, <3>2, <3>3 DEF Ideal!Grant
    <3>5. QED
      BY <3>4 DEF Ideal!AbsNext
  <2>3. ASSUME NEW r \in Requests,
               \/ BeginTransaction(r) \/ AbortTransaction(r) \/ Recheck(r)
               \/ ReservationError(r) \/ Operate(r)
        PROVE  [Ideal!AbsNext]_(Ideal!absVars)
    <3>1. /\ Rows' = Rows /\ UNCHANGED op
          /\ Active' = Active \/ (r \in Active /\ Active' = Active \ {r})
      BY <2>3, OnlyCommitAdds
    <3>2. Active \subseteq Rows
      BY DEF Active, Rows, NoRow
    <3>3. CASE Active' = Active
      BY <3>1, <3>3 DEF Ideal!absVars
    <3>4. CASE r \in Active /\ Active' = Active \ {r}
      BY <3>1, <3>2, <3>4 DEF Ideal!AbsNext, Ideal!Release
    <3>5. QED
      BY <3>1, <3>3, <3>4
  <2>4. QED
    BY <2>1, <2>2, <2>3 DEF Next, Reserve
<1>3. QED
  BY <1>1, <1>2, Invariance, PTL DEF Spec, ImplementsIdeal, Ideal!AbsSpec

-----------------------------------------------------------------------------
(* When the database's predicate locks cover the SyncRun table, as they do  *)
(* for a sequential scan, a sync is never admitted beside an active rebuild *)
(* of any wallet: what no two requests saw of each other is then nothing.   *)
THEOREM StrictAdmission == RelationLocks /\ Spec => NoSyncAdmittedDuringRebuild
<1> SUFFICES ASSUME RelationLocks PROVE Spec => NoSyncAdmittedDuringRebuild
  OBVIOUS
<1>1. ASSUME IInv, [Next]_vars,
             NEW r \in Requests, r \in Rows' \ Rows, op[r].trigger \in SyncLike,
             NEW u \in Active
      PROVE  op[u].trigger # "REBUILD"
  <2>1. CommitTransaction(r)
    <3>1. ASSUME NEW x \in Requests, CommitTransaction(x) PROVE x = r
      BY <1>1, <3>1, CommitExcludesNone
    <3>2. ~UNCHANGED vars
      BY <1>1 DEF vars, Rows
    <3>3. ASSUME NEW x \in Requests,
                 \/ BeginTransaction(x) \/ AbortTransaction(x) \/ Recheck(x)
                 \/ ReservationError(x) \/ Operate(x)
          PROVE  FALSE
      BY <1>1, <3>3, OnlyCommitAdds
    <3>4. QED
      BY <1>1, <3>1, <3>2, <3>3 DEF Next, Reserve
  <2>2. u \in Active \cap seen[r]
    BY <1>1, <2>1 DEF CommitTransaction, Unserializable, Unseen, Active, Rows, NoRow
  <2>3. ~Conflicts(r, u)
    BY <1>1, <2>1, <2>2 DEF IInv, SnapshotHolds, CommitTransaction, ConflictIn
  <2>4. QED
    BY <2>3 DEF Conflicts
<1>2. IInv /\ [Next]_vars
        => [\A r \in Requests :
              r \in Rows' \ Rows /\ op[r].trigger \in SyncLike
                => \A u \in Active : op[u].trigger # "REBUILD"]_vars
  BY <1>1
<1>3. QED
  BY <1>2, Invariance, PTL DEF Spec, NoSyncAdmittedDuringRebuild
=============================================================================
