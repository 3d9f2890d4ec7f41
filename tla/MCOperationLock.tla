-------------------------- MODULE MCOperationLock --------------------------
(* The small instance of OperationLock that TLC checks.                     *)
EXTENDS OperationLock

(* Requests and scopes are numbers here.  Neither the specification nor any *)
(* property tells one of them from another, so one instance of each         *)
(* combination of operations will do: TLC's own symmetry would not be sound *)
(* for the liveness property.                                               *)
TriggerRank == [REBUILD |-> 0, MANUAL |-> 1, IMPORT |-> 2]
Rank(r)     == Cardinality(Scopes) * TriggerRank[op[r].trigger] + op[r].scope

Representative ==
  /\ \A r, u \in Requests : r < u => Rank(r) <= Rank(u)
  /\ \A r \in Requests : op[r].scope = 1 \/ \E u \in Requests : u < r /\ op[u].scope = 1

MCInit == Init /\ Representative

MCSpec == MCInit /\ [][Next]_vars /\ Fairness
=============================================================================
