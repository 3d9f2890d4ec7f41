------------------------ MODULE ExclusiveOperations ------------------------
(***************************************************************************)
(* What the operation lock promises, with no database in it: operations    *)
(* are granted and released one at a time, a grant never puts two          *)
(* operations that exclude each other side by side, and an operation that  *)
(* was released is never granted again.                                    *)
(***************************************************************************)
EXTENDS Naturals

CONSTANTS
  Requests,   \* the requests that may ask for an operation
  Scopes      \* the (wallet, chain) pairs an operation works on

VARIABLES
  op,         \* what each request asks for: its trigger and its scope
  active,     \* the requests whose operation is in progress
  ended       \* the requests whose operation is over

absVars == <<op, active, ended>>

Operations == [trigger : {"MANUAL", "IMPORT", "REBUILD"}, scope : Scopes]

(* Two operations exclude each other when both rebuild, or when they work   *)
(* on one scope.                                                           *)
Exclude(o1, o2) ==
  \/ o1.trigger = "REBUILD" /\ o2.trigger = "REBUILD"
  \/ o1.scope = o2.scope

AbsInit ==
  /\ op \in [Requests -> Operations]
  /\ active = {}
  /\ ended = {}

Grant(r) ==
  /\ r \notin active \cup ended
  /\ \A u \in active : ~Exclude(op[r], op[u])
  /\ active' = active \cup {r}
  /\ UNCHANGED <<op, ended>>

Release(r) ==
  /\ r \in active
  /\ active' = active \ {r}
  /\ ended' = ended \cup {r}
  /\ UNCHANGED op

AbsNext == \E r \in Requests : Grant(r) \/ Release(r)

AbsSpec == AbsInit /\ [][AbsNext]_absVars
=============================================================================
