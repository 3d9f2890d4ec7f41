-------------------------- MODULE ForwardSupervisor --------------------------
(***************************************************************************)
(* scripts/wallet-forward-supervisor.ts: it brings a wallet to a block the *)
(* operator authorized once, by running campaigns of a bounded number of   *)
(* windows as child processes, each planned from the cursor in the         *)
(* database, and it goes on only after a child that was clean in every     *)
(* respect.  The operator may invoke it again after any stop, and may run  *)
(* a campaign by hand to recover a window.                                 *)
(***************************************************************************)
EXTENDS ForwardCampaign

CONSTANTS
  Target,          \* --authorized-final-block
  MaxPerChild,     \* --campaign-max-windows
  Modes,           \* whether supervisors execute or preview
  MaxInvocations,  \* how often it is invoked
  OneLineSummary   \* whether a child prints its summary on one line

ASSUME SupervisorAssumption ==
  /\ Target \in Nat /\ MaxPerChild \in Nat \ {0} /\ MaxInvocations \in Nat
  /\ Modes \subseteq BOOLEAN /\ OneLineSummary \in BOOLEAN

VARIABLE sup

(* pc "idle", "starting", "deciding", "waiting", "summarizing" or "stopped";*)
(* number is that of the next child, child the campaign it waits for.       *)
SupervisorInit ==
  sup = [pc |-> "idle", execute |-> FALSE, base |-> "approved", number |-> 1, child |-> 0,
         before |-> cursor, sim |-> Nowhere, invocations |-> 0, reason |-> ""]

(* The place of an invocation that is over may be taken by the next one.    *)
Vacant == {c \in Campaigns : ~Alive(c)}
NextSlot == CHOOSE c \in Vacant : \A d \in Vacant : c <= d

Halted == sup.pc \in {"idle", "stopped"}

Halt(reason) ==
  sup' = [sup EXCEPT !.pc = "stopped", !.reason = reason, !.base = "approved",
                     !.before = cursor, !.sim = Nowhere, !.number = 1]

Invocation ==
  /\ Halted
  /\ sup.invocations < MaxInvocations
  /\ Vacant # {}
  /\ \E mode \in Modes :
       sup' = [sup EXCEPT !.pc = "starting", !.execute = mode, !.child = 0, !.sim = Nowhere,
                          !.invocations = @ + 1, !.reason = ""]
  /\ UNCHANGED <<around, camp, recorded>>

(* computeStartingChildCampaignNumber: past every child that ever produced  *)
(* a run.                                                                   *)
ChildNumbers == {runs[r].label.id : r \in {q \in RunIds : runs[q].label.kind = "child"}}
StartingNumber == 1 + CHOOSE n \in ChildNumbers \cup {0} : \A i \in ChildNumbers : i <= n

SupervisorStartUp ==
  /\ sup.pc = "starting"
  /\ IF world = "dirty" THEN Halt("working_tree_dirty")
     ELSE sup' = [sup EXCEPT !.pc = "deciding", !.base = world, !.number = StartingNumber]
  /\ UNCHANGED <<around, camp, recorded>>

PlanningTo == IF ~sup.execute /\ sup.sim # Nowhere THEN sup.sim ELSE cursor.to

Remaining == Target - PlanningTo

PlanInvalid == Remaining < 0 \/ Remaining % WindowSize # 0

(* Mutated: the bound of a child is dropped.                                *)
ChildToTarget == Remaining \div WindowSize

ChildWindows ==
  IF Remaining \div WindowSize < MaxPerChild THEN Remaining \div WindowSize ELSE MaxPerChild

ChildFinal == PlanningTo + ChildWindows * WindowSize

(* buildChildArgs: the child is held to the cursor its plan was made from.  *)
ChildOptions ==
  [execute |-> sup.execute, anchor |-> cursor.from, expected |-> PlanningTo,
   first |-> PlanningTo + 1, final |-> ChildFinal, max |-> ChildWindows,
   kind |-> "child", id |-> sup.number, source |-> 0]

(* Mutated: a completed run is enough.                                      *)
PriorCompleted ==
  \E r \in RunIds : runs[r].to = cursor.to /\ runs[r].status = "COMPLETED"

(* verifyPriorTerminalOperationClean: one run ended where the cursor stands, *)
(* and cleanly.                                                             *)
PriorClean ==
  \E r \in RunIds :
    /\ {q \in RunIds : runs[q].to = cursor.to} = {r}
    /\ runs[r].status = "COMPLETED"
    /\ WarningsClean(Row(r))

(* The checkout and the environment are those of the start, and what is     *)
(* left to the target is whole windows: the next child is started, or there *)
(* is none left to start.                                                   *)
Decide ==
  /\ sup.pc = "deciding"
  /\ IF world # sup.base THEN Halt("drift_detected") /\ UNCHANGED camp
     ELSE IF PlanInvalid THEN Halt("canonical_state_invalid") /\ UNCHANGED camp
     ELSE IF Remaining = 0
     THEN /\ IF cursor.from = cursor.to \/ PriorClean
             THEN sup' = [sup EXCEPT !.pc = "summarizing",
                            !.reason = "authorized_final_block_already_reached"]
             ELSE Halt("prior_terminal_operation_not_verified_clean")
          /\ UNCHANGED camp
     ELSE /\ Invoke(NextSlot, ChildOptions)
          /\ sup' = [sup EXCEPT !.pc = "waiting", !.child = NextSlot, !.before = cursor]
  /\ UNCHANGED <<around, recorded>>

Child == camp[sup.child]

(* verifyChildCleanResult: not killed, exit code 0, a summary in the last   *)
(* line of its output, and the number of windows it was asked for.          *)
ChildClean ==
  /\ Child.reason \in CleanStops
  /\ OneLineSummary
  /\ Child.completed = IF sup.execute THEN Child.opt.max ELSE 0
  /\ Child.last = Child.opt.max

(* The cursor moved to the boundary of the child, or for a dry run did not  *)
(* move at all.                                                             *)
CursorConfirms ==
  IF sup.execute THEN CursorIs(sup.before.from, Child.opt.final) ELSE cursor = sup.before

ReviewChild ==
  /\ sup.pc = "waiting"
  /\ Child.pc = "ended"
  /\ IF ~ChildClean
     THEN Halt("child_result_not_clean")
     ELSE IF ~CursorConfirms THEN Halt("canonical_cursor_mismatch_after_child")
     ELSE sup' = [sup EXCEPT
                    !.pc = IF Child.opt.final = Target THEN "summarizing" ELSE "deciding",
                    !.reason = IF Child.opt.final = Target
                               THEN "authorized_final_block_reached" ELSE @,
                    !.sim = IF sup.execute THEN @ ELSE Child.opt.final,
                    !.number = @ + 1]
  /\ UNCHANGED <<around, camp, recorded>>

SupervisorSummary ==
  /\ sup.pc = "summarizing"
  /\ Halt(sup.reason)
  /\ UNCHANGED <<around, camp, recorded>>

(* It is interrupted, killed, or stopped by a call that fails.  A child it  *)
(* leaves behind goes on.                                                   *)
SupervisorFails ==
  /\ ~Halted
  /\ Fault
  /\ Halt("error")
  /\ UNCHANGED <<rows, world, camp, recorded>>

(* An operator runs a campaign by hand: to the target, repeating first the  *)
(* window some run ended with.                                              *)
RecoverByHand ==
  /\ Halted
  /\ Vacant # {}
  /\ Fault
  /\ \E r \in RunIds, execute \in BOOLEAN :
       Invoke(NextSlot,
              [execute |-> execute, anchor |-> cursor.from, expected |-> cursor.to,
               first |-> runs[r].from, final |-> Target, max |-> MaxPerChild,
               kind |-> "hand", id |-> r, source |-> r])
  /\ UNCHANGED <<rows, world, recorded, sup>>

SupervisorStep ==
  \/ SupervisorStartUp
  \/ Decide
  \/ ReviewChild
  \/ SupervisorSummary

SupervisorNext ==
  \/ Invocation
  \/ SupervisorStep
  \/ SupervisorFails
  \/ RecoverByHand
  \/ CampaignNext /\ UNCHANGED sup

-----------------------------------------------------------------------------
(* Properties                                                               *)

InEvidence(from, to) ==
  from .. to \subseteq UNION {runs[r].from .. runs[r].to : r \in recorded}

(* When an invocation submits a window, every window before it, back to the *)
(* block the operator named, is complete in the evidence: whoever else      *)
(* syncs the wallet in between, it never leaves blocks it did not verify    *)
(* behind its back.                                                         *)
PredecessorsRecorded ==
  \A c \in Campaigns :
    camp[c].pc \in {"posting", "reconciling", "polling"} /\ ~camp[c].recovering =>
      InEvidence(camp[c].opt.first, camp[c].window.from - 1)

(* An executing invocation that ends cleanly has in evidence every block it *)
(* was asked for.                                                           *)
CleanStopIsComplete ==
  \A c \in Campaigns :
    LET o     == camp[c].opt
        asked == (IF o.source = 0 THEN o.first ELSE o.first + WindowSize)
                   + o.max * WindowSize - 1
    IN  camp[c].reason \in CleanStops /\ o.execute =>
          InEvidence(o.first, IF asked < o.final THEN asked ELSE o.final)

(* No more than Interval requests are made between two checkpoints that     *)
(* passed, the repeated window included: a checkout or an environment that  *)
(* changed is used for no longer than that.  Only when every window should  *)
(* be followed by a checkpoint is the repeated one, which is not, one more. *)
CheckpointSpacing ==
  \A c \in Campaigns :
    camp[c].unchecked <= IF Interval = 1 /\ Options(c).source # 0 THEN 2 ELSE Interval

(* A supervisor that executes and reports its target reached leaves a       *)
(* cursor that covers it, and a clean run that ended there.                 *)
TargetReachedCleanly ==
  sup.pc = "summarizing" /\ sup.execute =>
    /\ cursor.to >= Target
    /\ \/ Target = Frontier
       \/ \E r \in RunIds : /\ runs[r].to = Target
                            /\ runs[r].status = "COMPLETED"
                            /\ runs[r].report = <<>>

(* The comment of verifyChildCleanResult has the summary of a child in one  *)
(* line of its output: a child that did all it was asked and ended cleanly  *)
(* is accepted.                                                             *)
CleanChildAccepted ==
  sup.reason = "child_result_not_clean" => Child.reason \notin CleanStops
=============================================================================
