----------------------------- MODULE WindowRunner -----------------------------
(***************************************************************************)
(* scripts/wallet-forward-sync-runner.ts: one invocation submits a few     *)
(* windows onwards from the cursor under a prefix of labels the operator   *)
(* chose, after repeating one window if asked to, or repeats that window   *)
(* and nothing else.  It numbers its windows from 1 in every invocation,   *)
(* and a request that throws ends it: it never looks for the run.          *)
(***************************************************************************)
EXTENDS ForwardWindows

CONSTANTS
  MaxBatch,     \* the windows of an invocation, at most 5 in the code
  Prefixes,     \* the label prefixes the operator may choose
  MaxBatches    \* how often it is invoked

ASSUME BatchAssumption ==
  MaxBatch \in Nat /\ Prefixes \subseteq Nat /\ MaxBatches \in Nat

VARIABLE batch

NoBatch == [execute |-> FALSE, anchor |-> 0, expected |-> 0, first |-> 0, max |-> 0,
            prefix |-> 0, source |-> 0, only |-> FALSE]

NewBatch(options, pc, used) ==
  [pc |-> pc, opt |-> options, used |-> used, recovering |-> FALSE, iteration |-> 0,
   expected |-> options.expected, sim |-> Nowhere, window |-> NoWindow, run |-> 0,
   clean |-> FALSE]

BatchInit == batch = NewBatch(NoBatch, "ended", 0)

(* The reason it prints is all an ended invocation leaves but the rows.     *)
EndBatch ==
  batch' = NewBatch(NoBatch, "ended", batch.used)

(* The operator names the cursor and the first window from the rows, or the *)
(* run to be repeated.                                                      *)
InvokeBatch ==
  /\ batch.pc = "ended"
  /\ batch.used < MaxBatches
  /\ \E execute, only \in BOOLEAN, prefix \in Prefixes, source \in RunIds \cup {0} :
       batch' = NewBatch(
         [execute |-> execute, anchor |-> cursor.from, expected |-> cursor.to,
          first |-> IF source = 0 THEN cursor.to + 1 ELSE runs[source].from,
          max |-> MaxBatch, prefix |-> prefix, source |-> source, only |-> only],
         "starting", batch.used + 1)
  /\ UNCHANGED <<around, recorded>>

(* Recovery only means nothing without a run to recover.                    *)
Begin ==
  /\ batch.pc = "starting"
  /\ IF batch.opt.only /\ batch.opt.source = 0
     THEN EndBatch  \* recovery_only_requires_recovery_mode
     ELSE batch' = [batch EXCEPT !.pc = IF batch.opt.source = 0 THEN "planning"
                                                                 ELSE "qualifying"]
  /\ UNCHANGED <<around, recorded>>

(* The run to be repeated ended at the frontier of the cursor, with benign  *)
(* warnings only.                                                           *)
QualifyBatch ==
  /\ batch.pc = "qualifying"
  /\ LET o   == batch.opt
         end == o.first + WindowSize - 1
     IN  IF /\ o.expected = end
            /\ CursorIs(o.anchor, o.expected)
            /\ RecoveryEligible(o.source, o.first, end)
         THEN batch' = [batch EXCEPT !.pc = "gating", !.recovering = TRUE,
                          !.window = Request(Label("recovery", o.source, o.prefix), o.first, end)]
         ELSE EndBatch  \* recovery_not_eligible
  /\ UNCHANGED <<around, recorded>>

(* Mutated: the cursor is not compared with what the last window left.      *)
PlanBatchAnywhere ==
  /\ batch.pc = "planning"
  /\ batch.iteration < batch.opt.max
  /\ LET o == batch.opt
         w == NextRange(cursor.to, Label("batch", o.prefix, batch.iteration + 1))
     IN  batch' = [batch EXCEPT !.pc = "gating", !.window = w]
  /\ UNCHANGED <<around, recorded>>

(* The cursor is where the last window left it, and the first window starts *)
(* where the operator said.  The labels are numbered from 1 again.          *)
PlanBatch ==
  /\ batch.pc = "planning"
  /\ batch.iteration < batch.opt.max
  /\ LET o     == batch.opt
         to    == IF batch.sim # Nowhere THEN batch.sim ELSE cursor.to
         w     == NextRange(to, Label("batch", o.prefix, batch.iteration + 1))
         first == IF o.source = 0 THEN o.first ELSE o.first + WindowSize
     IN  IF /\ CursorIs(o.anchor, batch.expected)
            /\ batch.iteration = 0 => w.from = first
         THEN batch' = [batch EXCEPT !.pc = "gating", !.window = w]
         ELSE EndBatch  \* window_not_expected
  /\ UNCHANGED <<around, recorded>>

PassBatchGates ==
  /\ batch.pc = "gating"
  /\ IF GatesClear(batch.window)
     THEN batch' = [batch EXCEPT !.pc = IF batch.opt.execute THEN "posting" ELSE "previewing"]
     ELSE EndBatch  \* gate_failed
  /\ UNCHANGED <<around, recorded>>

(* What follows the window that is to be repeated.                          *)
AfterRecovery ==
  IF batch.opt.only THEN EndBatch  \* recovery_only_completed
  ELSE batch' = [batch EXCEPT !.pc = "planning", !.recovering = FALSE]

PreviewBatch ==
  /\ batch.pc = "previewing"
  /\ IF batch.recovering THEN AfterRecovery
     ELSE batch' = [batch EXCEPT !.pc = "planning", !.iteration = @ + 1,
                                 !.sim = batch.window.to]
  /\ UNCHANGED <<around, recorded>>

PostBatch ==
  /\ batch.pc = "posting"
  /\ IF Free
     THEN /\ Accept(batch.window)
          /\ batch' = [batch EXCEPT !.pc = "polling", !.run = Len(runs) + 1]
     ELSE EndBatch /\ UNCHANGED runs  \* manual_sync_submit_failed
  /\ UNCHANGED <<cursor, tainted, adrift, world, faults, recorded>>

(* The request throws, and the invocation with it: the server has taken it, *)
(* or takes it later, or never.                                             *)
PostBatchThrows ==
  /\ batch.pc = "posting"
  /\ Fault
  /\ \/ Free /\ Accept(batch.window) /\ UNCHANGED adrift
     \/ adrift' = adrift \cup {batch.window} /\ UNCHANGED runs
  /\ EndBatch  \* error
  /\ UNCHANGED <<cursor, tainted, world, recorded>>

(* What the run left behind is as a repeated window, or an ordinary one,    *)
(* has to leave it.                                                         *)
RecoveredAsAsked ==
  RecoveryClean(batch.run, batch.window) /\ NothingAmiss(batch.opt.anchor, batch.window)

CompletedAsAsked ==
  WindowClean(batch.run, batch.window) /\ NothingAmiss(batch.opt.anchor, batch.window)

VerifyBatch ==
  /\ batch.pc = "polling"
  /\ Terminal(batch.run)
  /\ batch' = [batch EXCEPT !.pc = "recording",
                  !.clean = IF batch.recovering THEN RecoveredAsAsked ELSE CompletedAsAsked]
  /\ UNCHANGED <<around, recorded>>

BatchPollTimeout ==
  /\ batch.pc = "polling"
  /\ ~Terminal(batch.run)
  /\ EndBatch  \* poll_timeout
  /\ UNCHANGED <<around, recorded>>

RecordBatch ==
  /\ batch.pc = "recording"
  /\ IF ~batch.clean
     THEN EndBatch /\ UNCHANGED recorded  \* invariant_failed_after_run
     ELSE /\ recorded' = recorded \cup {batch.run}
          /\ IF batch.recovering THEN AfterRecovery
             ELSE batch' = [batch EXCEPT !.pc = "planning", !.iteration = @ + 1,
                                         !.expected = batch.window.to]
  /\ UNCHANGED around

FinishBatch ==
  /\ batch.pc = "planning"
  /\ batch.iteration = batch.opt.max
  /\ EndBatch  \* max_windows_reached
  /\ UNCHANGED <<around, recorded>>

(* The process dies, or a call it awaits throws.                            *)
BatchFails ==
  /\ batch.pc # "ended"
  /\ Fault
  /\ EndBatch  \* error
  /\ UNCHANGED <<rows, world, recorded>>

BatchNext ==
  \/ InvokeBatch
  \/ Begin
  \/ QualifyBatch
  \/ PlanBatch
  \/ PassBatchGates
  \/ PreviewBatch
  \/ PostBatch
  \/ PostBatchThrows
  \/ VerifyBatch
  \/ BatchPollTimeout
  \/ RecordBatch
  \/ FinishBatch
  \/ BatchFails

-----------------------------------------------------------------------------
(* When a window is requested every window before it, back to the block the *)
(* operator named, is complete in the evidence.                             *)
BatchLeavesNothingBehind ==
  batch.pc \in {"posting", "polling"} /\ ~batch.recovering =>
    \A b \in batch.opt.first .. batch.window.from - 1 :
      \E r \in recorded : b \in Range(runs[r])
=============================================================================
