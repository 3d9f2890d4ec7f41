---------------------------- MODULE HistoryBackfill ----------------------------
(***************************************************************************)
(* scripts/transfer-backfill-runner.ts: it extends the TRANSFERS cursor    *)
(* downwards by windows of one grid, whose numbers are their labels, to    *)
(* the floor of the ordinary history, with a rebuild every few windows and *)
(* after the last one.  What it has done it knows from the cursor alone.   *)
(***************************************************************************)
EXTENDS ForwardWindows

CONSTANTS
  FirstActivity,     \* the first block with activity of the wallet
  FirstPostFork,     \* the first block that is not inherited history
  RebuildInterval,   \* CHECKPOINT_INTERVAL
  MaxBackfill,       \* the windows of an invocation, at most 25 in the code
  MaxBackfills,      \* how often it is invoked
  Expected           \* the warning every rebuild of a partial history has

(* The expected warning is a code of its own, not the mark of a cut list.   *)
ASSUME BackfillAssumption ==
  /\ FirstActivity \in Nat /\ FirstPostFork \in Nat
  /\ RebuildInterval \in Nat \ {0} /\ MaxBackfill \in Nat /\ MaxBackfills \in Nat
  /\ Expected # Marker

(* through is the numbers of the windows an invocation completed.           *)
VARIABLE back

(* ORDINARY_TRANSFERS_LOWER_BOUND_BLOCK                                     *)
Floor == IF FirstActivity > FirstPostFork THEN FirstActivity ELSE FirstPostFork

(* Mutated: the last window is forgotten unless it is a full one.           *)
TotalFullWindows == (Anchor - Floor) \div WindowSize

TotalWindows == (Anchor - Floor + WindowSize - 1) \div WindowSize

OnGrid(from) == from <= Anchor /\ (Anchor - from) % WindowSize = 0

NumberAt(from) == (Anchor - from) \div WindowSize + 1

(* computeWindowPlan: the window below this edge of the cursor.             *)
GridWindow(from) ==
  Request(Label("backfill", 0, NumberAt(from)),
          IF from - WindowSize < Floor THEN Floor ELSE from - WindowSize, from - 1)

(* validateForkBoundary, which does not rely on the floor                   *)
Inherited(w) == w.from < FirstPostFork

FinalDue(w) == w.label.n = TotalWindows
RebuildDue(w) == w.label.n % RebuildInterval = 0 \/ FinalDue(w)

(* verifySyncRunTerminalState, which does not look at the label             *)
BackfillClean(r, w) ==
  /\ runs[r].status = "COMPLETED"
  /\ runs[r].from = w.from /\ runs[r].to = w.to
  /\ Row(r).count = 0

(* Mutated: the final rebuild is judged as a checkpoint is.                 *)
RebuildTolerated(r, w) ==
  /\ runs[r].status = "COMPLETED"
  /\ \A i \in DOMAIN Row(r).details : Row(r).details[i] = Expected

(* A rebuild at a checkpoint may have the expected warnings and no others,  *)
(* the final one none at all; a list that was cut off ends with another.    *)
RebuildClean(r, w) ==
  /\ runs[r].status = "COMPLETED"
  /\ runs[r].from = w.from /\ runs[r].to = w.to
  /\ IF FinalDue(w) THEN Row(r).count = 0
     ELSE \A i \in DOMAIN Row(r).details : Row(r).details[i] = Expected

NewBackfill(execute, allow, expected, pc, used) ==
  [pc |-> pc, execute |-> execute, allow |-> allow, expected |-> expected, upper |-> Nowhere,
   start |-> Nowhere, used |-> used, iteration |-> 0, sim |-> Nowhere, window |-> NoWindow,
   run |-> 0, through |-> {}, reason |-> ""]

BackfillInit == back = NewBackfill(FALSE, FALSE, Nowhere, "ended", 0)

EndBackfill(reason) ==
  back' = [NewBackfill(FALSE, FALSE, Nowhere, "ended", back.used) EXCEPT !.reason = reason]

(* The operator may name the lower edge of the cursor.                      *)
InvokeBackfill ==
  /\ back.pc = "ended"
  /\ back.used < MaxBackfills
  /\ \E execute, allow \in BOOLEAN, expected \in {cursor.from, Nowhere} :
       back' = NewBackfill(execute, allow, expected, "planning", back.used + 1)
  /\ UNCHANGED <<around, recorded>>

(* The lower edge is the expected one and the upper edge has not moved      *)
(* since the first look.                                                    *)
CursorAsExpected ==
  /\ back.expected \in {Nowhere, cursor.from}
  /\ back.upper \in {Nowhere, cursor.to}

PlanBackfill ==
  /\ back.pc = "planning"
  /\ back.iteration < MaxBackfill
  /\ LET from == IF back.sim # Nowhere THEN back.sim ELSE cursor.from
         w    == GridWindow(from)
     IN  IF ~CursorAsExpected THEN EndBackfill("cursor_expectation_mismatch")
         ELSE IF from <= Floor THEN EndBackfill("campaign_complete")
         ELSE IF ~OnGrid(from) THEN EndBackfill("misaligned_cursor")
         ELSE IF Inherited(w) THEN EndBackfill("fork_boundary_violation")
         ELSE back' = [back EXCEPT !.pc = "gating", !.window = w, !.upper = cursor.to,
                         !.expected = cursor.from,
                         !.start = IF @ = Nowhere THEN cursor.from ELSE @]
  /\ UNCHANGED <<around, recorded>>

PassBackfillGates ==
  /\ back.pc = "gating"
  /\ IF GatesClear(back.window)
     THEN back' = [back EXCEPT !.pc = IF back.execute THEN "posting" ELSE "previewing"]
     ELSE EndBackfill("gate_failed")
  /\ UNCHANGED <<around, recorded>>

PreviewBackfill ==
  /\ back.pc = "previewing"
  /\ back' = [back EXCEPT !.pc = "planning", !.iteration = @ + 1, !.sim = back.window.from]
  /\ UNCHANGED <<around, recorded>>

(* POST /api/sync/manual for the window, POST /api/rebuild for the rebuild  *)
(* after it.                                                                *)
Ask(w, polling, reason) ==
  IF Free THEN Accept(w) /\ back' = [back EXCEPT !.pc = polling, !.run = Len(runs) + 1]
          ELSE EndBackfill(reason) /\ UNCHANGED runs

RebuildOf(w) == [w EXCEPT !.label.kind = "rebuild"]

PostBackfill ==
  /\ \/ /\ back.pc = "posting"
        /\ Ask(back.window, "polling", "manual_sync_submit_failed")
     \/ /\ back.pc = "rebuilding"
        /\ Ask(RebuildOf(back.window), "pollingRebuild", "active_operation_conflict_before_rebuild")
  /\ UNCHANGED <<cursor, tainted, adrift, world, faults, recorded>>

(* The request throws, and the invocation with it.                          *)
PostBackfillThrows ==
  /\ back.pc \in {"posting", "rebuilding"}
  /\ Fault
  /\ LET w == IF back.pc = "posting" THEN back.window ELSE RebuildOf(back.window)
     IN  \/ Free /\ Accept(w) /\ UNCHANGED adrift
         \/ adrift' = adrift \cup {w} /\ UNCHANGED runs
  /\ EndBackfill("error")
  /\ UNCHANGED <<cursor, tainted, world, recorded>>

BackfillPollTimeout ==
  /\ back.pc \in {"polling", "pollingRebuild"}
  /\ ~Terminal(back.run)
  /\ EndBackfill("poll_timeout")
  /\ UNCHANGED <<around, recorded>>

(* The run is as asked, the cursor moved down by the window and nowhere     *)
(* else, no fabricated transfer came in, and nothing is active.             *)
BackfilledAsAsked ==
  /\ BackfillClean(back.run, back.window)
  /\ CursorIs(back.window.from, back.upper)
  /\ tainted \cap Range(back.window) = {}
  /\ ActiveRuns = {}

(* The window is recorded, and a rebuild that is due is asked for or ends   *)
(* the invocation.                                                          *)
RecordBackfill ==
  /\ back.pc = "polling"
  /\ Terminal(back.run)
  /\ LET w == back.window
     IN  IF BackfilledAsAsked
         THEN /\ recorded' = recorded \cup {back.run}
              /\ IF RebuildDue(w) /\ ~back.allow THEN EndBackfill("stopped_before_rebuild")
                 ELSE back' = [back EXCEPT
                                 !.pc = IF RebuildDue(w) THEN "rebuilding" ELSE "planning",
                                 !.expected = w.from, !.through = @ \cup {w.label.n},
                                 !.iteration = IF RebuildDue(w) THEN @ ELSE @ + 1]
         ELSE EndBackfill("invariant_failed_after_run") /\ UNCHANGED recorded
  /\ UNCHANGED around

(* Mutated: the outcome of a rebuild is not looked at.                      *)
RecordAnyRebuild ==
  /\ back.pc = "pollingRebuild"
  /\ Terminal(back.run)
  /\ back' = [back EXCEPT !.pc = IF FinalDue(back.window) THEN "ended" ELSE "planning",
                !.iteration = @ + 1,
                !.reason = IF FinalDue(back.window)
                           THEN "campaign_complete_after_final_rebuild" ELSE @]
  /\ UNCHANGED <<around, recorded>>

RecordRebuild ==
  /\ back.pc = "pollingRebuild"
  /\ Terminal(back.run)
  /\ IF ~RebuildClean(back.run, back.window) THEN EndBackfill("rebuild_invariant_failed")
     ELSE IF FinalDue(back.window)
     THEN EndBackfill("campaign_complete_after_final_rebuild")
     ELSE back' = [back EXCEPT !.pc = "planning", !.iteration = @ + 1]
  /\ UNCHANGED <<around, recorded>>

FinishBackfill ==
  /\ back.pc = "planning"
  /\ back.iteration = MaxBackfill
  /\ EndBackfill("max_windows_reached")
  /\ UNCHANGED <<around, recorded>>

BackfillFails ==
  /\ back.pc # "ended"
  /\ Fault
  /\ EndBackfill("error")
  /\ UNCHANGED <<rows, world, recorded>>

BackfillNext ==
  \/ InvokeBackfill
  \/ PlanBackfill
  \/ PassBackfillGates
  \/ PreviewBackfill
  \/ PostBackfill
  \/ PostBackfillThrows
  \/ BackfillPollTimeout
  \/ RecordBackfill
  \/ RecordRebuild
  \/ FinishBackfill
  \/ BackfillFails

-----------------------------------------------------------------------------
(* An invocation that submits a window has completed every one it passed    *)
(* on its way down, and after each that asked for it a rebuild completed    *)
(* with no warning but the expected one.                                    *)
BackfillInTurn ==
  back.pc \in {"posting", "polling"} =>
    /\ \A b \in back.window.to + 1 .. back.start - 1 :
         \E r \in recorded : b \in Range(runs[r])
    /\ \A n \in back.through :
         n % RebuildInterval = 0 =>
           \E r \in RunIds : /\ runs[r].label = Label("rebuild", 0, n)
                             /\ runs[r].status = "COMPLETED"
                             /\ \A i \in DOMAIN runs[r].report : runs[r].report[i] = Expected

(* The history is reported complete only with the cursor at its floor and   *)
(* after a rebuild of the last window without any warning.                  *)
CompleteAfterFinalRebuild ==
  back.reason = "campaign_complete_after_final_rebuild" =>
    /\ cursor.from <= Floor
    /\ \E r \in RunIds : /\ runs[r].label = Label("rebuild", 0, TotalWindows)
                         /\ runs[r].status = "COMPLETED"
                         /\ runs[r].report = <<>>
=============================================================================
