--------------------------- MODULE ForwardCampaign ---------------------------
(***************************************************************************)
(* scripts/wallet-forward-campaign-runner.ts: one invocation submits a     *)
(* bounded number of windows one after another, each through every gate,   *)
(* the manual sync of the server, the verification of what it did and an   *)
(* append to the evidence file, with a checkpoint every few windows, and   *)
(* stops for good at the first thing that is not as expected.  In recovery *)
(* mode it first repeats one window whose run only had a benign warning.   *)
(*                                                                         *)
(* Several invocations may live at once: nothing stops an operator, and a  *)
(* child goes on when its supervisor dies.                                 *)
(***************************************************************************)
EXTENDS ForwardWindows

CONSTANTS
  Campaigns,   \* the invocations there may be
  Interval     \* the windows between two checkpoints, at most 25 in the code

ASSUME CampaignAssumption ==
  Campaigns \subseteq Nat /\ Interval \in Nat \ {0}

VARIABLE camp   \* each invocation of the script

NoOptions  == [execute |-> FALSE, anchor |-> 0, expected |-> 0, first |-> 0, final |-> 0,
               max |-> 0, kind |-> "none", id |-> 0, source |-> 0]

(* pc "unused", "ended", or the step it is at; base is the checkout it      *)
(* began from, sim the cursor a dry run imagines, unchecked counts the      *)
(* requests since the last checkpoint that passed.                          *)
NewCampaign(options, pc) ==
  [pc |-> pc, opt |-> options, base |-> "approved", recovering |-> FALSE,
   iteration |-> 0, processed |-> 0, completed |-> 0, last |-> 0,
   expected |-> options.expected, sim |-> Nowhere,
   window |-> NoWindow, run |-> 0, clean |-> FALSE, unchecked |-> 0, reason |-> ""]

CleanStops == {"max_windows_reached", "authorized_final_block_reached"}

Options(c) == camp[c].opt

(* A recovered window is not one of the ordinary ones.                      *)
FirstOrdinary(o) == IF o.source # 0 THEN o.first + WindowSize ELSE o.first

(* validateAuthorizedFinalBlockAlignment                                    *)
Aligned(o) ==
  /\ o.final >= FirstOrdinary(o)
  /\ (o.final - FirstOrdinary(o) + 1) % WindowSize = 0

(* Mutated: off by one.                                                     *)
WindowCountShort(o) == (o.final - FirstOrdinary(o)) \div WindowSize

WindowCount(o) == (o.final - FirstOrdinary(o) + 1) \div WindowSize

WindowLimit(o) == IF o.max <= WindowCount(o) THEN o.max ELSE WindowCount(o)

LogicalNumber(o, start) == (start - o.first) \div WindowSize + 1

CampaignInit == camp = [c \in Campaigns |-> NewCampaign(NoOptions, "unused")]

Invoke(c, options) == camp' = [camp EXCEPT ![c] = NewCampaign(options, "starting")]

(* Of an invocation that ended cleanly its caller sees the summary, of any  *)
(* other only that it did not.                                              *)
Stop(c, reason) ==
  camp' = [camp EXCEPT ![c] =
    IF reason \in CleanStops
    THEN [NewCampaign(@.opt, "ended") EXCEPT !.reason = reason, !.completed = camp[c].completed,
                                             !.last = camp[c].last]
    ELSE NewCampaign(NoOptions, "ended")]

Proceed(c, ok, step, reason) ==
  IF ok THEN camp' = [camp EXCEPT ![c].pc = step] ELSE Stop(c, reason)

(* The options are consistent and the tree is clean; health, wallet and the *)
(* first evidence are the failures of Fail.                                 *)
StartUp(c) ==
  /\ camp[c].pc = "starting"
  /\ IF Aligned(Options(c)) /\ world # "dirty"
     THEN camp' = [camp EXCEPT ![c].base = world,
                     ![c].pc = IF Options(c).source # 0 THEN "qualifying" ELSE "planning"]
     ELSE Stop(c, "startup_gate_failed")
  /\ UNCHANGED <<around, recorded>>

(* The run to be repeated must have ended at the frontier of the cursor,    *)
(* with benign warnings only.                                               *)
Qualify(c) ==
  /\ camp[c].pc = "qualifying"
  /\ LET o     == Options(c)
         end   == o.first + WindowSize - 1
         again == Request(Label("recovery", o.source, 0), o.first, end)
     IN  IF /\ o.expected = end
            /\ CursorIs(o.anchor, o.expected)
            /\ RecoveryEligible(o.source, o.first, end)
         THEN camp' = [camp EXCEPT ![c].pc = "gating", ![c].recovering = TRUE,
                                   ![c].window = again]
         ELSE Stop(c, "recovery_not_eligible")
  /\ UNCHANGED <<around, recorded>>

(* computeCampaignWindowPlan, for a cursor at "to".                          *)
WindowPlan(o, to) == NextRange(to, Label(o.kind, o.id, LogicalNumber(o, to + 1)))

(* validateWithinAuthorizedFinalBlock                                       *)
WithinFinalBlock(w, o) == w.to <= o.final

(* Mutated: wherever the cursor is.                                         *)
PlanFromCursor(c) ==
  /\ camp[c].pc = "planning"
  /\ camp[c].iteration < WindowLimit(Options(c))
  /\ LET o == Options(c)
         w == WindowPlan(o, cursor.to)
     IN  IF WithinFinalBlock(w, o)
         THEN camp' = [camp EXCEPT ![c].pc = "gating", ![c].window = w]
         ELSE Stop(c, "window_not_expected")
  /\ UNCHANGED <<around, recorded>>

(* The cursor is where the campaign left it, and the next window starts     *)
(* right after it, at the block the operator named when it is the first,    *)
(* and ends within what was authorized.                                     *)
PlanWindow(c) ==
  /\ camp[c].pc = "planning"
  /\ camp[c].iteration < WindowLimit(Options(c))
  /\ LET o  == Options(c)
         to == IF ~o.execute /\ camp[c].sim # Nowhere THEN camp[c].sim ELSE cursor.to
         w  == WindowPlan(o, to)
     IN  IF /\ CursorIs(o.anchor, camp[c].expected)
            /\ camp[c].iteration = 0 => w.from = FirstOrdinary(o)
            /\ WithinFinalBlock(w, o)
         THEN camp' = [camp EXCEPT ![c].pc = "gating", ![c].window = w]
         ELSE Stop(c, "window_not_expected")
  /\ UNCHANGED <<around, recorded>>

PassGates(c) ==
  /\ camp[c].pc = "gating"
  /\ Proceed(c, GatesClear(camp[c].window),
             IF Options(c).execute THEN "posting" ELSE "previewing", "gate_failed")
  /\ UNCHANGED <<around, recorded>>

(* A dry run records the window it would have submitted.                    *)
Preview(c) ==
  /\ camp[c].pc = "previewing"
  /\ camp' = IF camp[c].recovering
             THEN [camp EXCEPT ![c].pc = "planning", ![c].recovering = FALSE]
             ELSE [camp EXCEPT ![c].pc = "checkpoint", ![c].sim = camp[c].window.to,
                     ![c].last = camp[c].window.label.n, ![c].processed = @ + 1]
  /\ UNCHANGED <<around, recorded>>

Attach(c, r) == camp' = [camp EXCEPT ![c].pc = "polling", ![c].run = r,
                                     ![c].unchecked = IF camp[c].pc = "posting" THEN @ + 1 ELSE @]

(* POST /api/sync/manual: 202 with the run, or 409.                         *)
Post(c) ==
  /\ camp[c].pc = "posting"
  /\ \/ Free /\ Accept(camp[c].window) /\ Attach(c, Len(runs) + 1)
     \/ ~Free /\ Stop(c, "manual_sync_submit_failed") /\ UNCHANGED runs
  /\ UNCHANGED <<cursor, tainted, adrift, world, faults, recorded>>

(* The request times out: the server has already taken it, or takes it      *)
(* later, or never.                                                         *)
PostThrows(c) ==
  /\ camp[c].pc = "posting"
  /\ Fault
  /\ \/ Free /\ Accept(camp[c].window) /\ UNCHANGED adrift
     \/ adrift' = adrift \cup {camp[c].window} /\ UNCHANGED runs
  /\ camp' = [camp EXCEPT ![c].pc = "reconciling", ![c].unchecked = @ + 1]
  /\ UNCHANGED <<cursor, tainted, world, recorded>>

Candidates(w) == {r \in RunIds : runs[r].label = w.label}

(* classifyAmbiguousSubmissionRecovery: the one run with this label, if it  *)
(* is a run of this window; the request is never repeated.                  *)
Reconcile(c) ==
  /\ camp[c].pc = "reconciling"
  /\ LET w == camp[c].window
     IN  \/ \E r \in RunIds : /\ Candidates(w) = {r}
                              /\ SameWindow(r, w)
                              /\ Attach(c, r)
         \/ /\ ~ \E r \in RunIds : Candidates(w) = {r} /\ SameWindow(r, w)
            /\ Stop(c, "ambiguous_submission_unrecoverable")
  /\ UNCHANGED <<around, recorded>>

(* The run is terminal: it is verified, with the cursor and the raw rows.   *)
Verify(c) ==
  /\ camp[c].pc = "polling"
  /\ Terminal(camp[c].run)
  /\ LET w == camp[c].window
         r == camp[c].run
     IN  camp' = [camp EXCEPT ![c].pc = "recording",
                    ![c].clean = /\ IF camp[c].recovering THEN RecoveryClean(r, w)
                                                          ELSE WindowClean(r, w)
                                 /\ NothingAmiss(Options(c).anchor, w)]
  /\ UNCHANGED <<around, recorded>>

PollTimeout(c) ==
  /\ camp[c].pc = "polling"
  /\ ~Terminal(camp[c].run)
  /\ Stop(c, "poll_timeout")
  /\ UNCHANGED <<around, recorded>>

(* Mutated: the recovered window does not count.                            *)
RecordUncounted(c) ==
  /\ camp[c].pc = "recording"
  /\ IF camp[c].clean
     THEN /\ recorded' = recorded \cup {camp[c].run}
          /\ camp' = IF camp[c].recovering
                     THEN [camp EXCEPT ![c].pc = "planning", ![c].recovering = FALSE]
                     ELSE [camp EXCEPT ![c].pc = "checkpoint", ![c].completed = @ + 1,
                             ![c].last = camp[c].window.label.n,
                             ![c].expected = camp[c].window.to, ![c].processed = @ + 1]
     ELSE Stop(c, "invariant_failed_after_run") /\ UNCHANGED recorded
  /\ UNCHANGED around

(* The outcome is appended to the evidence.  A recovered window counts      *)
(* towards the next checkpoint and is not followed by one.                  *)
RecordWindow(c) ==
  /\ camp[c].pc = "recording"
  /\ IF camp[c].clean
     THEN /\ recorded' = recorded \cup {camp[c].run}
          /\ camp' = IF camp[c].recovering
                     THEN [camp EXCEPT ![c].pc = "planning", ![c].recovering = FALSE,
                                       ![c].processed = 1]
                     ELSE [camp EXCEPT ![c].pc = "checkpoint", ![c].completed = @ + 1,
                             ![c].last = camp[c].window.label.n,
                             ![c].expected = camp[c].window.to, ![c].processed = @ + 1]
     ELSE Stop(c, "invariant_failed_after_run") /\ UNCHANGED recorded
  /\ UNCHANGED around

CheckpointDue(c) == camp[c].processed % Interval = 0

(* evaluateCheckpoint: the checkout and the environment are those of the    *)
(* start, and the cursor is where the campaign left it.                     *)
CheckpointPasses(c) ==
  /\ world = camp[c].base
  /\ CursorIs(Options(c).anchor, camp[c].expected)
  /\ WithinFinalBlock(camp[c].window, Options(c))

Checkpoint(c) ==
  /\ camp[c].pc = "checkpoint"
  /\ IF CheckpointDue(c) /\ ~CheckpointPasses(c)
     THEN Stop(c, "checkpoint_failed")
     ELSE camp' = [camp EXCEPT ![c].pc = "planning", ![c].iteration = @ + 1,
                               ![c].unchecked = IF CheckpointDue(c) THEN 0 ELSE @]
  /\ UNCHANGED <<around, recorded>>

Summarize(c) ==
  /\ camp[c].pc = "planning"
  /\ camp[c].iteration = WindowLimit(Options(c))
  /\ Stop(c, IF Options(c).max <= WindowCount(Options(c))
             THEN "max_windows_reached" ELSE "authorized_final_block_reached")
  /\ UNCHANGED <<around, recorded>>

Alive(c) == camp[c].pc \notin {"unused", "ended"}

(* The process dies, or health, git, the database or the evidence file does *)
(* not answer: whatever the step was, it is not taken.                      *)
Fail(c) ==
  /\ Alive(c)
  /\ Fault
  /\ Stop(c, "failed")
  /\ UNCHANGED <<rows, world, recorded>>

Step(c) ==
  \/ StartUp(c)
  \/ Qualify(c)
  \/ PlanWindow(c)
  \/ PassGates(c)
  \/ Preview(c)
  \/ Post(c)
  \/ Reconcile(c)
  \/ Verify(c)
  \/ PollTimeout(c)
  \/ RecordWindow(c)
  \/ Checkpoint(c)
  \/ Summarize(c)

CampaignNext == \E c \in Campaigns : Step(c) \/ PostThrows(c) \/ Fail(c)
=============================================================================
