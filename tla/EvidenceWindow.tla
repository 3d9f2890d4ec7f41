---------------------------- MODULE EvidenceWindow ----------------------------
(***************************************************************************)
(* scripts/evidence-directed-window-runner.ts: it fetches one window the   *)
(* operator names, which must be apart from what the cursors cover, so     *)
(* that the sync does not move them.  Of the four cursors it compares only *)
(* that of TRANSFERS is kept here: the others are treated alike.           *)
(***************************************************************************)
EXTENDS ForwardWindows

CONSTANTS
  FirstAllowed,   \* the first block that is not inherited history
  MaxSpan,        \* MANUAL_SYNC_MAX_BLOCK_SPAN
  Reasons,        \* what the operator may give as reason, which is the label
  Sought,         \* the windows the operator may name
  MaxProbes       \* how often it is invoked

ASSUME ProbeAssumption ==
  /\ FirstAllowed \in Nat /\ MaxSpan \in Nat /\ Reasons \subseteq Nat
  /\ Sought \subseteq [from : Nat, to : Nat] /\ MaxProbes \in Nat

VARIABLE probe

ProbeInit ==
  probe = [pc |-> "ended", execute |-> FALSE, before |-> cursor, window |-> NoWindow,
           run |-> 0, used |-> 0, reason |-> ""]

EndProbe(reason) == probe' = [probe EXCEPT !.pc = "ended", !.reason = reason]

(* buildPolicyLabel: the operator gives the reason, the script the prefix.  *)
ProbeLabel(why) == Label("probe", why, 0)

(* In order, short enough and not inherited.                                *)
InBounds(w) == w.from <= w.to /\ w.to - w.from <= MaxSpan /\ w.from >= FirstAllowed

InvokeProbe ==
  /\ probe.pc = "ended"
  /\ probe.used < MaxProbes
  /\ \E execute \in BOOLEAN, why \in Reasons, w \in Sought :
       probe' = [probe EXCEPT !.pc = "checking", !.execute = execute, !.used = @ + 1,
                   !.window = Request(ProbeLabel(why), w.from, w.to), !.reason = ""]
  /\ UNCHANGED <<around, recorded>>

(* The cursor is read before any other gate; a dry run reports it.          *)
CheckProbe ==
  /\ probe.pc = "checking"
  /\ IF InBounds(probe.window)
     THEN probe' = [probe EXCEPT !.before = cursor,
                      !.pc = IF probe.execute THEN "gating" ELSE "ended",
                      !.reason = IF probe.execute THEN "" ELSE "dry_run_reported"]
     ELSE EndProbe("window_refused")
  /\ UNCHANGED <<around, recorded>>

(* Mutated: a window right beside the covered one counts as apart.          *)
ApartFrom(w, c) == w.from > c.to \/ w.to < c.from

(* classifyCursorDisconnection, of the cursor as it was read                *)
Disconnected(w, c) == w.from > c.to + 1 \/ w.to + 1 < c.from

PassProbeGates ==
  /\ probe.pc = "gating"
  /\ IF /\ Disconnected(probe.window, probe.before)
        /\ ActiveRuns = {}
        /\ probe.window.label \notin Labels
     THEN probe' = [probe EXCEPT !.pc = "posting"]
     ELSE EndProbe("gate_failed")
  /\ UNCHANGED <<around, recorded>>

AttachProbe(r) == probe' = [probe EXCEPT !.pc = "polling", !.run = r]

PostProbe ==
  /\ probe.pc = "posting"
  /\ IF Free THEN Accept(probe.window) /\ AttachProbe(Len(runs) + 1)
             ELSE EndProbe("manual_sync_submit_failed") /\ UNCHANGED runs
  /\ UNCHANGED <<cursor, tainted, adrift, world, faults, recorded>>

PostProbeThrows ==
  /\ probe.pc = "posting"
  /\ Fault
  /\ \/ Free /\ Accept(probe.window) /\ UNCHANGED adrift
     \/ adrift' = adrift \cup {probe.window} /\ UNCHANGED runs
  /\ probe' = [probe EXCEPT !.pc = "reconciling"]
  /\ UNCHANGED <<cursor, tainted, world, recorded>>

Found(w) == {r \in RunIds : runs[r].label = w.label}

(* classifyAmbiguousSubmissionRecovery: the one run with the label, if it   *)
(* is a run of this window.                                                 *)
ReconcileProbe ==
  /\ probe.pc = "reconciling"
  /\ LET w == probe.window
     IN  \/ \E r \in RunIds : Found(w) = {r} /\ SameWindow(r, w) /\ AttachProbe(r)
         \/ /\ ~ \E r \in RunIds : Found(w) = {r} /\ SameWindow(r, w)
            /\ EndProbe("ambiguous_submission_unrecoverable")
  /\ UNCHANGED <<around, recorded>>

(* The cursors before and after are written down, and do not decide.        *)
ReportProbe ==
  /\ probe.pc = "polling"
  /\ Terminal(probe.run)
  /\ EndProbe(IF runs[probe.run].status = "COMPLETED" THEN "execute_completed"
                                                      ELSE "sync_run_not_completed")
  /\ UNCHANGED <<around, recorded>>

ProbePollTimeout ==
  /\ probe.pc = "polling"
  /\ ~Terminal(probe.run)
  /\ EndProbe("poll_timeout")
  /\ UNCHANGED <<around, recorded>>

ProbeFails ==
  /\ probe.pc # "ended"
  /\ Fault
  /\ EndProbe("error")
  /\ UNCHANGED <<rows, world, recorded>>

ProbeNext ==
  \/ InvokeProbe
  \/ CheckProbe
  \/ PassProbeGates
  \/ PostProbe
  \/ PostProbeThrows
  \/ ReconcileProbe
  \/ ReportProbe
  \/ ProbePollTimeout
  \/ ProbeFails
=============================================================================
