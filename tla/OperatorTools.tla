----------------------------- MODULE OperatorTools -----------------------------
(***************************************************************************)
(* The scripts an operator runs beside the server, each on the same rows,  *)
(* the same server and the same surroundings.  One of them is in use.      *)
(***************************************************************************)
EXTENDS ForwardSupervisor, WindowRunner, HistoryBackfill, EvidenceWindow

CONSTANT Tools

ASSUME ToolsAssumption == Tools \subseteq {"supervisor", "runner", "backfill", "evidence"}

VARIABLE tool   \* the script in use

scripts == <<camp, sup, batch, back, probe>>
vars    == <<around, recorded, scripts, tool>>

Init ==
  /\ tool \in Tools
  /\ RowsInit
  /\ CampaignInit
  /\ SupervisorInit
  /\ BatchInit
  /\ BackfillInit
  /\ ProbeInit

(* A sync that extends the cursor further back concerns the backfill alone: *)
(* the others refuse a cursor whose lower edge moved.                       *)
Next ==
  /\ \/ tool = "supervisor" /\ SupervisorNext /\ UNCHANGED <<batch, back, probe>>
     \/ tool = "runner" /\ BatchNext /\ UNCHANGED <<camp, sup, back, probe>>
     \/ tool = "backfill" /\ BackfillNext /\ UNCHANGED <<camp, sup, batch, probe>>
     \/ tool = "evidence" /\ ProbeNext /\ UNCHANGED <<camp, sup, batch, back>>
     \/ Surroundings /\ UNCHANGED <<recorded, scripts>>
     \/ tool = "backfill" /\ SyncFurtherBack /\ UNCHANGED <<recorded, scripts>>
  /\ UNCHANGED tool

Spec == Init /\ [][Next]_vars

-----------------------------------------------------------------------------
(* What the rows, the invocations and the supervisor range over.            *)
TypeOK ==
  /\ RowsTypeOK
  /\ \A c \in Campaigns :
       /\ camp[c].run \in 0 .. Len(runs)
       /\ camp[c].pc \in {"polling", "recording"} => camp[c].run \in RunIds
       /\ camp[c].iteration \in 0 .. MaxPerChild
       /\ camp[c].completed \in 0 .. MaxPerChild
       /\ camp[c].processed \in 0 .. MaxPerChild + 1
  /\ sup.pc \in {"idle", "starting", "deciding", "waiting", "summarizing", "stopped"}
  /\ sup.child \in Campaigns \cup {0}
  /\ sup.invocations \in 0 .. MaxInvocations
  /\ \A t \in {batch, back, probe} :
       t.run \in 0 .. Len(runs) /\ (t.pc = "polling" => t.run \in RunIds)
  /\ batch.iteration \in 0 .. MaxBatch /\ back.iteration \in 0 .. MaxBackfill

(* A run the evidence calls complete is: it ended COMPLETED, the cursor     *)
(* covers it, and what it warned of, if anything, was the one benign thing, *)
(* all of it, however much of it the row kept, and only for a window an     *)
(* operator had repeated.                                                   *)
RecordedIsClean ==
  \A r \in recorded :
    /\ runs[r].status = "COMPLETED"
    /\ runs[r].to <= cursor.to /\ cursor.from <= runs[r].from
    /\ \A i \in DOMAIN runs[r].report : runs[r].report[i] = Overlooked
    /\ runs[r].label.kind # "recovery" => runs[r].report = <<>>

(* The row of a run is judged benign only if every warning the run reported *)
(* was: truncating the row never hides another one.                         *)
EligibleMeansOverlooked ==
  \A r \in RunIds :
    WarningsEligible(Row(r)) =>
      /\ runs[r].report # <<>>
      /\ \A i \in DOMAIN runs[r].report : runs[r].report[i] = Overlooked

(* However many windows are fetched for evidence, in whatever order their   *)
(* requests arrive, the cursor does not move: only another client's sync    *)
(* can bring it to where such a window touches it.                          *)
EvidenceMovesNoCursor ==
  (\A r \in RunIds : runs[r].label.kind = "probe") => CursorIs(Anchor, Frontier)
=============================================================================
