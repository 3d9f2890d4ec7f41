---------------------------- MODULE ForwardProofs ----------------------------
(***************************************************************************)
(* Proofs about the operator scripts, for any windows, any number of       *)
(* invocations, runs and faults.                                           *)
(*                                                                         *)
(* RowsInv is what any row and the cursor always satisfy, EvidenceHolds    *)
(* what every run in evidence does.  What a script knows at each of its    *)
(* steps is CampaignHolds, BatchHolds, BackHolds and ProbeHolds: above all *)
(* that whatever comes before the window at hand is in evidence.  None of  *)
(* it is lost by what happens around a script: runs stay, a completed one  *)
(* unchanged, and the cursor only grows (Steady).                          *)
(*                                                                         *)
(* Three more invariants rest on these.  Spaced relates the requests since *)
(* the last checkpoint to the windows counted towards the next.  Ending    *)
(* and SupervisorKnows say where the last clean run of an invocation and   *)
(* of its supervisor ended.  AllTyped says what everything ranges over, of *)
(* the windows a script has planned and not yet requested too.             *)
(***************************************************************************)
EXTENDS OperatorTools, WellFoundedInduction, TLAPS

-----------------------------------------------------------------------------
(* The rows                                                                 *)

(* A run, whatever its label.                                               *)
RunRows(labels) ==
  [label : labels, from : Int, to : Int, status : {"PENDING", "COMPLETED", "FAILED"},
   live : BOOLEAN, report : Seq(Codes)]

(* A window of a probe is apart from the cursor there was at first, and only*)
(* the backfill asks for rebuilds.                                          *)
Outside(w) == w.from > Frontier + 1 \/ w.to + 1 < Anchor
Fits(w) ==
  /\ w.from \in Int /\ w.to \in Int
  /\ w.label.kind = "probe" => Outside(w)
  /\ w.label.kind = "rebuild" => tool = "backfill"

(* A completed run has no process any more.                                 *)
Settled(row) == row.status = "COMPLETED" => ~row.live

(* A completed sync extended the cursor, or was apart from it then: it does *)
(* not cross its lower edge and end at its upper one.                       *)
Placed(row) ==
  row.status = "COMPLETED" /\ row.label.kind # "rebuild" =>
    cursor.from <= row.from \/ row.to < cursor.to

CursorHolds ==
  /\ cursor \in [from : Int, to : Int]
  /\ cursor.from <= Anchor /\ Frontier <= cursor.to

RowsInv ==
  /\ \E labels : runs \in Seq(RunRows(labels))
  /\ \A r \in RunIds : Fits(runs[r]) /\ Settled(runs[r]) /\ Placed(runs[r])
  /\ \A w \in adrift : Fits(w)
  /\ CursorHolds
  /\ EvidenceMovesNoCursor

(* No run is lost or relabelled, a completed one stays as it is, and the    *)
(* cursor only grows.                                                       *)
Steady ==
  /\ RunIds \subseteq RunIds'
  /\ \A r \in RunIds :
       /\ runs'[r].label = runs[r].label
       /\ runs'[r].from = runs[r].from /\ runs'[r].to = runs[r].to
       /\ runs[r].status = "COMPLETED" => runs'[r] = runs[r]
  /\ cursor'.from <= cursor.from /\ cursor.to <= cursor'.to
  /\ tool' = tool

-----------------------------------------------------------------------------
LEMMA Naturals ==
  /\ WindowSize \in Nat \ {0} /\ Anchor \in Nat /\ Frontier \in Nat /\ Anchor <= Frontier
BY WindowsAssumption

LEMMA WiderSequences ==
  ASSUME NEW S, NEW T, S \subseteq T, NEW s \in Seq(S)
  PROVE  s \in Seq(T)
OBVIOUS

LEMMA NoReport == <<>> \in Seq(Codes)
OBVIOUS

LEMMA ReportsAreLists == Reports \cup Aftermath \cup {<<>>} \subseteq Seq(Codes)
BY WindowsAssumption, NoReport

LEMMA RunsTyped ==
  ASSUME RowsInv, NEW r \in RunIds
  PROVE  \E labels : runs[r] \in RunRows(labels)
BY DEF RowsInv, RunIds

LEMMA RowsUnchanged ==
  ASSUME RowsInv, UNCHANGED <<runs, cursor, tool>>, adrift' \subseteq adrift
  PROVE  RowsInv' /\ Steady
BY DEF RowsInv, Steady, RunIds, Fits, Outside, Settled, Placed, CursorHolds,
       EvidenceMovesNoCursor, CursorIs

(* A request is taken, or stays on its way, or is lost.                     *)
LEMMA RequestKeepsRows ==
  ASSUME RowsInv, NEW w, Fits(w), UNCHANGED <<cursor, tool>>,
         Accept(w) \/ UNCHANGED runs, adrift' \subseteq adrift \cup {w}
  PROVE  RowsInv' /\ Steady
<1>1. \A x : Fits(x) => Fits(x)'
  BY DEF Fits, Outside
<1>2. CASE UNCHANGED runs
  BY <1>1, <1>2 DEF RowsInv, Steady, RunIds, Settled, Placed, CursorHolds,
                    EvidenceMovesNoCursor, CursorIs
<1>3. CASE Accept(w)
  <2>1. PICK labels : runs \in Seq(RunRows(labels))
    BY DEF RowsInv
  <2> DEFINE more == labels \cup {w.label}
  <2>2. runs \in Seq(RunRows(more))
    <3>1. RunRows(labels) \subseteq RunRows(more)
      BY DEF RunRows
    <3> QED
      BY <2>1, <3>1, WiderSequences
  <2>3. NewRun(w) \in RunRows(more)
    <3>1. w.label \in more /\ w.from \in Int /\ w.to \in Int
      BY DEF Fits
    <3> HIDE DEF more
    <3> QED
      BY <3>1, NoReport DEF NewRun, RunRows
  <2>4. runs' = Append(runs, NewRun(w))
    BY <1>3 DEF Accept
  <2>5. runs' \in Seq(RunRows(more))
    BY <2>2, <2>3, <2>4
  <2>6. /\ RunIds' = RunIds \cup {Len(runs) + 1}
        /\ \A r \in RunIds : runs'[r] = runs[r]
        /\ runs'[Len(runs) + 1] = NewRun(w)
    BY <2>2, <2>3, <2>4 DEF RunIds
  <2>7. Fits(NewRun(w)) /\ Settled(NewRun(w)) /\ Placed(NewRun(w))
    BY DEF NewRun, Fits, Outside, Settled, Placed
  <2>8. \A r \in RunIds' : (Fits(runs[r]) /\ Settled(runs[r]) /\ Placed(runs[r]))'
    BY <2>6, <2>7, <1>1 DEF RowsInv, Fits, Outside, Settled, Placed
  <2>9. \A x \in adrift' : Fits(x)'
    BY <1>1 DEF RowsInv
  <2>10. EvidenceMovesNoCursor'
    BY <2>6 DEF RowsInv, EvidenceMovesNoCursor, CursorIs
  <2>11. CursorHolds' /\ Steady
    BY <2>6 DEF RowsInv, Steady, CursorHolds
  <2> QED
    BY <2>5, <2>8, <2>9, <2>10, <2>11 DEF RowsInv
<1> QED
  BY <1>2, <1>3

LEMMA ExtensionGrows ==
  ASSUME RowsInv, NEW r \in RunIds
  PROVE  /\ Extended(r) \in [from : Int, to : Int]
         /\ Extended(r).from <= cursor.from /\ cursor.to <= Extended(r).to
         /\ runs[r].label.kind # "rebuild" =>
              Extended(r).from <= runs[r].from \/ runs[r].to < Extended(r).to
         /\ Outside(runs[r]) /\ CursorIs(Anchor, Frontier) => Extended(r) = cursor
BY Naturals DEF RowsInv, Extended, Apart, Fits, Outside, CursorHolds, CursorIs

(* A process ends, and its cursor update has been made or not.              *)
LEMMA SettlingKeepsRows ==
  ASSUME RowsInv, NEW r \in RunIds, runs[r].live,
         NEW status \in {"COMPLETED", "FAILED"}, NEW report \in Seq(Codes),
         Settle(r, status, report),
         cursor' = Extended(r) \/ (status = "FAILED" /\ UNCHANGED cursor),
         UNCHANGED <<adrift, tool>>
  PROVE  RowsInv' /\ Steady
<1>1. PICK labels : runs \in Seq(RunRows(labels))
  BY DEF RowsInv
<1>2. runs[r] \in RunRows(labels)
  BY <1>1 DEF RunIds
<1> DEFINE row == [runs[r] EXCEPT !.status = status, !.report = report, !.live = FALSE]
<1>3. /\ row \in RunRows(labels) /\ row.status = status /\ ~row.live
      /\ row.label = runs[r].label /\ row.from = runs[r].from /\ row.to = runs[r].to
  BY <1>2 DEF RunRows
<1>4. runs' = [runs EXCEPT ![r] = row]
  BY <1>1 DEF Settle, RunIds
<1> HIDE DEF row
<1>5. runs' \in Seq(RunRows(labels))
  BY <1>1, <1>3, <1>4 DEF RunIds
<1>6. RunIds' = RunIds /\ runs'[r] = row /\ \A q \in RunIds \ {r} : runs'[q] = runs[q]
  BY <1>1, <1>4 DEF RunIds
<1>7. /\ cursor' \in [from : Int, to : Int]
      /\ cursor'.from <= cursor.from /\ cursor.to <= cursor'.to
  BY ExtensionGrows DEF RowsInv, CursorHolds
<1>8. CursorHolds'
  BY <1>7, Naturals DEF RowsInv, CursorHolds
<1>9. runs[r].status # "COMPLETED"
  BY DEF RowsInv, Settled
<1>10. Steady
  BY <1>6, <1>7, <1>9, <1>3 DEF Steady
<1>11. \A q \in RunIds : Fits(runs[q])' /\ Settled(runs[q])'
  BY <1>3, <1>6 DEF RowsInv, Fits, Outside, Settled
<1>12. \A q \in RunIds : Placed(runs[q])'
  <2>1. ASSUME NEW q \in RunIds \ {r} PROVE Placed(runs[q])'
    <3>1. runs'[q] = runs[q] /\ runs[q].from \in Int /\ runs[q].to \in Int
      BY <1>6 DEF RowsInv, Fits
    <3>2. cursor.from \in Int /\ cursor.to \in Int /\ cursor'.from \in Int /\ cursor'.to \in Int
      BY <1>7 DEF RowsInv, CursorHolds
    <3>3. Placed(runs[q])
      BY DEF RowsInv
    <3> QED
      BY <3>1, <3>2, <3>3, <1>7 DEF Placed
  <2>2. Placed(runs[r])'
    <3>1. CASE runs'[r].status = "COMPLETED"
      <4>1. cursor' = Extended(r)
        BY <3>1, <1>3, <1>6
      <4> QED
        BY <4>1, <1>3, <1>6, ExtensionGrows DEF Placed
    <3>2. CASE runs'[r].status # "COMPLETED"
      BY <3>2 DEF Placed
    <3> QED
      BY <3>1, <3>2
  <2> QED
    BY <2>1, <2>2
<1>13. \A w \in adrift' : Fits(w)'
  BY DEF RowsInv, Fits, Outside
<1>14. EvidenceMovesNoCursor'
  <2> SUFFICES ASSUME \A q \in RunIds : runs[q].label.kind = "probe"
               PROVE  CursorIs(Anchor, Frontier)'
    BY <1>3, <1>6 DEF EvidenceMovesNoCursor
  <2>1. CursorIs(Anchor, Frontier)
    BY DEF RowsInv, EvidenceMovesNoCursor
  <2>2. Outside(runs[r])
    BY DEF RowsInv, Fits
  <2> QED
    BY <2>1, <2>2, ExtensionGrows DEF CursorIs
<1> QED
  BY <1>5, <1>6, <1>8, <1>10, <1>11, <1>12, <1>13, <1>14 DEF RowsInv

LEMMA ReleaseKeepsRows ==
  ASSUME RowsInv, NEW r \in RunIds, ReleaseRun(r), UNCHANGED tool
  PROVE  RowsInv' /\ Steady
<1>1. PICK labels : runs \in Seq(RunRows(labels))
  BY DEF RowsInv
<1>2. runs[r] \in RunRows(labels)
  BY <1>1 DEF RunIds
<1> DEFINE row == [runs[r] EXCEPT !.status = "FAILED"]
<1>3. /\ row \in RunRows(labels) /\ row.status = "FAILED"
      /\ row.label = runs[r].label /\ row.from = runs[r].from /\ row.to = runs[r].to
  BY <1>2 DEF RunRows
<1>4. runs' = [runs EXCEPT ![r] = row] /\ runs[r].status # "COMPLETED"
  BY <1>1 DEF ReleaseRun, RunIds
<1> HIDE DEF row
<1>5. runs' \in Seq(RunRows(labels))
  BY <1>1, <1>3, <1>4 DEF RunIds
<1>6. RunIds' = RunIds /\ runs'[r] = row /\ \A q \in RunIds \ {r} : runs'[q] = runs[q]
  BY <1>1, <1>4 DEF RunIds
<1>7. UNCHANGED <<cursor, adrift>>
  BY DEF ReleaseRun
<1>8. Steady
  BY <1>3, <1>4, <1>6, <1>7 DEF Steady, RowsInv, CursorHolds
<1>9. \A q \in RunIds : (Fits(runs[q]) /\ Settled(runs[q]) /\ Placed(runs[q]))'
  BY <1>3, <1>6, <1>7 DEF RowsInv, Fits, Outside, Settled, Placed
<1>10. \A w \in adrift' : Fits(w)'
  BY <1>7 DEF RowsInv, Fits, Outside
<1>11. EvidenceMovesNoCursor' /\ CursorHolds'
  BY <1>3, <1>6, <1>7 DEF RowsInv, EvidenceMovesNoCursor, CursorIs, CursorHolds
<1> QED
  BY <1>5, <1>6, <1>8, <1>9, <1>10, <1>11 DEF RowsInv

LEMMA OthersKeepRows ==
  ASSUME RowsInv, NEW from, NEW to, OthersSync(from, to), UNCHANGED tool
  PROVE  RowsInv' /\ Steady
<1> DEFINE w == Request(Label("other", Len(runs), 0), from, to)
<1>1. Fits(w)
  BY Naturals DEF Fits, Request, Label, OthersSync
<1>2. Accept(w) /\ UNCHANGED <<cursor, adrift>>
  BY DEF OthersSync
<1> QED
  BY <1>1, <1>2, RequestKeepsRows

LEMMA SurroundingsKeepRows ==
  ASSUME RowsInv, Surroundings, UNCHANGED tool
  PROVE  RowsInv' /\ Steady
<1>1. ASSUME NEW r \in RunIds, CompleteRun(r)
      PROVE  RowsInv' /\ Steady
  BY <1>1, SettlingKeepsRows, ReportsAreLists DEF CompleteRun
<1>2. ASSUME NEW r \in RunIds, SpoilRun(r)
      PROVE  RowsInv' /\ Steady
  <2>1. PICK status \in {"COMPLETED", "FAILED"}, report \in Reports \cup Aftermath \cup {<<>>} :
          /\ Settle(r, status, report)
          /\ cursor' = Extended(r) \/ (status = "FAILED" /\ UNCHANGED cursor)
    BY <1>2 DEF SpoilRun
  <2> QED
    BY <1>2, <2>1, SettlingKeepsRows, ReportsAreLists DEF SpoilRun
<1>3. ASSUME NEW r \in RunIds, ReleaseRun(r)
      PROVE  RowsInv' /\ Steady
  BY <1>3, ReleaseKeepsRows
<1>4. ASSUME NEW w \in adrift, DeliverLate(w)
      PROVE  RowsInv' /\ Steady
  <2>1. Fits(w)
    BY DEF RowsInv
  <2> QED
    BY <1>4, <2>1, RequestKeepsRows DEF DeliverLate
<1>5. ASSUME SyncOnwards
      PROVE  RowsInv' /\ Steady
  BY <1>5, OthersKeepRows DEF SyncOnwards
<1>6. ASSUME Drift
      PROVE  RowsInv' /\ Steady
  BY <1>6, RowsUnchanged DEF Drift, rows
<1> QED
  BY <1>1, <1>2, <1>3, <1>4, <1>5, <1>6 DEF Surroundings

-----------------------------------------------------------------------------
(* Warnings and evidence                                                    *)

LEMMA CappedTellsAll ==
  ASSUME NEW s \in Seq(Codes)
  PROVE  /\ Capped(s).count = 0 => s = <<>>
         /\ WarningsEligible(Capped(s)) =>
              s # <<>> /\ \A i \in DOMAIN s : s[i] = Overlooked
<1>1. Capped(s).count = Len(s) /\ Capped(s).warnings = Kept(s)
      /\ Capped(s).truncated = Len(s) - Len(Kept(s))
  BY DEF Capped
<1>2. Len(Kept(s)) = Len(s) => Kept(s) = s
  BY WarningsAssumption DEF Kept
<1>3. Len(Kept(s)) \in Nat
  BY WarningsAssumption DEF Kept
<1>4. Len(s) = 0 => s = <<>>
  OBVIOUS
<1>5. ASSUME WarningsEligible(Capped(s))
      PROVE  s # <<>> /\ \A i \in DOMAIN s : s[i] = Overlooked
  <2>1. Kept(s) = s
    BY <1>1, <1>2, <1>3, <1>5 DEF WarningsEligible
  <2> QED
    BY <1>1, <1>5, <2>1 DEF WarningsEligible
<1> QED
  BY <1>1, <1>4, <1>5

LEMMA RowTellsAll ==
  ASSUME RowsInv, NEW r \in RunIds
  PROVE  /\ Row(r).count = 0 => runs[r].report = <<>>
         /\ WarningsEligible(Row(r)) =>
              /\ runs[r].report # <<>>
              /\ \A i \in DOMAIN runs[r].report : runs[r].report[i] = Overlooked
<1>1. runs[r].report \in Seq(Codes)
  BY RunsTyped DEF RunRows
<1> QED
  BY <1>1, CappedTellsAll DEF Row

(* What RecordedIsClean says of one run.                                    *)
Recordable(r) ==
  /\ r \in RunIds
  /\ runs[r].status = "COMPLETED"
  /\ runs[r].to <= cursor.to /\ cursor.from <= runs[r].from
  /\ \A i \in DOMAIN runs[r].report : runs[r].report[i] = Overlooked
  /\ runs[r].label.kind # "recovery" => runs[r].report = <<>>

EvidenceHolds == \A r \in recorded : Recordable(r)

LEMMA RecordableStays ==
  ASSUME RowsInv, RowsInv', Steady, NEW r, Recordable(r)
  PROVE  Recordable(r)'
BY DEF RowsInv, Steady, Recordable, CursorHolds, Fits

LEMMA EvidenceStays ==
  ASSUME RowsInv, RowsInv', Steady, EvidenceHolds, UNCHANGED recorded
  PROVE  EvidenceHolds'
BY RecordableStays DEF EvidenceHolds

LEMMA CompletedIsRecordable ==
  ASSUME RowsInv, NEW r \in RunIds, NEW w, NEW anchor, anchor <= w.from,
         \/ WindowClean(r, w)
         \/ RecoveryClean(r, w) /\ w.label.kind = "recovery",
         NothingAmiss(anchor, w)
  PROVE  Recordable(r) /\ SameWindow(r, w)
<1>1. runs[r].status = "COMPLETED" /\ SameWindow(r, w)
  BY DEF WindowClean, RecoveryClean
<1>2. runs[r].to <= cursor.to /\ cursor.from <= runs[r].from
  BY <1>1 DEF SameWindow, NothingAmiss, CursorIs, RowsInv, Fits
<1>3. CASE Row(r).count = 0
  BY <1>1, <1>2, <1>3, RowTellsAll DEF Recordable
<1>4. CASE Row(r).count # 0
  <2>1. WarningsEligible(Row(r)) /\ w.label.kind = "recovery"
    BY <1>4 DEF WindowClean, RecoveryClean, WarningsClean, WarningsRecovered
  <2> QED
    BY <1>1, <1>2, <2>1, RowTellsAll DEF Recordable, SameWindow
<1> QED
  BY <1>3, <1>4

-----------------------------------------------------------------------------
(* The campaigns                                                            *)

CampaignFields ==
  {"pc", "opt", "base", "recovering", "iteration", "processed", "completed", "last",
   "expected", "sim", "window", "run", "clean", "unchecked", "reason"}

CampaignsShaped ==
  /\ camp = [c \in Campaigns |-> camp[c]]
  /\ \A c \in Campaigns : camp[c] = [f \in CampaignFields |-> camp[c][f]]

Submitted == {"posting", "reconciling", "polling", "recording"}
Planned   == Submitted \cup {"gating", "previewing"}

(* Where the ordinary window of this iteration starts.                      *)
StartAt(o, i) == FirstOrdinary(o) + i * WindowSize

(* What a clean stop leaves in evidence.                                    *)
Asked(o) == (IF o.source = 0 THEN o.first ELSE o.first + WindowSize) + o.max * WindowSize - 1
Delivered(o) == InEvidence(o.first, IF Asked(o) < o.final THEN Asked(o) ELSE o.final)

OptionsHold(s) ==
  /\ s.opt.anchor \in Int /\ s.opt.expected \in Int /\ s.opt.max \in Int
  /\ s.opt.first \in Int /\ s.opt.final \in Int /\ s.opt.kind \in {"child", "hand"}
  /\ s.iteration \in Nat /\ s.expected \in Int
  /\ s.pc \notin {"unused", "starting", "ended"} => Aligned(s.opt)

WindowHolds(s) ==
  s.pc \in Planned =>
    /\ s.window.from \in Int /\ s.window.to = s.window.from + WindowSize - 1
    /\ s.opt.anchor <= s.window.from
    /\ s.window.label.kind \in {"child", "hand", "recovery"}

RecoveryHolds(s) ==
  /\ s.recovering => /\ s.pc \in Planned /\ s.iteration = 0 /\ s.opt.source # 0
                     /\ s.window.label.kind = "recovery" /\ s.window.from = s.opt.first
  /\ s.pc \in {"starting", "qualifying"} => ~s.recovering /\ s.iteration = 0
  /\ s.pc = "qualifying" => s.opt.source # 0

AttachedHolds(s) ==
  /\ s.pc \in {"polling", "recording"} => s.run \in RunIds
  /\ s.pc = "recording" /\ s.clean => Recordable(s.run) /\ SameWindow(s.run, s.window)

(* Whatever comes before the window at hand is in evidence.                 *)
CoverHolds(s) ==
  /\ s.pc = "planning" =>
       /\ InEvidence(s.opt.first, StartAt(s.opt, s.iteration) - 1)
       /\ s.iteration > 0 => s.expected = StartAt(s.opt, s.iteration) - 1
  /\ s.pc \in Planned /\ ~s.recovering =>
       /\ InEvidence(s.opt.first, s.window.from - 1)
       /\ s.window.from = StartAt(s.opt, s.iteration)
  /\ s.pc = "checkpoint" =>
       /\ InEvidence(s.opt.first, s.expected)
       /\ s.expected = StartAt(s.opt, s.iteration + 1) - 1
  /\ s.reason \in CleanStops => Delivered(s.opt)

(* A preview submits nothing; of an invocation that executes all this holds.*)
CampaignHolds(s) ==
  /\ s.pc \in Submitted => s.opt.execute
  /\ s.pc = "previewing" => ~s.opt.execute
  /\ s.reason \in CleanStops => s.pc = "ended"
  /\ s.opt.execute =>
       /\ OptionsHold(s) /\ WindowHolds(s) /\ RecoveryHolds(s)
       /\ AttachedHolds(s) /\ CoverHolds(s)

CampaignsHold == CampaignsShaped /\ \A c \in Campaigns : CampaignHolds(camp[c])

LEMMA InEvidenceStays ==
  ASSUME Steady, EvidenceHolds, recorded \subseteq recorded',
         NEW from, NEW to, InEvidence(from, to)
  PROVE  InEvidence(from, to)'
BY DEF Steady, EvidenceHolds, Recordable, InEvidence

LEMMA CampaignStays ==
  ASSUME RowsInv, RowsInv', Steady, EvidenceHolds, recorded \subseteq recorded',
         NEW c \in Campaigns, camp'[c] = camp[c], CampaignHolds(camp[c])
  PROVE  CampaignHolds(camp[c])'
<1> DEFINE s == camp[c]
<1>1. OptionsHold(s)' <=> OptionsHold(s)
  BY DEF OptionsHold, Aligned, FirstOrdinary
<1>2. WindowHolds(s)' <=> WindowHolds(s)
  BY DEF WindowHolds
<1>3. RecoveryHolds(s)' <=> RecoveryHolds(s)
  BY DEF RecoveryHolds
<1>4. AttachedHolds(s) => AttachedHolds(s)'
  <2>1. RunIds \subseteq RunIds'
    BY DEF Steady
  <2>2. Recordable(s.run) /\ SameWindow(s.run, s.window) =>
          Recordable(s.run)' /\ SameWindow(s.run, s.window)'
    <3>1. Recordable(s.run) => Recordable(s.run)'
      <4> DEFINE r == s.run
      <4>1. s.run' = s.run
        OBVIOUS
      <4> QED
        BY <4>1, RecordableStays DEF Recordable
    <3> QED
      BY <3>1 DEF SameWindow, Steady, Recordable
  <2> QED
    BY <2>1, <2>2 DEF AttachedHolds
<1>5. CoverHolds(s) => CoverHolds(s)'
  BY InEvidenceStays DEF CoverHolds, Delivered, Asked, StartAt, FirstOrdinary
<1> QED
  BY <1>1, <1>2, <1>3, <1>4, <1>5 DEF CampaignHolds

(* Everything but the step itself: the rows and the evidence are as they    *)
(* have to be, and the other invocations stay as they are.                  *)
Before == RowsInv /\ EvidenceHolds /\ CampaignsHold

LEMMA OneCampaignSteps ==
  ASSUME Before, RowsInv', Steady, recorded \subseteq recorded', NEW c \in Campaigns,
         CampaignsShaped', \A d \in Campaigns \ {c} : camp'[d] = camp[d],
         CampaignHolds(camp[c])'
  PROVE  CampaignsHold'
BY CampaignStays DEF Before, CampaignsHold

LEMMA NewCampaignFields ==
  ASSUME CampaignsShaped, NEW c \in Campaigns, NEW options, NEW pc,
         camp' = [camp EXCEPT ![c] = NewCampaign(options, pc)]
  PROVE  /\ camp'[c].pc = pc /\ camp'[c].opt = options /\ camp'[c].expected = options.expected
         /\ camp'[c].recovering = FALSE /\ camp'[c].iteration = 0 /\ camp'[c].reason = ""
<1>1. c \in DOMAIN camp
  BY DEF CampaignsShaped
<1>2. camp'[c].pc = pc /\ camp'[c].reason = ""
  BY <1>1 DEF NewCampaign
<1>3. camp'[c].opt = options
  BY <1>1 DEF NewCampaign
<1>4. camp'[c].expected = options.expected
  BY <1>1 DEF NewCampaign
<1>5. camp'[c].recovering = FALSE
  BY <1>1 DEF NewCampaign
<1>6. camp'[c].iteration = 0
  BY <1>1 DEF NewCampaign
<1> QED
  BY <1>2, <1>3, <1>4, <1>5, <1>6

LEMMA NewCampaignHolds ==
  ASSUME Before, RowsInv', Steady, recorded \subseteq recorded', NEW c \in Campaigns,
         NEW options, NEW pc,
         camp' = [camp EXCEPT ![c] = NewCampaign(options, pc)],
         pc \in {"starting", "ended"},
         options.execute =>
           /\ options.anchor \in Int /\ options.expected \in Int /\ options.max \in Int
           /\ options.first \in Int /\ options.final \in Int
           /\ options.kind \in {"child", "hand"}
  PROVE  CampaignsHold'
<1>1. CampaignsShaped' /\ \A d \in Campaigns \ {c} : camp'[d] = camp[d]
  BY DEF Before, CampaignsHold, CampaignsShaped, CampaignFields, NewCampaign
<1>2. /\ camp'[c].pc = pc /\ camp'[c].opt = options /\ camp'[c].expected = options.expected
      /\ camp'[c].recovering = FALSE /\ camp'[c].iteration = 0 /\ camp'[c].reason = ""
  BY NewCampaignFields DEF Before, CampaignsHold
<1>3. /\ pc \notin Planned
      /\ pc \notin {"planning", "checkpoint", "qualifying", "polling", "recording"}
      /\ "" \notin CleanStops
  BY DEF Planned, Submitted, CleanStops
<1> DEFINE s == camp'[c]
<1>4. /\ s.pc = pc /\ s.opt = options /\ s.expected = options.expected
      /\ s.recovering = FALSE /\ s.iteration = 0 /\ s.reason = ""
  BY <1>2
<1> HIDE DEF s
<1>5. camp'[c] = s
  BY DEF s
<1>6. CampaignHolds(camp[c])'
  <2>1. s.pc \notin Submitted /\ s.reason \notin CleanStops
    BY <1>3, <1>4 DEF Planned
  <2>2. ASSUME s.opt.execute
        PROVE  OptionsHold(s)
    <3>1. s.pc \notin {"unused", "starting", "ended"} => Aligned(s.opt)
      BY <1>4
    <3>2. 0 \in Nat
      OBVIOUS
    <3> QED
      BY <3>1, <3>2, <2>2, <1>4 DEF OptionsHold
  <2>3. OptionsHold(camp[c])' <=> OptionsHold(s)
    BY <1>5 DEF OptionsHold, Aligned, FirstOrdinary
  <2>4. WindowHolds(camp[c])' /\ AttachedHolds(camp[c])'
    BY <1>3, <1>4, <1>5 DEF WindowHolds, AttachedHolds
  <2>5. RecoveryHolds(camp[c])'
    BY <1>3, <1>4, <1>5 DEF RecoveryHolds
  <2>6. CoverHolds(camp[c])'
    BY <1>3, <1>4, <1>5, <2>1 DEF CoverHolds
  <2> QED
    BY <2>1, <2>2, <2>3, <2>4, <2>5, <2>6, <1>4, <1>5 DEF CampaignHolds
<1> QED
  BY <1>1, <1>6, OneCampaignSteps

(* An invocation ends without a summary.                                    *)
LEMMA StopHolds ==
  ASSUME Before, RowsInv', Steady, recorded \subseteq recorded', NEW c \in Campaigns,
         NEW reason, reason \notin CleanStops, Stop(c, reason)
  PROVE  CampaignsHold'
BY NewCampaignHolds DEF Stop, NoOptions

(* Nothing changes but the invocation.                                      *)
LEMMA QuietStep ==
  ASSUME Before, UNCHANGED <<around, recorded, tool>>
  PROVE  RowsInv' /\ Steady /\ recorded \subseteq recorded' /\ EvidenceHolds'
BY RowsUnchanged, EvidenceStays DEF Before, around, rows

LEMMA StartUpHolds ==
  ASSUME Before, NEW c \in Campaigns, StartUp(c), UNCHANGED tool
  PROVE  CampaignsHold'
<1>1. RowsInv' /\ Steady /\ recorded \subseteq recorded'
  BY QuietStep DEF StartUp
<1>2. CASE Aligned(Options(c)) /\ world # "dirty"
  <2> DEFINE pc == IF Options(c).source # 0 THEN "qualifying" ELSE "planning"
  <2>1. camp' = [camp EXCEPT ![c].base = world, ![c].pc = pc]
    BY <1>2 DEF StartUp
  <2>2. /\ CampaignsShaped' /\ \A d \in Campaigns \ {c} : camp'[d] = camp[d]
        /\ camp'[c] = [camp[c] EXCEPT !.base = world, !.pc = pc]
    BY <2>1 DEF Before, CampaignsHold, CampaignsShaped, CampaignFields
  <2>3. CampaignHolds(camp[c]) /\ camp[c].pc = "starting"
    BY DEF StartUp, Before, CampaignsHold
  <2>4. /\ camp'[c].pc = pc /\ camp'[c].opt = camp[c].opt
        /\ camp'[c].recovering = camp[c].recovering
        /\ camp'[c].iteration = camp[c].iteration
        /\ camp'[c].expected = camp[c].expected /\ camp'[c].reason = camp[c].reason
    BY <2>2 DEF Before, CampaignsHold, CampaignsShaped, CampaignFields
  <2> QED
    <3>1. camp[c].reason \notin CleanStops
      BY <2>3 DEF CampaignHolds
    <3>2. ASSUME camp[c].opt.execute
          PROVE  (OptionsHold(camp[c]) /\ WindowHolds(camp[c]) /\ RecoveryHolds(camp[c])
                   /\ AttachedHolds(camp[c]))'
      BY <3>2, <2>3, <2>4, <1>2
         DEF CampaignHolds, OptionsHold, WindowHolds, RecoveryHolds, AttachedHolds,
             Options, Aligned, FirstOrdinary, Planned, Submitted
    <3>3. ASSUME camp[c].opt.execute
          PROVE  CoverHolds(camp[c])'
      BY <3>1, <3>3, <2>3, <2>4, Naturals
         DEF CampaignHolds, OptionsHold, RecoveryHolds, CoverHolds, StartAt, FirstOrdinary,
             Options, InEvidence, Planned, Submitted
    <3>4. CampaignHolds(camp[c])'
      BY <3>1, <3>2, <3>3, <2>4 DEF CampaignHolds, Submitted
    <3> QED
      BY <1>1, <2>2, <3>4, OneCampaignSteps
<1>3. CASE ~(Aligned(Options(c)) /\ world # "dirty")
  BY <1>1, <1>3, StopHolds DEF StartUp, CleanStops
<1> QED
  BY <1>2, <1>3


(* An invocation is replaced by another that is a record of the same fields.*)
LEMMA Replaced ==
  ASSUME CampaignsShaped, NEW c \in Campaigns, NEW t, t = [f \in CampaignFields |-> t[f]],
         camp' = [camp EXCEPT ![c] = t]
  PROVE  CampaignsShaped' /\ camp'[c] = t /\ \A d \in Campaigns \ {c} : camp'[d] = camp[d]
BY DEF CampaignsShaped

(* A step that keeps to the window at hand.                                 *)
LEMMA PlannedHolds ==
  ASSUME Before, RowsInv', Steady, recorded \subseteq recorded', NEW c \in Campaigns,
         CampaignsShaped', \A d \in Campaigns \ {c} : camp'[d] = camp[d],
         camp[c].pc \in Planned, camp'[c].pc \in Planned,
         camp'[c].opt = camp[c].opt, camp'[c].window = camp[c].window,
         camp'[c].recovering = camp[c].recovering, camp'[c].iteration = camp[c].iteration,
         camp'[c].expected = camp[c].expected, camp'[c].reason = camp[c].reason,
         camp'[c].pc \in Submitted => camp[c].opt.execute,
         camp'[c].pc = "previewing" => ~camp[c].opt.execute,
         camp[c].opt.execute => AttachedHolds(camp[c])'
  PROVE  CampaignsHold'
<1>1. CampaignHolds(camp[c])
  BY DEF Before, CampaignsHold
<1>2. Planned \cap {"unused", "starting", "ended", "planning", "qualifying", "checkpoint"} = {}
  BY DEF Planned, Submitted
<1>3. camp[c].reason \notin CleanStops
  BY <1>1, <1>2 DEF CampaignHolds
<1>4. ASSUME camp[c].opt.execute
      PROVE  /\ OptionsHold(camp[c])' /\ WindowHolds(camp[c])'
             /\ RecoveryHolds(camp[c])' /\ CoverHolds(camp[c])'
  <2>1. OptionsHold(camp[c])'
    BY <1>1, <1>2, <1>4 DEF CampaignHolds, OptionsHold, Aligned, FirstOrdinary
  <2>2. WindowHolds(camp[c])'
    BY <1>1, <1>2, <1>4 DEF CampaignHolds, WindowHolds
  <2>3. RecoveryHolds(camp[c])'
    BY <1>1, <1>2, <1>4 DEF CampaignHolds, RecoveryHolds
  <2>4. CoverHolds(camp[c])'
    <3>1. CASE camp[c].recovering
      BY <3>1, <1>2, <1>3 DEF CoverHolds
    <3>2. CASE ~camp[c].recovering
      <4>1. /\ InEvidence(camp[c].opt.first, camp[c].window.from - 1)
            /\ camp[c].window.from = StartAt(camp[c].opt, camp[c].iteration)
        BY <3>2, <1>1, <1>4 DEF CampaignHolds, CoverHolds
      <4>2. InEvidence(camp[c].opt.first, camp[c].window.from - 1)'
        BY <4>1, InEvidenceStays DEF Before
      <4> QED
        BY <4>1, <4>2, <1>2, <1>3 DEF CoverHolds, StartAt, FirstOrdinary
    <3> QED
      BY <3>1, <3>2
  <2> QED
    BY <2>1, <2>2, <2>3, <2>4
<1>5. CampaignHolds(camp[c])'
  BY <1>1, <1>3, <1>4 DEF CampaignHolds
<1> QED
  BY <1>5, OneCampaignSteps

LEMMA PassGatesHolds ==
  ASSUME Before, NEW c \in Campaigns, PassGates(c), UNCHANGED tool
  PROVE  CampaignsHold'
<1>1. RowsInv' /\ Steady /\ recorded \subseteq recorded'
  BY QuietStep DEF PassGates
<1> DEFINE pc == IF Options(c).execute THEN "posting" ELSE "previewing"
<1>2. CASE camp' = [camp EXCEPT ![c].pc = pc]
  <2>1. /\ CampaignsShaped' /\ \A d \in Campaigns \ {c} : camp'[d] = camp[d]
        /\ camp'[c].pc = pc /\ camp'[c].opt = camp[c].opt
        /\ camp'[c].window = camp[c].window /\ camp'[c].recovering = camp[c].recovering
        /\ camp'[c].iteration = camp[c].iteration /\ camp'[c].expected = camp[c].expected
        /\ camp'[c].reason = camp[c].reason
    BY <1>2 DEF Before, CampaignsHold, CampaignsShaped, CampaignFields
  <2>2. camp[c].pc \in Planned /\ pc \in Planned
    BY DEF PassGates, Planned, Submitted
  <2>3. /\ pc \in Submitted => camp[c].opt.execute
        /\ pc = "previewing" => ~camp[c].opt.execute
    BY DEF Options, Submitted
  <2>4. AttachedHolds(camp[c])'
    BY <2>1 DEF AttachedHolds
  <2> HIDE DEF pc
  <2> QED
    BY <1>1, <2>1, <2>2, <2>3, <2>4, PlannedHolds
<1>3. CASE Stop(c, "gate_failed")
  BY <1>1, <1>3, StopHolds DEF CleanStops
<1> QED
  BY <1>2, <1>3 DEF PassGates, Proceed

(* What is submitted can be a run.                                          *)
LEMMA SubmittedFits ==
  ASSUME CampaignsHold, NEW c \in Campaigns, camp[c].pc \in Submitted
  PROVE  camp[c].opt.execute /\ Fits(camp[c].window)
<1>1. /\ camp[c].opt.execute
      /\ camp[c].window.from \in Int /\ camp[c].window.to = camp[c].window.from + WindowSize - 1
      /\ camp[c].window.label.kind \in {"child", "hand", "recovery"}
  BY DEF CampaignsHold, CampaignHolds, WindowHolds, Planned
<1> QED
  BY <1>1, Naturals DEF Fits

LEMMA AttachHolds ==
  ASSUME Before, RowsInv', Steady, recorded \subseteq recorded', NEW c \in Campaigns,
         camp[c].pc \in {"posting", "reconciling"}, NEW r \in RunIds', Attach(c, r)
  PROVE  CampaignsHold'
<1>1. /\ CampaignsShaped' /\ \A d \in Campaigns \ {c} : camp'[d] = camp[d]
      /\ camp'[c].pc = "polling" /\ camp'[c].run = r /\ camp'[c].opt = camp[c].opt
      /\ camp'[c].window = camp[c].window /\ camp'[c].recovering = camp[c].recovering
      /\ camp'[c].iteration = camp[c].iteration /\ camp'[c].expected = camp[c].expected
      /\ camp'[c].reason = camp[c].reason
  <2> DEFINE n == IF camp[c].pc = "posting" THEN camp[c].unchecked + 1 ELSE camp[c].unchecked
             t == [camp[c] EXCEPT !.pc = "polling", !.run = r, !.unchecked = n]
  <2> HIDE DEF n
  <2>1. camp[c] = [f \in CampaignFields |-> camp[c][f]] /\ CampaignsShaped
    BY DEF Before, CampaignsHold, CampaignsShaped
  <2>2. /\ t = [f \in CampaignFields |-> t[f]]
        /\ t.pc = "polling" /\ t.run = r /\ t.opt = camp[c].opt
        /\ t.window = camp[c].window /\ t.recovering = camp[c].recovering
        /\ t.iteration = camp[c].iteration /\ t.expected = camp[c].expected
        /\ t.reason = camp[c].reason
    BY <2>1 DEF CampaignFields
  <2>3. camp' = [camp EXCEPT ![c] = t]
    BY <2>1 DEF Attach, n, CampaignsShaped
  <2> HIDE DEF t
  <2> QED
    BY <2>1, <2>2, <2>3, Replaced
<1>2. camp[c].pc \in Planned /\ "polling" \in Planned /\ camp[c].opt.execute
  BY SubmittedFits DEF Before, Planned, Submitted
<1>3. AttachedHolds(camp[c])'
  BY <1>1 DEF AttachedHolds
<1> QED
  BY <1>1, <1>2, <1>3, PlannedHolds

LEMMA PostHolds ==
  ASSUME Before, NEW c \in Campaigns, Post(c), UNCHANGED tool
  PROVE  CampaignsHold' /\ RowsInv' /\ Steady
<1>1. Fits(camp[c].window)
  BY SubmittedFits DEF Before, Post, Submitted
<1>2. (Accept(camp[c].window) \/ UNCHANGED runs) /\ UNCHANGED <<cursor, adrift, recorded>>
  BY DEF Post
<1>3. RowsInv' /\ Steady
  BY <1>1, <1>2, RequestKeepsRows DEF Before
<1>4. CASE Accept(camp[c].window) /\ Attach(c, Len(runs) + 1)
  <2>1. Len(runs) + 1 \in RunIds'
    BY <1>4 DEF Accept, RunIds, Before, RowsInv
  <2> QED
    BY <1>2, <1>3, <1>4, <2>1, AttachHolds DEF Post
<1>5. CASE Stop(c, "manual_sync_submit_failed")
  BY <1>2, <1>3, <1>5, StopHolds DEF CleanStops
<1> QED
  BY <1>3, <1>4, <1>5 DEF Post

LEMMA PostThrowsHolds ==
  ASSUME Before, NEW c \in Campaigns, PostThrows(c), UNCHANGED tool
  PROVE  CampaignsHold' /\ RowsInv' /\ Steady
<1>1. camp[c].opt.execute /\ Fits(camp[c].window)
  BY SubmittedFits DEF Before, PostThrows, Submitted
<1>2. /\ Accept(camp[c].window) \/ UNCHANGED runs
      /\ adrift' \subseteq adrift \cup {camp[c].window} /\ UNCHANGED <<cursor, recorded>>
  BY DEF PostThrows
<1>3. RowsInv' /\ Steady
  BY <1>1, <1>2, RequestKeepsRows DEF Before
<1>4. camp' = [camp EXCEPT ![c].pc = "reconciling", ![c].unchecked = @ + 1]
  BY DEF PostThrows
<1>5. /\ CampaignsShaped' /\ \A d \in Campaigns \ {c} : camp'[d] = camp[d]
      /\ camp'[c].pc = "reconciling" /\ camp'[c].opt = camp[c].opt
      /\ camp'[c].window = camp[c].window /\ camp'[c].recovering = camp[c].recovering
      /\ camp'[c].iteration = camp[c].iteration /\ camp'[c].expected = camp[c].expected
      /\ camp'[c].reason = camp[c].reason
  <2> DEFINE t == [camp[c] EXCEPT !.pc = "reconciling", !.unchecked = @ + 1]
  <2>1. camp[c] = [f \in CampaignFields |-> camp[c][f]] /\ CampaignsShaped
    BY DEF Before, CampaignsHold, CampaignsShaped
  <2>2. /\ t = [f \in CampaignFields |-> t[f]]
        /\ t.pc = "reconciling" /\ t.opt = camp[c].opt
        /\ t.window = camp[c].window /\ t.recovering = camp[c].recovering
        /\ t.iteration = camp[c].iteration /\ t.expected = camp[c].expected
        /\ t.reason = camp[c].reason
    BY <2>1 DEF CampaignFields
  <2>3. camp' = [camp EXCEPT ![c] = t]
    BY <2>1, <1>4 DEF CampaignsShaped
  <2> HIDE DEF t
  <2> QED
    BY <2>1, <2>2, <2>3, Replaced
<1>6. camp[c].pc \in Planned /\ "reconciling" \in Planned /\ AttachedHolds(camp[c])'
  BY <1>5 DEF PostThrows, Planned, Submitted, AttachedHolds
<1> QED
  BY <1>1, <1>2, <1>3, <1>5, <1>6, PlannedHolds

LEMMA ReconcileHolds ==
  ASSUME Before, NEW c \in Campaigns, Reconcile(c), UNCHANGED tool
  PROVE  CampaignsHold'
<1>1. RowsInv' /\ Steady /\ recorded \subseteq recorded'
  BY QuietStep DEF Reconcile
<1>2. CASE \E r \in RunIds : Attach(c, r)
  <2>1. PICK r \in RunIds : Attach(c, r)
    BY <1>2
  <2>2. r \in RunIds'
    BY <1>1 DEF Steady
  <2> QED
    BY <1>1, <2>1, <2>2, AttachHolds DEF Reconcile
<1>3. CASE Stop(c, "ambiguous_submission_unrecoverable")
  BY <1>1, <1>3, StopHolds DEF CleanStops
<1> QED
  BY <1>2, <1>3 DEF Reconcile

LEMMA VerifyHolds ==
  ASSUME Before, NEW c \in Campaigns, Verify(c), UNCHANGED tool
  PROVE  CampaignsHold'
<1>1. RowsInv' /\ Steady /\ recorded \subseteq recorded'
  BY QuietStep DEF Verify
<1> DEFINE w == camp[c].window
           r == camp[c].run
           clean == /\ IF camp[c].recovering THEN RecoveryClean(r, w) ELSE WindowClean(r, w)
                    /\ NothingAmiss(Options(c).anchor, w)
<1>2. camp' = [camp EXCEPT ![c].pc = "recording", ![c].clean = clean]
  BY DEF Verify
<1> HIDE DEF clean
<1>3. /\ CampaignsShaped' /\ \A d \in Campaigns \ {c} : camp'[d] = camp[d]
      /\ camp'[c].pc = "recording" /\ camp'[c].clean = clean /\ camp'[c].run = camp[c].run
      /\ camp'[c].opt = camp[c].opt
      /\ camp'[c].window = camp[c].window /\ camp'[c].recovering = camp[c].recovering
      /\ camp'[c].iteration = camp[c].iteration /\ camp'[c].expected = camp[c].expected
      /\ camp'[c].reason = camp[c].reason
  <2> DEFINE t == [camp[c] EXCEPT !.pc = "recording", !.clean = clean]
  <2>1. camp[c] = [f \in CampaignFields |-> camp[c][f]] /\ CampaignsShaped
    BY DEF Before, CampaignsHold, CampaignsShaped
  <2>2. /\ t = [f \in CampaignFields |-> t[f]]
        /\ t.pc = "recording" /\ t.clean = clean /\ t.run = camp[c].run /\ t.opt = camp[c].opt
        /\ t.window = camp[c].window /\ t.recovering = camp[c].recovering
        /\ t.iteration = camp[c].iteration /\ t.expected = camp[c].expected
        /\ t.reason = camp[c].reason
    BY <2>1 DEF CampaignFields
  <2>3. camp' = [camp EXCEPT ![c] = t]
    BY <2>1, <1>2 DEF CampaignsShaped
  <2> HIDE DEF t
  <2> QED
    BY <2>1, <2>2, <2>3, Replaced
<1>4. camp[c].pc \in Planned /\ "recording" \in Planned /\ camp[c].opt.execute
  BY SubmittedFits DEF Before, Verify, Planned, Submitted
<1>5. /\ r \in RunIds /\ camp[c].opt.anchor <= w.from
      /\ camp[c].recovering => w.label.kind = "recovery"
  BY <1>4 DEF Verify, Before, CampaignsHold, CampaignHolds, AttachedHolds, WindowHolds,
              RecoveryHolds
<1>6. clean => Recordable(r) /\ SameWindow(r, w)
  BY <1>5, CompletedIsRecordable DEF clean, Before, Options
<1>7. Recordable(r) => Recordable(r)'
  <2>1. PICK q : q = r
    OBVIOUS
  <2> QED
    BY <2>1, <1>1, <1>3, RecordableStays DEF Before
<1>8. r \in RunIds' /\ (SameWindow(r, w) => SameWindow(r, w)')
  BY <1>1, <1>3, <1>5 DEF Steady, SameWindow
<1>9. AttachedHolds(camp[c])'
  BY <1>3, <1>6, <1>7, <1>8 DEF AttachedHolds
<1> QED
  BY <1>1, <1>3, <1>4, <1>9, PlannedHolds

LEMMA PollTimeoutHolds ==
  ASSUME Before, NEW c \in Campaigns, PollTimeout(c), UNCHANGED tool
  PROVE  CampaignsHold'
<1>1. RowsInv' /\ Steady /\ recorded \subseteq recorded'
  BY QuietStep DEF PollTimeout
<1> QED
  BY <1>1, StopHolds DEF PollTimeout, CleanStops

(* Of an invocation that only previews next to nothing is claimed.          *)
LEMMA DryHolds ==
  ASSUME Before, RowsInv', Steady, recorded \subseteq recorded', NEW c \in Campaigns,
         CampaignsShaped', \A d \in Campaigns \ {c} : camp'[d] = camp[d],
         ~camp'[c].opt.execute, camp'[c].pc \notin Submitted, camp'[c].reason \notin CleanStops
  PROVE  CampaignsHold'
BY OneCampaignSteps DEF CampaignHolds

LEMMA UnderWay ==
  ASSUME CampaignsHold, NEW c \in Campaigns, camp[c].pc # "ended"
  PROVE  camp[c].reason \notin CleanStops
BY DEF CampaignsHold, CampaignHolds

LEMMA PreviewHolds ==
  ASSUME Before, NEW c \in Campaigns, Preview(c), UNCHANGED tool
  PROVE  CampaignsHold'
<1>1. RowsInv' /\ Steady /\ recorded \subseteq recorded'
  BY QuietStep DEF Preview
<1>2. ~camp[c].opt.execute /\ camp[c].reason \notin CleanStops
  BY UnderWay DEF Before, CampaignsHold, CampaignHolds, Preview
<1>3. CASE camp[c].recovering
  <2>1. camp' = [camp EXCEPT ![c].pc = "planning", ![c].recovering = FALSE]
    BY <1>3 DEF Preview
  <2>2. /\ CampaignsShaped' /\ \A d \in Campaigns \ {c} : camp'[d] = camp[d]
        /\ camp'[c].pc = "planning" /\ camp'[c].opt = camp[c].opt
        /\ camp'[c].window = camp[c].window /\ camp'[c].recovering = FALSE
        /\ camp'[c].iteration = camp[c].iteration /\ camp'[c].expected = camp[c].expected
        /\ camp'[c].reason = camp[c].reason /\ camp'[c].run = camp[c].run
        /\ camp'[c].clean = camp[c].clean
    <3> DEFINE t == [camp[c] EXCEPT !.pc = "planning", !.recovering = FALSE]
    <3>1. camp[c] = [f \in CampaignFields |-> camp[c][f]] /\ CampaignsShaped
      BY DEF Before, CampaignsHold, CampaignsShaped
    <3>2. /\ t = [f \in CampaignFields |-> t[f]] /\ t.pc = "planning" /\ t.opt = camp[c].opt
          /\ t.window = camp[c].window /\ t.recovering = FALSE
          /\ t.iteration = camp[c].iteration /\ t.expected = camp[c].expected
          /\ t.reason = camp[c].reason /\ t.run = camp[c].run /\ t.clean = camp[c].clean
      BY <3>1 DEF CampaignFields
    <3>3. camp' = [camp EXCEPT ![c] = t]
      BY <3>1, <2>1 DEF CampaignsShaped
    <3> HIDE DEF t
    <3> QED
      BY <3>1, <3>2, <3>3, Replaced
  <2> QED
    BY <1>1, <1>2, <2>2, DryHolds DEF Submitted
<1>4. CASE ~camp[c].recovering
  <2> DEFINE sim == camp[c].window.to
             n   == camp[c].window.label.n
  <2>1. camp' = [camp EXCEPT ![c].pc = "checkpoint", ![c].sim = sim, ![c].last = n,
                             ![c].processed = @ + 1]
    BY <1>4 DEF Preview
  <2> HIDE DEF sim, n
  <2>2. /\ CampaignsShaped' /\ \A d \in Campaigns \ {c} : camp'[d] = camp[d]
        /\ camp'[c].pc = "checkpoint" /\ camp'[c].opt = camp[c].opt
        /\ camp'[c].window = camp[c].window /\ camp'[c].recovering = camp[c].recovering
        /\ camp'[c].iteration = camp[c].iteration /\ camp'[c].expected = camp[c].expected
        /\ camp'[c].reason = camp[c].reason /\ camp'[c].run = camp[c].run
        /\ camp'[c].clean = camp[c].clean
    <3> DEFINE t == [camp[c] EXCEPT !.pc = "checkpoint", !.sim = sim, !.last = n,
                                    !.processed = @ + 1]
    <3>1. camp[c] = [f \in CampaignFields |-> camp[c][f]] /\ CampaignsShaped
      BY DEF Before, CampaignsHold, CampaignsShaped
    <3>2. /\ t = [f \in CampaignFields |-> t[f]] /\ t.pc = "checkpoint" /\ t.opt = camp[c].opt
          /\ t.window = camp[c].window /\ t.recovering = camp[c].recovering
          /\ t.iteration = camp[c].iteration /\ t.expected = camp[c].expected
          /\ t.reason = camp[c].reason /\ t.run = camp[c].run /\ t.clean = camp[c].clean
      BY <3>1 DEF CampaignFields
    <3>3. camp' = [camp EXCEPT ![c] = t]
      BY <3>1, <2>1 DEF CampaignsShaped
    <3> HIDE DEF t
    <3> QED
      BY <3>1, <3>2, <3>3, Replaced
  <2> QED
    BY <1>1, <1>2, <2>2, DryHolds DEF Submitted
<1> QED
  BY <1>3, <1>4

LEMMA QualifyHolds ==
  ASSUME Before, NEW c \in Campaigns, Qualify(c), UNCHANGED tool, tool = "supervisor"
  PROVE  CampaignsHold'
<1>1. RowsInv' /\ Steady /\ recorded \subseteq recorded'
  BY QuietStep DEF Qualify
<1> DEFINE o     == Options(c)
           end   == o.first + WindowSize - 1
           again == Request(Label("recovery", o.source, 0), o.first, end)
           fit   == /\ o.expected = end
                    /\ CursorIs(o.anchor, o.expected)
                    /\ RecoveryEligible(o.source, o.first, end)
<1>2. CASE fit
  <2>1. camp' = [camp EXCEPT ![c].pc = "gating", ![c].recovering = TRUE, ![c].window = again]
    BY <1>2 DEF Qualify
  <2>2. /\ again.from = camp[c].opt.first /\ again.to = again.from + WindowSize - 1
        /\ again.label.kind = "recovery"
    BY DEF Options, Request, Label
  <2> HIDE DEF again
  <2>3. /\ CampaignsShaped' /\ \A d \in Campaigns \ {c} : camp'[d] = camp[d]
        /\ camp'[c].pc = "gating" /\ camp'[c].opt = camp[c].opt /\ camp'[c].window = again
        /\ camp'[c].recovering = TRUE /\ camp'[c].iteration = camp[c].iteration
        /\ camp'[c].expected = camp[c].expected /\ camp'[c].reason = camp[c].reason
        /\ camp'[c].run = camp[c].run /\ camp'[c].clean = camp[c].clean
    <3> DEFINE t == [camp[c] EXCEPT !.pc = "gating", !.recovering = TRUE, !.window = again]
    <3>1. camp[c] = [f \in CampaignFields |-> camp[c][f]] /\ CampaignsShaped
      BY DEF Before, CampaignsHold, CampaignsShaped
    <3>2. /\ t = [f \in CampaignFields |-> t[f]] /\ t.pc = "gating" /\ t.opt = camp[c].opt
          /\ t.window = again /\ t.recovering = TRUE /\ t.iteration = camp[c].iteration
          /\ t.expected = camp[c].expected /\ t.reason = camp[c].reason /\ t.run = camp[c].run
          /\ t.clean = camp[c].clean
      BY <3>1 DEF CampaignFields
    <3>3. camp' = [camp EXCEPT ![c] = t]
      BY <3>1, <2>1 DEF CampaignsShaped
    <3> HIDE DEF t
    <3> QED
      BY <3>1, <3>2, <3>3, Replaced
  <2>4. camp[c].reason \notin CleanStops /\ camp[c].pc = "qualifying"
    BY UnderWay DEF Before, Qualify
  <2>5. CASE ~camp[c].opt.execute
    BY <1>1, <2>3, <2>4, <2>5, DryHolds DEF Submitted
  <2>6. CASE camp[c].opt.execute
    <3>1. OptionsHold(camp[c]) /\ RecoveryHolds(camp[c])
      BY <2>6 DEF Before, CampaignsHold, CampaignHolds
    <3>2. OptionsHold(camp[c])'
      BY <3>1, <2>3, <2>4 DEF OptionsHold, Aligned, FirstOrdinary
    <3>3. camp[c].opt.anchor <= again.from
      <4>1. PICK r \in RunIds : /\ runs[r].status = "COMPLETED"
                                /\ runs[r].from = o.first /\ runs[r].to = o.expected
        BY <1>2 DEF RecoveryEligible
      <4>2. Placed(runs[r]) /\ runs[r].label.kind # "rebuild" /\ runs[r].from \in Int
            /\ runs[r].to \in Int
        BY DEF Before, RowsInv, Fits
      <4>3. cursor.from = o.anchor /\ cursor.to = o.expected
        BY <1>2 DEF CursorIs
      <4> QED
        BY <4>1, <4>2, <4>3, <2>2 DEF Placed, Options
    <3>4. WindowHolds(camp[c])'
      BY <3>1, <3>3, <2>2, <2>3 DEF WindowHolds, OptionsHold
    <3>5. RecoveryHolds(camp[c])'
      BY <3>1, <2>2, <2>3, <2>4 DEF RecoveryHolds, Planned, Submitted
    <3>6. AttachedHolds(camp[c])' /\ CoverHolds(camp[c])'
      BY <2>3, <2>4 DEF AttachedHolds, CoverHolds
    <3>7. CampaignHolds(camp[c])'
      BY <3>2, <3>4, <3>5, <3>6, <2>3, <2>4 DEF CampaignHolds, Submitted
    <3> QED
      BY <1>1, <2>3, <3>7, OneCampaignSteps
  <2> QED
    BY <2>5, <2>6
<1>3. CASE ~fit
  BY <1>1, <1>3, StopHolds DEF Qualify, CleanStops
<1> QED
  BY <1>2, <1>3

LEMMA PlanWindowHolds ==
  ASSUME Before, NEW c \in Campaigns, PlanWindow(c), UNCHANGED tool
  PROVE  CampaignsHold'
<1>1. RowsInv' /\ Steady /\ recorded \subseteq recorded'
  BY QuietStep DEF PlanWindow
<1> DEFINE o   == Options(c)
           to  == IF ~o.execute /\ camp[c].sim # Nowhere THEN camp[c].sim ELSE cursor.to
           w   == WindowPlan(o, to)
           fit == /\ CursorIs(o.anchor, camp[c].expected)
                  /\ camp[c].iteration = 0 => w.from = FirstOrdinary(o)
                  /\ WithinFinalBlock(w, o)
<1>2. CASE fit
  <2>1. camp' = [camp EXCEPT ![c].pc = "gating", ![c].window = w]
    BY <1>2 DEF PlanWindow
  <2>2. w.from = to + 1 /\ w.to = to + WindowSize /\ w.label.kind = o.kind
    BY DEF WindowPlan, NextRange, Request, Label
  <2>3. camp[c].opt.execute => /\ cursor.from = camp[c].opt.anchor
                               /\ to = camp[c].expected /\ cursor.to = camp[c].expected
                               /\ camp[c].iteration = 0 => w.from = FirstOrdinary(camp[c].opt)
    BY <1>2 DEF Options, CursorIs
  <2> HIDE DEF w, to
  <2>4. /\ CampaignsShaped' /\ \A d \in Campaigns \ {c} : camp'[d] = camp[d]
        /\ camp'[c].pc = "gating" /\ camp'[c].opt = camp[c].opt /\ camp'[c].window = w
        /\ camp'[c].recovering = camp[c].recovering /\ camp'[c].iteration = camp[c].iteration
        /\ camp'[c].expected = camp[c].expected /\ camp'[c].reason = camp[c].reason
        /\ camp'[c].run = camp[c].run /\ camp'[c].clean = camp[c].clean
    <3> DEFINE t == [camp[c] EXCEPT !.pc = "gating", !.window = w]
    <3>1. camp[c] = [f \in CampaignFields |-> camp[c][f]] /\ CampaignsShaped
      BY DEF Before, CampaignsHold, CampaignsShaped
    <3>2. /\ t = [f \in CampaignFields |-> t[f]] /\ t.pc = "gating" /\ t.opt = camp[c].opt
          /\ t.window = w /\ t.recovering = camp[c].recovering
          /\ t.iteration = camp[c].iteration /\ t.expected = camp[c].expected
          /\ t.reason = camp[c].reason /\ t.run = camp[c].run /\ t.clean = camp[c].clean
      BY <3>1 DEF CampaignFields
    <3>3. camp' = [camp EXCEPT ![c] = t]
      BY <3>1, <2>1 DEF CampaignsShaped
    <3> HIDE DEF t
    <3> QED
      BY <3>1, <3>2, <3>3, Replaced
  <2>5. camp[c].reason \notin CleanStops /\ camp[c].pc = "planning"
    BY UnderWay DEF Before, PlanWindow
  <2>6. CASE ~camp[c].opt.execute
    BY <1>1, <2>4, <2>5, <2>6, DryHolds DEF Submitted
  <2>7. CASE camp[c].opt.execute
    <3>1. OptionsHold(camp[c]) /\ RecoveryHolds(camp[c]) /\ CoverHolds(camp[c])
      BY <2>7 DEF Before, CampaignsHold, CampaignHolds
    <3>2. OptionsHold(camp[c])'
      BY <3>1, <2>4, <2>5 DEF OptionsHold, Aligned, FirstOrdinary
    <3>3. /\ w.from \in Int /\ w.to = w.from + WindowSize - 1
          /\ camp[c].opt.anchor <= w.from /\ w.label.kind \in {"child", "hand"}
      BY <2>2, <2>3, <2>7, <3>1, Naturals DEF OptionsHold, Options, Before, RowsInv, CursorHolds
    <3>4. WindowHolds(camp[c])' /\ RecoveryHolds(camp[c])' /\ AttachedHolds(camp[c])'
      BY <3>1, <3>3, <2>4, <2>5 DEF WindowHolds, RecoveryHolds, AttachedHolds, Planned, Submitted
    <3>5. /\ w.from = StartAt(camp[c].opt, camp[c].iteration)
          /\ InEvidence(camp[c].opt.first, w.from - 1)
      <4>1. StartAt(camp[c].opt, 0) = FirstOrdinary(camp[c].opt)
        BY <3>1, Naturals DEF StartAt, FirstOrdinary, OptionsHold
      <4>2. StartAt(camp[c].opt, camp[c].iteration) \in Int
        BY <3>1, Naturals DEF StartAt, FirstOrdinary, OptionsHold
      <4>3. w.from = StartAt(camp[c].opt, camp[c].iteration)
        BY <4>1, <4>2, <2>2, <2>3, <2>5, <2>7, <3>1 DEF CoverHolds, OptionsHold
      <4> QED
        BY <4>3, <2>5, <3>1 DEF CoverHolds
    <3>6. InEvidence(camp[c].opt.first, camp[c].window.from - 1)'
      <4>1. PICK a, b : a = camp[c].opt.first /\ b = w.from - 1
        OBVIOUS
      <4>2. InEvidence(a, b)'
        BY <1>1, <3>5, <4>1, InEvidenceStays DEF Before
      <4> QED
        BY <4>1, <4>2, <2>4
    <3>7. camp'[c].window.from = StartAt(camp[c].opt, camp[c].iteration)'
      BY <3>5, <2>4 DEF StartAt, FirstOrdinary
    <3>8. CoverHolds(camp[c])'
      BY <3>6, <3>7, <2>4, <2>5 DEF CoverHolds
    <3>9. CampaignHolds(camp[c])'
      BY <3>2, <3>4, <3>8, <2>4, <2>5 DEF CampaignHolds, Submitted
    <3> QED
      BY <1>1, <2>4, <3>9, OneCampaignSteps
  <2> QED
    BY <2>6, <2>7
<1>3. CASE ~fit
  BY <1>1, <1>3, StopHolds DEF PlanWindow, CleanStops
<1> QED
  BY <1>2, <1>3

LEMMA RecordWindowHolds ==
  ASSUME Before, NEW c \in Campaigns, RecordWindow(c), UNCHANGED tool
  PROVE  CampaignsHold' /\ RowsInv' /\ Steady /\ EvidenceHolds'
<1>1. RowsInv' /\ Steady
  BY RowsUnchanged DEF RecordWindow, Before, around, rows
<1>2. CASE ~camp[c].clean
  <2>1. Stop(c, "invariant_failed_after_run") /\ UNCHANGED recorded
    BY <1>2 DEF RecordWindow
  <2>2. "invariant_failed_after_run" \notin CleanStops
    BY DEF CleanStops
  <2>3. CampaignsHold' /\ EvidenceHolds'
    BY <1>1, <2>1, <2>2, StopHolds, EvidenceStays DEF Before
  <2> QED
    BY <1>1, <2>3
<1>3. CASE camp[c].clean
  <2> DEFINE w == camp[c].window
  <2>1. /\ camp[c].pc = "recording" /\ camp[c].reason \notin CleanStops
        /\ camp[c].opt.execute /\ recorded' = recorded \cup {camp[c].run}
    BY <1>3, UnderWay, SubmittedFits DEF RecordWindow, Before, Submitted
  <2>2. /\ OptionsHold(camp[c]) /\ WindowHolds(camp[c]) /\ RecoveryHolds(camp[c])
        /\ AttachedHolds(camp[c]) /\ CoverHolds(camp[c])
    BY <2>1 DEF Before, CampaignsHold, CampaignHolds
  <2>3. PICK r : r = camp[c].run
    OBVIOUS
  <2>4. /\ Recordable(r) /\ r \in recorded' /\ runs'[r] = runs[r]
        /\ runs[r].from = w.from /\ runs[r].to = w.to
    BY <1>3, <2>1, <2>2, <2>3 DEF AttachedHolds, SameWindow, RecordWindow, around, rows
  <2>5. EvidenceHolds'
    <3>1. Recordable(r)'
      BY <1>1, <2>4, RecordableStays DEF Before
    <3>2. \A q \in recorded : Recordable(q)'
      BY <1>1, RecordableStays DEF Before, EvidenceHolds
    <3> QED
      BY <3>1, <3>2, <2>1, <2>3 DEF EvidenceHolds
  <2>6. PICK a, b, e : a = camp[c].opt.first /\ b = w.from /\ e = w.to
    OBVIOUS
  <2>7. /\ a \in Int /\ b \in Int /\ e \in Int /\ e = b + WindowSize - 1
        /\ camp[c].iteration \in Nat
    BY <2>1, <2>2, <2>6, Naturals DEF OptionsHold, WindowHolds, Planned, Submitted
  <2>8. InEvidence(a, b - 1) \/ a = b
    BY <2>1, <2>2, <2>6 DEF RecoveryHolds, CoverHolds, Planned, Submitted
  <2>9. InEvidence(a, e)'
    <3>1. InEvidence(a, b - 1)' \/ a = b
      BY <1>1, <2>1, <2>8, InEvidenceStays DEF Before
    <3> SUFFICES ASSUME NEW x \in a .. e
                 PROVE  \E q \in recorded' : x \in runs'[q].from .. runs'[q].to
      BY DEF InEvidence
    <3>2. CASE x >= b
      BY <3>2, <2>4, <2>6, <2>7
    <3>3. CASE x < b
      BY <3>3, <3>1, <2>7 DEF InEvidence
    <3> QED
      BY <3>2, <3>3, <2>7
  <2>10. CASE camp[c].recovering
    <3>1. camp' = [camp EXCEPT ![c].pc = "planning", ![c].recovering = FALSE, ![c].processed = 1]
      BY <1>3, <2>10 DEF RecordWindow
    <3>2. /\ CampaignsShaped' /\ \A d \in Campaigns \ {c} : camp'[d] = camp[d]
          /\ camp'[c].pc = "planning" /\ camp'[c].opt = camp[c].opt
          /\ camp'[c].window = camp[c].window /\ camp'[c].recovering = FALSE
          /\ camp'[c].iteration = camp[c].iteration /\ camp'[c].expected = camp[c].expected
          /\ camp'[c].reason = camp[c].reason /\ camp'[c].run = camp[c].run
          /\ camp'[c].clean = camp[c].clean
      <4> DEFINE t == [camp[c] EXCEPT !.pc = "planning", !.recovering = FALSE, !.processed = 1]
      <4>1. camp[c] = [f \in CampaignFields |-> camp[c][f]] /\ CampaignsShaped
        BY DEF Before, CampaignsHold, CampaignsShaped
      <4>2. /\ t = [f \in CampaignFields |-> t[f]] /\ t.pc = "planning" /\ t.opt = camp[c].opt
            /\ t.window = camp[c].window /\ t.recovering = FALSE
            /\ t.iteration = camp[c].iteration /\ t.expected = camp[c].expected
            /\ t.reason = camp[c].reason /\ t.run = camp[c].run /\ t.clean = camp[c].clean
        BY <4>1 DEF CampaignFields
      <4>3. camp' = [camp EXCEPT ![c] = t]
        BY <4>1, <3>1 DEF CampaignsShaped
      <4> HIDE DEF t
      <4> QED
        BY <4>1, <4>2, <4>3, Replaced
    <3>3. OptionsHold(camp[c])'
      BY <2>1, <2>2, <3>2 DEF OptionsHold, Aligned, FirstOrdinary
    <3>4. WindowHolds(camp[c])' /\ RecoveryHolds(camp[c])' /\ AttachedHolds(camp[c])'
      BY <3>2 DEF WindowHolds, RecoveryHolds, AttachedHolds, Planned, Submitted
    <3>5. CoverHolds(camp[c])'
      <4>1. camp[c].iteration = 0 /\ camp[c].opt.source # 0 /\ a = b
        BY <2>2, <2>6, <2>10 DEF RecoveryHolds
      <4>2. StartAt(camp[c].opt, 0) - 1 = e
        BY <4>1, <2>6, <2>7, Naturals DEF StartAt, FirstOrdinary
      <4>3. (StartAt(camp[c].opt, camp[c].iteration) - 1)' = e
        BY <4>1, <4>2, <3>2 DEF StartAt, FirstOrdinary
      <4>4. InEvidence(camp[c].opt.first, StartAt(camp[c].opt, camp[c].iteration) - 1)'
        BY <4>3, <3>2, <2>6, <2>9
      <4> QED
        BY <4>1, <4>4, <3>2, <2>1 DEF CoverHolds, Planned, Submitted
    <3>6. CampaignHolds(camp[c])'
      BY <3>2, <3>3, <3>4, <3>5, <2>1 DEF CampaignHolds, Submitted
    <3> QED
      BY <1>1, <2>1, <2>5, <3>2, <3>6, OneCampaignSteps
  <2>11. CASE ~camp[c].recovering
    <3> DEFINE last == w.label.n
    <3>1. camp' = [camp EXCEPT ![c].pc = "checkpoint", ![c].completed = @ + 1, ![c].last = last,
                               ![c].expected = e, ![c].processed = @ + 1]
      BY <1>3, <2>6, <2>11 DEF RecordWindow
    <3> HIDE DEF last
    <3>2. /\ CampaignsShaped' /\ \A d \in Campaigns \ {c} : camp'[d] = camp[d]
          /\ camp'[c].pc = "checkpoint" /\ camp'[c].opt = camp[c].opt
          /\ camp'[c].window = camp[c].window /\ camp'[c].recovering = camp[c].recovering
          /\ camp'[c].iteration = camp[c].iteration /\ camp'[c].expected = e
          /\ camp'[c].reason = camp[c].reason /\ camp'[c].run = camp[c].run
          /\ camp'[c].clean = camp[c].clean
      <4> DEFINE t == [camp[c] EXCEPT !.pc = "checkpoint", !.completed = @ + 1, !.last = last,
                                       !.expected = e, !.processed = @ + 1]
      <4>1. camp[c] = [f \in CampaignFields |-> camp[c][f]] /\ CampaignsShaped
        BY DEF Before, CampaignsHold, CampaignsShaped
      <4>2. /\ t = [f \in CampaignFields |-> t[f]] /\ t.pc = "checkpoint"
            /\ t.opt = camp[c].opt /\ t.window = camp[c].window
            /\ t.recovering = camp[c].recovering /\ t.iteration = camp[c].iteration
            /\ t.expected = e /\ t.reason = camp[c].reason /\ t.run = camp[c].run
            /\ t.clean = camp[c].clean
        BY <4>1 DEF CampaignFields
      <4>3. camp' = [camp EXCEPT ![c] = t]
        BY <4>1, <3>1 DEF CampaignsShaped
      <4> HIDE DEF t
      <4> QED
        BY <4>1, <4>2, <4>3, Replaced
    <3>3. OptionsHold(camp[c])'
      BY <2>1, <2>2, <2>7, <3>2 DEF OptionsHold, Aligned, FirstOrdinary
    <3>4. WindowHolds(camp[c])' /\ RecoveryHolds(camp[c])' /\ AttachedHolds(camp[c])'
      BY <3>2, <2>11 DEF WindowHolds, RecoveryHolds, AttachedHolds, Planned, Submitted
    <3>5. CoverHolds(camp[c])'
      <4>1. b = StartAt(camp[c].opt, camp[c].iteration)
        BY <2>1, <2>2, <2>6, <2>11 DEF CoverHolds, Planned, Submitted
      <4>2. StartAt(camp[c].opt, camp[c].iteration + 1) - 1 = e
        <5>1. FirstOrdinary(camp[c].opt) \in Int
          BY <2>6, <2>7, Naturals DEF FirstOrdinary
        <5>2. (camp[c].iteration + 1) * WindowSize = camp[c].iteration * WindowSize + WindowSize
          BY <2>7, Naturals
        <5>3. camp[c].iteration * WindowSize \in Int
          BY <2>7, Naturals
        <5> QED
          BY <5>1, <5>2, <5>3, <4>1, <2>7, Naturals DEF StartAt
      <4>3. (StartAt(camp[c].opt, camp[c].iteration + 1) - 1)' = e
        BY <4>2, <3>2 DEF StartAt, FirstOrdinary
      <4>4. InEvidence(camp[c].opt.first, camp[c].expected)'
        BY <3>2, <2>6, <2>9
      <4> QED
        BY <4>3, <4>4, <3>2, <2>1 DEF CoverHolds, Planned, Submitted
    <3>6. CampaignHolds(camp[c])'
      BY <3>2, <3>3, <3>4, <3>5, <2>1 DEF CampaignHolds, Submitted
    <3> QED
      BY <1>1, <2>1, <2>5, <3>2, <3>6, OneCampaignSteps
  <2> QED
    BY <1>1, <2>5, <2>10, <2>11
<1> QED
  BY <1>2, <1>3

LEMMA CheckpointHolds ==
  ASSUME Before, NEW c \in Campaigns, Checkpoint(c), UNCHANGED tool
  PROVE  CampaignsHold'
<1>1. RowsInv' /\ Steady /\ recorded \subseteq recorded'
  BY QuietStep DEF Checkpoint
<1>2. CASE CheckpointDue(c) /\ ~CheckpointPasses(c)
  BY <1>1, <1>2, StopHolds DEF Checkpoint, CleanStops
<1>3. CASE ~(CheckpointDue(c) /\ ~CheckpointPasses(c))
  <2> DEFINE n == IF CheckpointDue(c) THEN 0 ELSE camp[c].unchecked
  <2>1. camp' = [camp EXCEPT ![c].pc = "planning", ![c].iteration = @ + 1, ![c].unchecked = n]
    <3>1. CampaignsShaped
      BY DEF Before, CampaignsHold
    <3> QED
      BY <1>3, <3>1 DEF Checkpoint, CampaignsShaped, CampaignFields
  <2> HIDE DEF n
  <2>2. /\ CampaignsShaped' /\ \A d \in Campaigns \ {c} : camp'[d] = camp[d]
        /\ camp'[c].pc = "planning" /\ camp'[c].opt = camp[c].opt
        /\ camp'[c].window = camp[c].window /\ camp'[c].recovering = camp[c].recovering
        /\ camp'[c].iteration = camp[c].iteration + 1 /\ camp'[c].expected = camp[c].expected
        /\ camp'[c].reason = camp[c].reason /\ camp'[c].run = camp[c].run
        /\ camp'[c].clean = camp[c].clean
    <3> DEFINE t == [camp[c] EXCEPT !.pc = "planning", !.iteration = @ + 1, !.unchecked = n]
    <3>1. camp[c] = [f \in CampaignFields |-> camp[c][f]] /\ CampaignsShaped
      BY DEF Before, CampaignsHold, CampaignsShaped
    <3>2. /\ t = [f \in CampaignFields |-> t[f]] /\ t.pc = "planning" /\ t.opt = camp[c].opt
          /\ t.window = camp[c].window /\ t.recovering = camp[c].recovering
          /\ t.iteration = camp[c].iteration + 1 /\ t.expected = camp[c].expected
          /\ t.reason = camp[c].reason /\ t.run = camp[c].run /\ t.clean = camp[c].clean
      BY <3>1 DEF CampaignFields
    <3>3. camp' = [camp EXCEPT ![c] = t]
      BY <3>1, <2>1 DEF CampaignsShaped
    <3> HIDE DEF t
    <3> QED
      BY <3>1, <3>2, <3>3, Replaced
  <2>3. camp[c].reason \notin CleanStops /\ camp[c].pc = "checkpoint"
    BY UnderWay DEF Before, Checkpoint
  <2>4. CASE ~camp[c].opt.execute
    BY <1>1, <2>2, <2>3, <2>4, DryHolds DEF Submitted
  <2>5. CASE camp[c].opt.execute
    <3>1. /\ OptionsHold(camp[c]) /\ WindowHolds(camp[c]) /\ RecoveryHolds(camp[c])
          /\ AttachedHolds(camp[c]) /\ CoverHolds(camp[c])
      BY <2>5 DEF Before, CampaignsHold, CampaignHolds
    <3>2. OptionsHold(camp[c])'
      BY <3>1, <2>2, <2>3 DEF OptionsHold, Aligned, FirstOrdinary
    <3>3. WindowHolds(camp[c])' /\ RecoveryHolds(camp[c])' /\ AttachedHolds(camp[c])'
      BY <3>1, <2>2, <2>3 DEF WindowHolds, RecoveryHolds, AttachedHolds, Planned, Submitted
    <3>4. CoverHolds(camp[c])'
      <4>1. PICK a, e : a = camp[c].opt.first /\ e = camp[c].expected
        OBVIOUS
      <4>2. InEvidence(a, e)'
        BY <1>1, <2>3, <3>1, <4>1, InEvidenceStays DEF CoverHolds, Before
      <4>3. e = StartAt(camp[c].opt, camp[c].iteration + 1) - 1
        BY <2>3, <3>1, <4>1 DEF CoverHolds
      <4>4. e = (StartAt(camp[c].opt, camp[c].iteration) - 1)'
        BY <4>3, <2>2 DEF StartAt, FirstOrdinary
      <4>5. InEvidence(camp[c].opt.first, StartAt(camp[c].opt, camp[c].iteration) - 1)'
        BY <4>1, <4>2, <4>4, <2>2
      <4>6. camp'[c].expected = (StartAt(camp[c].opt, camp[c].iteration) - 1)'
        BY <4>1, <4>4, <2>2
      <4> QED
        BY <4>5, <4>6, <2>2, <2>3 DEF CoverHolds, Planned, Submitted
    <3>5. CampaignHolds(camp[c])'
      BY <3>2, <3>3, <3>4, <2>2, <2>3 DEF CampaignHolds, Submitted
    <3> QED
      BY <1>1, <2>2, <3>5, OneCampaignSteps
  <2> QED
    BY <2>4, <2>5
<1> QED
  BY <1>2, <1>3

(* What the windows of an invocation cover when it has had them all.        *)
LEMMA AllWindowsDelivered ==
  ASSUME NEW o, o.first \in Int, o.final \in Int, o.max \in Int, Aligned(o),
         InEvidence(o.first, StartAt(o, WindowLimit(o)) - 1)
  PROVE  Delivered(o)
<1>1. PICK first, final, max, start :
        /\ first = o.first /\ final = o.final /\ max = o.max /\ start = FirstOrdinary(o)
  OBVIOUS
<1>2. first \in Int /\ final \in Int /\ max \in Int /\ start \in Int
  BY <1>1, Naturals DEF FirstOrdinary
<1>3. PICK blocks : blocks = max * WindowSize
  OBVIOUS
<1>4. PICK e : e = IF Asked(o) < o.final THEN Asked(o) ELSE o.final
  OBVIOUS
<1>5. Asked(o) = start + blocks - 1 /\ blocks \in Int
  BY <1>1, <1>2, <1>3, Naturals DEF Asked, FirstOrdinary
<1>6. e \in Int /\ e <= start + blocks - 1 /\ e <= final
  BY <1>1, <1>2, <1>4, <1>5
<1>7. PICK upto : upto = StartAt(o, WindowLimit(o)) - 1
  OBVIOUS
<1>8. upto \in Int /\ e <= upto
  <2>1. CASE max <= WindowCount(o)
    <3>1. WindowLimit(o) = max
      BY <1>1, <2>1 DEF WindowLimit
    <3>2. upto = start + blocks - 1
      <4>1. StartAt(o, max) = start + blocks
        BY <1>1, <1>3 DEF StartAt
      <4> QED
        BY <4>1, <3>1, <1>2, <1>5, <1>7
    <3> QED
      BY ONLY <3>2, <1>2, <1>5, <1>6
  <2>2. CASE ~(max <= WindowCount(o))
    <3>1. PICK n : n = final - start + 1
      OBVIOUS
    <3>2. n \in Nat /\ n % WindowSize = 0
      BY <1>1, <1>2, <3>1 DEF Aligned
    <3>3. (n \div WindowSize) * WindowSize = n
      BY <3>2, Naturals
    <3>4. WindowLimit(o) = n \div WindowSize
      BY <1>1, <2>2, <3>1 DEF WindowLimit, WindowCount
    <3>5. upto = start + n - 1
      <4>1. StartAt(o, n \div WindowSize) = start + n
        BY <1>1, <3>3 DEF StartAt
      <4> QED
        BY <4>1, <3>2, <3>4, <1>2, <1>7
    <3> QED
      BY ONLY <1>2, <1>6, <3>1, <3>2, <3>5
  <2> QED
    BY <2>1, <2>2
<1>9. InEvidence(first, upto)
  BY <1>1, <1>7
<1>10. InEvidence(first, e)
  BY <1>2, <1>6, <1>8, <1>9 DEF InEvidence
<1> QED
  BY <1>1, <1>4, <1>10 DEF Delivered

LEMMA SummarizeHolds ==
  ASSUME Before, NEW c \in Campaigns, Summarize(c), UNCHANGED tool
  PROVE  CampaignsHold'
<1>1. RowsInv' /\ Steady /\ recorded \subseteq recorded'
  BY QuietStep DEF Summarize
<1> DEFINE reason == IF Options(c).max <= WindowCount(Options(c))
                     THEN "max_windows_reached" ELSE "authorized_final_block_reached"
           t == [NewCampaign(camp[c].opt, "ended") EXCEPT
                   !.reason = reason, !.completed = camp[c].completed, !.last = camp[c].last]
<1>2. reason \in CleanStops
  BY DEF CleanStops
<1>3. Stop(c, reason) /\ CampaignsShaped
  BY DEF Summarize, Before, CampaignsHold
<1> HIDE DEF reason
<1>4. camp' = [camp EXCEPT ![c] = t]
  BY <1>2, <1>3 DEF Stop, CampaignsShaped
<1>5. t = [f \in CampaignFields |-> t[f]]
  BY DEF NewCampaign, CampaignFields
<1>6. t.pc = "ended" /\ t.opt = camp[c].opt
  BY DEF NewCampaign
<1>7. t.recovering = FALSE /\ t.iteration = 0
  BY DEF NewCampaign
<1>8. t.expected = camp[c].opt.expected
  BY DEF NewCampaign
<1> HIDE DEF t
<1>9. /\ CampaignsShaped' /\ camp'[c] = t /\ \A d \in Campaigns \ {c} : camp'[d] = camp[d]
  BY <1>3, <1>4, <1>5, Replaced
<1>10. /\ camp'[c].pc = "ended" /\ camp'[c].opt = camp[c].opt
       /\ camp'[c].recovering = FALSE /\ camp'[c].iteration = 0
       /\ camp'[c].expected = camp[c].opt.expected
  BY <1>6, <1>7, <1>8, <1>9
<1>11. ASSUME camp[c].opt.execute
       PROVE  /\ OptionsHold(camp[c])' /\ WindowHolds(camp[c])' /\ RecoveryHolds(camp[c])'
              /\ AttachedHolds(camp[c])' /\ CoverHolds(camp[c])'
  <2>1. OptionsHold(camp[c]) /\ CoverHolds(camp[c])
    BY <1>11 DEF Before, CampaignsHold, CampaignHolds
  <2>2. OptionsHold(camp[c])'
    BY <1>10, <2>1 DEF OptionsHold
  <2>3. WindowHolds(camp[c])' /\ RecoveryHolds(camp[c])' /\ AttachedHolds(camp[c])'
    BY <1>10 DEF WindowHolds, RecoveryHolds, AttachedHolds, Planned, Submitted
  <2>4. Delivered(camp[c].opt)'
    <3>1. PICK o : o = camp[c].opt
      OBVIOUS
    <3>2. Delivered(o)
      <4>1. camp[c].pc = "planning" /\ camp[c].iteration = WindowLimit(o)
        BY <3>1 DEF Summarize, Options
      <4>2. Aligned(o) /\ InEvidence(o.first, StartAt(o, WindowLimit(o)) - 1)
        BY <2>1, <3>1, <4>1 DEF OptionsHold, CoverHolds
      <4> QED
        BY <2>1, <3>1, <4>2, AllWindowsDelivered DEF OptionsHold
    <3>3. Delivered(o)'
      BY <1>1, <3>2, InEvidenceStays DEF Delivered, Before
    <3> QED
      BY <1>10, <3>1, <3>3
  <2>5. CoverHolds(camp[c])'
    BY <1>10, <2>4 DEF CoverHolds, Planned, Submitted
  <2> QED
    BY <2>2, <2>3, <2>5
<1>12. CampaignHolds(camp[c])'
  BY <1>10, <1>11 DEF CampaignHolds, Submitted
<1> QED
  BY <1>1, <1>9, <1>12, OneCampaignSteps

LEMMA FailHolds ==
  ASSUME Before, NEW c \in Campaigns, Fail(c), UNCHANGED tool
  PROVE  CampaignsHold' /\ RowsInv' /\ Steady
<1>1. UNCHANGED <<runs, cursor, adrift, recorded>> /\ Stop(c, "failed")
  BY DEF Fail, rows
<1>2. RowsInv' /\ Steady
  BY <1>1, RowsUnchanged DEF Before
<1> QED
  BY <1>1, <1>2, StopHolds DEF CleanStops

(* The campaigns step by step.                                              *)
LEMMA CampaignStepHolds ==
  ASSUME Before, CampaignNext, UNCHANGED tool, tool = "supervisor"
  PROVE  RowsInv' /\ Steady /\ EvidenceHolds' /\ CampaignsHold'
<1> PICK c \in Campaigns : Step(c) \/ PostThrows(c) \/ Fail(c)
  BY DEF CampaignNext
<1>1. CASE \/ StartUp(c) \/ Qualify(c) \/ PlanWindow(c) \/ PassGates(c) \/ Preview(c)
           \/ Reconcile(c) \/ Verify(c) \/ PollTimeout(c) \/ Checkpoint(c) \/ Summarize(c)
  <2>1. UNCHANGED <<around, recorded>>
    BY <1>1 DEF StartUp, Qualify, PlanWindow, PassGates, Preview, Reconcile, Verify,
                PollTimeout, Checkpoint, Summarize
  <2>2. CampaignsHold'
    BY <1>1, StartUpHolds, QualifyHolds, PlanWindowHolds, PassGatesHolds, PreviewHolds,
       ReconcileHolds, VerifyHolds, PollTimeoutHolds, CheckpointHolds, SummarizeHolds
  <2> QED
    BY <2>1, <2>2, QuietStep
<1>2. CASE RecordWindow(c)
  BY <1>2, RecordWindowHolds
<1>3. CASE Post(c) \/ PostThrows(c) \/ Fail(c)
  <2>1. UNCHANGED recorded
    BY <1>3 DEF Post, PostThrows, Fail
  <2>2. RowsInv' /\ Steady /\ CampaignsHold'
    BY <1>3, PostHolds, PostThrowsHolds, FailHolds
  <2> QED
    BY <2>1, <2>2, EvidenceStays DEF Before
<1> QED
  BY <1>1, <1>2, <1>3 DEF Step

-----------------------------------------------------------------------------
(* The supervisor                                                           *)

LEMMA CampaignsStay ==
  ASSUME Before, RowsInv', Steady, recorded \subseteq recorded', UNCHANGED camp
  PROVE  CampaignsHold'
<1>1. \A c \in Campaigns : CampaignHolds(camp[c])'
  BY CampaignStays DEF Before, CampaignsHold
<1> QED
  BY <1>1 DEF Before, CampaignsHold, CampaignsShaped

LEMMA InvokeHolds ==
  ASSUME Before, RowsInv', Steady, recorded \subseteq recorded', NEW c, NEW options,
         Invoke(c, options),
         options.execute =>
           /\ options.anchor \in Int /\ options.expected \in Int /\ options.max \in Int
           /\ options.first \in Int /\ options.final \in Int
           /\ options.kind \in {"child", "hand"}
  PROVE  CampaignsHold'
<1>1. CASE c \in Campaigns
  BY <1>1, NewCampaignHolds DEF Invoke
<1>2. CASE c \notin Campaigns
  <2>1. UNCHANGED camp
    BY <1>2 DEF Invoke, Before, CampaignsHold, CampaignsShaped
  <2> QED
    BY <2>1, CampaignsStay
<1> QED
  BY <1>1, <1>2

LEMMA DecideHolds ==
  ASSUME Before, Decide, UNCHANGED tool
  PROVE  CampaignsHold'
<1>1. RowsInv' /\ Steady /\ recorded \subseteq recorded'
  BY QuietStep DEF Decide
<1>2. CASE UNCHANGED camp
  BY <1>1, <1>2, CampaignsStay
<1>3. CASE Invoke(NextSlot, ChildOptions)
  <2> DEFINE o == ChildOptions
  <2>1. /\ o.execute = sup.execute /\ o.anchor = cursor.from /\ o.expected = PlanningTo
        /\ o.first = PlanningTo + 1 /\ o.final = ChildFinal /\ o.max = ChildWindows
        /\ o.kind = "child"
    BY DEF ChildOptions
  <2> HIDE DEF o
  <2>2. /\ cursor.from \in Int /\ cursor.to \in Int /\ MaxPerChild \in Int /\ Target \in Int
        /\ WindowSize \in Nat \ {0}
    BY SupervisorAssumption, Naturals DEF Before, RowsInv, CursorHolds
  <2>3. ASSUME sup.execute
        PROVE  PlanningTo \in Int /\ ChildWindows \in Int /\ ChildFinal \in Int
    <3>1. PlanningTo \in Int
      BY <2>2, <2>3 DEF PlanningTo
    <3>2. Remaining \div WindowSize \in Int
      BY <2>2, <3>1 DEF Remaining
    <3>3. ChildWindows \in Int
      BY <2>2, <3>2 DEF ChildWindows
    <3> QED
      BY <2>2, <3>1, <3>3 DEF ChildFinal
  <2>4. o.execute => /\ o.anchor \in Int /\ o.expected \in Int /\ o.max \in Int
                     /\ o.first \in Int /\ o.final \in Int /\ o.kind \in {"child", "hand"}
    BY <2>1, <2>2, <2>3
  <2>5. Invoke(NextSlot, o)
    BY <1>3 DEF o
  <2> QED
    BY <1>1, <2>4, <2>5, InvokeHolds
<1> QED
  BY <1>2, <1>3 DEF Decide

LEMMA RecoverByHandHolds ==
  ASSUME Before, RecoverByHand, UNCHANGED tool
  PROVE  CampaignsHold' /\ RowsInv' /\ Steady
<1>1. RowsInv' /\ Steady /\ recorded \subseteq recorded'
  BY RowsUnchanged DEF RecoverByHand, rows, Before
<1> PICK r \in RunIds, execute \in BOOLEAN :
      Invoke(NextSlot,
             [execute |-> execute, anchor |-> cursor.from, expected |-> cursor.to,
              first |-> runs[r].from, final |-> Target, max |-> MaxPerChild,
              kind |-> "hand", id |-> r, source |-> r])
  BY DEF RecoverByHand
<1> DEFINE o == [execute |-> execute, anchor |-> cursor.from, expected |-> cursor.to,
                 first |-> runs[r].from, final |-> Target, max |-> MaxPerChild,
                 kind |-> "hand", id |-> r, source |-> r]
<1>2. runs[r].from \in Int /\ cursor.from \in Int /\ cursor.to \in Int /\ MaxPerChild \in Int
      /\ Target \in Int
  BY SupervisorAssumption DEF Before, RowsInv, CursorHolds, Fits
<1>3. o.execute => /\ o.anchor \in Int /\ o.expected \in Int /\ o.max \in Int
                   /\ o.first \in Int /\ o.final \in Int /\ o.kind \in {"child", "hand"}
  BY <1>2
<1>4. Invoke(NextSlot, o)
  OBVIOUS
<1> HIDE DEF o
<1> QED
  BY <1>1, <1>3, <1>4, InvokeHolds

LEMMA SupervisorHolds ==
  ASSUME Before, SupervisorNext, UNCHANGED tool, tool = "supervisor"
  PROVE  RowsInv' /\ Steady /\ EvidenceHolds' /\ CampaignsHold' /\ recorded \subseteq recorded'
<1>1. CASE Invocation \/ SupervisorStartUp \/ ReviewChild \/ SupervisorSummary
  <2>1. UNCHANGED <<around, recorded, camp>>
    BY <1>1 DEF Invocation, SupervisorStartUp, ReviewChild, SupervisorSummary
  <2>2. RowsInv' /\ Steady /\ recorded \subseteq recorded' /\ EvidenceHolds'
    BY <2>1, QuietStep
  <2> QED
    BY <2>1, <2>2, CampaignsStay
<1>2. CASE Decide
  <2>1. UNCHANGED <<around, recorded>>
    BY <1>2 DEF Decide
  <2> QED
    BY <1>2, <2>1, QuietStep, DecideHolds
<1>3. CASE SupervisorFails
  <2>1. UNCHANGED <<runs, cursor, adrift, recorded, camp>>
    BY <1>3 DEF SupervisorFails, rows
  <2>2. RowsInv' /\ Steady
    BY <2>1, RowsUnchanged DEF Before
  <2> QED
    BY <2>1, <2>2, EvidenceStays, CampaignsStay DEF Before
<1>4. CASE RecoverByHand
  <2>1. UNCHANGED recorded
    BY <1>4 DEF RecoverByHand
  <2> QED
    BY <1>4, <2>1, RecoverByHandHolds, EvidenceStays DEF Before
<1>5. CASE CampaignNext
  <2>1. RowsInv' /\ Steady /\ EvidenceHolds' /\ CampaignsHold'
    BY <1>5, CampaignStepHolds
  <2>2. recorded \subseteq recorded'
    BY <1>5 DEF CampaignNext, Step, StartUp, Qualify, PlanWindow, PassGates, Preview, Post,
                PostThrows, Reconcile, Verify, PollTimeout, RecordWindow, Checkpoint,
                Summarize, Fail
  <2> QED
    BY <2>1, <2>2
<1> QED
  BY <1>1, <1>2, <1>3, <1>4, <1>5 DEF SupervisorNext, SupervisorStep

-----------------------------------------------------------------------------
(* The evidence window                                                      *)

(* A window is requested only when it is apart from the cursor there was at *)
(* first, since it is apart from a cursor that covers it.                   *)
ProbeHolds ==
  /\ probe = [f \in {"pc", "execute", "before", "window", "run", "used", "reason"} |-> probe[f]]
  /\ probe.pc \in {"checking", "gating", "posting", "reconciling"} =>
       /\ probe.window.from \in Int /\ probe.window.to \in Int
       /\ probe.window.label.kind = "probe"
  /\ probe.pc = "gating" => /\ probe.before.from \in Int /\ probe.before.to \in Int
                            /\ probe.before.from <= Anchor /\ Frontier <= probe.before.to
  /\ probe.pc \in {"posting", "reconciling"} => Outside(probe.window)

LEMMA ProbeStays ==
  ASSUME ProbeHolds, UNCHANGED probe
  PROVE  ProbeHolds'
BY DEF ProbeHolds, Outside

LEMMA EndProbeHolds ==
  ASSUME ProbeHolds, NEW reason, EndProbe(reason)
  PROVE  ProbeHolds'
<1>1. probe'.pc = "ended"
  BY DEF ProbeHolds, EndProbe
<1>2. (probe = [f \in {"pc", "execute", "before", "window", "run", "used", "reason"} |->
                  probe[f]])'
  BY DEF ProbeHolds, EndProbe
<1> QED
  BY <1>1, <1>2 DEF ProbeHolds

LEMMA AttachProbeHolds ==
  ASSUME ProbeHolds, NEW r, AttachProbe(r)
  PROVE  ProbeHolds'
<1>1. probe'.pc = "polling"
  BY DEF ProbeHolds, AttachProbe
<1>2. (probe = [f \in {"pc", "execute", "before", "window", "run", "used", "reason"} |->
                  probe[f]])'
  BY DEF ProbeHolds, AttachProbe
<1> QED
  BY <1>1, <1>2 DEF ProbeHolds

LEMMA ProbeStepHolds ==
  ASSUME RowsInv, ProbeHolds, ProbeNext, UNCHANGED tool
  PROVE  ProbeHolds' /\ RowsInv' /\ Steady /\ UNCHANGED recorded
<1> DEFINE Shape == probe = [f \in {"pc", "execute", "before", "window", "run", "used", "reason"} |->
                               probe[f]]
<1>1. CASE InvokeProbe
  <2>1. PICK execute \in BOOLEAN, why \in Reasons, w \in Sought :
          probe' = [probe EXCEPT !.pc = "checking", !.execute = execute, !.used = @ + 1,
                      !.window = Request(ProbeLabel(why), w.from, w.to), !.reason = ""]
    BY <1>1 DEF InvokeProbe
  <2>2. w.from \in Int /\ w.to \in Int
    BY ProbeAssumption
  <2> DEFINE v == Request(ProbeLabel(why), w.from, w.to)
  <2>3. v.from \in Int /\ v.to \in Int /\ v.label.kind = "probe"
    BY <2>2 DEF Request, ProbeLabel, Label
  <2> HIDE DEF v
  <2>4. probe'.pc = "checking" /\ probe'.window = v /\ Shape'
    BY <2>1 DEF ProbeHolds, v
  <2>5. ProbeHolds'
    BY <2>3, <2>4 DEF ProbeHolds
  <2> QED
    BY <1>1, <2>5, RowsUnchanged DEF InvokeProbe, around, rows
<1>2. CASE CheckProbe
  <2>1. RowsInv' /\ Steady /\ UNCHANGED recorded
    BY <1>2, RowsUnchanged DEF CheckProbe, around, rows
  <2>2. CASE InBounds(probe.window)
    <3> DEFINE pc == IF probe.execute THEN "gating" ELSE "ended"
               reason == IF probe.execute THEN "" ELSE "dry_run_reported"
    <3>1. probe' = [probe EXCEPT !.before = cursor, !.pc = pc, !.reason = reason]
      BY <1>2, <2>2 DEF CheckProbe
    <3>2. pc \in {"gating", "ended"}
      OBVIOUS
    <3> HIDE DEF pc, reason
    <3>3. probe'.pc = pc /\ probe'.before = cursor /\ probe'.window = probe.window /\ Shape'
      BY <3>1 DEF ProbeHolds
    <3>4. /\ cursor.from \in Int /\ cursor.to \in Int
          /\ cursor.from <= Anchor /\ Frontier <= cursor.to
      BY DEF RowsInv, CursorHolds
    <3>5. probe.pc = "checking"
      BY <1>2 DEF CheckProbe
    <3> QED
      BY <2>1, <3>2, <3>3, <3>4, <3>5 DEF ProbeHolds
  <2>3. CASE ~InBounds(probe.window)
    BY <1>2, <2>1, <2>3, EndProbeHolds DEF CheckProbe
  <2> QED
    BY <2>2, <2>3
<1>3. CASE PassProbeGates
  <2>1. RowsInv' /\ Steady /\ UNCHANGED recorded
    BY <1>3, RowsUnchanged DEF PassProbeGates, around, rows
  <2>2. ASSUME Disconnected(probe.window, probe.before), probe' = [probe EXCEPT !.pc = "posting"]
        PROVE  ProbeHolds'
    <3>1. probe'.pc = "posting" /\ probe'.window = probe.window /\ Shape'
      BY <2>2 DEF ProbeHolds
    <3>2. probe.pc = "gating"
      BY <1>3 DEF PassProbeGates
    <3>3. Outside(probe.window)
      BY <2>2, <3>2, Naturals DEF ProbeHolds, Disconnected, Outside
    <3> QED
      BY <3>1, <3>2, <3>3 DEF ProbeHolds, Outside
  <2> QED
    BY <1>3, <2>1, <2>2, EndProbeHolds DEF PassProbeGates
<1>4. CASE PostProbe
  <2>1. Fits(probe.window)
    BY <1>4 DEF PostProbe, ProbeHolds, Fits
  <2>2. RowsInv' /\ Steady /\ UNCHANGED recorded
    BY <1>4, <2>1, RequestKeepsRows DEF PostProbe
  <2> QED
    BY <1>4, <2>2, AttachProbeHolds, EndProbeHolds DEF PostProbe
<1>5. CASE PostProbeThrows
  <2>1. Fits(probe.window)
    BY <1>5 DEF PostProbeThrows, ProbeHolds, Fits
  <2>2. /\ Accept(probe.window) \/ UNCHANGED runs
        /\ adrift' \subseteq adrift \cup {probe.window} /\ UNCHANGED <<cursor, recorded>>
    BY <1>5 DEF PostProbeThrows
  <2>3. RowsInv' /\ Steady
    BY <2>1, <2>2, RequestKeepsRows
  <2>4. probe' = [probe EXCEPT !.pc = "reconciling"] /\ probe.pc = "posting"
    BY <1>5 DEF PostProbeThrows
  <2>5. probe'.pc = "reconciling" /\ probe'.window = probe.window /\ Shape'
    BY <2>4 DEF ProbeHolds
  <2>6. ProbeHolds'
    BY <2>4, <2>5 DEF ProbeHolds, Outside
  <2> QED
    BY <2>2, <2>3, <2>6
<1>6. CASE ReconcileProbe \/ ReportProbe \/ ProbePollTimeout
  <2>1. RowsInv' /\ Steady /\ UNCHANGED recorded
    BY <1>6, RowsUnchanged DEF ReconcileProbe, ReportProbe, ProbePollTimeout, around, rows
  <2>2. (\E reason : EndProbe(reason)) \/ (\E r : AttachProbe(r))
    BY <1>6 DEF ReconcileProbe, ReportProbe, ProbePollTimeout
  <2> QED
    BY <2>1, <2>2, AttachProbeHolds, EndProbeHolds
<1>7. CASE ProbeFails
  BY <1>7, RowsUnchanged, EndProbeHolds DEF ProbeFails, rows
<1> QED
  BY <1>1, <1>2, <1>3, <1>4, <1>5, <1>6, <1>7 DEF ProbeNext

-----------------------------------------------------------------------------
(* The batches                                                              *)

BatchShaped ==
  batch = [f \in {"pc", "opt", "used", "recovering", "iteration", "expected", "sim", "window",
                  "run", "clean"} |-> batch[f]]

BatchOptions ==
  /\ batch.opt.anchor \in Int /\ batch.opt.expected \in Int /\ batch.opt.first \in Int
  /\ batch.expected \in Int /\ batch.iteration \in Nat /\ batch.sim = Nowhere

BatchWindow ==
  batch.pc \in Planned =>
    /\ batch.window.from \in Int /\ batch.window.to = batch.window.from + WindowSize - 1
    /\ batch.opt.anchor <= batch.window.from
    /\ batch.window.label.kind \in {"batch", "recovery"}

BatchRecovery ==
  /\ batch.recovering => /\ batch.pc \in Planned /\ batch.iteration = 0
                         /\ batch.window.label.kind = "recovery"
                         /\ batch.window.from = batch.opt.first
  /\ batch.pc \in {"starting", "qualifying"} => ~batch.recovering /\ batch.iteration = 0

BatchAttached ==
  /\ batch.pc \in {"polling", "recording"} => batch.run \in RunIds
  /\ batch.pc = "recording" /\ batch.clean =>
       Recordable(batch.run) /\ SameWindow(batch.run, batch.window)

BatchCover ==
  /\ batch.pc = "planning" =>
       IF batch.iteration = 0
       THEN batch.opt.source = 0 \/ InEvidence(batch.opt.first, batch.opt.first + WindowSize - 1)
       ELSE InEvidence(batch.opt.first, batch.expected)
  /\ batch.pc \in Planned /\ ~batch.recovering =>
       InEvidence(batch.opt.first, batch.window.from - 1)

BatchHolds ==
  /\ BatchShaped
  /\ batch.pc \in Submitted => batch.opt.execute
  /\ batch.pc = "previewing" => ~batch.opt.execute
  /\ batch.opt.execute =>
       BatchOptions /\ BatchWindow /\ BatchRecovery /\ BatchAttached /\ BatchCover

LEMMA BatchStays ==
  ASSUME RowsInv, RowsInv', Steady, EvidenceHolds, recorded \subseteq recorded',
         BatchHolds, UNCHANGED batch
  PROVE  BatchHolds'
<1>1. BatchShaped'
  BY DEF BatchHolds, BatchShaped
<1>2. /\ BatchOptions' <=> BatchOptions
      /\ BatchWindow' <=> BatchWindow
      /\ BatchRecovery' <=> BatchRecovery
  BY DEF BatchOptions, BatchWindow, BatchRecovery
<1>3. BatchAttached => BatchAttached'
  <2>1. RunIds \subseteq RunIds'
    BY DEF Steady
  <2>2. PICK r : r = batch.run
    OBVIOUS
  <2>3. Recordable(r) /\ SameWindow(r, batch.window) =>
          Recordable(r)' /\ SameWindow(r, batch.window)'
    BY RecordableStays DEF SameWindow, Steady, Recordable
  <2> QED
    BY <2>1, <2>2, <2>3 DEF BatchAttached
<1>4. BatchCover => BatchCover'
  BY InEvidenceStays DEF BatchCover
<1> QED
  BY <1>1, <1>2, <1>3, <1>4 DEF BatchHolds

LEMMA NewBatchHolds ==
  ASSUME NEW options, NEW pc, NEW used, batch' = NewBatch(options, pc, used),
         pc \in {"starting", "ended"},
         options.execute =>
           options.anchor \in Int /\ options.expected \in Int /\ options.first \in Int
  PROVE  BatchHolds'
<1> DEFINE b == NewBatch(options, pc, used)
<1>1. b.pc = pc /\ b.opt = options
  BY DEF NewBatch
<1>2. b.recovering = FALSE /\ b.iteration = 0 /\ b.sim = Nowhere
  BY DEF NewBatch
<1>3. b.expected = options.expected
  BY DEF NewBatch
<1>4. b = [f \in {"pc", "opt", "used", "recovering", "iteration", "expected", "sim", "window",
                  "run", "clean"} |-> b[f]]
  BY DEF NewBatch
<1> HIDE DEF b
<1>5. batch' = b
  BY DEF b
<1>6. BatchShaped'
  BY <1>4, <1>5 DEF BatchShaped
<1>7. batch'.pc \notin Planned /\ batch'.pc \notin {"planning", "polling", "recording"}
  BY <1>1, <1>5 DEF Planned, Submitted
<1>8. batch'.opt.execute => BatchOptions'
  <2>1. 0 \in Nat
    OBVIOUS
  <2>2. batch'.opt = options /\ batch'.expected = options.expected
        /\ batch'.iteration = 0 /\ batch'.sim = Nowhere
    BY <1>1, <1>2, <1>3, <1>5
  <2> QED
    BY <2>1, <2>2 DEF BatchOptions, Nowhere
<1>9. BatchWindow' /\ BatchRecovery' /\ BatchAttached' /\ BatchCover'
  BY <1>1, <1>2, <1>5, <1>7 DEF BatchWindow, BatchRecovery, BatchAttached, BatchCover
<1> QED
  BY <1>6, <1>7, <1>8, <1>9 DEF BatchHolds, Planned

LEMMA EndBatchHolds ==
  ASSUME EndBatch
  PROVE  BatchHolds'
BY NewBatchHolds DEF EndBatch, NoBatch

LEMMA DryBatchHolds ==
  ASSUME BatchShaped', ~batch'.opt.execute, batch'.pc \notin Submitted
  PROVE  BatchHolds'
BY DEF BatchHolds

(* A step that keeps to the window at hand.                                 *)
LEMMA PlannedBatchHolds ==
  ASSUME RowsInv', Steady, EvidenceHolds, recorded \subseteq recorded', BatchHolds,
         BatchShaped', batch.pc \in Planned, batch'.pc \in Planned,
         batch'.opt = batch.opt, batch'.window = batch.window,
         batch'.recovering = batch.recovering, batch'.iteration = batch.iteration,
         batch'.expected = batch.expected, batch'.sim = batch.sim,
         batch'.pc \in Submitted => batch.opt.execute,
         batch'.pc = "previewing" => ~batch.opt.execute,
         batch.opt.execute => BatchAttached'
  PROVE  BatchHolds'
<1>1. Planned \cap {"planning", "starting", "qualifying"} = {}
  BY DEF Planned, Submitted
<1>2. ASSUME batch.opt.execute
      PROVE  BatchOptions' /\ BatchWindow' /\ BatchRecovery' /\ BatchCover'
  <2>1. BatchOptions /\ BatchWindow /\ BatchRecovery /\ BatchCover
    BY <1>2 DEF BatchHolds
  <2>2. BatchOptions' /\ BatchWindow' /\ BatchRecovery'
    BY <2>1, <1>1 DEF BatchOptions, BatchWindow, BatchRecovery, Nowhere
  <2>3. BatchCover'
    <3>1. ~batch.recovering => InEvidence(batch.opt.first, batch.window.from - 1)'
      BY <2>1, InEvidenceStays DEF BatchCover
    <3> QED
      BY <1>1, <3>1 DEF BatchCover
  <2> QED
    BY <2>2, <2>3
<1> QED
  BY <1>2 DEF BatchHolds

LEMMA SubmittedBatchFits ==
  ASSUME BatchHolds, batch.pc \in Submitted
  PROVE  batch.opt.execute /\ Fits(batch.window)
<1>1. /\ batch.opt.execute
      /\ batch.window.from \in Int /\ batch.window.to = batch.window.from + WindowSize - 1
      /\ batch.window.label.kind \in {"batch", "recovery"}
  BY DEF BatchHolds, BatchWindow, Planned
<1> QED
  BY <1>1, Naturals DEF Fits

BatchBefore == RowsInv /\ EvidenceHolds /\ BatchHolds
BatchAfter  == RowsInv' /\ Steady /\ EvidenceHolds' /\ BatchHolds'

LEMMA QuietBatch ==
  ASSUME BatchBefore, UNCHANGED <<runs, cursor, adrift, recorded, tool>>
  PROVE  RowsInv' /\ Steady /\ recorded \subseteq recorded' /\ EvidenceHolds'
BY RowsUnchanged, EvidenceStays DEF BatchBefore

LEMMA InvokeBatchHolds ==
  ASSUME BatchBefore, InvokeBatch, UNCHANGED tool
  PROVE  BatchAfter
<1>1. RowsInv' /\ Steady /\ EvidenceHolds'
  BY QuietBatch DEF InvokeBatch, around, rows
<1> PICK execute \in BOOLEAN, only \in BOOLEAN, prefix \in Prefixes, source \in RunIds \cup {0} :
      batch' = NewBatch(
         [execute |-> execute, anchor |-> cursor.from, expected |-> cursor.to,
          first |-> IF source = 0 THEN cursor.to + 1 ELSE runs[source].from,
          max |-> MaxBatch, prefix |-> prefix, source |-> source, only |-> only],
         "starting", batch.used + 1)
  BY DEF InvokeBatch
<1> DEFINE first == IF source = 0 THEN cursor.to + 1 ELSE runs[source].from
           o == [execute |-> execute, anchor |-> cursor.from, expected |-> cursor.to,
                 first |-> first,
                 max |-> MaxBatch, prefix |-> prefix, source |-> source, only |-> only]
<1>2. cursor.from \in Int /\ cursor.to \in Int /\ first \in Int
  BY DEF BatchBefore, RowsInv, CursorHolds, Fits
<1>3. batch' = NewBatch(o, "starting", batch.used + 1)
  OBVIOUS
<1> HIDE DEF first
<1>4. o.anchor \in Int /\ o.expected \in Int /\ o.first \in Int
  BY <1>2
<1> HIDE DEF o
<1>5. BatchHolds'
  BY <1>3, <1>4, NewBatchHolds
<1> QED
  BY <1>1, <1>5 DEF BatchAfter

LEMMA BeginHolds ==
  ASSUME BatchBefore, Begin, UNCHANGED tool
  PROVE  BatchAfter
<1>1. RowsInv' /\ Steady /\ EvidenceHolds'
  BY QuietBatch DEF Begin, around, rows
<1> DEFINE pc == IF batch.opt.source = 0 THEN "planning" ELSE "qualifying"
<1>2. ASSUME batch' = [batch EXCEPT !.pc = pc]
      PROVE  BatchHolds'
  <2>1. /\ batch.pc = "starting" /\ BatchShaped
        /\ batch.opt.execute => BatchOptions /\ BatchRecovery
    BY DEF Begin, BatchBefore, BatchHolds
  <2>2. pc \in {"planning", "qualifying"} /\ (pc = "planning" => batch.opt.source = 0)
    OBVIOUS
  <2> HIDE DEF pc
  <2>3. /\ BatchShaped' /\ batch'.pc = pc /\ batch'.opt = batch.opt
        /\ batch'.recovering = batch.recovering /\ batch'.iteration = batch.iteration
        /\ batch'.expected = batch.expected /\ batch'.sim = batch.sim
        /\ batch'.window = batch.window /\ batch'.run = batch.run
        /\ batch'.clean = batch.clean
    BY <1>2, <2>1 DEF BatchShaped
  <2>4. CASE ~batch.opt.execute
    BY <2>2, <2>3, <2>4, DryBatchHolds DEF Submitted
  <2>5. CASE batch.opt.execute
    <3>1. BatchOptions' /\ BatchWindow' /\ BatchRecovery' /\ BatchAttached' /\ BatchCover'
      BY <2>1, <2>2, <2>3, <2>5
         DEF BatchOptions, BatchWindow, BatchRecovery, BatchAttached, BatchCover, Planned,
             Submitted, Nowhere
    <3> QED
      BY <3>1, <2>2, <2>3, <2>5 DEF BatchHolds, Submitted
  <2> QED
    BY <2>4, <2>5
<1> QED
  BY <1>1, <1>2, EndBatchHolds DEF Begin, BatchAfter

LEMMA QualifyBatchHolds ==
  ASSUME BatchBefore, QualifyBatch, UNCHANGED tool, tool = "runner"
  PROVE  BatchAfter
<1>1. RowsInv' /\ Steady /\ EvidenceHolds'
  BY QuietBatch DEF QualifyBatch, around, rows
<1> DEFINE o     == batch.opt
           end   == o.first + WindowSize - 1
           again == Request(Label("recovery", o.source, o.prefix), o.first, end)
           fit   == /\ o.expected = end
                    /\ CursorIs(o.anchor, o.expected)
                    /\ RecoveryEligible(o.source, o.first, end)
<1>2. ASSUME fit
      PROVE  BatchHolds'
  <2>1. batch' = [batch EXCEPT !.pc = "gating", !.recovering = TRUE, !.window = again]
    BY <1>2 DEF QualifyBatch
  <2>2. /\ again.from = batch.opt.first /\ again.to = again.from + WindowSize - 1
        /\ again.label.kind = "recovery"
    BY DEF Request, Label
  <2> HIDE DEF again
  <2>3. batch.pc = "qualifying" /\ BatchShaped
    BY DEF QualifyBatch, BatchBefore, BatchHolds
  <2>4. /\ BatchShaped' /\ batch'.pc = "gating" /\ batch'.opt = batch.opt
        /\ batch'.recovering = TRUE /\ batch'.iteration = batch.iteration
        /\ batch'.expected = batch.expected /\ batch'.sim = batch.sim /\ batch'.window = again
        /\ batch'.run = batch.run /\ batch'.clean = batch.clean
    BY <2>1, <2>3 DEF BatchShaped
  <2>5. CASE ~batch.opt.execute
    BY <2>4, <2>5, DryBatchHolds DEF Submitted
  <2>6. CASE batch.opt.execute
    <3>1. BatchOptions /\ BatchRecovery
      BY <2>6 DEF BatchBefore, BatchHolds
    <3>2. batch.opt.anchor <= again.from
      <4>1. PICK r \in RunIds : /\ runs[r].status = "COMPLETED"
                                /\ runs[r].from = o.first /\ runs[r].to = o.expected
        BY <1>2 DEF RecoveryEligible
      <4>2. Placed(runs[r]) /\ runs[r].label.kind # "rebuild" /\ runs[r].from \in Int
            /\ runs[r].to \in Int
        BY DEF BatchBefore, RowsInv, Fits
      <4>3. cursor.from = o.anchor /\ cursor.to = o.expected
        BY <1>2 DEF CursorIs
      <4> QED
        BY <4>1, <4>2, <4>3, <2>2 DEF Placed
    <3>3. BatchOptions' /\ BatchWindow' /\ BatchRecovery' /\ BatchAttached' /\ BatchCover'
      BY <2>2, <2>3, <2>4, <2>6, <3>1, <3>2
         DEF BatchOptions, BatchWindow, BatchRecovery, BatchAttached, BatchCover, Planned,
             Submitted, Nowhere
    <3> QED
      BY <3>3, <2>4, <2>6 DEF BatchHolds, Submitted
  <2> QED
    BY <2>5, <2>6
<1> QED
  BY <1>1, <1>2, EndBatchHolds DEF QualifyBatch, BatchAfter

LEMMA PlanBatchHolds ==
  ASSUME BatchBefore, PlanBatch, UNCHANGED tool
  PROVE  BatchAfter
<1>1. RowsInv' /\ Steady /\ EvidenceHolds'
  BY QuietBatch DEF PlanBatch, around, rows
<1> DEFINE o     == batch.opt
           to    == IF batch.sim # Nowhere THEN batch.sim ELSE cursor.to
           w     == NextRange(to, Label("batch", o.prefix, batch.iteration + 1))
           first == IF o.source = 0 THEN o.first ELSE o.first + WindowSize
           fit   == /\ CursorIs(o.anchor, batch.expected)
                    /\ batch.iteration = 0 => w.from = first
<1>2. ASSUME fit
      PROVE  BatchHolds'
  <2>1. batch' = [batch EXCEPT !.pc = "gating", !.window = w]
    BY <1>2 DEF PlanBatch
  <2>2. w.from = to + 1 /\ w.to = to + WindowSize /\ w.label.kind = "batch"
    BY DEF NextRange, Request, Label
  <2>3. batch.iteration = 0 => w.from = first
    BY <1>2
  <2>4. batch.sim = Nowhere => to = cursor.to
    OBVIOUS
  <2>5. cursor.from = batch.opt.anchor /\ cursor.to = batch.expected
    BY <1>2 DEF CursorIs
  <2> HIDE DEF w, to
  <2>6. batch.pc = "planning" /\ BatchShaped
    BY DEF PlanBatch, BatchBefore, BatchHolds
  <2>7. /\ BatchShaped' /\ batch'.pc = "gating" /\ batch'.opt = batch.opt
        /\ batch'.recovering = batch.recovering /\ batch'.iteration = batch.iteration
        /\ batch'.expected = batch.expected /\ batch'.sim = batch.sim /\ batch'.window = w
        /\ batch'.run = batch.run /\ batch'.clean = batch.clean
    BY <2>1, <2>6 DEF BatchShaped
  <2>8. CASE ~batch.opt.execute
    BY <2>7, <2>8, DryBatchHolds DEF Submitted
  <2>9. CASE batch.opt.execute
    <3>1. BatchOptions /\ BatchRecovery /\ BatchCover
      BY <2>9 DEF BatchBefore, BatchHolds
    <3>2. /\ w.from \in Int /\ w.to = w.from + WindowSize - 1 /\ w.from = batch.expected + 1
          /\ batch.opt.anchor <= w.from
      BY <2>2, <2>4, <2>5, <3>1, Naturals DEF BatchOptions, BatchBefore, RowsInv, CursorHolds
    <3>3. InEvidence(batch.opt.first, w.from - 1)
      <4>1. CASE batch.iteration = 0 /\ batch.opt.source = 0
        BY <4>1, <2>3, <3>1 DEF InEvidence, BatchOptions
      <4>2. CASE batch.iteration = 0 /\ batch.opt.source # 0
        <5>1. w.from - 1 = batch.opt.first + WindowSize - 1
          BY <4>2, <2>3, <3>1, Naturals DEF BatchOptions
        <5> QED
          BY <4>2, <5>1, <2>6, <3>1 DEF BatchCover
      <4>3. CASE batch.iteration # 0
        <5>1. w.from - 1 = batch.expected
          BY <3>1, <3>2 DEF BatchOptions
        <5> QED
          BY <4>3, <5>1, <2>6, <3>1 DEF BatchCover
      <4> QED
        BY <4>1, <4>2, <4>3
    <3>4. BatchOptions' /\ BatchWindow' /\ BatchRecovery' /\ BatchAttached'
      BY <2>2, <2>6, <2>7, <2>9, <3>1, <3>2
         DEF BatchOptions, BatchWindow, BatchRecovery, BatchAttached, Planned, Submitted, Nowhere
    <3>5. BatchCover'
      <4>1. PICK a, b : a = batch.opt.first /\ b = w.from - 1
        OBVIOUS
      <4>2. InEvidence(a, b)'
        BY <1>1, <3>3, <4>1, InEvidenceStays DEF BatchBefore, PlanBatch
      <4>3. InEvidence(batch.opt.first, batch.window.from - 1)'
        BY <2>7, <4>1, <4>2
      <4> QED
        BY <2>7, <4>3 DEF BatchCover, Planned
    <3> QED
      BY <3>4, <3>5, <2>7, <2>9 DEF BatchHolds, Submitted
  <2> QED
    BY <2>8, <2>9
<1> QED
  BY <1>1, <1>2, EndBatchHolds DEF PlanBatch, BatchAfter

LEMMA PassBatchGatesHolds ==
  ASSUME BatchBefore, PassBatchGates, UNCHANGED tool
  PROVE  BatchAfter
<1>1. RowsInv' /\ Steady /\ EvidenceHolds' /\ recorded \subseteq recorded'
  BY QuietBatch DEF PassBatchGates, around, rows
<1> DEFINE pc == IF batch.opt.execute THEN "posting" ELSE "previewing"
<1>2. ASSUME batch' = [batch EXCEPT !.pc = pc]
      PROVE  BatchHolds'
  <2>1. batch.pc = "gating" /\ BatchShaped
    BY DEF PassBatchGates, BatchBefore, BatchHolds
  <2>2. /\ pc \in {"posting", "previewing"}
        /\ pc = "posting" => batch.opt.execute
        /\ pc = "previewing" => ~batch.opt.execute
    OBVIOUS
  <2> HIDE DEF pc
  <2>3. /\ BatchShaped' /\ batch'.pc = pc /\ batch'.opt = batch.opt
        /\ batch'.recovering = batch.recovering /\ batch'.iteration = batch.iteration
        /\ batch'.expected = batch.expected /\ batch'.sim = batch.sim
        /\ batch'.window = batch.window /\ batch'.run = batch.run
        /\ batch'.clean = batch.clean
    BY <1>2, <2>1 DEF BatchShaped
  <2>4. batch.pc \in Planned /\ pc \in Planned /\ BatchAttached'
    BY <2>1, <2>2, <2>3 DEF BatchAttached, Planned, Submitted
  <2>5. pc \in Submitted => batch.opt.execute
    BY <2>2 DEF Submitted
  <2> QED
    BY <1>1, <2>2, <2>3, <2>4, <2>5, PlannedBatchHolds DEF BatchBefore
<1> QED
  BY <1>1, <1>2, EndBatchHolds DEF PassBatchGates, BatchAfter

LEMMA PostBatchHolds ==
  ASSUME BatchBefore, PostBatch, UNCHANGED tool
  PROVE  BatchAfter
<1>1. batch.opt.execute /\ Fits(batch.window)
  BY SubmittedBatchFits DEF BatchBefore, PostBatch, Submitted
<1>2. (Accept(batch.window) \/ UNCHANGED runs) /\ UNCHANGED <<cursor, adrift, recorded>>
  BY DEF PostBatch
<1>3. RowsInv' /\ Steady
  BY <1>1, <1>2, RequestKeepsRows DEF BatchBefore
<1>4. EvidenceHolds'
  BY <1>2, <1>3, EvidenceStays DEF BatchBefore
<1>5. ASSUME Accept(batch.window), batch' = [batch EXCEPT !.pc = "polling", !.run = Len(runs) + 1]
      PROVE  BatchHolds'
  <2>1. batch.pc = "posting" /\ BatchShaped
    BY DEF PostBatch, BatchBefore, BatchHolds
  <2>2. PICK n : n = Len(runs) + 1
    OBVIOUS
  <2>3. /\ BatchShaped' /\ batch'.pc = "polling" /\ batch'.opt = batch.opt
        /\ batch'.recovering = batch.recovering /\ batch'.iteration = batch.iteration
        /\ batch'.expected = batch.expected /\ batch'.sim = batch.sim
        /\ batch'.window = batch.window /\ batch'.run = n /\ batch'.clean = batch.clean
    BY <1>5, <2>1, <2>2 DEF BatchShaped
  <2>4. n \in RunIds'
    BY <1>5, <2>2 DEF Accept, RunIds, BatchBefore, RowsInv
  <2>5. batch.pc \in Planned /\ "polling" \in Planned /\ BatchAttached'
    BY <2>1, <2>3, <2>4 DEF BatchAttached, Planned, Submitted
  <2> QED
    BY <1>1, <1>2, <1>3, <2>3, <2>5, PlannedBatchHolds DEF BatchBefore
<1> QED
  BY <1>3, <1>4, <1>5, EndBatchHolds DEF PostBatch, BatchAfter

LEMMA PostBatchThrowsHolds ==
  ASSUME BatchBefore, PostBatchThrows, UNCHANGED tool
  PROVE  BatchAfter
<1>1. Fits(batch.window)
  BY SubmittedBatchFits DEF BatchBefore, PostBatchThrows, Submitted
<1>2. /\ Accept(batch.window) \/ UNCHANGED runs
      /\ adrift' \subseteq adrift \cup {batch.window} /\ UNCHANGED <<cursor, recorded>>
  BY DEF PostBatchThrows
<1>3. RowsInv' /\ Steady
  BY <1>1, <1>2, RequestKeepsRows DEF BatchBefore
<1>4. EvidenceHolds'
  BY <1>2, <1>3, EvidenceStays DEF BatchBefore
<1> QED
  BY <1>3, <1>4, EndBatchHolds DEF PostBatchThrows, BatchAfter

LEMMA VerifyBatchHolds ==
  ASSUME BatchBefore, VerifyBatch, UNCHANGED tool
  PROVE  BatchAfter
<1>1. RowsInv' /\ Steady /\ EvidenceHolds' /\ recorded \subseteq recorded'
  BY QuietBatch DEF VerifyBatch, around, rows
<1>2. PICK clean : clean = IF batch.recovering THEN RecoveredAsAsked ELSE CompletedAsAsked
  OBVIOUS
<1>3. batch.pc = "polling" /\ BatchShaped
  BY DEF VerifyBatch, BatchBefore, BatchHolds
<1>4. batch' = [batch EXCEPT !.pc = "recording", !.clean = clean]
  BY <1>2 DEF VerifyBatch
<1>5. /\ BatchShaped' /\ batch'.pc = "recording" /\ batch'.opt = batch.opt
      /\ batch'.recovering = batch.recovering /\ batch'.iteration = batch.iteration
      /\ batch'.expected = batch.expected /\ batch'.sim = batch.sim
      /\ batch'.window = batch.window /\ batch'.run = batch.run /\ batch'.clean = clean
  BY <1>3, <1>4 DEF BatchShaped
<1>6. PICK r : r = batch.run
  OBVIOUS
<1>7. batch.opt.execute /\ BatchWindow /\ BatchRecovery /\ BatchAttached
  BY <1>3 DEF BatchBefore, BatchHolds, Submitted
<1>8. /\ r \in RunIds /\ batch.opt.anchor <= batch.window.from
      /\ batch.recovering => batch.window.label.kind = "recovery"
  BY <1>3, <1>6, <1>7 DEF BatchAttached, BatchWindow, BatchRecovery, Planned, Submitted
<1>9. clean => Recordable(r) /\ SameWindow(r, batch.window)
  BY <1>2, <1>6, <1>8, CompletedIsRecordable DEF RecoveredAsAsked, CompletedAsAsked, BatchBefore
<1>10. Recordable(r) /\ SameWindow(r, batch.window) =>
         Recordable(r)' /\ SameWindow(r, batch.window)'
  BY <1>1, <1>5, RecordableStays DEF BatchBefore, SameWindow, Steady, Recordable
<1>11. r \in RunIds'
  BY <1>1, <1>8 DEF Steady
<1>12. BatchAttached'
  BY <1>5, <1>6, <1>9, <1>10, <1>11 DEF BatchAttached
<1>13. batch.pc \in Planned /\ "recording" \in Planned
  BY <1>3 DEF Planned, Submitted
<1>14. BatchHolds'
  BY <1>1, <1>5, <1>7, <1>12, <1>13, PlannedBatchHolds DEF BatchBefore
<1> QED
  BY <1>1, <1>14 DEF BatchAfter

(* A preview follows the same course and submits nothing.                   *)
LEMMA PreviewBatchHolds ==
  ASSUME BatchBefore, PreviewBatch, UNCHANGED tool
  PROVE  BatchAfter
<1>1. RowsInv' /\ Steady /\ EvidenceHolds'
  BY QuietBatch DEF PreviewBatch, around, rows
<1>2. ~batch.opt.execute /\ BatchShaped
  BY DEF PreviewBatch, BatchBefore, BatchHolds
<1>3. CASE EndBatch
  BY <1>1, <1>3, EndBatchHolds DEF BatchAfter
<1>4. CASE ~EndBatch
  <2>1. PICK upto : upto = batch.window.to
    OBVIOUS
  <2>2. \/ batch' = [batch EXCEPT !.pc = "planning", !.recovering = FALSE]
        \/ batch' = [batch EXCEPT !.pc = "planning", !.iteration = @ + 1, !.sim = upto]
    BY <1>4, <2>1 DEF PreviewBatch, AfterRecovery
  <2>3. BatchShaped' /\ batch'.opt = batch.opt /\ batch'.pc = "planning"
    BY <1>2, <2>2 DEF BatchShaped
  <2> QED
    BY <1>1, <1>2, <2>3, DryBatchHolds DEF BatchAfter, Submitted
<1> QED
  BY <1>3, <1>4

LEMMA RecordBatchHolds ==
  ASSUME BatchBefore, RecordBatch, UNCHANGED tool
  PROVE  BatchAfter
<1>1. RowsInv' /\ Steady
  BY RowsUnchanged DEF RecordBatch, BatchBefore, around, rows
<1>2. CASE ~batch.clean
  BY <1>1, <1>2, EvidenceStays, EndBatchHolds DEF RecordBatch, BatchBefore, BatchAfter
<1>3. CASE batch.clean
  <2>1. /\ batch.pc = "recording" /\ batch.opt.execute /\ BatchShaped
        /\ recorded' = recorded \cup {batch.run}
        /\ BatchOptions /\ BatchWindow /\ BatchRecovery /\ BatchAttached /\ BatchCover
    BY <1>3 DEF RecordBatch, BatchBefore, BatchHolds, Submitted
  <2>2. PICK r : r = batch.run
    OBVIOUS
  <2>3. PICK a, b, e : a = batch.opt.first /\ b = batch.window.from /\ e = batch.window.to
    OBVIOUS
  <2>4. /\ Recordable(r) /\ r \in recorded' /\ runs'[r] = runs[r]
        /\ runs[r].from = b /\ runs[r].to = e
    BY <1>3, <2>1, <2>2, <2>3 DEF BatchAttached, SameWindow, RecordBatch, around, rows
  <2>5. EvidenceHolds'
    <3>1. Recordable(r)'
      BY <1>1, <2>4, RecordableStays DEF BatchBefore
    <3>2. \A q \in recorded : Recordable(q)'
      BY <1>1, RecordableStays DEF BatchBefore, EvidenceHolds
    <3> QED
      BY <3>1, <3>2, <2>1, <2>2 DEF EvidenceHolds
  <2>6. a \in Int /\ b \in Int /\ e \in Int /\ e = b + WindowSize - 1 /\ batch.iteration \in Nat
    BY <2>1, <2>3, Naturals DEF BatchOptions, BatchWindow, Planned, Submitted
  <2>7. InEvidence(a, b - 1) \/ a = b
    BY <2>1, <2>3 DEF BatchRecovery, BatchCover, Planned, Submitted
  <2>8. InEvidence(a, e)'
    <3>1. InEvidence(a, b - 1)' \/ a = b
      BY <1>1, <2>1, <2>7, InEvidenceStays DEF BatchBefore
    <3> SUFFICES ASSUME NEW x \in a .. e
                 PROVE  \E q \in recorded' : x \in runs'[q].from .. runs'[q].to
      BY DEF InEvidence
    <3>2. CASE x >= b
      BY <3>2, <2>4, <2>6
    <3>3. CASE x < b
      BY <3>3, <3>1, <2>6 DEF InEvidence
    <3> QED
      BY <3>2, <3>3, <2>6
  <2>9. CASE EndBatch
    BY <1>1, <2>5, <2>9, EndBatchHolds DEF BatchAfter
  <2>10. CASE batch' = [batch EXCEPT !.pc = "planning", !.recovering = FALSE] /\ batch.recovering
    <3>1. /\ BatchShaped' /\ batch'.pc = "planning" /\ batch'.opt = batch.opt
          /\ batch'.recovering = FALSE /\ batch'.iteration = batch.iteration
          /\ batch'.expected = batch.expected /\ batch'.sim = batch.sim
          /\ batch'.window = batch.window /\ batch'.run = batch.run
          /\ batch'.clean = batch.clean
      BY <2>1, <2>10 DEF BatchShaped
    <3>2. batch.iteration = 0 /\ a = b
      BY <2>1, <2>3, <2>10 DEF BatchRecovery
    <3>3. InEvidence(batch.opt.first, batch.opt.first + WindowSize - 1)'
      BY <2>3, <2>6, <2>8, <3>1, <3>2
    <3>4. BatchOptions' /\ BatchWindow' /\ BatchRecovery' /\ BatchAttached' /\ BatchCover'
      BY <2>1, <3>1, <3>2, <3>3
         DEF BatchOptions, BatchWindow, BatchRecovery, BatchAttached, BatchCover, Planned,
             Submitted, Nowhere
    <3>5. BatchHolds'
      BY <3>1, <3>4, <2>1 DEF BatchHolds, Submitted
    <3> QED
      BY <1>1, <2>5, <3>5 DEF BatchAfter
  <2>11. CASE batch' = [batch EXCEPT !.pc = "planning", !.iteration = @ + 1, !.expected = e]
              /\ ~batch.recovering
    <3>1. /\ BatchShaped' /\ batch'.pc = "planning" /\ batch'.opt = batch.opt
          /\ batch'.recovering = batch.recovering /\ batch'.iteration = batch.iteration + 1
          /\ batch'.expected = e /\ batch'.sim = batch.sim /\ batch'.window = batch.window
          /\ batch'.run = batch.run /\ batch'.clean = batch.clean
      BY <2>1, <2>11 DEF BatchShaped
    <3>2. InEvidence(batch.opt.first, batch.expected)'
      BY <2>3, <2>8, <3>1
    <3>3. batch.iteration + 1 \in Nat /\ batch.iteration + 1 # 0
      BY <2>6
    <3>4. BatchOptions' /\ BatchWindow' /\ BatchRecovery' /\ BatchAttached' /\ BatchCover'
      BY <2>1, <2>6, <2>11, <3>1, <3>2, <3>3
         DEF BatchOptions, BatchWindow, BatchRecovery, BatchAttached, BatchCover, Planned,
             Submitted, Nowhere
    <3>5. BatchHolds'
      BY <3>1, <3>4, <2>1 DEF BatchHolds, Submitted
    <3> QED
      BY <1>1, <2>5, <3>5 DEF BatchAfter
  <2> QED
    BY <1>3, <2>3, <2>9, <2>10, <2>11 DEF RecordBatch, AfterRecovery
<1> QED
  BY <1>2, <1>3

LEMMA BatchStepHolds ==
  ASSUME BatchBefore, BatchNext, UNCHANGED tool, tool = "runner"
  PROVE  BatchAfter /\ recorded \subseteq recorded'
<1>1. CASE BatchPollTimeout \/ FinishBatch \/ BatchFails
  <2>1. EndBatch /\ UNCHANGED <<runs, cursor, adrift, recorded>>
    BY <1>1 DEF BatchPollTimeout, FinishBatch, BatchFails, around, rows
  <2> QED
    BY <2>1, QuietBatch, EndBatchHolds DEF BatchAfter
<1>2. recorded \subseteq recorded'
  BY DEF BatchNext, InvokeBatch, Begin, QualifyBatch, PlanBatch, PassBatchGates, PreviewBatch,
         PostBatch, PostBatchThrows, VerifyBatch, BatchPollTimeout, RecordBatch, FinishBatch,
         BatchFails
<1> QED
  BY <1>1, <1>2, InvokeBatchHolds, BeginHolds, QualifyBatchHolds, PlanBatchHolds,
     PassBatchGatesHolds, PreviewBatchHolds, PostBatchHolds, PostBatchThrowsHolds,
     VerifyBatchHolds, RecordBatchHolds DEF BatchNext

-----------------------------------------------------------------------------
(* The backfill                                                             *)

BackShaped ==
  back = [f \in {"pc", "execute", "allow", "expected", "upper", "start", "used", "iteration",
                 "sim", "window", "run", "through", "reason"} |-> back[f]]

Requested == {"posting", "polling", "rebuilding", "pollingRebuild"}

BackWindow ==
  back.pc \in Requested \cup {"gating"} =>
    /\ back.window.from \in Nat /\ back.window.to \in Int /\ back.window.to <= Frontier
    /\ back.window = Request(Label("backfill", 0, back.window.label.n),
                             back.window.from, back.window.to)
    /\ FinalDue(back.window) => back.window.from <= Floor
    /\ back.start \in Int /\ back.start # Nowhere

BackAttached ==
  /\ back.pc = "polling" => back.run \in RunIds
  /\ back.pc = "pollingRebuild" =>
       /\ back.run \in RunIds
       /\ runs[back.run].label = Label("rebuild", 0, back.window.label.n)

BackCover ==
  /\ back.pc = "planning" /\ back.start # Nowhere =>
       /\ back.start \in Int /\ back.expected \in Nat
       /\ InEvidence(back.expected, back.start - 1)
  /\ back.pc \in {"gating", "posting", "polling"} =>
       InEvidence(back.window.to + 1, back.start - 1)
  /\ back.pc \in {"rebuilding", "pollingRebuild"} =>
       /\ InEvidence(back.window.from, back.start - 1)
       /\ back.expected = back.window.from /\ cursor.from <= back.window.from

Rebuilt(n) ==
  \E r \in RunIds : /\ runs[r].label = Label("rebuild", 0, n)
                    /\ runs[r].status = "COMPLETED"
                    /\ \A i \in DOMAIN runs[r].report : runs[r].report[i] = Expected

(* The rebuild of the window at hand may be still to come.                  *)
BackThrough ==
  \A n \in back.through :
    n % RebuildInterval = 0 =>
      Rebuilt(n) \/ (back.pc \in {"rebuilding", "pollingRebuild"} /\ n = back.window.label.n)

BackComplete ==
  back.reason = "campaign_complete_after_final_rebuild" =>
    back.pc = "ended" /\ CompleteAfterFinalRebuild

BackHolds ==
  /\ BackShaped /\ BackComplete
  /\ back.pc \in Requested => back.execute
  /\ back.pc = "previewing" => ~back.execute
  /\ back.execute => /\ back.sim = Nowhere
                     /\ BackWindow /\ BackAttached /\ BackCover /\ BackThrough

LEMMA RebuiltStays ==
  ASSUME Steady, NEW n, Rebuilt(n)
  PROVE  Rebuilt(n)'
BY DEF Steady, Rebuilt

LEMMA CompleteStays ==
  ASSUME RowsInv, RowsInv', Steady, BackComplete, back'.reason = back.reason,
         back.pc = "ended" => back'.pc = "ended"
  PROVE  BackComplete'
<1>1. CompleteAfterFinalRebuild => CompleteAfterFinalRebuild'
  <2> SUFFICES ASSUME CompleteAfterFinalRebuild,
                      back.reason = "campaign_complete_after_final_rebuild"
               PROVE  CompleteAfterFinalRebuild'
    BY DEF CompleteAfterFinalRebuild
  <2>1. cursor.from <= Floor
    BY DEF CompleteAfterFinalRebuild
  <2>2. PICK r \in RunIds : /\ runs[r].label = Label("rebuild", 0, TotalWindows)
                            /\ runs[r].status = "COMPLETED"
                            /\ runs[r].report = <<>>
    BY DEF CompleteAfterFinalRebuild
  <2>3. r \in RunIds' /\ runs'[r] = runs[r]
    BY <2>2 DEF Steady
  <2>4. cursor'.from <= Floor
    BY <2>1, BackfillAssumption DEF Steady, RowsInv, CursorHolds, Floor
  <2> QED
    BY <2>2, <2>3, <2>4 DEF CompleteAfterFinalRebuild, TotalWindows, Floor
<1> QED
  BY <1>1 DEF BackComplete

LEMMA BackStays ==
  ASSUME RowsInv, RowsInv', Steady, EvidenceHolds, recorded \subseteq recorded',
         BackHolds, UNCHANGED back
  PROVE  BackHolds'
<1>1. BackShaped' /\ BackComplete'
  BY CompleteStays DEF BackHolds, BackShaped
<1>2. BackWindow' <=> BackWindow
  BY DEF BackWindow, FinalDue, TotalWindows, Floor
<1>3. BackAttached => BackAttached'
  BY DEF BackAttached, Steady
<1>4. ASSUME BackCover, BackWindow
      PROVE  BackCover'
  <2>1. cursor'.from <= cursor.from /\ cursor.from \in Int /\ cursor'.from \in Int
    BY DEF Steady, RowsInv, CursorHolds
  <2>2. back.pc \in {"rebuilding", "pollingRebuild"} => cursor'.from <= back.window.from
    BY <1>4, <2>1 DEF BackCover, BackWindow, Requested
  <2> QED
    BY <1>4, <2>2, InEvidenceStays DEF BackCover
<1>5. BackThrough => BackThrough'
  BY RebuiltStays DEF BackThrough
<1> QED
  BY <1>1, <1>2, <1>3, <1>4, <1>5 DEF BackHolds

LEMMA EndBackfillHolds ==
  ASSUME NEW reason, EndBackfill(reason),
         reason = "campaign_complete_after_final_rebuild" => CompleteAfterFinalRebuild'
  PROVE  BackHolds'
<1> DEFINE b == [NewBackfill(FALSE, FALSE, Nowhere, "ended", back.used) EXCEPT !.reason = reason]
<1>1. b = [f \in {"pc", "execute", "allow", "expected", "upper", "start", "used", "iteration",
                  "sim", "window", "run", "through", "reason"} |-> b[f]]
  BY DEF NewBackfill
<1>2. b.pc = "ended" /\ b.reason = reason
  BY DEF NewBackfill
<1>3. b.execute = FALSE
  BY DEF NewBackfill
<1> HIDE DEF b
<1>4. back' = b
  BY DEF EndBackfill, b
<1>5. BackShaped'
  BY <1>1, <1>4 DEF BackShaped
<1>6. BackComplete'
  BY <1>2, <1>4 DEF BackComplete
<1> QED
  BY <1>2, <1>3, <1>4, <1>5, <1>6 DEF BackHolds, Requested

LEMMA DryBackHolds ==
  ASSUME BackShaped', ~back'.execute, back'.pc \notin Requested,
         back'.reason # "campaign_complete_after_final_rebuild"
  PROVE  BackHolds'
BY DEF BackHolds, BackComplete

BackBefore == RowsInv /\ EvidenceHolds /\ BackHolds
BackAfter  == RowsInv' /\ Steady /\ EvidenceHolds' /\ BackHolds'

LEMMA QuietBackfill ==
  ASSUME BackBefore, UNCHANGED <<runs, cursor, adrift, recorded, tool>>
  PROVE  RowsInv' /\ Steady /\ recorded \subseteq recorded' /\ EvidenceHolds'
BY RowsUnchanged, EvidenceStays DEF BackBefore

LEMMA InvokeBackfillHolds ==
  ASSUME BackBefore, InvokeBackfill, UNCHANGED tool
  PROVE  BackAfter
<1>1. RowsInv' /\ Steady /\ EvidenceHolds'
  BY QuietBackfill DEF InvokeBackfill, around, rows
<1> PICK execute \in BOOLEAN, allow \in BOOLEAN, expected \in {cursor.from, Nowhere} :
      back' = NewBackfill(execute, allow, expected, "planning", back.used + 1)
  BY DEF InvokeBackfill
<1> DEFINE b == NewBackfill(execute, allow, expected, "planning", back.used + 1)
<1>2. b = [f \in {"pc", "execute", "allow", "expected", "upper", "start", "used", "iteration",
                  "sim", "window", "run", "through", "reason"} |-> b[f]]
  BY DEF NewBackfill
<1>3. b.pc = "planning" /\ b.reason = ""
  BY DEF NewBackfill
<1>4. b.start = Nowhere /\ b.sim = Nowhere
  BY DEF NewBackfill
<1>5. b.through = {}
  BY DEF NewBackfill
<1> HIDE DEF b
<1>6. back' = b
  BY DEF b
<1>7. /\ BackShaped' /\ back'.pc = "planning" /\ back'.reason = "" /\ back'.start = Nowhere
      /\ back'.sim = Nowhere /\ back'.through = {}
  BY <1>2, <1>3, <1>4, <1>5, <1>6 DEF BackShaped
<1>8. BackWindow' /\ BackAttached' /\ BackCover' /\ BackThrough' /\ BackComplete'
  BY <1>7 DEF BackWindow, BackAttached, BackCover, BackThrough, BackComplete, Requested, Nowhere
<1>9. BackHolds'
  BY <1>7, <1>8 DEF BackHolds, Requested, Nowhere
<1> QED
  BY <1>1, <1>9 DEF BackAfter

(* Where the grid ends.                                                     *)
LEMMA LastWindow ==
  ASSUME NEW from \in Int, from > Floor, OnGrid(from)
  PROVE  /\ GridWindow(from).from \in Nat /\ GridWindow(from).to = from - 1
         /\ GridWindow(from) = Request(Label("backfill", 0, GridWindow(from).label.n),
                                       GridWindow(from).from, GridWindow(from).to)
         /\ FinalDue(GridWindow(from)) => GridWindow(from).from <= Floor
<1>1. Floor \in Nat /\ Anchor \in Nat /\ WindowSize \in Nat \ {0}
  BY BackfillAssumption, Naturals DEF Floor
<1>2. GridWindow(from).from = IF from - WindowSize < Floor THEN Floor ELSE from - WindowSize
  BY DEF GridWindow, Request
<1>3. GridWindow(from).label = Label("backfill", 0, NumberAt(from))
  BY DEF GridWindow, Request
<1>4. GridWindow(from).label.n = NumberAt(from)
  BY <1>3 DEF Label
<1>5. ASSUME FinalDue(GridWindow(from))
      PROVE  GridWindow(from).from <= Floor
  <2>1. PICK k : k = (Anchor - from) \div WindowSize
    OBVIOUS
  <2>2. PICK n : n = Anchor - from
    OBVIOUS
  <2>3. n \in Nat /\ n % WindowSize = 0
    BY <1>1, <2>2 DEF OnGrid
  <2>4. k * WindowSize = n /\ k \in Nat
    BY <1>1, <2>1, <2>2, <2>3
  <2>5. PICK m : m = Anchor - Floor
    OBVIOUS
  <2>6. m \in Int
    BY <1>1, <2>5
  <2>7. k + 1 = (m + WindowSize - 1) \div WindowSize
    BY <1>4, <1>5, <2>1, <2>5 DEF FinalDue, NumberAt, TotalWindows
  <2>8. ((m + WindowSize - 1) \div WindowSize) * WindowSize >= m
    BY <1>1, <2>6
  <2>9. (k + 1) * WindowSize = k * WindowSize + WindowSize
    BY <1>1, <2>4
  <2>10. n + WindowSize >= m
    BY <2>4, <2>7, <2>8, <2>9
  <2>11. from - WindowSize <= Floor
    BY <1>1, <2>2, <2>5, <2>10
  <2> QED
    BY <1>1, <1>2, <2>11
<1>6. GridWindow(from).to = from - 1
  BY DEF GridWindow, Request
<1>7. GridWindow(from) = Request(Label("backfill", 0, GridWindow(from).label.n),
                                GridWindow(from).from, GridWindow(from).to)
  BY <1>2, <1>4, <1>6 DEF GridWindow
<1> QED
  BY <1>1, <1>2, <1>5, <1>6, <1>7

LEMMA PlanBackfillHolds ==
  ASSUME BackBefore, PlanBackfill, UNCHANGED tool
  PROVE  BackAfter
<1>1. RowsInv' /\ Steady /\ EvidenceHolds' /\ recorded \subseteq recorded'
  BY QuietBackfill DEF PlanBackfill, around, rows
<1> DEFINE from  == IF back.sim # Nowhere THEN back.sim ELSE cursor.from
           w     == GridWindow(from)
           start == IF back.start = Nowhere THEN cursor.from ELSE back.start
<1>2. ASSUME CursorAsExpected, ~(from <= Floor), OnGrid(from),
             back' = [back EXCEPT !.pc = "gating", !.window = w, !.upper = cursor.to,
                        !.expected = cursor.from, !.start = start]
      PROVE  BackHolds'
  <2>1. PICK v, s : v = w /\ s = start
    OBVIOUS
  <2>2. back.pc = "planning" /\ BackShaped /\ BackComplete
    BY DEF PlanBackfill, BackBefore, BackHolds
  <2>3. /\ BackShaped' /\ back'.pc = "gating" /\ back'.execute = back.execute
        /\ back'.expected = cursor.from /\ back'.upper = cursor.to /\ back'.start = s
        /\ back'.iteration = back.iteration /\ back'.sim = back.sim /\ back'.window = v
        /\ back'.run = back.run /\ back'.through = back.through /\ back'.reason = back.reason
    BY <1>2, <2>1, <2>2 DEF BackShaped
  <2>4. back.reason # "campaign_complete_after_final_rebuild"
    BY <2>2 DEF BackComplete
  <2>5. CASE ~back.execute
    BY <2>3, <2>4, <2>5, DryBackHolds DEF Requested
  <2>6. CASE back.execute
    <3>1. back.sim = Nowhere /\ BackCover /\ BackThrough
      BY <2>6 DEF BackBefore, BackHolds
    <3>2. /\ cursor.from \in Int /\ cursor.to \in Int /\ Floor \in Nat
          /\ cursor.from <= Frontier
      BY BackfillAssumption, Naturals DEF BackBefore, RowsInv, CursorHolds, Floor
    <3>3. v = GridWindow(cursor.from) /\ cursor.from > Floor /\ OnGrid(cursor.from)
      BY <1>2, <2>1, <3>1, <3>2
    <3>4. /\ v.from \in Nat /\ v.to = cursor.from - 1
          /\ v = Request(Label("backfill", 0, v.label.n), v.from, v.to)
          /\ FinalDue(v) => v.from <= Floor
      BY <3>2, <3>3, LastWindow
    <3>5. s \in Int /\ s # Nowhere
      BY <2>1, <2>2, <3>1, <3>2, <3>3 DEF BackCover, Nowhere
    <3>6. BackWindow'
      BY <2>3, <3>2, <3>4, <3>5, Naturals DEF BackWindow, FinalDue, TotalWindows, Floor, Nowhere
    <3>7. InEvidence(v.to + 1, s - 1)
      <4>1. v.to + 1 = cursor.from
        BY <3>2, <3>4
      <4>2. CASE back.start = Nowhere
        BY <4>1, <4>2, <2>1, <3>2 DEF InEvidence
      <4>3. CASE back.start # Nowhere
        <5>1. back.expected \in Nat /\ InEvidence(back.expected, back.start - 1)
          BY <4>3, <2>2, <3>1 DEF BackCover
        <5>2. back.expected = cursor.from
          BY <1>2, <5>1 DEF CursorAsExpected, Nowhere
        <5> QED
          BY <4>1, <4>3, <5>1, <5>2, <2>1
      <4> QED
        BY <4>2, <4>3
    <3>8. BackCover'
      <4>1. PICK a, b : a = v.to + 1 /\ b = s - 1
        OBVIOUS
      <4>2. InEvidence(a, b)'
        BY <1>1, <3>7, <4>1, InEvidenceStays DEF BackBefore
      <4>3. InEvidence(back.window.to + 1, back.start - 1)'
        BY <2>3, <4>1, <4>2
      <4> QED
        BY <2>3, <4>3 DEF BackCover
    <3>9. BackThrough'
      BY <1>1, <2>2, <2>3, <3>1, RebuiltStays DEF BackThrough
    <3>10. BackAttached' /\ BackComplete'
      BY <2>3, <2>4 DEF BackAttached, BackComplete
    <3> QED
      BY <2>3, <2>6, <3>1, <3>6, <3>8, <3>9, <3>10 DEF BackHolds, Requested, Nowhere
  <2> QED
    BY <2>5, <2>6
<1>3. ASSUME NEW reason, EndBackfill(reason), reason # "campaign_complete_after_final_rebuild"
      PROVE  BackHolds'
  BY <1>3, EndBackfillHolds
<1> QED
  BY <1>1, <1>2, <1>3 DEF PlanBackfill, BackAfter

LEMMA PassBackfillGatesHolds ==
  ASSUME BackBefore, PassBackfillGates, UNCHANGED tool
  PROVE  BackAfter
<1>1. RowsInv' /\ Steady /\ EvidenceHolds' /\ recorded \subseteq recorded'
  BY QuietBackfill DEF PassBackfillGates, around, rows
<1> DEFINE pc == IF back.execute THEN "posting" ELSE "previewing"
<1>2. ASSUME back' = [back EXCEPT !.pc = pc]
      PROVE  BackHolds'
  <2>1. /\ back.pc = "gating" /\ BackShaped
        /\ back.reason # "campaign_complete_after_final_rebuild"
    BY DEF PassBackfillGates, BackBefore, BackHolds, BackComplete
  <2>2. /\ pc \in {"posting", "previewing"}
        /\ pc = "posting" => back.execute
        /\ pc = "previewing" => ~back.execute
    OBVIOUS
  <2> HIDE DEF pc
  <2>3. /\ BackShaped' /\ back'.pc = pc /\ back'.execute = back.execute
        /\ back'.expected = back.expected /\ back'.upper = back.upper
        /\ back'.start = back.start /\ back'.iteration = back.iteration
        /\ back'.sim = back.sim /\ back'.window = back.window /\ back'.run = back.run
        /\ back'.through = back.through /\ back'.reason = back.reason
    BY <1>2, <2>1 DEF BackShaped
  <2>4. CASE ~back.execute
    BY <2>1, <2>2, <2>3, <2>4, DryBackHolds DEF Requested
  <2>5. CASE back.execute
    <3>1. back.sim = Nowhere /\ BackWindow /\ BackCover /\ BackThrough
      BY <2>5 DEF BackBefore, BackHolds
    <3>2. BackWindow' /\ BackAttached' /\ BackComplete'
      BY <2>1, <2>2, <2>3, <2>5, <3>1
         DEF BackWindow, BackAttached, BackComplete, FinalDue, TotalWindows, Floor, Requested,
             Nowhere
    <3>3. InEvidence(back.window.to + 1, back.start - 1)'
      BY <1>1, <2>1, <2>3, <3>1, InEvidenceStays DEF BackCover, BackBefore
    <3>4. BackCover'
      BY <2>2, <2>3, <2>5, <3>3 DEF BackCover
    <3>5. BackThrough'
      BY <1>1, <2>1, <2>3, <3>1, RebuiltStays DEF BackThrough
    <3> QED
      BY <2>2, <2>3, <2>5, <3>1, <3>2, <3>4, <3>5 DEF BackHolds, Nowhere
  <2> QED
    BY <2>4, <2>5
<1> QED
  BY <1>1, <1>2, EndBackfillHolds DEF PassBackfillGates, BackAfter

LEMMA PreviewBackfillHolds ==
  ASSUME BackBefore, PreviewBackfill, UNCHANGED tool
  PROVE  BackAfter
<1>1. RowsInv' /\ Steady /\ EvidenceHolds'
  BY QuietBackfill DEF PreviewBackfill, around, rows
<1>2. /\ ~back.execute /\ BackShaped
      /\ back.reason # "campaign_complete_after_final_rebuild"
  BY DEF PreviewBackfill, BackBefore, BackHolds, BackComplete
<1>3. PICK down : down = back.window.from
  OBVIOUS
<1>4. back' = [back EXCEPT !.pc = "planning", !.iteration = @ + 1, !.sim = down]
  BY <1>3 DEF PreviewBackfill
<1>5. BackShaped' /\ back'.pc = "planning" /\ back'.execute = back.execute
      /\ back'.reason = back.reason
  BY <1>2, <1>4 DEF BackShaped
<1> QED
  BY <1>1, <1>2, <1>5, DryBackHolds DEF BackAfter, Requested

(* Both requests of a backfill can be a run.                                *)
LEMMA RequestedFits ==
  ASSUME BackHolds, back.pc \in {"posting", "rebuilding"}, tool = "backfill"
  PROVE  /\ back.execute /\ Fits(back.window) /\ Fits(RebuildOf(back.window))
         /\ RebuildOf(back.window).label = Label("rebuild", 0, back.window.label.n)
<1>1. PICK n, from, to : /\ n = back.window.label.n
                         /\ from = back.window.from /\ to = back.window.to
  OBVIOUS
<1>2. /\ back.execute /\ from \in Int /\ to \in Int
      /\ back.window = Request(Label("backfill", 0, n), from, to)
  BY <1>1 DEF BackHolds, BackWindow, Requested
<1>3. Fits(back.window)
  BY <1>2 DEF Fits, Request, Label
<1>4. RebuildOf(back.window) = Request(Label("rebuild", 0, n), from, to)
  BY <1>2 DEF RebuildOf, Request, Label
<1>5. Fits(RebuildOf(back.window))
  BY <1>2, <1>4 DEF Fits, Request, Label
<1>6. RebuildOf(back.window).label = Label("rebuild", 0, n)
  BY <1>4 DEF Request
<1> QED
  BY <1>1, <1>2, <1>3, <1>5, <1>6

LEMMA PostBackfillHolds ==
  ASSUME BackBefore, PostBackfill, UNCHANGED tool, tool = "backfill"
  PROVE  BackAfter
<1> DEFINE w == IF back.pc = "posting" THEN back.window ELSE RebuildOf(back.window)
<1>1. /\ back.execute /\ Fits(w) /\ back.pc \in {"posting", "rebuilding"}
      /\ back.pc = "rebuilding" => w.label = Label("rebuild", 0, back.window.label.n)
  BY RequestedFits DEF BackBefore, PostBackfill
<1>2. /\ Accept(w) \/ UNCHANGED runs
      /\ UNCHANGED <<cursor, adrift, recorded>>
  BY DEF PostBackfill, Ask
<1>3. RowsInv' /\ Steady
  BY <1>1, <1>2, RequestKeepsRows DEF BackBefore
<1>4. EvidenceHolds'
  BY <1>2, <1>3, EvidenceStays DEF BackBefore
<1> DEFINE pc == IF back.pc = "posting" THEN "polling" ELSE "pollingRebuild"
<1>5. ASSUME Accept(w), back' = [back EXCEPT !.pc = pc, !.run = Len(runs) + 1]
      PROVE  BackHolds'
  <2>1. /\ BackShaped /\ BackWindow /\ BackCover /\ BackThrough /\ back.sim = Nowhere
        /\ back.reason # "campaign_complete_after_final_rebuild"
    BY <1>1 DEF BackBefore, BackHolds, BackComplete
  <2>2. PICK n : n = Len(runs) + 1
    OBVIOUS
  <2>3. n \in RunIds' /\ runs'[n].label = w.label
    <3>1. PICK labels : runs \in Seq(RunRows(labels))
      BY DEF BackBefore, RowsInv
    <3>2. PICK row : row = NewRun(w)
      OBVIOUS
    <3>3. row.label = w.label
      BY <3>2 DEF NewRun
    <3>4. runs' = Append(runs, row)
      BY <1>5, <3>2 DEF Accept
    <3> QED
      BY <3>1, <3>3, <3>4, <2>2 DEF RunIds
  <2>4. /\ back.pc = "posting" => pc = "polling"
        /\ back.pc = "rebuilding" => pc = "pollingRebuild"
        /\ pc \in {"polling", "pollingRebuild"}
    OBVIOUS
  <2> HIDE DEF pc, w
  <2>5. /\ BackShaped' /\ back'.pc = pc /\ back'.execute = back.execute
        /\ back'.expected = back.expected /\ back'.upper = back.upper
        /\ back'.start = back.start /\ back'.iteration = back.iteration
        /\ back'.sim = back.sim /\ back'.window = back.window /\ back'.run = n
        /\ back'.through = back.through /\ back'.reason = back.reason
    BY <1>5, <2>1, <2>2 DEF BackShaped
  <2>6. BackWindow' /\ BackComplete'
    BY <1>1, <2>1, <2>4, <2>5
       DEF BackWindow, BackComplete, FinalDue, TotalWindows, Floor, Requested, Nowhere
  <2>7. BackAttached'
    BY <1>1, <2>3, <2>4, <2>5 DEF BackAttached
  <2>8. BackCover'
    <3>1. CASE back.pc = "posting"
      <4>1. InEvidence(back.window.to + 1, back.start - 1)'
        BY <1>2, <1>3, <2>1, <2>5, <3>1, InEvidenceStays DEF BackCover, BackBefore
      <4> QED
        BY <4>1, <3>1, <2>4, <2>5 DEF BackCover
    <3>2. CASE back.pc = "rebuilding"
      <4>1. InEvidence(back.window.from, back.start - 1)'
        BY <1>2, <1>3, <2>1, <2>5, <3>2, InEvidenceStays DEF BackCover, BackBefore
      <4> QED
        BY <4>1, <3>2, <1>2, <2>1, <2>4, <2>5 DEF BackCover
    <3> QED
      BY <3>1, <3>2, <1>1
  <2>9. BackThrough'
    BY <1>1, <1>3, <2>1, <2>4, <2>5, RebuiltStays DEF BackThrough
  <2> QED
    BY <1>1, <2>1, <2>4, <2>5, <2>6, <2>7, <2>8, <2>9 DEF BackHolds, Nowhere
<1> QED
  BY <1>1, <1>3, <1>4, <1>5, EndBackfillHolds DEF PostBackfill, Ask, BackAfter

LEMMA PostBackfillThrowsHolds ==
  ASSUME BackBefore, PostBackfillThrows, UNCHANGED tool, tool = "backfill"
  PROVE  BackAfter
<1>1. PICK w : /\ w = IF back.pc = "posting" THEN back.window ELSE RebuildOf(back.window)
               /\ Accept(w) \/ UNCHANGED runs
               /\ adrift' \subseteq adrift \cup {w} /\ UNCHANGED <<cursor, recorded>>
  BY DEF PostBackfillThrows
<1>2. Fits(w)
  BY <1>1, RequestedFits DEF BackBefore, PostBackfillThrows
<1>3. RowsInv' /\ Steady
  BY <1>1, <1>2, RequestKeepsRows DEF BackBefore
<1>4. EvidenceHolds'
  BY <1>1, <1>3, EvidenceStays DEF BackBefore
<1> QED
  BY <1>3, <1>4, EndBackfillHolds DEF PostBackfillThrows, BackAfter

LEMMA RecordBackfillHolds ==
  ASSUME BackBefore, RecordBackfill, UNCHANGED tool
  PROVE  BackAfter
<1>1. RowsInv' /\ Steady
  BY RowsUnchanged DEF RecordBackfill, BackBefore, around, rows
<1>2. /\ back.pc = "polling" /\ back.execute /\ BackShaped /\ back.sim = Nowhere
      /\ BackWindow /\ BackAttached /\ BackCover /\ BackThrough
      /\ back.reason # "campaign_complete_after_final_rebuild"
      /\ UNCHANGED <<runs, cursor>>
  BY DEF RecordBackfill, BackBefore, BackHolds, BackComplete, Requested, around, rows
<1>3. CASE ~BackfilledAsAsked
  BY <1>1, <1>3, EvidenceStays, EndBackfillHolds DEF RecordBackfill, BackBefore, BackAfter
<1>4. CASE BackfilledAsAsked
  <2>1. PICK w, r, n : w = back.window /\ r = back.run /\ n = back.window.label.n
    OBVIOUS
  <2>2. /\ r \in RunIds /\ w.from \in Nat /\ w.to \in Int /\ w.to <= Frontier
        /\ back.start \in Int
    BY <1>2, <2>1 DEF BackAttached, BackWindow, Requested
  <2>3. /\ runs[r].status = "COMPLETED" /\ runs[r].from = w.from /\ runs[r].to = w.to
        /\ Row(r).count = 0 /\ cursor.from = w.from
    BY <1>4, <2>1 DEF BackfilledAsAsked, BackfillClean, CursorIs
  <2>4. Recordable(r)
    <3>1. runs[r].report = <<>>
      BY <2>2, <2>3, RowTellsAll DEF BackBefore
    <3>2. runs[r].to <= cursor.to /\ cursor.from <= runs[r].from
      BY <2>2, <2>3, Naturals DEF BackBefore, RowsInv, CursorHolds
    <3> QED
      BY <2>2, <2>3, <3>1, <3>2 DEF Recordable
  <2>5. recorded' = recorded \cup {r}
    BY <1>4, <2>1 DEF RecordBackfill
  <2>6. EvidenceHolds'
    <3>1. Recordable(r)'
      BY <1>1, <2>4, RecordableStays DEF BackBefore
    <3>2. \A q \in recorded : Recordable(q)'
      BY <1>1, RecordableStays DEF BackBefore, EvidenceHolds
    <3> QED
      BY <3>1, <3>2, <2>5 DEF EvidenceHolds
  <2>7. PICK s : s = back.start - 1
    OBVIOUS
  <2>8. InEvidence(w.from, s)'
    <3>1. InEvidence(w.to + 1, s)
      BY <1>2, <2>1, <2>7 DEF BackCover
    <3>2. InEvidence(w.to + 1, s)'
      BY <1>1, <2>5, <3>1, InEvidenceStays DEF BackBefore
    <3>3. r \in recorded' /\ runs'[r].from = w.from /\ runs'[r].to = w.to
      BY <1>2, <2>3, <2>5
    <3>4. s \in Int
      BY <2>2, <2>7
    <3> SUFFICES ASSUME NEW x \in w.from .. s
                 PROVE  \E q \in recorded' : x \in runs'[q].from .. runs'[q].to
      BY DEF InEvidence
    <3>5. CASE x <= w.to
      BY <3>3, <3>5, <2>2, <3>4
    <3>6. CASE x > w.to
      BY <3>2, <3>4, <3>6, <2>2 DEF InEvidence
    <3> QED
      BY <3>5, <3>6, <3>4, <2>2
  <2>9. CASE RebuildDue(w) /\ ~back.allow
    <3>1. EndBackfill("stopped_before_rebuild")
      BY <1>4, <2>1, <2>9 DEF RecordBackfill
    <3> QED
      BY <1>1, <2>6, <3>1, EndBackfillHolds DEF BackAfter
  <2>10. CASE ~(RebuildDue(w) /\ ~back.allow)
    <3> DEFINE pc == IF RebuildDue(w) THEN "rebuilding" ELSE "planning"
               iteration == IF RebuildDue(w) THEN back.iteration ELSE back.iteration + 1
               from == w.from
               through == back.through \cup {n}
    <3>1. back' = [back EXCEPT !.pc = pc, !.expected = from, !.through = through,
                               !.iteration = iteration]
      BY <1>2, <1>4, <2>1, <2>10 DEF RecordBackfill, BackShaped
    <3>2. /\ pc \in {"rebuilding", "planning"}
          /\ pc = "planning" => n % RebuildInterval # 0
      BY <2>1 DEF RebuildDue
    <3> HIDE DEF pc, iteration, through
    <3>3. /\ BackShaped' /\ back'.pc = pc /\ back'.execute = back.execute
          /\ back'.expected = from /\ back'.upper = back.upper /\ back'.start = back.start
          /\ back'.iteration = iteration /\ back'.sim = back.sim /\ back'.window = back.window
          /\ back'.run = back.run /\ back'.through = through /\ back'.reason = back.reason
      BY <1>2, <3>1 DEF BackShaped
    <3>4. BackWindow' /\ BackAttached' /\ BackComplete'
      BY <1>2, <3>2, <3>3
         DEF BackWindow, BackAttached, BackComplete, FinalDue, TotalWindows, Floor, Requested,
             Nowhere
    <3>5. BackCover'
      <4>1. InEvidence(back.window.from, back.start - 1)'
        BY <2>1, <2>7, <2>8, <3>3
      <4>2. InEvidence(back.expected, back.start - 1)'
        BY <2>1, <2>7, <2>8, <3>3
      <4>3. cursor'.from <= back'.window.from
        BY <1>2, <2>1, <2>2, <2>3, <3>3
      <4> QED
        BY <4>1, <4>2, <4>3, <2>1, <2>2, <3>2, <3>3 DEF BackCover
    <3>6. BackThrough'
      BY <1>1, <1>2, <2>1, <3>2, <3>3, RebuiltStays DEF BackThrough, through
    <3> QED
      BY <1>1, <1>2, <2>6, <3>2, <3>3, <3>4, <3>5, <3>6
         DEF BackAfter, BackHolds, Requested, Nowhere
  <2> QED
    BY <2>9, <2>10
<1> QED
  BY <1>3, <1>4

(* A row whose details are all the expected warning is not a truncated one. *)
LEMMA DetailsTellAll ==
  ASSUME RowsInv, NEW r \in RunIds,
         \A i \in DOMAIN Row(r).details : Row(r).details[i] = Expected
  PROVE  \A i \in DOMAIN runs[r].report : runs[r].report[i] = Expected
<1>1. PICK s : s = runs[r].report
  OBVIOUS
<1>2. s \in Seq(Codes)
  BY <1>1, RunsTyped DEF RunRows
<1>3. PICK d : d = Row(r).details
  OBVIOUS
<1>4. \A i \in DOMAIN d : d[i] = Expected
  BY <1>3
<1>5. d = IF Len(s) > WarningLimit THEN Append(Kept(s), Marker) ELSE Kept(s)
  BY <1>1, <1>3 DEF Row, Capped
<1>6. CASE Len(s) > WarningLimit
  <2>1. Kept(s) \in Seq(Codes) /\ Len(Kept(s)) = WarningLimit
    BY <1>2, <1>6, WarningsAssumption DEF Kept
  <2>2. WarningLimit + 1 \in DOMAIN d /\ d[WarningLimit + 1] = Marker
    <3>1. PICK k : k = Kept(s)
      OBVIOUS
    <3>2. k \in Seq(Codes) /\ Len(k) = WarningLimit /\ d = Append(k, Marker)
      BY <3>1, <2>1, <1>5, <1>6
    <3> QED
      BY <3>2
  <2> QED
    BY <2>2, <1>4, BackfillAssumption
<1>7. CASE ~(Len(s) > WarningLimit)
  <2>1. d = s
    BY <1>2, <1>5, <1>7, WarningsAssumption DEF Kept
  <2> QED
    BY <2>1, <1>1, <1>4
<1> QED
  BY <1>6, <1>7

LEMMA RecordRebuildHolds ==
  ASSUME BackBefore, RecordRebuild, UNCHANGED tool
  PROVE  BackAfter
<1>1. RowsInv' /\ Steady /\ EvidenceHolds' /\ recorded \subseteq recorded'
  BY QuietBackfill DEF RecordRebuild, around, rows
<1>2. /\ back.pc = "pollingRebuild" /\ back.execute /\ BackShaped /\ back.sim = Nowhere
      /\ BackWindow /\ BackAttached /\ BackCover /\ BackThrough
      /\ back.reason # "campaign_complete_after_final_rebuild"
      /\ UNCHANGED <<runs, cursor>>
  BY DEF RecordRebuild, BackBefore, BackHolds, BackComplete, Requested, around, rows
<1>3. PICK w, r, n : w = back.window /\ r = back.run /\ n = back.window.label.n
  OBVIOUS
<1>4. /\ r \in RunIds /\ runs[r].label = Label("rebuild", 0, n)
      /\ w.from \in Nat /\ (FinalDue(w) => w.from <= Floor) /\ cursor.from <= w.from
  BY <1>2, <1>3 DEF BackAttached, BackWindow, BackCover, Requested
<1>5. CASE ~RebuildClean(r, w)
  <2>1. EndBackfill("rebuild_invariant_failed")
    BY <1>3, <1>5 DEF RecordRebuild
  <2> QED
    BY <1>1, <2>1, EndBackfillHolds DEF BackAfter
<1>6. CASE RebuildClean(r, w) /\ FinalDue(w)
  <2>1. EndBackfill("campaign_complete_after_final_rebuild")
    BY <1>3, <1>6 DEF RecordRebuild
  <2>2. runs[r].status = "COMPLETED" /\ runs[r].report = <<>>
    BY <1>4, <1>6, RowTellsAll DEF RebuildClean, BackBefore
  <2>3. n = TotalWindows /\ cursor.from <= Floor
    BY <1>3, <1>4, <1>6, BackfillAssumption
       DEF FinalDue, BackBefore, RowsInv, CursorHolds, Floor
  <2>4. CompleteAfterFinalRebuild'
    BY <1>2, <1>4, <2>2, <2>3 DEF CompleteAfterFinalRebuild, TotalWindows, Floor, RunIds
  <2> QED
    BY <1>1, <2>1, <2>4, EndBackfillHolds DEF BackAfter
<1>7. CASE RebuildClean(r, w) /\ ~FinalDue(w)
  <2>1. back' = [back EXCEPT !.pc = "planning", !.iteration = @ + 1]
    BY <1>3, <1>7 DEF RecordRebuild
  <2>2. /\ BackShaped' /\ back'.pc = "planning" /\ back'.execute = back.execute
        /\ back'.expected = back.expected /\ back'.upper = back.upper
        /\ back'.start = back.start /\ back'.iteration = back.iteration + 1
        /\ back'.sim = back.sim /\ back'.window = back.window /\ back'.run = back.run
        /\ back'.through = back.through /\ back'.reason = back.reason
    BY <1>2, <2>1 DEF BackShaped
  <2>3. Rebuilt(n)
    <3>1. /\ runs[r].status = "COMPLETED"
          /\ \A i \in DOMAIN Row(r).details : Row(r).details[i] = Expected
      BY <1>7 DEF RebuildClean
    <3> QED
      BY <3>1, <1>4, DetailsTellAll DEF Rebuilt, BackBefore
  <2>4. BackWindow' /\ BackAttached' /\ BackComplete'
    BY <1>2, <2>2 DEF BackWindow, BackAttached, BackComplete, Requested
  <2>5. BackCover'
    <3>1. InEvidence(back.expected, back.start - 1)'
      BY <1>1, <1>2, <2>2, InEvidenceStays DEF BackCover, BackBefore
    <3>2. back'.start \in Int /\ back'.expected \in Nat
      BY <1>2, <2>2 DEF BackWindow, BackCover, Requested
    <3> QED
      BY <3>1, <3>2, <2>2 DEF BackCover
  <2>6. BackThrough'
    BY <1>1, <1>2, <1>3, <2>2, <2>3, RebuiltStays DEF BackThrough
  <2> QED
    BY <1>1, <1>2, <2>2, <2>4, <2>5, <2>6 DEF BackAfter, BackHolds, Requested, Nowhere
<1> QED
  BY <1>5, <1>6, <1>7

LEMMA BackfillStepHolds ==
  ASSUME BackBefore, BackfillNext, UNCHANGED tool, tool = "backfill"
  PROVE  BackAfter /\ recorded \subseteq recorded'
<1>1. CASE BackfillPollTimeout \/ FinishBackfill \/ BackfillFails
  <2>1. PICK reason \in {"poll_timeout", "max_windows_reached", "error"} : EndBackfill(reason)
    BY <1>1 DEF BackfillPollTimeout, FinishBackfill, BackfillFails
  <2>2. UNCHANGED <<runs, cursor, adrift, recorded>>
    BY <1>1 DEF BackfillPollTimeout, FinishBackfill, BackfillFails, around, rows
  <2> QED
    BY <2>1, <2>2, QuietBackfill, EndBackfillHolds DEF BackAfter
<1>2. recorded \subseteq recorded'
  BY DEF BackfillNext, InvokeBackfill, PlanBackfill, PassBackfillGates, PreviewBackfill,
         PostBackfill, PostBackfillThrows, BackfillPollTimeout, RecordBackfill, RecordRebuild,
         FinishBackfill, BackfillFails
<1> QED
  BY <1>1, <1>2, InvokeBackfillHolds, PlanBackfillHolds, PassBackfillGatesHolds,
     PreviewBackfillHolds, PostBackfillHolds, PostBackfillThrowsHolds, RecordBackfillHolds,
     RecordRebuildHolds DEF BackfillNext

-----------------------------------------------------------------------------
(* The scripts together                                                     *)

ForwardInv == RowsInv /\ EvidenceHolds /\ CampaignsHold /\ BatchHolds /\ BackHolds /\ ProbeHolds

LEMMA InitHolds == Init => ForwardInv
<1> SUFFICES ASSUME Init
             PROVE  ForwardInv
  OBVIOUS
<1>1. RowsInv /\ EvidenceHolds
  <2>1. runs \in Seq(RunRows({}))
    BY DEF Init, RowsInit
  <2>2. RunIds = {} /\ adrift = {} /\ recorded = {} /\ CursorIs(Anchor, Frontier)
    BY DEF Init, RowsInit, RunIds, CursorIs
  <2>3. CursorHolds
    BY <2>2, Naturals DEF CursorIs, CursorHolds
  <2> QED
    BY <2>1, <2>2, <2>3 DEF RowsInv, EvidenceHolds, EvidenceMovesNoCursor
<1>2. CampaignsHold
  <2> DEFINE s == NewCampaign(NoOptions, "unused")
  <2>1. s = [f \in CampaignFields |-> s[f]]
    BY DEF NewCampaign, CampaignFields
  <2>2. s.pc = "unused" /\ s.reason = ""
    BY DEF NewCampaign
  <2>3. s.opt = NoOptions
    BY DEF NewCampaign
  <2>4. NoOptions.execute = FALSE
    BY DEF NoOptions
  <2> HIDE DEF s
  <2>5. camp = [c \in Campaigns |-> s]
    BY DEF Init, CampaignInit, s
  <2>6. CampaignsShaped
    BY <2>1, <2>5 DEF CampaignsShaped
  <2>7. CampaignHolds(s)
    BY <2>2, <2>3, <2>4 DEF CampaignHolds, CleanStops, Submitted
  <2> QED
    BY <2>5, <2>6, <2>7 DEF CampaignsHold
<1>3. BatchHolds
  <2> DEFINE b == NewBatch(NoBatch, "ended", 0)
  <2>1. b = [f \in {"pc", "opt", "used", "recovering", "iteration", "expected", "sim", "window",
                    "run", "clean"} |-> b[f]]
    BY DEF NewBatch
  <2>2. b.pc = "ended"
    BY DEF NewBatch
  <2>3. b.opt = NoBatch
    BY DEF NewBatch
  <2> HIDE DEF b
  <2>4. batch = b
    BY DEF Init, BatchInit, b
  <2> QED
    BY <2>1, <2>2, <2>3, <2>4 DEF BatchHolds, BatchShaped, NoBatch, Submitted
<1>4. BackHolds
  <2> DEFINE b == NewBackfill(FALSE, FALSE, Nowhere, "ended", 0)
  <2>1. b = [f \in {"pc", "execute", "allow", "expected", "upper", "start", "used", "iteration",
                    "sim", "window", "run", "through", "reason"} |-> b[f]]
    BY DEF NewBackfill
  <2>2. b.pc = "ended" /\ b.reason = ""
    BY DEF NewBackfill
  <2>3. b.execute = FALSE
    BY DEF NewBackfill
  <2> HIDE DEF b
  <2>4. back = b
    BY DEF Init, BackfillInit, b
  <2> QED
    BY <2>1, <2>2, <2>3, <2>4 DEF BackHolds, BackShaped, BackComplete, Requested
<1>5. ProbeHolds
  BY DEF Init, ProbeInit, ProbeHolds
<1> QED
  BY <1>1, <1>2, <1>3, <1>4, <1>5 DEF ForwardInv

(* What a script knows outlasts whatever happens around it.                 *)
LEMMA ScriptsStay ==
  ASSUME ForwardInv, RowsInv', Steady, recorded \subseteq recorded'
  PROVE  /\ UNCHANGED camp => CampaignsHold'
         /\ UNCHANGED batch => BatchHolds'
         /\ UNCHANGED back => BackHolds'
         /\ UNCHANGED probe => ProbeHolds'
         /\ UNCHANGED recorded => EvidenceHolds'
BY CampaignsStay, BatchStays, BackStays, ProbeStays, EvidenceStays DEF ForwardInv, Before

LEMMA NextHolds ==
  ASSUME ForwardInv, [Next]_vars
  PROVE  ForwardInv' /\ Steady
<1>1. CASE UNCHANGED vars
  <2>1. UNCHANGED <<runs, cursor, adrift, recorded, tool, camp, batch, back, probe>>
    BY <1>1 DEF vars, around, rows, scripts
  <2>2. RowsInv' /\ Steady
    BY <2>1, RowsUnchanged DEF ForwardInv
  <2> QED
    BY <2>1, <2>2, ScriptsStay DEF ForwardInv
<1>2. CASE Next
  <2>1. UNCHANGED tool
    BY <1>2 DEF Next
  <2>2. CASE tool = "supervisor" /\ SupervisorNext /\ UNCHANGED <<batch, back, probe>>
    <3>1. RowsInv' /\ Steady /\ EvidenceHolds' /\ CampaignsHold' /\ recorded \subseteq recorded'
      BY <2>1, <2>2, SupervisorHolds DEF ForwardInv, Before
    <3> QED
      BY <2>2, <3>1, ScriptsStay DEF ForwardInv
  <2>3. CASE tool = "runner" /\ BatchNext /\ UNCHANGED <<camp, sup, back, probe>>
    <3>1. RowsInv' /\ Steady /\ EvidenceHolds' /\ BatchHolds' /\ recorded \subseteq recorded'
      BY <2>1, <2>3, BatchStepHolds DEF ForwardInv, BatchBefore, BatchAfter
    <3> QED
      BY <2>3, <3>1, ScriptsStay DEF ForwardInv
  <2>4. CASE tool = "backfill" /\ BackfillNext /\ UNCHANGED <<camp, sup, batch, probe>>
    <3>1. RowsInv' /\ Steady /\ EvidenceHolds' /\ BackHolds' /\ recorded \subseteq recorded'
      BY <2>1, <2>4, BackfillStepHolds DEF ForwardInv, BackBefore, BackAfter
    <3> QED
      BY <2>4, <3>1, ScriptsStay DEF ForwardInv
  <2>5. CASE tool = "evidence" /\ ProbeNext /\ UNCHANGED <<camp, sup, batch, back>>
    <3>1. RowsInv' /\ Steady /\ ProbeHolds' /\ UNCHANGED recorded
      BY <2>1, <2>5, ProbeStepHolds DEF ForwardInv
    <3> QED
      BY <2>5, <3>1, ScriptsStay DEF ForwardInv
  <2>6. CASE (Surroundings \/ SyncFurtherBack) /\ UNCHANGED <<recorded, scripts>>
    <3>1. RowsInv' /\ Steady
      BY <2>1, <2>6, SurroundingsKeepRows, OthersKeepRows DEF ForwardInv, SyncFurtherBack
    <3>2. UNCHANGED <<recorded, camp, batch, back, probe>>
      BY <2>6 DEF scripts
    <3> QED
      BY <3>1, <3>2, ScriptsStay DEF ForwardInv
  <2> QED
    BY <1>2, <2>2, <2>3, <2>4, <2>5, <2>6 DEF Next
<1> QED
  BY <1>1, <1>2

(* What each script knows of the rows, the evidence and the blocks behind it *)
(* holds whatever the others, other clients and lost answers do.             *)
THEOREM Invariance == Spec => []ForwardInv
BY InitHolds, NextHolds, PTL DEF Spec

-----------------------------------------------------------------------------
(* Between checkpoints                                                      *)

(* A window was requested that no checkpoint followed yet.                  *)
AfterRequest == {"reconciling", "polling", "recording", "checkpoint"}

(* The requests before the window at hand, and the windows: they are counted*)
(* alike, and the former from the last checkpoint on.                       *)
Prior(s)   == IF s.pc \in AfterRequest THEN s.unchecked - 1 ELSE s.unchecked
Counted(s) == IF s.pc = "checkpoint" THEN s.processed - 1 ELSE s.processed

(* With a checkpoint after every window only the repeated one can be before.*)
Spaced(s) ==
  /\ s.unchecked \in Nat
  /\ ~s.opt.execute => s.unchecked = 0
  /\ s.opt.execute =>
       /\ s.pc \in {"unused", "starting", "qualifying", "ended"} =>
            s.unchecked = 0 /\ s.processed = 0 /\ ~s.recovering
       /\ s.recovering => s.processed = 0
       /\ s.processed \in Nat /\ Counted(s) \in Nat /\ Prior(s) \in Nat
       /\ Interval > 1 => Prior(s) = Counted(s) % Interval
       /\ Interval = 1 => \/ Prior(s) = 0
                          \/ Prior(s) = 1 /\ s.opt.source # 0 /\ ~s.recovering

CampaignsSpaced == \A c \in Campaigns : Spaced(camp[c])

(* How the windows counted go round.                                        *)
LEMMA Remainders ==
  ASSUME NEW p \in Nat, NEW d \in Nat, d > 1
  PROVE  /\ p % d \in 0 .. d - 1
         /\ (p + 1) % d # 0 => (p + 1) % d = (p % d) + 1
         /\ 0 % d = 0 /\ 1 % d = 1
<1>1. p % d \in 0 .. d - 1 /\ 0 % d = 0 /\ 1 % d = 1
  OBVIOUS
<1>2. (p + 1) % d # 0 => (p + 1) % d = (p % d) + 1
  <2>1. PICK q, r, m, k : q = p \div d /\ r = p % d /\ m = (p + 1) \div d /\ k = (p + 1) % d
    OBVIOUS
  <2>2. /\ p = d * q + r /\ p + 1 = d * m + k
        /\ r \in 0 .. d - 1 /\ k \in 0 .. d - 1 /\ q \in Nat /\ m \in Nat
    BY <2>1
  <2>3. d * m - d * q = r + 1 - k
    BY <2>2
  <2>4. d * m - d * q = d * (m - q)
    BY <2>2
  <2>5. m - q >= 1 => d * (m - q) >= d
    BY <2>2
  <2>6. m - q <= -1 => d * (m - q) <= -d
    BY <2>2
  <2>7. m - q = 0 => d * (m - q) = 0
    BY <2>2
  <2>8. m - q = 0 \/ m - q >= 1 \/ m - q <= -1
    BY <2>2
  <2> QED
    BY ONLY <2>1, <2>2, <2>3, <2>4, <2>5, <2>6, <2>7, <2>8, d \in Nat, d > 1
<1> QED
  BY <1>1, <1>2

LEMMA Intervals ==
  /\ Interval \in Nat \ {0} /\ (Interval = 1 \/ Interval > 1)
  /\ \A p \in Nat : Interval = 1 => p % Interval = 0
BY CampaignAssumption

(* A step of one invocation, field by field.                                *)
BreaksOff(c) == \E reason : reason \notin CleanStops /\ Stop(c, reason)
Keeps(c, changed) == \A f \in CampaignFields \ changed : camp'[c][f] = camp[c][f]

LEMMA StoppedFields ==
  ASSUME CampaignsShaped, NEW c \in Campaigns, NEW reason, Stop(c, reason)
  PROVE  /\ camp'[c].pc = "ended" /\ camp'[c].unchecked = 0 /\ camp'[c].processed = 0
         /\ camp'[c].recovering = FALSE
         /\ \A d \in Campaigns \ {c} : camp'[d] = camp[d]
<1> DEFINE t == IF reason \in CleanStops
                THEN [NewCampaign(camp[c].opt, "ended") EXCEPT
                        !.reason = reason, !.completed = camp[c].completed,
                        !.last = camp[c].last]
                ELSE NewCampaign(NoOptions, "ended")
<1>1. camp' = [camp EXCEPT ![c] = t]
  BY DEF Stop, CampaignsShaped
<1>2. t.pc = "ended" /\ t.unchecked = 0
  BY DEF NewCampaign
<1>3. t.processed = 0 /\ t.recovering = FALSE
  BY DEF NewCampaign
<1> HIDE DEF t
<1> QED
  BY <1>1, <1>2, <1>3 DEF CampaignsShaped

LEMMA Becomes ==
  ASSUME CampaignsShaped, NEW c \in Campaigns, NEW t, camp' = [camp EXCEPT ![c] = t]
  PROVE  camp'[c] = t /\ \A d \in Campaigns \ {c} : camp'[d] = camp[d]
BY DEF CampaignsShaped

LEMMA Shape ==
  ASSUME CampaignsShaped, NEW c \in Campaigns
  PROVE  camp[c] = [f \in CampaignFields |-> camp[c][f]] /\ c \in DOMAIN camp
BY DEF CampaignsShaped

LEMMA StartUpFields ==
  ASSUME CampaignsShaped, NEW c \in Campaigns, StartUp(c)
  PROVE  \/ BreaksOff(c)
         \/ /\ camp[c].pc = "starting" /\ camp'[c].pc \in {"planning", "qualifying"}
            /\ Keeps(c, {"pc", "base"})
<1>1. CASE Aligned(Options(c)) /\ world # "dirty"
  <2> DEFINE pc == IF Options(c).source # 0 THEN "qualifying" ELSE "planning"
             t  == [camp[c] EXCEPT !.base = world, !.pc = pc]
  <2>1. camp' = [camp EXCEPT ![c].base = world, ![c].pc = pc]
    BY <1>1 DEF StartUp
  <2>2. pc \in {"planning", "qualifying"}
    OBVIOUS
  <2> HIDE DEF pc
  <2>3. camp' = [camp EXCEPT ![c] = t]
    BY <2>1, Shape
  <2>4. t.pc = pc /\ \A f \in CampaignFields \ {"pc", "base"} : t[f] = camp[c][f]
    BY Shape DEF CampaignFields
  <2> HIDE DEF t
  <2> QED
    BY <2>2, <2>3, <2>4, Becomes DEF Keeps, StartUp
<1> QED
  BY <1>1 DEF StartUp, BreaksOff, CleanStops

LEMMA QualifyFields ==
  ASSUME CampaignsShaped, NEW c \in Campaigns, Qualify(c)
  PROVE  \/ BreaksOff(c)
         \/ /\ camp[c].pc = "qualifying" /\ camp'[c].pc = "gating"
            /\ camp'[c].recovering
            /\ camp'[c].window = Request(Label("recovery", camp[c].opt.source, 0),
                                 camp[c].opt.first, camp[c].opt.first + WindowSize - 1)
            /\ Keeps(c, {"pc", "recovering", "window"})
<1> DEFINE again == Request(Label("recovery", Options(c).source, 0), Options(c).first,
                            Options(c).first + WindowSize - 1)
           t == [camp[c] EXCEPT !.pc = "gating", !.recovering = TRUE, !.window = again]
<1> HIDE DEF again
<1>1. camp[c].pc = "qualifying" /\ (BreaksOff(c) \/ camp' = [camp EXCEPT ![c] = t])
  BY Shape DEF Qualify, again, BreaksOff, CleanStops
<1>2. /\ t.pc = "gating" /\ t.recovering /\ t.window = again
      /\ \A f \in CampaignFields \ {"pc", "recovering", "window"} : t[f] = camp[c][f]
  BY Shape DEF CampaignFields
<1> HIDE DEF t
<1> QED
  BY <1>1, <1>2, Becomes DEF Keeps, again, Options

LEMMA PlanFields ==
  ASSUME CampaignsShaped, NEW c \in Campaigns, PlanWindow(c)
  PROVE  \/ BreaksOff(c)
         \/ /\ camp[c].pc = "planning" /\ camp'[c].pc = "gating"
            /\ camp'[c].window.label.kind = camp[c].opt.kind
            /\ camp[c].iteration < WindowLimit(camp[c].opt)
            /\ \E to : camp'[c].window = WindowPlan(camp[c].opt, to)
            /\ Keeps(c, {"pc", "window"})
<1> DEFINE o  == Options(c)
           to == IF ~o.execute /\ camp[c].sim # Nowhere THEN camp[c].sim ELSE cursor.to
           w  == WindowPlan(o, to)
           t  == [camp[c] EXCEPT !.pc = "gating", !.window = w]
<1>1. w.label.kind = camp[c].opt.kind /\ \E x : w = WindowPlan(camp[c].opt, x)
  BY DEF WindowPlan, NextRange, Request, Label, Options
<1> HIDE DEF w
<1>2. /\ camp[c].pc = "planning" /\ camp[c].iteration < WindowLimit(camp[c].opt)
      /\ BreaksOff(c) \/ camp' = [camp EXCEPT ![c] = t]
  BY Shape DEF PlanWindow, w, BreaksOff, CleanStops, Options
<1>3. /\ t.pc = "gating" /\ t.window = w
      /\ \A f \in CampaignFields \ {"pc", "window"} : t[f] = camp[c][f]
  BY Shape DEF CampaignFields
<1> HIDE DEF t
<1> QED
  BY <1>1, <1>2, <1>3, Becomes DEF Keeps

LEMMA GateFields ==
  ASSUME CampaignsShaped, NEW c \in Campaigns, PassGates(c)
  PROVE  \/ BreaksOff(c)
         \/ /\ camp[c].pc = "gating" /\ camp'[c].pc \in {"posting", "previewing"}
            /\ Keeps(c, {"pc"})
BY DEF PassGates, Proceed, CampaignsShaped, CampaignFields, Keeps, BreaksOff, CleanStops

LEMMA AttachFields ==
  ASSUME CampaignsShaped, NEW c \in Campaigns, NEW r, Attach(c, r)
  PROVE  /\ camp'[c].pc = "polling" /\ Keeps(c, {"pc", "run", "unchecked"})
         /\ camp'[c].unchecked = IF camp[c].pc = "posting" THEN camp[c].unchecked + 1
                                                           ELSE camp[c].unchecked
<1> DEFINE n == IF camp[c].pc = "posting" THEN camp[c].unchecked + 1 ELSE camp[c].unchecked
           t == [camp[c] EXCEPT !.pc = "polling", !.run = r, !.unchecked = n]
<1> HIDE DEF n
<1>1. camp' = [camp EXCEPT ![c] = t]
  BY Shape DEF Attach, n
<1>2. /\ t.pc = "polling" /\ t.unchecked = n
      /\ \A f \in CampaignFields \ {"pc", "run", "unchecked"} : t[f] = camp[c][f]
  BY Shape DEF CampaignFields
<1> HIDE DEF t
<1> QED
  BY <1>1, <1>2, Becomes DEF Keeps, n

LEMMA RequestFields ==
  ASSUME CampaignsShaped, NEW c \in Campaigns, Post(c) \/ PostThrows(c) \/ Reconcile(c)
  PROVE  \/ BreaksOff(c)
         \/ /\ camp[c].pc = "posting" /\ camp'[c].pc \in {"polling", "reconciling"}
            /\ Keeps(c, {"pc", "run", "unchecked"})
            /\ camp'[c].pc = "reconciling" => camp'[c].run = camp[c].run
            /\ camp'[c].unchecked = camp[c].unchecked + 1
         \/ /\ camp[c].pc = "reconciling" /\ camp'[c].pc = "polling"
            /\ Keeps(c, {"pc", "run"})
<1>1. CASE PostThrows(c)
  <2> DEFINE n == camp[c].unchecked + 1
             t == [camp[c] EXCEPT !.pc = "reconciling", !.unchecked = n]
  <2> HIDE DEF n
  <2>1. camp[c].pc = "posting" /\ camp' = [camp EXCEPT ![c] = t]
    BY <1>1, Shape DEF PostThrows, n
  <2>2. /\ t.pc = "reconciling" /\ t.unchecked = n /\ t.run = camp[c].run
        /\ \A f \in CampaignFields \ {"pc", "run", "unchecked"} : t[f] = camp[c][f]
    BY Shape DEF CampaignFields
  <2> HIDE DEF t
  <2>3. camp'[c] = t
    BY <2>1, Becomes
  <2> QED
    BY <2>1, <2>2, <2>3 DEF Keeps, n
<1>2. CASE Post(c)
  BY <1>2, AttachFields DEF Post, BreaksOff, CleanStops
<1>3. CASE Reconcile(c)
  <2>1. CASE \E r : Attach(c, r)
    <3>1. camp'[c].unchecked = camp[c].unchecked /\ Keeps(c, {"pc", "run", "unchecked"})
      BY <1>3, <2>1, AttachFields DEF Reconcile
    <3>2. Keeps(c, {"pc", "run"})
      BY <3>1 DEF Keeps
    <3> QED
      BY <1>3, <2>1, <3>2, AttachFields DEF Reconcile
  <2> QED
    BY <1>3, <2>1 DEF Reconcile, BreaksOff, CleanStops
<1> QED
  BY <1>1, <1>2, <1>3

LEMMA PreviewFields ==
  ASSUME CampaignsShaped, NEW c \in Campaigns, Preview(c)
  PROVE  camp[c].pc = "previewing" /\ camp'[c].opt = camp[c].opt
         /\ camp'[c].unchecked = camp[c].unchecked
         /\ camp'[c].reason = camp[c].reason /\ camp'[c].run = camp[c].run
         /\ camp'[c].iteration = camp[c].iteration /\ camp'[c].completed = camp[c].completed
         /\ \/ camp'[c].pc = "planning" /\ camp'[c].processed = camp[c].processed
            \/ /\ ~camp[c].recovering /\ camp'[c].pc = "checkpoint"
               /\ camp'[c].processed = camp[c].processed + 1
<1>1. CASE camp[c].recovering
  BY <1>1 DEF Preview, CampaignsShaped, CampaignFields
<1>2. CASE ~camp[c].recovering
  <2> DEFINE n == camp[c].processed + 1
             t == [camp[c] EXCEPT !.pc = "checkpoint", !.sim = camp[c].window.to,
                                  !.last = camp[c].window.label.n, !.processed = n]
  <2> HIDE DEF n
  <2>1. camp' = [camp EXCEPT ![c] = t]
    BY <1>2, Shape DEF Preview, n
  <2>2. /\ t.pc = "checkpoint" /\ t.processed = n
        /\ \A f \in CampaignFields \ {"pc", "sim", "last", "processed"} : t[f] = camp[c][f]
    BY Shape DEF CampaignFields
  <2> HIDE DEF t
  <2>3. camp'[c] = t /\ camp[c].pc = "previewing"
    BY <2>1, Becomes DEF Preview
  <2> QED
    BY <1>2, <2>2, <2>3 DEF CampaignFields, n
<1> QED
  BY <1>1, <1>2

LEMMA RecordFields ==
  ASSUME CampaignsShaped, NEW c \in Campaigns, RecordWindow(c)
  PROVE  \/ BreaksOff(c)
         \/ /\ camp[c].pc = "recording" /\ camp[c].recovering
            /\ camp'[c].pc = "planning" /\ camp'[c].processed = 1 /\ camp'[c].recovering = FALSE
            /\ Keeps(c, {"pc", "recovering", "processed"})
         \/ /\ camp[c].pc = "recording" /\ ~camp[c].recovering
            /\ camp'[c].pc = "checkpoint" /\ camp'[c].processed = camp[c].processed + 1
            /\ camp[c].clean /\ camp'[c].expected = camp[c].window.to
            /\ camp'[c].completed = camp[c].completed + 1
            /\ Keeps(c, {"pc", "completed", "last", "expected", "processed"})
<1>0. camp[c].pc = "recording"
  BY DEF RecordWindow
<1>1. CASE camp[c].clean /\ camp[c].recovering
  <2> DEFINE t == [camp[c] EXCEPT !.pc = "planning", !.recovering = FALSE, !.processed = 1]
  <2>1. camp' = [camp EXCEPT ![c] = t]
    BY <1>1, Shape DEF RecordWindow
  <2>2. /\ t.pc = "planning" /\ t.processed = 1 /\ t.recovering = FALSE
        /\ \A f \in CampaignFields \ {"pc", "recovering", "processed"} : t[f] = camp[c][f]
    BY Shape DEF CampaignFields
  <2> HIDE DEF t
  <2> QED
    <3>1. camp'[c] = t
      BY <2>1, Becomes
    <3> QED
      BY <1>0, <1>1, <2>2, <3>1 DEF Keeps
<1>2. CASE camp[c].clean /\ ~camp[c].recovering
  <2> DEFINE n == camp[c].processed + 1
             k == camp[c].completed + 1
             t == [camp[c] EXCEPT !.pc = "checkpoint", !.completed = k,
                                  !.last = camp[c].window.label.n,
                                  !.expected = camp[c].window.to, !.processed = n]
  <2> HIDE DEF n, k
  <2>1. camp' = [camp EXCEPT ![c] = t]
    BY <1>2, Shape DEF RecordWindow, n, k
  <2>2. /\ t.pc = "checkpoint" /\ t.processed = n /\ t.expected = camp[c].window.to
        /\ t.completed = k
        /\ \A f \in CampaignFields \ {"pc", "completed", "last", "expected", "processed"} :
             t[f] = camp[c][f]
    BY Shape DEF CampaignFields
  <2> HIDE DEF t
  <2> QED
    <3>1. camp'[c] = t
      BY <2>1, Becomes
    <3> QED
      BY <1>0, <1>2, <2>2, <3>1 DEF Keeps, n, k
<1> QED
  BY <1>1, <1>2 DEF RecordWindow, BreaksOff, CleanStops

LEMMA CheckpointFields ==
  ASSUME CampaignsShaped, NEW c \in Campaigns, Checkpoint(c)
  PROVE  \/ BreaksOff(c)
         \/ /\ camp[c].pc = "checkpoint" /\ camp'[c].pc = "planning"
            /\ camp'[c].unchecked = IF CheckpointDue(c) THEN 0 ELSE camp[c].unchecked
            /\ camp'[c].iteration = camp[c].iteration + 1
            /\ Keeps(c, {"pc", "iteration", "unchecked"})
<1>1. CASE CheckpointDue(c) /\ ~CheckpointPasses(c)
  BY <1>1 DEF Checkpoint, BreaksOff, CleanStops
<1>2. CASE ~(CheckpointDue(c) /\ ~CheckpointPasses(c))
  <2> DEFINE n == IF CheckpointDue(c) THEN 0 ELSE camp[c].unchecked
             i == camp[c].iteration + 1
             t == [camp[c] EXCEPT !.pc = "planning", !.iteration = i, !.unchecked = n]
  <2>1. camp' = [camp EXCEPT ![c].pc = "planning", ![c].iteration = i, ![c].unchecked = n]
    BY <1>2, Shape DEF Checkpoint, CampaignFields
  <2> HIDE DEF n, i
  <2>2. camp' = [camp EXCEPT ![c] = t]
    BY <2>1, Shape
  <2>3. /\ t.pc = "planning" /\ t.unchecked = n /\ t.iteration = i
        /\ \A f \in CampaignFields \ {"pc", "iteration", "unchecked"} : t[f] = camp[c][f]
    BY Shape DEF CampaignFields
  <2> HIDE DEF t
  <2>4. camp'[c] = t /\ camp[c].pc = "checkpoint"
    BY <2>2, Becomes DEF Checkpoint
  <2> QED
    BY <2>3, <2>4 DEF Keeps, n, i
<1> QED
  BY <1>1, <1>2

LEMMA VerifyFields ==
  ASSUME CampaignsShaped, NEW c \in Campaigns, Verify(c)
  PROVE  /\ camp[c].pc = "polling" /\ camp'[c].pc = "recording"
         /\ Keeps(c, {"pc", "clean"})
<1> DEFINE clean == /\ IF camp[c].recovering THEN RecoveryClean(camp[c].run, camp[c].window)
                                             ELSE WindowClean(camp[c].run, camp[c].window)
                    /\ NothingAmiss(Options(c).anchor, camp[c].window)
           t == [camp[c] EXCEPT !.pc = "recording", !.clean = clean]
<1> HIDE DEF clean
<1>1. camp' = [camp EXCEPT ![c] = t] /\ camp[c].pc = "polling"
  BY Shape DEF Verify, clean
<1>2. t.pc = "recording" /\ \A f \in CampaignFields \ {"pc", "clean"} : t[f] = camp[c][f]
  BY Shape DEF CampaignFields
<1> HIDE DEF t
<1> QED
  BY <1>1, <1>2, Becomes DEF Keeps

(* The others stay as they are, and it was alive.                           *)
LEMMA OthersKeep ==
  ASSUME CampaignsShaped, NEW c \in Campaigns, Step(c) \/ PostThrows(c) \/ Fail(c)
  PROVE  (\A d \in Campaigns \ {c} : camp'[d] = camp[d]) /\ Alive(c)
<1>1. ASSUME NEW reason, Stop(c, reason)
      PROVE  \A d \in Campaigns \ {c} : camp'[d] = camp[d]
  BY <1>1 DEF Stop, CampaignsShaped
<1>2. ASSUME NEW r, Attach(c, r)
      PROVE  \A d \in Campaigns \ {c} : camp'[d] = camp[d]
  BY <1>2 DEF Attach, CampaignsShaped
<1>3. CASE StartUp(c) \/ Qualify(c)
  BY <1>1, <1>3 DEF StartUp, Qualify, CampaignsShaped, Alive
<1>4. CASE PlanWindow(c) \/ PassGates(c)
  BY <1>1, <1>4 DEF PlanWindow, PassGates, Proceed, CampaignsShaped, Alive
<1>5. CASE Preview(c) \/ Post(c)
  BY <1>1, <1>2, <1>5 DEF Preview, Post, CampaignsShaped, Alive
<1>6. CASE Reconcile(c) \/ PostThrows(c)
  BY <1>1, <1>2, <1>6 DEF Reconcile, PostThrows, CampaignsShaped, Alive
<1>7. CASE Verify(c) \/ PollTimeout(c)
  BY <1>1, <1>7 DEF Verify, PollTimeout, CampaignsShaped, Alive
<1>8. CASE RecordWindow(c) \/ Checkpoint(c)
  BY <1>1, <1>8 DEF RecordWindow, Checkpoint, CampaignsShaped, Alive
<1>9. CASE Summarize(c) \/ Fail(c)
  BY <1>1, <1>9 DEF Summarize, Fail, Alive
<1> QED
  BY <1>3, <1>4, <1>5, <1>6, <1>7, <1>8, <1>9 DEF Step

LEMMA StopSpaced ==
  ASSUME CampaignsShaped, NEW c \in Campaigns, NEW reason, Stop(c, reason)
  PROVE  Spaced(camp'[c])
<1>1. camp'[c].pc = "ended" /\ camp'[c].unchecked = 0 /\ camp'[c].processed = 0
      /\ camp'[c].recovering = FALSE
  BY StoppedFields
<1>2. 0 \in Nat /\ (Interval > 1 => 0 % Interval = 0)
  BY Intervals, Remainders
<1>3. Counted(camp'[c]) = 0 /\ Prior(camp'[c]) = 0
  BY <1>1 DEF Counted, Prior, AfterRequest
<1>4. Interval > 1 => Prior(camp'[c]) = Counted(camp'[c]) % Interval
  BY <1>2, <1>3
<1>5. ~camp'[c].recovering
  BY <1>1
<1> QED
  BY <1>1, <1>3, <1>4, <1>5 DEF Spaced

(* What a step leaves of the counters, and what it may do to them.          *)
LEMMA AheadSpaced ==
  ASSUME Before, NEW c \in Campaigns, Spaced(camp[c]),
         StartUp(c) \/ Qualify(c) \/ PlanWindow(c) \/ PassGates(c)
  PROVE  Spaced(camp'[c])
<1> DEFINE s == camp[c]
           t == camp'[c]
<1>1. CampaignsShaped
  BY DEF Before, CampaignsHold
<1>2. CASE BreaksOff(c)
  BY <1>1, <1>2, StopSpaced DEF BreaksOff
<1>3. CASE \/ /\ s.pc = "starting" /\ t.pc \in {"planning", "qualifying"}
              /\ Keeps(c, {"pc", "base"})
           \/ s.pc = "planning" /\ t.pc = "gating" /\ Keeps(c, {"pc", "window"})
           \/ s.pc = "gating" /\ t.pc \in {"posting", "previewing"} /\ Keeps(c, {"pc"})
  <2>1. /\ t.opt = s.opt /\ t.recovering = s.recovering
        /\ t.unchecked = s.unchecked /\ t.processed = s.processed
    BY <1>3 DEF Keeps, CampaignFields
  <2> QED
    BY <1>3, <2>1 DEF Spaced, Counted, Prior, AfterRequest
<1>4. CASE /\ s.pc = "qualifying" /\ t.pc = "gating"
           /\ Keeps(c, {"pc", "recovering", "window"})
  <2>1. t.opt = s.opt /\ t.unchecked = s.unchecked /\ t.processed = s.processed
    BY <1>4 DEF Keeps, CampaignFields
  <2>2. Counted(t) = Counted(s) /\ Prior(t) = Prior(s)
    BY <1>4, <2>1 DEF Counted, Prior, AfterRequest
  <2>3. s.opt.execute => Prior(s) = 0 /\ s.processed = 0
    BY <1>4 DEF Spaced, Prior, AfterRequest
  <2>4. s.opt.execute /\ Interval > 1 => Prior(t) = Counted(t) % Interval
    BY <2>2 DEF Spaced
  <2>5. s.opt.execute => Counted(t) \in Nat /\ Prior(t) = 0
    BY <2>2, <2>3 DEF Spaced
  <2>6. t.pc \notin {"unused", "starting", "qualifying", "ended"}
    BY <1>4
  <2>7. s.unchecked \in Nat /\ (~s.opt.execute => s.unchecked = 0)
    BY DEF Spaced
  <2> QED
    BY <2>1, <2>3, <2>4, <2>5, <2>6, <2>7 DEF Spaced
<1> QED
  BY <1>1, <1>2, <1>3, <1>4, StartUpFields, QualifyFields, PlanFields, GateFields

LEMMA RequestSpaced ==
  ASSUME Before, NEW c \in Campaigns, Spaced(camp[c]),
         Post(c) \/ PostThrows(c) \/ Reconcile(c)
  PROVE  Spaced(camp'[c])
<1> DEFINE s == camp[c]
           t == camp'[c]
<1>1. CampaignsShaped /\ CampaignHolds(s)
  BY DEF Before, CampaignsHold
<1>2. CASE BreaksOff(c)
  BY <1>1, <1>2, StopSpaced DEF BreaksOff
<1>3. CASE /\ s.pc = "posting" /\ t.pc \in {"polling", "reconciling"}
           /\ Keeps(c, {"pc", "run", "unchecked"})
           /\ t.unchecked = s.unchecked + 1
  <2>1. t.opt = s.opt /\ t.recovering = s.recovering /\ t.processed = s.processed
    BY <1>3 DEF Keeps, CampaignFields
  <2>2. s.opt.execute
    BY <1>1, <1>3 DEF CampaignHolds, Submitted
  <2>3. s.unchecked \in Nat /\ s.pc \notin AfterRequest /\ t.pc \in AfterRequest
    BY <1>3 DEF Spaced, AfterRequest
  <2>4. Counted(t) = Counted(s) /\ Prior(t) = Prior(s)
    BY <1>3, <2>1, <2>3 DEF Counted, Prior
  <2>5. t.unchecked \in Nat /\ t.pc \notin {"unused", "starting", "qualifying", "ended"}
    BY <1>3, <2>3
  <2> QED
    BY <2>1, <2>2, <2>4, <2>5 DEF Spaced
<1>4. CASE s.pc = "reconciling" /\ t.pc = "polling" /\ Keeps(c, {"pc", "run"})
  <2>1. /\ t.opt = s.opt /\ t.recovering = s.recovering
        /\ t.unchecked = s.unchecked /\ t.processed = s.processed
    BY <1>4 DEF Keeps, CampaignFields
  <2> QED
    BY <1>4, <2>1 DEF Spaced, Counted, Prior, AfterRequest
<1> QED
  BY <1>1, <1>2, <1>3, <1>4, RequestFields

LEMMA OutcomeSpaced ==
  ASSUME Before, NEW c \in Campaigns, Spaced(camp[c]),
         Preview(c) \/ Verify(c) \/ RecordWindow(c)
  PROVE  Spaced(camp'[c])
<1> DEFINE s == camp[c]
           t == camp'[c]
<1>1. CampaignsShaped /\ CampaignHolds(s)
  BY DEF Before, CampaignsHold
<1>2. CASE BreaksOff(c)
  BY <1>1, <1>2, StopSpaced DEF BreaksOff
<1>3. CASE Preview(c)
  BY <1>1, <1>3, PreviewFields DEF Spaced, CampaignHolds
<1>4. CASE s.pc = "polling" /\ t.pc = "recording" /\ Keeps(c, {"pc", "clean"})
  <2>1. /\ t.opt = s.opt /\ t.recovering = s.recovering
        /\ t.unchecked = s.unchecked /\ t.processed = s.processed
    BY <1>4 DEF Keeps, CampaignFields
  <2> QED
    BY <1>4, <2>1 DEF Spaced, Counted, Prior, AfterRequest
<1>5. CASE /\ s.pc = "recording" /\ s.recovering
           /\ t.pc = "planning" /\ t.processed = 1 /\ t.recovering = FALSE
           /\ Keeps(c, {"pc", "recovering", "processed"})
  <2>1. t.opt = s.opt /\ t.unchecked = s.unchecked
    BY <1>5 DEF Keeps, CampaignFields
  <2>2. s.opt.execute /\ s.opt.source # 0
    BY <1>1, <1>5 DEF CampaignHolds, RecoveryHolds, Submitted
  <2>3. Interval > 1 => 0 % Interval = 0 /\ 1 % Interval = 1
    BY Intervals, Remainders
  <2>4. /\ Counted(s) = 0 /\ Prior(s) = s.unchecked - 1
        /\ Counted(t) = 1 /\ Prior(t) = s.unchecked
    BY <1>5, <2>1, <2>2 DEF Spaced, Counted, Prior, AfterRequest
  <2>5. s.unchecked = 1
    BY <1>5, <2>2, <2>3, <2>4, Intervals DEF Spaced
  <2> QED
    BY <1>5, <2>1, <2>2, <2>3, <2>4, <2>5 DEF Spaced
<1>6. CASE /\ s.pc = "recording" /\ ~s.recovering
           /\ t.pc = "checkpoint" /\ t.processed = s.processed + 1
           /\ Keeps(c, {"pc", "completed", "last", "expected", "processed"})
  <2>1. t.opt = s.opt /\ t.recovering = s.recovering /\ t.unchecked = s.unchecked
    BY <1>6 DEF Keeps, CampaignFields
  <2>2. s.opt.execute
    BY <1>1, <1>6 DEF CampaignHolds, Submitted
  <2>3. Counted(t) = Counted(s) /\ Prior(t) = Prior(s)
    BY <1>6, <2>1, <2>2 DEF Spaced, Counted, Prior, AfterRequest
  <2> QED
    BY <1>6, <2>1, <2>2, <2>3 DEF Spaced
<1> QED
  BY <1>1, <1>2, <1>3, <1>4, <1>5, <1>6, VerifyFields, RecordFields

LEMMA CheckpointSpaced ==
  ASSUME Before, NEW c \in Campaigns, Spaced(camp[c]), Checkpoint(c)
  PROVE  Spaced(camp'[c])
<1> DEFINE s == camp[c]
           t == camp'[c]
<1>1. CampaignsShaped /\ CampaignHolds(s)
  BY DEF Before, CampaignsHold
<1>2. CASE BreaksOff(c)
  BY <1>1, <1>2, StopSpaced DEF BreaksOff
<1>3. CASE /\ s.pc = "checkpoint" /\ t.pc = "planning"
           /\ t.unchecked = IF CheckpointDue(c) THEN 0 ELSE s.unchecked
           /\ Keeps(c, {"pc", "iteration", "unchecked"})
  <2>1. t.opt = s.opt /\ t.recovering = s.recovering /\ t.processed = s.processed
    BY <1>3 DEF Keeps, CampaignFields
  <2>2. CASE ~s.opt.execute
    BY <1>3, <2>1, <2>2 DEF Spaced
  <2>3. CASE s.opt.execute
    <3>1. PICK p : p = s.processed - 1
      OBVIOUS
    <3>2. /\ p = Counted(s) /\ p \in Nat /\ s.unchecked \in Nat
          /\ Prior(s) = s.unchecked - 1 /\ Prior(s) \in Nat
      BY <1>3, <2>3, <3>1 DEF Spaced, Counted, Prior, AfterRequest
    <3>3. s.recovering => s.processed = 0
      BY <2>3 DEF Spaced
    <3>4. s.processed = p + 1
      BY <1>1, <1>3, <2>3, <3>1, <3>2 DEF Spaced, Counted
    <3>5. ~s.recovering
      BY <3>2, <3>3, <3>4
    <3>6. Counted(t) = p + 1 /\ Prior(t) = t.unchecked
      BY <1>3, <2>1, <3>4 DEF Counted, Prior, AfterRequest
    <3>7. CASE CheckpointDue(c)
      <4>1. t.unchecked = 0 /\ (p + 1) % Interval = 0
        BY <1>3, <3>4, <3>7 DEF CheckpointDue
      <4> QED
        BY <1>3, <2>1, <2>3, <3>2, <3>5, <3>6, <4>1 DEF Spaced
    <3>8. CASE ~CheckpointDue(c)
      <4>1. t.unchecked = s.unchecked /\ (p + 1) % Interval # 0
        BY <1>3, <3>4, <3>8 DEF CheckpointDue
      <4>2. Interval > 1
        BY <3>2, <4>1, Intervals
      <4>3. (p + 1) % Interval = (p % Interval) + 1
        BY <3>2, <4>1, <4>2, Intervals, Remainders
      <4>4. Prior(s) = p % Interval
        BY <2>3, <3>2, <4>2 DEF Spaced
      <4> QED
        BY <1>3, <2>1, <2>3, <3>2, <3>5, <3>6, <4>1, <4>2, <4>3, <4>4 DEF Spaced
    <3> QED
      BY <3>7, <3>8
  <2> QED
    BY <2>2, <2>3
<1> QED
  BY <1>1, <1>2, <1>3, CheckpointFields

LEMMA CampaignSpaced ==
  ASSUME Before, CampaignsSpaced, CampaignNext
  PROVE  CampaignsSpaced'
<1> PICK c \in Campaigns : Step(c) \/ PostThrows(c) \/ Fail(c)
  BY DEF CampaignNext
<1>1. CampaignsShaped /\ Spaced(camp[c])
  BY DEF Before, CampaignsHold, CampaignsSpaced
<1>2. Spaced(camp'[c])
  <2>1. CASE PollTimeout(c) \/ Summarize(c) \/ Fail(c)
    BY <1>1, <2>1, StopSpaced DEF PollTimeout, Summarize, Fail
  <2> QED
    BY <1>1, <2>1, AheadSpaced, RequestSpaced, OutcomeSpaced, CheckpointSpaced DEF Step
<1>3. \A d \in Campaigns \ {c} : camp'[d] = camp[d]
  BY <1>1, OthersKeep
<1> QED
  BY <1>2, <1>3 DEF CampaignsSpaced, Spaced, Counted, Prior

LEMMA NewSpaced ==
  ASSUME CampaignsShaped, CampaignsSpaced, NEW c, NEW options, Invoke(c, options)
  PROVE  CampaignsSpaced'
<1> DEFINE t == NewCampaign(options, "starting")
<1>1. t.pc = "starting" /\ t.unchecked = 0
  BY DEF NewCampaign
<1>2. t.processed = 0 /\ t.recovering = FALSE
  BY DEF NewCampaign
<1> HIDE DEF t
<1>3. \A d \in Campaigns : camp'[d] = camp[d] \/ camp'[d] = t
  BY DEF Invoke, t, CampaignsShaped
<1>4. Spaced(t)
  <2>1. Counted(t) = 0 /\ Prior(t) = 0 /\ ~t.recovering
    BY <1>1, <1>2 DEF Counted, Prior, AfterRequest
  <2>2. Interval > 1 => Prior(t) = Counted(t) % Interval
    BY <2>1, Intervals, Remainders
  <2> QED
    BY <1>1, <1>2, <2>1, <2>2 DEF Spaced
<1> QED
  BY <1>3, <1>4 DEF CampaignsSpaced, Spaced, Counted, Prior

LEMMA NextSpaced ==
  ASSUME ForwardInv, CampaignsSpaced, [Next]_vars
  PROVE  CampaignsSpaced'
<1>1. CASE UNCHANGED camp
  BY <1>1 DEF CampaignsSpaced, Spaced, Counted, Prior
<1>2. CASE SupervisorNext
  <2>1. CASE Decide \/ RecoverByHand
    BY <1>1, <2>1, NewSpaced DEF Decide, RecoverByHand, ForwardInv, CampaignsHold
  <2>2. CASE CampaignNext
    BY <2>2, CampaignSpaced DEF ForwardInv, Before
  <2>3. CASE \/ Invocation \/ SupervisorStartUp \/ ReviewChild
             \/ SupervisorSummary \/ SupervisorFails
    BY <1>1, <2>3 DEF Invocation, SupervisorStartUp, ReviewChild, SupervisorSummary,
                      SupervisorFails
  <2> QED
    BY <1>2, <2>1, <2>2, <2>3 DEF SupervisorNext, SupervisorStep
<1> QED
  BY <1>1, <1>2 DEF Next, vars, scripts

(* However the windows go, the repeated one and lost answers included, no   *)
(* more requests than the operator allowed go by without a checkpoint.      *)
THEOREM CheckpointsKept == Spec => []CheckpointSpacing
<1>1. CampaignsSpaced => CheckpointSpacing
  <2> SUFFICES ASSUME CampaignsSpaced, NEW c \in Campaigns
               PROVE  camp[c].unchecked <=
                        IF Interval = 1 /\ Options(c).source # 0 THEN 2 ELSE Interval
    BY DEF CheckpointSpacing
  <2>1. Spaced(camp[c]) /\ Options(c) = camp[c].opt
    BY DEF CampaignsSpaced, Options
  <2>2. CASE ~camp[c].opt.execute
    BY <2>1, <2>2, Intervals DEF Spaced
  <2>3. CASE camp[c].opt.execute
    <3>1. camp[c].unchecked \in Nat /\ camp[c].unchecked <= Prior(camp[c]) + 1
      BY <2>1 DEF Spaced, Prior
    <3>2. CASE Interval = 1
      BY <2>1, <2>3, <3>1, <3>2 DEF Spaced
    <3>3. CASE Interval > 1
      <4>1. PICK p \in Nat : p = Counted(camp[c])
        BY <2>1, <2>3 DEF Spaced
      <4>2. Prior(camp[c]) \in 0 .. Interval - 1
        BY <2>1, <2>3, <3>3, <4>1, Intervals, Remainders DEF Spaced
      <4> QED
        BY <2>1, <3>1, <3>3, <4>2, Intervals
    <3> QED
      BY <3>2, <3>3, Intervals
  <2> QED
    BY <2>2, <2>3
<1>2. Init => CampaignsSpaced
  <2> SUFFICES ASSUME Init, NEW c \in Campaigns
               PROVE  Spaced(camp[c])
    BY DEF CampaignsSpaced
  <2> DEFINE t == NewCampaign(NoOptions, "unused")
  <2>1. t.unchecked = 0
    BY DEF NewCampaign
  <2>2. t.opt = NoOptions
    BY DEF NewCampaign
  <2>3. NoOptions.execute = FALSE
    BY DEF NoOptions
  <2> HIDE DEF t
  <2>4. camp[c] = t
    BY DEF Init, CampaignInit, t
  <2> QED
    BY <2>1, <2>2, <2>3, <2>4 DEF Spaced
<1> QED
  BY <1>1, <1>2, Invariance, NextSpaced, PTL DEF Spec

-----------------------------------------------------------------------------
(* What ends cleanly                                                        *)

CleanRunTo(b) ==
  \E r \in RunIds : runs[r].to = b /\ runs[r].status = "COMPLETED" /\ runs[r].report = <<>>

LastBlock(o) == StartAt(o, WindowLimit(o)) - 1

(* An invocation that repeats nothing is where a run without warnings ended.*)
Ending(s) ==
  s.opt.execute /\ s.opt.source = 0 =>
    /\ s.pc \in Planned => s.window.label.kind \in {"child", "hand"}
    /\ s.pc = "checkpoint" \/ (s.pc = "planning" /\ s.iteration > 0) => CleanRunTo(s.expected)
    /\ s.reason \in CleanStops /\ s.opt.max >= 1 => CleanRunTo(LastBlock(s.opt))

CampaignsEnd == \A c \in Campaigns : Ending(camp[c])

LEMMA CleanRunStays ==
  ASSUME Steady, NEW b, CleanRunTo(b)
  PROVE  CleanRunTo(b)'
BY DEF Steady, CleanRunTo

LEMMA EndingStays ==
  ASSUME Steady, NEW c \in Campaigns, Ending(camp[c]),
         camp'[c].opt = camp[c].opt, camp'[c].reason = camp[c].reason,
         camp'[c].pc \in Planned =>
           camp[c].pc \in Planned /\ camp'[c].window = camp[c].window,
         camp'[c].pc = "checkpoint" \/ (camp'[c].pc = "planning" /\ camp'[c].iteration > 0) =>
           /\ camp[c].pc = "checkpoint" \/ (camp[c].pc = "planning" /\ camp[c].iteration > 0)
           /\ camp'[c].expected = camp[c].expected
  PROVE  Ending(camp[c])'
<1> PICK o, e : o = camp[c].opt /\ e = camp[c].expected
  OBVIOUS
<1>1. CleanRunTo(e) => CleanRunTo(e)'
  BY CleanRunStays
<1>2. CleanRunTo(LastBlock(o)) => CleanRunTo(LastBlock(o))'
  <2>1. PICK b : b = LastBlock(o)
    OBVIOUS
  <2>2. LastBlock(o)' = LastBlock(o)
    BY DEF LastBlock, StartAt, FirstOrdinary, WindowLimit, WindowCount
  <2> QED
    BY <2>1, <2>2, CleanRunStays DEF CleanRunTo
<1> QED
  BY <1>1, <1>2 DEF Ending

LEMMA BreakingEnds ==
  ASSUME CampaignsShaped, NEW c \in Campaigns, BreaksOff(c)
  PROVE  Ending(camp[c])' /\ camp'[c].pc = "ended" /\ camp'[c].reason \notin CleanStops
<1> DEFINE t == NewCampaign(NoOptions, "ended")
<1>1. t.pc = "ended" /\ t.reason = ""
  BY DEF NewCampaign
<1>2. t.opt = NoOptions
  BY DEF NewCampaign
<1>3. NoOptions.execute = FALSE
  BY DEF NoOptions
<1> HIDE DEF t
<1>4. camp'[c] = t
  BY DEF BreaksOff, Stop, CampaignsShaped, t
<1>5. "" \notin CleanStops
  BY DEF CleanStops
<1>6. ~camp'[c].opt.execute
  BY <1>2, <1>3, <1>4
<1> QED
  BY <1>1, <1>4, <1>5, <1>6 DEF Ending

(* Every step but three keeps to what is known of the invocation.           *)
LEMMA CampaignEnds ==
  ASSUME Before, Steady, NEW c \in Campaigns, Ending(camp[c]),
         \/ StartUp(c) \/ Qualify(c) \/ PlanWindow(c) \/ PassGates(c)
         \/ Post(c) \/ PostThrows(c) \/ Reconcile(c) \/ Verify(c)
         \/ Checkpoint(c) \/ PollTimeout(c) \/ Fail(c) \/ Preview(c)
  PROVE  Ending(camp[c])' /\ (camp'[c].opt = camp[c].opt \/ BreaksOff(c))
<1> DEFINE s == camp[c]
           t == camp'[c]
<1>1. CampaignsShaped /\ CampaignHolds(s)
  BY DEF Before, CampaignsHold
<1>2. CASE BreaksOff(c)
  BY <1>1, <1>2, BreakingEnds
<1>3. CASE StartUp(c) /\ ~BreaksOff(c)
  <2>1. /\ s.pc = "starting" /\ t.pc \in {"planning", "qualifying"}
        /\ t.opt = s.opt /\ t.reason = s.reason /\ t.iteration = s.iteration
    BY <1>1, <1>3, StartUpFields DEF Keeps, CampaignFields
  <2>2. s.opt.execute => s.iteration = 0
    BY <1>1, <2>1 DEF CampaignHolds, RecoveryHolds
  <2>3. t.pc \notin Planned /\ s.reason \notin CleanStops
    BY <1>1, <2>1 DEF Planned, Submitted, CampaignHolds
  <2> QED
    BY <2>1, <2>2, <2>3 DEF Ending
<1>4. CASE Qualify(c) /\ ~BreaksOff(c)
  <2>1. s.pc = "qualifying" /\ t.pc = "gating" /\ t.opt = s.opt /\ t.reason = s.reason
    BY <1>1, <1>4, QualifyFields DEF Keeps, CampaignFields
  <2>2. s.opt.execute => s.opt.source # 0
    BY <1>1, <2>1 DEF CampaignHolds, RecoveryHolds
  <2> QED
    BY <2>1, <2>2 DEF Ending
<1>5. CASE PlanWindow(c) /\ ~BreaksOff(c)
  <2>1. /\ s.pc = "planning" /\ t.pc = "gating" /\ t.opt = s.opt /\ t.reason = s.reason
        /\ t.window.label.kind = s.opt.kind
    BY <1>1, <1>5, PlanFields DEF Keeps, CampaignFields
  <2>2. s.opt.execute => s.opt.kind \in {"child", "hand"}
    BY <1>1 DEF CampaignHolds, OptionsHold
  <2>3. s.reason \notin CleanStops
    BY <1>1, <2>1 DEF CampaignHolds
  <2> QED
    BY <2>1, <2>2, <2>3 DEF Ending
<1>6. CASE (PassGates(c) \/ Verify(c)) /\ ~BreaksOff(c)
  <2>1. /\ s.pc \in {"gating", "polling"} /\ t.pc \in {"posting", "previewing", "recording"}
        /\ t.opt = s.opt /\ t.reason = s.reason /\ t.window = s.window
    BY <1>1, <1>6, GateFields, VerifyFields DEF Keeps, CampaignFields
  <2> QED
    BY <2>1, EndingStays DEF Planned, Submitted
<1>7. CASE (Post(c) \/ PostThrows(c) \/ Reconcile(c)) /\ ~BreaksOff(c)
  <2>1. /\ s.pc \in {"posting", "reconciling"} /\ t.pc \in {"polling", "reconciling"}
        /\ t.opt = s.opt /\ t.reason = s.reason /\ t.window = s.window
    BY <1>1, <1>7, RequestFields DEF Keeps, CampaignFields
  <2> QED
    BY <2>1, EndingStays DEF Planned, Submitted
<1>8. CASE Checkpoint(c) /\ ~BreaksOff(c)
  <2>1. /\ s.pc = "checkpoint" /\ t.pc = "planning"
        /\ t.opt = s.opt /\ t.reason = s.reason /\ t.expected = s.expected
    BY <1>1, <1>8, CheckpointFields DEF Keeps, CampaignFields
  <2> QED
    BY <2>1, EndingStays DEF Planned, Submitted
<1>9. CASE Preview(c)
  <2>1. ~s.opt.execute /\ t.opt = s.opt
    BY <1>1, <1>9, PreviewFields DEF CampaignHolds
  <2> QED
    BY <2>1 DEF Ending
<1>10. CASE PollTimeout(c) \/ Fail(c)
  BY <1>2, <1>10 DEF PollTimeout, Fail, BreaksOff, CleanStops
<1> QED
  BY <1>2, <1>3, <1>4, <1>5, <1>6, <1>7, <1>8, <1>9, <1>10

(* An ordinary window is in evidence without a warning.                     *)
LEMMA RecordEnds ==
  ASSUME Before, Steady, NEW c \in Campaigns, Ending(camp[c]), RecordWindow(c)
  PROVE  Ending(camp[c])' /\ (camp'[c].opt = camp[c].opt \/ BreaksOff(c))
<1> DEFINE s == camp[c]
           t == camp'[c]
<1>1. CampaignsShaped /\ CampaignHolds(s)
  BY DEF Before, CampaignsHold
<1>2. CASE BreaksOff(c)
  BY <1>1, <1>2, BreakingEnds
<1>3. CASE ~BreaksOff(c) /\ s.recovering
  <2>1. s.pc = "recording" /\ t.opt = s.opt
    BY <1>1, <1>3, RecordFields DEF Keeps, CampaignFields
  <2>2. s.opt.execute /\ s.opt.source # 0
    BY <1>1, <1>3, <2>1 DEF CampaignHolds, RecoveryHolds, Submitted
  <2> QED
    BY <2>1, <2>2 DEF Ending
<1>4. CASE ~BreaksOff(c) /\ ~s.recovering
  <2>1. /\ s.pc = "recording" /\ t.pc = "checkpoint" /\ t.opt = s.opt /\ t.reason = s.reason
        /\ s.clean /\ t.expected = s.window.to
    BY <1>1, <1>4, RecordFields DEF Keeps, CampaignFields
  <2>2. Recordable(s.run) /\ SameWindow(s.run, s.window) /\ s.reason \notin CleanStops
    BY <1>1, <2>1 DEF CampaignHolds, AttachedHolds, Submitted
  <2>3. ASSUME s.opt.execute, s.opt.source = 0
        PROVE  CleanRunTo(camp[c].expected)'
    <3>1. s.window.label.kind \in {"child", "hand"}
      BY <2>1, <2>3 DEF Ending, Planned, Submitted
    <3>2. runs[s.run].report = <<>>
      BY <2>2, <3>1 DEF Recordable, SameWindow
    <3>3. CleanRunTo(s.window.to)
      BY <2>2, <3>2 DEF Recordable, SameWindow, CleanRunTo
    <3>4. PICK b : b = s.window.to
      OBVIOUS
    <3>5. CleanRunTo(b)'
      BY <3>3, <3>4, CleanRunStays
    <3>6. camp'[c].expected = b
      BY <2>1, <3>4
    <3> QED
      BY <3>5, <3>6
  <2> QED
    BY <2>1, <2>2, <2>3 DEF Ending, Planned, Submitted
<1> QED
  BY <1>2, <1>3, <1>4

LEMMA LastWindowEnds ==
  ASSUME Before, NEW c \in Campaigns, Ending(camp[c]), camp[c].pc = "planning",
         camp[c].opt.execute, camp[c].opt.source = 0, camp[c].opt.max >= 1,
         camp[c].iteration = WindowLimit(camp[c].opt)
  PROVE  CleanRunTo(LastBlock(camp[c].opt))
<1> DEFINE s == camp[c]
<1>1. OptionsHold(s) /\ CoverHolds(s)
  BY DEF Before, CampaignsHold, CampaignHolds
<1>2. PICK o : o = s.opt
  OBVIOUS
<1>3. Aligned(o) /\ o.max \in Int /\ o.max >= 1
  BY <1>1, <1>2 DEF OptionsHold
<1>4. WindowLimit(o) >= 1
  <2>1. PICK n : n = o.final - FirstOrdinary(o) + 1
    OBVIOUS
  <2>2. n \in Nat \ {0} /\ n % WindowSize = 0
    BY <1>1, <1>2, <1>3, <2>1, Naturals DEF Aligned, OptionsHold, FirstOrdinary
  <2>3. n \div WindowSize >= 1 /\ n \div WindowSize \in Int
    BY <2>2, Naturals
  <2> QED
    BY <1>3, <2>1, <2>3 DEF WindowLimit, WindowCount
<1>5. s.iteration > 0
  BY <1>1, <1>2, <1>4 DEF OptionsHold
<1>6. s.expected = LastBlock(o) /\ CleanRunTo(s.expected)
  BY <1>1, <1>2, <1>5 DEF CoverHolds, LastBlock, Ending
<1> QED
  BY <1>2, <1>6

LEMMA SummarizeEnds ==
  ASSUME Before, Steady, NEW c \in Campaigns, Ending(camp[c]), Summarize(c)
  PROVE  Ending(camp[c])' /\ camp'[c].opt = camp[c].opt
<1> DEFINE reason == IF Options(c).max <= WindowCount(Options(c))
                     THEN "max_windows_reached" ELSE "authorized_final_block_reached"
           t == [NewCampaign(camp[c].opt, "ended") EXCEPT
                   !.reason = reason, !.completed = camp[c].completed, !.last = camp[c].last]
<1>1. reason \in CleanStops
  BY DEF CleanStops
<1>2. Stop(c, reason) /\ CampaignsShaped
  BY DEF Summarize, Before, CampaignsHold
<1> HIDE DEF reason
<1>3. camp' = [camp EXCEPT ![c] = t]
  BY <1>1, <1>2 DEF Stop, CampaignsShaped
<1>4. t.pc = "ended" /\ t.opt = camp[c].opt
  BY DEF NewCampaign
<1> HIDE DEF t
<1>5. camp'[c].pc = "ended" /\ camp'[c].opt = camp[c].opt
  BY <1>2, <1>3, <1>4, Becomes
<1>6. ASSUME camp[c].opt.execute, camp[c].opt.source = 0, camp[c].opt.max >= 1
      PROVE  CleanRunTo(LastBlock(camp[c].opt))'
  <2>1. PICK b : b = LastBlock(camp[c].opt)
    OBVIOUS
  <2>2. CleanRunTo(b)
    BY <1>6, <2>1, LastWindowEnds DEF Summarize, Options
  <2>3. CleanRunTo(b)'
    BY <2>2, CleanRunStays
  <2>4. LastBlock(camp[c].opt)' = b
    BY <1>5, <2>1 DEF LastBlock, StartAt, FirstOrdinary, WindowLimit, WindowCount
  <2> QED
    BY <2>3, <2>4 DEF CleanRunTo
<1> QED
  BY <1>5, <1>6 DEF Ending, Planned, Submitted

LEMMA CampaignsGoOn ==
  ASSUME Before, Steady, CampaignsEnd, CampaignNext
  PROVE  /\ CampaignsEnd'
         /\ \A d \in Campaigns : ~Alive(d) => camp'[d] = camp[d]
         /\ \A d \in Campaigns :
              camp'[d].opt = camp[d].opt
                \/ (camp'[d].pc = "ended" /\ camp'[d].reason \notin CleanStops)
<1> PICK c \in Campaigns : Step(c) \/ PostThrows(c) \/ Fail(c)
  BY DEF CampaignNext
<1>1. CampaignsShaped /\ Ending(camp[c])
  BY DEF Before, CampaignsHold, CampaignsEnd
<1>2. (\A d \in Campaigns \ {c} : camp'[d] = camp[d]) /\ Alive(c)
  BY <1>1, OthersKeep
<1>3. Ending(camp[c])' /\ (camp'[c].opt = camp[c].opt \/ BreaksOff(c))
  BY <1>1, CampaignEnds, RecordEnds, SummarizeEnds DEF Step
<1>4. \A d \in Campaigns \ {c} : Ending(camp[d])'
  BY <1>2, EndingStays DEF CampaignsEnd
<1> QED
  BY <1>1, <1>2, <1>3, <1>4, BreakingEnds DEF CampaignsEnd

(* A place may be taken whenever there is a vacant one.                     *)
LEMMA VacantSlot ==
  ASSUME Vacant # {}
  PROVE  NextSlot \in Vacant
<1>1. Vacant \subseteq Nat
  BY CampaignAssumption DEF Vacant
<1>2. PICK c \in Vacant : \A d \in Vacant : ~(<<d, c>> \in OpToRel(<, Nat))
  BY <1>1, NatLessThanWellFounded, WFMin
<1>3. \A d \in Vacant : c <= d
  <2> SUFFICES ASSUME NEW d \in Vacant
               PROVE  c <= d
    OBVIOUS
  <2>1. c \in Nat /\ d \in Nat
    BY <1>1
  <2>2. ~(d < c)
    BY <1>2, <2>1 DEF OpToRel
  <2> QED
    BY <2>1, <2>2
<1> QED
  BY <1>3 DEF NextSlot

(* The supervisor authorizes a child for exactly the windows it asks it for.*)
ChildShape(o) ==
  /\ o.execute /\ o.source = 0
  /\ o.first \in Int /\ o.max \in Int /\ o.max >= 1
  /\ o.final = o.first - 1 + o.max * WindowSize

SupervisorFields ==
  {"pc", "execute", "base", "number", "child", "before", "sim", "invocations", "reason"}
SupervisorShaped == sup = [f \in SupervisorFields |-> sup[f]]

(* The child has that shape as long as nothing went wrong with it.          *)
Watched(child) ==
  /\ child \in Campaigns
  /\ sup.execute /\ (camp[child].pc # "ended" \/ camp[child].reason \in CleanStops) =>
       ChildShape(camp[child].opt)

SupervisorKnows ==
  /\ SupervisorShaped
  /\ sup.pc \in {"starting", "deciding"} => Vacant # {}
  /\ sup.pc = "waiting" => Watched(sup.child)
  /\ TargetReachedCleanly

LEMMA LastOfChild ==
  ASSUME NEW o, ChildShape(o)
  PROVE  LastBlock(o) = o.final
<1>1. PICK first, max, blocks : first = o.first /\ max = o.max /\ blocks = max * WindowSize
  OBVIOUS
<1>2. first \in Int /\ max \in Int /\ blocks \in Int
  BY <1>1, Naturals DEF ChildShape
<1>3. FirstOrdinary(o) = first /\ o.final = first - 1 + blocks
  BY <1>1 DEF ChildShape, FirstOrdinary
<1>4. blocks \div WindowSize = max
  BY <1>1, <1>2, Naturals
<1>5. o.final - FirstOrdinary(o) + 1 = blocks
  BY <1>2, <1>3
<1>6. WindowLimit(o) = max
  BY <1>1, <1>2, <1>4, <1>5 DEF WindowLimit, WindowCount
<1>7. StartAt(o, max) = first + blocks
  BY <1>1, <1>3 DEF StartAt
<1> QED
  BY <1>2, <1>3, <1>6, <1>7 DEF LastBlock

LEMMA HaltKnows ==
  ASSUME SupervisorShaped, NEW reason, Halt(reason)
  PROVE  SupervisorKnows'
<1>1. sup'.pc = "stopped" /\ SupervisorShaped'
  BY DEF Halt, SupervisorShaped, SupervisorFields
<1> QED
  BY <1>1 DEF SupervisorKnows, TargetReachedCleanly

(* A supervisor that is not at a step of its own learns nothing wrong.      *)
LEMMA SupervisorStays ==
  ASSUME RowsInv, RowsInv', Steady, SupervisorKnows, UNCHANGED sup,
         Vacant \subseteq Vacant',
         \A d \in Campaigns :
           camp'[d].pc # "ended" \/ camp'[d].reason \in CleanStops =>
             /\ camp'[d].opt = camp[d].opt
             /\ camp[d].pc # "ended" \/ camp[d].reason \in CleanStops
  PROVE  SupervisorKnows'
<1>1. SupervisorShaped'
  BY DEF SupervisorKnows, SupervisorShaped
<1>2. (sup.pc \in {"starting", "deciding"} => Vacant # {})'
  BY DEF SupervisorKnows
<1>3. (sup.pc = "waiting" => Watched(sup.child))'
  BY DEF SupervisorKnows, Watched, ChildShape
<1>4. TargetReachedCleanly'
  <2> SUFFICES ASSUME sup.pc = "summarizing", sup.execute
               PROVE  (cursor.to >= Target /\ (Target = Frontier \/ CleanRunTo(Target)))'
    BY DEF TargetReachedCleanly, CleanRunTo
  <2>1. cursor.to >= Target /\ (Target = Frontier \/ CleanRunTo(Target))
    BY DEF SupervisorKnows, TargetReachedCleanly, CleanRunTo
  <2>2. cursor.to \in Int /\ cursor'.to \in Int /\ Target \in Int /\ cursor.to <= cursor'.to
    BY SupervisorAssumption DEF RowsInv, CursorHolds, Steady
  <2>3. cursor'.to >= Target
    BY <2>1, <2>2
  <2> QED
    BY <2>1, <2>3, CleanRunStays
<1> QED
  BY <1>1, <1>2, <1>3, <1>4 DEF SupervisorKnows

LEMMA CampaignKnows ==
  ASSUME Before, RowsInv', Steady, CampaignsEnd, SupervisorKnows, CampaignNext, UNCHANGED sup
  PROVE  SupervisorKnows' /\ CampaignsEnd'
<1>1. /\ CampaignsEnd'
      /\ \A d \in Campaigns : ~Alive(d) => camp'[d] = camp[d]
      /\ \A d \in Campaigns :
           camp'[d].opt = camp[d].opt
             \/ (camp'[d].pc = "ended" /\ camp'[d].reason \notin CleanStops)
  BY CampaignsGoOn
<1>2. Vacant \subseteq Vacant'
  BY <1>1 DEF Vacant, Alive
<1>3. ASSUME NEW d \in Campaigns,
             camp'[d].pc # "ended" \/ camp'[d].reason \in CleanStops
      PROVE  /\ camp'[d].opt = camp[d].opt
             /\ camp[d].pc # "ended" \/ camp[d].reason \in CleanStops
  BY <1>1, <1>3 DEF Alive
<1> QED
  BY <1>1, <1>2, <1>3, SupervisorStays DEF Before

LEMMA InvokeEnds ==
  ASSUME Before, Steady, CampaignsEnd, NEW c, NEW options, Invoke(c, options)
  PROVE  CampaignsEnd'
<1>1. CampaignsShaped
  BY DEF Before, CampaignsHold
<1>2. ASSUME NEW d \in Campaigns, d # c
      PROVE  Ending(camp[d])'
  <2>1. camp'[d] = camp[d]
    BY <1>1, <1>2 DEF Invoke, CampaignsShaped
  <2> QED
    BY <2>1, EndingStays DEF CampaignsEnd
<1>3. ASSUME c \in Campaigns
      PROVE  Ending(camp[c])'
  <2>1. camp'[c].pc = "starting" /\ camp'[c].reason = ""
    BY <1>1, <1>3, NewCampaignFields DEF Invoke
  <2> QED
    BY <2>1 DEF Ending, Planned, Submitted, CleanStops
<1> QED
  BY <1>2, <1>3 DEF CampaignsEnd

(* The windows of a child reach neither past the target nor to none at all. *)
LEMMA ChildIsShaped ==
  ASSUME RowsInv, sup.execute, ~PlanInvalid, Remaining # 0
  PROVE  ChildShape(ChildOptions)
<1>1. PICK to, n : to = cursor.to /\ n = Target - to
  OBVIOUS
<1>2. to \in Int /\ n \in Int /\ WindowSize \in Nat \ {0} /\ MaxPerChild \in Nat \ {0}
  BY <1>1, SupervisorAssumption, Naturals DEF RowsInv, CursorHolds
<1>3. PlanningTo = to /\ Remaining = n
  BY <1>1 DEF PlanningTo, Remaining
<1>4. n \in Nat \ {0} /\ n % WindowSize = 0
  BY <1>2, <1>3 DEF PlanInvalid
<1>5. n \div WindowSize >= 1 /\ n \div WindowSize \in Int
  BY <1>2, <1>4
<1>6. PICK max : max = ChildWindows
  OBVIOUS
<1>7. max \in Int /\ max >= 1
  BY <1>2, <1>3, <1>5, <1>6 DEF ChildWindows
<1>8. ChildFinal = (to + 1) - 1 + max * WindowSize
  <2>1. max * WindowSize \in Int
    BY <1>2, <1>7
  <2>2. ChildFinal = to + max * WindowSize
    BY <1>3, <1>6 DEF ChildFinal
  <2> QED
    BY <1>2, <2>1, <2>2
<1>9. /\ ChildOptions.execute = sup.execute /\ ChildOptions.source = 0
      /\ ChildOptions.first = to + 1 /\ ChildOptions.max = max
      /\ ChildOptions.final = ChildFinal
  BY <1>3, <1>6 DEF ChildOptions
<1> QED
  BY <1>2, <1>7, <1>8, <1>9 DEF ChildShape

LEMMA DecideKnows ==
  ASSUME Before, Steady, RowsInv', CampaignsEnd, SupervisorKnows, Decide
  PROVE  SupervisorKnows' /\ CampaignsEnd'
<1>1. SupervisorShaped /\ sup.pc = "deciding" /\ Vacant # {} /\ UNCHANGED <<runs, cursor>>
  BY DEF Decide, SupervisorKnows, around, rows
<1>2. CASE UNCHANGED camp /\ \E reason : Halt(reason)
  <2>1. \A c \in Campaigns : Ending(camp[c])'
    BY <1>2, EndingStays DEF CampaignsEnd
  <2> QED
    BY <1>1, <1>2, <2>1, HaltKnows DEF CampaignsEnd
<1>3. CASE /\ UNCHANGED camp
           /\ ~PlanInvalid /\ Remaining = 0 /\ (cursor.from = cursor.to \/ PriorClean)
           /\ sup' = [sup EXCEPT !.pc = "summarizing",
                        !.reason = "authorized_final_block_already_reached"]
  <2>1. \A c \in Campaigns : Ending(camp[c])'
    BY <1>3, EndingStays DEF CampaignsEnd
  <2>2. sup'.pc = "summarizing" /\ sup'.execute = sup.execute /\ SupervisorShaped'
    BY <1>1, <1>3 DEF SupervisorShaped, SupervisorFields
  <2>3. /\ cursor.to \in Int /\ cursor.from \in Int /\ Target \in Int
        /\ cursor.from <= Anchor /\ Anchor <= Frontier /\ Frontier <= cursor.to
        /\ Anchor \in Int /\ Frontier \in Int
    BY SupervisorAssumption, Naturals DEF Before, RowsInv, CursorHolds
  <2>4. ASSUME sup.execute
        PROVE  cursor.to >= Target /\ (Target = Frontier \/ CleanRunTo(Target))
    <3>1. cursor.to = Target
      BY <1>3, <2>3, <2>4 DEF Remaining, PlanningTo
    <3>2. CASE cursor.from = cursor.to
      BY <2>3, <3>1, <3>2
    <3>3. CASE PriorClean
      <4>1. PICK r \in RunIds :
              /\ {q \in RunIds : runs[q].to = cursor.to} = {r}
              /\ runs[r].status = "COMPLETED" /\ WarningsClean(Row(r))
        BY <3>3 DEF PriorClean
      <4>2. runs[r].to = Target
        BY <3>1, <4>1
      <4>3. runs[r].report = <<>>
        BY <4>1, RowTellsAll DEF Before, WarningsClean
      <4> QED
        BY <2>3, <3>1, <4>1, <4>2, <4>3 DEF CleanRunTo
    <3> QED
      BY <1>3, <3>2, <3>3
  <2>5. TargetReachedCleanly'
    <3> SUFFICES ASSUME sup'.execute
                 PROVE  (cursor.to >= Target /\ (Target = Frontier \/ CleanRunTo(Target)))'
      BY DEF TargetReachedCleanly, CleanRunTo
    <3> QED
      BY <1>1, <2>2, <2>4 DEF CleanRunTo, RunIds
  <2> QED
    BY <2>1, <2>2, <2>5 DEF SupervisorKnows, CampaignsEnd
<1>4. CASE /\ ~PlanInvalid /\ Remaining # 0
           /\ Invoke(NextSlot, ChildOptions)
           /\ sup' = [sup EXCEPT !.pc = "waiting", !.child = NextSlot, !.before = cursor]
  <2>1. CampaignsEnd'
    BY <1>4, InvokeEnds
  <2>2. PICK c : c = NextSlot
    OBVIOUS
  <2>3. c \in Campaigns
    BY <1>1, <2>2, VacantSlot DEF Vacant
  <2>4. /\ sup'.pc = "waiting" /\ sup'.child = c /\ sup'.execute = sup.execute
        /\ SupervisorShaped'
    BY <1>1, <1>4, <2>2 DEF SupervisorShaped, SupervisorFields
  <2>5. PICK o : o = ChildOptions
    OBVIOUS
  <2>6. camp'[c].opt = o
    BY <1>4, <2>2, <2>3, <2>5, NewCampaignFields DEF Invoke, Before, CampaignsHold
  <2>7. sup.execute => ChildShape(o)
    BY <1>4, <2>5, ChildIsShaped DEF Before
  <2>8. sup'.execute => ChildShape(camp[c].opt)'
    BY <2>4, <2>6, <2>7 DEF ChildShape
  <2> QED
    BY <2>1, <2>3, <2>4, <2>8 DEF SupervisorKnows, Watched, TargetReachedCleanly
<1> QED
  BY <1>2, <1>3, <1>4 DEF Decide

(* The last child ended cleanly, so a clean run ended where the cursor is.  *)
LEMMA ReviewKnows ==
  ASSUME Before, CampaignsEnd, SupervisorKnows, ReviewChild
  PROVE  SupervisorKnows'
<1> DEFINE s == camp[sup.child]
<1>1. /\ SupervisorShaped /\ sup.pc = "waiting" /\ sup.child \in Campaigns /\ s.pc = "ended"
      /\ UNCHANGED <<runs, cursor, camp>>
  BY DEF ReviewChild, SupervisorKnows, Watched, Child, around, rows
<1>2. CASE \E reason : Halt(reason)
  BY <1>1, <1>2, HaltKnows
<1>3. CASE /\ ChildClean /\ CursorConfirms
           /\ sup' = [sup EXCEPT
                        !.pc = IF Child.opt.final = Target THEN "summarizing" ELSE "deciding",
                        !.reason = IF Child.opt.final = Target
                                   THEN "authorized_final_block_reached" ELSE @,
                        !.sim = IF sup.execute THEN @ ELSE Child.opt.final,
                        !.number = @ + 1]
  <2>1. /\ sup'.pc = IF s.opt.final = Target THEN "summarizing" ELSE "deciding"
        /\ sup'.execute = sup.execute /\ SupervisorShaped'
    BY <1>1, <1>3 DEF SupervisorShaped, SupervisorFields, Child
  <2>2. Vacant' # {}
    BY <1>1 DEF Vacant, Alive
  <2>3. ASSUME sup.execute, s.opt.final = Target
        PROVE  cursor.to >= Target /\ CleanRunTo(Target)
    <3>1. s.reason \in CleanStops
      BY <1>3 DEF ChildClean, Child
    <3>2. ChildShape(s.opt)
      BY <1>1, <2>3, <3>1 DEF SupervisorKnows, Watched
    <3>3. CleanRunTo(LastBlock(s.opt))
      BY <1>1, <3>1, <3>2 DEF CampaignsEnd, Ending, ChildShape
    <3>4. cursor.to = Target
      BY <1>3, <2>3 DEF CursorConfirms, CursorIs, Child
    <3>5. Target \in Int
      BY SupervisorAssumption
    <3> QED
      BY <2>3, <3>2, <3>3, <3>4, <3>5, LastOfChild
  <2>4. TargetReachedCleanly'
    <3> SUFFICES ASSUME sup'.pc = "summarizing", sup'.execute
                 PROVE  (cursor.to >= Target /\ CleanRunTo(Target))'
      BY DEF TargetReachedCleanly, CleanRunTo
    <3>1. s.opt.final = Target
      BY <2>1
    <3> QED
      BY <1>1, <2>1, <2>3, <3>1 DEF CleanRunTo, RunIds
  <2> QED
    BY <2>1, <2>2, <2>4 DEF SupervisorKnows
<1> QED
  BY <1>2, <1>3 DEF ReviewChild

LEMMA SupervisorGoesOn ==
  ASSUME Before, RowsInv', Steady, CampaignsEnd, SupervisorKnows, SupervisorNext
  PROVE  SupervisorKnows' /\ CampaignsEnd'
<1>1. SupervisorShaped
  BY DEF SupervisorKnows
<1>2. ASSUME UNCHANGED camp
      PROVE  CampaignsEnd'
  BY <1>2, EndingStays DEF CampaignsEnd
<1>3. CASE Invocation
  <2>1. sup'.pc = "starting" /\ SupervisorShaped' /\ Vacant' # {}
    <3>1. PICK mode \in Modes :
            sup' = [sup EXCEPT !.pc = "starting", !.execute = mode, !.child = 0,
                      !.sim = Nowhere, !.invocations = @ + 1, !.reason = ""]
      BY <1>3 DEF Invocation
    <3>2. sup'.pc = "starting" /\ SupervisorShaped'
      BY <1>1, <3>1 DEF SupervisorShaped, SupervisorFields
    <3> QED
      BY <1>3, <3>2 DEF Invocation, Vacant, Alive
  <2> QED
    BY <1>2, <1>3, <2>1 DEF Invocation, SupervisorKnows, TargetReachedCleanly
<1>4. CASE SupervisorStartUp
  <2>1. CASE \E reason : Halt(reason)
    BY <1>1, <1>2, <1>4, <2>1, HaltKnows DEF SupervisorStartUp
  <2>2. CASE sup' = [sup EXCEPT !.pc = "deciding", !.base = world, !.number = StartingNumber]
    <3>1. sup'.pc = "deciding" /\ SupervisorShaped'
      BY <1>1, <2>2 DEF SupervisorShaped, SupervisorFields
    <3>2. Vacant' # {}
      BY <1>4 DEF SupervisorStartUp, SupervisorKnows, Vacant, Alive
    <3> QED
      BY <1>2, <1>4, <3>1, <3>2 DEF SupervisorStartUp, SupervisorKnows, TargetReachedCleanly
  <2> QED
    BY <1>4, <2>1, <2>2 DEF SupervisorStartUp
<1>5. CASE Decide
  BY <1>5, DecideKnows
<1>6. CASE ReviewChild
  BY <1>2, <1>6, ReviewKnows DEF ReviewChild
<1>7. CASE SupervisorSummary \/ SupervisorFails
  BY <1>1, <1>2, <1>7, HaltKnows DEF SupervisorSummary, SupervisorFails
<1>8. CASE RecoverByHand
  <2>1. CampaignsEnd'
    BY <1>8, InvokeEnds DEF RecoverByHand
  <2>2. sup.pc \in {"idle", "stopped"} /\ UNCHANGED sup
    BY <1>8 DEF RecoverByHand, Halted
  <2> QED
    BY <2>1, <2>2 DEF SupervisorKnows, SupervisorShaped, TargetReachedCleanly
<1>9. CASE CampaignNext /\ UNCHANGED sup
  BY <1>9, CampaignKnows
<1> QED
  BY <1>3, <1>4, <1>5, <1>6, <1>7, <1>8, <1>9 DEF SupervisorNext, SupervisorStep

LEMMA NextKnows ==
  ASSUME ForwardInv, ForwardInv', CampaignsEnd, SupervisorKnows, [Next]_vars
  PROVE  CampaignsEnd' /\ SupervisorKnows'
<1>1. Before /\ RowsInv' /\ Steady
  BY NextHolds DEF ForwardInv, Before
<1>2. CASE SupervisorNext
  BY <1>1, <1>2, SupervisorGoesOn
<1>3. CASE UNCHANGED <<camp, sup>>
  <2>1. CampaignsEnd'
    BY <1>1, <1>3, EndingStays DEF CampaignsEnd
  <2>2. Vacant \subseteq Vacant'
    BY <1>3 DEF Vacant, Alive
  <2>3. ASSUME NEW d \in Campaigns, camp'[d].pc # "ended" \/ camp'[d].reason \in CleanStops
        PROVE  /\ camp'[d].opt = camp[d].opt
               /\ camp[d].pc # "ended" \/ camp[d].reason \in CleanStops
    BY <1>3, <2>3
  <2>4. UNCHANGED sup
    BY <1>3
  <2> QED
    BY <1>1, <2>1, <2>2, <2>3, <2>4, SupervisorStays DEF Before
<1> QED
  BY <1>2, <1>3 DEF Next, vars, scripts

LEMMA InitKnows == Init => CampaignsEnd /\ SupervisorKnows
<1> SUFFICES ASSUME Init
             PROVE  CampaignsEnd /\ SupervisorKnows
  OBVIOUS
<1>1. \A c \in Campaigns : camp[c].opt.execute = FALSE
  <2> DEFINE s == NewCampaign(NoOptions, "unused")
  <2>1. s.opt = NoOptions
    BY DEF NewCampaign
  <2>2. NoOptions.execute = FALSE
    BY DEF NoOptions
  <2> HIDE DEF s
  <2>3. camp = [c \in Campaigns |-> s]
    BY DEF Init, CampaignInit, s
  <2> QED
    BY <2>1, <2>2, <2>3
<1>2. sup.pc = "idle" /\ SupervisorShaped
  BY DEF Init, SupervisorInit, SupervisorShaped, SupervisorFields
<1> QED
  BY <1>1, <1>2 DEF CampaignsEnd, Ending, SupervisorKnows, TargetReachedCleanly

(* A supervisor that executes and reports the target reached leaves a       *)
(* cursor that covers it and, unless the target was where the wallet had    *)
(* been synced to from the first, a clean run that ended there: whoever     *)
(* else syncs the wallet, and whatever child an earlier one left behind.    *)
THEOREM TargetReached == Spec => []TargetReachedCleanly
<1>1. SupervisorKnows => TargetReachedCleanly
  BY DEF SupervisorKnows
<1> QED
  BY <1>1, InitKnows, Invariance, NextKnows, PTL DEF Spec

-----------------------------------------------------------------------------
(* What everything ranges over                                              *)

Kinds    == {"child", "hand", "recovery", "batch", "backfill", "rebuild", "probe", "other"}
LabelSet == [kind : Kinds, id : Nat, n : Nat]
RowSet   == [label : LabelSet, from : Nat, to : Nat,
             status : {"PENDING", "COMPLETED", "FAILED"}, live : BOOLEAN,
             report : Reports \cup Aftermath \cup {<<>>}]

(* A window that may become a run.                                          *)
Proper(w) == w.label \in LabelSet /\ w.from \in Nat /\ w.to \in Nat

(* What RowsTypeOK says, of the requests under way too; and that the labels *)
(* have a largest number.                                                   *)
RowsTyped ==
  /\ runs \in Seq(RowSet)
  /\ cursor \in [from : Nat, to : Nat] /\ tainted \subseteq Nat
  /\ world \in {"approved", "moved", "dirty"} /\ faults \in 0 .. MaxFaults
  /\ \A w \in adrift : Proper(w)
  /\ \E k \in Nat : \A r \in RunIds : runs[r].label.id <= k

LEMMA LabelTyped ==
  ASSUME NEW kind \in Kinds, NEW id \in Nat, NEW n \in Nat
  PROVE  Label(kind, id, n) \in LabelSet
BY DEF Label, LabelSet

LEMMA RequestProper ==
  ASSUME NEW label \in LabelSet, NEW from \in Nat, NEW to \in Nat
  PROVE  Proper(Request(label, from, to))
BY DEF Proper, Request

LEMMA RowTyped ==
  ASSUME RowsTyped, NEW r \in RunIds
  PROVE  /\ runs[r] \in RowSet /\ runs[r].label \in LabelSet
         /\ runs[r].from \in Nat /\ runs[r].to \in Nat
<1>1. runs[r] \in RowSet
  BY DEF RowsTyped, RunIds
<1> QED
  BY <1>1 DEF RowSet

LEMMA FaultsCounted ==
  ASSUME RowsTyped, Fault \/ UNCHANGED faults
  PROVE  faults' \in 0 .. MaxFaults
BY WindowsAssumption DEF RowsTyped, Fault

(* A request is taken, or stays on its way, or is lost.                     *)
LEMMA RequestTyped ==
  ASSUME RowsTyped, NEW w, Proper(w), Accept(w) \/ UNCHANGED runs,
         adrift' \subseteq adrift \cup {w}, UNCHANGED <<cursor, tainted, world>>,
         Fault \/ UNCHANGED faults
  PROVE  RowsTyped'
<1>1. CASE UNCHANGED runs
  BY <1>1, FaultsCounted DEF RowsTyped, RunIds, Proper
<1>2. CASE Accept(w)
  <2>1. NewRun(w) \in RowSet /\ NewRun(w).label = w.label
    BY DEF Proper, NewRun, RowSet
  <2>2. runs \in Seq(RowSet) /\ runs' = Append(runs, NewRun(w))
    BY <1>2 DEF RowsTyped, Accept
  <2>3. /\ runs' \in Seq(RowSet)
        /\ RunIds' = RunIds \cup {Len(runs) + 1}
        /\ \A r \in RunIds : runs'[r] = runs[r]
        /\ runs'[Len(runs) + 1] = NewRun(w)
    BY <2>1, <2>2 DEF RunIds
  <2>4. PICK k \in Nat : \A r \in RunIds : runs[r].label.id <= k
    BY DEF RowsTyped
  <2>5. PICK id : id = w.label.id
    OBVIOUS
  <2>6. id \in Nat
    BY <2>5 DEF Proper, LabelSet
  <2>7. PICK m \in Nat : k <= m /\ id <= m
    <3>1. k <= id \/ id <= k
      BY <2>6
    <3> QED
      BY <2>6, <3>1
  <2>8. \A r \in RunIds : runs[r].label.id \in Nat
    BY RowTyped DEF LabelSet
  <2>9. \A r \in RunIds' : runs'[r].label.id <= m
    <3>1. \A r \in RunIds : runs'[r].label.id <= m
      BY <2>3, <2>4, <2>7, <2>8
    <3>2. runs'[Len(runs) + 1].label.id <= m
      BY <2>1, <2>3, <2>5, <2>7
    <3> QED
      BY <2>3, <3>1, <3>2
  <2>10. \A x \in adrift' : Proper(x)'
    BY DEF RowsTyped, Proper
  <2> QED
    BY <2>3, <2>9, <2>10, FaultsCounted DEF RowsTyped
<1> QED
  BY <1>1, <1>2

(* Nothing is asked for.                                                    *)
LEMMA QuietTyped ==
  ASSUME RowsTyped, UNCHANGED <<runs, cursor, tainted>>, adrift' \subseteq adrift,
         world' \in {"approved", "moved", "dirty"}, Fault \/ UNCHANGED faults
  PROVE  RowsTyped'
BY FaultsCounted DEF RowsTyped, RunIds, Proper

(* A run is replaced by another of the same label and window.               *)
LEMMA ReplacedTyped ==
  ASSUME RowsTyped, NEW r \in RunIds, NEW row, runs' = [runs EXCEPT ![r] = row],
         row \in RowSet, row.label = runs[r].label,
         cursor' \in [from : Nat, to : Nat], tainted' \subseteq Nat,
         UNCHANGED <<adrift, world>>, Fault \/ UNCHANGED faults
  PROVE  RowsTyped'
<1>1. runs' \in Seq(RowSet) /\ RunIds' = RunIds
  BY DEF RowsTyped, RunIds
<1>2. \A q \in RunIds : runs'[q].label = runs[q].label
  BY DEF RowsTyped, RunIds
<1>3. \E k \in Nat : \A q \in RunIds' : runs'[q].label.id <= k
  BY <1>1, <1>2 DEF RowsTyped
<1> QED
  BY <1>1, <1>3, FaultsCounted DEF RowsTyped, Proper

LEMMA SettledTyped ==
  ASSUME RowsTyped, NEW r \in RunIds, NEW status \in {"COMPLETED", "FAILED"},
         NEW report \in Reports \cup Aftermath \cup {<<>>}, Settle(r, status, report),
         cursor' \in {cursor, Extended(r)},
         tainted' \in {tainted, tainted \cup Range(runs[r])},
         UNCHANGED <<adrift, world>>, Fault \/ UNCHANGED faults
  PROVE  RowsTyped'
<1>1. /\ runs[r] \in RowSet /\ runs[r].from \in Nat /\ runs[r].to \in Nat
      /\ cursor \in [from : Nat, to : Nat] /\ tainted \subseteq Nat
  BY RowTyped DEF RowsTyped
<1> DEFINE row == [runs[r] EXCEPT !.status = status, !.report = report, !.live = FALSE]
<1>2. row \in RowSet /\ row.label = runs[r].label
  BY <1>1 DEF RowSet
<1>3. runs' = [runs EXCEPT ![r] = row]
  BY DEF RowsTyped, Settle, RunIds
<1> HIDE DEF row
<1>4. Extended(r) \in [from : Nat, to : Nat]
  BY <1>1 DEF Extended
<1>5. Range(runs[r]) \subseteq Nat
  BY <1>1 DEF Range
<1> QED
  BY <1>1, <1>2, <1>3, <1>4, <1>5, ReplacedTyped

LEMMA SurroundingsTyped ==
  ASSUME RowsTyped, Surroundings \/ SyncFurtherBack
  PROVE  RowsTyped'
<1>1. ASSUME NEW r \in RunIds, CompleteRun(r)
      PROVE  RowsTyped'
  BY <1>1, SettledTyped DEF CompleteRun
<1>2. ASSUME NEW r \in RunIds, SpoilRun(r)
      PROVE  RowsTyped'
  <2>1. PICK status \in {"COMPLETED", "FAILED"}, report \in Reports \cup Aftermath \cup {<<>>} :
          /\ Settle(r, status, report)
          /\ cursor' \in {cursor, Extended(r)}
          /\ tainted' \in {tainted, tainted \cup Range(runs[r])}
    BY <1>2 DEF SpoilRun
  <2> QED
    BY <1>2, <2>1, SettledTyped DEF SpoilRun
<1>3. ASSUME NEW r \in RunIds, ReleaseRun(r)
      PROVE  RowsTyped'
  <2> DEFINE row == [runs[r] EXCEPT !.status = "FAILED"]
  <2>1. row \in RowSet /\ row.label = runs[r].label
    BY RowTyped DEF RowSet
  <2>2. runs' = [runs EXCEPT ![r] = row]
    BY <1>3 DEF RowsTyped, ReleaseRun, RunIds
  <2> HIDE DEF row
  <2> QED
    BY <1>3, <2>1, <2>2, ReplacedTyped DEF ReleaseRun, RowsTyped
<1>4. ASSUME NEW w \in adrift, DeliverLate(w)
      PROVE  RowsTyped'
  <2>1. Proper(w)
    BY DEF RowsTyped
  <2> QED
    BY <1>4, <2>1, RequestTyped DEF DeliverLate
<1>5. ASSUME NEW from, NEW to, OthersSync(from, to)
      PROVE  RowsTyped'
  <2> DEFINE w == Request(Label("other", Len(runs), 0), from, to)
  <2>1. Label("other", Len(runs), 0) \in LabelSet
    <3>1. Len(runs) \in Nat
      BY DEF RowsTyped
    <3> QED
      BY <3>1, LabelTyped DEF Kinds
  <2>2. Proper(w)
    BY <1>5, <2>1, RequestProper DEF OthersSync
  <2> QED
    BY <1>5, <2>2, RequestTyped DEF OthersSync
<1>6. ASSUME Drift
      PROVE  RowsTyped'
  BY <1>6, QuietTyped DEF Drift, rows
<1> QED
  BY <1>1, <1>2, <1>3, <1>4, <1>5, <1>6 DEF Surroundings, SyncOnwards, SyncFurtherBack

Grown == Len(runs) \in Nat /\ Len(runs') \in Nat /\ Len(runs) <= Len(runs')

LEMMA RunsGrow ==
  ASSUME RowsTyped, RowsTyped', Steady
  PROVE  Grown
<1>1. Len(runs) \in Nat /\ Len(runs') \in Nat
  BY DEF RowsTyped
<1>2. 1 .. Len(runs) \subseteq 1 .. Len(runs')
  BY DEF Steady, RunIds, RowsTyped
<1>3. Len(runs) \in 1 .. Len(runs) \/ Len(runs) = 0
  BY <1>1
<1> QED
  BY <1>1, <1>2, <1>3 DEF Grown

(* The windows of an invocation that are behind it.                         *)
Done(s) == IF s.pc = "checkpoint" THEN s.iteration + 1 ELSE s.iteration

OptionsTyped(o) ==
  /\ o.first \in Nat /\ o.final \in Nat /\ o.max \in 0 .. MaxPerChild
  /\ o.id \in Nat /\ o.source \in Nat

CountsTyped(s) ==
  /\ s.iteration \in Nat /\ Done(s) <= s.opt.max
  /\ s.pc \in Planned /\ ~s.recovering => s.iteration < s.opt.max
  /\ s.completed \in 0 .. MaxPerChild /\ (s.pc # "ended" => s.completed <= Done(s))
  /\ s.processed \in 0 .. Done(s) + 1

CampaignTyped(s) ==
  /\ OptionsTyped(s.opt) /\ CountsTyped(s)
  /\ s.run \in 0 .. Len(runs)
  /\ s.opt.execute /\ s.pc \in Planned => Proper(s.window)

CampaignsTyped == \A c \in Campaigns : CampaignTyped(camp[c])

LEMMA LimitsHold ==
  ASSUME NEW o, OptionsTyped(o)
  PROVE  WindowLimit(o) \in Int /\ WindowLimit(o) <= o.max
<1>1. FirstOrdinary(o) \in Int
  BY Naturals DEF OptionsTyped, FirstOrdinary
<1>2. WindowCount(o) \in Int
  BY <1>1, Naturals DEF OptionsTyped, WindowCount
<1> QED
  BY <1>2 DEF OptionsTyped, WindowLimit

(* A step that counts nothing.                                              *)
LEMMA CountsStay ==
  ASSUME NEW s, NEW t, CountsTyped(s), OptionsTyped(s.opt), t.opt = s.opt,
         t.iteration = s.iteration, t.completed = s.completed, t.processed = s.processed,
         s.pc \notin {"checkpoint", "ended"}, t.pc # "checkpoint",
         t.pc \in Planned /\ ~t.recovering => s.iteration < s.opt.max
  PROVE  CountsTyped(t)
BY DEF CountsTyped, OptionsTyped, Done

LEMMA TypedStays ==
  ASSUME NEW c \in Campaigns, CampaignTyped(camp[c]), Grown, camp'[c] = camp[c]
  PROVE  CampaignTyped(camp[c])'
BY DEF CampaignTyped, OptionsTyped, CountsTyped, Done, Grown, Proper

(* An invocation that has not begun, or is over.                            *)
Fresh(t) == /\ OptionsTyped(t.opt) /\ CountsTyped(t) /\ t.run = 0
            /\ t.pc \in {"unused", "starting", "ended"}

LEMMA NewIsFresh ==
  ASSUME NEW options, NEW pc \in {"unused", "starting", "ended"}, OptionsTyped(options)
  PROVE  Fresh(NewCampaign(options, pc))
<1> DEFINE t == NewCampaign(options, pc)
<1>1. t.pc = pc /\ t.iteration = 0 /\ t.completed = 0
  BY DEF NewCampaign
<1>2. t.processed = 0 /\ t.run = 0
  BY DEF NewCampaign
<1>3. t.opt = options
  BY DEF NewCampaign
<1> HIDE DEF t
<1>4. pc \notin Planned /\ pc # "checkpoint"
  BY DEF Planned, Submitted
<1>5. CountsTyped(t)
  BY <1>1, <1>2, <1>3, <1>4, SupervisorAssumption DEF CountsTyped, OptionsTyped, Done
<1>6. Fresh(t)
  BY <1>1, <1>2, <1>3, <1>5 DEF Fresh
<1> QED
  BY <1>6 DEF t

LEMMA FreshIsTyped ==
  ASSUME NEW c \in Campaigns, Fresh(camp'[c]), Grown
  PROVE  CampaignTyped(camp[c])'
BY DEF Fresh, CampaignTyped, OptionsTyped, CountsTyped, Done, Grown, Planned, Submitted

LEMMA NoOptionsTyped == OptionsTyped(NoOptions)
BY SupervisorAssumption DEF OptionsTyped, NoOptions

LEMMA StopTyped ==
  ASSUME CampaignsShaped, NEW c \in Campaigns, NEW reason, Stop(c, reason),
         CampaignTyped(camp[c]), Grown
  PROVE  CampaignTyped(camp[c])'
<1>1. CASE reason \notin CleanStops
  <2> DEFINE t == NewCampaign(NoOptions, "ended")
  <2>1. Fresh(t)
    BY NoOptionsTyped, NewIsFresh
  <2> HIDE DEF t
  <2>2. camp' = [camp EXCEPT ![c] = t]
    BY <1>1 DEF Stop, t
  <2>3. camp'[c] = t
    BY <2>2, Becomes
  <2> QED
    BY <2>1, <2>3, FreshIsTyped
<1>2. CASE reason \in CleanStops
  <2> DEFINE t == [NewCampaign(camp[c].opt, "ended") EXCEPT
                     !.reason = reason, !.completed = camp[c].completed, !.last = camp[c].last]
  <2>1. camp' = [camp EXCEPT ![c] = t]
    BY <1>2, Shape DEF Stop
  <2>2. t.pc = "ended" /\ t.iteration = 0 /\ t.completed = camp[c].completed
    BY DEF NewCampaign
  <2>3. t.processed = 0 /\ t.run = 0 /\ t.opt = camp[c].opt
    BY DEF NewCampaign
  <2> HIDE DEF t
  <2>4. CountsTyped(t)
    BY <2>2, <2>3 DEF CampaignTyped, CountsTyped, OptionsTyped, Done, Planned, Submitted
  <2>5. camp'[c] = t
    BY <2>1, Becomes
  <2> QED
    BY <2>2, <2>3, <2>4, <2>5 DEF CampaignTyped, OptionsTyped, Grown, Planned, Submitted
<1> QED
  BY <1>1, <1>2

LEMMA BrokenTyped ==
  ASSUME CampaignsShaped, NEW c \in Campaigns, BreaksOff(c), CampaignTyped(camp[c]), Grown
  PROVE  CampaignTyped(camp[c])'
BY StopTyped DEF BreaksOff

(* What an invocation does before it submits a window.                      *)
LEMMA AheadTyped ==
  ASSUME CampaignsShaped, NEW c \in Campaigns, CampaignTyped(camp[c]), Grown,
         CampaignHolds(camp[c]), CampaignHolds(camp[c])',
         StartUp(c) \/ Qualify(c) \/ PlanWindow(c) \/ PassGates(c)
  PROVE  CampaignTyped(camp[c])'
<1> PICK s, t : s = camp[c] /\ t = camp'[c]
  OBVIOUS
<1>1. CASE BreaksOff(c)
  BY <1>1, BrokenTyped
<1>2. CASE StartUp(c) /\ ~BreaksOff(c)
  <2>1. s.pc = "starting" /\ t.pc \in {"planning", "qualifying"} /\ Keeps(c, {"pc", "base"})
    BY <1>2, StartUpFields
  <2>2. /\ t.opt = s.opt /\ t.iteration = s.iteration /\ t.completed = s.completed
        /\ t.processed = s.processed /\ t.run = s.run
    BY <2>1 DEF Keeps, CampaignFields
  <2>3. CountsTyped(t)
    BY <2>1, <2>2, CountsStay DEF CampaignTyped, Planned, Submitted
  <2> QED
    BY <2>1, <2>2, <2>3 DEF CampaignTyped, OptionsTyped, Grown, Planned, Submitted
<1>3. CASE Qualify(c) /\ ~BreaksOff(c)
  <2>1. /\ s.pc = "qualifying" /\ t.pc = "gating" /\ t.recovering
        /\ t.window = Request(Label("recovery", s.opt.source, 0), s.opt.first,
                              s.opt.first + WindowSize - 1)
        /\ Keeps(c, {"pc", "recovering", "window"})
    BY <1>3, QualifyFields
  <2>2. /\ t.opt = s.opt /\ t.iteration = s.iteration /\ t.completed = s.completed
        /\ t.processed = s.processed /\ t.run = s.run
    BY <2>1 DEF Keeps, CampaignFields
  <2>3. CountsTyped(t)
    BY <2>1, <2>2, CountsStay DEF CampaignTyped
  <2>4. Proper(t.window)
    <3>1. Label("recovery", s.opt.source, 0) \in LabelSet
      BY LabelTyped DEF CampaignTyped, OptionsTyped, Kinds
    <3>2. s.opt.first \in Nat /\ s.opt.first + WindowSize - 1 \in Nat
      BY Naturals DEF CampaignTyped, OptionsTyped
    <3> QED
      BY <2>1, <3>1, <3>2, RequestProper
  <2> QED
    BY <2>1, <2>2, <2>3, <2>4 DEF CampaignTyped, OptionsTyped, Grown, Proper
<1>4. CASE PlanWindow(c) /\ ~BreaksOff(c)
  <2>1. /\ s.pc = "planning" /\ t.pc = "gating" /\ s.iteration < WindowLimit(s.opt)
        /\ \E to : t.window = WindowPlan(s.opt, to)
        /\ Keeps(c, {"pc", "window"})
    BY <1>4, PlanFields
  <2>2. /\ t.opt = s.opt /\ t.iteration = s.iteration /\ t.completed = s.completed
        /\ t.processed = s.processed /\ t.run = s.run /\ t.recovering = s.recovering
    BY <2>1 DEF Keeps, CampaignFields
  <2>3. s.iteration < s.opt.max
    BY <2>1, LimitsHold DEF CampaignTyped, CountsTyped, OptionsTyped
  <2>4. CountsTyped(t)
    BY <2>1, <2>2, <2>3, CountsStay DEF CampaignTyped
  <2>5. ASSUME t.opt.execute
        PROVE  Proper(t.window)
    <3>1. PICK to : t.window = WindowPlan(s.opt, to)
      BY <2>1
    <3>2. /\ t.window.from = to + 1 /\ t.window.to = to + WindowSize
          /\ t.window = Request(Label(s.opt.kind, s.opt.id, LogicalNumber(s.opt, to + 1)),
                                to + 1, to + WindowSize)
      BY <3>1 DEF WindowPlan, NextRange, Request
    <3>3. ~t.recovering /\ s.opt.kind \in {"child", "hand"}
      BY <2>1, <2>2, <2>5 DEF CampaignHolds, RecoveryHolds, OptionsHold, Planned, Submitted
    <3>4. /\ t.window.from \in Int /\ t.window.to = t.window.from + WindowSize - 1
          /\ t.window.from = StartAt(s.opt, s.iteration)
      BY <2>1, <2>2, <2>5, <3>3 DEF CampaignHolds, WindowHolds, CoverHolds, Planned
    <3>5. PICK from : from = t.window.from
      OBVIOUS
    <3>6. from \in Nat /\ s.opt.first \in Nat /\ from >= s.opt.first
      <4>1. s.opt.first \in Nat /\ s.iteration \in Nat
        BY DEF CampaignTyped, OptionsTyped, CountsTyped
      <4>2. s.iteration * WindowSize \in Nat
        BY <4>1, Naturals
      <4>3. FirstOrdinary(s.opt) \in Nat /\ FirstOrdinary(s.opt) >= s.opt.first
        BY <4>1, Naturals DEF FirstOrdinary
      <4> QED
        BY <3>4, <3>5, <4>1, <4>2, <4>3 DEF StartAt
    <3>7. LogicalNumber(s.opt, from) \in Nat
      <4>1. (from - s.opt.first) \div WindowSize \in Nat
        BY <3>6, Naturals
      <4> QED
        BY <4>1 DEF LogicalNumber
    <3>8. t.window.to = from + WindowSize - 1 /\ t.window.to \in Nat
      BY <3>4, <3>5, <3>6, Naturals
    <3>9. Label(s.opt.kind, s.opt.id, LogicalNumber(s.opt, from)) \in LabelSet
      <4>1. s.opt.kind \in Kinds
        BY <3>3 DEF Kinds
      <4> QED
        BY <3>7, <4>1, LabelTyped DEF CampaignTyped, OptionsTyped
    <3>10. t.window.label = Label(s.opt.kind, s.opt.id, LogicalNumber(s.opt, from))
      BY <3>2, <3>5 DEF Request
    <3> QED
      BY <3>5, <3>6, <3>8, <3>9, <3>10 DEF Proper
  <2> QED
    BY <2>1, <2>2, <2>4, <2>5 DEF CampaignTyped, OptionsTyped, Grown, Proper
<1>5. CASE PassGates(c) /\ ~BreaksOff(c)
  <2>1. /\ s.pc = "gating" /\ t.pc \in {"posting", "previewing"} /\ Keeps(c, {"pc"})
    BY <1>5, GateFields
  <2>2. /\ t.opt = s.opt /\ t.iteration = s.iteration /\ t.completed = s.completed
        /\ t.processed = s.processed /\ t.run = s.run /\ t.recovering = s.recovering
        /\ t.window = s.window
    BY <2>1 DEF Keeps, CampaignFields
  <2>3. s.pc \in Planned
    BY <2>1 DEF Planned
  <2>4. CountsTyped(t)
    BY <2>1, <2>2, <2>3, CountsStay DEF CampaignTyped, CountsTyped
  <2> QED
    BY <2>2, <2>3, <2>4 DEF CampaignTyped, OptionsTyped, Grown, Proper
<1> QED
  BY <1>1, <1>2, <1>3, <1>4, <1>5


(* From the request to the outcome.                                         *)
LEMMA RequestedTyped ==
  ASSUME CampaignsShaped, NEW c \in Campaigns, CampaignTyped(camp[c]), Grown, RowsTyped',
         CampaignHolds(camp[c])',
         Post(c) \/ PostThrows(c) \/ Reconcile(c) \/ Verify(c)
  PROVE  CampaignTyped(camp[c])'
<1> PICK s, t : s = camp[c] /\ t = camp'[c]
  OBVIOUS
<1>1. CASE BreaksOff(c)
  BY <1>1, BrokenTyped
<1>2. CASE ~BreaksOff(c)
  <2>1. /\ s.pc \in {"posting", "reconciling", "polling"}
        /\ t.pc \in {"reconciling", "polling", "recording"}
        /\ t.pc # "polling" => t.run = s.run
        /\ Keeps(c, {"pc", "run", "unchecked", "clean"})
    <3>1. CASE Verify(c)
      <4>1. s.pc = "polling" /\ t.pc = "recording" /\ Keeps(c, {"pc", "clean"})
        BY <3>1, VerifyFields
      <4> QED
        BY <4>1 DEF Keeps, CampaignFields
    <3>2. CASE ~Verify(c)
      <4>1. \/ /\ s.pc = "posting" /\ t.pc \in {"polling", "reconciling"}
               /\ Keeps(c, {"pc", "run", "unchecked"})
               /\ t.pc = "reconciling" => t.run = s.run
            \/ s.pc = "reconciling" /\ t.pc = "polling" /\ Keeps(c, {"pc", "run"})
        BY <1>2, <3>2, RequestFields
      <4> QED
        BY <4>1 DEF Keeps, CampaignFields
    <3> QED
      BY <3>1, <3>2
  <2>2. /\ t.opt = s.opt /\ t.iteration = s.iteration /\ t.completed = s.completed
        /\ t.processed = s.processed /\ t.recovering = s.recovering /\ t.window = s.window
    BY <2>1 DEF Keeps, CampaignFields
  <2>3. s.pc \in Planned /\ t.pc \in Submitted
    BY <2>1 DEF Planned, Submitted
  <2>4. CountsTyped(t)
    BY <2>1, <2>2, <2>3, CountsStay DEF CampaignTyped, CountsTyped
  <2>5. t.run \in 0 .. Len(runs')
    <3>1. CASE t.pc = "polling"
      <4>1. t.run \in RunIds'
        BY <2>3, <3>1 DEF CampaignHolds, AttachedHolds
      <4> QED
        BY <4>1 DEF RunIds, RowsTyped
    <3>2. CASE t.pc # "polling"
      BY <2>1, <3>2 DEF CampaignTyped, Grown
    <3> QED
      BY <3>1, <3>2
  <2> QED
    BY <2>2, <2>3, <2>4, <2>5 DEF CampaignTyped, OptionsTyped, Proper
<1> QED
  BY <1>1, <1>2

(* A window is behind it.                                                   *)
LEMMA OutcomeTyped ==
  ASSUME CampaignsShaped, NEW c \in Campaigns, CampaignTyped(camp[c]), Grown,
         Preview(c) \/ RecordWindow(c) \/ Checkpoint(c)
  PROVE  CampaignTyped(camp[c])'
<1> PICK s, t : s = camp[c] /\ t = camp'[c]
  OBVIOUS
<1>0. OptionsTyped(s.opt) /\ CountsTyped(s) /\ MaxPerChild \in Nat
  BY SupervisorAssumption DEF CampaignTyped
<1>1. CASE BreaksOff(c)
  BY <1>1, BrokenTyped
<1>2. CASE ~BreaksOff(c)
  <2>1. /\ t.opt = s.opt /\ t.run = s.run /\ t.pc \notin Planned /\ t.pc # "ended"
        /\ CountsTyped(t)
    <3>1. CASE Preview(c)
      <4>1. /\ s.pc = "previewing" /\ t.opt = s.opt /\ t.run = s.run
            /\ t.iteration = s.iteration /\ t.completed = s.completed
            /\ \/ t.pc = "planning" /\ t.processed = s.processed
               \/ /\ ~s.recovering /\ t.pc = "checkpoint" /\ t.processed = s.processed + 1
        BY <3>1, PreviewFields
      <4>2. s.pc \in Planned /\ t.pc \notin Planned
        BY <4>1 DEF Planned, Submitted
      <4>3. CountsTyped(t)
        BY <1>0, <4>1, <4>2 DEF CountsTyped, OptionsTyped, Done
      <4> QED
        BY <4>1, <4>2, <4>3
    <3>2. CASE RecordWindow(c) /\ s.recovering
      <4>1. /\ s.pc = "recording" /\ t.pc = "planning" /\ t.processed = 1
            /\ Keeps(c, {"pc", "recovering", "processed"})
        BY <1>2, <3>2, RecordFields
      <4>2. /\ t.opt = s.opt /\ t.run = s.run
            /\ t.iteration = s.iteration /\ t.completed = s.completed
        BY <4>1 DEF Keeps, CampaignFields
      <4>3. t.pc \notin Planned
        BY <4>1 DEF Planned, Submitted
      <4>4. CountsTyped(t)
        BY <1>0, <4>1, <4>2, <4>3 DEF CountsTyped, OptionsTyped, Done
      <4> QED
        BY <4>1, <4>2, <4>3, <4>4
    <3>3. CASE RecordWindow(c) /\ ~s.recovering
      <4>1. /\ s.pc = "recording" /\ t.pc = "checkpoint" /\ t.processed = s.processed + 1
            /\ t.completed = s.completed + 1
            /\ Keeps(c, {"pc", "completed", "last", "expected", "processed"})
        BY <1>2, <3>3, RecordFields
      <4>2. t.opt = s.opt /\ t.run = s.run /\ t.iteration = s.iteration
        BY <4>1 DEF Keeps, CampaignFields
      <4>3. s.pc \in Planned /\ t.pc \notin Planned
        BY <4>1 DEF Planned, Submitted
      <4>4. CountsTyped(t)
        BY <1>0, <3>3, <4>1, <4>2, <4>3 DEF CountsTyped, OptionsTyped, Done
      <4> QED
        BY <4>1, <4>2, <4>3, <4>4
    <3>4. CASE Checkpoint(c)
      <4>1. /\ s.pc = "checkpoint" /\ t.pc = "planning" /\ t.iteration = s.iteration + 1
            /\ Keeps(c, {"pc", "iteration", "unchecked"})
        BY <1>2, <3>4, CheckpointFields
      <4>2. /\ t.opt = s.opt /\ t.run = s.run
            /\ t.completed = s.completed /\ t.processed = s.processed
        BY <4>1 DEF Keeps, CampaignFields
      <4>3. t.pc \notin Planned
        BY <4>1 DEF Planned, Submitted
      <4>4. CountsTyped(t)
        BY <1>0, <4>1, <4>2, <4>3 DEF CountsTyped, OptionsTyped, Done
      <4> QED
        BY <4>1, <4>2, <4>3, <4>4
    <3> QED
      BY <3>1, <3>2, <3>3, <3>4
  <2> QED
    BY <2>1 DEF CampaignTyped, OptionsTyped, Grown
<1> QED
  BY <1>1, <1>2

LEMMA CampaignNextTyped ==
  ASSUME CampaignsHold, CampaignsHold', CampaignsTyped, RowsTyped', Grown, CampaignNext
  PROVE  CampaignsTyped'
<1> PICK c \in Campaigns : Step(c) \/ PostThrows(c) \/ Fail(c)
  BY DEF CampaignNext
<1>1. /\ CampaignsShaped /\ CampaignTyped(camp[c])
      /\ CampaignHolds(camp[c]) /\ CampaignHolds(camp[c])'
  BY DEF CampaignsHold, CampaignsTyped
<1>2. CampaignTyped(camp[c])'
  <2>1. CASE PollTimeout(c) \/ Summarize(c) \/ Fail(c)
    BY <1>1, <2>1, StopTyped DEF PollTimeout, Summarize, Fail
  <2> QED
    BY <1>1, <2>1, AheadTyped, RequestedTyped, OutcomeTyped DEF Step
<1>3. \A d \in Campaigns \ {c} : camp'[d] = camp[d]
  BY <1>1, OthersKeep
<1>4. \A d \in Campaigns \ {c} : CampaignTyped(camp[d])'
  BY <1>3, TypedStays DEF CampaignsTyped
<1> QED
  BY <1>2, <1>4 DEF CampaignsTyped

LEMMA InvokeTyped ==
  ASSUME CampaignsShaped, CampaignsTyped, Grown, NEW c, NEW options, Invoke(c, options),
         OptionsTyped(options)
  PROVE  CampaignsTyped'
<1>1. PICK t : t = NewCampaign(options, "starting")
  OBVIOUS
<1>2. Fresh(t)
  BY <1>1, NewIsFresh
<1>3. \A d \in Campaigns : camp'[d] = camp[d] \/ camp'[d] = t
  BY <1>1 DEF Invoke, CampaignsShaped
<1> QED
  BY <1>2, <1>3, TypedStays, FreshIsTyped DEF CampaignsTyped

LEMMA CampaignRowsTyped ==
  ASSUME RowsTyped, CampaignsHold, CampaignsTyped, CampaignNext
  PROVE  RowsTyped'
<1> PICK c \in Campaigns : Step(c) \/ PostThrows(c) \/ Fail(c)
  BY DEF CampaignNext
<1>1. CASE Post(c) \/ PostThrows(c)
  <2>1. PICK w : w = camp[c].window
    OBVIOUS
  <2>2. camp[c].pc = "posting"
    BY <1>1 DEF Post, PostThrows
  <2>3. camp[c].opt.execute
    BY <2>2 DEF CampaignsHold, CampaignHolds, Submitted
  <2>4. Proper(w)
    BY <2>1, <2>2, <2>3 DEF CampaignsTyped, CampaignTyped, Planned, Submitted
  <2>5. /\ Accept(w) \/ UNCHANGED runs
        /\ adrift' \subseteq adrift \cup {w} /\ UNCHANGED <<cursor, tainted, world>>
        /\ Fault \/ UNCHANGED faults
    BY <1>1, <2>1 DEF Post, PostThrows
  <2> QED
    BY <2>4, <2>5, RequestTyped
<1>2. CASE ~(Post(c) \/ PostThrows(c))
  <2>1. UNCHANGED <<runs, cursor, tainted, adrift, world>> /\ (Fault \/ UNCHANGED faults)
    BY <1>2 DEF Step, StartUp, Qualify, PlanWindow, PassGates, Preview, Reconcile, Verify,
                PollTimeout, RecordWindow, Checkpoint, Summarize, Fail, around, rows
  <2> QED
    BY <2>1, QuietTyped DEF RowsTyped
<1> QED
  BY <1>1, <1>2

(* The supervisor                                                           *)
SupervisorTyped ==
  /\ sup.pc \in {"idle", "starting", "deciding", "waiting", "summarizing", "stopped"}
  /\ sup.child \in Campaigns \cup {0}
  /\ sup.invocations \in 0 .. MaxInvocations
  /\ sup.number \in Nat /\ sup.sim \in Nat \cup {Nowhere}

(* The numbers of the children have a largest one.                          *)
LEMMA StartingNumberTyped ==
  ASSUME RowsTyped
  PROVE  StartingNumber \in Nat
<1>1. ChildNumbers \subseteq Nat
  BY RowTyped DEF ChildNumbers, LabelSet
<1>2. PICK k \in Nat : \A i \in ChildNumbers : i <= k
  BY DEF RowsTyped, ChildNumbers
<1>3. PICK U : U = {u \in Nat : \A i \in ChildNumbers : i <= u}
  OBVIOUS
<1>4. PICK m \in U : \A u \in U : ~(<<u, m>> \in OpToRel(<, Nat))
  BY <1>2, <1>3, NatLessThanWellFounded, WFMin
<1>5. m \in Nat /\ \A i \in ChildNumbers : i <= m
  BY <1>3, <1>4
<1>6. m \in ChildNumbers \cup {0}
  <2> SUFFICES ASSUME m \notin ChildNumbers, m # 0
               PROVE  FALSE
    OBVIOUS
  <2>1. m - 1 \in Nat /\ m - 1 < m
    BY <1>5
  <2>2. \A i \in ChildNumbers : i <= m - 1
    BY <1>1, <1>5
  <2>3. m - 1 \in U
    BY <1>3, <2>1, <2>2
  <2>4. <<m - 1, m>> \in OpToRel(<, Nat)
    BY <1>5, <2>1 DEF OpToRel
  <2> QED
    BY <1>4, <2>3, <2>4
<1>7. PICK n : n = CHOOSE x \in ChildNumbers \cup {0} : \A i \in ChildNumbers : i <= x
  OBVIOUS
<1>8. n \in Nat
  <2>1. n \in ChildNumbers \cup {0}
    BY <1>5, <1>6, <1>7
  <2> QED
    BY <1>1, <2>1
<1> QED
  BY <1>7, <1>8 DEF StartingNumber

LEMMA HaltTyped ==
  ASSUME SupervisorShaped, SupervisorTyped, NEW reason, Halt(reason)
  PROVE  SupervisorTyped'
<1>1. /\ sup'.pc = "stopped" /\ sup'.child = sup.child /\ sup'.invocations = sup.invocations
      /\ sup'.number = 1 /\ sup'.sim = Nowhere
  BY DEF Halt, SupervisorShaped, SupervisorFields
<1> QED
  BY <1>1 DEF SupervisorTyped

LEMMA ChildOptionsTyped ==
  ASSUME RowsTyped, SupervisorTyped, ~PlanInvalid
  PROVE  OptionsTyped(ChildOptions)
<1>1. PICK to, n : to = PlanningTo /\ n = Remaining \div WindowSize
  OBVIOUS
<1>2. to \in Nat
  BY <1>1 DEF RowsTyped, SupervisorTyped, PlanningTo
<1>3. Remaining \in Int /\ Remaining >= 0
  BY <1>1, <1>2, SupervisorAssumption DEF PlanInvalid, Remaining
<1>4. n \in Nat
  BY <1>1, <1>3, Naturals
<1>5. ChildWindows \in 0 .. MaxPerChild
  BY <1>1, <1>4, SupervisorAssumption DEF ChildWindows
<1>6. ChildWindows * WindowSize \in Nat
  BY <1>5, Naturals, SupervisorAssumption
<1>7. ChildFinal \in Nat
  BY <1>1, <1>2, <1>6 DEF ChildFinal
<1>8. /\ ChildOptions.first = to + 1 /\ ChildOptions.final = ChildFinal
      /\ ChildOptions.max = ChildWindows
      /\ ChildOptions.id = sup.number /\ ChildOptions.source = 0
  BY <1>1 DEF ChildOptions
<1> QED
  BY <1>2, <1>5, <1>7, <1>8 DEF OptionsTyped, SupervisorTyped

LEMMA SupervisorStepTyped ==
  ASSUME RowsTyped, CampaignsShaped, CampaignsTyped, SupervisorKnows, SupervisorTyped,
         RowsTyped', Grown, Invocation \/ SupervisorStep \/ SupervisorFails \/ RecoverByHand
  PROVE  CampaignsTyped' /\ SupervisorTyped'
<1>1. SupervisorShaped
  BY DEF SupervisorKnows
<1>2. ASSUME UNCHANGED camp
      PROVE  CampaignsTyped'
  BY <1>2, TypedStays DEF CampaignsTyped
<1>3. CASE Invocation
  <2>1. PICK mode \in Modes :
          sup' = [sup EXCEPT !.pc = "starting", !.execute = mode, !.child = 0, !.sim = Nowhere,
                             !.invocations = @ + 1, !.reason = ""]
    BY <1>3 DEF Invocation
  <2>2. PICK n : n = sup.invocations + 1
    OBVIOUS
  <2>3. sup' = [sup EXCEPT !.pc = "starting", !.execute = mode, !.child = 0, !.sim = Nowhere,
                           !.invocations = n, !.reason = ""]
    BY <1>1, <2>1, <2>2 DEF SupervisorShaped, SupervisorFields
  <2>4. /\ sup'.pc = "starting" /\ sup'.child = 0 /\ sup'.invocations = n
        /\ sup'.number = sup.number /\ sup'.sim = Nowhere
    BY <1>1, <2>3 DEF SupervisorShaped, SupervisorFields
  <2>5. n \in 0 .. MaxInvocations
    <3>1. PICK i : i = sup.invocations
      OBVIOUS
    <3>2. i \in 0 .. MaxInvocations /\ i < MaxInvocations
      BY <1>3, <3>1 DEF Invocation, SupervisorTyped
    <3> QED
      BY <2>2, <3>1, <3>2, SupervisorAssumption
  <2> QED
    BY <1>2, <1>3, <2>4, <2>5 DEF Invocation, SupervisorTyped
<1>4. CASE SupervisorStartUp
  <2>1. CASE \E reason : Halt(reason)
    BY <1>1, <1>2, <1>4, <2>1, HaltTyped DEF SupervisorStartUp
  <2>2. CASE sup' = [sup EXCEPT !.pc = "deciding", !.base = world, !.number = StartingNumber]
    <3>1. /\ sup'.pc = "deciding" /\ sup'.child = sup.child
          /\ sup'.invocations = sup.invocations /\ sup'.sim = sup.sim
          /\ sup'.number = StartingNumber
      BY <1>1, <2>2 DEF SupervisorShaped, SupervisorFields
    <3> QED
      BY <1>2, <1>4, <3>1, StartingNumberTyped DEF SupervisorStartUp, SupervisorTyped
  <2> QED
    BY <1>4, <2>1, <2>2 DEF SupervisorStartUp
<1>5. CASE Decide
  <2>1. CASE UNCHANGED camp /\ \E reason : Halt(reason)
    BY <1>1, <1>2, <2>1, HaltTyped
  <2>2. CASE /\ UNCHANGED camp
             /\ sup' = [sup EXCEPT !.pc = "summarizing",
                          !.reason = "authorized_final_block_already_reached"]
    <3>1. /\ sup'.pc = "summarizing" /\ sup'.child = sup.child
          /\ sup'.invocations = sup.invocations /\ sup'.sim = sup.sim
          /\ sup'.number = sup.number
      BY <1>1, <2>2 DEF SupervisorShaped, SupervisorFields
    <3> QED
      BY <1>2, <2>2, <3>1 DEF SupervisorTyped
  <2>3. CASE /\ ~PlanInvalid /\ Invoke(NextSlot, ChildOptions)
             /\ sup' = [sup EXCEPT !.pc = "waiting", !.child = NextSlot, !.before = cursor]
    <3>1. PICK c : c = NextSlot
      OBVIOUS
    <3>2. c \in Campaigns
      BY <1>5, <3>1, VacantSlot DEF Decide, SupervisorKnows, Vacant
    <3>3. /\ sup'.pc = "waiting" /\ sup'.child = c
          /\ sup'.invocations = sup.invocations /\ sup'.sim = sup.sim
          /\ sup'.number = sup.number
      BY <1>1, <2>3, <3>1 DEF SupervisorShaped, SupervisorFields
    <3>4. CampaignsTyped'
      BY <2>3, InvokeTyped, ChildOptionsTyped
    <3> QED
      BY <3>2, <3>3, <3>4 DEF SupervisorTyped
  <2> QED
    BY <1>5, <2>1, <2>2, <2>3 DEF Decide
<1>6. CASE ReviewChild
  <2>1. CASE \E reason : Halt(reason)
    BY <1>1, <1>2, <1>6, <2>1, HaltTyped DEF ReviewChild
  <2>2. CASE ~ \E reason : Halt(reason)
    <3>1. PICK final, pc, reason, sim, n :
            /\ final = Child.opt.final
            /\ pc = IF final = Target THEN "summarizing" ELSE "deciding"
            /\ reason = IF final = Target THEN "authorized_final_block_reached" ELSE sup.reason
            /\ sim = IF sup.execute THEN sup.sim ELSE final
            /\ n = sup.number + 1
      OBVIOUS
    <3>2. sup' = [sup EXCEPT !.pc = pc, !.reason = reason, !.sim = sim, !.number = n]
      BY <1>1, <1>6, <2>2, <3>1 DEF ReviewChild, SupervisorShaped, SupervisorFields
    <3>3. /\ sup'.pc = pc /\ sup'.child = sup.child
          /\ sup'.invocations = sup.invocations /\ sup'.sim = sim /\ sup'.number = n
      BY <1>1, <3>2 DEF SupervisorShaped, SupervisorFields
    <3>4. final \in Nat
      <4>1. sup.child \in Campaigns
        BY <1>6 DEF ReviewChild, SupervisorKnows, Watched
      <4> QED
        BY <3>1, <4>1 DEF Child, CampaignsTyped, CampaignTyped, OptionsTyped
    <3>5. n \in Nat /\ sim \in Nat \cup {Nowhere} /\ pc \in {"summarizing", "deciding"}
      BY <3>1, <3>4 DEF SupervisorTyped
    <3> QED
      BY <1>2, <1>6, <3>3, <3>5 DEF ReviewChild, SupervisorTyped
  <2> QED
    BY <2>1, <2>2
<1>7. CASE SupervisorSummary \/ SupervisorFails
  BY <1>1, <1>2, <1>7, HaltTyped DEF SupervisorSummary, SupervisorFails
<1>8. CASE RecoverByHand
  <2>1. PICK r \in RunIds, execute \in BOOLEAN :
          Invoke(NextSlot,
              [execute |-> execute, anchor |-> cursor.from, expected |-> cursor.to,
               first |-> runs[r].from, final |-> Target, max |-> MaxPerChild,
               kind |-> "hand", id |-> r, source |-> r])
    BY <1>8 DEF RecoverByHand
  <2> DEFINE o == [execute |-> execute, anchor |-> cursor.from, expected |-> cursor.to,
                   first |-> runs[r].from, final |-> Target, max |-> MaxPerChild,
                   kind |-> "hand", id |-> r, source |-> r]
  <2>2. r \in Nat /\ runs[r].from \in Nat
    <3>1. runs \in Seq(RowSet)
      BY DEF RowsTyped
    <3>2. RunIds \subseteq Nat
      BY <3>1 DEF RunIds
    <3>3. runs[r].from \in Nat
      BY RowTyped
    <3> QED
      BY <3>2, <3>3
  <2>3. /\ o.first = runs[r].from /\ o.final = Target /\ o.max = MaxPerChild
        /\ o.id = r /\ o.source = r
    OBVIOUS
  <2>4. OptionsTyped(o)
    BY <2>2, <2>3, SupervisorAssumption DEF OptionsTyped
  <2>5. Invoke(NextSlot, o)
    BY <2>1
  <2> HIDE DEF o
  <2>6. CampaignsTyped'
    BY <2>4, <2>5, InvokeTyped
  <2> QED
    BY <1>8, <2>6 DEF RecoverByHand, SupervisorTyped
<1> QED
  BY <1>3, <1>4, <1>5, <1>6, <1>7, <1>8 DEF SupervisorStep

LEMMA SupervisorRowsTyped ==
  ASSUME RowsTyped, CampaignsHold, CampaignsTyped, SupervisorNext
  PROVE  RowsTyped'
<1>1. CASE CampaignNext
  BY <1>1, CampaignRowsTyped
<1>2. CASE ~CampaignNext
  <2>1. UNCHANGED <<runs, cursor, tainted, adrift, world>> /\ (Fault \/ UNCHANGED faults)
    BY <1>2 DEF SupervisorNext, SupervisorStep, Invocation, SupervisorStartUp, Decide,
                ReviewChild, SupervisorSummary, SupervisorFails, RecoverByHand, around, rows
  <2> QED
    BY <2>1, QuietTyped DEF RowsTyped
<1> QED
  BY <1>1, <1>2

(* The batches                                                              *)
BatchTyped ==
  /\ batch.opt.first \in Nat /\ batch.opt.prefix \in Nat /\ batch.opt.source \in Nat
  /\ batch.opt.max \in 0 .. MaxBatch
  /\ batch.iteration \in 0 .. batch.opt.max
  /\ batch.run \in 0 .. Len(runs)
  /\ batch.pc \in Planned /\ ~batch.recovering => batch.iteration < batch.opt.max
  /\ batch.opt.execute /\ batch.pc \in Planned => Proper(batch.window)

(* A batch that has not begun, or is over.                                  *)
LEMMA NewBatchTyped ==
  ASSUME NEW options, NEW pc \in {"starting", "ended"}, NEW used, Grown,
         batch' = NewBatch(options, pc, used), options.max \in 0 .. MaxBatch,
         options.first \in Nat, options.prefix \in Nat, options.source \in Nat
  PROVE  BatchTyped'
<1> DEFINE b == NewBatch(options, pc, used)
<1>1. b.pc = pc /\ b.opt = options
  BY DEF NewBatch
<1>2. b.iteration = 0 /\ b.run = 0
  BY DEF NewBatch
<1> HIDE DEF b
<1>3. batch' = b
  BY DEF b
<1>4. batch'.pc \notin Planned
  BY <1>1, <1>3 DEF Planned, Submitted
<1>5. batch'.iteration \in 0 .. batch'.opt.max
  BY <1>1, <1>2, <1>3, BatchAssumption
<1> QED
  BY <1>1, <1>2, <1>3, <1>4, <1>5 DEF BatchTyped, Grown

LEMMA EndBatchTyped ==
  ASSUME Grown, EndBatch
  PROVE  BatchTyped'
<1>1. /\ NoBatch.max \in 0 .. MaxBatch /\ NoBatch.first \in Nat
      /\ NoBatch.prefix \in Nat /\ NoBatch.source \in Nat
  BY BatchAssumption DEF NoBatch
<1> QED
  BY <1>1, NewBatchTyped DEF EndBatch

(* The window at hand, if any, stays; the run may be another.               *)
LEMMA BatchMoves ==
  ASSUME BatchTyped, Grown, batch'.opt = batch.opt, batch'.iteration = batch.iteration,
         batch'.run = batch.run \/ batch'.run \in 1 .. Len(runs'),
         batch'.pc \in Planned => /\ batch.pc \in Planned /\ batch'.window = batch.window
                                  /\ batch'.recovering = batch.recovering
  PROVE  BatchTyped'
<1>1. batch'.run \in 0 .. Len(runs')
  BY DEF BatchTyped, Grown
<1> QED
  BY <1>1 DEF BatchTyped, Proper

LEMMA InvokeBatchTyped ==
  ASSUME RowsTyped, Grown, InvokeBatch
  PROVE  BatchTyped'
<1>1. PICK execute \in BOOLEAN, only \in BOOLEAN, prefix \in Prefixes, source \in RunIds \cup {0} :
        batch' = NewBatch(
          [execute |-> execute, anchor |-> cursor.from, expected |-> cursor.to,
           first |-> IF source = 0 THEN cursor.to + 1 ELSE runs[source].from,
           max |-> MaxBatch, prefix |-> prefix, source |-> source, only |-> only],
          "starting", batch.used + 1)
  BY DEF InvokeBatch
<1>2. PICK first : first = IF source = 0 THEN cursor.to + 1 ELSE runs[source].from
  OBVIOUS
<1>3. first \in Nat
  BY <1>2, RowTyped DEF RowsTyped
<1>4. source \in Nat
  BY DEF RowsTyped, RunIds
<1> DEFINE o == [execute |-> execute, anchor |-> cursor.from, expected |-> cursor.to,
                 first |-> first, max |-> MaxBatch, prefix |-> prefix, source |-> source,
                 only |-> only]
<1>5. o.max \in 0 .. MaxBatch /\ o.first \in Nat /\ o.prefix \in Nat /\ o.source \in Nat
  BY <1>3, <1>4, BatchAssumption
<1>6. batch' = NewBatch(o, "starting", batch.used + 1)
  BY <1>1, <1>2
<1> HIDE DEF o
<1> QED
  BY <1>5, <1>6, NewBatchTyped

LEMMA BeginTyped ==
  ASSUME Grown, BatchHolds, BatchTyped, Begin \/ PassBatchGates \/ VerifyBatch \/ PostBatch
  PROVE  BatchTyped'
<1>1. CASE EndBatch
  BY <1>1, EndBatchTyped
<1>2. CASE Begin /\ ~EndBatch
  <2>1. PICK pc \in {"planning", "qualifying"} : batch' = [batch EXCEPT !.pc = pc]
    BY <1>2 DEF Begin
  <2>2. /\ batch'.pc = pc /\ batch'.opt = batch.opt /\ batch'.iteration = batch.iteration
        /\ batch'.run = batch.run
    BY <2>1 DEF BatchHolds, BatchShaped
  <2> QED
    BY <2>2, BatchMoves DEF Planned, Submitted
<1>3. CASE PassBatchGates /\ ~EndBatch
  <2>1. PICK pc : batch' = [batch EXCEPT !.pc = pc] /\ batch.pc = "gating"
    BY <1>3 DEF PassBatchGates
  <2>2. /\ batch'.pc = pc /\ batch'.opt = batch.opt /\ batch'.iteration = batch.iteration
        /\ batch'.run = batch.run /\ batch'.window = batch.window
        /\ batch'.recovering = batch.recovering
    BY <2>1 DEF BatchHolds, BatchShaped
  <2> QED
    BY <2>1, <2>2, BatchMoves DEF Planned
<1>4. CASE VerifyBatch
  <2>1. PICK clean : batch' = [batch EXCEPT !.pc = "recording", !.clean = clean]
                     /\ batch.pc = "polling"
    BY <1>4 DEF VerifyBatch
  <2>2. /\ batch'.opt = batch.opt /\ batch'.iteration = batch.iteration
        /\ batch'.run = batch.run /\ batch'.window = batch.window
        /\ batch'.recovering = batch.recovering
    BY <2>1 DEF BatchHolds, BatchShaped
  <2> QED
    BY <2>1, <2>2, BatchMoves DEF Planned, Submitted
<1>5. CASE PostBatch /\ ~EndBatch
  <2>1. PICK r : r = Len(runs) + 1
    OBVIOUS
  <2>2. /\ batch' = [batch EXCEPT !.pc = "polling", !.run = r]
        /\ batch.pc = "posting" /\ Accept(batch.window)
    BY <1>5, <2>1 DEF PostBatch
  <2>3. r \in 1 .. Len(runs')
    <3>1. Len(runs) \in Nat /\ r = Len(runs) + 1
      BY <2>1 DEF Grown
    <3>2. Len(runs') = Len(runs) + 1
      BY <2>2 DEF Accept, BatchHolds
    <3> QED
      BY <3>1, <3>2
  <2>4. /\ batch'.opt = batch.opt /\ batch'.iteration = batch.iteration
        /\ batch'.run = r /\ batch'.window = batch.window
        /\ batch'.recovering = batch.recovering
    BY <2>2 DEF BatchHolds, BatchShaped
  <2> QED
    BY <2>2, <2>3, <2>4, BatchMoves DEF Planned, Submitted
<1> QED
  BY <1>1, <1>2, <1>3, <1>4, <1>5

LEMMA QualifyBatchTyped ==
  ASSUME Grown, BatchHolds, BatchTyped, QualifyBatch
  PROVE  BatchTyped'
<1>1. CASE EndBatch
  BY <1>1, EndBatchTyped
<1>2. CASE ~EndBatch
  <2>1. PICK o, w : o = batch.opt /\ w = Request(Label("recovery", o.source, o.prefix), o.first,
                                                 o.first + WindowSize - 1)
    OBVIOUS
  <2>2. batch' = [batch EXCEPT !.pc = "gating", !.recovering = TRUE, !.window = w]
    BY <1>2, <2>1 DEF QualifyBatch
  <2>3. o.first \in Nat /\ o.prefix \in Nat /\ o.source \in Nat
    BY <2>1 DEF BatchTyped
  <2>4. o.first + WindowSize - 1 \in Nat
    BY <2>3, WindowsAssumption
  <2>5. Label("recovery", o.source, o.prefix) \in LabelSet
    BY <2>3, LabelTyped DEF Kinds
  <2>6. Proper(w)
    BY <2>1, <2>3, <2>4, <2>5, RequestProper
  <2>7. /\ batch'.opt = batch.opt /\ batch'.iteration = batch.iteration
        /\ batch'.run = batch.run /\ batch'.window = w /\ batch'.recovering
    BY <2>2 DEF BatchHolds, BatchShaped
  <2> QED
    BY <2>6, <2>7 DEF BatchTyped, Grown, Proper
<1> QED
  BY <1>1, <1>2

LEMMA PlanBatchTyped ==
  ASSUME RowsTyped, Grown, BatchHolds, BatchTyped, PlanBatch
  PROVE  BatchTyped'
<1>1. CASE EndBatch
  BY <1>1, EndBatchTyped
<1>2. CASE ~EndBatch
  <2>1. PICK o, to, n, w :
          /\ o = batch.opt /\ n = batch.iteration + 1
          /\ to = IF batch.sim # Nowhere THEN batch.sim ELSE cursor.to
          /\ w = NextRange(to, Label("batch", o.prefix, n))
    OBVIOUS
  <2>2. batch' = [batch EXCEPT !.pc = "gating", !.window = w]
    BY <1>2, <2>1 DEF PlanBatch
  <2>3. /\ batch'.opt = batch.opt /\ batch'.iteration = batch.iteration
        /\ batch'.run = batch.run /\ batch'.window = w
    BY <2>2 DEF BatchHolds, BatchShaped
  <2>4. ASSUME batch.opt.execute
        PROVE  Proper(w)
    <3>1. to \in Nat
      BY <2>1, <2>4 DEF BatchHolds, BatchOptions, RowsTyped
    <3>2. o.prefix \in Nat /\ n \in Nat
      BY <2>1 DEF BatchTyped
    <3>3. Label("batch", o.prefix, n) \in LabelSet
      BY <3>2, LabelTyped DEF Kinds
    <3>4. to + 1 \in Nat /\ to + WindowSize \in Nat
      BY <3>1, WindowsAssumption
    <3> QED
      BY <2>1, <3>3, <3>4, RequestProper DEF NextRange
  <2>5. batch.iteration < batch.opt.max
    BY <2>2 DEF PlanBatch
  <2> QED
    BY <2>3, <2>4, <2>5 DEF BatchTyped, Grown, Proper
<1> QED
  BY <1>1, <1>2

(* A window that is over, or one that was repeated.                         *)
LEMMA PassedBatchTyped ==
  ASSUME Grown, BatchHolds, BatchTyped, batch.pc \in {"previewing", "recording"},
         \/ EndBatch
         \/ batch.recovering /\ AfterRecovery
         \/ /\ ~batch.recovering
            /\ \/ batch' = [batch EXCEPT !.pc = "planning", !.iteration = @ + 1,
                                         !.sim = batch.window.to]
               \/ batch' = [batch EXCEPT !.pc = "planning", !.iteration = @ + 1,
                                         !.expected = batch.window.to]
  PROVE  BatchTyped'
<1>1. CASE EndBatch
  BY <1>1, EndBatchTyped
<1>2. CASE batch.recovering /\ AfterRecovery /\ ~EndBatch
  <2>1. batch' = [batch EXCEPT !.pc = "planning", !.recovering = FALSE]
    BY <1>2 DEF AfterRecovery
  <2>2. /\ batch'.pc = "planning" /\ batch'.opt = batch.opt
        /\ batch'.iteration = batch.iteration /\ batch'.run = batch.run
    BY <2>1 DEF BatchHolds, BatchShaped
  <2> QED
    BY <2>2, BatchMoves DEF Planned, Submitted
<1>3. CASE /\ ~batch.recovering
           /\ \/ batch' = [batch EXCEPT !.pc = "planning", !.iteration = @ + 1,
                                        !.sim = batch.window.to]
              \/ batch' = [batch EXCEPT !.pc = "planning", !.iteration = @ + 1,
                                        !.expected = batch.window.to]
  <2>1. PICK n, to : n = batch.iteration + 1 /\ to = batch.window.to
    OBVIOUS
  <2>2. \/ batch' = [batch EXCEPT !.pc = "planning", !.iteration = n, !.sim = to]
        \/ batch' = [batch EXCEPT !.pc = "planning", !.iteration = n, !.expected = to]
    BY <1>3, <2>1 DEF BatchHolds, BatchShaped
  <2>3. /\ batch'.pc = "planning" /\ batch'.opt = batch.opt
        /\ batch'.iteration = n /\ batch'.run = batch.run
    BY <2>2 DEF BatchHolds, BatchShaped
  <2>4. n \in 0 .. batch.opt.max
    BY <1>3, <2>1, BatchAssumption DEF BatchTyped, Planned, Submitted
  <2> QED
    BY <2>3, <2>4 DEF BatchTyped, Grown, Planned, Submitted
<1> QED
  BY <1>1, <1>2, <1>3

LEMMA BatchStepTyped ==
  ASSUME RowsTyped, Grown, BatchHolds, BatchTyped, BatchNext
  PROVE  BatchTyped'
<1>1. CASE InvokeBatch
  BY <1>1, InvokeBatchTyped
<1>2. CASE Begin \/ PassBatchGates \/ VerifyBatch \/ PostBatch
  BY <1>2, BeginTyped
<1>3. CASE QualifyBatch \/ PlanBatch
  BY <1>3, QualifyBatchTyped, PlanBatchTyped
<1>4. CASE PreviewBatch
  BY <1>4, PassedBatchTyped DEF PreviewBatch
<1>5. CASE RecordBatch
  BY <1>5, PassedBatchTyped DEF RecordBatch
<1>6. CASE PostBatchThrows \/ BatchPollTimeout \/ FinishBatch \/ BatchFails
  BY <1>6, EndBatchTyped DEF PostBatchThrows, BatchPollTimeout, FinishBatch, BatchFails
<1> QED
  BY <1>1, <1>2, <1>3, <1>4, <1>5, <1>6 DEF BatchNext

LEMMA BatchRowsTyped ==
  ASSUME RowsTyped, BatchHolds, BatchTyped, BatchNext
  PROVE  RowsTyped'
<1>1. CASE PostBatch \/ PostBatchThrows
  <2>1. PICK w : w = batch.window
    OBVIOUS
  <2>2. Proper(w)
    BY <1>1, <2>1 DEF PostBatch, PostBatchThrows, BatchHolds, BatchTyped, Planned, Submitted
  <2>3. /\ Accept(w) \/ UNCHANGED runs
        /\ adrift' \subseteq adrift \cup {w} /\ UNCHANGED <<cursor, tainted, world>>
        /\ Fault \/ UNCHANGED faults
    BY <1>1, <2>1 DEF PostBatch, PostBatchThrows
  <2> QED
    BY <2>2, <2>3, RequestTyped
<1>2. CASE ~(PostBatch \/ PostBatchThrows)
  <2>1. UNCHANGED <<runs, cursor, tainted, adrift, world>> /\ (Fault \/ UNCHANGED faults)
    BY <1>2 DEF BatchNext, InvokeBatch, Begin, QualifyBatch, PlanBatch, PassBatchGates,
                PreviewBatch, VerifyBatch, BatchPollTimeout, RecordBatch, FinishBatch,
                BatchFails, around, rows
  <2> QED
    BY <2>1, QuietTyped DEF RowsTyped
<1> QED
  BY <1>1, <1>2

LEMMA BatchTypedStays ==
  ASSUME BatchTyped, Grown, UNCHANGED batch
  PROVE  BatchTyped'
BY DEF BatchTyped, Grown, Proper

(* The backfill                                                             *)
BackTyped ==
  /\ back.iteration \in 0 .. MaxBackfill
  /\ back.pc \notin {"planning", "ended"} => back.iteration < MaxBackfill
  /\ back.run \in 0 .. Len(runs)
  /\ back.execute /\ back.pc \in Requested \cup {"gating"} => Proper(back.window)

LEMMA NewBackfillTyped ==
  ASSUME Grown, NEW b, back' = b, b.pc \in {"planning", "ended"}, b.iteration = 0, b.run = 0
  PROVE  BackTyped'
<1>1. 0 \in 0 .. MaxBackfill
  BY BackfillAssumption
<1> QED
  BY <1>1 DEF BackTyped, Grown, Requested

LEMMA EndBackfillTyped ==
  ASSUME Grown, NEW reason, EndBackfill(reason)
  PROVE  BackTyped'
<1> DEFINE b == [NewBackfill(FALSE, FALSE, Nowhere, "ended", back.used) EXCEPT !.reason = reason]
<1>1. b.pc = "ended" /\ b.iteration = 0
  BY DEF NewBackfill
<1>2. b.run = 0
  BY DEF NewBackfill
<1> HIDE DEF b
<1>3. back' = b
  BY DEF EndBackfill, b
<1> QED
  BY <1>1, <1>2, <1>3, NewBackfillTyped

LEMMA InvokeBackfillTyped ==
  ASSUME Grown, InvokeBackfill
  PROVE  BackTyped'
<1> PICK execute \in BOOLEAN, allow \in BOOLEAN, expected \in {cursor.from, Nowhere} :
       back' = NewBackfill(execute, allow, expected, "planning", back.used + 1)
  BY DEF InvokeBackfill
<1> DEFINE b == NewBackfill(execute, allow, expected, "planning", back.used + 1)
<1>1. b.pc = "planning" /\ b.iteration = 0
  BY DEF NewBackfill
<1>2. b.run = 0
  BY DEF NewBackfill
<1> HIDE DEF b
<1>3. back' = b
  BY DEF b
<1> QED
  BY <1>1, <1>2, <1>3, NewBackfillTyped

(* Back to planning after a window, or on with the one at hand.             *)
LEMMA BackMoves ==
  ASSUME BackTyped, Grown, back'.execute = back.execute,
         back'.run = back.run \/ back'.run \in 1 .. Len(runs'),
         \/ /\ back'.pc = "planning" /\ back.pc \notin {"planning", "ended"}
            /\ back'.iteration = back.iteration + 1
         \/ /\ back'.pc \notin {"planning", "ended"}
            /\ back.pc \in Requested \cup {"gating"}
            /\ back'.iteration = back.iteration /\ back'.window = back.window
  PROVE  BackTyped'
<1>1. back'.run \in 0 .. Len(runs')
  BY DEF BackTyped, Grown
<1>2. back'.iteration \in 0 .. MaxBackfill
  BY BackfillAssumption DEF BackTyped, Requested
<1> QED
  BY <1>1, <1>2 DEF BackTyped, Proper, Requested

LEMMA PlanBackfillTyped ==
  ASSUME RowsTyped, Grown, BackHolds, BackTyped, PlanBackfill
  PROVE  BackTyped'
<1>1. CASE \E reason : EndBackfill(reason)
  BY <1>1, EndBackfillTyped
<1>2. CASE ~ \E reason : EndBackfill(reason)
  <2>1. PICK from, w, start, to, expected :
          /\ from = IF back.sim # Nowhere THEN back.sim ELSE cursor.from
          /\ w = GridWindow(from) /\ to = cursor.to /\ expected = cursor.from
          /\ start = IF back.start = Nowhere THEN cursor.from ELSE back.start
    OBVIOUS
  <2>2. /\ back' = [back EXCEPT !.pc = "gating", !.window = w, !.upper = to,
                         !.expected = expected, !.start = start]
        /\ ~(from <= Floor) /\ OnGrid(from) /\ back.iteration < MaxBackfill
    BY <1>2, <2>1 DEF PlanBackfill, BackHolds, BackShaped
  <2>3. /\ back'.pc = "gating" /\ back'.execute = back.execute /\ back'.run = back.run
        /\ back'.iteration = back.iteration /\ back'.window = w
    BY <2>2 DEF BackHolds, BackShaped
  <2>4. ASSUME back.execute
        PROVE  Proper(w)
    <3>1. from \in Nat
      BY <2>1, <2>4 DEF BackHolds, RowsTyped
    <3>2. Floor \in Nat
      BY BackfillAssumption DEF Floor
    <3>3. from - 1 \in Nat
      BY <2>2, <3>1, <3>2
    <3>4. PICK low : low = IF from - WindowSize < Floor THEN Floor ELSE from - WindowSize
      OBVIOUS
    <3>5. low \in Nat
      BY <3>1, <3>2, <3>4, WindowsAssumption
    <3>6. NumberAt(from) \in Nat
      <4>1. PICK d : d = Anchor - from
        OBVIOUS
      <4>2. d \in Nat
        BY <2>2, <3>1, <4>1, WindowsAssumption DEF OnGrid
      <4>3. d \div WindowSize \in Nat
        BY <4>2, Naturals
      <4> QED
        BY <4>1, <4>3 DEF NumberAt
    <3>7. Label("backfill", 0, NumberAt(from)) \in LabelSet
      BY <3>6, LabelTyped DEF Kinds
    <3> QED
      BY <2>1, <3>3, <3>4, <3>5, <3>7, RequestProper DEF GridWindow
  <2> QED
    BY <2>2, <2>3, <2>4 DEF BackTyped, Grown, Proper
<1> QED
  BY <1>1, <1>2

LEMMA GateBackfillTyped ==
  ASSUME Grown, BackHolds, BackTyped, PassBackfillGates \/ PreviewBackfill \/ PostBackfill
  PROVE  BackTyped'
<1>1. CASE \E reason : EndBackfill(reason)
  BY <1>1, EndBackfillTyped
<1>2. CASE PassBackfillGates /\ ~ \E reason : EndBackfill(reason)
  <2>1. PICK pc \in {"posting", "previewing"} :
          back' = [back EXCEPT !.pc = pc] /\ back.pc = "gating"
    BY <1>2 DEF PassBackfillGates
  <2>2. /\ back'.pc = pc /\ back'.execute = back.execute /\ back'.run = back.run
        /\ back'.iteration = back.iteration /\ back'.window = back.window
    BY <2>1 DEF BackHolds, BackShaped
  <2> QED
    BY <2>1, <2>2, BackMoves
<1>3. CASE PreviewBackfill
  <2>1. PICK n, from : n = back.iteration + 1 /\ from = back.window.from
    OBVIOUS
  <2>2. back' = [back EXCEPT !.pc = "planning", !.iteration = n, !.sim = from]
        /\ back.pc = "previewing"
    BY <1>3, <2>1 DEF PreviewBackfill, BackHolds, BackShaped
  <2>3. /\ back'.pc = "planning" /\ back'.execute = back.execute /\ back'.run = back.run
        /\ back'.iteration = n
    BY <2>2 DEF BackHolds, BackShaped
  <2> QED
    BY <2>1, <2>2, <2>3, BackMoves
<1>4. CASE PostBackfill /\ ~ \E reason : EndBackfill(reason)
  <2>1. PICK r : r = Len(runs) + 1
    OBVIOUS
  <2>2. PICK pc, w :
          /\ pc \in {"polling", "pollingRebuild"} /\ Accept(w)
          /\ back' = [back EXCEPT !.pc = pc, !.run = r]
          /\ back.pc \in {"posting", "rebuilding"}
    BY <1>4, <2>1 DEF PostBackfill, Ask
  <2>3. r \in 1 .. Len(runs')
    <3>1. Len(runs) \in Nat /\ r = Len(runs) + 1
      BY <2>1 DEF Grown
    <3>2. Len(runs') = Len(runs) + 1
      BY <2>2 DEF Accept
    <3> QED
      BY <3>1, <3>2
  <2>4. /\ back'.pc = pc /\ back'.execute = back.execute /\ back'.run = r
        /\ back'.iteration = back.iteration /\ back'.window = back.window
    BY <2>2 DEF BackHolds, BackShaped
  <2> QED
    BY <2>2, <2>3, <2>4, BackMoves DEF Requested
<1> QED
  BY <1>1, <1>2, <1>3, <1>4

LEMMA RecordBackfillTyped ==
  ASSUME Grown, BackHolds, BackTyped, RecordBackfill \/ RecordRebuild
  PROVE  BackTyped'
<1>1. CASE \E reason : EndBackfill(reason)
  BY <1>1, EndBackfillTyped
<1>2. CASE RecordBackfill /\ ~ \E reason : EndBackfill(reason)
  <2>1. PICK w, pc, from, through, n :
          /\ w = back.window /\ pc = IF RebuildDue(w) THEN "rebuilding" ELSE "planning"
          /\ from = w.from /\ through = back.through \cup {w.label.n}
          /\ n = IF RebuildDue(w) THEN back.iteration ELSE back.iteration + 1
    OBVIOUS
  <2>2. /\ back' = [back EXCEPT !.pc = pc, !.expected = from, !.through = through,
                                !.iteration = n]
        /\ back.pc = "polling"
    BY <1>2, <2>1 DEF RecordBackfill, BackHolds, BackShaped
  <2>3. /\ back'.pc = pc /\ back'.execute = back.execute /\ back'.run = back.run
        /\ back'.iteration = n /\ back'.window = back.window
    BY <2>2 DEF BackHolds, BackShaped
  <2>4. \/ pc = "planning" /\ n = back.iteration + 1
        \/ pc = "rebuilding" /\ n = back.iteration
    BY <2>1
  <2> QED
    BY <2>2, <2>3, <2>4, BackMoves DEF Requested
<1>3. CASE RecordRebuild /\ ~ \E reason : EndBackfill(reason)
  <2>1. PICK n : n = back.iteration + 1
    OBVIOUS
  <2>2. back' = [back EXCEPT !.pc = "planning", !.iteration = n] /\ back.pc = "pollingRebuild"
    BY <1>3, <2>1 DEF RecordRebuild, BackHolds, BackShaped
  <2>3. /\ back'.pc = "planning" /\ back'.execute = back.execute /\ back'.run = back.run
        /\ back'.iteration = n
    BY <2>2 DEF BackHolds, BackShaped
  <2> QED
    BY <2>1, <2>2, <2>3, BackMoves
<1> QED
  BY <1>1, <1>2, <1>3

LEMMA BackStepTyped ==
  ASSUME RowsTyped, Grown, BackHolds, BackTyped, BackfillNext
  PROVE  BackTyped'
<1>1. CASE InvokeBackfill \/ PlanBackfill
  BY <1>1, InvokeBackfillTyped, PlanBackfillTyped
<1>2. CASE PassBackfillGates \/ PreviewBackfill \/ PostBackfill
  BY <1>2, GateBackfillTyped
<1>3. CASE RecordBackfill \/ RecordRebuild
  BY <1>3, RecordBackfillTyped
<1>4. CASE PostBackfillThrows \/ BackfillPollTimeout \/ FinishBackfill \/ BackfillFails
  BY <1>4, EndBackfillTyped
     DEF PostBackfillThrows, BackfillPollTimeout, FinishBackfill, BackfillFails
<1> QED
  BY <1>1, <1>2, <1>3, <1>4 DEF BackfillNext

LEMMA RebuildProper ==
  ASSUME NEW w, Proper(w), w = Request(w.label, w.from, w.to)
  PROVE  Proper(RebuildOf(w))
<1>1. PICK l, from, to : l = w.label /\ from = w.from /\ to = w.to
  OBVIOUS
<1>2. l \in LabelSet /\ from \in Nat /\ to \in Nat
  BY <1>1 DEF Proper
<1>3. [l EXCEPT !.kind = "rebuild"] \in LabelSet
  BY <1>2 DEF LabelSet, Kinds
<1>4. RebuildOf(w) = Request([l EXCEPT !.kind = "rebuild"], from, to)
  BY <1>1, <1>2 DEF RebuildOf, Request
<1> QED
  BY <1>2, <1>3, <1>4, RequestProper

LEMMA BackRowsTyped ==
  ASSUME RowsTyped, BackHolds, BackTyped, BackfillNext
  PROVE  RowsTyped'
<1>1. CASE PostBackfill \/ PostBackfillThrows
  <2>1. back.pc \in {"posting", "rebuilding"}
    BY <1>1 DEF PostBackfill, PostBackfillThrows
  <2>2. Proper(back.window) /\ BackWindow
    BY <2>1 DEF BackHolds, BackTyped, Requested
  <2>3. back.window = Request(back.window.label, back.window.from, back.window.to)
    <3>1. PICK n, from, to : back.window = Request(Label("backfill", 0, n), from, to)
      BY <2>1, <2>2 DEF BackWindow, Requested
    <3> QED
      BY <3>1 DEF Request
  <2>4. PICK w : w = IF back.pc = "posting" THEN back.window ELSE RebuildOf(back.window)
    OBVIOUS
  <2>5. Proper(w)
    BY <2>2, <2>3, <2>4, RebuildProper
  <2>6. /\ Accept(w) \/ UNCHANGED runs
        /\ adrift' \subseteq adrift \cup {w} /\ UNCHANGED <<cursor, tainted, world>>
        /\ Fault \/ UNCHANGED faults
    BY <1>1, <2>4 DEF PostBackfill, PostBackfillThrows, Ask
  <2> QED
    BY <2>5, <2>6, RequestTyped
<1>2. CASE ~(PostBackfill \/ PostBackfillThrows)
  <2>1. UNCHANGED <<runs, cursor, tainted, adrift, world>> /\ (Fault \/ UNCHANGED faults)
    BY <1>2 DEF BackfillNext, InvokeBackfill, PlanBackfill, PassBackfillGates, PreviewBackfill,
                BackfillPollTimeout, RecordBackfill, RecordRebuild, FinishBackfill,
                BackfillFails, around, rows
  <2> QED
    BY <2>1, QuietTyped DEF RowsTyped
<1> QED
  BY <1>1, <1>2

LEMMA BackTypedStays ==
  ASSUME BackTyped, Grown, UNCHANGED back
  PROVE  BackTyped'
BY DEF BackTyped, Grown, Proper

(* The evidence window                                                      *)
ProbeTyped ==
  /\ probe.run \in 0 .. Len(runs)
  /\ probe.pc = "polling" => probe.run \in RunIds
  /\ probe.pc \in {"checking", "gating", "posting", "reconciling"} => Proper(probe.window)

LEMMA EndProbeTyped ==
  ASSUME Grown, ProbeHolds, ProbeTyped, NEW reason, EndProbe(reason)
  PROVE  ProbeTyped'
<1>1. probe'.pc = "ended" /\ probe'.run = probe.run
  BY DEF EndProbe, ProbeHolds
<1> QED
  BY <1>1 DEF ProbeTyped, Grown

LEMMA AttachProbeTyped ==
  ASSUME RowsTyped', Grown, ProbeHolds, NEW r \in RunIds', AttachProbe(r)
  PROVE  ProbeTyped'
<1>1. probe'.pc = "polling" /\ probe'.run = r
  BY DEF AttachProbe, ProbeHolds
<1>2. r \in 0 .. Len(runs')
  <2>1. RunIds' = 1 .. Len(runs')
    BY DEF RowsTyped, RunIds
  <2> QED
    BY <2>1 DEF Grown
<1> QED
  BY <1>1, <1>2 DEF ProbeTyped

LEMMA ProbeStepTyped ==
  ASSUME RowsTyped, RowsTyped', Grown, ProbeHolds, ProbeTyped, ProbeNext
  PROVE  ProbeTyped'
<1>1. CASE \E reason : EndProbe(reason)
  BY <1>1, EndProbeTyped
<1>2. CASE InvokeProbe
  <2>1. PICK execute \in BOOLEAN, why \in Reasons, x \in Sought :
          probe' = [probe EXCEPT !.pc = "checking", !.execute = execute, !.used = @ + 1,
                      !.window = Request(ProbeLabel(why), x.from, x.to), !.reason = ""]
    BY <1>2 DEF InvokeProbe
  <2>2. PICK w, used : w = Request(ProbeLabel(why), x.from, x.to) /\ used = probe.used + 1
    OBVIOUS
  <2>3. probe' = [probe EXCEPT !.pc = "checking", !.execute = execute, !.used = used,
                     !.window = w, !.reason = ""]
    BY <2>1, <2>2 DEF ProbeHolds
  <2>4. probe'.pc = "checking" /\ probe'.run = probe.run /\ probe'.window = w
    BY <2>3 DEF ProbeHolds
  <2>5. x.from \in Nat /\ x.to \in Nat /\ why \in Nat
    BY ProbeAssumption
  <2>6. ProbeLabel(why) \in LabelSet
    BY <2>5, LabelTyped DEF ProbeLabel, Kinds
  <2>7. Proper(w)
    BY <2>2, <2>5, <2>6, RequestProper
  <2> QED
    BY <2>4, <2>7 DEF ProbeTyped, Grown, Proper
<1>3. CASE CheckProbe /\ ~ \E reason : EndProbe(reason)
  <2>1. PICK pc, reason, before :
          /\ pc = IF probe.execute THEN "gating" ELSE "ended"
          /\ reason = IF probe.execute THEN "" ELSE "dry_run_reported"
          /\ before = cursor
    OBVIOUS
  <2>2. probe' = [probe EXCEPT !.before = before, !.pc = pc, !.reason = reason]
        /\ probe.pc = "checking"
    BY <1>3, <2>1 DEF CheckProbe
  <2>3. probe'.pc = pc /\ probe'.run = probe.run /\ probe'.window = probe.window
    BY <2>2 DEF ProbeHolds
  <2>4. pc \in {"gating", "ended"} /\ Proper(probe.window)
    BY <2>1, <2>2 DEF ProbeTyped
  <2> QED
    BY <2>3, <2>4 DEF ProbeTyped, Grown, Proper
<1>4. CASE PassProbeGates /\ ~ \E reason : EndProbe(reason)
  <2>1. probe' = [probe EXCEPT !.pc = "posting"] /\ probe.pc = "gating"
    BY <1>4 DEF PassProbeGates
  <2>2. probe'.pc = "posting" /\ probe'.run = probe.run /\ probe'.window = probe.window
    BY <2>1 DEF ProbeHolds
  <2> QED
    BY <2>1, <2>2 DEF ProbeTyped, Grown, Proper
<1>5. CASE PostProbe /\ ~ \E reason : EndProbe(reason)
  <2>1. PICK r : r = Len(runs) + 1
    OBVIOUS
  <2>2. Accept(probe.window) /\ AttachProbe(r)
    BY <1>5, <2>1 DEF PostProbe
  <2>3. r \in RunIds'
    <3>1. Len(runs) \in Nat /\ r = Len(runs) + 1
      BY <2>1 DEF Grown
    <3>2. Len(runs') = Len(runs) + 1
      BY <2>2 DEF Accept, RowsTyped
    <3>3. RunIds' = 1 .. Len(runs')
      BY DEF RowsTyped, RunIds
    <3> QED
      BY <3>1, <3>2, <3>3
  <2> QED
    BY <2>2, <2>3, AttachProbeTyped
<1>6. CASE PostProbeThrows
  <2>1. probe' = [probe EXCEPT !.pc = "reconciling"] /\ probe.pc = "posting"
    BY <1>6 DEF PostProbeThrows
  <2>2. probe'.pc = "reconciling" /\ probe'.run = probe.run /\ probe'.window = probe.window
    BY <2>1 DEF ProbeHolds
  <2> QED
    BY <2>1, <2>2 DEF ProbeTyped, Grown, Proper
<1>7. CASE ReconcileProbe /\ ~ \E reason : EndProbe(reason)
  <2>1. PICK r \in RunIds : AttachProbe(r) /\ UNCHANGED <<around, recorded>>
    BY <1>7 DEF ReconcileProbe
  <2>2. r \in RunIds'
    BY <2>1 DEF around, rows, RunIds
  <2> QED
    BY <2>1, <2>2, AttachProbeTyped
<1> QED
  BY <1>1, <1>2, <1>3, <1>4, <1>5, <1>6, <1>7
     DEF ProbeNext, ReportProbe, ProbePollTimeout, ProbeFails

LEMMA ProbeRowsTyped ==
  ASSUME RowsTyped, ProbeTyped, ProbeNext
  PROVE  RowsTyped'
<1>1. CASE PostProbe \/ PostProbeThrows
  <2>1. PICK w : w = probe.window
    OBVIOUS
  <2>2. Proper(w)
    BY <1>1, <2>1 DEF PostProbe, PostProbeThrows, ProbeTyped
  <2>3. /\ Accept(w) \/ UNCHANGED runs
        /\ adrift' \subseteq adrift \cup {w} /\ UNCHANGED <<cursor, tainted, world>>
        /\ Fault \/ UNCHANGED faults
    BY <1>1, <2>1 DEF PostProbe, PostProbeThrows
  <2> QED
    BY <2>2, <2>3, RequestTyped
<1>2. CASE ~(PostProbe \/ PostProbeThrows)
  <2>1. UNCHANGED <<runs, cursor, tainted, adrift, world>> /\ (Fault \/ UNCHANGED faults)
    BY <1>2 DEF ProbeNext, InvokeProbe, CheckProbe, PassProbeGates, ReconcileProbe, ReportProbe,
                ProbePollTimeout, ProbeFails, around, rows
  <2> QED
    BY <2>1, QuietTyped DEF RowsTyped
<1> QED
  BY <1>1, <1>2

LEMMA ProbeTypedStays ==
  ASSUME RowsTyped, RowsTyped', ProbeTyped, Grown, UNCHANGED probe
  PROVE  ProbeTyped'
<1>1. RunIds = 1 .. Len(runs) /\ RunIds' = 1 .. Len(runs')
  BY DEF RowsTyped, RunIds
<1> QED
  BY <1>1 DEF ProbeTyped, Grown, Proper

(* All of them together                                                     *)
AllTyped ==
  /\ RowsTyped /\ CampaignsTyped /\ SupervisorTyped /\ BatchTyped /\ BackTyped /\ ProbeTyped

LEMMA InitTyped == Init => AllTyped
<1> SUFFICES ASSUME Init
             PROVE  AllTyped
  OBVIOUS
<1>1. RowsTyped
  <2>1. runs \in Seq(RowSet) /\ RunIds = {} /\ adrift = {} /\ tainted = {}
    BY DEF Init, RowsInit, RunIds
  <2>2. cursor \in [from : Nat, to : Nat] /\ faults \in 0 .. MaxFaults /\ world = "approved"
    BY WindowsAssumption DEF Init, RowsInit
  <2>3. \E k \in Nat : \A r \in RunIds : runs[r].label.id <= k
    <3>1. 0 \in Nat
      OBVIOUS
    <3> QED
      BY <2>1, <3>1
  <2> QED
    BY <2>1, <2>2, <2>3 DEF RowsTyped
<1>2. Len(runs) = 0
  BY DEF Init, RowsInit
<1>3. CampaignsTyped
  <2> DEFINE t == NewCampaign(NoOptions, "unused")
  <2>1. Fresh(t)
    BY NoOptionsTyped, NewIsFresh
  <2> HIDE DEF t
  <2>2. camp = [c \in Campaigns |-> t]
    BY DEF Init, CampaignInit, t
  <2>3. ASSUME NEW c \in Campaigns
        PROVE  CampaignTyped(camp[c])
    <3>1. PICK s : s = camp[c] /\ Fresh(s)
      BY <2>1, <2>2
    <3> QED
      BY <1>2, <3>1 DEF Fresh, CampaignTyped, Planned, Submitted
  <2> QED
    BY <2>3 DEF CampaignsTyped
<1>4. SupervisorTyped
  <2>1. sup.pc = "idle" /\ sup.child = 0 /\ sup.invocations = 0 /\ sup.number = 1
        /\ sup.sim = Nowhere
    BY DEF Init, SupervisorInit
  <2>2. 0 \in 0 .. MaxInvocations
    BY SupervisorAssumption
  <2> QED
    BY <2>1, <2>2 DEF SupervisorTyped
<1>5. BatchTyped
  <2> DEFINE b == NewBatch(NoBatch, "ended", 0)
  <2>1. b.pc = "ended" /\ b.opt = NoBatch
    BY DEF NewBatch
  <2>2. b.iteration = 0 /\ b.run = 0
    BY DEF NewBatch
  <2> HIDE DEF b
  <2>3. batch = b
    BY DEF Init, BatchInit, b
  <2> QED
    BY <1>2, <2>1, <2>2, <2>3, BatchAssumption DEF BatchTyped, NoBatch, Planned, Submitted
<1>6. BackTyped
  <2> DEFINE b == NewBackfill(FALSE, FALSE, Nowhere, "ended", 0)
  <2>1. b.pc = "ended" /\ b.iteration = 0
    BY DEF NewBackfill
  <2>2. b.run = 0
    BY DEF NewBackfill
  <2> HIDE DEF b
  <2>3. back = b
    BY DEF Init, BackfillInit, b
  <2> QED
    BY <1>2, <2>1, <2>2, <2>3, BackfillAssumption DEF BackTyped, Requested
<1>7. ProbeTyped
  <2>1. probe.pc = "ended" /\ probe.run = 0
    BY DEF Init, ProbeInit
  <2>2. 0 \in 0 .. Len(runs)
    BY <1>2
  <2> QED
    BY <2>1, <2>2 DEF ProbeTyped
<1> QED
  BY <1>1, <1>3, <1>4, <1>5, <1>6, <1>7 DEF AllTyped

LEMMA NextTyped ==
  ASSUME ForwardInv, ForwardInv', SupervisorKnows, AllTyped, [Next]_vars
  PROVE  AllTyped'
<1>1. RowsTyped'
  <2>1. CASE UNCHANGED vars
    <3>1. UNCHANGED <<runs, cursor, tainted, adrift, world, faults>>
      BY <2>1 DEF vars, around, rows
    <3> QED
      BY <3>1, QuietTyped DEF AllTyped, RowsTyped
  <2>2. CASE SupervisorNext
    BY <2>2, SupervisorRowsTyped DEF ForwardInv, AllTyped
  <2>3. CASE BatchNext
    BY <2>3, BatchRowsTyped DEF ForwardInv, AllTyped
  <2>4. CASE BackfillNext
    BY <2>4, BackRowsTyped DEF ForwardInv, AllTyped
  <2>5. CASE ProbeNext
    BY <2>5, ProbeRowsTyped DEF AllTyped
  <2>6. CASE Surroundings \/ SyncFurtherBack
    BY <2>6, SurroundingsTyped DEF AllTyped
  <2> QED
    BY <2>1, <2>2, <2>3, <2>4, <2>5, <2>6 DEF Next
<1>2. Grown
  BY <1>1, NextHolds, RunsGrow DEF AllTyped
<1>3. CampaignsTyped' /\ SupervisorTyped'
  <2>1. CASE UNCHANGED <<camp, sup>>
    <3>1. ASSUME NEW c \in Campaigns
          PROVE  CampaignTyped(camp[c])'
      BY <1>2, <2>1, TypedStays DEF AllTyped, CampaignsTyped
    <3> QED
      BY <2>1, <3>1 DEF AllTyped, CampaignsTyped, SupervisorTyped
  <2>2. CASE CampaignNext /\ UNCHANGED sup
    <3>1. CampaignsHold /\ CampaignsHold' /\ CampaignsTyped /\ SupervisorTyped
      BY DEF ForwardInv, AllTyped
    <3>2. CampaignsTyped'
      BY <1>1, <1>2, <2>2, <3>1, CampaignNextTyped
    <3> QED
      BY <2>2, <3>1, <3>2 DEF SupervisorTyped
  <2>3. CASE Invocation \/ SupervisorStep \/ SupervisorFails \/ RecoverByHand
    <3>1. CampaignsShaped /\ CampaignsTyped /\ SupervisorTyped /\ RowsTyped
      BY DEF ForwardInv, CampaignsHold, AllTyped
    <3> QED
      BY <1>1, <1>2, <2>3, <3>1, SupervisorStepTyped
  <2>4. SupervisorNext \/ UNCHANGED <<camp, sup>>
    BY DEF Next, vars, scripts
  <2> QED
    BY <2>1, <2>2, <2>3, <2>4 DEF SupervisorNext
<1>4. BatchTyped'
  BY <1>2, BatchStepTyped, BatchTypedStays DEF ForwardInv, AllTyped, Next, vars, scripts
<1>5. BackTyped'
  BY <1>2, BackStepTyped, BackTypedStays DEF ForwardInv, AllTyped, Next, vars, scripts
<1>6. ProbeTyped'
  BY <1>1, <1>2, ProbeStepTyped, ProbeTypedStays DEF ForwardInv, AllTyped, Next, vars, scripts
<1> QED
  BY <1>1, <1>3, <1>4, <1>5, <1>6 DEF AllTyped

(* The runs that are followed are there by what each script knows.          *)
LEMMA TypedGives ==
  ASSUME ForwardInv, AllTyped
  PROVE  TypeOK
<1>1. RowsTypeOK
  <2>1. runs \in Seq(RowSet)
    BY DEF AllTyped, RowsTyped
  <2>2. recorded \subseteq RunIds
    BY DEF ForwardInv, EvidenceHolds, Recordable
  <2> QED
    BY <2>1, <2>2 DEF AllTyped, RowsTyped, RowsTypeOK, RowSet, LabelSet, Kinds
<1>2. ASSUME NEW c \in Campaigns
      PROVE  /\ camp[c].run \in 0 .. Len(runs)
             /\ camp[c].pc \in {"polling", "recording"} => camp[c].run \in RunIds
             /\ camp[c].iteration \in 0 .. MaxPerChild
             /\ camp[c].completed \in 0 .. MaxPerChild
             /\ camp[c].processed \in 0 .. MaxPerChild + 1
  <2>1. PICK s : s = camp[c] /\ CampaignHolds(s) /\ CampaignTyped(s)
    BY DEF ForwardInv, CampaignsHold, AllTyped, CampaignsTyped
  <2>2. s.run \in 0 .. Len(runs)
    BY <2>1 DEF CampaignTyped
  <2>3. s.pc \in {"polling", "recording"} => s.run \in RunIds
    BY <2>1 DEF CampaignHolds, AttachedHolds, Submitted
  <2>4. /\ s.iteration \in 0 .. MaxPerChild /\ s.completed \in 0 .. MaxPerChild
        /\ s.processed \in 0 .. MaxPerChild + 1
    <3>1. PICK i, d, m, p : i = s.iteration /\ d = Done(s) /\ m = s.opt.max /\ p = s.processed
      OBVIOUS
    <3>2. /\ i \in Nat /\ d <= m /\ d \in {i, i + 1}
          /\ s.completed \in 0 .. MaxPerChild /\ p \in 0 .. d + 1
      BY <2>1, <3>1 DEF CampaignTyped, CountsTyped, Done
    <3>3. m \in 0 .. MaxPerChild
      BY <2>1, <3>1 DEF CampaignTyped, OptionsTyped
    <3> QED
      BY <3>1, <3>2, <3>3, SupervisorAssumption
  <2> QED
    BY <2>1, <2>2, <2>3, <2>4
<1>3. /\ batch.run \in 0 .. Len(runs) /\ (batch.pc = "polling" => batch.run \in RunIds)
      /\ batch.iteration \in 0 .. MaxBatch
  BY BatchAssumption DEF ForwardInv, BatchHolds, BatchAttached, AllTyped, BatchTyped, Submitted
<1>4. /\ back.run \in 0 .. Len(runs) /\ (back.pc = "polling" => back.run \in RunIds)
      /\ back.iteration \in 0 .. MaxBackfill
  BY DEF ForwardInv, BackHolds, BackAttached, AllTyped, BackTyped, Requested
<1>5. probe.run \in 0 .. Len(runs) /\ (probe.pc = "polling" => probe.run \in RunIds)
  BY DEF AllTyped, ProbeTyped
<1> QED
  BY <1>1, <1>2, <1>3, <1>4, <1>5 DEF AllTyped, SupervisorTyped, TypeOK

(* What the rows, the invocations, the supervisor and the scripts range     *)
(* over: no run is followed that is not there, no label has a number that   *)
(* is not one, and no script counts past what the operator allowed.         *)
THEOREM TypeCorrect == Spec => []TypeOK
<1>1. ForwardInv /\ AllTyped => TypeOK
  BY TypedGives
<1> QED
  BY <1>1, InitTyped, InitKnows, Invariance, NextKnows, NextTyped, PTL DEF Spec

-----------------------------------------------------------------------------
(* What the invariant gives                                                 *)

(* A run is judged benign from its row only if every warning it reported    *)
(* was benign, however few of them the row kept.                            *)
THEOREM EligibleTellsAll == Spec => []EligibleMeansOverlooked
<1>1. ForwardInv => EligibleMeansOverlooked
  BY RowTellsAll DEF ForwardInv, EligibleMeansOverlooked
<1> QED
  BY <1>1, Invariance, PTL

(* What any of the scripts wrote down as complete is so, and stays so.      *)
THEOREM EvidenceIsClean == Spec => []RecordedIsClean
<1>1. ForwardInv => RecordedIsClean
  BY DEF ForwardInv, EvidenceHolds, Recordable, RecordedIsClean
<1> QED
  BY <1>1, Invariance, PTL

(* Windows fetched for evidence alone never move the cursor.                *)
THEOREM CursorStaysForEvidence == Spec => []EvidenceMovesNoCursor
<1>1. ForwardInv => EvidenceMovesNoCursor
  BY DEF ForwardInv, RowsInv
<1> QED
  BY <1>1, Invariance, PTL

(* No campaign submits a window before all the blocks below it, back to the *)
(* one the operator named, are complete in the evidence.                    *)
THEOREM NothingSkipped == Spec => []PredecessorsRecorded
<1>1. ForwardInv => PredecessorsRecorded
  BY DEF ForwardInv, CampaignsHold, CampaignHolds, CoverHolds, PredecessorsRecorded, Planned,
         Submitted
<1> QED
  BY <1>1, Invariance, PTL

(* A campaign that reports a clean end delivered all it was asked for.      *)
THEOREM CleanStopsDeliver == Spec => []CleanStopIsComplete
<1>1. ForwardInv => CleanStopIsComplete
  BY DEF ForwardInv, CampaignsHold, CampaignHolds, CoverHolds, CleanStopIsComplete, Delivered,
         Asked
<1> QED
  BY <1>1, Invariance, PTL

(* The same of the windows of a batch.                                      *)
THEOREM BatchSkipsNothing == Spec => []BatchLeavesNothingBehind
<1>1. ForwardInv => BatchLeavesNothingBehind
  <2> SUFFICES ASSUME ForwardInv, batch.pc \in {"posting", "polling"}, ~batch.recovering
               PROVE  InEvidence(batch.opt.first, batch.window.from - 1)
    BY DEF BatchLeavesNothingBehind, InEvidence, Range
  <2> QED
    BY DEF ForwardInv, BatchHolds, BatchCover, Planned, Submitted
<1> QED
  BY <1>1, Invariance, PTL

(* A backfill goes down its grid window by window, and past a rebuild that  *)
(* was due only when it was clean.                                          *)
THEOREM BackfillGoesInTurn == Spec => []BackfillInTurn
<1>1. ForwardInv => BackfillInTurn
  <2> SUFFICES ASSUME ForwardInv, back.pc \in {"posting", "polling"}
               PROVE  /\ InEvidence(back.window.to + 1, back.start - 1)
                      /\ \A n \in back.through : n % RebuildInterval = 0 => Rebuilt(n)
    BY DEF BackfillInTurn, InEvidence, Range, Rebuilt
  <2> QED
    BY DEF ForwardInv, BackHolds, BackCover, BackThrough, Requested
<1> QED
  BY <1>1, Invariance, PTL

(* The history is reported complete only when it is.                        *)
THEOREM ReportedCompleteIs == Spec => []CompleteAfterFinalRebuild
<1>1. ForwardInv => CompleteAfterFinalRebuild
  BY DEF ForwardInv, BackHolds, BackComplete, CompleteAfterFinalRebuild
<1> QED
  BY <1>1, Invariance, PTL

=============================================================================
