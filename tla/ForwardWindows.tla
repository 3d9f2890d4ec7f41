---------------------------- MODULE ForwardWindows ----------------------------
(***************************************************************************)
(* What the operator scripts that extend a wallet's TRANSFERS cursor       *)
(* window by window share: scripts/lib/wallet-forward-sync-primitives.ts.  *)
(* The scripts work beside the server, from the SyncRun and SyncCursor     *)
(* rows alone: this module holds those rows, the server that changes them, *)
(* and whatever else can happen around a script.                           *)
(***************************************************************************)
EXTENDS Integers, Sequences, FiniteSets, SyncWarnings

CONSTANTS
  WindowSize,   \* the blocks of a window
  Anchor,       \* the lower edge of the cursor at first
  Frontier,     \* its upper edge
  Reports,      \* the lists of warnings a sync may come back with
  Aftermath,    \* those a rebuild may come back with
  MaxRuns,      \* the SyncRuns there may be
  MaxOthers,    \* those of them somebody else may ask for
  MaxFaults     \* the disturbances there may be

ASSUME WindowsAssumption ==
  /\ WindowSize \in Nat \ {0}
  /\ Anchor \in Nat /\ Frontier \in Nat /\ Anchor <= Frontier
  /\ MaxRuns \in Nat /\ MaxOthers \in Nat /\ MaxFaults \in Nat
  /\ Reports \cup Aftermath \subseteq Seq(Codes)

VARIABLES
  runs,      \* the SyncRun rows, in the order of their creation
  cursor,    \* the TRANSFERS cursor
  tainted,   \* the blocks with fabricated transfers among their raw rows
  adrift,    \* the requests whose sender gave up on them before an answer
  world,     \* the checkout and the backend: as approved, moved on, or dirty
  faults,    \* how often something went wrong so far
  recorded   \* the runs whose completion is in an evidence file

rows   == <<runs, cursor, tainted, adrift>>
around == <<rows, world, faults>>

Label(kind, id, n) == [kind |-> kind, id |-> id, n |-> n]
Range(w) == w.from .. w.to
Request(label, from, to) == [label |-> label, from |-> from, to |-> to]
NoWindow == Request(Label("none", 0, 0), 0, 0)

(* No cursor that a dry run imagines.                                       *)
Nowhere == -1

NewRun(w) ==
  [label |-> w.label, from |-> w.from, to |-> w.to,
   status |-> "PENDING", live |-> TRUE, report |-> <<>>]

RunIds     == DOMAIN runs
ActiveRuns == {r \in RunIds : runs[r].status = "PENDING"}
Labels     == {runs[r].label : r \in RunIds}
Terminal(r) == runs[r].status # "PENDING"

-----------------------------------------------------------------------------
(* The gates before a request and the verification after it                 *)

NextRange(to, label) == Request(label, to + 1, to + WindowSize)

CursorIs(from, to) == cursor = [from |-> from, to |-> to]

(* No run is active, no run ever had this label, and the window holds no    *)
(* fabricated transfer.                                                     *)
GatesClear(w) ==
  /\ ActiveRuns = {}
  /\ w.label \notin Labels
  /\ tainted \cap Range(w) = {}

SameWindow(r, w) ==
  runs[r].label = w.label /\ runs[r].from = w.from /\ runs[r].to = w.to

Row(r) == Capped(runs[r].report)

(* Mutated: warnings do not matter.                                         *)
WindowCompleted(r, w) == runs[r].status = "COMPLETED" /\ SameWindow(r, w)

(* verifyWindowTerminalState                                                *)
WindowClean(r, w) ==
  /\ runs[r].status = "COMPLETED"
  /\ SameWindow(r, w)
  /\ WarningsClean(Row(r))

(* verifyRecoveryEligibility, of the run whose window is to be repeated     *)
RecoveryEligible(r, from, to) ==
  /\ r \in RunIds
  /\ runs[r].status = "COMPLETED"
  /\ runs[r].from = from /\ runs[r].to = to
  /\ WarningsEligible(Row(r))

(* verifyRecoveryWindowTerminalState, of the run that repeated it           *)
RecoveryClean(r, w) ==
  /\ runs[r].status = "COMPLETED"
  /\ SameWindow(r, w)
  /\ WarningsRecovered(Row(r))

(* buildPostRunFailureReasons finds nothing: the cursor moved to the end of *)
(* the window and nowhere else, no fabricated transfer came in, and nothing *)
(* is active.  Rows cannot be duplicates of each other under the unique     *)
(* keys of the schema, so the searches for duplicates find none.            *)
NothingAmiss(from, w) ==
  /\ CursorIs(from, w.to)
  /\ tainted \cap Range(w) = {}
  /\ ActiveRuns = {}

-----------------------------------------------------------------------------
(* The server and the surroundings                                          *)

RowsInit ==
  /\ runs = <<>>
  /\ cursor = [from |-> Anchor, to |-> Frontier]
  /\ tainted = {}
  /\ adrift = {}
  /\ world = "approved"
  /\ faults = 0
  /\ recorded = {}

Fault == faults < MaxFaults /\ faults' = faults + 1

Free == ActiveRuns = {} /\ Len(runs) < MaxRuns

Accept(w) == runs' = Append(runs, NewRun(w))

(* A window that is apart from the covered one does not extend it.          *)
Apart(w) == w.from > cursor.to + 1 \/ w.to + 1 < cursor.from

(* A sync extends the cursor by its window, a rebuild leaves it alone.      *)
Extended(r) ==
  LET w == runs[r]
  IN  IF w.label.kind = "rebuild" \/ Apart(w) THEN cursor
      ELSE [from |-> IF w.from < cursor.from THEN w.from ELSE cursor.from,
            to   |-> IF w.to > cursor.to THEN w.to ELSE cursor.to]

Settle(r, status, report) ==
  runs' = [runs EXCEPT ![r].status = status, ![r].report = report, ![r].live = FALSE]

(* A sync ends as it should.                                                *)
CompleteRun(r) ==
  /\ runs[r].live
  /\ Settle(r, "COMPLETED", <<>>)
  /\ cursor' = Extended(r)
  /\ UNCHANGED <<tainted, adrift, world, faults>>

(* A sync ends otherwise: with warnings, with fabricated transfers, or      *)
(* FAILED before or after it moved the cursor.                              *)
SpoilRun(r) ==
  /\ runs[r].live
  /\ Fault
  /\ \/ /\ \E report \in (IF runs[r].label.kind = "rebuild" THEN Aftermath ELSE Reports) :
             Settle(r, "COMPLETED", report)
        /\ cursor' = Extended(r)
        /\ UNCHANGED tainted
     \/ /\ runs[r].label.kind # "rebuild"
        /\ Settle(r, "COMPLETED", <<>>)
        /\ cursor' = Extended(r)
        /\ tainted' = tainted \cup Range(runs[r])
     \/ /\ Settle(r, "FAILED", <<>>)
        /\ cursor' \in {cursor, Extended(r)}
        /\ UNCHANGED tainted
  /\ UNCHANGED <<adrift, world>>

(* The operator releases a run that appears stale; its process may go on.   *)
ReleaseRun(r) ==
  /\ runs[r].status = "PENDING"
  /\ Fault
  /\ runs' = [runs EXCEPT ![r].status = "FAILED"]
  /\ UNCHANGED <<cursor, tainted, adrift, world>>

(* A request whose sender gave up reaches the server after all.             *)
DeliverLate(w) ==
  /\ w \in adrift
  /\ adrift' = adrift \ {w}
  /\ \/ Free /\ Accept(w)
     \/ ~Free /\ UNCHANGED runs
  /\ UNCHANGED <<cursor, tainted, world, faults>>

(* Somebody else syncs the wallet, and not by whole windows.                *)
OthersSync(from, to) ==
  /\ Free
  /\ Cardinality({r \in RunIds : runs[r].label.kind = "other"}) < MaxOthers
  /\ from \in Nat /\ to \in Nat
  /\ Accept(Request(Label("other", Len(runs), 0), from, to))
  /\ UNCHANGED <<cursor, tainted, adrift, world, faults>>

SyncOnwards == \E n \in 1 .. WindowSize : OthersSync(cursor.to + 1, cursor.to + n)
SyncFurtherBack == \E n \in 1 .. WindowSize : OthersSync(cursor.from - n, cursor.from - 1)

(* The checkout or the environment behind the URL is replaced, or a file is *)
(* left modified.                                                           *)
Drift ==
  /\ Fault
  /\ world' \in {"approved", "moved", "dirty"} \ {world}
  /\ UNCHANGED rows

Surroundings ==
  \/ \E r \in RunIds : CompleteRun(r) \/ SpoilRun(r) \/ ReleaseRun(r)
  \/ \E w \in adrift : DeliverLate(w)
  \/ SyncOnwards
  \/ Drift

RowsTypeOK ==
  /\ runs \in Seq([label : [kind : {"child", "hand", "recovery", "batch", "backfill", "rebuild",
                                    "probe", "other"}, id : Nat, n : Nat],
                   from : Nat, to : Nat,
                   status : {"PENDING", "COMPLETED", "FAILED"}, live : BOOLEAN,
                   report : Reports \cup Aftermath \cup {<<>>}])
  /\ cursor \in [from : Nat, to : Nat]
  /\ tainted \subseteq Nat
  /\ world \in {"approved", "moved", "dirty"}
  /\ faults \in 0 .. MaxFaults
  /\ recorded \subseteq RunIds
=============================================================================
