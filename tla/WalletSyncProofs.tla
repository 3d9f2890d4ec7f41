-------------------------- MODULE WalletSyncProofs --------------------------
(***************************************************************************)
(* For any number of syncs, families, blocks and cursor attempts: a cursor *)
(* claims only what was ingested and persisted, its hash names its highest *)
(* block, COMPLETED means that every planned range is persisted, and the   *)
(* pipeline implements SyncCoverage.                                       *)
(***************************************************************************)
EXTENDS WalletSync, TLAPS

InStage   == {"ingesting", "ingested", "normalizing", "persisting",
              "persisted", "updating", "merging"}
Ingested  == {"ingested", "normalizing", "persisting", "persisted", "updating",
              "merging"}
Persisted == {"persisted", "updating", "merging"}

(* A sync inside a stage works on a position of its list, with a non-empty  *)
(* range, and what the earlier stages stored of that range is still there.  *)
StagesHold ==
  \A s \in Syncs :
    /\ pc[s] \in InStage => pos[s] \in 1 .. Length(s) /\ From(s) <= End(s)
    /\ pc[s] \in Ingested => Segment(s) \subseteq raw[Family(s)]
    /\ pc[s] \in Persisted => Segment(s) \subseteq ledger[Family(s)]

(* A cursor is the absent one or a non-empty window.                        *)
WindowsOrdered ==
  /\ \A f \in Families : cursor[f] = NoCursor \/ cursor[f].from <= cursor[f].to
  /\ \A s \in Syncs : base[s] = NoCursor \/ base[s].from <= base[s].to

(* The positions a sync has left behind are persisted.                      *)
PassedIsPersisted ==
  \A s \in Syncs :
    /\ pc[s] \in Working \cup {"completed"} =>
         \A i \in 1 .. Length(s) :
           i < pos[s] => plan[s][i] .. End(s) \subseteq ledger[input[s].families[i]]
    /\ pc[s] = "completed" => pos[s] > Length(s)

(* A sync only ever has positions of its own list left to read.              *)
UnreadInList == \A s \in Syncs : unread[s] \subseteq 1 .. Length(s)

(* A sync that has not entered its loop stands at the head of its list.      *)
FreshPosition == \A s \in Syncs : pc[s] \in {"idle", "planning"} => pos[s] = 1

IInv ==
  TypeOK /\ UnreadInList /\ FreshPosition /\ StagesHold /\ WindowsOrdered /\ PassedIsPersisted /\ CursorSound
    /\ HashNamesHighWater

-----------------------------------------------------------------------------
LEMMA InputFacts ==
  ASSUME TypeOK, NEW s \in Syncs
  PROVE  /\ Length(s) \in 1 .. MaxLength
         /\ \A i \in 1 .. Length(s) : input[s].families[i] \in Families
         /\ End(s) \in 0 .. MaxBlock
         /\ input[s].start \in 0 .. MaxBlock \cup {NoStart}
<1>1. input[s] \in Inputs
  BY DEF TypeOK
<1>2. input[s].families \in FamilyLists /\ End(s) \in 0 .. MaxBlock
      /\ input[s].start \in 0 .. MaxBlock \cup {NoStart}
  BY <1>1 DEF Inputs, Blocks, End
<1>3. input[s].families \in Seq(Families) /\ Len(input[s].families) \in 1 .. MaxLength
  BY <1>2, FamiliesAssumption
<1>4. QED
  BY <1>2, <1>3 DEF Length

(* What mergeCursorWindow returns: a window that contains the old one, is   *)
(* made of the old and the new one, and is named by its highest block.      *)
LEMMA MergeFacts ==
  ASSUME NEW old \in Windows \cup {NoCursor}, NEW new \in Windows,
         old = NoCursor \/ old.from <= old.to, new.from <= new.to
  PROVE  LET m == MergeCursorWindow(old, new) IN
         /\ m \in Windows
         /\ m.from <= m.to
         /\ old.from .. old.to \subseteq m.from .. m.to
         /\ m.from .. m.to \subseteq (old.from .. old.to) \cup (new.from .. new.to)
         /\ old.hash = old.to /\ new.hash = new.to => m.hash = m.to
         /\ old.to <= m.to
<1> DEFINE m == MergeCursorWindow(old, new)
<1> USE BoundsAssumption DEF Windows, Blocks, NoCursor
<1>1. CASE old = NoCursor
  BY <1>1 DEF MergeCursorWindow
<1>2. CASE old # NoCursor /\ Disconnected(old, new)
  BY <1>2 DEF MergeCursorWindow
<1>3. CASE old # NoCursor /\ ~Disconnected(old, new)
  <2>1. /\ old \in Windows /\ old.from <= old.to
        /\ new.from <= old.to + 1 /\ old.from <= new.to + 1
    BY <1>3 DEF Disconnected
  <2>2. m = [from |-> IF new.from < old.from THEN new.from ELSE old.from,
             to   |-> IF new.to > old.to THEN new.to ELSE old.to,
             hash |-> IF new.to > old.to THEN new.hash ELSE old.hash]
    BY <1>3 DEF MergeCursorWindow
  <2>3. QED
    BY <2>1, <2>2
<1>4. QED
  BY <1>1, <1>2, <1>3

(* The same of the merge a sync is about to commit.                         *)
LEMMA MergedFacts ==
  ASSUME IInv, NEW s \in Syncs, pc[s] = "merging"
  PROVE  /\ Family(s) \in Families
         /\ pos[s] \in 1 .. Length(s)
         /\ Merged(s) \in Windows
         /\ Merged(s).from <= Merged(s).to
         /\ base[s].from .. base[s].to \subseteq Merged(s).from .. Merged(s).to
         /\ Merged(s).from .. Merged(s).to
              \subseteq (base[s].from .. base[s].to) \cup Segment(s)
         /\ base[s].hash = base[s].to => Merged(s).hash = Merged(s).to
         /\ base[s].to <= Merged(s).to
<1> DEFINE new == [from |-> From(s), to |-> End(s), hash |-> End(s)]
<1>1. pos[s] \in 1 .. Length(s) /\ From(s) <= End(s)
  BY DEF IInv, StagesHold, InStage
<1>2. Family(s) \in Families /\ End(s) \in 0 .. MaxBlock /\ pos[s] \in Positions
  BY <1>1, InputFacts, BoundsAssumption DEF IInv, Family, Positions
<1>3. From(s) \in 0 .. MaxBlock + 1
  BY <1>2 DEF IInv, TypeOK, From
<1>4. new \in Windows /\ new.from <= new.to
  BY <1>1, <1>2, <1>3, BoundsAssumption DEF Windows, Blocks
<1>5. base[s] \in Windows \cup {NoCursor} /\ (base[s] = NoCursor \/ base[s].from <= base[s].to)
  BY DEF IInv, TypeOK, WindowsOrdered
<1>6. QED
  BY <1>1, <1>2, <1>4, <1>5, MergeFacts DEF Merged, Segment

(* The family and the range of a sync inside a stage are what they should be. *)
LEMMA StageFacts ==
  ASSUME IInv, NEW s \in Syncs, pc[s] \in InStage
  PROVE  /\ pos[s] \in 1 .. Length(s)
         /\ pos[s] \in Positions
         /\ Family(s) \in Families
         /\ Segment(s) \subseteq Blocks
         /\ From(s) \in Blocks /\ End(s) \in Blocks /\ From(s) <= End(s)
<1>1. pos[s] \in 1 .. Length(s) /\ From(s) <= End(s)
  BY DEF IInv, StagesHold
<1>2. Family(s) \in Families /\ End(s) \in 0 .. MaxBlock /\ pos[s] \in Positions
  BY <1>1, InputFacts, BoundsAssumption DEF IInv, Family, Positions
<1>3. From(s) \in 0 .. MaxBlock + 1
  BY <1>2 DEF IInv, TypeOK, From
<1>4. QED
  BY <1>1, <1>2, <1>3, BoundsAssumption DEF Segment, Blocks

LEMMA TypeOKStep ==
  ASSUME IInv, [Next]_vars
  PROVE  TypeOK'
<1> USE DEF TypeOK, Live, Settled, Working, Goto, SetRun, local, store
<1>1. CASE UNCHANGED vars
  BY <1>1 DEF IInv, vars
<1>2. ASSUME NEW s \in Syncs, Reserve(s) PROVE TypeOK'
  BY <1>2 DEF IInv, Reserve
<1>3. ASSUME NEW s \in Syncs, Advance(s) PROVE TypeOK'
  <2>1. ASSUME NEW i \in Positions, ReadCursor(s, i) PROVE TypeOK'
    <3> DEFINE start == input[s].start
               seen  == cursor[input[s].families[i]]
               new   == IF start # NoStart THEN start
                        ELSE IF seen = NoCursor THEN 0 ELSE seen.to + 1
    <3>1. i \in 1 .. Length(s)
      BY <2>1 DEF IInv, ReadCursor, UnreadInList
    <3>2. seen \in Windows \cup {NoCursor}
      BY <3>1, InputFacts DEF IInv
    <3>3. new \in 0 .. MaxBlock + 1
      BY <3>2, InputFacts, BoundsAssumption DEF IInv, Windows, Blocks
    <3>4. QED
      BY <2>1, <3>3 DEF IInv, ReadCursor
  <2>2. CASE EnterTry(s) \/ RecordFailure(s) \/ Complete(s)
    BY <2>2 DEF IInv, EnterTry, RecordFailure, Complete
  <2>3. CASE SkipFamily(s)
    BY <2>3, InputFacts, BoundsAssumption DEF IInv, SkipFamily, NextFamily
  <2>4. CASE EnterStage(s)
    BY <2>4 DEF IInv, EnterStage, NextStage
  <2>5. CASE Ingest(s)
    BY <2>5, StageFacts DEF IInv, Ingest, InStage
  <2>6. CASE PersistLedger(s)
    BY <2>6, StageFacts DEF IInv, PersistLedger, InStage
  <2>7. CASE OpenCursor(s)
    BY <2>7, StageFacts DEF IInv, OpenCursor, InStage
  <2>8. CASE CommitCursor(s)
    BY <2>8, MergedFacts, InputFacts, BoundsAssumption DEF IInv, CommitCursor, NextFamily
  <2>9. CASE AbortCursor(s)
    <3>1. tries[s] \in 1 .. CursorAttempts /\ CursorAttempts \in Nat
      BY BoundsAssumption DEF IInv
    <3>5. UNCHANGED <<input, unread, plan, pos, base, run, raw, ledger, cursor>>
      BY <2>9 DEF AbortCursor
    <3>2. CASE tries[s] < CursorAttempts
      <4>1. tries[s] + 1 \in 1 .. CursorAttempts
        BY <3>1, <3>2
      <4>2. tries' = [tries EXCEPT ![s] = tries[s] + 1] /\ Goto(s, "updating")
        BY <2>9, <3>1, <3>2 DEF AbortCursor
      <4>3. QED
        BY <3>5, <4>1, <4>2 DEF IInv
    <3>3. CASE tries[s] = CursorAttempts
      <4>1. UNCHANGED tries /\ Goto(s, "failing")
        BY <2>9, <3>1, <3>3 DEF AbortCursor
      <4>2. QED
        BY <3>5, <4>1 DEF IInv
    <3>4. QED
      BY <3>1, <3>2, <3>3
  <2>10. QED
    BY <1>3, <2>1, <2>2, <2>3, <2>4, <2>5, <2>6, <2>7, <2>8, <2>9 DEF Advance
<1>4. ASSUME NEW s \in Syncs, Disturb(s) PROVE TypeOK'
  <2>1. CASE IngestFails(s)
    <3>1. PICK b \in Segment(s) :
            raw' = [raw EXCEPT ![Family(s)] = @ \cup From(s) .. b - 1]
      BY <2>1 DEF IngestFails
    <3>2. Family(s) \in Families /\ From(s) .. b - 1 \subseteq Blocks
      BY <2>1, StageFacts, BoundsAssumption DEF IngestFails, InStage, Blocks, Segment
    <3>3. QED
      BY <2>1, <3>1, <3>2 DEF IInv, IngestFails
  <2>2. CASE RejectPlan(s) \/ Throw(s) \/ Crash(s) \/ OperatorRelease(s)
    BY <2>2 DEF IInv, RejectPlan, Throw, Crash, OperatorRelease
  <2>3. QED
    BY <1>4, <2>1, <2>2 DEF Disturb
<1>5. QED
  BY <1>1, <1>2, <1>3, <1>4 DEF Next

LEMMA UnreadInListStep ==
  ASSUME IInv, [Next]_vars
  PROVE  UnreadInList'
<1>1. UNCHANGED input
  BY DEF vars, local, Next, Reserve, Advance, ReadCursor, EnterTry, SkipFamily,
         EnterStage, Ingest, PersistLedger, OpenCursor, CommitCursor, AbortCursor,
         Complete, RecordFailure, Disturb, RejectPlan, IngestFails, Throw, Crash,
         OperatorRelease
<1>2. \A s \in Syncs : unread'[s] \subseteq unread[s]
  BY DEF IInv, TypeOK, vars, local, Next, Reserve, Advance, ReadCursor, EnterTry,
         SkipFamily, EnterStage, Ingest, PersistLedger, OpenCursor, CommitCursor,
         AbortCursor, Complete, RecordFailure, Disturb, RejectPlan, IngestFails,
         Throw, Crash, OperatorRelease
<1>3. QED
  BY <1>1, <1>2 DEF IInv, UnreadInList, Length

(* The input of a sync never changes, its plan only while it is planning,   *)
(* and neither store ever loses a block.                                    *)
LEMMA OnlyGrows ==
  ASSUME IInv, [Next]_vars
  PROVE  /\ UNCHANGED input
         /\ \A f \in Families : raw[f] \subseteq raw'[f] /\ ledger[f] \subseteq ledger'[f]
         /\ \A s \in Syncs :
              pc[s] \in Working \cup {"completed"} =>
                plan'[s] = plan[s] /\ pc'[s] # "planning"
<1> USE DEF TypeOK, Goto, Working
<1>1. CASE UNCHANGED vars
  BY <1>1 DEF IInv, vars, local, store
<1>2. ASSUME NEW s \in Syncs, Reserve(s)
      PROVE  UNCHANGED <<input, raw, ledger, plan>> /\ pc[s] = "idle"
             /\ \A x \in Syncs : x # s => pc'[x] = pc[x]
  BY <1>2 DEF IInv, Reserve, local, store
<1>3. ASSUME NEW s \in Syncs, NEW i \in Positions, ReadCursor(s, i)
      PROVE  UNCHANGED <<input, raw, ledger, pc>> /\ pc[s] = "planning"
             /\ \A x \in Syncs : x # s => plan'[x] = plan[x]
  BY <1>3 DEF IInv, ReadCursor, store
<1>4. ASSUME NEW s \in Syncs, Ingest(s) \/ IngestFails(s) \/ PersistLedger(s)
      PROVE  /\ UNCHANGED <<input, plan>>
             /\ \A f \in Families : raw[f] \subseteq raw'[f] /\ ledger[f] \subseteq ledger'[f]
             /\ \A x \in Syncs : pc'[x] = "planning" => pc[x] = "planning"
  <2>1. Family(s) \in Families
    BY <1>4, StageFacts DEF Ingest, IngestFails, PersistLedger, InStage
  <2>2. UNCHANGED <<input, plan>>
    BY <1>4 DEF Ingest, IngestFails, PersistLedger, local
  <2>3. \A x \in Syncs : pc'[x] = "planning" => pc[x] = "planning"
    BY <1>4 DEF IInv, Ingest, IngestFails, PersistLedger
  <2>4. \E w :
          \/ raw' = [raw EXCEPT ![Family(s)] = @ \cup w] /\ UNCHANGED ledger
          \/ ledger' = [ledger EXCEPT ![Family(s)] = @ \cup w] /\ UNCHANGED raw
    BY <1>4 DEF Ingest, IngestFails, PersistLedger
  <2>5. \A f \in Families : raw[f] \subseteq raw'[f] /\ ledger[f] \subseteq ledger'[f]
    BY <2>1, <2>4 DEF IInv
  <2>6. QED
    BY <2>2, <2>3, <2>5
<1>5. ASSUME NEW s \in Syncs,
             \/ EnterTry(s) \/ SkipFamily(s) \/ EnterStage(s) \/ OpenCursor(s)
             \/ CommitCursor(s) \/ AbortCursor(s) \/ Complete(s)
             \/ RecordFailure(s) \/ RejectPlan(s) \/ Throw(s) \/ Crash(s)
             \/ OperatorRelease(s)
      PROVE  /\ UNCHANGED <<input, plan, raw, ledger>>
             /\ \A x \in Syncs : pc'[x] = "planning" => pc[x] = "planning"
  BY <1>5 DEF IInv, EnterTry, SkipFamily, EnterStage, NextStage, OpenCursor,
              CommitCursor, AbortCursor, Complete, RecordFailure, RejectPlan, Throw,
              Crash, OperatorRelease, local, store
<1>6. QED
  BY <1>1, <1>2, <1>3, <1>4, <1>5 DEF Next, Advance, Disturb

(* A step of one sync leaves what the others work on alone.                 *)
LEMMA OthersUntouched ==
  ASSUME IInv, NEW s \in Syncs, Reserve(s) \/ Advance(s) \/ Disturb(s),
         NEW x \in Syncs, x # s
  PROVE  /\ pc'[x] = pc[x] /\ pos'[x] = pos[x]
         /\ plan'[x] = plan[x] /\ base'[x] = base[x]
<1> USE DEF TypeOK, Goto, local, store
<1>1. CASE Reserve(s)
  BY <1>1 DEF IInv, Reserve
<1>2. CASE \E i \in Positions : ReadCursor(s, i)
  BY <1>2 DEF IInv, ReadCursor
<1>3. CASE \/ EnterTry(s) \/ EnterStage(s) \/ Ingest(s) \/ PersistLedger(s)
           \/ AbortCursor(s) \/ Complete(s) \/ RecordFailure(s) \/ Disturb(s)
  BY <1>3 DEF IInv, EnterTry, EnterStage, Ingest, PersistLedger, AbortCursor, Complete,
              RecordFailure, Disturb, RejectPlan, IngestFails, Throw, Crash,
              OperatorRelease
<1>4. CASE SkipFamily(s) \/ OpenCursor(s) \/ CommitCursor(s)
  BY <1>4 DEF IInv, SkipFamily, OpenCursor, CommitCursor, NextFamily
<1>5. QED
  BY <1>1, <1>2, <1>3, <1>4 DEF Advance

StageHolds(s) ==
  /\ pc[s] \in InStage => pos[s] \in 1 .. Length(s) /\ From(s) <= End(s)
  /\ pc[s] \in Ingested => Segment(s) \subseteq raw[Family(s)]
  /\ pc[s] \in Persisted => Segment(s) \subseteq ledger[Family(s)]

(* What holds of a sync inside a stage goes on holding when neither its     *)
(* position nor its plan changes and it has not moved to a later stage.     *)
LEMMA StageKept ==
  ASSUME IInv, [Next]_vars, NEW x \in Syncs,
         pos'[x] = pos[x], plan'[x] = plan[x],
         pc'[x] \in InStage => pc[x] \in InStage,
         pc'[x] \in Ingested => pc[x] \in Ingested,
         pc'[x] \in Persisted => pc[x] \in Persisted
  PROVE  StageHolds(x)'
<1>1. UNCHANGED <<Length(x), From(x), End(x), Segment(x), Family(x)>>
  BY OnlyGrows DEF Length, From, End, Segment, Family
<1>2. /\ pc'[x] \in InStage => pos'[x] \in 1 .. Length(x)' /\ From(x)' <= End(x)'
  BY <1>1 DEF IInv, StagesHold
<1>3. pc[x] \in Ingested => Segment(x) \subseteq raw[Family(x)] /\ Family(x) \in Families
  BY StageFacts DEF IInv, StagesHold, Ingested, InStage
<1>4. pc[x] \in Persisted => Segment(x) \subseteq ledger[Family(x)] /\ Family(x) \in Families
  BY StageFacts DEF IInv, StagesHold, Persisted, InStage
<1>5. pc'[x] \in Ingested => Segment(x)' \subseteq raw'[Family(x)']
  BY <1>1, <1>3, OnlyGrows
<1>6. pc'[x] \in Persisted => Segment(x)' \subseteq ledger'[Family(x)']
  BY <1>1, <1>4, OnlyGrows
<1>7. QED
  BY <1>2, <1>5, <1>6 DEF StageHolds

LEMMA StagesHoldStep ==
  ASSUME IInv, [Next]_vars
  PROVE  StagesHold'
<1> SUFFICES ASSUME NEW x \in Syncs PROVE StageHolds(x)'
  BY DEF StagesHold, StageHolds
<1> USE DEF InStage, Ingested, Persisted
<1>1. CASE UNCHANGED vars
  BY <1>1, StageKept DEF vars, local
<1>2. ASSUME NEW s \in Syncs, Reserve(s) \/ Advance(s) \/ Disturb(s), x # s
      PROVE  StageHolds(x)'
  BY <1>2, OthersUntouched, StageKept
<1>3. ASSUME Reserve(x) \/ Advance(x) \/ Disturb(x)
      PROVE  StageHolds(x)'
  <2> USE DEF IInv, TypeOK, Goto, local, store
  <2>1. CASE \/ Reserve(x) \/ EnterTry(x) \/ SkipFamily(x) \/ CommitCursor(x)
             \/ Complete(x) \/ RecordFailure(x) \/ RejectPlan(x)
             \/ IngestFails(x) \/ Throw(x) \/ Crash(x)
             \/ \E i \in Positions : ReadCursor(x, i)
    <3>1. pc'[x] \notin InStage
      BY <2>1 DEF Reserve, ReadCursor, EnterTry, SkipFamily, CommitCursor, Complete,
                  RecordFailure, RejectPlan, IngestFails, Throw, Crash
    <3>2. QED
      BY <3>1 DEF StageHolds
  <2>2. CASE EnterStage(x)
    <3>1. UNCHANGED <<pos, plan, input, raw, ledger>> /\ pc'[x] = NextStage[pc[x]]
          /\ pc[x] \in {"loop", "ingested", "normalizing", "persisted"}
      BY <2>2 DEF EnterStage, NextStage
    <3>2. CASE pc[x] = "loop"
      <4>1. pos[x] <= Length(x) /\ From(x) <= End(x) /\ pc'[x] = "ingesting"
        BY <2>2, <3>1, <3>2 DEF EnterStage, NextStage
      <4>2. pos[x] \in 1 .. Length(x)
        BY <4>1, InputFacts
      <4>3. QED
        BY <3>1, <4>1, <4>2 DEF StageHolds, Length, From, End
    <3>3. CASE pc[x] # "loop"
      <4>1. /\ pc'[x] \in InStage => pc[x] \in InStage
            /\ pc'[x] \in Ingested => pc[x] \in Ingested
            /\ pc'[x] \in Persisted => pc[x] \in Persisted
        BY <3>1, <3>3 DEF NextStage
      <4>2. QED
        BY <3>1, <4>1, StageKept
    <3>4. QED
      BY <3>2, <3>3
  <2>3. CASE Ingest(x)
    <3>1. /\ UNCHANGED <<pos, plan, input>> /\ pc[x] = "ingesting" /\ pc'[x] = "ingested"
          /\ raw' = [raw EXCEPT ![Family(x)] = @ \cup Segment(x)]
      BY <2>3 DEF Ingest
    <3>2. Family(x) \in Families /\ pos[x] \in 1 .. Length(x) /\ From(x) <= End(x)
      BY <3>1, StageFacts
    <3>3. UNCHANGED <<Length(x), From(x), End(x), Segment(x), Family(x)>>
      BY <3>1 DEF Length, From, End, Segment, Family
    <3>4. Segment(x) \subseteq raw'[Family(x)]
      BY <3>1, <3>2
    <3>5. QED
      BY <3>1, <3>2, <3>3, <3>4 DEF StageHolds
  <2>4. CASE PersistLedger(x)
    <3>1. /\ UNCHANGED <<pos, plan, input, raw>> /\ pc[x] = "persisting"
          /\ pc'[x] = "persisted"
          /\ ledger' = [ledger EXCEPT ![Family(x)] = @ \cup Segment(x)]
      BY <2>4 DEF PersistLedger
    <3>2. /\ Family(x) \in Families /\ pos[x] \in 1 .. Length(x) /\ From(x) <= End(x)
          /\ Segment(x) \subseteq raw[Family(x)]
      BY <3>1, StageFacts DEF StagesHold
    <3>3. UNCHANGED <<Length(x), From(x), End(x), Segment(x), Family(x)>>
      BY <3>1 DEF Length, From, End, Segment, Family
    <3>4. Segment(x) \subseteq ledger'[Family(x)]
      BY <3>1, <3>2
    <3>5. QED
      BY <3>1, <3>2, <3>3, <3>4 DEF StageHolds
  <2>5. CASE OpenCursor(x) \/ AbortCursor(x) \/ OperatorRelease(x)
    <3>1. /\ UNCHANGED <<pos, plan>>
          /\ pc'[x] \in InStage => pc[x] \in InStage
          /\ pc'[x] \in Ingested => pc[x] \in Ingested
          /\ pc'[x] \in Persisted => pc[x] \in Persisted
      BY <2>5 DEF OpenCursor, AbortCursor, OperatorRelease
    <3>2. QED
      BY <3>1, StageKept
  <2>6. QED
    BY <1>3, <2>1, <2>2, <2>3, <2>4, <2>5 DEF Advance, Disturb
<1>4. QED
  BY <1>1, <1>2, <1>3 DEF Next

-----------------------------------------------------------------------------
(* The cursor rows change only when a sync commits its merge onto the row it *)
(* read.                                                                    *)
LEMMA CursorSteps ==
  ASSUME IInv, [Next]_vars
  PROVE  \/ UNCHANGED cursor
         \/ \E s \in Syncs :
              /\ pc[s] = "merging"
              /\ cursor[Family(s)] = base[s]
              /\ cursor' = [cursor EXCEPT ![Family(s)] = Merged(s)]
<1>1. ASSUME NEW s \in Syncs, CommitCursor(s)
      PROVE  \/ UNCHANGED cursor
             \/ /\ pc[s] = "merging"
                /\ cursor[Family(s)] = base[s]
                /\ cursor' = [cursor EXCEPT ![Family(s)] = Merged(s)]
  BY <1>1, MergedFacts DEF IInv, TypeOK, CommitCursor
<1>2. ASSUME NEW s \in Syncs, Reserve(s) \/ Advance(s) \/ Disturb(s), ~CommitCursor(s)
      PROVE  UNCHANGED cursor
  BY <1>2 DEF Reserve, Advance, ReadCursor, EnterTry, SkipFamily, EnterStage, Ingest,
              PersistLedger, OpenCursor, AbortCursor, Complete, RecordFailure, Disturb,
              RejectPlan, IngestFails, Throw, Crash, OperatorRelease, store
<1>3. UNCHANGED vars => UNCHANGED cursor
  BY DEF vars, store
<1>4. QED
  BY <1>1, <1>2, <1>3 DEF Next

LEMMA CursorPartsStep ==
  ASSUME IInv, [Next]_vars
  PROVE  /\ CursorSound'
         /\ HashNamesHighWater'
         /\ \A f \in Families :
              /\ cursor'[f] = NoCursor \/ cursor'[f].from <= cursor'[f].to
              /\ cursor[f].from .. cursor[f].to \subseteq cursor'[f].from .. cursor'[f].to
<1>1. \A f \in Families : raw[f] \cap ledger[f] \subseteq raw'[f] \cap ledger'[f]
  BY OnlyGrows
<1>2. CASE UNCHANGED cursor
  BY <1>1, <1>2 DEF IInv, CursorSound, HashNamesHighWater, WindowsOrdered
<1>3. ASSUME NEW s \in Syncs, pc[s] = "merging", cursor[Family(s)] = base[s],
             cursor' = [cursor EXCEPT ![Family(s)] = Merged(s)],
             NEW f \in Families
      PROVE  /\ cursor'[f].from .. cursor'[f].to \subseteq raw'[f] \cap ledger'[f]
             /\ cursor'[f].hash = cursor'[f].to
             /\ cursor'[f] = NoCursor \/ cursor'[f].from <= cursor'[f].to
             /\ cursor[f].from .. cursor[f].to \subseteq cursor'[f].from .. cursor'[f].to
  <2>1. CASE f # Family(s)
    <3>1. cursor'[f] = cursor[f]
      BY <1>3, <2>1 DEF IInv, TypeOK
    <3>2. QED
      BY <1>1, <3>1 DEF IInv, CursorSound, HashNamesHighWater, WindowsOrdered
  <2>2. CASE f = Family(s)
    <3>1. cursor'[f] = Merged(s) /\ cursor[f] = base[s]
      BY <1>3, <2>2 DEF IInv, TypeOK
    <3>2. /\ base[s].from .. base[s].to \subseteq raw[f] \cap ledger[f]
          /\ base[s].hash = base[s].to
      BY <3>1 DEF IInv, CursorSound, HashNamesHighWater
    <3>3. Segment(s) \subseteq raw[f] \cap ledger[f]
      BY <1>3, <2>2 DEF IInv, StagesHold, Ingested, Persisted
    <3>4. QED
      BY <1>1, <1>3, <3>1, <3>2, <3>3, MergedFacts
  <2>3. QED
    BY <2>1, <2>2
<1>4. CASE \E s \in Syncs :
              /\ pc[s] = "merging"
              /\ cursor[Family(s)] = base[s]
              /\ cursor' = [cursor EXCEPT ![Family(s)] = Merged(s)]
  BY <1>3, <1>4 DEF CursorSound, HashNamesHighWater
<1>5. QED
  BY <1>2, <1>4, CursorSteps

LEMMA WindowsOrderedStep ==
  ASSUME IInv, [Next]_vars
  PROVE  WindowsOrdered'
<1>1. \A f \in Families : cursor'[f] = NoCursor \/ cursor'[f].from <= cursor'[f].to
  BY CursorPartsStep
<1>2. ASSUME NEW s \in Syncs
      PROVE  base'[s] = NoCursor \/ base'[s].from <= base'[s].to
  <2>1. ASSUME NEW x \in Syncs, OpenCursor(x)
        PROVE  base'[s] = NoCursor \/ base'[s].from <= base'[s].to
    <3>1. Family(x) \in Families
      BY <2>1, StageFacts DEF OpenCursor, InStage
    <3>2. base'[s] = base[s] \/ base'[s] = cursor[Family(x)]
      BY <2>1 DEF IInv, TypeOK, OpenCursor
    <3>3. QED
      BY <3>1, <3>2 DEF IInv, WindowsOrdered
  <2>2. ASSUME ~\E x \in Syncs : OpenCursor(x) PROVE UNCHANGED base
    BY <2>2 DEF Next, vars, Reserve, Advance, ReadCursor, EnterTry, SkipFamily,
                EnterStage, Ingest, PersistLedger, CommitCursor, AbortCursor, Complete,
                RecordFailure, Disturb, RejectPlan, IngestFails, Throw, Crash,
                OperatorRelease, local
  <2>3. QED
    BY <2>1, <2>2 DEF IInv, WindowsOrdered
<1>3. QED
  BY <1>1, <1>2 DEF WindowsOrdered

PassedHolds(s) ==
  /\ pc[s] \in Working \cup {"completed"} =>
       \A i \in 1 .. Length(s) :
         i < pos[s] => plan[s][i] .. End(s) \subseteq ledger[input[s].families[i]]
  /\ pc[s] = "completed" => pos[s] > Length(s)

LEMMA PassedKept ==
  ASSUME IInv, [Next]_vars, NEW x \in Syncs, pos'[x] = pos[x],
         pc'[x] \in Working \cup {"completed"} => pc[x] \in Working \cup {"completed"},
         pc'[x] = "completed" => pc[x] = "completed"
  PROVE  PassedHolds(x)'
<1>1. UNCHANGED <<Length(x), End(x), input>>
  BY OnlyGrows DEF Length, End
<1>2. ASSUME pc'[x] \in Working \cup {"completed"},
             NEW i \in 1 .. Length(x), i < pos[x]
      PROVE  plan'[x][i] .. End(x) \subseteq ledger'[input[x].families[i]]
  <2>1. plan[x][i] .. End(x) \subseteq ledger[input[x].families[i]]
    BY <1>2 DEF IInv, PassedIsPersisted
  <2>2. plan'[x] = plan[x] /\ input[x].families[i] \in Families
    BY <1>2, OnlyGrows, InputFacts DEF IInv
  <2>3. QED
    BY <2>1, <2>2, OnlyGrows
<1>3. pc'[x] = "completed" => pos'[x] > Length(x)'
  BY <1>1 DEF IInv, PassedIsPersisted
<1>4. QED
  BY <1>1, <1>2, <1>3 DEF PassedHolds

(* Leaving a family behind, whose range is persisted or empty.              *)
LEMMA PassedExtended ==
  ASSUME IInv, [Next]_vars, NEW x \in Syncs,
         pc[x] \in Working, pc'[x] # "completed", pos'[x] = pos[x] + 1,
         pos[x] \in 1 .. Length(x), Segment(x) \subseteq ledger[Family(x)]
  PROVE  PassedHolds(x)'
<1>1. UNCHANGED <<Length(x), End(x), input>> /\ plan'[x] = plan[x]
  BY OnlyGrows DEF Length, End
<1>2. pos[x] \in Nat /\ Length(x) \in Nat
  BY InputFacts DEF IInv, TypeOK
<1>3. ASSUME NEW i \in 1 .. Length(x), i < pos'[x]
      PROVE  plan'[x][i] .. End(x) \subseteq ledger'[input[x].families[i]]
  <2>1. plan[x][i] .. End(x) \subseteq ledger[input[x].families[i]]
    <3>1. CASE i < pos[x]
      BY <3>1 DEF IInv, PassedIsPersisted
    <3>2. CASE i = pos[x]
      BY <3>2 DEF Segment, From, Family
    <3>3. QED
      BY <1>2, <1>3, <3>1, <3>2
  <2>2. input[x].families[i] \in Families
    BY InputFacts DEF IInv
  <2>3. QED
    BY <1>1, <2>1, <2>2, OnlyGrows
<1>4. QED
  BY <1>1, <1>3 DEF PassedHolds

LEMMA PassedStep ==
  ASSUME IInv, [Next]_vars
  PROVE  PassedIsPersisted'
<1> SUFFICES ASSUME NEW x \in Syncs PROVE PassedHolds(x)'
  BY DEF PassedIsPersisted, PassedHolds
<1> USE DEF Working
<1>1. CASE UNCHANGED vars
  BY <1>1, PassedKept DEF vars, local
<1>2. ASSUME NEW s \in Syncs, Reserve(s) \/ Advance(s) \/ Disturb(s), x # s
      PROVE  PassedHolds(x)'
  BY <1>2, OthersUntouched, PassedKept
<1>3. ASSUME Reserve(x) \/ Advance(x) \/ Disturb(x)
      PROVE  PassedHolds(x)'
  <2> USE DEF IInv, TypeOK, Goto, local, store
  <2>1. CASE \/ Reserve(x) \/ RecordFailure(x) \/ RejectPlan(x) \/ IngestFails(x)
             \/ Throw(x) \/ Crash(x) \/ \E i \in Positions : ReadCursor(x, i)
    <3>1. pc'[x] \notin Working \cup {"completed"}
      BY <2>1 DEF Reserve, ReadCursor, RecordFailure, RejectPlan, IngestFails, Throw, Crash
    <3>2. QED
      BY <3>1 DEF PassedHolds
  <2>2. CASE EnterTry(x)
    <3>1. pos'[x] = pos[x] /\ pos[x] = 1 /\ pc'[x] # "completed"
      BY <2>2 DEF EnterTry, FreshPosition
    <3>2. \A i \in 1 .. Length(x)' : ~(i < pos'[x])
      BY <3>1
    <3>3. QED
      BY <3>1, <3>2 DEF PassedHolds
  <2>3. CASE SkipFamily(x)
    <3>1. /\ pc[x] = "loop" /\ pos[x] <= Length(x) /\ From(x) > End(x)
          /\ pos'[x] = pos[x] + 1 /\ pc'[x] = "loop"
      BY <2>3 DEF SkipFamily, NextFamily
    <3>2. pos[x] \in 1 .. Length(x) /\ pos[x] \in Positions
      <4>1. Length(x) \in 1 .. MaxLength
        BY InputFacts
      <4>2. pos[x] \in 1 .. MaxLength + 1
        OBVIOUS
      <4>3. QED
        BY <3>1, <4>1, <4>2, BoundsAssumption DEF Positions
    <3>3. From(x) \in Int /\ End(x) \in Int
      <4>1. End(x) \in 0 .. MaxBlock
        BY InputFacts
      <4>2. plan[x][pos[x]] \in 0 .. MaxBlock + 1
        BY <3>2
      <4>3. QED
        BY <4>1, <4>2 DEF From
    <3>4. Segment(x) = {}
      BY <3>1, <3>3 DEF Segment
    <3>5. QED
      BY <3>1, <3>2, <3>4, PassedExtended
  <2>4. CASE CommitCursor(x)
    <3>1. /\ pc[x] = "merging" /\ pos'[x] = pos[x] + 1 /\ pc'[x] = "loop"
      BY <2>4 DEF CommitCursor, NextFamily
    <3>2. pos[x] \in 1 .. Length(x) /\ Segment(x) \subseteq ledger[Family(x)]
      BY <3>1 DEF StagesHold, InStage, Persisted
    <3>3. QED
      BY <3>1, <3>2, PassedExtended
  <2>5. CASE Complete(x)
    <3>1. /\ pc[x] = "loop" /\ pc'[x] = "completed" /\ UNCHANGED <<pos, plan, input, ledger>>
          /\ pos[x] > Length(x)
      BY <2>5 DEF Complete
    <3>2. QED
      BY <3>1 DEF PassedHolds, PassedIsPersisted, Length, End
  <2>6. CASE \/ EnterStage(x) \/ Ingest(x) \/ PersistLedger(x) \/ OpenCursor(x)
             \/ AbortCursor(x) \/ OperatorRelease(x)
    <3>1. /\ UNCHANGED pos
          /\ pc'[x] \in Working \cup {"completed"} => pc[x] \in Working \cup {"completed"}
          /\ pc'[x] = "completed" => pc[x] = "completed"
      BY <2>6 DEF EnterStage, NextStage, Ingest, PersistLedger, OpenCursor, AbortCursor,
                  OperatorRelease
    <3>2. QED
      BY <3>1, PassedKept
  <2>7. QED
    BY <1>3, <2>1, <2>2, <2>3, <2>4, <2>5, <2>6 DEF Advance, Disturb
<1>4. QED
  BY <1>1, <1>2, <1>3 DEF Next

LEMMA FreshPositionStep ==
  ASSUME IInv, [Next]_vars
  PROVE  FreshPosition'
<1> SUFFICES ASSUME NEW x \in Syncs, pc'[x] \in {"idle", "planning"} PROVE pos'[x] = 1
  BY DEF FreshPosition
<1>1. CASE UNCHANGED vars
  BY <1>1 DEF IInv, FreshPosition, vars, local
<1>2. ASSUME NEW s \in Syncs, Reserve(s) \/ Advance(s) \/ Disturb(s), x # s
      PROVE  pos'[x] = 1
  BY <1>2, OthersUntouched DEF IInv, FreshPosition
<1>3. ASSUME Reserve(x) \/ Advance(x) \/ Disturb(x)
      PROVE  pos'[x] = 1
  <2>1. pc[x] \in {"idle", "planning"} /\ pos'[x] = pos[x]
    BY <1>3 DEF IInv, TypeOK, Goto, local, store, Reserve, Advance, ReadCursor,
                EnterTry, SkipFamily, EnterStage, NextStage, Ingest, PersistLedger,
                OpenCursor, CommitCursor, AbortCursor, Complete, RecordFailure, Disturb,
                RejectPlan, IngestFails, Throw, Crash, OperatorRelease
  <2>2. QED
    BY <2>1 DEF IInv, FreshPosition
<1>4. QED
  BY <1>1, <1>2, <1>3 DEF Next

(* The strengthened invariant is inductive.                                 *)
THEOREM Invariance == Spec => []IInv
<1>1. Init => IInv
  <2> SUFFICES ASSUME Init PROVE IInv
    OBVIOUS
  <2>1. TypeOK
    <3>1. \A s \in Syncs : 1 .. Len(input[s].families) \subseteq Positions
      <4>1. \A s \in Syncs : input[s] \in Inputs
        BY DEF Init
      <4>2. \A s \in Syncs : Len(input[s].families) \in 1 .. MaxLength
        BY <4>1, FamiliesAssumption DEF Inputs
      <4>3. \A n \in 1 .. MaxLength : 1 .. n \subseteq Positions
        BY BoundsAssumption DEF Positions
      <4>4. QED
        BY <4>2, <4>3
    <3>2. unread \in [Syncs -> SUBSET Positions]
      BY <3>1 DEF Init
    <3>3. plan \in [Syncs -> [Positions -> 0 .. MaxBlock + 1]]
      BY BoundsAssumption DEF Init
    <3>4. pos \in [Syncs -> 1 .. MaxLength + 1] /\ tries \in [Syncs -> 1 .. CursorAttempts]
      BY BoundsAssumption DEF Init
    <3>5. QED
      BY <3>2, <3>3, <3>4 DEF Init, TypeOK
  <2>2. UnreadInList /\ FreshPosition
    BY DEF Init, UnreadInList, FreshPosition, Length
  <2>3. StagesHold /\ PassedIsPersisted
    BY DEF Init, StagesHold, PassedIsPersisted, InStage, Ingested, Persisted, Working
  <2>4. WindowsOrdered /\ CursorSound /\ HashNamesHighWater
    BY DEF Init, WindowsOrdered, CursorSound, HashNamesHighWater, NoCursor
  <2>5. QED
    BY <2>1, <2>2, <2>3, <2>4 DEF IInv
<1>2. IInv /\ [Next]_vars => IInv'
  BY TypeOKStep, UnreadInListStep, FreshPositionStep, StagesHoldStep, WindowsOrderedStep,
     PassedStep, CursorPartsStep DEF IInv
<1>3. QED
  BY <1>1, <1>2, PTL DEF Spec

(* The type invariant of the pipeline.                                      *)
THEOREM TypeCorrect == Spec => []TypeOK
<1>1. IInv => TypeOK
  BY DEF IInv
<1>2. QED
  BY <1>1, Invariance, PTL

(* A cursor never claims a block that was not both ingested and persisted,  *)
(* whatever crashed, failed or overlapped (upsertCursor after persistLedger *)
(* in runWalletSync).                                                       *)
THEOREM CursorIsSound == Spec => []CursorSound
<1>1. IInv => CursorSound
  BY DEF IInv
<1>2. QED
  BY <1>1, Invariance, PTL

(* The hash of a cursor is that of its highest block (mergeCursorWindow).   *)
THEOREM HighWaterHash == Spec => []HashNamesHighWater
<1>1. IInv => HashNamesHighWater
  BY DEF IInv
<1>2. QED
  BY <1>1, Invariance, PTL

(* A COMPLETED sync has persisted the whole range it planned, for every     *)
(* family it was asked for.                                                 *)
THEOREM CompletedMeansPersisted == Spec => []CompletedIsPersisted
<1>1. ASSUME IInv, NEW s \in Syncs, pc[s] = "completed", NEW i \in 1 .. Length(s)
      PROVE  plan[s][i] .. End(s) \subseteq ledger[input[s].families[i]]
  <2>1. pos[s] > Length(s) /\ pos[s] \in Nat /\ Length(s) \in Nat
    BY <1>1, InputFacts DEF IInv, PassedIsPersisted, TypeOK
  <2>2. i < pos[s]
    BY <2>1
  <2>3. QED
    BY <1>1, <2>2 DEF IInv, PassedIsPersisted
<1>2. IInv => CompletedIsPersisted
  BY <1>1 DEF CompletedIsPersisted
<1>3. QED
  BY <1>2, Invariance, PTL

-----------------------------------------------------------------------------
(* The cursor read by a sync that leaves its start to it, and what it may   *)
(* therefore conclude about the cursor later on.                            *)
PlansReach ==
  \A s \in Syncs :
    input[s].start = NoStart =>
      /\ \A i \in 1 .. Length(s) :
           i \notin unread[s] => plan[s][i] <= cursor[input[s].families[i]].to + 1
      /\ pc[s] \in Working \cup {"completed"} => unread[s] = {}
      /\ pc[s] \in Working \cup {"completed"} =>
           \A i \in 1 .. Length(s) :
             i < pos[s] => cursor[input[s].families[i]].to >= End(s)
      /\ pc[s] = "merging" =>
           From(s) <= base[s].to + 1 /\ base[s].to <= cursor[Family(s)].to

(* The high-water mark of a cursor never moves back.                        *)
LEMMA HighWaterGrows ==
  ASSUME IInv, [Next]_vars, NEW f \in Families
  PROVE  cursor[f].to \in Int /\ cursor'[f].to \in Int /\ cursor[f].to <= cursor'[f].to
<1>1. /\ cursor[f] \in Windows \cup {NoCursor} /\ cursor'[f] \in Windows \cup {NoCursor}
      /\ cursor[f] = NoCursor \/ cursor[f].from <= cursor[f].to
      /\ cursor[f].from .. cursor[f].to \subseteq cursor'[f].from .. cursor'[f].to
  BY TypeOKStep, CursorPartsStep DEF IInv, TypeOK, WindowsOrdered
<1>2. cursor'[f].to \in Int /\ cursor'[f].to >= -1 /\ cursor[f].to \in Int
      /\ cursor[f].from \in Int /\ cursor'[f].from \in Int
  BY <1>1, BoundsAssumption DEF Windows, Blocks, NoCursor
<1>3. CASE cursor[f] = NoCursor
  BY <1>2, <1>3 DEF NoCursor
<1>4. CASE cursor[f].from <= cursor[f].to
  <2>1. cursor[f].to \in cursor[f].from .. cursor[f].to
    BY <1>2, <1>4
  <2>2. QED
    BY <1>1, <1>2, <2>1
<1>5. QED
  BY <1>1, <1>3, <1>4

(* A merge that starts no further than one past the row it read reaches the *)
(* end of its range.                                                        *)
LEMMA MergeReaches ==
  ASSUME NEW old \in Windows \cup {NoCursor}, NEW new \in Windows,
         old = NoCursor \/ old.from <= old.to, new.from <= new.to,
         new.from <= old.to + 1
  PROVE  MergeCursorWindow(old, new).to >= new.to
BY BoundsAssumption DEF Windows, Blocks, NoCursor, MergeCursorWindow, Disconnected

ReachHolds(s) ==
  /\ \A i \in 1 .. Length(s) :
       i \notin unread[s] => plan[s][i] <= cursor[input[s].families[i]].to + 1
  /\ pc[s] \in Working \cup {"completed"} => unread[s] = {}
  /\ pc[s] \in Working \cup {"completed"} =>
       \A i \in 1 .. Length(s) :
         i < pos[s] => cursor[input[s].families[i]].to >= End(s)
  /\ pc[s] = "merging" =>
       From(s) <= base[s].to + 1 /\ base[s].to <= cursor[Family(s)].to

(* Nothing but growing cursors happens to a sync that does not plan, move   *)
(* on or open a cursor transaction.                                         *)
LEMMA ReachKept ==
  ASSUME IInv, [Next]_vars, NEW x \in Syncs, ReachHolds(x),
         plan'[x] = plan[x], unread'[x] = unread[x],
         pc'[x] \in Working \cup {"completed"} =>
           pc[x] \in Working \cup {"completed"} /\ pos'[x] = pos[x],
         pc'[x] = "merging" => pc[x] = "merging" /\ base'[x] = base[x]
  PROVE  ReachHolds(x)'
<1>1. UNCHANGED <<Length(x), End(x), input>>
  BY OnlyGrows DEF Length, End
<1>2. ASSUME NEW i \in 1 .. Length(x)
      PROVE  LET f == input[x].families[i] IN
             /\ cursor[f].to <= cursor'[f].to
             /\ cursor[f].to \in Int /\ cursor'[f].to \in Int
             /\ plan[x][i] \in Int /\ End(x) \in Int
  <2>1. input[x].families[i] \in Families /\ i \in Positions /\ End(x) \in 0 .. MaxBlock
    BY InputFacts, BoundsAssumption DEF IInv, Positions
  <2>2. plan[x][i] \in 0 .. MaxBlock + 1
    BY <2>1 DEF IInv, TypeOK
  <2>3. QED
    BY <2>1, <2>2, HighWaterGrows
<1>3. \A i \in 1 .. Length(x) :
        i \notin unread'[x] => plan'[x][i] <= cursor'[input[x].families[i]].to + 1
  BY <1>2 DEF ReachHolds
<1>4. pc'[x] \in Working \cup {"completed"} =>
        /\ unread'[x] = {}
        /\ \A i \in 1 .. Length(x) :
             i < pos'[x] => cursor'[input[x].families[i]].to >= End(x)
  BY <1>2 DEF ReachHolds
<1>5. ASSUME pc'[x] = "merging"
      PROVE  From(x)' <= base'[x].to + 1 /\ base'[x].to <= cursor'[Family(x)'].to
  <2>1. pc[x] = "merging" /\ base'[x] = base[x] /\ pos'[x] = pos[x]
    BY <1>5 DEF Working
  <2>2. Family(x)' = Family(x) /\ From(x)' = From(x)
    BY <1>1, <2>1 DEF Family, From
  <2>3. pos[x] \in 1 .. Length(x) /\ base[x] \in Windows \cup {NoCursor}
    BY <2>1, MergedFacts DEF IInv, TypeOK
  <2>4. base[x].to \in Int
    BY <2>3, BoundsAssumption DEF Windows, Blocks, NoCursor
  <2>5. QED
    BY <1>2, <2>1, <2>2, <2>3, <2>4 DEF ReachHolds, Family
<1>6. QED
  BY <1>1, <1>3, <1>4, <1>5 DEF ReachHolds

(* Leaving behind a family whose cursor is now at the end of the range.     *)
LEMMA ReachExtended ==
  ASSUME IInv, [Next]_vars, NEW x \in Syncs, ReachHolds(x),
         pc[x] \in Working, pc'[x] # "merging", plan'[x] = plan[x],
         unread'[x] = unread[x], pos'[x] = pos[x] + 1,
         pos[x] \in 1 .. Length(x), cursor'[Family(x)].to >= End(x)
  PROVE  ReachHolds(x)'
<1>1. UNCHANGED <<Length(x), End(x), input>>
  BY OnlyGrows DEF Length, End
<1>2. ASSUME NEW i \in 1 .. Length(x)
      PROVE  LET f == input[x].families[i] IN
             /\ cursor[f].to <= cursor'[f].to
             /\ cursor[f].to \in Int /\ cursor'[f].to \in Int
             /\ plan[x][i] \in Int /\ End(x) \in Int
  <2>1. input[x].families[i] \in Families /\ i \in Positions /\ End(x) \in 0 .. MaxBlock
    BY InputFacts, BoundsAssumption DEF IInv, Positions
  <2>2. plan[x][i] \in 0 .. MaxBlock + 1
    BY <2>1 DEF IInv, TypeOK
  <2>3. QED
    BY <2>1, <2>2, HighWaterGrows
<1>3. \A i \in 1 .. Length(x) :
        i \notin unread'[x] => plan'[x][i] <= cursor'[input[x].families[i]].to + 1
  BY <1>2 DEF ReachHolds
<1>4. unread'[x] = {}
  BY DEF ReachHolds
<1>5. ASSUME NEW i \in 1 .. Length(x), i < pos'[x]
      PROVE  cursor'[input[x].families[i]].to >= End(x)
  <2>1. CASE i = pos[x]
    BY <2>1 DEF Family
  <2>2. CASE i < pos[x]
    BY <1>2, <2>2 DEF ReachHolds
  <2>3. QED
    BY <1>5, <2>1, <2>2, InputFacts DEF IInv
<1>6. QED
  BY <1>1, <1>3, <1>4, <1>5 DEF ReachHolds

LEMMA PlansReachStep ==
  ASSUME IInv, PlansReach, [Next]_vars
  PROVE  PlansReach'
<1> SUFFICES ASSUME NEW x \in Syncs, input[x].start = NoStart PROVE ReachHolds(x)'
  BY OnlyGrows DEF PlansReach, ReachHolds
<1>0. ReachHolds(x)
  BY DEF PlansReach, ReachHolds
<1> USE DEF Working
<1>1. CASE UNCHANGED vars
  BY <1>0, <1>1, ReachKept DEF vars, local
<1>2. ASSUME NEW s \in Syncs, Reserve(s) \/ Advance(s) \/ Disturb(s), x # s
      PROVE  ReachHolds(x)'
  <2>1. unread'[x] = unread[x]
    BY <1>2 DEF IInv, TypeOK, local, Reserve, Advance, ReadCursor, EnterTry, SkipFamily,
                EnterStage, Ingest, PersistLedger, OpenCursor, CommitCursor, AbortCursor,
                Complete, RecordFailure, Disturb, RejectPlan, IngestFails, Throw, Crash,
                OperatorRelease
  <2>2. QED
    BY <1>0, <1>2, <2>1, OthersUntouched, ReachKept
<1>3. ASSUME Reserve(x) \/ Advance(x) \/ Disturb(x)
      PROVE  ReachHolds(x)'
  <2> USE DEF Goto, local, store
  <2>0. pc \in [Syncs -> Live \cup Settled \cup {"idle"}] /\ pos \in [Syncs -> 1 .. MaxLength + 1]
        /\ base \in [Syncs -> Windows \cup {NoCursor}]
    BY DEF IInv, TypeOK
  <2>1. CASE \/ Reserve(x) \/ RecordFailure(x) \/ RejectPlan(x) \/ IngestFails(x)
             \/ Throw(x) \/ Crash(x)
    <3>1. /\ pc'[x] \notin Working \cup {"completed"} /\ pc'[x] # "merging"
          /\ UNCHANGED <<plan, unread>>
      BY <2>0, <2>1 DEF Reserve, RecordFailure, RejectPlan, IngestFails, Throw, Crash
    <3>2. QED
      BY <1>0, <3>1, ReachKept
  <2>2. ASSUME NEW i \in Positions, ReadCursor(x, i) PROVE ReachHolds(x)'
    <3>1. /\ UNCHANGED <<pc, cursor, input>> /\ pc[x] = "planning" /\ i \in unread[x]
          /\ unread'[x] = unread[x] \ {i}
          /\ \A j \in Positions : j # i => plan'[x][j] = plan[x][j]
          /\ LET seen == cursor[input[x].families[i]] IN
             plan'[x][i] = IF seen = NoCursor THEN 0 ELSE seen.to + 1
      BY <2>2 DEF IInv, TypeOK, ReadCursor
    <3>2. Length(x) \in 1 .. MaxLength /\ i \in 1 .. Length(x)
      BY <3>1, InputFacts DEF IInv, UnreadInList
    <3>3. plan'[x][i] <= cursor[input[x].families[i]].to + 1
      <4>1. input[x].families[i] \in Families
        BY <3>2, InputFacts DEF IInv
      <4>2. cursor[input[x].families[i]].to \in Int
        BY <4>1, HighWaterGrows
      <4>3. QED
        BY <3>1, <4>2 DEF NoCursor
    <3>4. \A j \in 1 .. Length(x) : j \in Positions
      BY <3>2, BoundsAssumption DEF Positions
    <3>5. \A j \in 1 .. Length(x) :
            j \notin unread'[x] => plan'[x][j] <= cursor[input[x].families[j]].to + 1
      BY <1>0, <3>1, <3>3, <3>4 DEF ReachHolds
    <3>6. QED
      BY <3>1, <3>5 DEF ReachHolds, Length
  <2>3. CASE EnterTry(x)
    <3>1. /\ UNCHANGED <<plan, unread, cursor, input, pos>> /\ pos[x] = 1 /\ unread[x] = {}
          /\ pc'[x] # "merging"
      BY <2>0, <2>3 DEF IInv, FreshPosition, EnterTry
    <3>2. QED
      BY <1>0, <3>1 DEF ReachHolds, Length
  <2>4. CASE SkipFamily(x)
    <3>1. /\ pc[x] = "loop" /\ pos[x] <= Length(x) /\ From(x) > End(x)
          /\ pos'[x] = pos[x] + 1 /\ UNCHANGED <<pc, plan, unread, cursor>>
      BY <2>0, <2>4 DEF SkipFamily, NextFamily
    <3>2. Length(x) \in 1 .. MaxLength /\ End(x) \in 0 .. MaxBlock
      BY InputFacts DEF IInv
    <3>3. pos[x] \in 1 .. Length(x) /\ pos[x] \in Positions
      BY <2>0, <3>1, <3>2, BoundsAssumption DEF Positions
    <3>4. From(x) <= cursor[Family(x)].to + 1
      BY <1>0, <3>1, <3>3 DEF ReachHolds, From, Family
    <3>5. cursor[Family(x)].to \in Int /\ From(x) \in 0 .. MaxBlock + 1
      <4>1. Family(x) \in Families
        BY <3>3, InputFacts DEF IInv, Family
      <4>2. From(x) \in 0 .. MaxBlock + 1
        BY <3>3 DEF IInv, TypeOK, From
      <4>3. QED
        BY <4>1, <4>2, HighWaterGrows
    <3>6. cursor'[Family(x)].to >= End(x)
      BY <3>1, <3>2, <3>4, <3>5
    <3>7. QED
      BY <1>0, <3>1, <3>3, <3>6, ReachExtended
  <2>5. CASE OpenCursor(x)
    <3>1. /\ pc[x] = "updating" /\ base'[x] = cursor[Family(x)]
          /\ UNCHANGED <<plan, unread, cursor, input, pos>>
      BY <2>0, <2>5 DEF OpenCursor
    <3>2. pos[x] \in 1 .. Length(x) /\ Family(x) \in Families
      BY <3>1, StageFacts DEF InStage
    <3>3. From(x) <= cursor[Family(x)].to + 1 /\ cursor[Family(x)].to \in Int
      BY <1>0, <3>1, <3>2, HighWaterGrows DEF ReachHolds, From, Family
    <3>4. QED
      BY <1>0, <3>1, <3>3 DEF ReachHolds, Length, From, Family, End
  <2>6. CASE CommitCursor(x)
    <3>1. /\ pc[x] = "merging" /\ pc'[x] = "loop" /\ pos'[x] = pos[x] + 1
          /\ UNCHANGED <<plan, unread>>
          /\ Merged(x) = base[x] \/ cursor[Family(x)] = base[x]
          /\ cursor' = [cursor EXCEPT ![Family(x)] =
                           IF Merged(x) = base[x] THEN @ ELSE Merged(x)]
      BY <2>0, <2>6 DEF CommitCursor, NextFamily
    <3>2. /\ pos[x] \in 1 .. Length(x) /\ Family(x) \in Families
          /\ Merged(x) \in Windows /\ From(x) \in Blocks /\ End(x) \in Blocks
          /\ From(x) <= End(x)
      BY <3>1, MergedFacts, StageFacts DEF InStage
    <3>3. From(x) <= base[x].to + 1 /\ base[x].to <= cursor[Family(x)].to
      BY <1>0, <3>1 DEF ReachHolds
    <3>4. Merged(x).to >= End(x)
      <4> DEFINE new == [from |-> From(x), to |-> End(x), hash |-> End(x)]
      <4>1. new \in Windows /\ new.from <= new.to /\ new.from <= base[x].to + 1
        BY <3>2, <3>3 DEF Windows
      <4>2. base[x] \in Windows \cup {NoCursor} /\ (base[x] = NoCursor \/ base[x].from <= base[x].to)
        BY <2>0 DEF IInv, WindowsOrdered
      <4>3. MergeCursorWindow(base[x], new).to >= new.to
        BY <4>1, <4>2, MergeReaches
      <4>4. QED
        BY <4>3 DEF Merged
    <3>5. cursor'[Family(x)].to >= End(x)
      <4>1. cursor'[Family(x)] = IF Merged(x) = base[x] THEN cursor[Family(x)] ELSE Merged(x)
        BY <3>1, <3>2 DEF IInv, TypeOK
      <4>2. cursor[Family(x)].to \in Int /\ End(x) \in Int /\ Merged(x).to \in Int
        BY <3>2, HighWaterGrows, BoundsAssumption DEF Blocks, Windows
      <4>3. QED
        BY <3>3, <3>4, <4>1, <4>2
    <3>6. QED
      BY <1>0, <3>1, <3>2, <3>5, ReachExtended
  <2>7. CASE \/ EnterStage(x) \/ Ingest(x) \/ PersistLedger(x) \/ Complete(x)
             \/ AbortCursor(x) \/ OperatorRelease(x)
    <3>1. /\ UNCHANGED <<plan, unread, pos, base>>
          /\ pc'[x] \in Working \cup {"completed"} => pc[x] \in Working \cup {"completed"}
          /\ pc'[x] = "merging" => pc[x] = "merging"
      BY <2>0, <2>7 DEF EnterStage, NextStage, Ingest, PersistLedger, Complete,
                        AbortCursor, OperatorRelease
    <3>2. QED
      BY <1>0, <3>1, ReachKept
  <2>8. QED
    BY <1>3, <2>1, <2>2, <2>3, <2>4, <2>5, <2>6, <2>7 DEF Advance, Disturb
<1>4. QED
  BY <1>1, <1>2, <1>3 DEF Next

(* A sync that resumed from the cursors and COMPLETED has brought every     *)
(* cursor it was asked for up to its end block: mergeCursorWindow dropped   *)
(* none of its ranges.                                                      *)
THEOREM CompletedMeansReached == Spec => []CompletedReachesEnd
<1>1. Init => PlansReach
  BY DEF Init, PlansReach, Length, Working
<1>2. IInv /\ PlansReach /\ [Next]_vars => PlansReach'
  BY PlansReachStep
<1>3. IInv /\ PlansReach => CompletedReachesEnd
  <2> SUFFICES ASSUME IInv, PlansReach, NEW s \in Syncs, pc[s] = "completed",
                      input[s].start = NoStart, NEW i \in 1 .. Length(s)
               PROVE  cursor[input[s].families[i]].to >= End(s)
    BY DEF CompletedReachesEnd
  <2>1. pos[s] > Length(s) /\ pos[s] \in Nat /\ Length(s) \in Nat
    BY InputFacts DEF IInv, PassedIsPersisted, TypeOK
  <2>2. i < pos[s]
    BY <2>1
  <2>3. QED
    BY <2>2 DEF PlansReach
<1>4. QED
  BY <1>1, <1>2, <1>3, Invariance, PTL DEF Spec

-----------------------------------------------------------------------------
Window(f) == cursor[f].from .. cursor[f].to

(* The ledger changes only when a sync persists the range it works on, and  *)
(* no cursor changes with it.                                               *)
LEMMA LedgerSteps ==
  ASSUME IInv, [Next]_vars
  PROVE  \/ UNCHANGED ledger
         \/ /\ UNCHANGED cursor
            /\ \E f \in Families, w \in Coverage!Segments :
                 ledger' = [ledger EXCEPT ![f] = @ \cup w]
<1>1. ASSUME NEW s \in Syncs, PersistLedger(s)
      PROVE  /\ UNCHANGED cursor
             /\ \E f \in Families, w \in Coverage!Segments :
                  ledger' = [ledger EXCEPT ![f] = @ \cup w]
  <2>1. pc[s] \in InStage
    BY <1>1 DEF PersistLedger, InStage
  <2>2. Family(s) \in Families /\ From(s) \in 0 .. MaxBlock /\ End(s) \in 0 .. MaxBlock
    BY <2>1, StageFacts DEF Blocks
  <2>3. Segment(s) \in Coverage!Segments
    BY <2>2 DEF Segment, Coverage!Segments
  <2>4. QED
    BY <1>1, <2>2, <2>3 DEF PersistLedger
<1>2. ASSUME NEW s \in Syncs, Reserve(s) \/ Advance(s) \/ Disturb(s), ~PersistLedger(s)
      PROVE  UNCHANGED ledger
  BY <1>2 DEF Reserve, Advance, ReadCursor, EnterTry, SkipFamily, EnterStage, Ingest,
              OpenCursor, CommitCursor, AbortCursor, Complete, RecordFailure, Disturb,
              RejectPlan, IngestFails, Throw, Crash, OperatorRelease, store
<1>3. UNCHANGED vars => UNCHANGED ledger
  BY DEF vars, store
<1>4. QED
  BY <1>1, <1>2, <1>3 DEF Next

(* A committed merge is an extension of the window within the ledger.       *)
LEMMA MergeExtends ==
  ASSUME IInv, NEW s \in Syncs, pc[s] = "merging", cursor[Family(s)] = base[s],
         NEW f \in Families, f = Family(s),
         NEW m \in Windows, m = Merged(s),
         cursor' = [cursor EXCEPT ![f] = m], UNCHANGED ledger
  PROVE  Coverage!Extend(f)
<1> DEFINE w == m.from .. m.to
<1>1. w \in Coverage!Segments
  BY DEF Windows, Blocks, Coverage!Segments
<1>2. Window(f) \subseteq w /\ w \subseteq Window(f) \cup Segment(s)
  BY MergedFacts DEF Window
<1>3. Window(f) \subseteq ledger[f] /\ Segment(s) \subseteq ledger[f]
  BY DEF IInv, CursorSound, StagesHold, Persisted, Window
<1>4. cursor'[f] = m /\ \A g \in Families : g # f => cursor'[g] = cursor[g]
  BY DEF IInv, TypeOK
<1>5. [g \in Families |-> cursor[g].from .. cursor[g].to]' =
        [[g \in Families |-> cursor[g].from .. cursor[g].to] EXCEPT ![f] = w]
  BY <1>4
<1>6. QED
  BY <1>1, <1>2, <1>3, <1>5 DEF Coverage!Extend, Window

(* The pipeline with its overlapping syncs, failures and crashes implements *)
(* the promise of a sync cursor: one growing window inside the ledger.      *)
THEOREM Refinement == Spec => ImplementsCoverage
<1>1. Init => Coverage!CovInit
  <2> SUFFICES ASSUME Init PROVE Coverage!CovInit
    OBVIOUS
  <2>1. \A f \in Families : cursor[f].from .. cursor[f].to = {}
    BY DEF Init, NoCursor
  <2>2. QED
    BY <2>1 DEF Init, Coverage!CovInit
<1>2. IInv /\ [Next]_vars => [Coverage!CovNext]_(Coverage!covVars)
  <2> SUFFICES ASSUME IInv, [Next]_vars PROVE [Coverage!CovNext]_(Coverage!covVars)
    OBVIOUS
  <2>1. CASE UNCHANGED ledger /\ UNCHANGED cursor
    BY <2>1 DEF Coverage!covVars
  <2>2. CASE UNCHANGED ledger /\ cursor' # cursor
    BY <2>2, CursorSteps, MergedFacts, MergeExtends DEF Coverage!CovNext
  <2>3. CASE ledger' # ledger
    BY <2>3, LedgerSteps DEF Coverage!CovNext, Coverage!Persist
  <2>4. QED
    BY <2>1, <2>2, <2>3
<1>3. QED
  BY <1>1, <1>2, Invariance, PTL DEF Spec, ImplementsCoverage, Coverage!CovSpec
=============================================================================
