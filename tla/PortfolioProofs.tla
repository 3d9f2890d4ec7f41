-------------------------- MODULE PortfolioProofs --------------------------
(***************************************************************************)
(* For any actions, ledgers, prices and length of time: the row never says *)
(* that the positions are newer than they are, and a wallet is called      *)
(* materialized only if its positions were those of its ledger at some     *)
(* moment while the two rows were read.  A profit and loss that is called  *)
(* available holds what the balance holds, and a balance differs from what *)
(* the transactions moved by the penalties of stakes alone.                *)
(*                                                                         *)
(* Sums over sets and the walk over the groups are inductions over data:   *)
(* each takes a least counterexample, a set with no smaller one inside it  *)
(* or the first group that goes wrong, and shows it is none.               *)
(***************************************************************************)
EXTENDS Portfolio, TLAPS, FiniteSetTheorems, WellFoundedInduction

Groups == SUBSET DOMAIN ActionGroups
Times  == 0 .. MaxClock
MaterialRows == [status : {"none", "COMPLETED", "FAILED"}, at : Times, warned : BOOLEAN]
RunRows == [status : {"none", "RUNNING", "COMPLETED", "FAILED"}, at : Times,
            warned : BOOLEAN]
Stages == {"idle", "syncing", "rebuilding", "reading", "committing", "stating",
           "finishing", "failing"}
Looks == [read : {"nothing", "run", "material", "both"}, run : RunRows,
          material : MaterialRows, status : Statuses \cup {"none"}, current : BOOLEAN]

Typed ==
  /\ ledger \in Groups
  /\ positions \in [from : Groups, at : Times]
  /\ material \in MaterialRows
  /\ run \in RunRows
  /\ job \in [pc : Stages, from : Groups, at : Times]
  /\ clock \in Times
  /\ look \in Looks

(* No row is of the future, and the process of an active run knows when the *)
(* positions it is about to state were committed.                           *)
InTime ==
  /\ run.at <= clock /\ material.at <= clock /\ positions.at <= clock
  /\ look.material.at <= clock
  /\ job.pc = "stating" => job.at = positions.at

(* What the stage of the process says of the ledger and the positions.      *)
StageHolds ==
  /\ job.pc # "idle" => run.status = "RUNNING"
  /\ job.pc \in {"committing", "stating"} => job.from = ledger
  /\ job.pc \in {"stating", "finishing"} => Current
  /\ job.pc \notin {"idle", "finishing"} => material.at <= run.at

(* What the row of the latest run says of them.                             *)
RunHolds ==
  /\ run.status = "none" => Current
  /\ run.status = "COMPLETED" /\ run.at <= material.at => Current

(* A derivation has read one row, and the positions have not been those of  *)
(* the ledger since.                                                        *)
Stale(row) == look.read = row /\ ~look.current

LookHolds ==
  /\ look.read \in {"run", "material"} /\ Current => look.current
  /\ Stale("run") =>
       /\ look.run.status # "none"
       /\ look.run.status = "COMPLETED" => material.at < look.run.at
  /\ Stale("material") =>
       /\ run.status # "none"
       /\ run.status = "COMPLETED" => look.material.at < run.at
       /\ job.pc # "idle" => look.material.at <= run.at
  /\ look.read \in {"run", "material"} => look.status = "none"

PortfolioInv ==
  /\ Typed /\ InTime /\ StageHolds /\ RunHolds /\ LookHolds
  /\ NeverOlderThanClaimed /\ MaterializedIsCurrent

-----------------------------------------------------------------------------
LEMMA Warnings == \A gs : WarnedOf(gs) \in BOOLEAN
BY DEF WarnedOf

LEMMA LedgersAreGroups == Ledgers \subseteq Groups
BY PortfolioAssumption DEF Groups

LEMMA TimesAreNatural == /\ 0 \in Times /\ Times \subseteq Nat
                         /\ \A t \in Times : t < MaxClock => t + 1 \in Times
BY PortfolioAssumption DEF Times

LEMMA RowTimes ==
  ASSUME Typed
  PROVE  /\ clock \in Nat /\ run.at \in Nat /\ material.at \in Nat /\ positions.at \in Nat
         /\ look.material.at \in Nat /\ look.run.at \in Nat
<1>1. /\ clock \in Times /\ run.at \in Times /\ material.at \in Times
      /\ positions.at \in Times
  BY DEF Typed, RunRows, MaterialRows
<1>2. look.material.at \in Times /\ look.run.at \in Times
  BY DEF Typed, Looks, RunRows, MaterialRows
<1>3. QED
  BY <1>1, <1>2, TimesAreNatural

(* What a derivation under way makes of a step.                             *)
LEMMA WatchedFacts ==
  ASSUME Typed, Watched
  PROVE  /\ look' \in Looks
         /\ look'.read = look.read /\ look'.run = look.run
         /\ look'.material = look.material /\ look'.status = look.status
         /\ look.current => look'.current
         /\ look.read \in {"run", "material"} /\ Current' => look'.current
         /\ look.read \notin {"run", "material"} => look' = look
<1>1. look \in Looks /\ Current' \in BOOLEAN
  BY DEF Typed, Current
<1>2. CASE look.read \in {"run", "material"}
  <2>1. look' = [look EXCEPT !.current = look.current \/ Current']
    BY <1>2 DEF Watched
  <2>2. QED
    BY <1>1, <1>2, <2>1 DEF Looks
<1>3. CASE look.read \notin {"run", "material"}
  BY <1>1, <1>3 DEF Watched
<1>4. QED
  BY <1>2, <1>3

LEMMA InitInvariant == PortfolioInit => PortfolioInv
<1> SUFFICES ASSUME PortfolioInit PROVE PortfolioInv
  OBVIOUS
<1>1. Typed
  <2>1. NoRun \in RunRows /\ NoMaterial \in MaterialRows /\ {} \in Groups
    BY TimesAreNatural DEF NoRun, NoMaterial, RunRows, MaterialRows, Groups
  <2>2. look \in Looks /\ run \in RunRows /\ clock \in Times
    BY <2>1, TimesAreNatural DEF PortfolioInit, NoLook, Looks
  <2>3. job \in [pc : Stages, from : Groups, at : Times]
    BY <2>1, TimesAreNatural DEF PortfolioInit, IdleJob, Stages
  <2>4. ledger \in Groups /\ positions \in [from : Groups, at : Times]
    BY <2>1, TimesAreNatural, LedgersAreGroups DEF PortfolioInit
  <2>5. material \in MaterialRows
    BY <2>1, TimesAreNatural, Warnings DEF PortfolioInit, MaterialRows
  <2>6. QED
    BY <2>2, <2>3, <2>4, <2>5 DEF Typed
<1>2. InTime /\ StageHolds /\ RunHolds /\ NeverOlderThanClaimed
  BY DEF PortfolioInit, InTime, StageHolds, RunHolds, NeverOlderThanClaimed, NoRun, IdleJob,
         NoLook, NoMaterial, Current
<1>3. LookHolds /\ MaterializedIsCurrent
  BY DEF PortfolioInit, LookHolds, Stale, MaterializedIsCurrent, NoLook
<1>4. QED
  BY <1>1, <1>2, <1>3 DEF PortfolioInv

(* A run that is reserved: no process was at work, and no row is later.     *)
LEMMA ReserveKeeps ==
  ASSUME PortfolioInv, Watched, NEW pc \in {"syncing", "rebuilding"}, Reserve(pc)
  PROVE  PortfolioInv'
<1>1. Typed'
  BY WatchedFacts, TimesAreNatural DEF PortfolioInv, Typed, Reserve, RunRows, IdleJob, Stages,
                                       Groups
<1>2. /\ job.pc = "idle" /\ job'.pc = pc
      /\ run'.status = "RUNNING" /\ run'.at = clock
      /\ UNCHANGED <<ledger, positions, material, clock>>
  BY DEF Reserve, IdleJob
<1>3. InTime' /\ StageHolds' /\ RunHolds' /\ NeverOlderThanClaimed'
  BY <1>2, WatchedFacts, TimesAreNatural
    DEF PortfolioInv, InTime, StageHolds, RunHolds, NeverOlderThanClaimed, Current, Typed
<1>4. LookHolds' /\ MaterializedIsCurrent'
  BY <1>2, WatchedFacts, TimesAreNatural
    DEF PortfolioInv, InTime, LookHolds, Stale, MaterializedIsCurrent, Current, Typed
<1>5. QED
  BY <1>1, <1>3, <1>4 DEF PortfolioInv

(* Only a run that is at work changes the ledger, and none has stated it yet.*)
LEMMA ChangeLedgerKeeps ==
  ASSUME PortfolioInv, Watched, ChangeLedger
  PROVE  PortfolioInv'
<1>1. Typed'
  BY WatchedFacts, TimesAreNatural, Warnings, LedgersAreGroups
    DEF PortfolioInv, Typed, ChangeLedger
<1>2. /\ job.pc \in {"syncing", "rebuilding"}
      /\ UNCHANGED <<positions, material, run, job, clock>>
  BY DEF ChangeLedger
<1>3. InTime' /\ StageHolds' /\ RunHolds' /\ NeverOlderThanClaimed'
  BY <1>2, WatchedFacts, TimesAreNatural
    DEF PortfolioInv, InTime, StageHolds, RunHolds, NeverOlderThanClaimed, Current, Typed,
        RunRows, MaterialRows
<1>4. LookHolds' /\ MaterializedIsCurrent'
  BY <1>2, WatchedFacts, TimesAreNatural
    DEF PortfolioInv, InTime, StageHolds, RunHolds, LookHolds, Stale, MaterializedIsCurrent,
        Current, Typed,
        RunRows, MaterialRows, Looks
<1>5. QED
  BY <1>1, <1>3, <1>4 DEF PortfolioInv

(* A stage of the rebuild that reads nothing yet.                         *)
LEMMA LedgerRebuiltKeeps ==
  ASSUME PortfolioInv, Watched, LedgerRebuilt
  PROVE  PortfolioInv'
<1>1. Typed'
  BY WatchedFacts, TimesAreNatural, Warnings, LedgersAreGroups
    DEF PortfolioInv, Typed, LedgerRebuilt, Stages
<1>2. /\ job.pc = "rebuilding" /\ job' = [job EXCEPT !.pc = "reading"]
      /\ UNCHANGED <<ledger, positions, material, run, clock>>
  BY DEF LedgerRebuilt
<1>3. InTime' /\ StageHolds' /\ RunHolds' /\ NeverOlderThanClaimed'
  BY <1>2, WatchedFacts, TimesAreNatural
    DEF PortfolioInv, InTime, StageHolds, RunHolds, NeverOlderThanClaimed, Current, Typed,
        RunRows, MaterialRows
<1>4. LookHolds' /\ MaterializedIsCurrent'
  BY <1>2, WatchedFacts, TimesAreNatural
    DEF PortfolioInv, InTime, StageHolds, RunHolds, LookHolds, Stale, MaterializedIsCurrent,
        Current, Typed,
        RunRows, MaterialRows, Looks
<1>5. QED
  BY <1>1, <1>3, <1>4 DEF PortfolioInv

(* The entries read are those of the ledger, which stays.                 *)
LEMMA ReadEntriesKeeps ==
  ASSUME PortfolioInv, Watched, ReadEntries
  PROVE  PortfolioInv'
<1>1. Typed'
  BY WatchedFacts, TimesAreNatural, Warnings, LedgersAreGroups
    DEF PortfolioInv, Typed, ReadEntries, Stages
<1>2. /\ job.pc = "reading" /\ job' = [job EXCEPT !.pc = "committing", !.from = ledger]
      /\ UNCHANGED <<ledger, positions, material, run, clock>>
  BY DEF ReadEntries
<1>3. InTime' /\ StageHolds' /\ RunHolds' /\ NeverOlderThanClaimed'
  BY <1>2, WatchedFacts, TimesAreNatural
    DEF PortfolioInv, InTime, StageHolds, RunHolds, NeverOlderThanClaimed, Current, Typed,
        RunRows, MaterialRows
<1>4. LookHolds' /\ MaterializedIsCurrent'
  BY <1>2, WatchedFacts, TimesAreNatural
    DEF PortfolioInv, InTime, StageHolds, RunHolds, LookHolds, Stale, MaterializedIsCurrent,
        Current, Typed,
        RunRows, MaterialRows, Looks
<1>5. QED
  BY <1>1, <1>3, <1>4 DEF PortfolioInv

(* From here on the positions are those of the ledger.                    *)
LEMMA ReplacePositionsKeeps ==
  ASSUME PortfolioInv, Watched, ReplacePositions
  PROVE  PortfolioInv'
<1>1. Typed'
  BY WatchedFacts, TimesAreNatural, Warnings, LedgersAreGroups
    DEF PortfolioInv, Typed, ReplacePositions, Stages
<1>2. /\ job.pc = "committing"
      /\ positions' = [from |-> job.from, at |-> clock]
      /\ job' = [job EXCEPT !.pc = "stating", !.at = clock]
      /\ UNCHANGED <<ledger, material, run, clock>>
  BY DEF ReplacePositions
<1>3. InTime' /\ StageHolds' /\ RunHolds' /\ NeverOlderThanClaimed'
  BY <1>2, WatchedFacts, TimesAreNatural
    DEF PortfolioInv, InTime, StageHolds, RunHolds, NeverOlderThanClaimed, Current, Typed,
        RunRows, MaterialRows
<1>4. LookHolds' /\ MaterializedIsCurrent'
  BY <1>2, WatchedFacts, TimesAreNatural
    DEF PortfolioInv, InTime, StageHolds, RunHolds, LookHolds, Stale, MaterializedIsCurrent,
        Current, Typed,
        RunRows, MaterialRows, Looks
<1>5. QED
  BY <1>1, <1>3, <1>4 DEF PortfolioInv

(* The row takes the time at which the positions were committed.          *)
LEMMA PersistCompletedKeeps ==
  ASSUME PortfolioInv, Watched, PersistCompleted
  PROVE  PortfolioInv'
<1>1. Typed'
  BY WatchedFacts, TimesAreNatural, Warnings, LedgersAreGroups
    DEF PortfolioInv, Typed, PersistCompleted, Stages, MaterialRows
<1>2. /\ job.pc = "stating" /\ job' = [job EXCEPT !.pc = "finishing"]
      /\ material'.at = job.at
      /\ UNCHANGED <<ledger, positions, run, clock>>
  BY DEF PersistCompleted
<1>3. InTime' /\ StageHolds' /\ RunHolds' /\ NeverOlderThanClaimed'
  BY <1>2, WatchedFacts, TimesAreNatural
    DEF PortfolioInv, InTime, StageHolds, RunHolds, NeverOlderThanClaimed, Current, Typed,
        RunRows, MaterialRows
<1>4. LookHolds' /\ MaterializedIsCurrent'
  BY <1>2, WatchedFacts, TimesAreNatural
    DEF PortfolioInv, InTime, StageHolds, RunHolds, LookHolds, Stale, MaterializedIsCurrent,
        Current, Typed,
        RunRows, MaterialRows, Looks
<1>5. QED
  BY <1>1, <1>3, <1>4 DEF PortfolioInv

(* The row keeps the time of the last success.                            *)
LEMMA PersistFailedKeeps ==
  ASSUME PortfolioInv, Watched, PersistFailed
  PROVE  PortfolioInv'
<1>1. Typed'
  BY WatchedFacts, TimesAreNatural, Warnings, LedgersAreGroups
    DEF PortfolioInv, Typed, PersistFailed, Stages, MaterialRows
<1>2. /\ job.pc \in {"committing", "stating"} /\ job' = [job EXCEPT !.pc = "failing"]
      /\ material'.at = material.at
      /\ UNCHANGED <<ledger, positions, run, clock>>
  BY DEF PersistFailed, PortfolioInv, Typed, MaterialRows
<1>3. InTime' /\ StageHolds' /\ RunHolds' /\ NeverOlderThanClaimed'
  BY <1>2, WatchedFacts, TimesAreNatural
    DEF PortfolioInv, InTime, StageHolds, RunHolds, NeverOlderThanClaimed, Current, Typed,
        RunRows, MaterialRows
<1>4. LookHolds' /\ MaterializedIsCurrent'
  BY <1>2, WatchedFacts, TimesAreNatural
    DEF PortfolioInv, InTime, StageHolds, RunHolds, LookHolds, Stale, MaterializedIsCurrent,
        Current, Typed,
        RunRows, MaterialRows, Looks
<1>5. QED
  BY <1>1, <1>3, <1>4 DEF PortfolioInv

(* A run completes after the instant it began in.                         *)
LEMMA FinishKeeps ==
  ASSUME PortfolioInv, Watched, NEW warned \in BOOLEAN, job.pc \in {"syncing", "finishing"},
         Finish(warned)
  PROVE  PortfolioInv'
<1>1. Typed'
  BY WatchedFacts, TimesAreNatural, Warnings, LedgersAreGroups
    DEF PortfolioInv, Typed, Finish, Stages, RunRows, IdleJob, Groups
<1>2. /\ run.at < clock /\ run'.status = "COMPLETED" /\ run'.at = clock
      /\ job'.pc = "idle"
      /\ UNCHANGED <<ledger, positions, material, clock>>
  BY DEF Finish, IdleJob
<1>3. /\ run.at \in Nat /\ clock \in Nat /\ material.at \in Nat /\ positions.at \in Nat
      /\ run'.at \in Nat /\ look.material.at \in Nat /\ look.run.at \in Nat
  BY <1>2, RowTimes DEF PortfolioInv
<1>4. Current' <=> Current
  BY <1>2 DEF Current
<1>5. Current \/ material.at < run'.at
  <2>1. CASE job.pc = "finishing"
    BY <2>1 DEF PortfolioInv, StageHolds
  <2>2. CASE job.pc = "syncing"
    BY <1>2, <1>3, <2>2 DEF PortfolioInv, StageHolds
  <2>3. QED
    BY <2>1, <2>2
<1>6. InTime' /\ StageHolds' /\ RunHolds' /\ NeverOlderThanClaimed'
  BY <1>2, <1>3, <1>4, <1>5, WatchedFacts
    DEF PortfolioInv, InTime, StageHolds, RunHolds, NeverOlderThanClaimed
<1>7. Stale("material")' => look'.material.at < run'.at
  <2>1. CASE job.pc = "finishing"
    BY <1>4, <2>1, WatchedFacts DEF PortfolioInv, StageHolds, LookHolds, Stale
  <2>2. CASE job.pc = "syncing"
    BY <1>2, <1>3, <2>2, WatchedFacts DEF PortfolioInv, LookHolds, Stale
  <2>3. QED
    BY <2>1, <2>2
<1>8. LookHolds' /\ MaterializedIsCurrent'
  BY <1>2, <1>3, <1>4, <1>7, WatchedFacts
    DEF PortfolioInv, LookHolds, Stale, MaterializedIsCurrent
<1>9. QED
  BY <1>1, <1>6, <1>8 DEF PortfolioInv

(* A failed run says nothing of the positions.                            *)
LEMMA FailRunKeeps ==
  ASSUME PortfolioInv, Watched, FailRun
  PROVE  PortfolioInv'
<1>1. Typed'
  BY WatchedFacts, TimesAreNatural, Warnings, LedgersAreGroups
    DEF PortfolioInv, Typed, FailRun, Stages, RunRows, IdleJob, Groups
<1>2. /\ run'.status = "FAILED" /\ run'.at = clock /\ job'.pc = "idle"
      /\ UNCHANGED <<ledger, positions, material, clock>>
  BY DEF FailRun, IdleJob, PortfolioInv, Typed, RunRows
<1>3. InTime' /\ StageHolds' /\ RunHolds' /\ NeverOlderThanClaimed'
  BY <1>2, WatchedFacts, TimesAreNatural
    DEF PortfolioInv, InTime, StageHolds, RunHolds, NeverOlderThanClaimed, Current, Typed,
        RunRows, MaterialRows
<1>4. LookHolds' /\ MaterializedIsCurrent'
  BY <1>2, WatchedFacts, TimesAreNatural
    DEF PortfolioInv, InTime, StageHolds, RunHolds, LookHolds, Stale, MaterializedIsCurrent,
        Current, Typed,
        RunRows, MaterialRows, Looks
<1>5. QED
  BY <1>1, <1>3, <1>4 DEF PortfolioInv

(* A process that dies leaves its run active.                             *)
LEMMA DieKeeps ==
  ASSUME PortfolioInv, Watched, Die
  PROVE  PortfolioInv'
<1>1. Typed'
  BY WatchedFacts, TimesAreNatural, Warnings, LedgersAreGroups
    DEF PortfolioInv, Typed, Die, Stages, IdleJob, Groups
<1>2. /\ job.pc # "idle" /\ job'.pc = "idle"
      /\ UNCHANGED <<ledger, positions, material, run, clock>>
  BY DEF Die, IdleJob
<1>3. InTime' /\ StageHolds' /\ RunHolds' /\ NeverOlderThanClaimed'
  BY <1>2, WatchedFacts, TimesAreNatural
    DEF PortfolioInv, InTime, StageHolds, RunHolds, NeverOlderThanClaimed, Current, Typed,
        RunRows, MaterialRows
<1>4. LookHolds' /\ MaterializedIsCurrent'
  BY <1>2, WatchedFacts, TimesAreNatural
    DEF PortfolioInv, InTime, StageHolds, RunHolds, LookHolds, Stale, MaterializedIsCurrent,
        Current, Typed,
        RunRows, MaterialRows, Looks
<1>5. QED
  BY <1>1, <1>3, <1>4 DEF PortfolioInv

(* A run that is released has failed.                                     *)
LEMMA ReleaseKeeps ==
  ASSUME PortfolioInv, Watched, Release
  PROVE  PortfolioInv'
<1>1. Typed'
  BY WatchedFacts, TimesAreNatural, Warnings, LedgersAreGroups
    DEF PortfolioInv, Typed, Release, RunRows
<1>2. /\ job.pc = "idle" /\ run'.status = "FAILED" /\ run'.at = clock
      /\ UNCHANGED <<ledger, positions, material, job, clock>>
  BY DEF Release, PortfolioInv, Typed, RunRows
<1>3. InTime' /\ StageHolds' /\ RunHolds' /\ NeverOlderThanClaimed'
  BY <1>2, WatchedFacts, TimesAreNatural
    DEF PortfolioInv, InTime, StageHolds, RunHolds, NeverOlderThanClaimed, Current, Typed,
        RunRows, MaterialRows
<1>4. LookHolds' /\ MaterializedIsCurrent'
  BY <1>2, WatchedFacts, TimesAreNatural
    DEF PortfolioInv, InTime, StageHolds, RunHolds, LookHolds, Stale, MaterializedIsCurrent,
        Current, Typed,
        RunRows, MaterialRows, Looks
<1>5. QED
  BY <1>1, <1>3, <1>4 DEF PortfolioInv

-----------------------------------------------------------------------------
LEMMA TickKeeps ==
  ASSUME PortfolioInv, Tick
  PROVE  PortfolioInv'
<1>1. clock' = clock + 1 /\ UNCHANGED <<ledger, positions, material, run, job, look>>
  BY DEF Tick
<1>2. Typed'
  BY <1>1, TimesAreNatural DEF PortfolioInv, Typed, Tick
<1>3. InTime'
  BY <1>1, RowTimes DEF PortfolioInv, InTime
<1>4. StageHolds' /\ RunHolds' /\ NeverOlderThanClaimed' /\ LookHolds' /\ MaterializedIsCurrent'
  BY <1>1 DEF PortfolioInv, StageHolds, RunHolds, NeverOlderThanClaimed, LookHolds, Stale,
              MaterializedIsCurrent, Current
<1>5. QED
  BY <1>2, <1>3, <1>4 DEF PortfolioInv

(* The first row read, with the positions as they are.                      *)
LEMMA LookFirstKeeps ==
  ASSUME PortfolioInv, NEW row \in {"run", "material"}, LookFirst(row)
  PROVE  PortfolioInv'
<1>1. UNCHANGED <<ledger, positions, material, run, job, clock>>
  BY DEF LookFirst
<1>2. /\ look'.read = row /\ look'.status = "none" /\ (look'.current <=> Current)
      /\ row = "run" => look'.run = run /\ look'.material = NoMaterial
      /\ row = "material" => look'.material = material /\ look'.run = NoRun
  BY DEF LookFirst, NoLook, NoMaterial, NoRun, Current
<1>3. Typed'
  <2>1. NoRun \in RunRows /\ NoMaterial \in MaterialRows /\ Current \in BOOLEAN
    BY TimesAreNatural DEF NoRun, NoMaterial, RunRows, MaterialRows, Current
  <2>2. look' \in Looks
    BY <2>1 DEF PortfolioInv, Typed, LookFirst, NoLook, Looks
  <2>3. QED
    BY <1>1, <2>2 DEF PortfolioInv, Typed
<1>4. InTime' /\ StageHolds' /\ RunHolds' /\ NeverOlderThanClaimed'
  BY <1>1, <1>2, TimesAreNatural
    DEF PortfolioInv, Typed, InTime, StageHolds, RunHolds, NeverOlderThanClaimed, Current,
        NoMaterial
<1>5. LookHolds' /\ MaterializedIsCurrent'
  BY <1>1, <1>2, TimesAreNatural
    DEF PortfolioInv, Typed, StageHolds, RunHolds, LookHolds, Stale, MaterializedIsCurrent, Current,
        RunRows, MaterialRows
<1>6. QED
  BY <1>3, <1>4, <1>5 DEF PortfolioInv

(* What must have been read for a wallet to be called materialized.         *)
LEMMA DerivedMaterialized ==
  ASSUME NEW r \in RunRows, NEW m \in MaterialRows,
         Derive(r, m) = "CANONICAL_STATE_MATERIALIZED"
  PROVE  r.status = "none" \/ (r.status = "COMPLETED" /\ r.at <= m.at)
<1>1. r.status \notin {"RUNNING", "FAILED"}
  BY DEF Derive
<1>2. ~(r.status = "COMPLETED" /\ m.at < r.at)
  BY DEF Derive
<1>3. r.at \in Times /\ m.at \in Times
  BY DEF RunRows, MaterialRows
<1>4. r.at \in Nat /\ m.at \in Nat
  BY <1>3, TimesAreNatural
<1>5. r.status \in {"none", "RUNNING", "COMPLETED", "FAILED"}
  BY DEF RunRows
<1>6. QED
  BY <1>1, <1>2, <1>4, <1>5

LEMMA DerivedStatus ==
  ASSUME NEW r \in RunRows, NEW m \in MaterialRows
  PROVE  Derive(r, m) \in Statuses
BY DEF Derive, Statuses

LEMMA LookAgainKeeps ==
  ASSUME PortfolioInv, LookAgain
  PROVE  PortfolioInv'
<1> DEFINE status == IF look.read = "run" THEN Derive(look.run, material)
                     ELSE Derive(run, look.material)
<1>1. UNCHANGED <<ledger, positions, material, run, job, clock>>
  BY DEF LookAgain
<1>2. /\ look.read \in {"run", "material"}
      /\ look' = [NoLook EXCEPT !.read = "both", !.status = status,
                                !.current = look.current]
  BY DEF LookAgain
<1>3. /\ look'.read = "both" /\ look'.status = status /\ look'.current = look.current
      /\ look'.run = NoRun /\ look'.material = NoMaterial
  BY <1>2 DEF NoLook
<1>4. run \in RunRows /\ material \in MaterialRows /\ look \in Looks
  BY DEF PortfolioInv, Typed
<1>5. look.run \in RunRows /\ look.material \in MaterialRows /\ look.current \in BOOLEAN
  BY <1>4 DEF Looks
<1>6. status \in Statuses
  BY <1>4, <1>5, DerivedStatus
<1>7. Typed'
  <2>1. NoRun \in RunRows /\ NoMaterial \in MaterialRows
    BY TimesAreNatural DEF NoRun, NoMaterial, RunRows, MaterialRows
  <2>2. look' \in Looks
    <3> HIDE DEF status
    <3> QED
      BY <1>2, <1>5, <1>6, <2>1 DEF NoLook, Looks
  <2>3. QED
    BY <1>1, <2>2 DEF PortfolioInv, Typed
<1>8. InTime' /\ StageHolds' /\ RunHolds' /\ NeverOlderThanClaimed'
  BY <1>1, <1>3, TimesAreNatural
    DEF PortfolioInv, Typed, InTime, StageHolds, RunHolds, NeverOlderThanClaimed, Current,
        NoMaterial
<1>9. LookHolds'
  BY <1>3 DEF LookHolds, Stale
<1>10. MaterializedIsCurrent'
  <2> SUFFICES ASSUME status = "CANONICAL_STATE_MATERIALIZED", ~look.current
               PROVE  FALSE
    BY <1>3, <1>5 DEF MaterializedIsCurrent
  <2>1. CASE look.read = "run"
    <3>1. \/ look.run.status = "none"
          \/ look.run.status = "COMPLETED" /\ look.run.at <= material.at
      BY <1>4, <1>5, <2>1, DerivedMaterialized
    <3>2. QED
      BY <1>4, <1>5, <2>1, <3>1, RowTimes DEF PortfolioInv, LookHolds, Stale
  <2>2. CASE look.read = "material"
    <3>1. run.status = "none" \/ (run.status = "COMPLETED" /\ run.at <= look.material.at)
      BY <1>4, <1>5, <2>2, DerivedMaterialized
    <3>2. QED
      BY <1>4, <1>5, <2>2, <3>1, RowTimes DEF PortfolioInv, LookHolds, Stale
  <2>3. QED
    BY <1>2, <2>1, <2>2
<1>11. QED
  BY <1>7, <1>8, <1>9, <1>10 DEF PortfolioInv

-----------------------------------------------------------------------------
LEMMA NextInvariant == PortfolioInv /\ [PortfolioNext]_portfolioVars => PortfolioInv'
<1> SUFFICES ASSUME PortfolioInv, [PortfolioNext]_portfolioVars PROVE PortfolioInv'
  OBVIOUS
<1>1. CASE RunStep /\ Watched
  <2>1. CASE StartSync \/ StartRebuild
    BY <1>1, <2>1, ReserveKeeps DEF StartSync, StartRebuild
  <2>2. CASE ChangeLedger \/ LedgerRebuilt \/ ReadEntries \/ ReplacePositions
    BY <1>1, <2>2, ChangeLedgerKeeps, LedgerRebuiltKeeps, ReadEntriesKeeps,
       ReplacePositionsKeeps
  <2>3. CASE PersistCompleted \/ PersistFailed \/ FailRun \/ Die \/ Release
    BY <1>1, <2>3, PersistCompletedKeeps, PersistFailedKeeps, FailRunKeeps, DieKeeps,
       ReleaseKeeps
  <2>4. CASE \E warned \in BOOLEAN : FinishSync(warned) \/ FinishRebuild(warned)
    <3>1. PICK warned \in BOOLEAN : FinishSync(warned) \/ FinishRebuild(warned)
      BY <2>4
    <3>2. material.warned \in BOOLEAN
      BY DEF PortfolioInv, Typed, MaterialRows
    <3>3. PICK saved \in BOOLEAN : Finish(saved) /\ job.pc \in {"syncing", "finishing"}
      BY <3>1, <3>2 DEF FinishSync, FinishRebuild
    <3>4. QED
      BY <1>1, <3>3, FinishKeeps
  <2>5. QED
    BY <1>1, <2>1, <2>2, <2>3, <2>4 DEF RunStep
<1>2. CASE Tick
  BY <1>2, TickKeeps
<1>3. CASE \E row \in {"run", "material"} : LookFirst(row)
  BY <1>3, LookFirstKeeps
<1>4. CASE LookAgain
  BY <1>4, LookAgainKeeps
<1>5. CASE UNCHANGED portfolioVars
  BY <1>5 DEF portfolioVars, PortfolioInv, Typed, InTime, StageHolds, RunHolds, LookHolds, Stale,
              NeverOlderThanClaimed, MaterializedIsCurrent, Current
<1>6. QED
  BY <1>1, <1>2, <1>3, <1>4, <1>5 DEF PortfolioNext

LEMMA PortfolioInvariance == PortfolioSpec => []PortfolioInv
<1>1. PortfolioInit => PortfolioInv
  BY InitInvariant
<1>2. PortfolioInv /\ [PortfolioNext]_portfolioVars => PortfolioInv'
  BY NextInvariant
<1>3. QED
  BY <1>1, <1>2, PTL DEF PortfolioSpec

(* Whatever fails, dies or is released, every variable of the portfolio     *)
(* keeps a value the code can give it.                                      *)
THEOREM PortfolioTyped == PortfolioSpec => []PortfolioTypeOK
<1>1. PortfolioInv => PortfolioTypeOK
  BY DEF PortfolioInv, Typed, PortfolioTypeOK, Groups, Times, RunRows, MaterialRows, Looks, Stages
<1>2. QED
  BY <1>1, PortfolioInvariance, PTL

(* Wherever a rebuild fails or dies between its writes, a reader never finds*)
(* positions older than the row says.                                       *)
THEOREM PositionsAsNewAsClaimed == PortfolioSpec => []NeverOlderThanClaimed
<1>1. PortfolioInv => NeverOlderThanClaimed
  BY DEF PortfolioInv
<1>2. QED
  BY <1>1, PortfolioInvariance, PTL

(* For any ledgers and any interleaving with the two reads of the onboarding*)
(* status: a wallet it calls materialized had the positions of its ledger   *)
(* at some moment since the first read.                                     *)
THEOREM MaterializedWasCurrent == PortfolioSpec => []MaterializedIsCurrent
<1>1. PortfolioInv => MaterializedIsCurrent
  BY DEF PortfolioInv
<1>2. QED
  BY <1>1, PortfolioInvariance, PTL

-----------------------------------------------------------------------------
(* Sums over finite sets: nothing of what follows is about the portfolio.   *)

(* Of some subsets of a finite set, one has no other of them inside it.     *)
LEMMA MinimalSubset ==
  ASSUME NEW S, IsFiniteSet(S), NEW T, T \subseteq SUBSET S, T # {}
  PROVE  \E A \in T : \A B \in T : B \subseteq A => B = A
<1>1. FiniteSubsetsOf(S) = SUBSET S
  BY FS_FiniteSubsetsOfFinite
<1>2. IsWellFoundedOn(StrictSubsetOrdering(S), SUBSET S)
  BY <1>1, FS_StrictSubsetOrderingWellFounded
<1>3. PICK A \in T : \A B \in T : ~ (<<B, A>> \in StrictSubsetOrdering(S))
  BY <1>2, WFMin
<1> QED
  BY <1>3 DEF StrictSubsetOrdering

(* The element a fold over s takes first.                                   *)
First(s) == CHOOSE x \in s : TRUE

(* g sums f over every subset of D, as the fold does.                       *)
Sums(g, f, D) ==
  g = [s \in SUBSET D |-> IF s = {} THEN 0 ELSE f[First(s)] + g[s \ {First(s)}]]

LEMMA FirstOf == \A s : s # {} => First(s) \in s
BY DEF First

(* Whatever sums the elements of a set as a fold does has one value for it. *)
LEMMA SumsAgree ==
  ASSUME NEW g, NEW f, NEW D, Sums(g, f, D),
         NEW h, NEW k, NEW E, Sums(h, k, E),
         NEW C, IsFiniteSet(C), C \subseteq D, C \subseteq E,
         \A x \in C : f[x] = k[x]
  PROVE  g[C] = h[C]
<1> SUFFICES ASSUME g[C] # h[C] PROVE FALSE
  OBVIOUS
<1> DEFINE T == {s \in SUBSET C : g[s] # h[s]}
<1>1. T \subseteq SUBSET C /\ C \in T
  OBVIOUS
<1>2. PICK A \in T : \A B \in T : B \subseteq A => B = A
  BY <1>1, MinimalSubset
<1>3. /\ g[A] = IF A = {} THEN 0 ELSE f[First(A)] + g[A \ {First(A)}]
      /\ h[A] = IF A = {} THEN 0 ELSE k[First(A)] + h[A \ {First(A)}]
  BY <1>2 DEF Sums
<1>4. A # {} /\ First(A) \in A
  BY <1>2, <1>3, FirstOf
<1>5. g[A \ {First(A)}] = h[A \ {First(A)}]
  BY <1>2, <1>4
<1>6. f[First(A)] = k[First(A)]
  BY <1>2, <1>4
<1> QED
  BY <1>2, <1>3, <1>4, <1>5, <1>6

(* There is a function that sums the subsets of a finite set.               *)
LEMMA SumsExist ==
  ASSUME NEW f, NEW D, IsFiniteSet(D)
  PROVE  \E g : Sums(g, f, D)
<1> SUFFICES ASSUME ~ \E g : Sums(g, f, D) PROVE FALSE
  OBVIOUS
<1>1. PICK T : T = {s \in SUBSET D : ~ \E g : Sums(g, f, s)}
  OBVIOUS
<1>2. PICK A \in T : \A B \in T : B \subseteq A => B = A
  <2>1. T \subseteq SUBSET D /\ D \in T
    BY <1>1
  <2> QED
    BY <2>1, MinimalSubset
<1> DEFINE G(B) == CHOOSE g : Sums(g, f, B)
           g == [s \in SUBSET A |->
                   IF s = {} THEN 0 ELSE f[First(s)] + G(s \ {First(s)})[s \ {First(s)}]]
<1>3. \A B \in SUBSET A : B # A => Sums(G(B), f, B)
  BY <1>1, <1>2
<1>4. A \subseteq D /\ \A B \in SUBSET A : IsFiniteSet(B)
  BY <1>1, <1>2, FS_Subset
<1> HIDE DEF G
<1>5. ASSUME NEW B \in SUBSET A, B # A PROVE g[B] = G(B)[B]
  <2>1. G(B)[B] = IF B = {} THEN 0 ELSE f[First(B)] + G(B)[B \ {First(B)}]
    BY <1>3, <1>5 DEF Sums
  <2>2. CASE B = {}
    BY <2>1, <2>2
  <2>3. CASE B # {}
    <3>1. First(B) \in B
      BY <2>3, FirstOf
    <3> DEFINE C == B \ {First(B)}
    <3>2. C \in SUBSET A /\ C # A /\ C \subseteq B
      BY <3>1, <1>5
    <3>3. Sums(G(B), f, B) /\ Sums(G(C), f, C) /\ IsFiniteSet(C)
      BY <3>2, <1>3, <1>4, <1>5
    <3>4. G(B)[C] = G(C)[C]
      BY <3>2, <3>3, SumsAgree
    <3> QED
      BY <2>1, <2>3, <3>4
  <2> QED
    BY <2>2, <2>3
<1>6. ASSUME NEW s \in SUBSET A, s # {} PROVE g[s \ {First(s)}] = G(s \ {First(s)})[s \ {First(s)}]
  <2>1. First(s) \in s
    BY <1>6, FirstOf
  <2> QED
    BY <2>1, <1>5
<1>7. Sums(g, f, A)
  <2> HIDE DEF G
  <2> QED
    BY <1>6 DEF Sums
<1> QED
  BY <1>1, <1>2, <1>7

(* What the library calls the sum is that function.                         *)
LEMMA SumIsSums ==
  ASSUME NEW f, NEW S, IsFiniteSet(S)
  PROVE  \E g : Sums(g, f, S) /\ SumFunctionOnSet(f, S) = g[S]
<1>1. SumFunctionOnSet(f, S) = (CHOOSE g : Sums(g, f, S))[S]
  BY DEF SumFunctionOnSet, FoldFunctionOnSet, MapThenFoldSet, Sums, First
<1> QED
  BY <1>1, SumsExist

(* f is a function of integers on S, or its domain is larger.               *)
Integral(f, S) == IsFiniteSet(S) /\ \A x \in S : f[x] \in Int

(* A sum, with the element the fold takes first.                            *)
LEMMA SumUnfolds ==
  ASSUME NEW f, NEW S, IsFiniteSet(S)
  PROVE  SumFunctionOnSet(f, S) =
           IF S = {} THEN 0 ELSE f[First(S)] + SumFunctionOnSet(f, S \ {First(S)})
<1>1. PICK g : Sums(g, f, S) /\ SumFunctionOnSet(f, S) = g[S]
  BY SumIsSums
<1>2. g[S] = IF S = {} THEN 0 ELSE f[First(S)] + g[S \ {First(S)}]
  BY <1>1 DEF Sums
<1>3. PICK R \in SUBSET S : R = S \ {First(S)}
  OBVIOUS
<1>4. g[R] = SumFunctionOnSet(f, R)
  <2>1. IsFiniteSet(R)
    BY FS_Subset
  <2>2. PICK h : Sums(h, f, R) /\ SumFunctionOnSet(f, R) = h[R]
    BY <2>1, SumIsSums
  <2>3. Sums(g, f, S) /\ \A x \in R : f[x] = f[x]
    BY <1>1
  <2>4. g[R] = h[R]
    BY <2>1, <2>2, <2>3, SumsAgree
  <2> QED
    BY <2>2, <2>4
<1> QED
  BY <1>1, <1>2, <1>3, <1>4

(* The sum over nothing is nothing.                                         *)
LEMMA SumEmpty == \A f : SumFunctionOnSet(f, {}) = 0
BY SumUnfolds, FS_EmptySet

(* A sum of integers is an integer.                                         *)
LEMMA SumIsInt ==
  ASSUME NEW f, NEW S, Integral(f, S)
  PROVE  SumFunctionOnSet(f, S) \in Int
<1> SUFFICES ASSUME SumFunctionOnSet(f, S) \notin Int PROVE FALSE
  OBVIOUS
<1>1. PICK T : T = {s \in SUBSET S : SumFunctionOnSet(f, s) \notin Int}
  OBVIOUS
<1>2. PICK A \in T : \A B \in T : B \subseteq A => B = A
  <2>1. T \subseteq SUBSET S /\ S \in T /\ IsFiniteSet(S)
    BY <1>1 DEF Integral
  <2> QED
    BY <2>1, MinimalSubset
<1>3. IsFiniteSet(A) /\ A \subseteq S
  BY <1>1, <1>2, FS_Subset DEF Integral
<1>4. A # {} /\ First(A) \in A
  <2>1. SumFunctionOnSet(f, {}) \in Int
    BY SumEmpty
  <2>2. A # {}
    BY <2>1, <1>1, <1>2
  <2> QED
    BY <2>2, FirstOf
<1>5. SumFunctionOnSet(f, A \ {First(A)}) \in Int
  BY <1>1, <1>2, <1>4
<1>6. f[First(A)] \in Int
  BY <1>3, <1>4 DEF Integral
<1> QED
  BY <1>1, <1>2, <1>3, <1>4, <1>5, <1>6, SumUnfolds

(* Whichever element is taken out first.                                    *)
LEMMA SumTakesOut ==
  ASSUME NEW f, NEW S, Integral(f, S)
  PROVE  \A x \in S : SumFunctionOnSet(f, S) = f[x] + SumFunctionOnSet(f, S \ {x})
<1> DEFINE Sum(s) == SumFunctionOnSet(f, s)
           Off(s) == \E x \in s : Sum(s) # f[x] + Sum(s \ {x})
<1> SUFFICES ASSUME Off(S) PROVE FALSE
  OBVIOUS
<1>1. PICK T : T = {s \in SUBSET S : Off(s)}
  OBVIOUS
<1>2. PICK A \in T : \A B \in T : B \subseteq A => B = A
  <2>1. T \subseteq SUBSET S /\ S \in T /\ IsFiniteSet(S)
    BY <1>1 DEF Integral
  <2> QED
    BY <2>1, MinimalSubset
<1>3. A \in SUBSET S /\ Off(A)
  BY <1>1, <1>2
<1>4. PICK x \in A : Sum(A) # f[x] + Sum(A \ {x})
  BY <1>3
<1>5. \A s \in SUBSET S : Integral(f, s) /\ Sum(s) \in Int
  BY FS_Subset, SumIsInt DEF Integral
<1>6. PICK y \in A : Sum(A) = f[y] + Sum(A \ {y})
  BY <1>3, <1>4, <1>5, FirstOf, SumUnfolds DEF Integral
<1>7. x # y
  BY <1>4, <1>6
<1>8. \A s \in SUBSET A : s # A => \A z \in s : Sum(s) = f[z] + Sum(s \ {z})
  <2> SUFFICES ASSUME NEW s \in SUBSET A, s # A, Off(s) PROVE FALSE
    OBVIOUS
  <2> HIDE DEF Off
  <2>1. s \in T
    BY <1>1, <1>3
  <2> QED
    BY <2>1, <1>2
<1>9. PICK R : R = (A \ {x}) \ {y} /\ R = (A \ {y}) \ {x}
  OBVIOUS
<1> HIDE DEF Sum
<1>10. Sum(A \ {y}) = f[x] + Sum(R) /\ Sum(A \ {x}) = f[y] + Sum(R)
  BY <1>7, <1>8, <1>9
<1>11. f[x] \in Int /\ f[y] \in Int /\ Sum(R) \in Int
  BY <1>3, <1>5, <1>9 DEF Integral
<1> QED
  BY <1>4, <1>6, <1>10, <1>11

(* Functions that agree on a set have the same sum over it.                 *)
LEMMA SumAgrees ==
  ASSUME NEW f, NEW k, NEW S, IsFiniteSet(S), \A x \in S : f[x] = k[x]
  PROVE  SumFunctionOnSet(f, S) = SumFunctionOnSet(k, S)
BY SumIsSums, SumsAgree

(* Of two sets that are apart.                                              *)
LEMMA SumSplits ==
  ASSUME NEW f, NEW S, Integral(f, S), NEW A \in SUBSET S
  PROVE  SumFunctionOnSet(f, S) = SumFunctionOnSet(f, A) + SumFunctionOnSet(f, S \ A)
<1> DEFINE Sum(s) == SumFunctionOnSet(f, s)
           Off(s) == Sum(s) # Sum(s \cap A) + Sum(s \ A)
<1> SUFFICES ASSUME Off(S) PROVE FALSE
  <2>1. S \cap A = A
    OBVIOUS
  <2> QED
    BY <2>1
<1>1. PICK T : T = {s \in SUBSET S : Off(s)}
  OBVIOUS
<1>2. PICK B \in T : \A C \in T : C \subseteq B => C = B
  <2>1. T \subseteq SUBSET S /\ S \in T /\ IsFiniteSet(S)
    BY <1>1 DEF Integral
  <2> QED
    BY <2>1, MinimalSubset
<1>3. B \in SUBSET S /\ Off(B)
  BY <1>1, <1>2
<1>4. \A s \in SUBSET S : Integral(f, s) /\ Sum(s) \in Int
  BY FS_Subset, SumIsInt DEF Integral
<1>5. B # {}
  <2> SUFFICES ASSUME B = {} PROVE FALSE
    OBVIOUS
  <2>1. B \cap A = {} /\ B \ A = {}
    OBVIOUS
  <2> QED
    BY <2>1, <1>3, SumEmpty
<1>6. PICK x : x \in B
  BY <1>5
<1>7. ~Off(B \ {x})
  <2> HIDE DEF Off
  <2> QED
    BY <1>1, <1>2, <1>3, <1>6
<1> HIDE DEF Sum
<1>8. \A s \in SUBSET S : x \in s => Sum(s) = f[x] + Sum(s \ {x})
  BY <1>4, SumTakesOut DEF Sum
<1>9. Sum(B) = f[x] + Sum(B \ {x})
  BY <1>3, <1>6, <1>8
<1>10. /\ f[x] \in Int /\ Sum(B \ {x}) \in Int /\ Sum((B \ {x}) \cap A) \in Int
       /\ Sum((B \ {x}) \ A) \in Int
  BY <1>3, <1>4, <1>6 DEF Integral
<1>11. CASE x \in A
  <2>1. (B \cap A) \ {x} = (B \ {x}) \cap A /\ B \ A = (B \ {x}) \ A
    BY <1>11
  <2>2. Sum(B \cap A) = f[x] + Sum((B \ {x}) \cap A)
    BY <2>1, <1>3, <1>6, <1>8, <1>11
  <2>3. Sum(B \ {x}) = Sum((B \ {x}) \cap A) + Sum((B \ {x}) \ A)
    BY <1>7
  <2>4. PICK a \in Int, b \in Int, d \in Int :
          a = f[x] /\ b = Sum((B \ {x}) \cap A) /\ d = Sum((B \ {x}) \ A)
    BY <1>10
  <2>5. Sum(B) = a + (b + d)
    BY <2>3, <2>4, <1>9
  <2>6. Sum(B \cap A) = a + b
    BY <2>1, <2>2, <2>4
  <2>7. Sum(B \ A) = d
    BY <2>1, <2>2, <2>4
  <2> QED
    BY <2>5, <2>6, <2>7, <1>3
<1>12. CASE x \notin A
  <2>1. (B \ A) \ {x} = (B \ {x}) \ A /\ B \cap A = (B \ {x}) \cap A
    BY <1>12
  <2>2. Sum(B \ A) = f[x] + Sum((B \ {x}) \ A)
    BY <2>1, <1>3, <1>6, <1>8, <1>12
  <2>3. Sum(B \ {x}) = Sum((B \ {x}) \cap A) + Sum((B \ {x}) \ A)
    BY <1>7
  <2>4. PICK a \in Int, b \in Int, d \in Int :
          a = f[x] /\ b = Sum((B \ {x}) \cap A) /\ d = Sum((B \ {x}) \ A)
    BY <1>10
  <2>5. Sum(B) = a + (b + d)
    BY <2>3, <2>4, <1>9
  <2>6. Sum(B \cap A) = b
    BY <2>1, <2>2, <2>4
  <2>7. Sum(B \ A) = a + d
    BY <2>1, <2>2, <2>4
  <2> QED
    BY <2>5, <2>6, <2>7, <1>3
<1> QED
  BY <1>11, <1>12

(* A difference is summed part by part.                                     *)
LEMMA SumDiffers ==
  ASSUME NEW f, NEW h, NEW k, NEW S, Integral(f, S), Integral(h, S),
         \A x \in S : k[x] = f[x] - h[x]
  PROVE  SumFunctionOnSet(k, S) = SumFunctionOnSet(f, S) - SumFunctionOnSet(h, S)
<1> DEFINE F(s) == SumFunctionOnSet(f, s)
           H(s) == SumFunctionOnSet(h, s)
           K(s) == SumFunctionOnSet(k, s)
           Off(s) == K(s) # F(s) - H(s)
<1> SUFFICES ASSUME Off(S) PROVE FALSE
  OBVIOUS
<1>1. PICK T : T = {s \in SUBSET S : Off(s)}
  OBVIOUS
<1>2. PICK B \in T : \A C \in T : C \subseteq B => C = B
  <2>1. T \subseteq SUBSET S /\ S \in T /\ IsFiniteSet(S)
    BY <1>1 DEF Integral
  <2> QED
    BY <2>1, MinimalSubset
<1>3. B \in SUBSET S /\ Off(B)
  BY <1>1, <1>2
<1>4. \A s \in SUBSET S : Integral(f, s) /\ Integral(h, s) /\ F(s) \in Int /\ H(s) \in Int
  BY FS_Subset, SumIsInt DEF Integral
<1>5. B # {}
  BY <1>3, SumEmpty
<1>6. PICK x : x \in B
  BY <1>5
<1>7. ~Off(B \ {x})
  <2> HIDE DEF Off
  <2> QED
    BY <1>1, <1>2, <1>3, <1>6
<1>8. Integral(k, B)
  <2>1. \A y \in B : f[y] \in Int /\ h[y] \in Int /\ k[y] = f[y] - h[y]
    BY <1>3, <1>4 DEF Integral
  <2> QED
    BY <2>1, <1>3, <1>4 DEF Integral
<1> HIDE DEF F, H, K
<1>9. F(B) = f[x] + F(B \ {x}) /\ H(B) = h[x] + H(B \ {x}) /\ K(B) = k[x] + K(B \ {x})
  BY <1>3, <1>4, <1>6, <1>8, SumTakesOut DEF F, H, K
<1>10. /\ f[x] \in Int /\ h[x] \in Int /\ k[x] = f[x] - h[x]
       /\ F(B \ {x}) \in Int /\ H(B \ {x}) \in Int
  BY <1>3, <1>4, <1>6 DEF Integral
<1> QED
  BY <1>3, <1>7, <1>9, <1>10

(* Nothing but zeros.                                                       *)
LEMMA SumOfZeros ==
  ASSUME NEW f, NEW S, IsFiniteSet(S), \A x \in S : f[x] = 0
  PROVE  SumFunctionOnSet(f, S) = 0
<1> SUFFICES ASSUME SumFunctionOnSet(f, S) # 0 PROVE FALSE
  OBVIOUS
<1>1. PICK T : T = {s \in SUBSET S : SumFunctionOnSet(f, s) # 0}
  OBVIOUS
<1>2. PICK B \in T : \A C \in T : C \subseteq B => C = B
  <2>1. T \subseteq SUBSET S /\ S \in T
    BY <1>1
  <2> QED
    BY <2>1, MinimalSubset
<1>3. B # {} /\ B \in SUBSET S /\ IsFiniteSet(B)
  BY <1>1, <1>2, SumEmpty, FS_Subset
<1>4. PICK x \in B : SumFunctionOnSet(f, B) = f[x] + SumFunctionOnSet(f, B \ {x})
  BY <1>3, FirstOf, SumUnfolds
<1>5. SumFunctionOnSet(f, B \ {x}) = 0 /\ f[x] = 0
  BY <1>1, <1>2, <1>3
<1> QED
  BY <1>1, <1>2, <1>4, <1>5

(* The image of a finite set is finite.                                     *)
LEMMA ImageFinite ==
  ASSUME NEW f, NEW S, IsFiniteSet(S)
  PROVE  IsFiniteSet({f[x] : x \in S})
<1>1. PICK T : T = {f[x] : x \in S}
  OBVIOUS
<1>2. PICK k : k = [x \in S |-> f[x]]
  OBVIOUS
<1>3. k \in [S -> T] /\ \A t \in T : \E x \in S : k[x] = t
  BY <1>1, <1>2
<1>4. k \in Surjection(S, T)
  BY <1>3 DEF Surjection
<1> QED
  BY <1>1, <1>4, FS_Surjection

(* A sum over an image is the sum over what it is the image of, when no two *)
(* elements have the same.                                                  *)
LEMMA SumOfImage ==
  ASSUME NEW f, NEW h, NEW k, NEW S, Integral(h, S),
         \A x \in S : k[f[x]] = h[x],
         \A x, y \in S : f[x] = f[y] => x = y
  PROVE  SumFunctionOnSet(k, {f[x] : x \in S}) = SumFunctionOnSet(h, S)
<1> DEFINE Image(s) == {f[x] : x \in s}
           Off(s) == SumFunctionOnSet(k, Image(s)) # SumFunctionOnSet(h, s)
<1> SUFFICES ASSUME Off(S) PROVE FALSE
  OBVIOUS
<1>1. PICK T : T = {s \in SUBSET S : Off(s)}
  OBVIOUS
<1>2. PICK B \in T : \A C \in T : C \subseteq B => C = B
  <2>1. T \subseteq SUBSET S /\ S \in T /\ IsFiniteSet(S)
    BY <1>1 DEF Integral
  <2> QED
    BY <2>1, MinimalSubset
<1>3. B \in SUBSET S /\ Off(B)
  BY <1>1, <1>2
<1>4. B # {}
  <2> SUFFICES ASSUME B = {} PROVE FALSE
    OBVIOUS
  <2>1. Image(B) = {}
    OBVIOUS
  <2> QED
    BY <2>1, <1>3, SumEmpty
<1>5. PICK x : x \in B
  BY <1>4
<1>6. ~Off(B \ {x})
  <2> HIDE DEF Off
  <2> QED
    BY <1>1, <1>2, <1>3, <1>5
<1>7. Image(B) \ {f[x]} = Image(B \ {x}) /\ f[x] \in Image(B)
  BY <1>3, <1>5
<1>8. Integral(h, B) /\ Integral(k, Image(B))
  <2>1. Integral(h, B)
    BY <1>3, FS_Subset DEF Integral
  <2>2. IsFiniteSet(Image(B))
    BY <2>1, ImageFinite DEF Integral
  <2>3. \A y \in Image(B) : k[y] \in Int
    BY <2>1, <1>3 DEF Integral
  <2> QED
    BY <2>1, <2>2, <2>3 DEF Integral
<1> HIDE DEF Image
<1>9. SumFunctionOnSet(h, B) = h[x] + SumFunctionOnSet(h, B \ {x})
  BY <1>5, <1>8, SumTakesOut
<1>10. SumFunctionOnSet(k, Image(B)) = k[f[x]] + SumFunctionOnSet(k, Image(B \ {x}))
  <2>1. PICK I : I = Image(B)
    OBVIOUS
  <2>2. \A y \in I : SumFunctionOnSet(k, I) = k[y] + SumFunctionOnSet(k, I \ {y})
    BY <2>1, <1>8, SumTakesOut
  <2>3. f[x] \in I /\ I \ {f[x]} = Image(B \ {x})
    BY <2>1, <1>7
  <2> QED
    BY <2>1, <2>2, <2>3
<1> QED
  BY <1>3, <1>5, <1>6, <1>9, <1>10

-----------------------------------------------------------------------------
(* Legs, or amounts, whose quantities can be added.                         *)
Measured(ls) == IsFiniteSet(ls) /\ \A l \in ls : l.qty \in Nat

(* A quantity is a sum over any set of legs that holds these.               *)
LEMMA QuantityOn ==
  ASSUME NEW D, Measured(D), NEW ls \in SUBSET D
  PROVE  Quantity(ls) = SumFunctionOnSet([l \in D |-> l.qty], ls)
<1>1. IsFiniteSet(ls)
  BY FS_Subset DEF Measured
<1> DEFINE f == [l \in ls |-> l.qty]
           k == [l \in D |-> l.qty]
<1>2. DOMAIN f = ls /\ \A l \in ls : f[l] = k[l]
  OBVIOUS
<1> HIDE DEF f, k
<1>3. SumFunctionOnSet(f, ls) = SumFunctionOnSet(k, ls)
  BY <1>1, <1>2, SumAgrees
<1>4. Quantity(ls) = SumFunctionOnSet(f, DOMAIN f)
  BY DEF Quantity, SumFunction, f
<1> QED
  BY <1>2, <1>3, <1>4 DEF k

LEMMA QuantityIsInt ==
  ASSUME NEW ls, Measured(ls)
  PROVE  Quantity(ls) \in Int
<1>1. PICK k : k = [l \in ls |-> l.qty]
  OBVIOUS
<1>2. Integral(k, ls)
  BY <1>1 DEF Measured, Integral
<1> QED
  BY <1>1, <1>2, QuantityOn, SumIsInt

(* A quantity is that of some of the legs and that of the others.           *)
LEMMA QuantitySplits ==
  ASSUME NEW ls, Measured(ls), NEW A \in SUBSET ls
  PROVE  Quantity(ls) = Quantity(A) + Quantity(ls \ A)
<1>1. PICK k : k = [l \in ls |-> l.qty]
  OBVIOUS
<1>2. Integral(k, ls)
  BY <1>1 DEF Measured, Integral
<1>3. /\ Quantity(ls) = SumFunctionOnSet(k, ls) /\ Quantity(A) = SumFunctionOnSet(k, A)
      /\ Quantity(ls \ A) = SumFunctionOnSet(k, ls \ A)
  BY <1>1, QuantityOn
<1> QED
  BY <1>2, <1>3, SumSplits

LEMMA QuantityOfZeros ==
  ASSUME NEW ls, Measured(ls), \A l \in ls : l.qty = 0
  PROVE  Quantity(ls) = 0
<1>1. PICK k : k = [l \in ls |-> l.qty]
  OBVIOUS
<1>2. IsFiniteSet(ls) /\ \A l \in ls : k[l] = 0
  BY <1>1 DEF Measured
<1> QED
  BY <1>1, <1>2, QuantityOn, SumOfZeros

(* Each of S is drafted as one leg of the same quantity.                    *)
Image(f, S) == {f[x] : x \in S}
AsDrafted(f, S) ==
  /\ \A x \in S : f[x].qty = x.qty
  /\ \A x, y \in S : f[x] = f[y] => x = y

LEMMA QuantityOfImage ==
  ASSUME NEW f, NEW S, Measured(S), AsDrafted(f, S)
  PROVE  Measured(Image(f, S)) /\ Quantity(Image(f, S)) = Quantity(S)
<1>0. /\ \A x \in S : f[x].qty = x.qty
      /\ \A x, y \in S : f[x] = f[y] => x = y
  BY DEF AsDrafted
<1>1. PICK T : T = {f[x] : x \in S} /\ T = Image(f, S)
  BY DEF Image
<1>2. Measured(T)
  BY <1>0, <1>1, ImageFinite DEF Measured
<1>3. PICK h : h = [x \in S |-> x.qty]
  OBVIOUS
<1>4. PICK k : k = [l \in T |-> l.qty]
  OBVIOUS
<1>5. Integral(h, S) /\ \A x \in S : k[f[x]] = h[x]
  BY <1>0, <1>1, <1>3, <1>4 DEF Measured, Integral
<1>6. SumFunctionOnSet(k, T) = SumFunctionOnSet(h, S)
  BY <1>0, <1>1, <1>5, SumOfImage
<1> QED
  BY <1>1, <1>2, <1>3, <1>4, <1>6, QuantityOn

(* A balance changes by what came in, less what went out.                   *)
Coming(g, asset)  == {l \in LegsOfAsset(g, asset) : l.dir = "IN"}
Leaving(g, asset) == {l \in LegsOfAsset(g, asset) : l.dir = "OUT"}

(* The change of a balance is the quantity that came less the one that      *)
(* left.                                                                    *)
LEMMA ChangeIsQuantities ==
  ASSUME NEW g, NEW asset, Measured(LegsOfAsset(g, asset)),
         \A l \in LegsOfAsset(g, asset) : l.dir \in {"IN", "OUT", "INTERNAL"}
  PROVE  /\ Measured(Coming(g, asset)) /\ Measured(Leaving(g, asset))
         /\ Change(asset, g) = Quantity(Coming(g, asset)) - Quantity(Leaving(g, asset))
         /\ Change(asset, g) \in Int
<1>1. PICK L : L = LegsOfAsset(g, asset)
  OBVIOUS
<1>2. PICK In : In = {l \in L : l.dir = "IN"}
  OBVIOUS
<1>3. PICK Out : Out = {l \in L : l.dir = "OUT"}
  OBVIOUS
<1>4. PICK f : f = [l \in L |-> Signed(l)]
  OBVIOUS
<1>5. PICK k : k = [l \in L |-> l.qty]
  OBVIOUS
<1>6. In \in SUBSET L /\ Out \in SUBSET (L \ In) /\ IsFiniteSet(L)
  BY <1>1, <1>2, <1>3 DEF Measured
<1>7. Measured(In) /\ Measured(Out)
  BY <1>1, <1>6, FS_Subset DEF Measured
<1>8. \A l \in L : l.qty \in Int /\ -l.qty \in Int
  BY <1>1 DEF Measured
<1>9. Integral(f, L) /\ Integral(k, L)
  BY <1>1, <1>4, <1>5, <1>6, <1>8 DEF Integral, Signed
<1>10. Change(asset, g) = SumFunctionOnSet(f, L)
  BY <1>1, <1>4 DEF Change, SumFunction
<1>11. SumFunctionOnSet(f, L) = SumFunctionOnSet(f, In) + SumFunctionOnSet(f, L \ In)
  BY <1>6, <1>9, SumSplits
<1>12. PICK R : R = L \ In
  OBVIOUS
<1>13. Integral(f, R) /\ R \in SUBSET L
  BY <1>9, <1>12, FS_Subset DEF Integral
<1>14. SumFunctionOnSet(f, R) = SumFunctionOnSet(f, Out) + SumFunctionOnSet(f, R \ Out)
  BY <1>6, <1>12, <1>13, SumSplits
<1>15. SumFunctionOnSet(f, R \ Out) = 0
  <2>1. \A l \in R \ Out : f[l] = 0
    BY <1>1, <1>2, <1>3, <1>4, <1>12 DEF Signed
  <2>2. IsFiniteSet(R \ Out)
    BY <1>13, FS_Subset DEF Integral
  <2> QED
    BY <2>1, <2>2, SumOfZeros
<1>16. SumFunctionOnSet(f, In) = Quantity(In)
  <2>1. IsFiniteSet(In) /\ \A l \in In : f[l] = k[l]
    BY <1>2, <1>4, <1>5, <1>7 DEF Signed, Measured
  <2> QED
    BY <2>1, <1>1, <1>5, <1>6, QuantityOn, SumAgrees
<1>17. SumFunctionOnSet(f, Out) = -Quantity(Out)
  <2>1. IsFiniteSet(Out) /\ Out \in SUBSET L
    BY <1>6, <1>7 DEF Measured
  <2>2. PICK z : z = [l \in Out |-> 0]
    OBVIOUS
  <2>3. Integral(z, Out) /\ Integral(k, Out)
    BY <2>1, <2>2, <1>9 DEF Integral
  <2>4. \A l \in Out : f[l] = z[l] - k[l]
    BY <2>1, <2>2, <1>3, <1>4, <1>5, <1>8 DEF Signed
  <2>5. SumFunctionOnSet(f, Out) = SumFunctionOnSet(z, Out) - SumFunctionOnSet(k, Out)
    BY <2>3, <2>4, SumDiffers
  <2>6. SumFunctionOnSet(k, Out) = Quantity(Out) /\ Quantity(Out) \in Int
    BY <2>1, <1>1, <1>5, <1>7, QuantityOn, QuantityIsInt
  <2>7. SumFunctionOnSet(z, Out) = 0
    BY <2>1, <2>2, SumOfZeros
  <2> QED
    BY <2>5, <2>6, <2>7
<1>18. Quantity(In) \in Int /\ Quantity(Out) \in Int
  BY <1>7, QuantityIsInt
<1>19. PICK a \in Int, b \in Int : a = Quantity(In) /\ b = Quantity(Out)
  BY <1>18
<1>20. Change(asset, g) = a + (-b + 0)
  BY <1>10, <1>11, <1>12, <1>14, <1>15, <1>16, <1>17, <1>19
<1>21. Coming(g, asset) = In /\ Leaving(g, asset) = Out
  BY <1>1, <1>2, <1>3 DEF Coming, Leaving
<1> QED
  BY <1>7, <1>19, <1>20, <1>21

-----------------------------------------------------------------------------
(* The legs of an action.                                                   *)

(* The legs drafted for a set of amounts, one for each.                     *)
Drafts(type, dir, amounts) == {Entry(type, dir, a.asset, a.qty) : a \in amounts}
OfAsset(ls, asset) == {l \in ls : l.asset = asset}

LEMMA EntryFields ==
  \A type, dir, asset, qty :
    LET e == Entry(type, dir, asset, qty)
    IN  e.type = type /\ e.dir = dir /\ e.asset = asset /\ e.qty = qty
BY DEF Entry

(* The legs of an asset are those drafted for the amounts of it.            *)
LEMMA DraftsOfAsset ==
  ASSUME NEW type, NEW dir, NEW amounts, NEW asset
  PROVE  OfAsset(Drafts(type, dir, amounts), asset) = Drafts(type, dir, OfAsset(amounts, asset))
<1>1. ASSUME NEW l \in OfAsset(Drafts(type, dir, amounts), asset)
      PROVE  l \in Drafts(type, dir, OfAsset(amounts, asset))
  <2>1. PICK a \in amounts : l = Entry(type, dir, a.asset, a.qty)
    BY DEF Drafts, OfAsset
  <2>2. l.asset = asset
    BY DEF OfAsset
  <2>3. a.asset = asset
    BY <2>1, <2>2, EntryFields
  <2>4. a \in OfAsset(amounts, asset)
    BY <2>3 DEF OfAsset
  <2> QED
    BY <2>1, <2>4 DEF Drafts
<1>2. ASSUME NEW l \in Drafts(type, dir, OfAsset(amounts, asset))
      PROVE  l \in OfAsset(Drafts(type, dir, amounts), asset)
  <2>1. PICK a \in OfAsset(amounts, asset) : l = Entry(type, dir, a.asset, a.qty)
    BY DEF Drafts
  <2>2. a \in amounts /\ a.asset = asset
    BY DEF OfAsset
  <2>3. l.asset = asset
    BY <2>1, <2>2, EntryFields
  <2>4. l \in Drafts(type, dir, amounts)
    BY <2>1, <2>2 DEF Drafts
  <2> QED
    BY <2>3, <2>4 DEF OfAsset
<1> QED
  BY <1>1, <1>2

(* What is drafted for some amounts has their quantity.                     *)
LEMMA DraftsMeasured ==
  ASSUME NEW amounts \in SUBSET Amounts, IsFiniteSet(amounts), NEW type, NEW dir
  PROVE  /\ Measured(amounts) /\ Measured(Drafts(type, dir, amounts))
         /\ Quantity(Drafts(type, dir, amounts)) = Quantity(amounts)
         /\ \A l \in Drafts(type, dir, amounts) : l.type = type /\ l.dir = dir
<1>1. PICK f : f = [a \in amounts |-> Entry(type, dir, a.asset, a.qty)]
  OBVIOUS
<1>2. Measured(amounts)
  BY DEF Measured, Amounts
<1>3. \A a \in amounts : f[a].qty = a.qty /\ f[a].asset = a.asset /\ f[a].type = type /\ f[a].dir = dir
  BY <1>1, EntryFields
<1>4. \A a, b \in amounts : f[a] = f[b] => a = b
  <2> SUFFICES ASSUME NEW a \in amounts, NEW b \in amounts, f[a] = f[b] PROVE a = b
    OBVIOUS
  <2>1. a.asset = b.asset /\ a.qty = b.qty
    BY <1>3
  <2>2. a \in Amounts /\ b \in Amounts
    OBVIOUS
  <2> QED
    BY <2>1, <2>2 DEF Amounts
<1>5. AsDrafted(f, amounts)
  BY <1>3, <1>4 DEF AsDrafted
<1>6. Measured(Image(f, amounts)) /\ Quantity(Image(f, amounts)) = Quantity(amounts)
  BY <1>2, <1>5, QuantityOfImage
<1>7. Image(f, amounts) = Drafts(type, dir, amounts)
  <2>1. \A a \in amounts : f[a] = Entry(type, dir, a.asset, a.qty)
    BY <1>1
  <2> QED
    BY <2>1 DEF Drafts, Image
<1>8. ASSUME NEW l \in Drafts(type, dir, amounts) PROVE l.type = type /\ l.dir = dir
  <2>1. PICK a \in amounts : l = Entry(type, dir, a.asset, a.qty)
    BY DEF Drafts
  <2> QED
    BY <2>1, EntryFields
<1> QED
  BY <1>2, <1>6, <1>7, <1>8

LEMMA MeasuredUnion ==
  ASSUME NEW A, NEW B, Measured(A), Measured(B)
  PROVE  Measured(A \cup B)
BY FS_Union DEF Measured

LEMMA MeasuredPart ==
  ASSUME NEW A, Measured(A), NEW B \in SUBSET A
  PROVE  Measured(B)
BY FS_Subset DEF Measured

(* Legs that are apart have the quantity of both.                           *)
LEMMA QuantityOfUnion ==
  ASSUME NEW A, NEW B, Measured(A), Measured(B), A \cap B = {}
  PROVE  Quantity(A \cup B) = Quantity(A) + Quantity(B)
<1>1. PICK C : C = A \cup B
  OBVIOUS
<1>2. A \in SUBSET C /\ C \ A = B
  BY <1>1
<1>3. Measured(C)
  BY <1>1, MeasuredUnion
<1>4. Quantity(C) = Quantity(A) + Quantity(C \ A)
  BY <1>2, <1>3, QuantitySplits
<1> QED
  BY <1>1, <1>2, <1>4

LEMMA QuantityOfOne ==
  ASSUME NEW e, e.qty \in Nat
  PROVE  Measured({e}) /\ Quantity({e}) = e.qty
<1>1. Measured({e})
  BY FS_Singleton DEF Measured
<1>2. PICK k : k = [l \in {e} |-> l.qty]
  OBVIOUS
<1>3. Integral(k, {e}) /\ e \in {e} /\ {e} \ {e} = {} /\ k[e] = e.qty
  BY <1>1, <1>2 DEF Integral, Measured
<1>4. SumFunctionOnSet(k, {e}) = k[e] + SumFunctionOnSet(k, {e} \ {e})
  BY <1>3, SumTakesOut
<1>5. SumFunctionOnSet(k, {e}) = e.qty
  BY <1>3, <1>4, SumEmpty
<1> QED
  BY <1>1, <1>2, <1>5, QuantityOn

LEMMA QuantityOfEntry ==
  ASSUME NEW type, NEW dir, NEW asset, NEW qty \in Nat
  PROVE  LET legs == Nonzero({Entry(type, dir, asset, qty)})
         IN  Measured(legs) /\ Quantity(legs) = qty
<1>1. PICK e : e = Entry(type, dir, asset, qty) /\ e.qty = qty
  BY EntryFields
<1>2. Measured({e}) /\ Quantity({e}) = qty
  BY <1>1, QuantityOfOne
<1>7. CASE qty = 0
  <2>1. Nonzero({e}) = {}
    BY <1>1, <1>7 DEF Nonzero
  <2>2. Quantity({}) = 0 /\ Measured({})
    BY QuantityOfZeros, FS_EmptySet DEF Measured
  <2> QED
    BY <1>1, <1>7, <2>1, <2>2
<1>8. CASE qty # 0
  <2>1. Nonzero({e}) = {e}
    BY <1>1, <1>8 DEF Nonzero
  <2> QED
    BY <1>1, <1>2, <2>1
<1> QED
  BY <1>7, <1>8

(* An action of the model: what left and what came are finitely many.       *)
Drafted(r) == r \in RawActions /\ IsFiniteSet(r.in) /\ IsFiniteSet(r.out)

LEMMA GroupsDrafted == \A g \in DOMAIN ActionGroups : Drafted(ActionGroups[g])
BY PortfolioAssumption DEF Drafted

LEMMA FeeLegsOf ==
  ASSUME NEW r, Drafted(r)
  PROVE  /\ Measured(FeeLegs(r)) /\ Quantity(FeeLegs(r)) = r.fee
         /\ \A l \in FeeLegs(r) : l.type = "FEE" /\ l.dir = "OUT" /\ l.asset = FeeAsset
<1>1. r.fee \in Nat
  BY DEF Drafted, RawActions
<1>2. Measured(FeeLegs(r)) /\ Quantity(FeeLegs(r)) = r.fee
  BY <1>1, QuantityOfEntry DEF FeeLegs
<1> QED
  BY <1>2, EntryFields DEF FeeLegs, Nonzero

LEMMA MovedLegs ==
  ASSUME NEW r, Drafted(r), NEW type
  PROVE  /\ Measured(Outgoing(r, type)) /\ Measured(Incoming(r, type))
         /\ \A l \in Outgoing(r, type) : l.type = type /\ l.dir = "OUT"
         /\ \A l \in Incoming(r, type) : l.type = type /\ l.dir = "IN"
<1>1. r.out \in SUBSET Amounts /\ r.in \in SUBSET Amounts
  BY DEF Drafted, RawActions
<1>2. Outgoing(r, type) = Drafts(type, "OUT", r.out) /\ Incoming(r, type) = Drafts(type, "IN", r.in)
  BY DEF Outgoing, Incoming, Drafts
<1>3. IsFiniteSet(r.out) /\ IsFiniteSet(r.in)
  BY DEF Drafted
<1> QED
  BY <1>1, <1>2, <1>3, DraftsMeasured


(* Legs a balance can be computed from.                                     *)
Counted(ls) == Measured(ls) /\ \A l \in ls : l.dir \in {"IN", "OUT", "INTERNAL"}

LEMMA CountedUnion ==
  ASSUME NEW A, NEW B, Counted(A), Counted(B)
  PROVE  Counted(A \cup B)
<1>1. Measured(A \cup B)
  BY MeasuredUnion DEF Counted
<1> QED
  BY <1>1 DEF Counted

LEMMA CountedPart ==
  ASSUME NEW A, Counted(A), NEW B, B \subseteq A
  PROVE  Counted(B)
<1>1. Measured(B)
  BY MeasuredPart DEF Counted
<1> QED
  BY <1>1 DEF Counted

LEMMA DraftsCounted ==
  ASSUME NEW amounts \in SUBSET Amounts, IsFiniteSet(amounts), NEW type,
         NEW dir \in {"IN", "OUT", "INTERNAL"}
  PROVE  Counted(Drafts(type, dir, amounts))
<1>1. Measured(Drafts(type, dir, amounts)) /\ \A l \in Drafts(type, dir, amounts) : l.dir = dir
  BY DraftsMeasured
<1> QED
  BY <1>1 DEF Counted

(* One leg for each amount, of whatever quantity.                           *)
Each(type, dir, amounts, q) == {Entry(type, dir, a.asset, q[a]) : a \in amounts}

LEMMA EachCounted ==
  ASSUME NEW amounts, IsFiniteSet(amounts), NEW type, NEW dir \in {"IN", "OUT", "INTERNAL"},
         NEW q, \A a \in amounts : q[a] \in Nat
  PROVE  Counted(Each(type, dir, amounts, q))
<1>1. PICK f : f = [a \in amounts |-> Entry(type, dir, a.asset, q[a])]
  OBVIOUS
<1>2. PICK T : T = {Entry(type, dir, a.asset, q[a]) : a \in amounts} /\ T = Each(type, dir, amounts, q)
  BY DEF Each
<1>3. IsFiniteSet(T)
  <2>1. {f[a] : a \in amounts} = T
    BY <1>1, <1>2
  <2> QED
    BY <2>1, ImageFinite
<1>4. ASSUME NEW l \in T PROVE l.qty \in Nat /\ l.dir = dir
  <2>1. PICK a \in amounts : l = Entry(type, dir, a.asset, q[a])
    BY <1>2
  <2>2. l.qty = q[a] /\ l.dir = dir
    BY <2>1, EntryFields
  <2> QED
    BY <2>2
<1> QED
  BY <1>2, <1>3, <1>4 DEF Counted, Measured

LEMMA MarksCounted ==
  ASSUME NEW amounts, IsFiniteSet(amounts), NEW type
  PROVE  Counted({Entry(type, "INTERNAL", a.asset, 0) : a \in amounts})
<1>1. PICK q : q = [a \in amounts |-> 0]
  OBVIOUS
<1>2. PICK dir \in {"IN", "OUT", "INTERNAL"} : dir = "INTERNAL"
  OBVIOUS
<1>3. Counted(Each(type, dir, amounts, q))
  <2>1. \A a \in amounts : q[a] \in Nat
    BY <1>1
  <2> QED
    BY <2>1, EachCounted
<1>4. Each(type, dir, amounts, q) = {Entry(type, "INTERNAL", a.asset, 0) : a \in amounts}
  BY <1>1, <1>2 DEF Each
<1> QED
  BY <1>3, <1>4

LEMMA SplitQuantities ==
  ASSUME NEW returned \in Nat, NEW locked \in Nat
  PROVE  LET split == StakeSplit(returned, locked)
         IN  split.principal \in Nat /\ split.yield \in Nat /\ split.penalty \in Nat
BY DEF StakeSplit

(* What a stake returned, every leg there may be.                           *)
LEMMA ReturnsCounted ==
  ASSUME NEW amounts \in SUBSET Amounts, IsFiniteSet(amounts), NEW locked \in Nat
  PROVE  Counted(UNION {ReturnLegs(a, locked) : a \in amounts})
<1>1. PICK p : p = [a \in amounts |-> StakeSplit(a.qty, locked).principal]
  OBVIOUS
<1>2. PICK y : y = [a \in amounts |-> StakeSplit(a.qty, locked).yield]
  OBVIOUS
<1>3. PICK n : n = [a \in amounts |-> StakeSplit(a.qty, locked).penalty]
  OBVIOUS
<1>4. \A a \in amounts : p[a] \in Nat /\ y[a] \in Nat /\ n[a] \in Nat
  <2> SUFFICES ASSUME NEW a \in amounts PROVE p[a] \in Nat /\ y[a] \in Nat /\ n[a] \in Nat
    OBVIOUS
  <2>1. a.qty \in Nat
    BY DEF Amounts
  <2> QED
    BY <2>1, <1>1, <1>2, <1>3, SplitQuantities
<1>5. PICK P : P = Each("STAKE_PRINCIPAL_RETURNED", "IN", amounts, p)
  OBVIOUS
<1>6. PICK Y : Y = Each("STAKE_YIELD_RECEIVED", "IN", amounts, y)
  OBVIOUS
<1>7. PICK N : N = Each("STAKE_PENALTY", "OUT", amounts, n)
  OBVIOUS
<1>8. Counted(P) /\ Counted(Y) /\ Counted(N)
  BY <1>4, <1>5, <1>6, <1>7, EachCounted
<1>9. Counted(P \cup Y \cup N)
  BY <1>8, CountedUnion
<1>10. ASSUME NEW a \in amounts PROVE ReturnLegs(a, locked) \subseteq P \cup Y \cup N
  <2>1. /\ p[a] = StakeSplit(a.qty, locked).principal
        /\ y[a] = StakeSplit(a.qty, locked).yield
        /\ n[a] = StakeSplit(a.qty, locked).penalty
    BY <1>1, <1>2, <1>3
  <2>2. ReturnLegs(a, locked) = Nonzero({Entry("STAKE_PRINCIPAL_RETURNED", "IN", a.asset, p[a]),
               Entry("STAKE_YIELD_RECEIVED", "IN", a.asset, y[a]),
               Entry("STAKE_PENALTY", "OUT", a.asset, n[a])})
    BY <2>1 DEF ReturnLegs
  <2>3. /\ Entry("STAKE_PRINCIPAL_RETURNED", "IN", a.asset, p[a]) \in P
        /\ Entry("STAKE_YIELD_RECEIVED", "IN", a.asset, y[a]) \in Y
        /\ Entry("STAKE_PENALTY", "OUT", a.asset, n[a]) \in N
    BY <1>5, <1>6, <1>7 DEF Each
  <2> QED
    BY <2>2, <2>3 DEF Nonzero
<1> QED
  BY <1>9, <1>10, CountedPart

(* Whatever the action, its legs are finitely many and each has a           *)
(* direction.                                                               *)
LEMMA LegsCounted ==
  ASSUME NEW r, Drafted(r)
  PROVE  Counted(LegsOf(r))
<1>1. /\ r.in \in SUBSET Amounts /\ r.out \in SUBSET Amounts /\ r.locked \in Nat
      /\ IsFiniteSet(r.in) /\ IsFiniteSet(r.out) /\ r.action \in ActionTypes
  BY DEF Drafted, RawActions
<1>2. \A type : Counted(Outgoing(r, type)) /\ Counted(Incoming(r, type))
  BY MovedLegs DEF Counted
<1>3. Counted(FeeLegs(r))
  BY FeeLegsOf DEF Counted
<1>4. CASE r.action = "TRANSFER"
  <2>1. Counted({Entry("INTERNAL_TRANSFER", "INTERNAL", a.asset, a.qty) : a \in Internal(r)})
    <3>1. Internal(r) \in SUBSET Amounts /\ IsFiniteSet(Internal(r))
      BY <1>1, FS_Subset DEF Internal
    <3>2. Counted(Drafts("INTERNAL_TRANSFER", "INTERNAL", Internal(r)))
      BY <3>1, DraftsCounted
    <3> QED
      BY <3>2 DEF Drafts
  <2>2. PICK S : S = {l \in Outgoing(r, "SEND") : [asset |-> l.asset, qty |-> l.qty] \notin Internal(r)}
    OBVIOUS
  <2>3. PICK R : R = {l \in Incoming(r, "RECEIVE") : [asset |-> l.asset, qty |-> l.qty] \notin Internal(r)}
    OBVIOUS
  <2>4. Counted(S) /\ Counted(R)
    BY <1>2, <2>2, <2>3, CountedPart
  <2>5. PICK I : I = {Entry("INTERNAL_TRANSFER", "INTERNAL", a.asset, a.qty) : a \in Internal(r)}
    OBVIOUS
  <2>6. LegsOf(r) = S \cup R \cup I \cup FeeLegs(r)
    BY <1>4, <2>2, <2>3, <2>5 DEF LegsOf, TransferLegs
  <2> QED
    BY <2>1, <2>4, <2>5, <2>6, <1>3, CountedUnion
<1>5. CASE r.action \in {"SWAP", "LP_ADD", "LP_REMOVE"}
  BY <1>2, <1>3, <1>5, CountedUnion DEF LegsOf, SwapLegs, LpAddLegs, LpRemoveLegs
<1>6. CASE r.action = "HEX_STAKE_START"
  <2>1. Counted({Entry("STAKE_START", "INTERNAL", a.asset, 0) : a \in r.out})
    BY <1>1, MarksCounted
  <2> QED
    BY <2>1, <1>2, <1>3, <1>6, CountedUnion DEF LegsOf, StakeStartLegs
<1>7. CASE r.action = "HEX_STAKE_END"
  <2>1. Counted({Entry("STAKE_END", "INTERNAL", a.asset, 0) : a \in r.in})
    BY <1>1, MarksCounted
  <2>2. Counted(UNION {ReturnLegs(a, r.locked) : a \in r.in})
    BY <1>1, ReturnsCounted
  <2>3. PICK back : /\ back = IF r.locked = 0 THEN Incoming(r, "STAKE_RETURN_UNALLOCATED")
                              ELSE UNION {ReturnLegs(a, r.locked) : a \in r.in}
                    /\ Counted(back)
    BY <2>2, <1>2
  <2> QED
    BY <2>1, <2>3, <1>3, <1>7, CountedUnion DEF LegsOf, StakeEndLegs
<1> QED
  BY <1>1, <1>4, <1>5, <1>6, <1>7 DEF ActionTypes

(* Every change of a balance is a number.                                   *)
LEMMA ChangeOf ==
  ASSUME NEW g \in DOMAIN ActionGroups, NEW asset
  PROVE  /\ Measured(Coming(g, asset)) /\ Measured(Leaving(g, asset))
         /\ Change(asset, g) = Quantity(Coming(g, asset)) - Quantity(Leaving(g, asset))
         /\ Change(asset, g) \in Int
<1>1. Counted(LegsOfAsset(g, asset))
  <2>1. Counted(Legs(g))
    BY GroupsDrafted, LegsCounted DEF Legs
  <2> QED
    BY <2>1, CountedPart DEF LegsOfAsset
<1> QED
  BY <1>1, ChangeIsQuantities DEF Counted

-----------------------------------------------------------------------------
(* Profit and loss, group by group.                                         *)

(* The kinds of leg of a transfer or a swap, each with its direction.       *)
LEMMA PlainLegs ==
  ASSUME NEW r, Drafted(r), r.action \in {"TRANSFER", "SWAP"}, NEW l \in LegsOf(r)
  PROVE  \/ l.dir = "IN" /\ l.type \in {"RECEIVE", "SWAP_IN"}
         \/ l.dir = "OUT" /\ l.type \in {"SEND", "SWAP_OUT"}
         \/ l.dir = "OUT" /\ l.type = "FEE"
         \/ l.dir = "INTERNAL" /\ l.type = "INTERNAL_TRANSFER"
<1>1. \A type : /\ \A x \in Outgoing(r, type) : x.type = type /\ x.dir = "OUT"
                /\ \A x \in Incoming(r, type) : x.type = type /\ x.dir = "IN"
  BY MovedLegs
<1>2. \A x \in FeeLegs(r) : x.type = "FEE" /\ x.dir = "OUT"
  BY FeeLegsOf
<1>3. CASE r.action = "SWAP"
  <2>1. l \in Outgoing(r, "SWAP_OUT") \/ l \in Incoming(r, "SWAP_IN") \/ l \in FeeLegs(r)
    BY <1>3 DEF LegsOf, SwapLegs
  <2> QED
    BY <2>1, <1>1, <1>2
<1>4. CASE r.action = "TRANSFER"
  <2>1. \/ l \in Outgoing(r, "SEND") \/ l \in Incoming(r, "RECEIVE") \/ l \in FeeLegs(r)
        \/ \E a \in Internal(r) : l = Entry("INTERNAL_TRANSFER", "INTERNAL", a.asset, a.qty)
    BY <1>4 DEF LegsOf, TransferLegs
  <2>2. CASE \E a \in Internal(r) : l = Entry("INTERNAL_TRANSFER", "INTERNAL", a.asset, a.qty)
    BY <2>2, EntryFields
  <2>3. CASE l \in Outgoing(r, "SEND") \/ l \in Incoming(r, "RECEIVE") \/ l \in FeeLegs(r)
    BY <2>3, <1>1, <1>2
  <2> QED
    BY <2>1, <2>2, <2>3
<1> QED
  BY <1>3, <1>4

(* In a transfer or a swap, what comes and what leaves is what the profit   *)
(* and loss calls the target's legs and its fee.                            *)
LEMMA TargetLegs ==
  ASSUME NEW g \in DOMAIN ActionGroups, NEW asset,
         ActionGroups[g].action \notin LpActions \cup StakeActions
  PROVE  /\ Change(asset, g) = Quantity(TargetIn(g, asset)) - Disposed(g, asset)
         /\ Quantity(TargetIn(g, asset)) \in Int /\ Disposed(g, asset) \in Int
<1>1. PICK L : L = LegsOfAsset(g, asset)
  OBVIOUS
<1>2. \A l \in L : \/ l.dir = "IN" /\ l.type \in {"RECEIVE", "SWAP_IN"}
                   \/ l.dir = "OUT" /\ l.type \in {"SEND", "SWAP_OUT"}
                   \/ l.dir = "OUT" /\ l.type = "FEE"
                   \/ l.dir = "INTERNAL" /\ l.type = "INTERNAL_TRANSFER"
  <2>1. ActionGroups[g].action \in {"TRANSFER", "SWAP"} /\ Drafted(ActionGroups[g])
    BY GroupsDrafted DEF Drafted, RawActions, ActionTypes, LpActions, StakeActions
  <2>2. L \subseteq LegsOf(ActionGroups[g])
    BY <1>1 DEF LegsOfAsset, Legs
  <2> QED
    BY <2>1, <2>2, PlainLegs
<1>3. PICK In : In = TargetIn(g, asset)
  OBVIOUS
<1>4. PICK Out : Out = TargetOut(g, asset)
  OBVIOUS
<1>5. PICK Fee : Fee = TargetFee(g, asset)
  OBVIOUS
<1>6. \A l : /\ l \in In <=> l \in L /\ l.dir = "IN" /\ l.type \in {"RECEIVE", "SWAP_IN"}
             /\ l \in Out <=> l \in L /\ l.dir = "OUT" /\ l.type \in {"SEND", "SWAP_OUT"}
             /\ l \in Fee <=> l \in L /\ l.type = "FEE"
  BY <1>1, <1>3, <1>4, <1>5 DEF TargetIn, TargetOut, TargetFee, OfType
<1>7. \A l : /\ l \in Coming(g, asset) <=> l \in L /\ l.dir = "IN"
             /\ l \in Leaving(g, asset) <=> l \in L /\ l.dir = "OUT"
  BY <1>1 DEF Coming, Leaving
<1>8. Coming(g, asset) = In
  BY <1>2, <1>6, <1>7
<1>9. Leaving(g, asset) = Out \cup Fee
  BY <1>2, <1>6, <1>7
<1>10. Out \cap Fee = {}
  BY <1>6
<1>11. /\ Measured(In) /\ Measured(Out \cup Fee)
       /\ Change(asset, g) = Quantity(In) - Quantity(Out \cup Fee)
  BY <1>8, <1>9, ChangeOf
<1>12. Measured(Out) /\ Measured(Fee)
  BY <1>11, MeasuredPart
<1>13. Quantity(Out \cup Fee) = Quantity(Out) + Quantity(Fee)
  BY <1>10, <1>12, QuantityOfUnion
<1>14. Quantity(In) \in Int /\ Quantity(Out) \in Int /\ Quantity(Fee) \in Int
  BY <1>11, <1>12, QuantityIsInt
<1> QED
  BY <1>3, <1>4, <1>5, <1>11, <1>13, <1>14 DEF Disposed

-----------------------------------------------------------------------------
(* What the walk of the profit and loss may hold, and warn of.              *)
Codes == {"UNSUPPORTED_LP_ACTION", "UNSUPPORTED_STAKE_ACTION", "UNSUPPORTED_ACTION_GROUP",
          "INSUFFICIENT_COST_BASIS", "UNRESOLVED_ECONOMIC_COUPLING",
          "COUNTER_ASSET_PRICE_UNAVAILABLE"}
Pnls == [held : Int, warnings : SUBSET Codes]

LEMMA HeldKeeps ==
  ASSUME NEW pnl \in Pnls, NEW delta \in Int
  PROVE  /\ Held(pnl, delta) \in Pnls /\ Held(pnl, delta).warnings = pnl.warnings
         /\ Held(pnl, delta).held = pnl.held + delta
BY DEF Held, Pnls

LEMMA WarnedKeeps ==
  ASSUME NEW pnl \in Pnls, NEW codes \in SUBSET Codes
  PROVE  /\ Warned(pnl, codes) \in Pnls
         /\ Warned(pnl, codes).warnings = pnl.warnings \cup codes
BY DEF Warned, Pnls

LEMMA RefusedCodes ==
  \A g, asset, dir, gs, obs : Refused(g, asset, dir, gs, obs) \in SUBSET Codes
BY DEF Refused, MissingPrice, Codes

(* A group that leaves no warning changes what is held as it changes the    *)
(* balance; one that leaves a warning is never forgotten.                   *)
LEMMA GroupAgrees ==
  ASSUME NEW g \in DOMAIN ActionGroups, NEW asset, NEW gs, NEW obs, NEW pnl \in Pnls,
         NEW next, next = AddGroup(pnl, g, asset, gs, obs)
  PROVE  /\ next \in Pnls
         /\ next.warnings = {} => /\ pnl.warnings = {}
                                  /\ next.held = pnl.held + Change(asset, g)
<1>1. pnl.held \in Int /\ pnl.warnings \in SUBSET Codes /\ Change(asset, g) \in Int
  BY ChangeOf DEF Pnls
<1>2. ASSUME NEW codes \in SUBSET Codes, codes # {}, next = Warned(pnl, codes)
      PROVE  next \in Pnls /\ next.warnings # {}
  BY <1>2, WarnedKeeps
<1>3. CASE LegsOfAsset(g, asset) = {}
  <2>1. Coming(g, asset) = {} /\ Leaving(g, asset) = {}
    BY <1>3 DEF Coming, Leaving
  <2>2. Quantity({}) = 0
    BY QuantityOfZeros, FS_EmptySet DEF Measured
  <2>3. Change(asset, g) = 0
    BY <2>1, <2>2, ChangeOf
  <2>4. next = pnl
    BY <1>3 DEF AddGroup, AddMovement
  <2> QED
    BY <2>3, <2>4, <1>1
<1>4. CASE LegsOfAsset(g, asset) # {} /\ ActionGroups[g].action \in LpActions
  <2>1. next = Warned(pnl, {"UNSUPPORTED_LP_ACTION"})
    BY <1>4 DEF AddGroup, LpActions, StakeActions
  <2> QED
    BY <2>1, <1>2 DEF Codes
<1>5. CASE LegsOfAsset(g, asset) # {} /\ ActionGroups[g].action \in StakeActions
  <2>1. next = Warned(pnl, {"UNSUPPORTED_STAKE_ACTION"})
    BY <1>5 DEF AddGroup, LpActions, StakeActions
  <2> QED
    BY <2>1, <1>2 DEF Codes
<1>6. CASE /\ LegsOfAsset(g, asset) # {}
           /\ ActionGroups[g].action \notin LpActions \cup StakeActions
  <2>1. PICK in \in Int, off \in Int :
          /\ in = Quantity(TargetIn(g, asset)) /\ off = Disposed(g, asset)
          /\ Change(asset, g) = in - off
    BY <1>6, TargetLegs
  <2>2. Quantity({}) = 0
    BY QuantityOfZeros, FS_EmptySet DEF Measured
  <2>3. CASE \A l \in LegsOfAsset(g, asset) : l.type = "INTERNAL_TRANSFER"
    <3>1. TargetIn(g, asset) = {} /\ TargetOut(g, asset) = {} /\ TargetFee(g, asset) = {}
      BY <2>3 DEF TargetIn, TargetOut, TargetFee, OfType
    <3>2. Change(asset, g) = 0
      BY <3>1, <2>1, <2>2 DEF Disposed
    <3>3. next = pnl
      BY <1>6, <2>3, <3>1 DEF AddGroup, AddMovement
    <3> QED
      BY <3>2, <3>3, <1>1
  <2>4. CASE /\ ~ \A l \in LegsOfAsset(g, asset) : l.type = "INTERNAL_TRANSFER"
             /\ TargetIn(g, asset) # {} /\ TargetOut(g, asset) = {}
             /\ TargetFee(g, asset) = {}
    <3>1. off = 0
      BY <2>1, <2>2, <2>4 DEF Disposed
    <3>2. next = Acquire(pnl, g, asset, gs, obs)
      BY <1>6, <2>4 DEF AddGroup, AddMovement
    <3>3. PICK no \in SUBSET Codes : no = Refused(g, asset, "OUT", gs, obs)
      BY RefusedCodes
    <3>4. CASE no = {}
      <4>1. next = Held(pnl, in)
        BY <3>2, <3>3, <3>4, <2>1 DEF Acquire
      <4> QED
        BY <4>1, <3>1, <2>1, <1>1, HeldKeeps
    <3>5. CASE no # {}
      <4>1. next = Warned(pnl, no)
        BY <3>2, <3>3, <3>5 DEF Acquire
      <4> QED
        BY <4>1, <3>5, <1>2
    <3> QED
      BY <3>4, <3>5
  <2>5. CASE /\ ~ \A l \in LegsOfAsset(g, asset) : l.type = "INTERNAL_TRANSFER"
             /\ TargetOut(g, asset) # {} /\ TargetIn(g, asset) = {}
    <3>1. in = 0
      BY <2>1, <2>2, <2>5
    <3>2. next = Dispose(pnl, g, asset, gs, obs)
      BY <1>6, <2>5 DEF AddGroup, AddMovement
    <3>3. PICK no \in SUBSET Codes :
            no = IF Disposed(g, asset) > pnl.held THEN {"INSUFFICIENT_COST_BASIS"}
                 ELSE Refused(g, asset, "IN", gs, obs)
      BY RefusedCodes DEF Codes
    <3>4. CASE no = {}
      <4>1. next = Held(pnl, -off)
        BY <3>2, <3>3, <3>4, <2>1 DEF Dispose
      <4>2. -off \in Int
        OBVIOUS
      <4>3. next \in Pnls /\ next.warnings = pnl.warnings /\ next.held = pnl.held + (-off)
        BY <4>1, <4>2, HeldKeeps
      <4> QED
        BY <4>3, <3>1, <2>1, <1>1
    <3>5. CASE no # {}
      <4>1. next = Warned(pnl, no)
        BY <3>2, <3>3, <3>5 DEF Dispose
      <4> QED
        BY <4>1, <3>5, <1>2
    <3> QED
      BY <3>4, <3>5
  <2>6. CASE /\ ~ \A l \in LegsOfAsset(g, asset) : l.type = "INTERNAL_TRANSFER"
             /\ ~ /\ TargetIn(g, asset) # {} /\ TargetOut(g, asset) = {}
                  /\ TargetFee(g, asset) = {}
             /\ ~ (TargetOut(g, asset) # {} /\ TargetIn(g, asset) = {})
    <3>1. next = Warned(pnl, {"UNSUPPORTED_ACTION_GROUP"})
      BY <1>6, <2>6 DEF AddGroup, AddMovement
    <3> QED
      BY <3>1, <1>2 DEF Codes
  <2> QED
    BY <2>3, <2>4, <2>5, <2>6
<1> QED
  BY <1>3, <1>4, <1>5, <1>6


(* Of numbers there is a least.                                             *)
LEMMA LeastNatural ==
  ASSUME NEW T, T \subseteq Nat, T # {}
  PROVE  \E n \in T : \A m \in T : ~(m < n)
<1>1. PICK n \in T : \A m \in T : ~(<<m, n>> \in OpToRel(<, Nat))
  BY NatLessThanWellFounded, WFMin
<1> QED
  BY <1>1 DEF OpToRel

(* The walk of the profit and loss, up to the m-th of the groups.           *)
Step(u, n, asset, gs, obs) ==
  IF n = 0 THEN [held |-> 0, warnings |-> {}]
  ELSE IF n \in gs THEN AddGroup(u[n - 1], n, asset, gs, obs) ELSE u[n - 1]
Walked(u, m, asset, gs, obs) == u = [n \in 0 .. m |-> Step(u, n, asset, gs, obs)]

(* The walk of the profit and loss is well defined for any number of        *)
(* groups.                                                                  *)
LEMMA WalkExists ==
  ASSUME NEW asset, NEW gs, NEW obs
  PROVE  \A m \in Nat : \E u : Walked(u, m, asset, gs, obs)
<1> SUFFICES ASSUME NEW bad \in Nat, ~ \E u : Walked(u, bad, asset, gs, obs) PROVE FALSE
  OBVIOUS
<1>1. PICK T : T = {m \in Nat : ~ \E u : Walked(u, m, asset, gs, obs)}
  OBVIOUS
<1>2. PICK n \in T : \A m \in T : ~(m < n)
  BY <1>1, LeastNatural
<1>3. n \in Nat /\ ~ \E u : Walked(u, n, asset, gs, obs)
  BY <1>1, <1>2
<1>4. CASE n = 0
  <2>1. PICK u : u = [k \in 0 .. 0 |-> [held |-> 0, warnings |-> {}]]
    OBVIOUS
  <2>2. \A k \in 0 .. 0 : Step(u, k, asset, gs, obs) = [held |-> 0, warnings |-> {}]
    BY DEF Step
  <2>3. Walked(u, 0, asset, gs, obs)
    BY <2>1, <2>2 DEF Walked
  <2> QED
    BY <2>3, <1>3, <1>4
<1>5. CASE n # 0
  <2>1. n - 1 \in Nat /\ n - 1 < n
    BY <1>3, <1>5
  <2>2. PICK v : Walked(v, n - 1, asset, gs, obs)
    BY <2>1, <1>1, <1>2
  <2>3. v = [k \in 0 .. (n - 1) |-> Step(v, k, asset, gs, obs)]
    BY <2>2 DEF Walked
  <2>4. PICK u : u = [k \in 0 .. n |-> IF k = n THEN Step(v, n, asset, gs, obs) ELSE v[k]]
    OBVIOUS
  <2>5. \A k \in 0 .. (n - 1) : u[k] = v[k]
    BY <2>4, <1>3
  <2>6. \A k \in 0 .. n : Step(u, k, asset, gs, obs) = Step(v, k, asset, gs, obs)
    <3> SUFFICES ASSUME NEW k \in 0 .. n, k # 0
                 PROVE  Step(u, k, asset, gs, obs) = Step(v, k, asset, gs, obs)
      BY DEF Step
    <3>1. k - 1 \in 0 .. (n - 1)
      BY <1>3
    <3>2. u[k - 1] = v[k - 1]
      BY <3>1, <2>5
    <3> QED
      BY <3>2 DEF Step
  <2>7. \A k \in 0 .. n : u[k] = Step(v, k, asset, gs, obs)
    <3> SUFFICES ASSUME NEW k \in 0 .. n PROVE u[k] = Step(v, k, asset, gs, obs)
      OBVIOUS
    <3>1. CASE k = n
      BY <3>1, <2>4
    <3>2. CASE k # n
      <4>1. k \in 0 .. (n - 1)
        BY <3>2, <1>3
      <4> QED
        BY <4>1, <2>3, <2>5
    <3> QED
      BY <3>1, <3>2
  <2>8. u = [k \in 0 .. n |-> Step(u, k, asset, gs, obs)]
    <3>1. \A k \in 0 .. n : u[k] = Step(u, k, asset, gs, obs)
      BY <2>6, <2>7
    <3>2. DOMAIN u = 0 .. n /\ u = [k \in DOMAIN u |-> u[k]]
      BY <2>4
    <3> QED
      BY <3>1, <3>2
  <2> QED
    BY <2>8, <1>3 DEF Walked
<1> QED
  BY <1>4, <1>5

LEMMA GroupsNumbered == AsOf \in Nat /\ DOMAIN ActionGroups = 1 .. AsOf
BY PortfolioAssumption DEF AsOf

(* A balance, one group later.                                              *)
LEMMA BalanceIsSum ==
  ASSUME NEW gs \in SUBSET DOMAIN ActionGroups, NEW asset
  PROVE  /\ Balance(asset, gs)
              = SumFunctionOnSet([g \in DOMAIN ActionGroups |-> Change(asset, g)], gs)
         /\ Integral([g \in DOMAIN ActionGroups |-> Change(asset, g)], gs)
<1>1. PICK k : k = [g \in DOMAIN ActionGroups |-> Change(asset, g)]
  OBVIOUS
<1>2. PICK f : f = [g \in gs |-> Change(asset, g)]
  OBVIOUS
<1>3. IsFiniteSet(gs)
  <2>1. IsFiniteSet(DOMAIN ActionGroups)
    BY GroupsNumbered, FS_Interval
  <2> QED
    BY <2>1, FS_Subset
<1>4. DOMAIN f = gs /\ \A g \in gs : f[g] = k[g]
  BY <1>1, <1>2
<1>5. Balance(asset, gs) = SumFunctionOnSet(f, gs)
  BY <1>2, <1>4 DEF Balance, SumFunction
<1>6. SumFunctionOnSet(f, gs) = SumFunctionOnSet(k, gs)
  BY <1>3, <1>4, SumAgrees
<1>7. \A g \in gs : k[g] \in Int
  BY <1>1, ChangeOf
<1> QED
  BY <1>1, <1>3, <1>5, <1>6, <1>7 DEF Integral

LEMMA BalanceGrows ==
  ASSUME NEW gs \in SUBSET DOMAIN ActionGroups, NEW asset, NEW g \in gs
  PROVE  /\ Balance(asset, gs) = Balance(asset, gs \ {g}) + Change(asset, g)
         /\ Balance(asset, gs \ {g}) \in Int
<1>1. PICK k : k = [h \in DOMAIN ActionGroups |-> Change(asset, h)]
  OBVIOUS
<1>2. PICK rest \in SUBSET DOMAIN ActionGroups : rest = gs \ {g}
  OBVIOUS
<1>3. /\ Balance(asset, gs) = SumFunctionOnSet(k, gs) /\ Integral(k, gs)
      /\ Balance(asset, rest) = SumFunctionOnSet(k, rest) /\ Integral(k, rest)
  BY <1>1, BalanceIsSum
<1>4. SumFunctionOnSet(k, gs) = k[g] + SumFunctionOnSet(k, rest)
  BY <1>2, <1>3, SumTakesOut
<1>5. k[g] = Change(asset, g) /\ k[g] \in Int
  BY <1>1, ChangeOf
<1>6. SumFunctionOnSet(k, rest) \in Int
  BY <1>3, SumIsInt
<1> QED
  BY <1>2, <1>3, <1>4, <1>5, <1>6

(* As long as the walk has left no warning, it holds the balance of the     *)
(* groups it has passed.                                                    *)
LEMMA WalkAgrees ==
  ASSUME NEW gs \in SUBSET DOMAIN ActionGroups, NEW asset, NEW obs,
         NEW u, Walked(u, AsOf, asset, gs, obs)
  PROVE  /\ u[AsOf] \in Pnls
         /\ u[AsOf].warnings = {} => u[AsOf].held = Balance(asset, gs)
<1> DEFINE Passed(n) == gs \cap (1 .. n)
           Agrees(n) == /\ u[n] \in Pnls
                        /\ u[n].warnings = {} => u[n].held = Balance(asset, Passed(n))
<1>1. AsOf \in Nat /\ DOMAIN ActionGroups = 1 .. AsOf
  BY GroupsNumbered
<1>2. \A n \in 0 .. AsOf : u[n] = Step(u, n, asset, gs, obs)
  BY DEF Walked
<1>3. Agrees(0)
  <2>1. Passed(0) = {}
    OBVIOUS
  <2>2. Balance(asset, {}) = 0
    BY BalanceIsSum, SumEmpty
  <2>3. u[0] = [held |-> 0, warnings |-> {}]
    BY <1>1, <1>2 DEF Step
  <2> QED
    BY <2>1, <2>2, <2>3 DEF Pnls
<1>4. ASSUME NEW n \in 1 .. AsOf, Agrees(n - 1) PROVE Agrees(n)
  <2>1. n \in 0 .. AsOf /\ n # 0
    BY <1>1
  <2>2. CASE n \notin gs
    <3>1. u[n] = u[n - 1]
      BY <2>1, <2>2, <1>2 DEF Step
    <3>2. Passed(n) = Passed(n - 1)
      BY <2>2, <1>1
    <3> QED
      BY <3>1, <3>2, <1>4
  <2>3. CASE n \in gs
    <3>1. u[n] = AddGroup(u[n - 1], n, asset, gs, obs)
      BY <2>1, <2>3, <1>2 DEF Step
    <3>2. n \in Passed(n) /\ Passed(n) \ {n} = Passed(n - 1) /\ Passed(n) \in SUBSET DOMAIN ActionGroups
      BY <2>3, <1>1
    <3>3. PICK pnl \in Pnls : pnl = u[n - 1]
      BY <1>4
    <3>4. /\ u[n] \in Pnls
          /\ u[n].warnings = {} => pnl.warnings = {} /\ u[n].held = pnl.held + Change(asset, n)
      BY <3>1, <3>3, <2>3, GroupAgrees
    <3>5. PICK before, after : before = Passed(n - 1) /\ after = Passed(n)
      OBVIOUS
    <3>6. Balance(asset, after) = Balance(asset, before) + Change(asset, n)
      BY <3>2, <3>5, BalanceGrows
    <3>7. pnl.warnings = {} => pnl.held = Balance(asset, before)
      BY <3>3, <3>5, <1>4
    <3>8. u[n].warnings = {} => u[n].held = Balance(asset, after)
      BY <3>4, <3>6, <3>7
    <3> QED
      BY <3>4, <3>5, <3>8
  <2> QED
    BY <2>2, <2>3
<1> HIDE DEF Agrees
<1>5. \A n \in 0 .. AsOf : Agrees(n)
  <2> SUFFICES ASSUME NEW bad \in 0 .. AsOf, ~Agrees(bad) PROVE FALSE
    OBVIOUS
  <2>1. PICK T : T = {n \in 0 .. AsOf : ~Agrees(n)}
    OBVIOUS
  <2>2. PICK n \in T : \A m \in T : ~(m < n)
    BY <2>1, LeastNatural
  <2>3. n \in 1 .. AsOf
    BY <2>1, <2>2, <1>1, <1>3
  <2>4. n - 1 \in 0 .. AsOf /\ n - 1 < n
    BY <2>3, <1>1
  <2>5. Agrees(n - 1)
    BY <2>1, <2>2, <2>4
  <2> QED
    BY <2>1, <2>2, <2>3, <2>5, <1>4
<1>6. Agrees(AsOf) /\ Passed(AsOf) = gs
  BY <1>1, <1>5
<1> QED
  BY <1>6 DEF Agrees

LEMMA PriceStatusOf ==
  \A obs, asset : ~Priced({asset}, AsOf, obs) => PriceStatus(obs, asset, AsOf) # "available"
BY DEF Priced, PriceStatus

(* No ledger has a token whose profit and loss is called available and that *)
(* is not held in the quantity of its balance.                              *)
LEMMA NoneDisagrees == Disagreeing = {}
<1> SUFFICES ASSUME NEW gs \in Ledgers, NEW asset, NEW obs,
                    TokenPnl(asset, gs, obs).status = "available"
             PROVE  TokenPnl(asset, gs, obs).held = Balance(asset, gs)
  BY DEF Disagreeing
<1>1. gs \in SUBSET DOMAIN ActionGroups
  BY PortfolioAssumption
<1>2. PICK u : /\ u = CHOOSE v : Walked(v, AsOf, asset, gs, obs)
               /\ Walked(u, AsOf, asset, gs, obs)
  BY WalkExists, GroupsNumbered
<1>3. PICK groups \in Pnls : /\ groups = u[AsOf]
                             /\ groups.warnings = {} => groups.held = Balance(asset, gs)
  BY <1>1, <1>2, WalkAgrees
<1>4. PICK pnl : pnl = AverageCostPnl(asset, gs, obs)
  OBVIOUS
<1>5. pnl = IF Priced({asset}, AsOf, obs) THEN groups ELSE Warned(groups, {"MARK_PRICE_UNAVAILABLE"})
  <2>1. PICK w :
          w = CHOOSE v : v = [n \in 0 .. AsOf |->
                IF n = 0 THEN [held |-> 0, warnings |-> {}]
                ELSE IF n \in gs THEN AddGroup(v[n - 1], n, asset, gs, obs) ELSE v[n - 1]]
    OBVIOUS
  <2>2. pnl = IF Priced({asset}, AsOf, obs) THEN w[AsOf]
              ELSE Warned(w[AsOf], {"MARK_PRICE_UNAVAILABLE"})
    BY <2>1, <1>4 DEF AverageCostPnl
  <2>3. w = u
    BY <2>1, <1>2 DEF Walked, Step
  <2> QED
    BY <2>2, <2>3, <1>3
<1>6. /\ TokenPnl(asset, gs, obs).held = pnl.held
      /\ PnlStatus(pnl, PriceStatus(obs, asset, AsOf)) = "available"
  BY <1>4 DEF TokenPnl
<1>7. CASE Priced({asset}, AsOf, obs)
  <2>1. pnl = groups
    BY <1>5, <1>7
  <2>2. "MARK_PRICE_UNAVAILABLE" \notin groups.warnings
    BY DEF Pnls, Codes
  <2>3. groups.warnings = {}
    BY <2>1, <2>2, <1>6 DEF PnlStatus
  <2> QED
    BY <2>1, <2>3, <1>3, <1>6
<1>8. CASE ~Priced({asset}, AsOf, obs)
  <2>1. pnl.warnings = groups.warnings \cup {"MARK_PRICE_UNAVAILABLE"}
    BY <1>5, <1>8 DEF Warned, Pnls
  <2>2. PriceStatus(obs, asset, AsOf) # "available"
    BY <1>8, PriceStatusOf
  <2>3. PnlStatus(pnl, PriceStatus(obs, asset, AsOf)) # "available"
    BY <2>1, <2>2 DEF PnlStatus
  <2> QED
    BY <2>3, <1>6
<1> QED
  BY <1>7, <1>8

-----------------------------------------------------------------------------
(* What a group changes a balance by.                                       *)

(* The legs of a penalty, and what they are of.                             *)
PenaltyLegs(g, asset) == {l \in LegsOfAsset(g, asset) : l.type = "STAKE_PENALTY"}
PenaltiesOf(asset, gs) == SumFunction([g \in gs |-> Quantity(PenaltyLegs(g, asset))])

(* The actions the normalizers are given: nothing comes in where a stake    *)
(* starts and nothing leaves where it ends, in one amount of a token.       *)
StakesAlone ==
  \A g \in DOMAIN ActionGroups :
    /\ ActionGroups[g].action = "HEX_STAKE_START" => ActionGroups[g].in = {}
    /\ ActionGroups[g].action = "HEX_STAKE_END" =>
         /\ ActionGroups[g].out = {}
         /\ \A a, b \in ActionGroups[g].in : a.asset = b.asset => a = b

Paid(r, asset) == IF asset = FeeAsset THEN r.fee ELSE 0

LEMMA FeeOfAsset ==
  ASSUME NEW r, Drafted(r), NEW asset
  PROVE  /\ Measured(OfAsset(FeeLegs(r), asset))
         /\ Quantity(OfAsset(FeeLegs(r), asset)) = Paid(r, asset)
<1>1. /\ Measured(FeeLegs(r)) /\ Quantity(FeeLegs(r)) = r.fee
      /\ \A l \in FeeLegs(r) : l.asset = FeeAsset
  BY FeeLegsOf
<1>2. Measured(OfAsset(FeeLegs(r), asset))
  BY <1>1, MeasuredPart DEF OfAsset
<1>3. CASE asset = FeeAsset
  <2>1. OfAsset(FeeLegs(r), asset) = FeeLegs(r)
    BY <1>1, <1>3 DEF OfAsset
  <2> QED
    BY <1>1, <1>2, <1>3, <2>1 DEF Paid
<1>4. CASE asset # FeeAsset
  <2>1. OfAsset(FeeLegs(r), asset) = {}
    BY <1>1, <1>4 DEF OfAsset
  <2> QED
    BY <1>2, <1>4, <2>1, QuantityOfZeros DEF Paid
<1> QED
  BY <1>3, <1>4

(* What moved of an asset, drafted as legs that are all of it.              *)
LEMMA MovedOfAsset ==
  ASSUME NEW amounts \in SUBSET Amounts, IsFiniteSet(amounts), NEW asset, NEW type, NEW dir
  PROVE  /\ Measured(OfAsset(Drafts(type, dir, amounts), asset))
         /\ Quantity(OfAsset(Drafts(type, dir, amounts), asset)) = QuantityIn(amounts, asset)
         /\ Measured(OfAsset(amounts, asset))
         /\ QuantityIn(amounts, asset) = Quantity(OfAsset(amounts, asset))
         /\ QuantityIn(amounts, asset) \in Int
<1>1. PICK own \in SUBSET Amounts : own = OfAsset(amounts, asset) /\ IsFiniteSet(own)
  <2>1. OfAsset(amounts, asset) \in SUBSET Amounts /\ OfAsset(amounts, asset) \in SUBSET amounts
    BY DEF OfAsset
  <2> QED
    BY <2>1, FS_Subset
<1>2. /\ Measured(own) /\ Measured(Drafts(type, dir, own))
      /\ Quantity(Drafts(type, dir, own)) = Quantity(own)
  BY <1>1, DraftsMeasured
<1>3. OfAsset(Drafts(type, dir, amounts), asset) = Drafts(type, dir, own)
  <2>1. \A s : OfAsset(Drafts(type, dir, s), asset) = Drafts(type, dir, OfAsset(s, asset))
    BY DraftsOfAsset
  <2>2. OfAsset(Drafts(type, dir, amounts), asset) = Drafts(type, dir, OfAsset(amounts, asset))
    BY ONLY <2>1
  <2> QED
    BY <2>2, <1>1
<1>4. QuantityIn(amounts, asset) = Quantity(own)
  BY <1>1 DEF QuantityIn, OfAsset
<1>5. Quantity(own) \in Int
  BY <1>2, QuantityIsInt
<1> QED
  BY <1>1, <1>2, <1>3, <1>4, <1>5

(* The legs of an asset by what they are: those that came, those that left, *)
(* the fee, and a penalty.                                                  *)
Parts(g, asset, In, Out, Lost) ==
  /\ Measured(Out) /\ Measured(Lost)
  /\ \A l \in Out : l.type \notin {"FEE", "STAKE_PENALTY"}
  /\ \A l \in Lost : l.type = "STAKE_PENALTY"
  /\ Coming(g, asset) = In
  /\ Leaving(g, asset) = (Out \cup OfAsset(FeeLegs(ActionGroups[g]), asset)) \cup Lost

LEMMA ChangeOfParts ==
  ASSUME NEW g \in DOMAIN ActionGroups, NEW asset, NEW In, NEW Out, NEW Lost,
         Parts(g, asset, In, Out, Lost)
  PROVE  Change(asset, g) = Quantity(In) - Quantity(Out) - Paid(ActionGroups[g], asset)
                              - Quantity(Lost)
<1>1. PICK Fee : Fee = OfAsset(FeeLegs(ActionGroups[g]), asset)
  OBVIOUS
<1>2. Measured(Fee) /\ Quantity(Fee) = Paid(ActionGroups[g], asset)
  BY <1>1, FeeOfAsset, GroupsDrafted
<1>3. \A l \in Fee : l.type = "FEE"
  BY <1>1, FeeLegsOf, GroupsDrafted DEF OfAsset
<1>4. Out \cap Fee = {} /\ (Out \cup Fee) \cap Lost = {} /\ Measured(Out) /\ Measured(Lost)
  BY <1>3 DEF Parts
<1>5. Measured(Out \cup Fee) /\ Quantity(Out \cup Fee) = Quantity(Out) + Quantity(Fee)
  BY <1>2, <1>4, MeasuredUnion, QuantityOfUnion
<1>6. Quantity((Out \cup Fee) \cup Lost) = Quantity(Out \cup Fee) + Quantity(Lost)
  BY <1>4, <1>5, QuantityOfUnion
<1>7. /\ Measured(In)
      /\ Change(asset, g) = Quantity(In) - Quantity((Out \cup Fee) \cup Lost)
  BY <1>1, ChangeOf DEF Parts
<1>8. /\ Quantity(In) \in Int /\ Quantity(Out) \in Int /\ Quantity(Fee) \in Int
      /\ Quantity(Lost) \in Int
  BY <1>2, <1>4, <1>7, QuantityIsInt
<1> QED
  BY <1>2, <1>5, <1>6, <1>7, <1>8

LEMMA NothingMeasured == Measured({}) /\ Quantity({}) = 0
BY QuantityOfZeros, FS_EmptySet DEF Measured

(* What a group changes a balance by is what it moved, less a penalty.      *)
Explained(g, asset) ==
  Change(asset, g) = MovedBy(ActionGroups[g], asset) - Quantity(PenaltyLegs(g, asset))

(* An action that drafts what came and what left as it is, beside legs that *)
(* move nothing.                                                            *)
AsItIs(g, in, out, came, left, inner) ==
  /\ came \in SUBSET Amounts /\ left \in SUBSET Amounts
  /\ IsFiniteSet(came) /\ IsFiniteSet(left)
  /\ out \notin {"FEE", "STAKE_PENALTY"} /\ in # "STAKE_PENALTY"
  /\ \A l \in inner : l.dir = "INTERNAL" /\ l.type # "STAKE_PENALTY"
  /\ Legs(g) = ((Drafts(out, "OUT", left) \cup Drafts(in, "IN", came)) \cup inner)
                 \cup FeeLegs(ActionGroups[g])

LEMMA DraftedExplained ==
  ASSUME NEW g \in DOMAIN ActionGroups, NEW asset, NEW in, NEW out, NEW came, NEW left,
         NEW Inner, AsItIs(g, in, out, came, left, Inner)
  PROVE  /\ Change(asset, g) = QuantityIn(came, asset) - QuantityIn(left, asset)
                                 - Paid(ActionGroups[g], asset)
         /\ Quantity(PenaltyLegs(g, asset)) = 0
<1>0. /\ came \in SUBSET Amounts /\ left \in SUBSET Amounts
      /\ IsFiniteSet(came) /\ IsFiniteSet(left)
      /\ out \notin {"FEE", "STAKE_PENALTY"} /\ in # "STAKE_PENALTY"
      /\ \A l \in Inner : l.dir = "INTERNAL" /\ l.type # "STAKE_PENALTY"
      /\ Legs(g) = ((Drafts(out, "OUT", left) \cup Drafts(in, "IN", came)) \cup Inner)
                     \cup FeeLegs(ActionGroups[g])
  BY DEF AsItIs
<1>1. PICK In : In = Drafts(in, "IN", came)
  OBVIOUS
<1>2. PICK Out : Out = Drafts(out, "OUT", left)
  OBVIOUS
<1>3. PICK Fee : Fee = FeeLegs(ActionGroups[g])
  OBVIOUS
<1>4. /\ \A l \in In : l.dir = "IN" /\ l.type # "STAKE_PENALTY"
      /\ \A l \in Out : l.dir = "OUT" /\ l.type \notin {"FEE", "STAKE_PENALTY"}
  BY <1>0, <1>1, <1>2, DraftsMeasured
<1>5. \A l \in Fee : l.dir = "OUT" /\ l.type # "STAKE_PENALTY"
  BY <1>3, FeeLegsOf, GroupsDrafted
<1>6. LegsOfAsset(g, asset) = {l \in Out \cup In \cup Inner \cup Fee : l.asset = asset}
  BY <1>0, <1>1, <1>2, <1>3 DEF LegsOfAsset
<1>7. \A l : l \in LegsOfAsset(g, asset) <=> l.asset = asset /\ (l \in Out \/ l \in In \/ l \in Inner \/ l \in Fee)
  BY <1>6
<1>8. Coming(g, asset) = OfAsset(In, asset)
  BY <1>0, <1>4, <1>5, <1>7 DEF Coming, OfAsset
<1>9. Leaving(g, asset) = OfAsset(Out, asset) \cup OfAsset(Fee, asset) \cup {}
  BY <1>0, <1>4, <1>5, <1>7 DEF Leaving, OfAsset
<1>10. PenaltyLegs(g, asset) = {}
  BY <1>0, <1>4, <1>5, <1>7 DEF PenaltyLegs
<1>11. /\ Measured(OfAsset(In, asset)) /\ Quantity(OfAsset(In, asset)) = QuantityIn(came, asset)
       /\ Measured(OfAsset(Out, asset)) /\ Quantity(OfAsset(Out, asset)) = QuantityIn(left, asset)
       /\ QuantityIn(came, asset) \in Int /\ QuantityIn(left, asset) \in Int
  BY <1>0, <1>1, <1>2, MovedOfAsset
<1>12. \A l \in OfAsset(Out, asset) : l.type \notin {"FEE", "STAKE_PENALTY"}
  BY <1>4 DEF OfAsset
<1>13. Change(asset, g) = Quantity(OfAsset(In, asset)) - Quantity(OfAsset(Out, asset))
                            - Paid(ActionGroups[g], asset) - Quantity({})
  <2>1. Parts(g, asset, OfAsset(In, asset), OfAsset(Out, asset), {})
    BY <1>3, <1>8, <1>9, <1>11, <1>12, NothingMeasured DEF Parts
  <2> QED
    BY <2>1, ChangeOfParts
<1>14. Paid(ActionGroups[g], asset) \in Int
  BY GroupsDrafted DEF Paid, Drafted, RawActions
<1> QED
  BY <1>0, <1>10, <1>11, <1>13, <1>14, NothingMeasured


LEMMA ExplainedByDrafts ==
  ASSUME NEW g \in DOMAIN ActionGroups, NEW asset, NEW d \in Int,
         Change(asset, g) = d - Paid(ActionGroups[g], asset),
         Quantity(PenaltyLegs(g, asset)) = 0,
         d = QuantityIn(ActionGroups[g].in, asset) - QuantityIn(ActionGroups[g].out, asset)
  PROVE  Explained(g, asset)
<1>1. Paid(ActionGroups[g], asset) \in Int
  BY GroupsDrafted DEF Paid, Drafted, RawActions
<1> QED
  BY <1>1 DEF Explained, MovedBy, Paid

(* A swap, or liquidity that is added or removed.                           *)
LEMMA SwapExplained ==
  ASSUME NEW g \in DOMAIN ActionGroups, NEW asset,
         ActionGroups[g].action \in {"SWAP", "LP_ADD", "LP_REMOVE"}
  PROVE  Explained(g, asset)
<1>1. PICK r : r = ActionGroups[g] /\ Drafted(r)
  BY GroupsDrafted
<1>2. PICK came \in SUBSET Amounts, left \in SUBSET Amounts :
        came = r.in /\ left = r.out /\ IsFiniteSet(came) /\ IsFiniteSet(left)
  BY <1>1 DEF Drafted, RawActions
<1>3. PICK in, out :
        /\ out \notin {"FEE", "STAKE_PENALTY"} /\ in # "STAKE_PENALTY"
        /\ LegsOf(r) = Outgoing(r, out) \cup Incoming(r, in) \cup FeeLegs(r)
  <2>1. CASE r.action = "SWAP"
    <3>1. LegsOf(r) = Outgoing(r, "SWAP_OUT") \cup Incoming(r, "SWAP_IN") \cup FeeLegs(r)
      BY <2>1 DEF LegsOf, SwapLegs
    <3> QED
      BY <3>1
  <2>2. CASE r.action = "LP_ADD"
    <3>1. LegsOf(r) = Outgoing(r, "LP_ADD_OUT") \cup Incoming(r, "LP_ADD_IN") \cup FeeLegs(r)
      BY <2>2 DEF LegsOf, LpAddLegs
    <3> QED
      BY <3>1
  <2>3. CASE r.action = "LP_REMOVE"
    <3>1. LegsOf(r) = Outgoing(r, "LP_REMOVE_OUT") \cup Incoming(r, "LP_REMOVE_IN") \cup FeeLegs(r)
      BY <2>3 DEF LegsOf, LpRemoveLegs
    <3> QED
      BY <3>1
  <2> QED
    BY <1>1, <2>1, <2>2, <2>3
<1>4. Legs(g) = ((Drafts(out, "OUT", left) \cup Drafts(in, "IN", came)) \cup {})
                  \cup FeeLegs(ActionGroups[g])
  <2>1. Outgoing(r, out) = Drafts(out, "OUT", left) /\ Incoming(r, in) = Drafts(in, "IN", came)
    BY <1>2 DEF Outgoing, Incoming, Drafts
  <2> QED
    BY <2>1, <1>1, <1>3 DEF Legs
<1>5. /\ Change(asset, g) = QuantityIn(came, asset) - QuantityIn(left, asset)
                              - Paid(ActionGroups[g], asset)
      /\ Quantity(PenaltyLegs(g, asset)) = 0
  <2>1. \A l \in {} : l.dir = "INTERNAL" /\ l.type # "STAKE_PENALTY"
    OBVIOUS
  <2>2. AsItIs(g, in, out, came, left, {})
    BY <2>1, <1>2, <1>3, <1>4 DEF AsItIs
  <2> QED
    BY <2>2, DraftedExplained
<1>6. PICK d \in Int : d = QuantityIn(came, asset) - QuantityIn(left, asset)
  BY <1>2, MovedOfAsset
<1>7. came = ActionGroups[g].in /\ left = ActionGroups[g].out
  BY <1>1, <1>2
<1> QED
  BY <1>5, <1>6, <1>7, ExplainedByDrafts

(* The start of a stake, into which nothing comes.                          *)
LEMMA StartExplained ==
  ASSUME NEW g \in DOMAIN ActionGroups, NEW asset,
         ActionGroups[g].action = "HEX_STAKE_START", ActionGroups[g].in = {}
  PROVE  Explained(g, asset)
<1>1. PICK r : r = ActionGroups[g] /\ Drafted(r)
  BY GroupsDrafted
<1>2. PICK came \in SUBSET Amounts, left \in SUBSET Amounts :
        came = r.in /\ left = r.out /\ IsFiniteSet(came) /\ IsFiniteSet(left)
  BY <1>1 DEF Drafted, RawActions
<1>3. PICK Marks : Marks = {Entry("STAKE_START", "INTERNAL", a.asset, 0) : a \in left}
  OBVIOUS
<1>4. ASSUME NEW l \in Marks PROVE l.dir = "INTERNAL" /\ l.type # "STAKE_PENALTY"
  <2>1. PICK a \in left : l = Entry("STAKE_START", "INTERNAL", a.asset, 0)
    BY <1>3
  <2> QED
    BY <2>1, EntryFields
<1>5. PICK in, out : in = "NONE" /\ out = "STAKE_PRINCIPAL_LOCKED"
  OBVIOUS
<1>6. Legs(g) = ((Drafts(out, "OUT", left) \cup Drafts(in, "IN", came)) \cup Marks)
                  \cup FeeLegs(ActionGroups[g])
  <2>1. Outgoing(r, out) = Drafts(out, "OUT", left) /\ Drafts(in, "IN", came) = {}
    BY <1>1, <1>2 DEF Outgoing, Drafts
  <2>2. LegsOf(r) = Marks \cup Outgoing(r, out) \cup FeeLegs(r)
    BY <1>1, <1>2, <1>3, <1>5 DEF LegsOf, StakeStartLegs
  <2> QED
    BY <2>1, <2>2, <1>1 DEF Legs
<1>7. /\ Change(asset, g) = QuantityIn(came, asset) - QuantityIn(left, asset)
                              - Paid(ActionGroups[g], asset)
      /\ Quantity(PenaltyLegs(g, asset)) = 0
  <2>1. AsItIs(g, in, out, came, left, Marks)
    BY <1>2, <1>4, <1>5, <1>6 DEF AsItIs
  <2> QED
    BY <2>1, DraftedExplained
<1>8. PICK d \in Int : d = QuantityIn(came, asset) - QuantityIn(left, asset)
  BY <1>2, MovedOfAsset
<1>9. came = ActionGroups[g].in /\ left = ActionGroups[g].out
  BY <1>1, <1>2
<1> QED
  BY <1>7, <1>8, <1>9, ExplainedByDrafts

(* A transfer: what left for the wallet itself counts on neither side.      *)
LEMMA TransferExplained ==
  ASSUME NEW g \in DOMAIN ActionGroups, NEW asset, ActionGroups[g].action = "TRANSFER"
  PROVE  Explained(g, asset)
<1>1. PICK r : r = ActionGroups[g] /\ Drafted(r)
  BY GroupsDrafted
<1>2. PICK I : I = Internal(r)
  OBVIOUS
<1>3. PICK came \in SUBSET Amounts, left \in SUBSET Amounts :
        came = r.in \ I /\ left = r.out \ I /\ IsFiniteSet(came) /\ IsFiniteSet(left)
  <2>1. r.in \ I \in SUBSET r.in /\ r.out \ I \in SUBSET r.out
    OBVIOUS
  <2>2. r.in \in SUBSET Amounts /\ r.out \in SUBSET Amounts /\ IsFiniteSet(r.in) /\ IsFiniteSet(r.out)
    BY <1>1 DEF Drafted, RawActions
  <2>3. IsFiniteSet(r.in \ I) /\ IsFiniteSet(r.out \ I)
    BY <2>1, <2>2, FS_Subset
  <2> QED
    BY <2>2, <2>3
<1>4. PICK Inner : Inner = {Entry("INTERNAL_TRANSFER", "INTERNAL", a.asset, a.qty) : a \in I}
  OBVIOUS
<1>5. ASSUME NEW l \in Inner PROVE l.dir = "INTERNAL" /\ l.type # "STAKE_PENALTY"
  <2>1. PICK a \in I : l = Entry("INTERNAL_TRANSFER", "INTERNAL", a.asset, a.qty)
    BY <1>4
  <2> QED
    BY <2>1, EntryFields
<1>6. PICK in, out : in = "RECEIVE" /\ out = "SEND"
  OBVIOUS
<1>7. ASSUME NEW all \in SUBSET Amounts, NEW type, NEW dir
      PROVE  {l \in Drafts(type, dir, all) : [asset |-> l.asset, qty |-> l.qty] \notin I}
               = Drafts(type, dir, all \ I)
  <2>1. ASSUME NEW a \in all, NEW l, l = Entry(type, dir, a.asset, a.qty)
        PROVE  [asset |-> l.asset, qty |-> l.qty] = a
    <3>1. l.asset = a.asset /\ l.qty = a.qty
      BY <2>1, EntryFields
    <3>2. a \in Amounts
      OBVIOUS
    <3> QED
      BY <3>1, <3>2 DEF Amounts
  <2>2. ASSUME NEW l \in Drafts(type, dir, all), [asset |-> l.asset, qty |-> l.qty] \notin I
        PROVE  l \in Drafts(type, dir, all \ I)
    <3>1. PICK a \in all : l = Entry(type, dir, a.asset, a.qty)
      BY DEF Drafts
    <3>2. a \in all \ I
      BY <3>1, <2>1, <2>2
    <3> QED
      BY <3>1, <3>2 DEF Drafts
  <2>3. ASSUME NEW l \in Drafts(type, dir, all \ I)
        PROVE  l \in Drafts(type, dir, all) /\ [asset |-> l.asset, qty |-> l.qty] \notin I
    <3>1. PICK a \in all \ I : l = Entry(type, dir, a.asset, a.qty)
      BY DEF Drafts
    <3>2. l \in Drafts(type, dir, all)
      BY <3>1 DEF Drafts
    <3> QED
      BY <3>1, <3>2, <2>1
  <2> QED
    BY <2>2, <2>3
<1>8. Legs(g) = ((Drafts(out, "OUT", left) \cup Drafts(in, "IN", came)) \cup Inner)
                  \cup FeeLegs(ActionGroups[g])
  <2>1. r.in \in SUBSET Amounts /\ r.out \in SUBSET Amounts
    BY <1>1 DEF Drafted, RawActions
  <2>2. PICK S : S = {l \in Outgoing(r, "SEND") : [asset |-> l.asset, qty |-> l.qty] \notin I}
    OBVIOUS
  <2>3. PICK R : R = {l \in Incoming(r, "RECEIVE") : [asset |-> l.asset, qty |-> l.qty] \notin I}
    OBVIOUS
  <2>4. S = Drafts(out, "OUT", left)
    <3>1. S = {l \in Drafts(out, "OUT", r.out) : [asset |-> l.asset, qty |-> l.qty] \notin I}
      BY <1>6, <2>2 DEF Outgoing, Drafts
    <3> QED
      BY <3>1, <1>3, <1>7, <2>1
  <2>5. R = Drafts(in, "IN", came)
    <3>1. R = {l \in Drafts(in, "IN", r.in) : [asset |-> l.asset, qty |-> l.qty] \notin I}
      BY <1>6, <2>3 DEF Incoming, Drafts
    <3> QED
      BY <3>1, <1>3, <1>7, <2>1
  <2>6. LegsOf(r) = S \cup R \cup Inner \cup FeeLegs(r)
    BY <1>1, <1>2, <1>4, <2>2, <2>3 DEF LegsOf, TransferLegs
  <2> QED
    BY <2>4, <2>5, <2>6, <1>1 DEF Legs
<1>9. /\ Change(asset, g) = QuantityIn(came, asset) - QuantityIn(left, asset)
                              - Paid(ActionGroups[g], asset)
      /\ Quantity(PenaltyLegs(g, asset)) = 0
  <2>1. AsItIs(g, in, out, came, left, Inner)
    BY <1>3, <1>5, <1>6, <1>8 DEF AsItIs
  <2> QED
    BY <2>1, DraftedExplained
<1>10. ASSUME NEW all \in SUBSET Amounts, IsFiniteSet(all), I \subseteq all
       PROVE  /\ QuantityIn(all, asset) = QuantityIn(I, asset) + QuantityIn(all \ I, asset)
              /\ QuantityIn(I, asset) \in Int /\ QuantityIn(all \ I, asset) \in Int
  <2>1. PICK rest \in SUBSET Amounts : rest = all \ I
    OBVIOUS
  <2>2. I \in SUBSET Amounts /\ IsFiniteSet(I) /\ IsFiniteSet(rest)
    BY <1>10, <2>1, FS_Subset
  <2>3. /\ Measured(OfAsset(all, asset))
        /\ QuantityIn(all, asset) = Quantity(OfAsset(all, asset))
        /\ QuantityIn(I, asset) = Quantity(OfAsset(I, asset)) /\ QuantityIn(I, asset) \in Int
        /\ QuantityIn(rest, asset) = Quantity(OfAsset(rest, asset))
        /\ QuantityIn(rest, asset) \in Int
    BY <1>10, <2>2, MovedOfAsset
  <2>4. OfAsset(I, asset) \in SUBSET OfAsset(all, asset)
        /\ OfAsset(all, asset) \ OfAsset(I, asset) = OfAsset(rest, asset)
    BY <1>10, <2>1 DEF OfAsset
  <2>5. Quantity(OfAsset(all, asset))
          = Quantity(OfAsset(I, asset)) + Quantity(OfAsset(all, asset) \ OfAsset(I, asset))
    BY <2>3, <2>4, QuantitySplits
  <2> QED
    BY <2>1, <2>3, <2>4, <2>5
<1>11. /\ QuantityIn(r.in, asset) = QuantityIn(I, asset) + QuantityIn(came, asset)
       /\ QuantityIn(r.out, asset) = QuantityIn(I, asset) + QuantityIn(left, asset)
       /\ QuantityIn(I, asset) \in Int /\ QuantityIn(came, asset) \in Int
       /\ QuantityIn(left, asset) \in Int
  <2>1. /\ r.in \in SUBSET Amounts /\ IsFiniteSet(r.in) /\ I \subseteq r.in
        /\ r.out \in SUBSET Amounts /\ IsFiniteSet(r.out) /\ I \subseteq r.out
    BY <1>1, <1>2 DEF Drafted, RawActions, Internal
  <2> QED
    BY <2>1, <1>3, <1>10
<1>12. PICK d \in Int : d = QuantityIn(came, asset) - QuantityIn(left, asset)
  BY <1>11
<1>13. d = QuantityIn(r.in, asset) - QuantityIn(r.out, asset)
  BY <1>11, <1>12
<1> QED
  BY <1>1, <1>9, <1>12, <1>13, ExplainedByDrafts


LEMMA SplitAddsUp ==
  ASSUME NEW returned \in Nat, NEW locked \in Nat
  PROVE  StakeSplit(returned, locked).principal + StakeSplit(returned, locked).yield = returned
BY DEF StakeSplit

(* What a stake returns comes as principal and yield together; what it      *)
(* returns less than it locked leaves again as a penalty.                   *)
LEMMA ReturnParts ==
  ASSUME NEW a \in Amounts, NEW locked \in Nat
  PROVE  \E In, Lost :
           /\ ReturnLegs(a, locked) = In \cup Lost
           /\ Measured(In) /\ Quantity(In) = a.qty /\ Measured(Lost)
           /\ \A l \in In : l.asset = a.asset /\ l.dir = "IN" /\ l.type # "STAKE_PENALTY"
           /\ \A l \in Lost : l.asset = a.asset /\ l.dir = "OUT" /\ l.type = "STAKE_PENALTY"
<1>1. a.qty \in Nat
  BY DEF Amounts
<1>2. PICK p \in Nat, y \in Nat, n \in Nat :
        /\ p = StakeSplit(a.qty, locked).principal /\ y = StakeSplit(a.qty, locked).yield
        /\ n = StakeSplit(a.qty, locked).penalty
        /\ p + y = a.qty
  <2>1. /\ StakeSplit(a.qty, locked).principal \in Nat /\ StakeSplit(a.qty, locked).yield \in Nat
        /\ StakeSplit(a.qty, locked).penalty \in Nat
    BY <1>1, SplitQuantities
  <2>2. StakeSplit(a.qty, locked).principal + StakeSplit(a.qty, locked).yield = a.qty
    BY <1>1, SplitAddsUp
  <2> QED
    BY <2>1, <2>2
<1>3. PICK back : back = Entry("STAKE_PRINCIPAL_RETURNED", "IN", a.asset, p)
  OBVIOUS
<1>4. PICK more : more = Entry("STAKE_YIELD_RECEIVED", "IN", a.asset, y)
  OBVIOUS
<1>5. PICK fine : fine = Entry("STAKE_PENALTY", "OUT", a.asset, n)
  OBVIOUS
<1>6. PICK P : P = Nonzero({back})
  OBVIOUS
<1>7. PICK Y : Y = Nonzero({more})
  OBVIOUS
<1>8. PICK Lost : Lost = Nonzero({fine})
  OBVIOUS
<1>9. /\ Measured(P) /\ Quantity(P) = p /\ Measured(Y) /\ Quantity(Y) = y
      /\ Measured(Lost)
  BY <1>3, <1>4, <1>5, <1>6, <1>7, <1>8, QuantityOfEntry
<1>10. /\ back.type = "STAKE_PRINCIPAL_RETURNED" /\ back.dir = "IN" /\ back.asset = a.asset
       /\ more.type = "STAKE_YIELD_RECEIVED" /\ more.dir = "IN" /\ more.asset = a.asset
       /\ fine.type = "STAKE_PENALTY" /\ fine.dir = "OUT" /\ fine.asset = a.asset
  BY <1>3, <1>4, <1>5, EntryFields
<1>11. P \cap Y = {}
  BY <1>6, <1>7, <1>10 DEF Nonzero
<1>12. Measured(P \cup Y) /\ Quantity(P \cup Y) = a.qty
  BY <1>2, <1>9, <1>11, MeasuredUnion, QuantityOfUnion
<1>13. ReturnLegs(a, locked) = (P \cup Y) \cup Lost
  <2>1. ReturnLegs(a, locked) = Nonzero({back, more, fine})
    BY <1>2, <1>3, <1>4, <1>5 DEF ReturnLegs
  <2> QED
    BY <2>1, <1>6, <1>7, <1>8 DEF Nonzero
<1>14. /\ \A l \in P \cup Y : l.asset = a.asset /\ l.dir = "IN" /\ l.type # "STAKE_PENALTY"
       /\ \A l \in Lost : l.asset = a.asset /\ l.dir = "OUT" /\ l.type = "STAKE_PENALTY"
  BY <1>6, <1>7, <1>8, <1>10 DEF Nonzero
<1> QED
  BY <1>9, <1>12, <1>13, <1>14

(* The end of a stake from which nothing leaves.                            *)
LEMMA EndExplained ==
  ASSUME NEW g \in DOMAIN ActionGroups, NEW asset,
         ActionGroups[g].action = "HEX_STAKE_END", ActionGroups[g].out = {},
         \A a, b \in ActionGroups[g].in : a.asset = b.asset => a = b
  PROVE  Explained(g, asset)
<1>1. PICK r : r = ActionGroups[g] /\ Drafted(r)
  BY GroupsDrafted
<1>2. PICK came \in SUBSET Amounts :
        came = r.in /\ IsFiniteSet(came) /\ \A a, b \in came : a.asset = b.asset => a = b
  BY <1>1 DEF Drafted, RawActions
<1>3. PICK none \in SUBSET Amounts : none = {} /\ none = r.out /\ IsFiniteSet(none)
  BY <1>1, FS_EmptySet
<1>4. PICK Marks : Marks = {Entry("STAKE_END", "INTERNAL", a.asset, 0) : a \in came}
  OBVIOUS
<1>5. ASSUME NEW l \in Marks PROVE l.dir = "INTERNAL" /\ l.type # "STAKE_PENALTY"
  <2>1. PICK a \in came : l = Entry("STAKE_END", "INTERNAL", a.asset, 0)
    BY <1>4
  <2> QED
    BY <2>1, EntryFields
<1>6. PICK out : out \notin {"FEE", "STAKE_PENALTY"} /\ Drafts(out, "OUT", none) = {}
  <2>1. "NONE" \notin {"FEE", "STAKE_PENALTY"} /\ Drafts("NONE", "OUT", none) = {}
    BY <1>3 DEF Drafts
  <2> QED
    BY <2>1
<1>7. CASE r.locked = 0
  <2>1. PICK in : in = "STAKE_RETURN_UNALLOCATED"
    OBVIOUS
  <2>2. LegsOf(r) = Marks \cup Incoming(r, in) \cup FeeLegs(r)
    BY <1>1, <1>2, <1>4, <1>7, <2>1 DEF LegsOf, StakeEndLegs
  <2>3. Incoming(r, in) = Drafts(in, "IN", came)
    BY <1>2 DEF Incoming, Drafts
  <2>4. Legs(g) = ((Drafts(out, "OUT", none) \cup Drafts(in, "IN", came)) \cup Marks)
                    \cup FeeLegs(ActionGroups[g])
    BY <2>2, <2>3, <1>1, <1>6 DEF Legs
  <2>5. AsItIs(g, in, out, came, none, Marks)
    BY <2>1, <2>4, <1>2, <1>3, <1>5, <1>6 DEF AsItIs
  <2>6. /\ Change(asset, g) = QuantityIn(came, asset) - QuantityIn(none, asset)
                                - Paid(ActionGroups[g], asset)
        /\ Quantity(PenaltyLegs(g, asset)) = 0
    BY <2>5, DraftedExplained
  <2>7. PICK d \in Int : d = QuantityIn(came, asset) - QuantityIn(none, asset)
    BY <1>2, <1>3, MovedOfAsset
  <2>8. came = ActionGroups[g].in /\ none = ActionGroups[g].out
    BY <1>1, <1>2, <1>3
  <2> QED
    BY <2>6, <2>7, <2>8, ExplainedByDrafts
<1>8. CASE r.locked # 0
  <2>1. r.locked \in Nat
    BY <1>1 DEF Drafted, RawActions
  <2>2. PICK own : own = OfAsset(came, asset)
    OBVIOUS
  <2>3. \A l : l \in LegsOfAsset(g, asset) <=>
                 l.asset = asset /\ \/ l \in Marks \/ l \in FeeLegs(r)
                                    \/ \E a \in came : l \in ReturnLegs(a, r.locked)
    <3>1. LegsOf(r) = (Marks \cup UNION {ReturnLegs(a, r.locked) : a \in came}) \cup FeeLegs(r)
      BY <1>1, <1>2, <1>4, <1>8 DEF LegsOf, StakeEndLegs
    <3>2. Legs(g) = LegsOf(r)
      BY <1>1 DEF Legs
    <3>3. PICK back : back = UNION {ReturnLegs(a, r.locked) : a \in came}
      OBVIOUS
    <3>4. \A l : l \in back <=> \E a \in came : l \in ReturnLegs(a, r.locked)
      BY <3>3
    <3>5. \A l : l \in LegsOfAsset(g, asset) <=>
                   l.asset = asset /\ (l \in Marks \/ l \in FeeLegs(r) \/ l \in back)
      BY <3>1, <3>2, <3>3 DEF LegsOfAsset
    <3> QED
      BY <3>4, <3>5
  <2>4. \A l \in FeeLegs(r) : l.dir = "OUT" /\ l.type = "FEE"
    BY <1>1, FeeLegsOf
  <2>5. ASSUME NEW In, NEW Lost, Measured(In), Measured(Lost), Quantity(In) = Quantity(own),
               \A l \in In : l.asset = asset /\ l.dir = "IN" /\ l.type # "STAKE_PENALTY",
               \A l \in Lost : l.asset = asset /\ l.dir = "OUT" /\ l.type = "STAKE_PENALTY",
               \A l : (l.asset = asset /\ \E a \in came : l \in ReturnLegs(a, r.locked))
                        <=> l \in In \/ l \in Lost
        PROVE  Explained(g, asset)
    <3>1. \A l : l \in LegsOfAsset(g, asset) <=>
                   \/ l.asset = asset /\ (l \in Marks \/ l \in FeeLegs(r))
                   \/ l \in In \/ l \in Lost
      BY <2>3, <2>5
    <3>2. Coming(g, asset) = In
      BY <1>5, <2>4, <2>5, <3>1 DEF Coming
    <3>3. PenaltyLegs(g, asset) = Lost
      BY <1>5, <2>4, <2>5, <3>1 DEF PenaltyLegs
    <3>4. Leaving(g, asset) = ({} \cup OfAsset(FeeLegs(r), asset)) \cup Lost
      BY <1>5, <2>4, <2>5, <3>1 DEF Leaving, OfAsset
    <3>5. Parts(g, asset, In, {}, Lost)
      BY <1>1, <2>5, <3>2, <3>4, NothingMeasured DEF Parts
    <3>6. Change(asset, g) = Quantity(In) - Quantity({}) - Paid(r, asset) - Quantity(Lost)
      BY <1>1, <3>5, ChangeOfParts
    <3>7. QuantityIn(r.in, asset) = Quantity(own) /\ QuantityIn(r.out, asset) = 0
      <4>1. QuantityIn(r.in, asset) = Quantity(own)
        BY <1>2, <2>2 DEF QuantityIn, OfAsset
      <4>2. {a \in none : a.asset = asset} = {}
        BY <1>3
      <4>3. QuantityIn(none, asset) = 0
        BY <4>2, NothingMeasured DEF QuantityIn
      <4> QED
        BY <4>1, <4>3, <1>3
    <3>8. /\ Quantity(In) \in Int /\ Quantity(Lost) \in Int /\ Paid(r, asset) \in Int
          /\ Quantity({}) = 0
      BY <1>1, <2>5, QuantityIsInt, NothingMeasured DEF Paid, Drafted, RawActions
    <3>9. MovedBy(r, asset) = Quantity(In) - 0 - Paid(r, asset)
      BY <2>5, <3>7 DEF MovedBy, Paid
    <3> QED
      BY <1>1, <3>3, <3>6, <3>8, <3>9 DEF Explained
  <2>6. \A a \in came : \E In, Lost :
           /\ ReturnLegs(a, r.locked) = In \cup Lost
           /\ Measured(In) /\ Quantity(In) = a.qty /\ Measured(Lost)
           /\ \A l \in In : l.asset = a.asset /\ l.dir = "IN" /\ l.type # "STAKE_PENALTY"
           /\ \A l \in Lost : l.asset = a.asset /\ l.dir = "OUT" /\ l.type = "STAKE_PENALTY"
    BY <2>1, ReturnParts
  <2>7. CASE own = {}
    <3>1. \A a \in came : a.asset # asset
      BY <2>2, <2>7 DEF OfAsset
    <3>2. \A a \in came : \A l \in ReturnLegs(a, r.locked) : l.asset = a.asset
      BY <2>6
    <3>3. \A l : ~(l.asset = asset /\ \E a \in came : l \in ReturnLegs(a, r.locked))
      BY <3>1, <3>2
    <3>4. PICK none2 : none2 = {}
      OBVIOUS
    <3> QED
      BY <2>5, <2>7, <3>3, NothingMeasured
  <2>8. CASE own # {}
    <3>1. PICK a \in came : a.asset = asset
      BY <2>2, <2>8 DEF OfAsset
    <3>2. own = {a}
      BY <1>2, <2>2, <3>1 DEF OfAsset
    <3>3. Quantity(own) = a.qty
      BY <3>2, QuantityOfOne DEF Amounts
    <3>4. PICK In : \E Lost :
           /\ ReturnLegs(a, r.locked) = In \cup Lost
           /\ Measured(In) /\ Quantity(In) = a.qty /\ Measured(Lost)
           /\ \A l \in In : l.asset = a.asset /\ l.dir = "IN" /\ l.type # "STAKE_PENALTY"
           /\ \A l \in Lost : l.asset = a.asset /\ l.dir = "OUT" /\ l.type = "STAKE_PENALTY"
      BY <2>6
    <3>5. PICK Lost :
           /\ ReturnLegs(a, r.locked) = In \cup Lost
           /\ Measured(In) /\ Quantity(In) = a.qty /\ Measured(Lost)
           /\ \A l \in In : l.asset = a.asset /\ l.dir = "IN" /\ l.type # "STAKE_PENALTY"
           /\ \A l \in Lost : l.asset = a.asset /\ l.dir = "OUT" /\ l.type = "STAKE_PENALTY"
      BY <3>4
    <3>6. \A b \in came : \A l \in ReturnLegs(b, r.locked) : l.asset = b.asset
      BY <2>6
    <3>7. \A l : (l.asset = asset /\ \E b \in came : l \in ReturnLegs(b, r.locked))
                   <=> l \in In \/ l \in Lost
      <4>1. ASSUME NEW l, l.asset = asset, NEW b \in came, l \in ReturnLegs(b, r.locked)
            PROVE  l \in In \/ l \in Lost
        <5>1. b = a
          BY <1>2, <3>1, <3>6, <4>1
        <5> QED
          BY <5>1, <4>1, <3>5
      <4>2. ASSUME NEW l, l \in In \/ l \in Lost
            PROVE  l.asset = asset /\ l \in ReturnLegs(a, r.locked)
        BY <4>2, <3>1, <3>5
      <4> QED
        BY <4>1, <4>2
    <3>8. /\ \A l \in In : l.asset = asset /\ l.dir = "IN" /\ l.type # "STAKE_PENALTY"
          /\ \A l \in Lost : l.asset = asset /\ l.dir = "OUT" /\ l.type = "STAKE_PENALTY"
      BY <3>1, <3>5
    <3> QED
      BY <2>5, <3>3, <3>5, <3>7, <3>8
  <2> QED
    BY <2>7, <2>8
<1> QED
  BY <1>7, <1>8

(* Every action there is, one case for each normalizer.                     *)
LEMMA GroupsExplained ==
  ASSUME StakesAlone
  PROVE  \A g \in DOMAIN ActionGroups : \A asset : Explained(g, asset)
<1> SUFFICES ASSUME NEW g \in DOMAIN ActionGroups, NEW asset PROVE Explained(g, asset)
  OBVIOUS
<1>1. ActionGroups[g].action \in ActionTypes
  BY GroupsDrafted DEF Drafted, RawActions
<1>2. CASE ActionGroups[g].action = "TRANSFER"
  BY <1>2, TransferExplained
<1>3. CASE ActionGroups[g].action \in {"SWAP", "LP_ADD", "LP_REMOVE"}
  BY <1>3, SwapExplained
<1>4. CASE ActionGroups[g].action = "HEX_STAKE_START"
  BY <1>4, StartExplained DEF StakesAlone
<1>5. CASE ActionGroups[g].action = "HEX_STAKE_END"
  BY <1>5, EndExplained DEF StakesAlone
<1> QED
  BY <1>1, <1>2, <1>3, <1>4, <1>5 DEF ActionTypes

(* A balance, less the penalties, is what moved.                            *)
LEMMA BalanceExplained ==
  ASSUME StakesAlone, NEW gs \in SUBSET DOMAIN ActionGroups, NEW asset
  PROVE  /\ Balance(asset, gs) = MovedOf(asset, gs) - PenaltiesOf(asset, gs)
         /\ MovedOf(asset, gs) \in Int
<1>1. PICK k : k = [g \in gs |-> Change(asset, g)]
  OBVIOUS
<1>2. PICK f : f = [g \in gs |-> MovedBy(ActionGroups[g], asset)]
  OBVIOUS
<1>3. PICK h : h = [g \in gs |-> Quantity(PenaltyLegs(g, asset))]
  OBVIOUS
<1>4. IsFiniteSet(gs)
  BY BalanceIsSum DEF Integral
<1>5. ASSUME NEW g \in gs
      PROVE  k[g] = f[g] - h[g] /\ f[g] \in Int /\ h[g] \in Int
  <2>1. k[g] = f[g] - h[g]
    BY <1>1, <1>2, <1>3, GroupsExplained DEF Explained
  <2>2. h[g] \in Int
    <3>1. Measured(LegsOfAsset(g, asset))
      <4>1. Counted(Legs(g))
        BY GroupsDrafted, LegsCounted DEF Legs
      <4> QED
        BY <4>1, CountedPart DEF LegsOfAsset, Counted
    <3>2. Measured(PenaltyLegs(g, asset))
      BY <3>1, MeasuredPart DEF PenaltyLegs
    <3> QED
      BY <3>2, <1>3, QuantityIsInt
  <2>3. f[g] \in Int
    <3>1. PICK r : r = ActionGroups[g] /\ Drafted(r)
      BY GroupsDrafted
    <3>2. QuantityIn(r.in, asset) \in Int /\ QuantityIn(r.out, asset) \in Int /\ r.fee \in Int
      BY <3>1, MovedOfAsset DEF Drafted, RawActions
    <3> QED
      BY <3>1, <3>2, <1>2 DEF MovedBy
  <2> QED
    BY <2>1, <2>2, <2>3
<1>6. Integral(f, gs) /\ Integral(h, gs)
  BY <1>4, <1>5 DEF Integral
<1>7. SumFunctionOnSet(k, gs) = SumFunctionOnSet(f, gs) - SumFunctionOnSet(h, gs)
  BY <1>5, <1>6, SumDiffers
<1>8. DOMAIN k = gs /\ DOMAIN f = gs /\ DOMAIN h = gs
  BY <1>1, <1>2, <1>3
<1>9. Balance(asset, gs) = SumFunctionOnSet(k, DOMAIN k)
  BY <1>1 DEF Balance, SumFunction
<1>10. MovedOf(asset, gs) = SumFunctionOnSet(f, DOMAIN f)
  BY <1>2 DEF MovedOf, SumFunction
<1>11. PenaltiesOf(asset, gs) = SumFunctionOnSet(h, DOMAIN h)
  BY <1>3 DEF PenaltiesOf, SumFunction
<1>12. SumFunctionOnSet(f, gs) \in Int
  BY <1>6, SumIsInt
<1> QED
  BY <1>7, <1>8, <1>9, <1>10, <1>11, <1>12

(* Whatever the prices and the order of the groups: a token whose profit and*)
(* loss is called available is held, by the cost basis, in the quantity the *)
(* materialized balance shows.                                              *)
THEOREM AvailableIsHeld == PortfolioSpec => []AvailableAgrees
<1>1. AvailableAgrees
  BY NoneDisagrees DEF AvailableAgrees
<1>2. QED
  BY <1>1, PTL

(* The chain's movements less the penalties of the stakes.                  *)
LessPenalties ==
  \A asset : Balance(asset, positions.from)
               = MovedOf(asset, positions.from) - PenaltiesOf(asset, positions.from)

(* The balances of every asset are what the transactions moved, but for the *)
(* penalties of stakes that ended at a loss, which are taken off once more. *)
THEOREM BalancesLessPenalties ==
  ASSUME StakesAlone
  PROVE  PortfolioSpec => []LessPenalties
<1>1. PortfolioInv => LessPenalties
  BY BalanceExplained DEF PortfolioInv, Typed, Groups, LessPenalties
<1>2. QED
  BY <1>1, PortfolioInvariance, PTL

(* No action materialized has an entry of a penalty.                        *)
Unpenalized == \A g \in positions.from : \A asset : PenaltyLegs(g, asset) = {}

(* Where no stake ended at a loss they are consistent, as the design asks.  *)
THEOREM ConsistentUnlessPenalized ==
  ASSUME StakesAlone
  PROVE  PortfolioSpec => [](Unpenalized => BalancesConsistent)
<1>1. PortfolioInv => (Unpenalized => BalancesConsistent)
  <2> SUFFICES ASSUME PortfolioInv, Unpenalized, NEW asset
               PROVE  Balance(asset, positions.from) = MovedOf(asset, positions.from)
    BY DEF BalancesConsistent
  <2>1. positions.from \in SUBSET DOMAIN ActionGroups
    BY DEF PortfolioInv, Typed, Groups
  <2>2. \A g \in positions.from : Quantity(PenaltyLegs(g, asset)) = 0
    BY NothingMeasured DEF Unpenalized
  <2>3. PICK gs \in SUBSET DOMAIN ActionGroups : gs = positions.from
    BY <2>1
  <2>4. PenaltiesOf(asset, gs) = 0
    <3>1. PICK h : h = [g \in gs |-> Quantity(PenaltyLegs(g, asset))]
      OBVIOUS
    <3>2. DOMAIN h = gs /\ IsFiniteSet(gs) /\ \A g \in gs : h[g] = 0
      BY <2>2, <2>3, <3>1, BalanceIsSum DEF Integral
    <3>3. PenaltiesOf(asset, gs) = SumFunctionOnSet(h, DOMAIN h)
      BY <3>1 DEF PenaltiesOf, SumFunction
    <3> QED
      BY <3>2, <3>3, SumOfZeros
  <2>5. Balance(asset, gs) = MovedOf(asset, gs) - PenaltiesOf(asset, gs)
    BY <2>3, BalanceExplained
  <2>6. MovedOf(asset, gs) \in Int
    BY <2>3, BalanceExplained
  <2> QED
    BY <2>3, <2>4, <2>5, <2>6
<1>2. QED
  BY <1>1, PortfolioInvariance, PTL
=============================================================================
