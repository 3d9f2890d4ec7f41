----------------------------- MODULE Portfolio -----------------------------
(***************************************************************************)
(* What a wallet's portfolio says, against the ledger it is computed from. *)
(*                                                                         *)
(* A rebuild (src/services/rebuild/run-rebuild-operation.ts) rewrites the  *)
(* ledger and materializes the positions (src/services/portfolio), which   *)
(* takes a read of the ledger, a transaction that replaces the positions,  *)
(* a separate write that says so, and a last write that ends the run.  A   *)
(* sync changes the ledger and materializes nothing.  The lock (module     *)
(* OperationLock) lets one of them run at a time; a process may die        *)
(* anywhere, and its run is released by an operator.                       *)
(*                                                                         *)
(* The onboarding status (src/services/operations) is derived from two     *)
(* rows that are read by separate statements; profit and loss              *)
(* (src/services/pnl) from the entries of the ledger.                      *)
(***************************************************************************)
EXTENDS ActionLegs, Integers, Sequences, FiniteSets, Functions

CONSTANTS
  ActionGroups,  \* the actions there may be, in the order they occurred
  Ledgers,       \* the ledgers a sync or a rebuild may leave: sets of groups
  QuoteAsset,    \* the asset values are asked for in
  Prices,        \* the sets of price observations that may be stored
  MaxClock       \* bound: the last instant of the runs

ASSUME PortfolioAssumption ==
  /\ ActionGroups \in Seq(RawActions)
  /\ \A g \in DOMAIN ActionGroups :
       IsFiniteSet(ActionGroups[g].in) /\ IsFiniteSet(ActionGroups[g].out)
  /\ UNION Prices \subseteq [asset : STRING, quote : STRING, source : STRING,
                              pDaiRoute : BOOLEAN, confident : BOOLEAN, until : Nat]
  /\ Ledgers \subseteq SUBSET DOMAIN ActionGroups
  /\ MaxClock \in Nat

VARIABLES
  ledger,     \* the groups whose entries are in the ledger
  positions,  \* the ledger they were computed from, and when they were committed
  material,   \* the row that says what was materialized
  run,        \* the latest SyncRun of the wallet
  job,        \* the process that runs a sync or a rebuild
  clock,
  look        \* a derivation of the onboarding status

portfolioVars == <<ledger, positions, material, run, job, clock, look>>

-----------------------------------------------------------------------------
(* Each action is a group of entries.                                       *)
Legs(g) == LegsOf(ActionGroups[g])
LegsOfAsset(g, asset) == {l \in Legs(g) : l.asset = asset}
AssetsOf(gs) == {l.asset : l \in UNION {Legs(g) : g \in gs}}

Quantity(ls) == SumFunction([l \in ls |-> l.qty])

(* The balance of an asset: what came in less what went out, fees included. *)
Signed(l) ==
  CASE l.dir = "INTERNAL" -> 0 [] l.dir = "IN" -> l.qty [] OTHER -> -l.qty
Change(asset, g) == SumFunction([l \in LegsOfAsset(g, asset) |-> Signed(l)])
Balance(asset, gs) == SumFunction([g \in gs |-> Change(asset, g)])

NegativeBalance(gs) == \E asset \in AssetsOf(gs) : Balance(asset, gs) < 0

(* A group whose liquidity cannot be told: it has no leg of the pool's token*)
(* or not exactly two of other tokens.                                      *)
LpTypes == {"LP_ADD_IN", "LP_ADD_OUT", "LP_REMOVE_IN", "LP_REMOVE_OUT"}

PoolTokens(ls) ==
  LET added == {l.asset : l \in {x \in ls : x.type = "LP_ADD_IN"}}
  IN  IF added # {} THEN added ELSE {l.asset : l \in {x \in ls : x.type = "LP_REMOVE_OUT"}}

UnclearLiquidity(g) ==
  LET ls == {l \in Legs(g) : l.type \in LpTypes}
  IN  ls # {} /\ \A pool \in PoolTokens(ls) : Cardinality({l \in ls : l.asset # pool}) # 2

(* What materializing the ledger warns of.                                  *)
WarnedOf(gs) == NegativeBalance(gs) \/ \E g \in gs : UnclearLiquidity(g)

-----------------------------------------------------------------------------
(* Prices: of the observations of the asset in the asked quote, those of an *)
(* accepted source that are not stale.  One made later than "at" is as good.*)
UnverifiedQuote(o) == o.pDaiRoute /\ o.quote # "PDAI"

Quoted(obs, asset) ==
  {o \in obs : o.asset = asset /\ o.quote = QuoteAsset
                 /\ o.source # "DEXSCREENER" /\ ~UnverifiedQuote(o)}
Fresh(obs, asset, at)    == {o \in Quoted(obs, asset) : at <= o.until}
Accepted(obs, asset, at) == {o \in Fresh(obs, asset, at) : o.confident}

Priced(assets, at, obs) == \A asset \in assets : Accepted(obs, asset, at) # {}

PriceStatus(obs, asset, at) ==
  CASE Accepted(obs, asset, at) # {} -> "available"
    [] Accepted(obs, asset, at) = {} /\ Quoted(obs, asset) # Fresh(obs, asset, at)
         -> "stale_price"
    [] Accepted(obs, asset, at) = {} /\ Quoted(obs, asset) = Fresh(obs, asset, at) ->
         IF Quoted(obs, asset) # {} THEN "low_confidence_price" ELSE "unavailable"

-----------------------------------------------------------------------------
(* Profit and loss at average cost, for one asset: the groups of the ledger *)
(* in their order, each of them added, subtracted, or skipped with a        *)
(* warning.  A transaction is taken for the time of its groups.             *)
LpActions == {"LP_ADD", "LP_REMOVE"}
StakeActions == {"HEX_STAKE_START", "HEX_STAKE_END"}
HigherOrder == {"SWAP"} \cup LpActions \cup StakeActions

OfType(ls, dir, types) == {l \in ls : l.dir = dir /\ l.type \in types}
TargetIn(g, asset)  == OfType(LegsOfAsset(g, asset), "IN", {"RECEIVE", "SWAP_IN"})
TargetOut(g, asset) == OfType(LegsOfAsset(g, asset), "OUT", {"SEND", "SWAP_OUT"})
TargetFee(g, asset) == {l \in LegsOfAsset(g, asset) : l.type = "FEE"}

(* The other side of the group: what was paid for the asset, or gained.     *)
Counter(g, asset, dir) ==
  {l \in Legs(g) :
     l.asset # asset /\ l.dir = dir /\ l.type \notin {"FEE", "INTERNAL_TRANSFER"}}
OtherFees(g, asset) ==
  {l \in Legs(g) : l.asset # asset /\ l.dir = "OUT" /\ l.type = "FEE"}

(* The other side may be in another group of the same transaction.          *)
UnresolvedSibling(g, asset, dir, gs) ==
  /\ ActionGroups[g].action \notin HigherOrder
  /\ \E h \in gs \ {g} :
       /\ ActionGroups[h].tx = ActionGroups[g].tx
       /\ \E l \in Legs(h) :
            l.type # "FEE" /\ l.dir = dir /\ l.asset # asset

(* Why a group in which the asset moved only in or only out is skipped.     *)
MissingPrice(g, asset, dir, obs) ==
  IF Priced({l.asset : l \in Counter(g, asset, dir) \cup OtherFees(g, asset)},
            ActionGroups[g].tx, obs)
    THEN {} ELSE {"COUNTER_ASSET_PRICE_UNAVAILABLE"}

Refused(g, asset, dir, gs, obs) ==
  CASE Counter(g, asset, dir) = {} /\ UnresolvedSibling(g, asset, dir, gs)
         -> {"UNRESOLVED_ECONOMIC_COUPLING"}
    [] OTHER -> MissingPrice(g, asset, dir, obs)

Held(pnl, delta)   == [pnl EXCEPT !.held = @ + delta]
Warned(pnl, codes) == [pnl EXCEPT !.warnings = @ \cup codes]

Acquire(pnl, g, asset, gs, obs) ==
  LET no == Refused(g, asset, "OUT", gs, obs)
  IN  IF no = {} THEN Held(pnl, Quantity(TargetIn(g, asset))) ELSE Warned(pnl, no)

(* Mutated: a fee paid in the asset itself is not part of what is disposed. *)
DisposedWithoutFee(g, asset) == Quantity(TargetOut(g, asset))

Disposed(g, asset) == Quantity(TargetOut(g, asset)) + Quantity(TargetFee(g, asset))

Dispose(pnl, g, asset, gs, obs) ==
  LET no == IF Disposed(g, asset) > pnl.held THEN {"INSUFFICIENT_COST_BASIS"}
            ELSE Refused(g, asset, "IN", gs, obs)
  IN  IF no = {} THEN Held(pnl, -Disposed(g, asset)) ELSE Warned(pnl, no)

AddMovement(pnl, g, asset, gs, obs) ==
  LET ins  == TargetIn(g, asset)
      outs == TargetOut(g, asset)
  IN  CASE \A l \in LegsOfAsset(g, asset) : l.type = "INTERNAL_TRANSFER" -> pnl
        [] ins # {} /\ outs = {} /\ TargetFee(g, asset) = {} ->
             Acquire(pnl, g, asset, gs, obs)
        [] outs # {} /\ ins = {} -> Dispose(pnl, g, asset, gs, obs)
        [] OTHER -> Warned(pnl, {"UNSUPPORTED_ACTION_GROUP"})

AddGroup(pnl, g, asset, gs, obs) ==
  IF LegsOfAsset(g, asset) = {} THEN pnl
  ELSE CASE ActionGroups[g].action \in LpActions -> Warned(pnl, {"UNSUPPORTED_LP_ACTION"})
         [] ActionGroups[g].action \in StakeActions ->
              Warned(pnl, {"UNSUPPORTED_STAKE_ACTION"})
         [] OTHER -> AddMovement(pnl, g, asset, gs, obs)

(* The last of the groups is the moment the report is asked for.            *)
AsOf == Len(ActionGroups)

AverageCostPnl(asset, gs, obs) ==
  LET upTo[n \in 0 .. AsOf] ==
        IF n = 0 THEN [held |-> 0, warnings |-> {}]
        ELSE IF n \in gs THEN AddGroup(upTo[n - 1], n, asset, gs, obs) ELSE upTo[n - 1]
      groups == upTo[AsOf]
  IN  IF Priced({asset}, AsOf, obs) THEN groups ELSE Warned(groups, {"MARK_PRICE_UNAVAILABLE"})

(* The status the dashboard gives it, and what it says of a token.          *)
PnlStatus(pnl, pricing) ==
  CASE pnl.warnings = {} -> "available"
    [] pnl.warnings \cap {"COUNTER_ASSET_PRICE_UNAVAILABLE", "INSUFFICIENT_COST_BASIS",
         "UNSUPPORTED_ACTION_GROUP", "UNRESOLVED_ECONOMIC_COUPLING"} # {}
         -> "incomplete_basis"
    [] pnl.warnings = {"MARK_PRICE_UNAVAILABLE"} -> pricing
    [] OTHER -> "unsupported"

TokenPnl(asset, gs, obs) ==
  LET pnl == AverageCostPnl(asset, gs, obs)
  IN  [held |-> pnl.held, status |-> PnlStatus(pnl, PriceStatus(obs, asset, AsOf))]

-----------------------------------------------------------------------------
(* The row of the materialization state, and that of the latest run.        *)
NoMaterial == [status |-> "none", at |-> 0, warned |-> FALSE]
NoRun      == [status |-> "none", at |-> 0, warned |-> FALSE]
IdleJob    == [pc |-> "idle", from |-> {}, at |-> 0]

(* A status that was derived: the rows it has read so far, and whether the  *)
(* positions were those of the ledger at some moment since the first read.  *)
NoLook == [read |-> "nothing", run |-> NoRun, material |-> NoMaterial,
           status |-> "none", current |-> FALSE]

Statuses == {"TRACKED_NOT_SYNCED", "SYNC_IN_PROGRESS", "SYNC_FAILED",
             "CANONICAL_STATE_PARTIAL", "CANONICAL_STATE_WARNING",
             "CANONICAL_STATE_MATERIALIZED"}

PortfolioTypeOK ==
  /\ ledger \in SUBSET DOMAIN ActionGroups
  /\ positions \in [from : SUBSET DOMAIN ActionGroups, at : 0 .. MaxClock]
  /\ material \in [status : {"none", "COMPLETED", "FAILED"}, at : 0 .. MaxClock,
                   warned : BOOLEAN]
  /\ run \in [status : {"none", "RUNNING", "COMPLETED", "FAILED"}, at : 0 .. MaxClock,
              warned : BOOLEAN]
  /\ job.pc \in {"idle", "syncing", "rebuilding", "reading", "committing", "stating",
                 "finishing", "failing"}
  /\ clock \in 0 .. MaxClock
  /\ look.status \in Statuses \cup {"none"}

(* A wallet nobody has synced, or one whose positions were materialized     *)
(* before runs were recorded.                                               *)
PortfolioInit ==
  /\ clock = 0
  /\ run = NoRun /\ job = IdleJob /\ look = NoLook
  /\ \/ /\ ledger = {}
        /\ positions = [from |-> {}, at |-> 0]
        /\ material = NoMaterial
     \/ /\ ledger \in Ledgers
        /\ positions = [from |-> ledger, at |-> 0]
        /\ material = [status |-> "COMPLETED", at |-> 0, warned |-> WarnedOf(ledger)]

(* Whatever happens while a status is being derived.                        *)
Current == positions.from = ledger
Watched ==
  look' = IF look.read \in {"run", "material"}
            THEN [look EXCEPT !.current = @ \/ Current'] ELSE look

-----------------------------------------------------------------------------
Tick ==
  /\ clock < MaxClock
  /\ clock' = clock + 1
  /\ UNCHANGED <<ledger, positions, material, run, job, look>>

(* The lock admits a run when no other is active.                           *)
Reserve(pc) ==
  /\ job.pc = "idle" /\ run.status # "RUNNING"
  /\ run' = [status |-> "RUNNING", at |-> clock, warned |-> FALSE]
  /\ job' = [IdleJob EXCEPT !.pc = pc]
  /\ UNCHANGED <<ledger, positions, material, clock>>

StartSync    == Reserve("syncing")
StartRebuild == Reserve("rebuilding")

(* Range by range, family by family.                                        *)
ChangeLedger ==
  /\ job.pc \in {"syncing", "rebuilding"}
  /\ ledger' \in Ledgers
  /\ UNCHANGED <<positions, material, run, job, clock>>

(* An instant is a millisecond: no run begins and completes in the same.    *)
Finish(warned) ==
  /\ clock > run.at
  /\ run' = [status |-> "COMPLETED", at |-> clock, warned |-> warned]
  /\ job' = IdleJob
  /\ UNCHANGED <<ledger, positions, material, clock>>

FinishSync(warned) == job.pc = "syncing" /\ Finish(warned)

LedgerRebuilt ==
  /\ job.pc = "rebuilding"
  /\ job' = [job EXCEPT !.pc = "reading"]
  /\ UNCHANGED <<ledger, positions, material, run, clock>>

ReadEntries ==
  /\ job.pc = "reading"
  /\ job' = [job EXCEPT !.pc = "committing", !.from = ledger]
  /\ UNCHANGED <<ledger, positions, material, run, clock>>

(* Mutated: the row is written first.                                       *)
StateThenPositions ==
  \/ /\ job.pc = "committing"
     /\ material' = [status |-> "COMPLETED", at |-> clock,
                     warned |-> WarnedOf(job.from)]
     /\ job' = [job EXCEPT !.pc = "stating"]
     /\ UNCHANGED <<ledger, positions, run, clock>>
  \/ /\ job.pc = "stating"
     /\ positions' = [from |-> job.from, at |-> clock]
     /\ job' = [job EXCEPT !.pc = "finishing"]
     /\ UNCHANGED <<ledger, material, run, clock>>

(* The positions are deleted and created anew in one transaction, and the   *)
(* time is taken as soon as it has committed.                               *)
ReplacePositions ==
  /\ job.pc = "committing"
  /\ positions' = [from |-> job.from, at |-> clock]
  /\ job' = [job EXCEPT !.pc = "stating", !.at = clock]
  /\ UNCHANGED <<ledger, material, run, clock>>

PersistCompleted ==
  /\ job.pc = "stating"
  /\ material' = [status |-> "COMPLETED", at |-> job.at,
                  warned |-> WarnedOf(job.from)]
  /\ job' = [job EXCEPT !.pc = "finishing"]
  /\ UNCHANGED <<ledger, positions, run, clock>>

(* An error in either write is recorded, if that can be: the time of the    *)
(* last success stays.  An error before the writes is not.                  *)
PersistFailed ==
  /\ job.pc \in {"committing", "stating"}
  /\ material' = [material EXCEPT !.status = "FAILED",
                                  !.warned = WarnedOf(job.from)]
  /\ job' = [job EXCEPT !.pc = "failing"]
  /\ UNCHANGED <<ledger, positions, run, clock>>

FinishRebuild(warned) ==
  job.pc = "finishing" /\ Finish(warned \/ material.warned)

FailRun ==
  /\ job.pc # "idle"
  /\ run' = [run EXCEPT !.status = "FAILED", !.at = clock]
  /\ job' = IdleJob
  /\ UNCHANGED <<ledger, positions, material, clock>>

(* The process dies; its run stays active until an operator releases it.    *)
Die ==
  /\ job.pc # "idle"
  /\ job' = IdleJob
  /\ UNCHANGED <<ledger, positions, material, run, clock>>

Release ==
  /\ job.pc = "idle" /\ run.status = "RUNNING"
  /\ run' = [run EXCEPT !.status = "FAILED", !.at = clock]
  /\ UNCHANGED <<ledger, positions, material, job, clock>>

-----------------------------------------------------------------------------
(* The onboarding status of a wallet, from its latest run and its row.      *)
(* Mutated: a run later than the materialization is not looked for.         *)
DeriveUndated(r, m) ==
  CASE r.status = "none" /\ m.status = "none" -> "TRACKED_NOT_SYNCED"
    [] r.status = "RUNNING" -> "SYNC_IN_PROGRESS"
    [] r.status = "FAILED" -> "SYNC_FAILED"
    [] r.status \in {"none", "COMPLETED"} /\ m.status = "COMPLETED" ->
         IF m.warned \/ r.warned THEN "CANONICAL_STATE_WARNING"
         ELSE "CANONICAL_STATE_MATERIALIZED"
    [] OTHER -> "CANONICAL_STATE_PARTIAL"

Derive(r, m) ==
  CASE r.status = "none" /\ m.status = "none" -> "TRACKED_NOT_SYNCED"
    [] r.status = "RUNNING" -> "SYNC_IN_PROGRESS"
    [] r.status = "FAILED" -> "SYNC_FAILED"
    [] r.status = "COMPLETED" /\ (m.status # "COMPLETED" \/ m.at < r.at) ->
         "CANONICAL_STATE_PARTIAL"
    [] r.status = "none" /\ m.status = "FAILED" -> "CANONICAL_STATE_PARTIAL"
    [] OTHER -> IF m.warned \/ r.warned THEN "CANONICAL_STATE_WARNING"
                ELSE "CANONICAL_STATE_MATERIALIZED"

(* Two statements, in either order.                                         *)
LookFirst(row) ==
  /\ look.read \in {"nothing", "both"}
  /\ look' = IF row = "run"
       THEN [NoLook EXCEPT !.read = row, !.run = run, !.current = Current]
       ELSE [NoLook EXCEPT !.read = row, !.material = material, !.current = Current]
  /\ UNCHANGED <<ledger, positions, material, run, job, clock>>

LookAgain ==
  /\ look.read \in {"run", "material"}
  /\ LET status == IF look.read = "run" THEN Derive(look.run, material)
                   ELSE Derive(run, look.material)
     IN  look' = [NoLook EXCEPT !.read = "both", !.status = status,
                                !.current = look.current]
  /\ UNCHANGED <<ledger, positions, material, run, job, clock>>

-----------------------------------------------------------------------------
RunStep ==
  \/ StartSync \/ StartRebuild \/ ChangeLedger
  \/ LedgerRebuilt \/ ReadEntries \/ ReplacePositions
  \/ PersistCompleted \/ PersistFailed \/ FailRun \/ Die \/ Release
  \/ \E warned \in BOOLEAN : FinishSync(warned) \/ FinishRebuild(warned)

PortfolioNext ==
  \/ RunStep /\ Watched
  \/ Tick
  \/ \E row \in {"run", "material"} : LookFirst(row)
  \/ LookAgain

PortfolioSpec == PortfolioInit /\ [][PortfolioNext]_portfolioVars

-----------------------------------------------------------------------------
(* The row never says that positions are newer than they are: whichever of  *)
(* the writes of a rebuild fails and wherever its process dies, the         *)
(* positions a reader finds beside it were not committed before the time    *)
(* the row keeps.                                                           *)
NeverOlderThanClaimed == positions.at >= material.at

(* A wallet is called materialized only if its positions were those of its  *)
(* ledger at some moment while the two rows were read, whatever failed,     *)
(* died or went on meanwhile.                                               *)
MaterializedIsCurrent == look.status = "CANONICAL_STATE_MATERIALIZED" => look.current

(* A token whose profit and loss is called available is held, by the cost   *)
(* basis, in the quantity the materialized balance shows: no group that     *)
(* moved it was skipped in silence.                                         *)
Disagreeing ==
  {gs \in Ledgers : \E asset \in AssetsOf(gs), obs \in Prices :
     LET pnl == TokenPnl(asset, gs, obs)
     IN  pnl.status = "available" /\ pnl.held # Balance(asset, gs)}
AvailableAgrees == Current => ledger \notin Disagreeing

(* What is drafted for actions of any kind, stakes included, moves the      *)
(* materialized balance by what the transactions moved: "LP and stake       *)
(* actions must map to canonical asset movements so balances remain         *)
(* consistent" (docs/superpowers/specs/2026-05-08-coinpulse-v1-design.md:406).*)
QuantityIn(amounts, asset) == Quantity({a \in amounts : a.asset = asset})
MovedBy(r, asset) ==
  QuantityIn(r.in, asset) - QuantityIn(r.out, asset) - IF asset = FeeAsset THEN r.fee ELSE 0
MovedOf(asset, gs) == SumFunction([g \in gs |-> MovedBy(ActionGroups[g], asset)])
BalancesConsistent ==
  \A asset \in AssetsOf(positions.from) :
    Balance(asset, positions.from) = MovedOf(asset, positions.from)
=============================================================================
