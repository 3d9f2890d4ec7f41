----------------------------- MODULE SyncWarnings -----------------------------
(***************************************************************************)
(* The warnings of a sync on their way to an operator's decision:          *)
(* sync-state-store.ts caps what a SyncRun row keeps, and the recovery     *)
(* mode of the wallet-forward scripts decides from that row alone whether  *)
(* every warning was the one it may overlook.  A warning is its code.      *)
(***************************************************************************)
EXTENDS Integers, Sequences

CONSTANTS
  Codes,         \* the warning codes
  Overlooked,    \* RAW_BLOCKS_ALREADY_PERSISTED
  WarningLimit   \* the warnings a row keeps, 200 in the code

ASSUME WarningsAssumption == Overlooked \in Codes /\ WarningLimit \in Nat

Marker == "TRUNCATED"

Kept(reported) ==
  SubSeq(reported, 1, IF Len(reported) > WarningLimit THEN WarningLimit ELSE Len(reported))

(* Mutated: what was cut off is forgotten with its count.                   *)
CapForgetting(reported) ==
  [count |-> Len(Kept(reported)), details |-> Kept(reported),
   warnings |-> Kept(reported), truncated |-> 0]

(* The details end with a marker when some were cut off, the structured     *)
(* warnings with a count.                                                   *)
Capped(reported) ==
  [count     |-> Len(reported),
   details   |-> IF Len(reported) > WarningLimit THEN Append(Kept(reported), Marker)
                                                 ELSE Kept(reported),
   warnings  |-> Kept(reported),
   truncated |-> Len(reported) - Len(Kept(reported))]

(* Mutated: one warning of the right code is enough.                        *)
AnyOverlooked(row) ==
  /\ row.truncated = 0
  /\ row.count = Len(row.warnings)
  /\ \E i \in 1 .. Len(row.warnings) : row.warnings[i] = Overlooked

(* verifyStructuredWarningsRecoveryEligible: the row is complete, its three *)
(* accounts agree, and it holds the one code and at least once.             *)
WarningsEligible(row) ==
  /\ row.truncated = 0
  /\ row.count = Len(row.warnings)
  /\ row.warnings # <<>>
  /\ Len(row.details) = Len(row.warnings)
  /\ \A i \in 1 .. Len(row.warnings) :
       row.warnings[i] = Overlooked /\ row.details[i] = row.warnings[i]

WarningsClean(row) == row.count = 0 /\ row.details = <<>>

(* A recovery window may also come back without any warning, in all three   *)
(* accounts.                                                                *)
WarningsRecovered(row) ==
  IF row.count # 0 THEN WarningsEligible(row)
  ELSE WarningsClean(row) /\ row.warnings = <<>> /\ row.truncated = 0
=============================================================================
