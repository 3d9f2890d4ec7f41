--------------------------- MODULE MCWalletLedger ---------------------------
(* The small instances of WalletLedger that TLC checks.                     *)
EXTENDS WalletLedger, TLC

(* Two actions, of which the transfer normalizer recognizes one by itself.  *)
Zap      == [logs |-> {"log1", "log2"}, family |-> "LP", pays |-> TRUE,
             value |-> TRUE, inline |-> FALSE, genuine |-> TRUE]
AddPair  == [Zap EXCEPT !.inline = TRUE]
Payment  == [logs |-> {}, family |-> "TRANSFERS", pays |-> TRUE,
             value |-> TRUE, inline |-> FALSE, genuine |-> TRUE]
Spurious == [logs |-> {"log1"}, family |-> "TRANSFERS", pays |-> FALSE,
             value |-> FALSE, inline |-> FALSE, genuine |-> FALSE]

Assorted          == 1 :> Zap @@ 2 :> Spurious @@ 3 :> Payment
ActionAndPayment  == 1 :> AddPair @@ 2 :> Payment
Repaired          == 1 :> Spurious @@ 2 :> Payment

Symmetry == Permutations(Procs)
=============================================================================
