---------------------------- MODULE MCWalletSync ----------------------------
(* The small instances of WalletSync that TLC checks.                       *)
EXTENDS WalletSync, TLC

(* One family, alone and repeated.                                          *)
OneFamily == {<<f>> : f \in Families} \cup {<<f, f>> : f \in Families}

(* One family, once.                                                        *)
Single == {<<f>> : f \in Families}

(* One supported family followed by any other, supported or not.           *)
Main == CHOOSE f \in Supported : TRUE
MainFirst == {<<Main, f>> : f \in Families \ {Main}}

Symmetry == Permutations(Syncs)
=============================================================================
