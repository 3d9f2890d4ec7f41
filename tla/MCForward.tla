------------------------------ MODULE MCForward ------------------------------
(* Bounds of the TLC runs of OperatorTools.                                  *)
EXTENDS OperatorTools

MCCodes     == {"RAW_BLOCKS_ALREADY_PERSISTED", "NEGATIVE_BALANCE", "UNCLASSIFIED"}
MCBenign    == "RAW_BLOCKS_ALREADY_PERSISTED"
MCExpected  == "NEGATIVE_BALANCE"
MCReports   == {<<MCBenign>>, <<MCBenign, MCBenign, "UNCLASSIFIED">>}
MCAftermath == {<<MCExpected>>, <<MCExpected, MCExpected, "UNCLASSIFIED">>}
MCExecute   == {TRUE}

(* Apart from the cursor above and below it, beside it; out of order, too   *)
(* long, inherited.                                                         *)
MCSought == {[from |-> w[1], to |-> w[2]] :
               w \in {<<2, 3>>, <<8, 9>>, <<6, 7>>, <<9, 8>>, <<7, 9>>, <<0, 1>>}}
=============================================================================
