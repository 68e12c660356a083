----------------------------- MODULE MCBuildLog -----------------------------
(* An edge with two outputs and one that is recorded between its recordings. *)
EXTENDS BuildLog

TwoEdges == [split |-> <<"left", "right">>, join |-> <<"out">>]
=============================================================================
