-------------------------- MODULE MCStatusPrinter --------------------------
(***************************************************************************)
(* Three commands, one of them in the console pool, and the values of      *)
(* $NINJA_STATUS: all placeholders, and two that are malformed.            *)
(***************************************************************************)
EXTENDS StatusPrinter, TLC

Two == {"a", "c"}
Three == {"a", "b", "c"}
Console == {"c"}
NoEdges == {}
OnlyA == {"a"}

OneInput == [e \in Edge |-> 1]
LogOfA == ("a" :> 2)
Quiet == {"NO_STATUS_UPDATE"}
Normal == {"NORMAL"}
NormalAndQuiet == Normal \cup Quiet
Default == {<<"f", "t">>}
Bad == {<<"f", "">>, <<"s", "x">>}
AllPlaceholders == {<<"s", "t", "r", "u", "f", "o", "c", "p", "e", "E", "w", "W", "P">>}
FewFormats == Bad \cup AllPlaceholders
=============================================================================
