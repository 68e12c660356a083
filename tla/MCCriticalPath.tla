--------------------------- MODULE MCCriticalPath --------------------------
(***************************************************************************)
(* Every acyclic graph of a few edges, with the inputs in every order, and *)
(* with one input listed twice.                                            *)
(***************************************************************************)
EXTENDS CriticalPath, FiniteSets, TLC

CONSTANTS Size  \* how many edges

EdgeNumbers == 1..Size

Orders(S) == {s \in [1..Cardinality(S) -> S] : IsInjective(s)}

\* The producers of an edge have smaller numbers; its id need not.
InputsOf(e) ==
    UNION {Orders(S) : S \in SUBSET (1..e - 1)}
        \cup {<<p, p>> : p \in 1..e - 1}

AllGraphs ==
    {g \in [EdgeNumbers -> UNION {InputsOf(e) : e \in EdgeNumbers}] :
        \A e \in EdgeNumbers : g[e] \in InputsOf(e)}

OneTarget == {<<Size>>}
UpToTwoTargets == {<<Size>>, <<Size - 1>>} \cup {<<Size, e>> : e \in EdgeNumbers}
                    \cup {<<Size - 1, Size>>}
AtMostOnePhony == {{}} \cup {{e} : e \in EdgeNumbers}
Numbered == {[e \in EdgeNumbers |-> e]}
AnyNumbering == Permutations(EdgeNumbers)
=============================================================================
