------------------------------- MODULE Pools -------------------------------
(***************************************************************************)
(* The pools of state.go: how many of a pool's edges are scheduled, and    *)
(* which wait for a place.  Every edge weighs one (Edge.weight).           *)
(***************************************************************************)
EXTENDS BuildGraph

VARIABLES
    use,      \* pool -> current_use_
    delayed   \* pool -> delayed_, without duplicates

PoolsInit ==
    /\ use = [p \in Pool |-> 0]
    /\ delayed = [p \in Pool |-> <<>>]

PoolsTypeOK ==
    /\ use \in [Pool -> Int]
    /\ delayed \in [Pool -> Seq(Edge)]

ShouldDelayEdge(p) == Depth[p] # 0

\* delayed_ of a pool once e has been delayed in it.
DelayEdge(d, e) == IF e \in ToSet(d) THEN d ELSE Append(d, e)

\* Mutant of Retrieved: lets in one edge more than the pool is deep.
RetrievedOneMore(p, d, u) ==
    IF u > Depth[p] THEN 0
    ELSE IF Len(d) <= Depth[p] - u + 1 THEN Len(d) ELSE Depth[p] - u + 1

\* How many delayed edges RetrieveReadyEdges moves when delayed_ is d and
\* current_use_ is u: it stops at the first one for which there is no place.
Retrieved(p, d, u) ==
    IF u >= Depth[p] THEN 0
    ELSE IF Len(d) <= Depth[p] - u THEN Len(d) ELSE Depth[p] - u

\* How often the edge e is among the first k edges of d.
Copies(d, k, e) == Cardinality({i \in 1..k : d[i] = e})

\* current_use_ once an edge has been given back.
Relinquished(p) == IF Depth[p] # 0 THEN use[p] - 1 ELSE use[p]

(***************************************************************************)
(* RetrieveReadyEdges, from delayed_ = d and current_use_ = u: k edges     *)
(* become ready and are counted.  The loop's |it| shadows the outer one,   *)
(* which stays 0: delayed_ = delayed_[0:] removes nothing.                 *)
(***************************************************************************)
RetrieveReadyEdges(p, d, u) ==
    /\ delayed' = [delayed EXCEPT ![p] = d]
    /\ use' = [use EXCEPT ![p] = u + Retrieved(p, d, u)]
=============================================================================
