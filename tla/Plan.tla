-------------------------------- MODULE Plan --------------------------------
(***************************************************************************)
(* The Plan of build_plan.go: which edges are wanted, which are ready, and *)
(* what happens to the rest when an edge finishes or is found clean.       *)
(*                                                                         *)
(* EdgeFinished and CleanNode call themselves through the graph.  |calls|  *)
(* is the stack of the calls and loop iterations still to be made, the     *)
(* next one first; the builder's own loop goes on when it is empty.  A     *)
(* step is one call, so that a reader sees every order of lookups and      *)
(* updates the recursion has.                                              *)
(***************************************************************************)
EXTENDS Pools

CONSTANT
    Recorded        \* the edges that this process has recorded in a build of the manifest

VARIABLES
    want,           \* want_: Absent, or what is wanted of the edge
    ready,          \* ready_, as a bag: edge -> number of copies queued
    outputs_ready,  \* the edges whose outputs_ready_ is set
    dirty,          \* the nodes whose dirty_ is set
    deps_missing,   \* the edges whose deps_missing_ the scan has set
    wanted_edges,   \* wanted_edges_
    command_edges,  \* command_edges_
    calls           \* the pending calls

planVars == <<use, delayed, want, ready, outputs_ready, dirty, deps_missing,
              wanted_edges, command_edges, calls>>

Absent == "absent"
kWantNothing == "kWantNothing"
kWantToStart == "kWantToStart"
kWantToFinish == "kWantToFinish"

NodeCall == {"NodeFinished", "CleanNode", "RestatOutput"}
EdgeCall == {"EdgeMaybeReady", "CleanOutEdge", "RecomputeOutputsDirty", "Unwant",
             "EdgeFinished", "RecordCommand"}
\* RestatOutput and RecordCommand are the builder's own (see Builder).
Call == [op : NodeCall, arg : Node] \cup [op : EdgeCall, arg : Edge]

Wanted(e) == want[e] \in {kWantToStart, kWantToFinish}

more_to_do == wanted_edges > 0 /\ command_edges > 0

\* Mutant of AllInputsReady: forgets the order-only inputs.
AllInputsReadyRegular(e) == DirtiedBy[e] \subseteq outputs_ready

AllInputsReady(e) == DependsOn[e] \subseteq outputs_ready

\* The calls that a loop over the sequence s makes, in order.
CallEach(op, s) == [i \in 1..Len(s) |-> [op |-> op, arg |-> s[i]]]

PlanTypeOK ==
    /\ PoolsTypeOK
    /\ want \in [Edge -> {Absent, kWantNothing, kWantToStart, kWantToFinish}]
    /\ ready \in [Edge -> Nat]
    /\ outputs_ready \in SUBSET Edge
    /\ dirty \in SUBSET Node
    /\ deps_missing \in SUBSET Edge
    /\ wanted_edges \in Int /\ command_edges \in Int
    /\ calls \in Seq(Call)

(***************************************************************************)
(* The plan Builder.AddTarget2 has built from the scan: AddSubTarget gives *)
(* every edge it reaches an entry and EdgeWanted counts the dirty ones.    *)
(* Without an entry in the build log (Load reads none) a generator edge is *)
(* never dirty of itself; any other edge is, unless the remote cache       *)
(* answers, which is left open.  With one, which only this process can     *)
(* have made, any edge is dirty if its inputs have another hash now.       *)
(***************************************************************************)
PlanInit ==
    /\ PoolsInit
    /\ outputs_ready \in SUBSET Edge
    /\ \E D \in SUBSET Edge :
        /\ IsReadyScan(D, outputs_ready)
        /\ \E own \in SUBSET D : /\ IsDirtyScan(own, D)
                               /\ deps_missing \in SUBSET (own \cap DepsTyped)
                               /\ own \cap Generator \subseteq deps_missing \cup Recorded
        /\ dirty = UNION {ToSet(Outs[e]) : e \in D}
        /\ \E W \in SUBSET (Edge \ outputs_ready) :
            /\ IsPlanned(outputs_ready, W)
            /\ want = [e \in Edge |-> IF e \notin W THEN Absent
                                      ELSE IF e \in D THEN kWantToStart ELSE kWantNothing]
            /\ wanted_edges = Cardinality(W \cap D)
            /\ command_edges = Cardinality((W \cap D) \ Phony)
    /\ ready = [e \in Edge |-> 0]
    /\ calls = <<>>

-----------------------------------------------------------------------------
(***************************************************************************)
(* ScheduleInitialEdges: edges of unlimited pools become ready at once;    *)
(* the others are all delayed (and stay kWantToStart), in the order of Go's *)
(* map iteration, and each pool then gives what it has room for.           *)
(***************************************************************************)
Initial == {e \in Edge : want[e] = kWantToStart /\ AllInputsReady(e)}
InitiallyDelayed == {e \in Initial : ShouldDelayEdge(PoolOf[e])}

ScheduleInitialEdges ==
    /\ \E d \in [Pool -> UNION {SetToSeqs(S) : S \in SUBSET InitiallyDelayed}] :
        /\ \A p \in Pool : ToSet(d[p]) = {e \in InitiallyDelayed : PoolOf[e] = p}
        /\ delayed' = d
        /\ use' = [p \in Pool |-> use[p] + Retrieved(p, d[p], use[p])]
        /\ ready' = [e \in Edge |->
              LET p == PoolOf[e] IN
              IF ShouldDelayEdge(p)
              THEN Copies(d[p], Retrieved(p, d[p], use[p]), e)
              ELSE IF e \in Initial THEN 1 ELSE 0]
    /\ want' = [e \in Edge |-> IF e \in Initial \ InitiallyDelayed
                               THEN kWantToFinish ELSE want[e]]
    /\ UNCHANGED <<outputs_ready, dirty, deps_missing, wanted_edges, command_edges, calls>>

\* FindWork: which of the ready edges the external queue polls is left open.
FindWork(e) == ready[e] > 0

\* Mutant of ScheduleWork: does not look whether the edge is scheduled already.
ScheduleWorkAgain(e, rest) ==
    /\ calls' = rest
    /\ want' = [want EXCEPT ![e] = kWantToFinish]
    /\ ready' = [ready EXCEPT ![e] = @ + 1]
    /\ UNCHANGED <<use, delayed, outputs_ready, dirty, deps_missing, wanted_edges,
                   command_edges>>

\* ScheduleWork, |rest| being the calls after it.
ScheduleWork(e, rest) ==
    LET p == PoolOf[e] IN
    /\ calls' = rest
    /\ \/ /\ want[e] = kWantToFinish
          /\ UNCHANGED <<want, ready, use, delayed>>
       \/ /\ want[e] = kWantToStart
          /\ want' = [want EXCEPT ![e] = kWantToFinish]
          /\ IF ShouldDelayEdge(p)
             THEN LET d == DelayEdge(delayed[p], e) IN
                  /\ RetrieveReadyEdges(p, d, use[p])
                  /\ ready' = [x \in Edge |->
                        ready[x] + Copies(d, Retrieved(p, d, use[p]), x)]
             ELSE /\ ready' = [ready EXCEPT ![e] = @ + 1]
                  /\ UNCHANGED <<use, delayed>>
    /\ UNCHANGED <<outputs_ready, dirty, deps_missing, wanted_edges, command_edges>>

\* The part of EdgeFinished that gives the edge's place back to its pool, with
\* q as the ready queue before it.
ReleasePlace(e, q) ==
    LET p == PoolOf[e]
        u == IF want[e] # kWantNothing THEN Relinquished(p) ELSE use[p]
    IN  /\ RetrieveReadyEdges(p, delayed[p], u)
        /\ ready' = [x \in Edge |->
              q[x] + Copies(delayed[p], Retrieved(p, delayed[p], u), x)]

\* Mutant of StillWanted: counts an edge that was not wanted.
StillWantedLess(e) == wanted_edges - 1

\* wanted_edges_ without the edge e, if it was counted.
StillWanted(e) == IF want[e] # kWantNothing THEN wanted_edges - 1 ELSE wanted_edges

\* EdgeFinished(e, kEdgeSucceeded); want_ must have an entry for e.
EdgeFinishedSucceeded(e, q, rest) ==
    /\ want[e] # Absent
    /\ ReleasePlace(e, q)
    /\ wanted_edges' = StillWanted(e)
    /\ want' = [want EXCEPT ![e] = Absent]
    /\ outputs_ready' = outputs_ready \cup {e}
    /\ calls' = CallEach("NodeFinished", Outs[e]) \o rest
    /\ UNCHANGED <<dirty, deps_missing, command_edges>>

\* Mutant of EdgeFinishedFailed: treats a failure like a success.
EdgeFinishedAnyway(e) == EdgeFinishedSucceeded(e, ready, calls)

\* EdgeFinished(e, kEdgeFailed).
EdgeFinishedFailed(e) ==
    /\ want[e] # Absent
    /\ ReleasePlace(e, ready)
    /\ UNCHANGED <<want, outputs_ready, dirty, deps_missing, wanted_edges,
                   command_edges, calls>>

\* Mutant of EdgeMaybeReady: does not pass an unwanted edge's readiness on.
EdgeMaybeReadyWanted(e, rest) ==
    IF want[e] \in {Absent, kWantNothing} \/ ~AllInputsReady(e)
    THEN /\ calls' = rest
         /\ UNCHANGED <<use, delayed, want, ready, outputs_ready, dirty, deps_missing,
                        wanted_edges, command_edges>>
    ELSE ScheduleWork(e, rest)

\* EdgeMaybeReady, after the lookup in want_ that NodeFinished's loop makes.
EdgeMaybeReady(e, rest) ==
    IF want[e] = Absent \/ ~AllInputsReady(e)
    THEN /\ calls' = rest
         /\ UNCHANGED <<use, delayed, want, ready, outputs_ready, dirty, deps_missing,
                        wanted_edges, command_edges>>
    ELSE IF want[e] # kWantNothing THEN ScheduleWork(e, rest)
    ELSE EdgeFinishedSucceeded(e, ready, rest)

\* Mutant of NodeFinished: looks at the first out edge only.
NodeFinishedFirst(n, rest) ==
    /\ calls' = IF OutEdges[n] = <<>> THEN rest
                ELSE <<[op |-> "EdgeMaybeReady", arg |-> Head(OutEdges[n])]>> \o rest
    /\ UNCHANGED <<use, delayed, want, ready, outputs_ready, dirty, deps_missing,
                   wanted_edges, command_edges>>

\* NodeFinished of a node without dyndep information.
NodeFinished(n, rest) ==
    /\ calls' = CallEach("EdgeMaybeReady", OutEdges[n]) \o rest
    /\ UNCHANGED <<use, delayed, want, ready, outputs_ready, dirty, deps_missing,
                   wanted_edges, command_edges>>

-----------------------------------------------------------------------------
\* CleanNode: the node is clean; look at each of its out edges.
CleanNode(n, rest) ==
    /\ dirty' = dirty \ {n}
    /\ calls' = CallEach("CleanOutEdge", OutEdges[n]) \o rest
    /\ UNCHANGED <<use, delayed, want, ready, outputs_ready, deps_missing,
                   wanted_edges, command_edges>>

\* One iteration of CleanNode's outer loop.  The inner one runs once per
\* non-order-only input, if one of these inputs is dirty.
CleanOutEdge(e, rest) ==
    /\ calls' = IF /\ want[e] \notin {Absent, kWantNothing}
                   /\ e \notin deps_missing
                   /\ ToSet(Ins[e]) \cap dirty # {}
                THEN CallEach("RecomputeOutputsDirty", [i \in 1..Len(Ins[e]) |-> e]) \o rest
                ELSE rest
    /\ UNCHANGED <<use, delayed, want, ready, outputs_ready, dirty, deps_missing,
                   wanted_edges, command_edges>>

\* One iteration of the inner loop.  Whether the outputs are dirty is for the entry that
\* this process has, or the remote cache, to say; without an answer only a generator
\* edge's outputs are clean.
RecomputeOutputsDirty(e, rest) ==
    /\ \/ /\ e \notin Generator \ Recorded
          /\ calls' = rest
       \/ calls' = CallEach("CleanNode", Outs[e])
                   \o <<[op |-> "Unwant", arg |-> e]>> \o rest
    /\ UNCHANGED <<use, delayed, want, ready, outputs_ready, dirty, deps_missing,
                   wanted_edges, command_edges>>

\* The end of that iteration, once the outputs have been cleaned.
Unwant(e, rest) ==
    /\ want' = [want EXCEPT ![e] = kWantNothing]
    /\ wanted_edges' = wanted_edges - 1
    /\ command_edges' = IF e \in Phony THEN command_edges ELSE command_edges - 1
    /\ calls' = rest
    /\ UNCHANGED <<use, delayed, ready, outputs_ready, dirty, deps_missing>>
=============================================================================
