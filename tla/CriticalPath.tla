--------------------------- MODULE CriticalPath ----------------------------
(***************************************************************************)
(* Plan.ComputeCriticalPath (build_plan.go) with TopoSort (build.go), and  *)
(* the order in which FindWork then polls the first edges (EdgeCmp).  The  *)
(* recursion of TopoSort.Visit is a stack of the calls that are active.    *)
(***************************************************************************)
EXTENDS Integers, SequencesExt

CONSTANTS
    Edge,     \* the edges of the state
    Graphs,   \* the graphs explored: edge -> the producers of its inputs
    Phonies,  \* the sets of phony edges explored
    Targets,  \* the sequences of the targets' producers explored
    Ids       \* the numberings of the edges explored

ASSUME CriticalPathAssumption ==
    /\ Graphs \subseteq [Edge -> Seq(Edge)]
    /\ Phonies \subseteq SUBSET Edge
    /\ Targets \subseteq Seq(Edge)
    /\ \A id \in Ids : IsInjective(id) /\ \A e \in Edge : id[e] \in Nat

VARIABLES
    inputs_,       \* edge.inputs_, those that an edge produces
    phony,
    targets_,      \* targets_, those still to be visited
    id_,           \* edge.id_
    visited_set_, sorted_edges_,
    stack,         \* the active calls of Visit: the edge and the inputs left
    critical_path_weight_,
    reverse_it,    \* how many edges of sorted_edges_ are left to propagate
    ready,         \* the ready queue
    least_first,   \* external: which end of its order the queue polls
    polled,        \* history: the edges that FindWork has returned
    pc

input == <<inputs_, phony, id_, least_first>>
sort == <<targets_, visited_set_, sorted_edges_, stack>>
vars == <<input, sort, critical_path_weight_, reverse_it, ready, polled, pc>>

Init ==
    /\ inputs_ \in Graphs /\ phony \in Phonies
    /\ targets_ \in Targets /\ id_ \in Ids
    /\ visited_set_ = {} /\ sorted_edges_ = <<>> /\ stack = <<>>
    /\ critical_path_weight_ = [e \in Edge |-> 0]
    /\ reverse_it = 0
    /\ ready = {} /\ least_first \in BOOLEAN /\ polled = <<>>
    /\ pc = "sort"

EdgeWeightHeuristic(e) == IF e \in phony THEN 0 ELSE 1

\* Visit(e): nothing for an edge seen before, otherwise a call for it.
Visit(e, callers) ==
    IF e \in visited_set_
    THEN stack' = callers /\ UNCHANGED visited_set_
    ELSE /\ visited_set_' = visited_set_ \cup {e}
         /\ stack' = Append(callers, [edge |-> e, left |-> inputs_[e]])

VisitTarget ==
    /\ pc = "sort" /\ stack = <<>> /\ targets_ # <<>>
    /\ Visit(Head(targets_), <<>>)
    /\ targets_' = Tail(targets_)
    /\ UNCHANGED <<input, sorted_edges_, critical_path_weight_, reverse_it, ready, polled, pc>>

VisitInput ==
    /\ pc = "sort" /\ stack # <<>> /\ Last(stack).left # <<>>
    /\ LET call == Last(stack)
       IN  Visit(Head(call.left),
                 Append(Front(stack), [call EXCEPT !.left = Tail(@)]))
    /\ UNCHANGED <<input, targets_, sorted_edges_, critical_path_weight_, reverse_it,
                   ready, polled, pc>>

Sorted(es, e) == Append(es, e)

EndVisit ==
    /\ pc = "sort" /\ stack # <<>> /\ Last(stack).left = <<>>
    /\ sorted_edges_' = Sorted(sorted_edges_, Last(stack).edge)
    /\ stack' = Front(stack)
    /\ UNCHANGED <<input, targets_, visited_set_, critical_path_weight_, reverse_it,
                   ready, polled, pc>>

\* The weights of the sorted edges start from their own.
ResetWeights ==
    /\ pc = "sort" /\ stack = <<>> /\ targets_ = <<>>
    /\ critical_path_weight_' =
          [e \in Edge |-> IF e \in ToSet(sorted_edges_) THEN EdgeWeightHeuristic(e)
                          ELSE critical_path_weight_[e]]
    /\ reverse_it' = Len(sorted_edges_)
    /\ pc' = "propagate"
    /\ UNCHANGED <<input, sort, ready, polled>>

\* Mutant of Raised: the last consumer wins.
RaisedAlways(w, e, producer) ==
    [w EXCEPT ![producer] = w[e] + EdgeWeightHeuristic(producer)]

\* One input of e: its producer is raised to the path through e.
Raised(w, e, producer) ==
    [w EXCEPT ![producer] =
        IF w[e] + EdgeWeightHeuristic(producer) > @
        THEN w[e] + EdgeWeightHeuristic(producer) ELSE @]

PropagateWeight ==
    /\ pc = "propagate" /\ reverse_it > 0
    /\ LET e == sorted_edges_[reverse_it]
       IN  critical_path_weight_' =
              FoldLeft(LAMBDA w, producer : Raised(w, e, producer),
                       critical_path_weight_, inputs_[e])
    /\ reverse_it' = reverse_it - 1
    /\ UNCHANGED <<input, sort, ready, polled, pc>>

\* ScheduleInitialEdges, in a build in which everything is dirty and no pool
\* delays: the edges of the plan that wait for nobody.
ScheduleInitialEdges ==
    /\ pc = "propagate" /\ reverse_it = 0
    /\ ready' = {e \in visited_set_ : inputs_[e] = <<>>}
    /\ pc' = "schedule"
    /\ UNCHANGED <<input, sort, critical_path_weight_, reverse_it, polled>>

\* EdgeCmp.Compare: a is smaller than b.
Less(a, b) == id_[a] < id_[b]

Comes(a, b) == IF least_first THEN Less(a, b) ELSE Less(b, a)

FindWork ==
    /\ pc = "schedule"
    /\ \E e \in ready :
          /\ \A other \in ready \ {e} : Comes(e, other)
          /\ ready' = ready \ {e}
          /\ polled' = Append(polled, e)
    /\ UNCHANGED <<input, sort, critical_path_weight_, reverse_it, pc>>

Done == pc = "schedule" /\ ready = {} /\ UNCHANGED vars

Next ==
    \/ VisitTarget \/ VisitInput \/ EndVisit
    \/ ResetWeights
    \/ PropagateWeight
    \/ ScheduleInitialEdges
    \/ FindWork
    \/ Done

Spec == Init /\ [][Next]_vars

-----------------------------------------------------------------------------
\* The variables have their types; a call's edge has been visited and is not yet
\* sorted.
TypeOK ==
    /\ sorted_edges_ \in Seq(visited_set_)
    /\ \A i \in DOMAIN stack :
          stack[i].edge \in visited_set_ \ ToSet(sorted_edges_)
    /\ critical_path_weight_ \in [Edge -> Int]
    /\ reverse_it \in 0..Len(sorted_edges_)
    /\ ready \subseteq visited_set_

\* The paths of the planned graph from e to a consumer of it, and on.
Paths(e) ==
    {p \in UNION {[1..n -> visited_set_] : n \in 1..Len(sorted_edges_)} :
        /\ p[1] = e
        /\ \A i \in 1..Len(p) - 1 : p[i] \in ToSet(inputs_[p[i + 1]])}

PathWeight(p) == FoldLeft(LAMBDA sum, e : sum + EdgeWeightHeuristic(e), 0, p)

\* The weight of a planned edge is that of the heaviest path from it to a target,
\* and the others keep the 0 of NewEdge (Edge.critical_path_weight: "the path which
\* maximises the sum oof weights along that path").
WeightIsHeaviestPath ==
    pc = "schedule" /\ polled = <<>> =>
        \A e \in Edge :
            IF e \in visited_set_
            THEN LET weights == {PathWeight(p) : p \in Paths(e)}
                 IN  /\ critical_path_weight_[e] \in weights
                     /\ \A w \in weights : w <= critical_path_weight_[e]
            ELSE critical_path_weight_[e] = 0

\* FindWork returns the edges in the order of their weights ("critical_path_weight
\* is the priority during build scheduling").
HighestPriorityFirst ==
    \A i, j \in DOMAIN polled :
        i < j => critical_path_weight_[polled[i]] >= critical_path_weight_[polled[j]]
=============================================================================
