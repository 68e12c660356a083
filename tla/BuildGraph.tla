----------------------------- MODULE BuildGraph -----------------------------
(***************************************************************************)
(* The static dependency graph that a manifest describes: the fields of    *)
(* Edge, Node and Pool (graph_h.go, state.go) that the build never         *)
(* changes, and what the dependency scan makes of them before the build    *)
(* starts.                                                                 *)
(*                                                                         *)
(* Abstractions: a node that an edge lists twice counts once; dyndep       *)
(* bindings do not occur (ParseEdge panics on every one of them, see the   *)
(* README), so dyndep_pending() is false everywhere.                       *)
(***************************************************************************)
EXTENDS Integers, Sequences, FiniteSets, SequencesExt

CONSTANTS
    Edge,       \* the edges of State.edges_
    Node,       \* the nodes of State.paths_
    Pool,       \* the pools of State.pools_
    Ins,        \* edge -> its explicit and implicit inputs, in order
    OrderOnly,  \* edge -> the set of its order-only inputs
    Outs,       \* edge -> its outputs, in order
    OutEdges,   \* node -> out_edges_: the edges it is an input of, and those that named
                \* it before ParseEdge took it from their inputs
    PoolOf,     \* edge -> the pool of its rule
    Depth,      \* pool -> depth_; 0 is infinite
    Phony,      \* the edges of the phony rule, which have no command
    Generator,  \* the edges whose rule sets generator
    Restat,     \* the edges whose rule sets restat
    DepsTyped,  \* the edges whose rule sets deps = gcc or msvc
    Targets     \* the nodes the build was asked for

\* All the nodes Edge.inputs_ lists, order-only ones included.
Inputs(e) == ToSet(Ins[e]) \cup OrderOnly[e]

\* The edges that produce an input of e: i.in_edge() for i in e.inputs_.
DependsOn == [e \in Edge |-> {d \in Edge : ToSet(Outs[d]) \cap Inputs(e) # {}}]

\* Those of them whose dirtiness makes e dirty: is_order_only() is false.
DirtiedBy == [e \in Edge |-> {d \in Edge : ToSet(Outs[d]) \cap ToSet(Ins[e]) # {}}]

ASSUME GraphAssumption ==
    /\ IsFiniteSet(Edge)
    /\ Ins \in [Edge -> Seq(Node)]
    /\ OrderOnly \in [Edge -> SUBSET Node]
    /\ Outs \in [Edge -> Seq(Node)]
    /\ OutEdges \in [Node -> Seq(Edge)]
    /\ PoolOf \in [Edge -> Pool]
    /\ Depth \in [Pool -> Nat]
    /\ Phony \subseteq Edge /\ Generator \subseteq Edge
    /\ Restat \subseteq Edge /\ DepsTyped \subseteq Edge
    /\ Targets \subseteq Node
    \* AddIn links both ends, and ParseEdge undoes one of them for a phony edge that names
    \* itself; AddOut refuses a second producer.
    /\ \A e \in Edge, n \in Node : n \in Inputs(e) => e \in ToSet(OutEdges[n])
    /\ \A e \in Edge, n \in Node : e \in ToSet(OutEdges[n]) =>
           n \in Inputs(e) \/ (e \in Phony /\ ToSet(Outs[e]) = {n})
    /\ \A d, e \in Edge : d # e => ToSet(Outs[d]) \cap ToSet(Outs[e]) = {}

\* VerifyDAG rejects every cycle before a build starts.
ASSUME AcyclicAssumption ==
    \A S \in SUBSET Edge : S # {} => \E e \in S : DependsOn[e] \cap S = {}

-----------------------------------------------------------------------------
(***************************************************************************)
(* RecomputeDirty's verdict on the whole graph.  |own| is the set of edges *)
(* that RecomputeOutputsDirty or a missing depfile makes dirty; leaves     *)
(* exist (a missing one is an error before the build).  On an acyclic      *)
(* graph each of the three equations has exactly one solution.             *)
(***************************************************************************)
IsDirtyScan(own, D) ==
    D = own \cup {e \in Edge : DirtiedBy[e] \cap D # {}}

\* A clean edge behind an unbuilt order-only input is clean but not ready; a
\* phony edge without inputs has nothing to do and is always ready.
IsReadyScan(D, R) ==
    R = {e \in Edge : /\ DependsOn[e] \subseteq R
                      /\ e \in D => e \in Phony /\ Inputs(e) = {}}

\* The edges AddSubTarget reaches from the targets: it stops at edges that
\* are already up to date.
IsPlanned(R, W) ==
    W = {e \in Edge \ R : \/ ToSet(Outs[e]) \cap Targets # {}
                          \/ \E f \in W : e \in DependsOn[f]}
=============================================================================
