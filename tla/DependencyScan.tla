--------------------------- MODULE DependencyScan ---------------------------
(***************************************************************************)
(* What happens between the manifest and the build: for each target,       *)
(* RecomputeDirty's depth-first search over a graph whose edges may have   *)
(* cycles and whose inputs grow as recorded deps are loaded, and then      *)
(* Plan.AddTarget.  A frame is one activation of RecomputeNodeDirty for a  *)
(* node with a producer; the walk of AddSubTarget is the sequence of the   *)
(* calls that are still to come.                                           *)
(*                                                                         *)
(* A deps record or depfile is what loading it gives; whether the log or   *)
(* the remote cache knows an edge's outputs is a choice per edge.  Dyndep  *)
(* files do not occur (see BuildGraph).                                    *)
(***************************************************************************)
EXTENDS Integers, Sequences, FiniteSets, SequencesExt

CONSTANTS
    Edge, Node, Phony, Generator,
    Outs,        \* edge -> its outputs, in order
    Nil,         \* a nil *Node
    Graphs       \* the manifests, recordings and command lines considered

\* A graph gives each edge: ins, its inputs_ in the manifest's order, order-only ones
\* last; order_only, their number; validations; load, what its recorded deps are:
\* "none" (the rule asks for none), "log" or "depfile" (loaded from there), "stale"
\* (missing or out of date), "error" (the depfile is malformed); and found, the deps
\* in the record.  log says what LookupByOutput finds for its outputs:
\* "none", or an entry of the "same" command and inputs, of another "command" or of other
\* "inputs".  A graph also gives the targets and the nodes present as files.
Producers == [n \in Node |-> {e \in Edge : n \in ToSet(Outs[e])}]
Leaf == {n \in Node : Producers[n] = {}}
InEdge == [n \in Node \ Leaf |-> CHOOSE e \in Edge : e \in Producers[n]]

ASSUME DependencyScanAssumption ==
    /\ Outs \in [Edge -> Seq(Node)] /\ Phony \cup Generator \subseteq Edge /\ Nil \notin Node
    /\ \A d, e \in Edge : d # e => ToSet(Outs[d]) \cap ToSet(Outs[e]) = {}

\* order_only may be more than there are inputs, because ParseEdge does not adjust it when
\* it takes a phony edge's own output from them.
WellFormed(g) ==
    /\ g.ins \in [Edge -> Seq(Node)] /\ g.order_only \in [Edge -> Nat]
    /\ g.validations \in [Edge -> Seq(Node)] /\ g.found \in [Edge -> Seq(Node)]
    /\ g.targets \in Seq(Node)

ASSUME GraphsAssumption == \A g \in Graphs : WellFormed(g)

VARIABLES
    graph,          \* the graph at hand; it does not change
    targets,        \* the targets still to be added
    inputs_, mark_, outputs_ready_, deps_missing_,
    dirty,          \* the nodes with dirty_
    queue,          \* RecomputeDirty's deque of nodes to visit
    frames,         \* the activations of RecomputeNodeDirty
    walk,           \* the calls of AddSubTarget that are still to come
    want,           \* edge -> "absent", "nothing", "start"
    pc,             \* "target", "scan", "plan", "done", "panic"
    err             \* "none", "cycle", "missing", "depfile", or "silent" for a false without one

vars == <<graph, targets, inputs_, mark_, outputs_ready_, deps_missing_,
          dirty, queue, frames, walk, want, pc, err>>
scanned == <<inputs_, mark_, outputs_ready_, deps_missing_, dirty, queue, frames>>
planned == <<walk, want>>

Frame == [node : Node, next : Nat \ {0}, returned : BOOLEAN, dirty : BOOLEAN]

TypeOK ==
    /\ inputs_ \in [Edge -> Seq(Node \cup {Nil})]
    /\ mark_ \in [Edge -> {"none", "stack", "done"}]
    /\ outputs_ready_ \in [Edge -> BOOLEAN] /\ deps_missing_ \in [Edge -> BOOLEAN]
    /\ dirty \subseteq Node
    \* the outputs of an edge are dirty together
    /\ \A e \in Edge : ToSet(Outs[e]) \subseteq dirty \/ ToSet(Outs[e]) \cap dirty = {}
    /\ queue \in Seq(Node) /\ walk \in Seq(Node) /\ frames \in Seq(Frame)
    /\ want \in [Edge -> {"absent", "nothing", "start"}]
    /\ pc \in {"target", "scan", "plan", "done", "panic"}
    /\ err \in {"none", "cycle", "missing", "depfile", "silent"}

Init ==
    /\ graph \in Graphs /\ targets = graph.targets
    /\ inputs_ = graph.ins
    /\ mark_ = [e \in Edge |-> "none"]
    /\ outputs_ready_ = [e \in Edge |-> FALSE] /\ deps_missing_ = [e \in Edge |-> FALSE]
    /\ dirty = {} /\ queue = <<>> /\ frames = <<>>
    /\ walk = <<>> /\ want = [e \in Edge |-> "absent"]
    /\ pc = "target" /\ err = "none"

\* Mutant of IsOrderOnly: one input too many is taken to be order-only.
IsOrderOnlyEarly(e, i) == i > Len(inputs_[e]) - graph.order_only[e] - 1

\* is_order_only counts from the end of inputs_, with positions from 1.
IsOrderOnly(e, i) == i > Len(inputs_[e]) - graph.order_only[e]

-----------------------------------------------------------------------------
(* RunBuild and AddTarget2 *)

NextTarget ==
    /\ pc = "target" /\ targets # <<>>
    /\ pc' = "scan" /\ queue' = <<Head(targets)>>
    /\ UNCHANGED <<graph, targets, inputs_, mark_, outputs_ready_, deps_missing_, dirty,
                   frames, planned, err>>

NoMoreTargets ==
    /\ pc = "target" /\ targets = <<>>
    /\ pc' = "done"
    /\ UNCHANGED <<graph, targets, scanned, planned, err>>

\* RecomputeDirty has returned true.  The validations it found were appended to its own
\* copy of the caller's slice.
ScanDone ==
    /\ pc = "scan" /\ frames = <<>> /\ queue = <<>>
    /\ pc' = "plan"
    /\ LET target == Head(targets)
           upToDate == target \notin Leaf /\ outputs_ready_[InEdge[target]]
       IN  walk' = IF upToDate THEN <<>> ELSE <<target>>
    /\ UNCHANGED <<graph, targets, scanned, want, err>>

\* Mutant of TargetsAfter: the loop does not advance.
TargetsAfterSame == targets

TargetsAfter == Tail(targets)

\* A false with an error ends the build; RunBuild takes one without an error to say that
\* the target is up to date, and goes on with the next.
Fail(error) ==
    /\ err' = error
    /\ IF error = "silent" THEN targets' = TargetsAfter /\ pc' = "target"
                           ELSE UNCHANGED targets /\ pc' = "done"

-----------------------------------------------------------------------------
(* RecomputeNodeDirty *)

Top == frames[Len(frames)]
TopEdge == InEdge[Top.node]
NextInput == inputs_[TopEdge][Top.next]

\* A node whose visit is about to begin, and where it is taken from.
About(n) ==
    /\ pc = "scan"
    /\ IF frames = <<>> THEN queue # <<>> /\ n = Head(queue)
       ELSE /\ ~Top.returned /\ Top.next <= Len(inputs_[TopEdge])
            /\ n = NextInput

QueueAfter == IF frames = <<>> THEN Tail(queue) ELSE queue
FramesAfter == IF frames = <<>> THEN frames
               ELSE [frames EXCEPT ![Len(frames)].returned = TRUE]

VisitLeaf(n) ==
    /\ About(n) /\ n # Nil /\ n \in Leaf
    /\ dirty' = IF n \in graph.present THEN dirty ELSE dirty \cup {n}
    /\ queue' = QueueAfter /\ frames' = FramesAfter
    /\ UNCHANGED <<graph, targets, inputs_, mark_, outputs_ready_, deps_missing_, planned,
                   pc, err>>

\* Mutant of IsDone: an edge with any mark counts as visited.
IsDoneOrInStack(n) == mark_[InEdge[n]] # "none"

IsDone(n) == mark_[InEdge[n]] = "done"

VisitDone(n) ==
    /\ About(n) /\ n # Nil /\ n \notin Leaf /\ IsDone(n)
    /\ queue' = QueueAfter /\ frames' = FramesAfter
    /\ UNCHANGED <<graph, targets, inputs_, mark_, outputs_ready_, deps_missing_, dirty,
                   planned, pc, err>>

\* VerifyDAG.  With nothing on the stack its message reads stack[-1].
VisitInStack(n) ==
    /\ About(n) /\ n # Nil /\ n \notin Leaf /\ mark_[InEdge[n]] = "stack"
    /\ IF frames = <<>> THEN pc' = "panic" /\ UNCHANGED <<targets, err>> ELSE Fail("cycle")
    /\ UNCHANGED <<graph, scanned, planned>>

VisitNil ==
    /\ About(Nil)
    /\ pc' = "panic"
    /\ UNCHANGED <<graph, targets, scanned, planned, err>>

\* StatNode of an output that exists hashes its edge's inputs, and fails when one of
\* them does not; Stat leaves the error message empty.
StatFails(e) ==
    ToSet(Outs[e]) \cap graph.present # {} /\ ~(ToSet(inputs_[e]) \subseteq graph.present)

\* LoadDepsFromLog appends the deps behind the order-only inputs.
LoadDepsFromLog(e) == inputs_[e] \o graph.found[e]

\* PreallocateSpace makes room for |count| - order_only_deps_ more inputs, and what is
\* then overwritten begins order_only_deps_ too early.
DepfileStart(e) == Len(inputs_[e]) - 2 * graph.order_only[e]
DepfileEnd(e) == DepfileStart(e) + Len(graph.found[e])
DepfileLength(e) == Len(inputs_[e]) + Len(graph.found[e]) - graph.order_only[e]
DepfilePanics(e) ==
    /\ graph.load[e] = "depfile"
    /\ \/ Len(graph.found[e]) < graph.order_only[e]
       \/ graph.found[e] # <<>> /\ DepfileStart(e) < 0

ProcessDepfileDeps(e) ==
    [i \in 1..DepfileLength(e) |->
        IF i > DepfileStart(e) /\ i <= DepfileEnd(e) THEN graph.found[e][i - DepfileStart(e)]
        ELSE IF i <= Len(inputs_[e]) THEN inputs_[e][i] ELSE Nil]

LoadDeps(e) ==
    CASE graph.load[e] = "log" -> LoadDepsFromLog(e)
      [] graph.load[e] = "depfile" -> ProcessDepfileDeps(e)
      [] OTHER -> inputs_[e]

Unmarked(n) == About(n) /\ n # Nil /\ n \notin Leaf /\ mark_[InEdge[n]] = "none"

MarkOnEntry == "stack"

\* The part of RecomputeNodeDirty before the loop over the inputs.
EnterEdge(n) ==
    LET e == InEdge[n] IN
    /\ Unmarked(n) /\ ~StatFails(e) /\ graph.load[e] # "error" /\ ~DepfilePanics(e)
    /\ mark_' = [mark_ EXCEPT ![e] = MarkOnEntry]
    /\ outputs_ready_' = [outputs_ready_ EXCEPT ![e] = TRUE]
    /\ deps_missing_' = [deps_missing_ EXCEPT ![e] = (graph.load[e] = "stale")]
    /\ inputs_' = [inputs_ EXCEPT ![e] = LoadDeps(e)]
    /\ queue' = QueueAfter \o graph.validations[e]
    /\ frames' = Append(FramesAfter, [node |-> n, next |-> 1, returned |-> FALSE,
                                      dirty |-> graph.load[e] = "stale"])
    /\ UNCHANGED <<graph, targets, dirty, planned, pc, err>>

\* It returns false: the marks of the edges on the stack stay as they are.
EnterFails(n) ==
    LET e == InEdge[n] IN
    /\ Unmarked(n) /\ (StatFails(e) \/ graph.load[e] = "error")
    /\ mark_' = [mark_ EXCEPT ![e] = "stack"]
    /\ outputs_ready_' = [outputs_ready_ EXCEPT ![e] = TRUE]
    /\ frames' = <<>> /\ queue' = <<>>
    /\ Fail(IF StatFails(e) THEN "silent" ELSE "depfile")
    /\ UNCHANGED <<graph, inputs_, deps_missing_, dirty, planned>>

EnterPanics(n) ==
    /\ Unmarked(n) /\ ~StatFails(InEdge[n]) /\ DepfilePanics(InEdge[n])
    /\ pc' = "panic"
    /\ UNCHANGED <<graph, targets, scanned, planned, err>>

\* The rest of the loop's body, once the visit of an input has returned.
InputVisited ==
    LET e == TopEdge
        i == NextInput
    IN
    /\ pc = "scan" /\ frames # <<>> /\ Top.returned
    /\ outputs_ready_' = [outputs_ready_ EXCEPT
                             ![e] = @ /\ (i \in Leaf \/ outputs_ready_[InEdge[i]])]
    /\ frames' = [frames EXCEPT ![Len(frames)] =
                     [Top EXCEPT !.next = Top.next + 1, !.returned = FALSE,
                                 !.dirty = \/ Top.dirty
                                           \/ ~IsOrderOnly(e, Top.next) /\ i \in dirty]]
    /\ UNCHANGED <<graph, targets, inputs_, mark_, deps_missing_, dirty, queue, planned, pc,
                   err>>

\* A phony edge without inputs is always ready.
NothingToDo(e) == e \in Phony /\ inputs_[e] = <<>>

Marked(e) == ToSet(Outs[e])

\* RecomputeOutputsDirty: a generator is not dirty for its command, nor for not being
\* in the log.
RecomputeOutputDirty(e) ==
    \/ graph.log[e] = "inputs"
    \/ graph.log[e] \in {"none", "command"} /\ e \notin Generator

\* The part after the loop.
LeaveEdge ==
    LET e == TopEdge
        isDirty == Top.dirty \/ RecomputeOutputDirty(e)
    IN
    /\ pc = "scan" /\ frames # <<>> /\ ~Top.returned /\ Top.next > Len(inputs_[TopEdge])
    /\ dirty' = IF isDirty THEN dirty \cup Marked(e) ELSE dirty
    /\ outputs_ready_' = [outputs_ready_ EXCEPT ![e] = @ /\ (isDirty => NothingToDo(e))]
    /\ mark_' = [mark_ EXCEPT ![e] = "done"]
    /\ frames' = Front(frames)
    /\ UNCHANGED <<graph, targets, inputs_, deps_missing_, queue, planned, pc, err>>

-----------------------------------------------------------------------------
(* Plan.AddSubTarget *)

Planning(n) == pc = "plan" /\ walk # <<>> /\ n = Head(walk)

PlanMissing(n) ==
    /\ Planning(n) /\ n \in Leaf /\ n \in dirty
    /\ Fail("missing")
    /\ UNCHANGED <<graph, scanned, planned>>

PlanNothing(n) ==
    /\ Planning(n)
    /\ IF n \in Leaf THEN n \notin dirty ELSE outputs_ready_[InEdge[n]]
    /\ walk' = Tail(walk)
    /\ UNCHANGED <<graph, targets, scanned, want, pc, err>>

\* Mutant of Entry: an edge that has an entry keeps it.
EntryFirst(n) == IF want[InEdge[n]] # "absent" THEN want[InEdge[n]] ELSE "nothing"

Entry(n) == IF n \in dirty THEN "start"
            ELSE IF want[InEdge[n]] = "absent" THEN "nothing" ELSE want[InEdge[n]]

\* Its inputs are walked only when the edge's entry is new.
PlanEdge(n) ==
    LET e == InEdge[n] IN
    /\ Planning(n) /\ n \notin Leaf /\ ~outputs_ready_[e]
    /\ want' = [want EXCEPT ![e] = Entry(n)]
    /\ walk' = IF want[e] = "absent" THEN inputs_[e] \o Tail(walk) ELSE Tail(walk)
    /\ UNCHANGED <<graph, targets, scanned, pc, err>>

PlanDone ==
    /\ pc = "plan" /\ walk = <<>>
    /\ pc' = "target" /\ targets' = TargetsAfter
    /\ UNCHANGED <<graph, scanned, planned, err>>

Next ==
    \/ NextTarget \/ NoMoreTargets \/ ScanDone
    \/ \E n \in Node : \/ VisitLeaf(n) \/ VisitDone(n) \/ VisitInStack(n)
                       \/ EnterEdge(n) \/ EnterFails(n) \/ EnterPanics(n)
                       \/ PlanMissing(n) \/ PlanNothing(n) \/ PlanEdge(n)
    \/ VisitNil \/ InputVisited \/ LeaveEdge \/ PlanDone

Spec == Init /\ [][Next]_vars
FairSpec == Spec /\ WF_vars(Next)

-----------------------------------------------------------------------------
(* Properties *)

Done == {e \in Edge : mark_[e] = "done"}
Finished == pc = "done" /\ err = "none"

\* What the scan leaves, as the static graph that the build works on.
Positions(e, orderOnly) == {i \in DOMAIN inputs_[e] : IsOrderOnly(e, i) = orderOnly}
G == INSTANCE BuildGraph WITH
    Edge <- Done,
    Ins <- [e \in Done |-> SubSeq(inputs_[e], 1, Len(inputs_[e]) - graph.order_only[e])],
    OrderOnly <- [e \in Done |-> {inputs_[e][i] : i \in Positions(e, TRUE)}],
    Outs <- [e \in Done |-> Outs[e]],
    OutEdges <- <<>>, Pool <- {}, PoolOf <- <<>>, Depth <- <<>>,
    Phony <- Phony \cap Done, Generator <- {}, Restat <- {}, DepsTyped <- {},
    Targets <- ToSet(graph.targets)

DirtyEdges == {e \in Done : ToSet(Outs[e]) \cap dirty # {}}
ReadyEdges == {e \in Done : outputs_ready_[e]}
\* Dirty of themselves: not known to the log, deps missing, or an input is a missing file.
OwnDirty == {e \in Done :
    \/ RecomputeOutputDirty(e) \/ graph.load[e] = "stale"
    \/ \E i \in Positions(e, FALSE) : inputs_[e][i] \in Leaf \ graph.present}

\* Whatever the order of targets, validations and inputs, and whichever deps were
\* loaded on the way, the scan ends with the verdict that BuildGraph's equations give,
\* from which the build's models start.
VerdictIsSolution ==
    Finished => G!IsDirtyScan(OwnDirty, DirtyEdges) /\ G!IsReadyScan(DirtyEdges, ReadyEdges)

\* The plan has an entry for every edge that is not ready and that a target depends on,
\* and no other; it wants the dirty ones.  Targets whose plans overlap do not shorten
\* each other's.
PlanIsReachable ==
    Finished => /\ G!IsPlanned(ReadyEdges, {e \in Edge : want[e] # "absent"})
                /\ \A e \in Edge : want[e] # "absent" => (want[e] = "start") = (e \in DirtyEdges)

DependsOn(e) == {d \in Edge : ToSet(Outs[d]) \cap ToSet(inputs_[e]) # {}}
Cyclic(S) == \E C \in SUBSET S : C # {} /\ \A e \in C : DependsOn(e) \cap C # {}

OnStack == {e \in Edge : mark_[e] = "stack"}
Active == {InEdge[frames[i].node] : i \in DOMAIN frames}

\* A cycle is reported when the edges on the stack are on one, deps loaded included, unless
\* a scan that gave up has left marks; and a scan that ends without an error has met none:
\* it would never end, or call an edge ready that waits for itself.  What VerifyDAG takes
\* for the stack is a path: the marks are those of the activations, each of its own edge.
CycleIsReal ==
    /\ err = "cycle" /\ OnStack = Active => Cyclic(OnStack)
    /\ Finished => ~Cyclic(Done)
    /\ pc = "scan" =>
          /\ err = "none" => Active = OnStack
          /\ Cardinality(Active) = Len(frames)

\* Nothing is planned before it and the producers of its inputs have been scanned to the
\* end, although RunBuild goes on with the next target after a scan that gave up half
\* way and left its marks behind.
PlannedIsScanned ==
    \A e \in Edge : want[e] # "absent" => {e} \cup DependsOn(e) \subseteq Done

\* The scan and the plan end, on a graph with cycles too.
Ends == <>(pc \in {"done", "panic"})

\* "Appends any validation nodes found to the nodes parameter": a validation of a
\* scanned edge that is not ready is planned as a target.
ValidationsArePlanned ==
    Finished => \A e \in Done : \A v \in ToSet(graph.validations[e]) :
        v \in Leaf \/ outputs_ready_[InEdge[v]] \/ want[InEdge[v]] # "absent"

\* Order-only deps "don't cause the target to rebuild", the other two kinds do: a dep
\* that the log gives dirties the edge.
DepsDirtyTheirEdge ==
    \A e \in Done : graph.load[e] = "log" /\ ToSet(graph.found[e]) \cap dirty # {} =>
        e \in DirtyEdges

\* A node that only a deps record mentions does not abort the build when it is missing.
MissingDepIsNoError ==
    err = "missing" =>
        \E e \in Edge : Head(walk) \in ToSet(graph.ins[e]) \cup ToSet(graph.targets)

=============================================================================
