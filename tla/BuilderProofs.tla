--------------------------- MODULE BuilderProofs ---------------------------
(***************************************************************************)
(* What Build keeps, for every manifest, every -j and -k, and whatever the *)
(* children and the environment do: types, the order of dependencies, the  *)
(* bound on parallel commands and the budget of failures.  And what one    *)
(* step may do: every step is of one of ten kinds (NextKinds), which say   *)
(* what happens to the sets of pending calls and of running edges and      *)
(* leave the rest of the code's detail behind.  First come the plan's      *)
(* operations, one lemma each for the types and for the order.             *)
(*                                                                         *)
(* Then the life of an edge in a build: planned, queued, started, reaped,  *)
(* done or failed.  No edge is lost between these (NothingLost); where no  *)
(* rule is restat the counters and the outcome of the build are right      *)
(* (WantedCount, ReadyMeansBuilt, SuccessMeansBuilt); and where no rule    *)
(* has a pool of limited depth no edge passes through them twice, a failed *)
(* edge stays failed, and CleanNode leaves what is queued alone (RunsOnce, *)
(* FailureContained, UnwantedIsIdle).  Then what a build promises as a     *)
(* whole: it runs the schedule of BuildSchedule (ImplementsSchedule), and  *)
(* it does not end with "stuck [this is a bug]" (NeverStuck).  Last, the   *)
(* depth of the pools is kept in every manifest (PoolDepthKept).           *)
(***************************************************************************)
EXTENDS Builder, FiniteSetTheorems, SequenceTheorems, TLAPS

-----------------------------------------------------------------------------
(* The operators the plan is built from. *)

\* A loop over a sequence of nodes or edges makes well-formed calls, one per
\* element.
LEMMA CallEachNode ==
    ASSUME NEW op \in NodeCall, NEW s \in Seq(Node)
    PROVE  /\ CallEach(op, s) \in Seq(Call)
           /\ Len(CallEach(op, s)) = Len(s)
           /\ \A i \in 1..Len(s) : CallEach(op, s)[i].op = op
<1>1. \A i \in 1..Len(s) : [op |-> op, arg |-> s[i]] \in Call
  BY ElementOfSeq DEF Call
<1>. QED  BY <1>1 DEF CallEach

\* The same for a loop over a sequence of edges.
LEMMA CallEachEdge ==
    ASSUME NEW op \in EdgeCall, NEW s \in Seq(Edge)
    PROVE  /\ CallEach(op, s) \in Seq(Call)
           /\ Len(CallEach(op, s)) = Len(s)
           /\ \A i \in 1..Len(s) : CallEach(op, s)[i].op = op
<1>1. \A i \in 1..Len(s) : [op |-> op, arg |-> s[i]] \in Call
  BY ElementOfSeq DEF Call
<1>. QED  BY <1>1 DEF CallEach

\* RetrieveReadyEdges moves no more edges than are delayed, and only delayed ones.
LEMMA RetrievedRange ==
    ASSUME NEW p \in Pool, NEW d \in Seq(Edge), NEW u \in Int
    PROVE  Retrieved(p, d, u) \in 0..Len(d)
<1>1. Depth[p] \in Nat
  BY GraphAssumption
<1>2. Len(d) \in Nat
  OBVIOUS
<1>. QED  BY <1>1, <1>2 DEF Retrieved

\* An edge that RetrieveReadyEdges moves is a delayed one.
LEMMA CopiesOfDelayed ==
    ASSUME NEW d \in Seq(Edge), NEW k \in 0..Len(d), NEW e \in Edge
    PROVE  /\ Copies(d, k, e) \in Nat
           /\ Copies(d, k, e) > 0 => e \in ToSet(d)
<1>. DEFINE S == {i \in 1..k : d[i] = e}
<1>0. k \in Int /\ S \in SUBSET (1..k)
  OBVIOUS
<1>1. IsFiniteSet(S)
  <2>1. IsFiniteSet(1..k)
    BY <1>0, FS_Interval
  <2>. QED  BY <1>0, <2>1, FS_Subset
<1>2. Cardinality(S) \in Nat /\ (Cardinality(S) > 0 => S # {})
  BY <1>1, FS_CardinalityType, FS_EmptySet
<1>3. S # {} => e \in ToSet(d)
  BY DEF ToSet
<1>. QED  BY <1>2, <1>3 DEF Copies

\* DelayEdge adds the edge to delayed_ and nothing else.
LEMMA DelayEdgeRange ==
    ASSUME NEW d \in Seq(Edge), NEW e \in Edge
    PROVE  /\ DelayEdge(d, e) \in Seq(Edge)
           /\ ToSet(DelayEdge(d, e)) = ToSet(d) \cup {e}
<1>1. CASE e \in ToSet(d)
  BY <1>1 DEF DelayEdge
<1>2. CASE e \notin ToSet(d)
  <2>1. DelayEdge(d, e) = Append(d, e)
    BY <1>2 DEF DelayEdge
  <2>2. \A x : x \in ToSet(Append(d, e)) <=> x \in ToSet(d) \/ x = e
    BY AppendProperties DEF ToSet
  <2>. QED  BY <2>1, <2>2
<1>. QED  BY <1>1, <1>2

\* The graph's functions give sequences of nodes and edges, and pools.
LEMMA OutsType ==
    /\ \A e \in Edge : Outs[e] \in Seq(Node) /\ Ins[e] \in Seq(Node) /\ PoolOf[e] \in Pool
    /\ \A n \in Node : OutEdges[n] \in Seq(Edge)
BY GraphAssumption

-----------------------------------------------------------------------------
(* Types. *)

\* What ReleasePlace does to the pools and the ready queue is well typed.
LEMMA ReleasePlaceType ==
    ASSUME PlanTypeOK, NEW e \in Edge, NEW q \in [Edge -> Nat], ReleasePlace(e, q)
    PROVE  PoolsTypeOK' /\ ready' \in [Edge -> Nat]
<1>. DEFINE p == PoolOf[e]
            u == IF want[e] # kWantNothing THEN Relinquished(p) ELSE use[p]
            k == Retrieved(p, delayed[p], u)
<1>1. p \in Pool /\ delayed[p] \in Seq(Edge) /\ use[p] \in Int
  BY OutsType DEF PlanTypeOK, PoolsTypeOK
<1>2. u \in Int
  BY <1>1 DEF Relinquished
<1>3. k \in 0..Len(delayed[p])
  BY <1>1, <1>2, RetrievedRange
<1>4. \A x \in Edge : Copies(delayed[p], k, x) \in Nat
  BY <1>1, <1>3, CopiesOfDelayed
<1>5. /\ use' = [use EXCEPT ![p] = u + k]
      /\ delayed' = [delayed EXCEPT ![p] = delayed[p]]
      /\ ready' = [x \in Edge |-> q[x] + Copies(delayed[p], k, x)]
  BY DEF ReleasePlace, RetrieveReadyEdges
<1>6. u + k \in Int
  BY <1>2, <1>3
<1>7. PoolsTypeOK'
  BY <1>1, <1>5, <1>6 DEF PlanTypeOK, PoolsTypeOK
<1>8. ready' \in [Edge -> Nat]
  BY <1>4, <1>5
<1>. QED  BY <1>7, <1>8

\* EdgeFinished of an edge that has succeeded keeps the types.
LEMMA EdgeFinishedSucceededType ==
    ASSUME PlanTypeOK, NEW e \in Edge, NEW q \in [Edge -> Nat], NEW rest \in Seq(Call),
           EdgeFinishedSucceeded(e, q, rest)
    PROVE  PlanTypeOK'
<1>1. PoolsTypeOK' /\ ready' \in [Edge -> Nat]
  BY ReleasePlaceType DEF EdgeFinishedSucceeded
<1>2. calls' \in Seq(Call)
  BY CallEachNode, OutsType, ConcatProperties DEF EdgeFinishedSucceeded, NodeCall
<1>3. wanted_edges' \in Int
  BY DEF EdgeFinishedSucceeded, StillWanted, PlanTypeOK
<1>4. /\ want' \in [Edge -> {Absent, kWantNothing, kWantToStart, kWantToFinish}]
      /\ outputs_ready' \in SUBSET Edge
  BY DEF EdgeFinishedSucceeded, PlanTypeOK
<1>. QED  BY <1>1, <1>2, <1>3, <1>4 DEF EdgeFinishedSucceeded, PlanTypeOK

\* EdgeFinished of an edge that has failed keeps the types.
LEMMA EdgeFinishedFailedType ==
    ASSUME PlanTypeOK, NEW e \in Edge, EdgeFinishedFailed(e)
    PROVE  PlanTypeOK'
<1>1. PoolsTypeOK' /\ ready' \in [Edge -> Nat]
  BY ReleasePlaceType DEF EdgeFinishedFailed, PlanTypeOK
<1>. QED  BY <1>1 DEF EdgeFinishedFailed, PlanTypeOK

\* ScheduleWork keeps the types, whether the pool delays the edge or not.
LEMMA ScheduleWorkType ==
    ASSUME PlanTypeOK, NEW e \in Edge, NEW rest \in Seq(Call), ScheduleWork(e, rest)
    PROVE  PlanTypeOK'
<1>. DEFINE p == PoolOf[e]
            d == DelayEdge(delayed[p], e)
            k == Retrieved(p, d, use[p])
<1>1. p \in Pool /\ delayed[p] \in Seq(Edge) /\ use[p] \in Int
  BY OutsType DEF PlanTypeOK, PoolsTypeOK
<1>2. d \in Seq(Edge)
  BY <1>1, DelayEdgeRange
<1>3. k \in 0..Len(d)
  BY <1>1, <1>2, RetrievedRange
<1>4. \A x \in Edge : Copies(d, k, x) \in Nat
  BY <1>2, <1>3, CopiesOfDelayed
<1>5. want' \in [Edge -> {Absent, kWantNothing, kWantToStart, kWantToFinish}]
  BY DEF ScheduleWork, PlanTypeOK
<1>6. PoolsTypeOK' /\ ready' \in [Edge -> Nat]
  <2>1. CASE UNCHANGED <<ready, use, delayed>>
    BY <2>1 DEF PlanTypeOK, PoolsTypeOK
  <2>2. CASE /\ RetrieveReadyEdges(p, d, use[p])
             /\ ready' = [x \in Edge |-> ready[x] + Copies(d, k, x)]
    <3>1. use[p] + k \in Int
      BY <1>1, <1>3
    <3>2. PoolsTypeOK'
      BY <2>2, <3>1, <1>1, <1>2 DEF RetrieveReadyEdges, PlanTypeOK, PoolsTypeOK
    <3>. QED  BY <2>2, <3>2, <1>4 DEF PlanTypeOK
  <2>3. CASE ready' = [ready EXCEPT ![e] = @ + 1] /\ UNCHANGED <<use, delayed>>
    BY <2>3 DEF PlanTypeOK, PoolsTypeOK
  <2>. QED  BY <2>1, <2>2, <2>3 DEF ScheduleWork
<1>. QED  BY <1>5, <1>6 DEF ScheduleWork, PlanTypeOK

\* EdgeMaybeReady keeps the types on each of its three paths.
LEMMA EdgeMaybeReadyType ==
    ASSUME PlanTypeOK, NEW e \in Edge, NEW rest \in Seq(Call), EdgeMaybeReady(e, rest)
    PROVE  PlanTypeOK'
<1>1. CASE want[e] = Absent \/ ~AllInputsReady(e)
  BY <1>1 DEF EdgeMaybeReady, PlanTypeOK, PoolsTypeOK
<1>2. CASE ~(want[e] = Absent \/ ~AllInputsReady(e)) /\ want[e] # kWantNothing
  BY <1>2, ScheduleWorkType DEF EdgeMaybeReady
<1>3. CASE ~(want[e] = Absent \/ ~AllInputsReady(e)) /\ want[e] = kWantNothing
  <2>1. ready \in [Edge -> Nat]
    BY DEF PlanTypeOK
  <2>. QED  BY <1>3, <2>1, EdgeFinishedSucceededType DEF EdgeMaybeReady
<1>. QED  BY <1>1, <1>2, <1>3

\* NodeFinished pushes well-typed calls.
LEMMA NodeFinishedType ==
    ASSUME PlanTypeOK, NEW n \in Node, NEW rest \in Seq(Call), NodeFinished(n, rest)
    PROVE  PlanTypeOK'
<1>1. calls' \in Seq(Call)
  BY CallEachEdge, OutsType, ConcatProperties DEF NodeFinished, EdgeCall
<1>. QED  BY <1>1 DEF NodeFinished, PlanTypeOK, PoolsTypeOK

\* CleanNode pushes well-typed calls.
LEMMA CleanNodeType ==
    ASSUME PlanTypeOK, NEW n \in Node, NEW rest \in Seq(Call), CleanNode(n, rest)
    PROVE  PlanTypeOK'
<1>1. calls' \in Seq(Call)
  BY CallEachEdge, OutsType, ConcatProperties DEF CleanNode, EdgeCall
<1>. QED  BY <1>1 DEF CleanNode, PlanTypeOK, PoolsTypeOK

\* CleanNode's loops over an out edge's inputs make well-typed calls.
LEMMA CleanOutEdgeType ==
    ASSUME PlanTypeOK, NEW e \in Edge, NEW rest \in Seq(Call), CleanOutEdge(e, rest)
    PROVE  PlanTypeOK'
<1>. DEFINE each == [i \in 1..Len(Ins[e]) |-> e]
<1>1. each \in Seq(Edge)
  BY OutsType, LenProperties
<1>2. CallEach("RecomputeOutputsDirty", each) \o rest \in Seq(Call)
  BY <1>1, CallEachEdge, ConcatProperties DEF EdgeCall
<1>3. calls' \in Seq(Call)
  BY <1>2 DEF CleanOutEdge
<1>. QED  BY <1>3 DEF CleanOutEdge, PlanTypeOK, PoolsTypeOK

\* An iteration that finds the outputs clean makes well-typed calls.
LEMMA RecomputeOutputsDirtyType ==
    ASSUME PlanTypeOK, NEW e \in Edge, NEW rest \in Seq(Call),
           RecomputeOutputsDirty(e, rest)
    PROVE  PlanTypeOK'
<1>. DEFINE clean == CallEach("CleanNode", Outs[e])
            unwant == <<[op |-> "Unwant", arg |-> e]>>
<1>1. clean \in Seq(Call)
  BY CallEachNode, OutsType DEF NodeCall
<1>2. unwant \in Seq(Call)
  <2>1. [op |-> "Unwant", arg |-> e] \in Call
    BY DEF Call, EdgeCall
  <2>. QED  BY <2>1
<1>3. clean \o unwant \o rest \in Seq(Call)
  BY <1>1, <1>2, ConcatProperties
<1>4. calls' \in Seq(Call)
  BY <1>3 DEF RecomputeOutputsDirty
<1>. QED  BY <1>4 DEF RecomputeOutputsDirty, PlanTypeOK, PoolsTypeOK

\* Taking an edge out of the plan keeps the types of the counters.
LEMMA UnwantType ==
    ASSUME PlanTypeOK, NEW e \in Edge, NEW rest \in Seq(Call), Unwant(e, rest)
    PROVE  PlanTypeOK'
<1>1. /\ want' \in [Edge -> {Absent, kWantNothing, kWantToStart, kWantToFinish}]
      /\ wanted_edges' \in Int /\ command_edges' \in Int
  BY DEF Unwant, PlanTypeOK
<1>. QED  BY <1>1 DEF Unwant, PlanTypeOK, PoolsTypeOK

\* ScheduleInitialEdges fills queue and pools with edges, in any order.
LEMMA ScheduleInitialEdgesType ==
    ASSUME PlanTypeOK, ScheduleInitialEdges
    PROVE  PlanTypeOK'
<1>1. PICK d \in [Pool -> UNION {SetToSeqs(S) : S \in SUBSET InitiallyDelayed}] :
        /\ delayed' = d
        /\ use' = [p \in Pool |-> use[p] + Retrieved(p, d[p], use[p])]
        /\ ready' = [e \in Edge |->
              LET p == PoolOf[e] IN
              IF ShouldDelayEdge(p) THEN Copies(d[p], Retrieved(p, d[p], use[p]), e)
              ELSE IF e \in Initial THEN 1 ELSE 0]
  BY DEF ScheduleInitialEdges
<1>2. \A p \in Pool : d[p] \in Seq(Edge)
  <2>1. SUFFICES ASSUME NEW p \in Pool PROVE d[p] \in Seq(Edge)
    OBVIOUS
  <2>2. PICK S \in SUBSET InitiallyDelayed : d[p] \in SetToSeqs(S)
    BY <1>1
  <2>3. S \subseteq Edge /\ IsFiniteSet(S)
    BY FS_Subset, GraphAssumption DEF InitiallyDelayed, Initial
  <2>4. Cardinality(S) \in Nat
    BY <2>3, FS_CardinalityType
  <2>5. d[p] \in [1..Cardinality(S) -> S]
    BY <2>2 DEF SetToSeqs
  <2>. QED  BY <2>3, <2>4, <2>5
<1>3. \A p \in Pool : Retrieved(p, d[p], use[p]) \in 0..Len(d[p])
  BY <1>2, RetrievedRange DEF PlanTypeOK, PoolsTypeOK
<1>4. PoolsTypeOK'
  <2>1. \A p \in Pool : use[p] + Retrieved(p, d[p], use[p]) \in Int
    BY <1>3 DEF PlanTypeOK, PoolsTypeOK
  <2>2. d \in [Pool -> Seq(Edge)]
    BY <1>1, <1>2
  <2>. QED  BY <1>1, <2>1, <2>2 DEF PoolsTypeOK
<1>5. ready' \in [Edge -> Nat]
  <2>1. \A e \in Edge : LET p == PoolOf[e] IN
            Copies(d[p], Retrieved(p, d[p], use[p]), e) \in Nat
    BY <1>2, <1>3, CopiesOfDelayed, OutsType
  <2>. QED  BY <1>1, <2>1
<1>6. want' \in [Edge -> {Absent, kWantNothing, kWantToStart, kWantToFinish}]
  BY DEF ScheduleInitialEdges, PlanTypeOK
<1>. QED  BY <1>4, <1>5, <1>6 DEF ScheduleInitialEdges, PlanTypeOK

\* The plan that the dependency scan leaves is well typed.
LEMMA PlanInitType == PlanInit => PlanTypeOK
<1>1. \A S \in SUBSET Edge : Cardinality(S) \in Nat
  BY FS_Subset, FS_CardinalityType, GraphAssumption
<1>2. \A D \in SUBSET Edge : UNION {ToSet(Outs[e]) : e \in D} \subseteq Node
  <2>1. \A e \in Edge : ToSet(Outs[e]) \subseteq Node
    BY OutsType DEF ToSet
  <2>. QED  BY <2>1
<1>3. SUFFICES ASSUME PlanInit PROVE PlanTypeOK
  OBVIOUS
<1>. QED  BY <1>1, <1>2, <1>3 DEF PlanInit, PlanTypeOK, PoolsInit, PoolsTypeOK

-----------------------------------------------------------------------------
(***************************************************************************)
(* The order of dependencies.  Whatever a queue of the plan holds has its  *)
(* inputs ready, and the ready edges are closed under dependencies.  The   *)
(* set of ready edges is a parameter so that a lemma can speak of the      *)
(* state after a step.                                                     *)
(***************************************************************************)
OrderedCalls(s, R) ==
    \A i \in 1..Len(s) : s[i].op = "EdgeFinished" => DependsOn[s[i].arg] \subseteq R

OrderedReady(q, R) == \A e \in Edge : q[e] > 0 => DependsOn[e] \subseteq R

OrderedDelayed(d, R) == \A e \in ToSet(d) : DependsOn[e] \subseteq R

Closed(R) == \A e \in R : DependsOn[e] \subseteq R

PlanOrder ==
    /\ OrderedReady(ready, outputs_ready)
    /\ \A p \in Pool : OrderedDelayed(delayed[p], outputs_ready)
    /\ OrderedCalls(calls, outputs_ready)
    /\ Closed(outputs_ready)

\* More ready edges disorder nothing.
LEMMA OrderedGrows ==
    ASSUME NEW R, NEW Q, R \subseteq Q
    PROVE  /\ \A s : OrderedCalls(s, R) => OrderedCalls(s, Q)
           /\ \A q : OrderedReady(q, R) => OrderedReady(q, Q)
           /\ \A d : OrderedDelayed(d, R) => OrderedDelayed(d, Q)
BY DEF OrderedCalls, OrderedReady, OrderedDelayed

\* The calls left after the next one are in order if all were.
LEMMA TailOrdered ==
    ASSUME NEW s \in Seq(Call), s # <<>>, NEW R, OrderedCalls(s, R)
    PROVE  Tail(s) \in Seq(Call) /\ OrderedCalls(Tail(s), R)
<1>1. Tail(s) \in Seq(Call) /\ Len(Tail(s)) = Len(s) - 1 /\ Len(s) \in Nat
  BY HeadTailProperties, LenProperties
<1>2. \A i \in 1..Len(Tail(s)) : Tail(s)[i] = s[i + 1] /\ i + 1 \in 1..Len(s)
  BY <1>1, HeadTailProperties
<1>. QED  BY <1>1, <1>2 DEF OrderedCalls

\* Calls in order before calls in order are in order.
LEMMA ConcatOrdered ==
    ASSUME NEW s \in Seq(Call), NEW rest \in Seq(Call), NEW R,
           OrderedCalls(s, R), OrderedCalls(rest, R)
    PROVE  OrderedCalls(s \o rest, R)
<1>1. Len(s) \in Nat /\ Len(rest) \in Nat /\ Len(s \o rest) = Len(s) + Len(rest)
  BY ConcatProperties, LenProperties
<1>2. ASSUME NEW i \in 1..Len(s \o rest), (s \o rest)[i].op = "EdgeFinished"
      PROVE  DependsOn[(s \o rest)[i].arg] \subseteq R
  <2>1. CASE i <= Len(s)
    <3>1. (s \o rest)[i] = s[i] /\ i \in 1..Len(s)
      BY <1>1, <2>1, ConcatProperties
    <3>. QED  BY <1>2, <3>1 DEF OrderedCalls
  <2>2. CASE i > Len(s)
    <3>1. (s \o rest)[i] = rest[i - Len(s)] /\ i - Len(s) \in 1..Len(rest)
      BY <1>1, <2>2, ConcatProperties
    <3>. QED  BY <1>2, <3>1 DEF OrderedCalls
  <2>. QED  BY <1>1, <2>1, <2>2
<1>. QED  BY <1>2 DEF OrderedCalls

\* The loops of NodeFinished and CleanNode finish no edge themselves.
LEMMA CallEachOrdered ==
    ASSUME NEW R
    PROVE  /\ \A op \in NodeCall, s \in Seq(Node) : OrderedCalls(CallEach(op, s), R)
           /\ \A op \in EdgeCall \ {"EdgeFinished"}, s \in Seq(Edge) :
                 OrderedCalls(CallEach(op, s), R)
<1>1. "EdgeFinished" \notin NodeCall
  BY DEF NodeCall
<1>2. ASSUME NEW op \in NodeCall, NEW s \in Seq(Node) PROVE OrderedCalls(CallEach(op, s), R)
  BY <1>1, CallEachNode DEF OrderedCalls
<1>3. ASSUME NEW op \in EdgeCall \ {"EdgeFinished"}, NEW s \in Seq(Edge)
      PROVE  OrderedCalls(CallEach(op, s), R)
  BY CallEachEdge DEF OrderedCalls
<1>. QED  BY <1>2, <1>3

\* The edges RetrieveReadyEdges queues are delayed ones, so that the ready queue
\* stays in order.
LEMMA RetrievedOrdered ==
    ASSUME NEW d \in Seq(Edge), NEW k \in 0..Len(d), NEW q \in [Edge -> Nat], NEW R,
           OrderedReady(q, R), OrderedDelayed(d, R)
    PROVE  OrderedReady([x \in Edge |-> q[x] + Copies(d, k, x)], R)
<1>1. SUFFICES ASSUME NEW e \in Edge, q[e] + Copies(d, k, e) > 0
               PROVE  DependsOn[e] \subseteq R
  BY DEF OrderedReady
<1>2. Copies(d, k, e) \in Nat /\ (Copies(d, k, e) > 0 => e \in ToSet(d))
  BY CopiesOfDelayed
<1>3. q[e] > 0 \/ Copies(d, k, e) > 0
  BY <1>1, <1>2
<1>. QED  BY <1>2, <1>3 DEF OrderedReady, OrderedDelayed

\* Giving a place back keeps queue and pools in order.
LEMMA ReleasePlaceOrder ==
    ASSUME PlanTypeOK, PlanOrder, NEW e \in Edge, NEW q \in [Edge -> Nat],
           OrderedReady(q, outputs_ready), ReleasePlace(e, q)
    PROVE  /\ OrderedReady(ready', outputs_ready)
           /\ \A p \in Pool : OrderedDelayed(delayed'[p], outputs_ready)
<1>. DEFINE p == PoolOf[e]
            u == IF want[e] # kWantNothing THEN Relinquished(p) ELSE use[p]
            k == Retrieved(p, delayed[p], u)
<1>1. p \in Pool /\ delayed[p] \in Seq(Edge) /\ use[p] \in Int
  BY OutsType DEF PlanTypeOK, PoolsTypeOK
<1>2. k \in 0..Len(delayed[p])
  <2>1. u \in Int
    BY <1>1 DEF Relinquished
  <2>. QED  BY <1>1, <2>1, RetrievedRange
<1>3. /\ delayed' = [delayed EXCEPT ![p] = delayed[p]]
      /\ ready' = [x \in Edge |-> q[x] + Copies(delayed[p], k, x)]
  BY DEF ReleasePlace, RetrieveReadyEdges
<1>4. OrderedReady(ready', outputs_ready)
  BY <1>1, <1>2, <1>3, RetrievedOrdered DEF PlanOrder
<1>5. delayed' = delayed
  BY <1>1, <1>3 DEF PlanTypeOK, PoolsTypeOK
<1>. QED  BY <1>4, <1>5 DEF PlanOrder

\* An edge whose inputs are ready may finish: its outputs become ready after
\* those it needs.
LEMMA EdgeFinishedSucceededOrder ==
    ASSUME PlanTypeOK, PlanOrder, NEW e \in Edge, NEW q \in [Edge -> Nat],
           NEW rest \in Seq(Call),
           OrderedReady(q, outputs_ready), OrderedCalls(rest, outputs_ready),
           DependsOn[e] \subseteq outputs_ready,
           EdgeFinishedSucceeded(e, q, rest)
    PROVE  PlanOrder' /\ outputs_ready \subseteq outputs_ready'
<1>1. outputs_ready' = outputs_ready \cup {e}
  BY DEF EdgeFinishedSucceeded
<1>2. /\ OrderedReady(ready', outputs_ready')
      /\ \A p \in Pool : OrderedDelayed(delayed'[p], outputs_ready')
  <2>1. /\ OrderedReady(ready', outputs_ready)
        /\ \A p \in Pool : OrderedDelayed(delayed'[p], outputs_ready)
    BY ReleasePlaceOrder DEF EdgeFinishedSucceeded
  <2>. QED  BY <1>1, <2>1, OrderedGrows
<1>3. OrderedCalls(calls', outputs_ready')
  <2>1. "NodeFinished" \in NodeCall /\ Outs[e] \in Seq(Node)
    BY OutsType DEF NodeCall
  <2>2. /\ CallEach("NodeFinished", Outs[e]) \in Seq(Call)
        /\ OrderedCalls(CallEach("NodeFinished", Outs[e]), outputs_ready')
    BY <2>1, CallEachNode, CallEachOrdered
  <2>3. OrderedCalls(rest, outputs_ready')
    BY <1>1, OrderedGrows
  <2>. QED  BY <2>2, <2>3, ConcatOrdered DEF EdgeFinishedSucceeded
<1>4. Closed(outputs_ready')
  BY <1>1 DEF PlanOrder, Closed
<1>. QED  BY <1>1, <1>2, <1>3, <1>4 DEF PlanOrder

\* ... and may fail, which makes nothing ready.
LEMMA EdgeFinishedFailedOrder ==
    ASSUME PlanTypeOK, PlanOrder, NEW e \in Edge, EdgeFinishedFailed(e)
    PROVE  PlanOrder'
<1>1. ready \in [Edge -> Nat] /\ OrderedReady(ready, outputs_ready)
  BY DEF PlanTypeOK, PlanOrder
<1>2. /\ OrderedReady(ready', outputs_ready)
      /\ \A p \in Pool : OrderedDelayed(delayed'[p], outputs_ready)
  BY <1>1, ReleasePlaceOrder DEF EdgeFinishedFailed
<1>3. outputs_ready' = outputs_ready /\ calls' = calls
  BY DEF EdgeFinishedFailed
<1>. QED  BY <1>2, <1>3 DEF PlanOrder

\* ScheduleWork queues or delays an edge whose inputs are ready.
LEMMA ScheduleWorkOrder ==
    ASSUME PlanTypeOK, PlanOrder, NEW e \in Edge, NEW rest \in Seq(Call),
           OrderedCalls(rest, outputs_ready), DependsOn[e] \subseteq outputs_ready,
           ScheduleWork(e, rest)
    PROVE  PlanOrder'
<1>. DEFINE p == PoolOf[e]
            d == DelayEdge(delayed[p], e)
            k == Retrieved(p, d, use[p])
<1>1. p \in Pool /\ delayed[p] \in Seq(Edge) /\ use[p] \in Int /\ ready \in [Edge -> Nat]
  BY OutsType DEF PlanTypeOK, PoolsTypeOK
<1>2. outputs_ready' = outputs_ready /\ calls' = rest
  BY DEF ScheduleWork
<1>3. /\ OrderedReady(ready', outputs_ready)
      /\ \A pool \in Pool : OrderedDelayed(delayed'[pool], outputs_ready)
  <2>1. CASE UNCHANGED <<ready, use, delayed>>
    BY <2>1 DEF PlanOrder
  <2>2. CASE /\ RetrieveReadyEdges(p, d, use[p])
             /\ ready' = [x \in Edge |-> ready[x] + Copies(d, k, x)]
    <3>1. d \in Seq(Edge) /\ OrderedDelayed(d, outputs_ready)
      <4>1. d \in Seq(Edge) /\ ToSet(d) = ToSet(delayed[p]) \cup {e}
        BY <1>1, DelayEdgeRange
      <4>2. OrderedDelayed(delayed[p], outputs_ready)
        BY <1>1 DEF PlanOrder
      <4>. QED  BY <4>1, <4>2 DEF OrderedDelayed
    <3>2. k \in 0..Len(d)
      BY <1>1, <3>1, RetrievedRange
    <3>3. OrderedReady(ready', outputs_ready)
      BY <1>1, <2>2, <3>1, <3>2, RetrievedOrdered DEF PlanOrder
    <3>4. delayed' = [delayed EXCEPT ![p] = d]
      BY <2>2 DEF RetrieveReadyEdges
    <3>5. \A pool \in Pool : delayed'[pool] = IF pool = p THEN d ELSE delayed[pool]
      BY <1>1, <3>4 DEF PlanTypeOK, PoolsTypeOK
    <3>. QED  BY <3>1, <3>3, <3>5 DEF PlanOrder
  <2>3. CASE ready' = [ready EXCEPT ![e] = @ + 1] /\ UNCHANGED <<use, delayed>>
    <3>1. \A x \in Edge : ready'[x] > 0 => x = e \/ ready[x] > 0
      BY <1>1, <2>3
    <3>. QED  BY <2>3, <3>1 DEF PlanOrder, OrderedReady
  <2>. QED  BY <2>1, <2>2, <2>3 DEF ScheduleWork
<1>. QED  BY <1>2, <1>3 DEF PlanOrder

\* EdgeMaybeReady schedules or finishes an edge only when all its inputs are ready.
LEMMA EdgeMaybeReadyOrder ==
    ASSUME PlanTypeOK, PlanOrder, NEW e \in Edge, NEW rest \in Seq(Call),
           OrderedCalls(rest, outputs_ready), EdgeMaybeReady(e, rest)
    PROVE  PlanOrder' /\ outputs_ready \subseteq outputs_ready'
<1>1. CASE want[e] = Absent \/ ~AllInputsReady(e)
  BY <1>1 DEF EdgeMaybeReady, PlanOrder
<1>2. CASE ~(want[e] = Absent \/ ~AllInputsReady(e)) /\ want[e] # kWantNothing
  <2>1. ScheduleWork(e, rest) /\ DependsOn[e] \subseteq outputs_ready
    BY <1>2 DEF EdgeMaybeReady, AllInputsReady
  <2>. QED  BY <2>1, ScheduleWorkOrder DEF ScheduleWork
<1>3. CASE ~(want[e] = Absent \/ ~AllInputsReady(e)) /\ want[e] = kWantNothing
  <2>1. EdgeFinishedSucceeded(e, ready, rest) /\ DependsOn[e] \subseteq outputs_ready
    BY <1>3 DEF EdgeMaybeReady, AllInputsReady
  <2>2. ready \in [Edge -> Nat] /\ OrderedReady(ready, outputs_ready)
    BY DEF PlanTypeOK, PlanOrder
  <2>. QED  BY <2>1, <2>2, EdgeFinishedSucceededOrder
<1>. QED  BY <1>1, <1>2, <1>3

\* The calls that only look at the graph, or clean it, queue nothing and make
\* nothing ready.
LEMMA CleaningOrder ==
    ASSUME PlanTypeOK, PlanOrder, NEW rest \in Seq(Call),
           OrderedCalls(rest, outputs_ready),
           \/ \E n \in Node : NodeFinished(n, rest) \/ CleanNode(n, rest)
           \/ \E e \in Edge : \/ CleanOutEdge(e, rest) \/ RecomputeOutputsDirty(e, rest)
                              \/ Unwant(e, rest)
    PROVE  PlanOrder' /\ UNCHANGED outputs_ready
<1>1. UNCHANGED <<ready, delayed, outputs_ready>>
  BY DEF NodeFinished, CleanNode, CleanOutEdge, RecomputeOutputsDirty, Unwant
<1>2. ASSUME NEW n \in Node, NodeFinished(n, rest) \/ CleanNode(n, rest)
      PROVE  OrderedCalls(calls', outputs_ready)
  <2>1. PICK op \in {"EdgeMaybeReady", "CleanOutEdge"} :
            calls' = CallEach(op, OutEdges[n]) \o rest
    BY <1>2 DEF NodeFinished, CleanNode
  <2>2. op \in EdgeCall \ {"EdgeFinished"} /\ OutEdges[n] \in Seq(Edge)
    BY OutsType DEF EdgeCall
  <2>. QED  BY <2>1, <2>2, CallEachEdge, CallEachOrdered, ConcatOrdered
<1>3. ASSUME NEW e \in Edge, CleanOutEdge(e, rest) PROVE OrderedCalls(calls', outputs_ready)
  <2>. DEFINE each == [i \in 1..Len(Ins[e]) |-> e]
  <2>1. each \in Seq(Edge) /\ "RecomputeOutputsDirty" \in EdgeCall \ {"EdgeFinished"}
    BY OutsType, LenProperties DEF EdgeCall
  <2>2. OrderedCalls(CallEach("RecomputeOutputsDirty", each) \o rest, outputs_ready)
    BY <2>1, CallEachEdge, CallEachOrdered, ConcatOrdered
  <2>. QED  BY <1>3, <2>2 DEF CleanOutEdge
<1>4. ASSUME NEW e \in Edge, RecomputeOutputsDirty(e, rest)
      PROVE  OrderedCalls(calls', outputs_ready)
  <2>. DEFINE clean == CallEach("CleanNode", Outs[e])
              unwant == CallEach("Unwant", <<e>>)
  <2>1. clean \in Seq(Call) /\ OrderedCalls(clean, outputs_ready)
    BY OutsType, CallEachNode, CallEachOrdered DEF NodeCall
  <2>2. unwant \in Seq(Call) /\ OrderedCalls(unwant, outputs_ready)
    <3>1. <<e>> \in Seq(Edge) /\ "Unwant" \in EdgeCall \ {"EdgeFinished"}
      BY DEF EdgeCall
    <3>. QED  BY <3>1, CallEachEdge, CallEachOrdered
  <2>3. unwant = <<[op |-> "Unwant", arg |-> e]>>
    BY DEF CallEach
  <2>4. clean \o unwant \in Seq(Call) /\ OrderedCalls(clean \o unwant, outputs_ready)
    BY <2>1, <2>2, ConcatOrdered, ConcatProperties
  <2>5. OrderedCalls(clean \o unwant \o rest, outputs_ready)
    BY <2>4, ConcatOrdered
  <2>. QED  BY <1>4, <2>3, <2>5 DEF RecomputeOutputsDirty
<1>5. ASSUME NEW e \in Edge, Unwant(e, rest) PROVE OrderedCalls(calls', outputs_ready)
  BY <1>5 DEF Unwant
<1>6. OrderedCalls(calls', outputs_ready)
  BY <1>2, <1>3, <1>4, <1>5
<1>. QED  BY <1>1, <1>6 DEF PlanOrder

\* ScheduleInitialEdges queues and delays only edges whose inputs are ready.
LEMMA ScheduleInitialEdgesOrder ==
    ASSUME PlanTypeOK, PlanOrder, ScheduleInitialEdges
    PROVE  PlanOrder'
<1>1. PICK d \in [Pool -> UNION {SetToSeqs(S) : S \in SUBSET InitiallyDelayed}] :
        /\ \A p \in Pool : ToSet(d[p]) = {e \in InitiallyDelayed : PoolOf[e] = p}
        /\ delayed' = d
        /\ ready' = [e \in Edge |->
              LET p == PoolOf[e] IN
              IF ShouldDelayEdge(p) THEN Copies(d[p], Retrieved(p, d[p], use[p]), e)
              ELSE IF e \in Initial THEN 1 ELSE 0]
  BY DEF ScheduleInitialEdges
<1>2. \A e \in Initial : DependsOn[e] \subseteq outputs_ready
  BY DEF Initial, AllInputsReady
<1>3. \A p \in Pool : OrderedDelayed(d[p], outputs_ready)
  BY <1>1, <1>2 DEF OrderedDelayed, InitiallyDelayed
<1>4. \A p \in Pool : d[p] \in Seq(Edge)
  BY ScheduleInitialEdgesType, <1>1 DEF PlanTypeOK, PoolsTypeOK
<1>5. ASSUME NEW e \in Edge, ready'[e] > 0 PROVE DependsOn[e] \subseteq outputs_ready
  <2>. DEFINE p == PoolOf[e]
              k == Retrieved(p, d[p], use[p])
  <2>1. p \in Pool /\ d[p] \in Seq(Edge) /\ use[p] \in Int
    BY <1>4, OutsType DEF PlanTypeOK, PoolsTypeOK
  <2>2. k \in 0..Len(d[p])
    BY <2>1, RetrievedRange
  <2>3. CASE ShouldDelayEdge(p)
    <3>1. ready'[e] = Copies(d[p], k, e)
      BY <1>1, <2>3
    <3>2. e \in ToSet(d[p])
      BY <1>5, <2>1, <2>2, <3>1, CopiesOfDelayed
    <3>. QED  BY <1>3, <2>1, <3>2 DEF OrderedDelayed
  <2>4. CASE ~ShouldDelayEdge(p)
    <3>1. ready'[e] = IF e \in Initial THEN 1 ELSE 0
      BY <1>1, <2>4
    <3>. QED  BY <1>2, <1>5, <3>1
  <2>. QED  BY <2>3, <2>4
<1>6. UNCHANGED <<outputs_ready, calls>>
  BY DEF ScheduleInitialEdges
<1>. QED  BY <1>1, <1>3, <1>5, <1>6 DEF PlanOrder, OrderedReady

\* The scan calls an edge's outputs ready only if its inputs are, and the plan
\* starts with empty queues.
LEMMA PlanInitOrder ==
    ASSUME PlanInit
    PROVE  PlanOrder
<1>1. Closed(outputs_ready)
  BY DEF PlanInit, IsReadyScan, Closed
<1>2. OrderedReady(ready, outputs_ready) /\ OrderedCalls(calls, outputs_ready)
  BY DEF PlanInit, OrderedReady, OrderedCalls
<1>3. \A p \in Pool : OrderedDelayed(delayed[p], outputs_ready)
  BY DEF PlanInit, PoolsInit, OrderedDelayed, ToSet
<1>. QED  BY <1>1, <1>2, <1>3 DEF PlanOrder

-----------------------------------------------------------------------------
(* Types. *)

\* The runner's part of a step of the builder is well typed.
LEMMA RunnerStepType ==
    ASSUME RunnerTypeOK
    PROVE  /\ ReapHead => RunnerTypeOK'
           /\ Abort => RunnerTypeOK'
           /\ StartCommandFails => RunnerTypeOK'
           /\ \A e \in Edge : StartCommand(e) => RunnerTypeOK'
           /\ \A i \in DOMAIN running, x \in {ExitOk, ExitBad} :
                 ChildExits(i, x) => RunnerTypeOK'
<1>. DEFINE Child == [edge : Edge, exit : {Live, ExitOk, ExitBad}]
<1>0. running \in Seq(Child) /\ unstarted \in Nat
  BY DEF RunnerTypeOK
<1>1. ReapHead => RunnerTypeOK'
  <2>1. running # <<>> => Tail(running) \in Seq(Child)
    BY <1>0, HeadTailProperties
  <2>. QED  BY <1>0, <2>1 DEF ReapHead, RunnerTypeOK
<1>2. Abort => RunnerTypeOK'
  BY <1>0 DEF Abort, RunnerTypeOK
<1>3. StartCommandFails => RunnerTypeOK'
  BY <1>0 DEF StartCommandFails, RunnerTypeOK
<1>4. ASSUME NEW e \in Edge, StartCommand(e) PROVE RunnerTypeOK'
  <2>1. [edge |-> e, exit |-> Live] \in Child
    OBVIOUS
  <2>2. Append(running, [edge |-> e, exit |-> Live]) \in Seq(Child)
    BY <1>0, <2>1, AppendProperties
  <2>. QED  BY <1>0, <2>2, <1>4 DEF StartCommand, RunnerTypeOK
<1>5. ASSUME NEW i \in DOMAIN running, NEW x \in {ExitOk, ExitBad}, ChildExits(i, x)
      PROVE  RunnerTypeOK'
  <2>1. running[i] \in Child
    <3>1. i \in 1..Len(running)
      BY <1>0
    <3>. QED  BY <1>0, <3>1, ElementOfSeq
  <2>2. [running[i] EXCEPT !.exit = x] \in Child
    BY <2>1
  <2>3. running' = [running EXCEPT ![i] = [running[i] EXCEPT !.exit = x]]
    BY <1>5 DEF ChildExits
  <2>4. running' \in Seq(Child)
    BY <1>0, <2>2, <2>3, ExceptSeq
  <2>. QED  BY <1>0, <2>4, <1>5 DEF ChildExits, RunnerTypeOK
<1>. QED  BY <1>1, <1>2, <1>3, <1>4, <1>5

\* CanRunMore's answer is a natural number.
LEMMA CapacityType ==
    ASSUME NEW r \in Nat, NEW u \in Nat, NEW c \in CanRunMore(r, u)
    PROVE  c \in Nat
<1>1. PICK h \in Headroom \cup {0} : c = Capacity(r, u, h)
  BY DEF CanRunMore
<1>2. HalfCapacity(r, u, h) \in Nat
  <2>1. h \in Int /\ 2 * Places(r, u) \in Int
    BY RunnerAssumption DEF Places
  <2>. QED  BY <2>1 DEF HalfCapacity
<1>. QED  BY <1>1, <1>2 DEF Capacity

\* The state Build is called in is well typed.
LEMMA InitType == Init => TypeOK
<1>1. {e \in Edge : Wanted(e)} \subseteq Edge /\ [e \in Edge |-> 0] \in [Edge -> Nat]
  OBVIOUS
<1>2. RunnerInit => RunnerTypeOK
  BY DEF RunnerInit, RunnerTypeOK
<1>. QED  BY <1>1, <1>2, PlanInitType, BuilderAssumption DEF Init, TypeOK

\* One step of the plan's recursion is well typed.
LEMMA PlanCallType ==
    ASSUME TypeOK, PlanCall
    PROVE  TypeOK'
<1>1. PlanTypeOK /\ ready \in [Edge -> Nat] /\ calls \in Seq(Call)
  BY DEF TypeOK, PlanTypeOK
<1>2. ASSUME NEW op, NEW x, NextCall(op, x) PROVE Tail(calls) \in Seq(Call)
  BY <1>1, <1>2, HeadTailProperties DEF NextCall
<1>3. PlanTypeOK'
  <2>1. ASSUME NEW n \in Node, NextCall("NodeFinished", n), NodeFinished(n, Tail(calls))
        PROVE  PlanTypeOK'
    BY <1>1, <1>2, <2>1, NodeFinishedType
  <2>2. ASSUME NEW e \in Edge, NextCall("EdgeMaybeReady", e), EdgeMaybeReady(e, Tail(calls))
        PROVE  PlanTypeOK'
    BY <1>1, <1>2, <2>2, EdgeMaybeReadyType
  <2>3. ASSUME NEW n \in Node, NextCall("CleanNode", n), CleanNode(n, Tail(calls))
        PROVE  PlanTypeOK'
    BY <1>1, <1>2, <2>3, CleanNodeType
  <2>4. ASSUME NEW e \in Edge, NextCall("CleanOutEdge", e), CleanOutEdge(e, Tail(calls))
        PROVE  PlanTypeOK'
    BY <1>1, <1>2, <2>4, CleanOutEdgeType
  <2>5. ASSUME NEW e \in Edge, NextCall("RecomputeOutputsDirty", e),
               RecomputeOutputsDirty(e, Tail(calls))
        PROVE  PlanTypeOK'
    BY <1>1, <1>2, <2>5, RecomputeOutputsDirtyType
  <2>6. ASSUME NEW e \in Edge, NextCall("Unwant", e), Unwant(e, Tail(calls))
        PROVE  PlanTypeOK'
    BY <1>1, <1>2, <2>6, UnwantType
  <2>7. ASSUME NEW e \in Edge, NextCall("EdgeFinished", e),
               EdgeFinishedSucceeded(e, ready, Tail(calls))
        PROVE  PlanTypeOK'
    BY <1>1, <1>2, <2>7, EdgeFinishedSucceededType
  <2>. QED  BY <2>1, <2>2, <2>3, <2>4, <2>5, <2>6, <2>7 DEF PlanCall
<1>. QED  BY <1>3 DEF TypeOK, PlanCall, RunnerTypeOK, runnerVars, loopVars, history

\* A step that leaves the plan, the runner or the rest of the builder alone keeps
\* its types.
LEMMA UnchangedTypes ==
    /\ PlanTypeOK /\ UNCHANGED planVars => PlanTypeOK'
    /\ RunnerTypeOK /\ UNCHANGED runnerVars => RunnerTypeOK'
BY DEF PlanTypeOK, PoolsTypeOK, RunnerTypeOK, planVars, runnerVars

\* FinishCommand after a success pushes well-typed calls.
LEMMA FinishCommandSucceedsType ==
    ASSUME TypeOK, NEW e \in Edge, FinishCommandSucceeds(e)
    PROVE  TypeOK'
<1>1. CallEach("RestatOutput", Outs[e]) \in Seq(Call)
  BY CallEachNode, OutsType DEF NodeCall
<1>2. <<[op |-> "EdgeFinished", arg |-> e], [op |-> "RecordCommand", arg |-> e]>> \in Seq(Call)
  <2>1. /\ [op |-> "EdgeFinished", arg |-> e] \in Call
        /\ [op |-> "RecordCommand", arg |-> e] \in Call
    BY DEF Call, EdgeCall
  <2>. QED  BY <2>1
<1>3. calls' \in Seq(Call)
  BY <1>1, <1>2, ConcatProperties DEF FinishCommandSucceeds
<1>4. PlanTypeOK'
  BY <1>3 DEF TypeOK, PlanTypeOK, PoolsTypeOK, FinishCommandSucceeds
<1>5. RunnerTypeOK'
  BY RunnerStepType DEF TypeOK, FinishCommandSucceeds, Reaped
<1>6. pending_commands' \in Int /\ pc' = "loop" /\ built' \subseteq Edge
  BY DEF TypeOK, FinishCommandSucceeds, Reaped
<1>. QED  BY <1>4, <1>5, <1>6 DEF TypeOK, FinishCommandSucceeds

\* ... and after a failure counts it.
LEMMA FinishCommandFailsType ==
    ASSUME TypeOK, NEW e \in Edge, FinishCommandFails(e)
    PROVE  TypeOK'
<1>1. PlanTypeOK'
  BY EdgeFinishedFailedType DEF TypeOK, FinishCommandFails
<1>2. RunnerTypeOK'
  BY RunnerStepType DEF TypeOK, FinishCommandFails, Reaped
<1>3. pending_commands' \in Int /\ pc' = "loop" /\ failed' \subseteq Edge
  BY DEF TypeOK, FinishCommandFails, Reaped
<1>4. failures_allowed' \in Nat
  BY DEF TypeOK, FinishCommandFails, AfterFailure
<1>. QED  BY <1>1, <1>2, <1>3, <1>4 DEF TypeOK, FinishCommandFails

\* The start loop takes a copy only of an edge that has one.
LEMMA PolledType ==
    ASSUME ready \in [Edge -> Nat], NEW e \in Edge, CanStart(e)
    PROVE  Polled(e) \in [Edge -> Nat]
<1>1. ready[e] - 1 \in Nat
  BY DEF CanStart, FindWork
<1>. QED  BY <1>1 DEF Polled

\* StartEdge keeps the types: one command more, one queued copy less.
LEMMA StartEdgeType ==
    ASSUME TypeOK, NEW e \in Edge, StartEdge(e)
    PROVE  TypeOK'
<1>1. RunnerTypeOK'
  BY RunnerStepType DEF TypeOK, StartEdge
<1>2. Polled(e) \in [Edge -> Nat]
  BY PolledType DEF StartEdge, TypeOK, PlanTypeOK
<1>3. PlanTypeOK'
  BY <1>2 DEF TypeOK, PlanTypeOK, PoolsTypeOK, StartEdge
<1>4. capacity' \in Int
  <2>1. Len(running') \in Nat /\ unstarted' \in Nat
    BY <1>1, LenProperties DEF RunnerTypeOK
  <2>2. \A c \in CanRunMore(Len(running'), unstarted') : c \in Nat
    BY <2>1, CapacityType
  <2>. QED  BY <2>2 DEF StartEdge, TypeOK
<1>5. /\ pending_commands' \in Int /\ started' \in [Edge -> Nat]
      /\ pc' \in {"start", "fatal"}
  BY DEF TypeOK, StartEdge
<1>. QED  BY <1>1, <1>3, <1>4, <1>5 DEF TypeOK, StartEdge, Outcome

\* Every step of the builder keeps the types.
LEMMA NextType ==
    ASSUME TypeOK, [Next]_vars
    PROVE  TypeOK'
<1>0. PlanTypeOK /\ RunnerTypeOK /\ ready \in [Edge -> Nat]
  BY DEF TypeOK, PlanTypeOK
<1>1. CASE PrepareQueue
  BY <1>0, <1>1, ScheduleInitialEdgesType, UnchangedTypes DEF PrepareQueue, TypeOK, history
<1>2. CASE LoopTop
  <2>1. \A c \in CanRunMore(Len(running), unstarted) : c \in Nat
    BY <1>0, CapacityType, LenProperties DEF RunnerTypeOK
  <2>2. capacity' \in Int
    BY <1>2, <2>1 DEF LoopTop, TypeOK
  <2>3. pc' \in {"start", "reap"} \cup Outcome
    BY <1>2 DEF LoopTop, Outcome
  <2>. QED  BY <1>0, <1>2, <2>2, <2>3, UnchangedTypes DEF LoopTop, TypeOK, history
<1>3. ASSUME NEW outcome \in Outcome, Die(outcome) PROVE TypeOK'
  BY <1>0, <1>3, UnchangedTypes DEF Die, TypeOK, history
<1>4. CASE StartDone
  BY <1>0, <1>4, UnchangedTypes DEF StartDone, TypeOK, history, Outcome
<1>5. ASSUME NEW e \in Edge, StartPhony(e) PROVE TypeOK'
  <2>1. Polled(e) \in [Edge -> Nat] /\ <<>> \in Seq(Call)
    BY <1>0, <1>5, PolledType DEF StartPhony
  <2>2. PlanTypeOK'
    BY <1>0, <1>5, <2>1, EdgeFinishedSucceededType DEF StartPhony
  <2>. QED  BY <1>0, <1>5, <2>2, UnchangedTypes DEF StartPhony, TypeOK, loopVars, history
<1>6. ASSUME NEW outcome \in Outcome, CleanupAndStop(outcome), PlanTypeOK' PROVE TypeOK'
  <2>1. RunnerTypeOK'
    BY <1>0, <1>6, RunnerStepType DEF CleanupAndStop
  <2>. QED  BY <1>6, <2>1 DEF CleanupAndStop, TypeOK, history
<1>7. ASSUME NEW e \in Edge, StartEdgeFails(e) PROVE TypeOK'
  <2>1. Polled(e) \in [Edge -> Nat]
    BY <1>0, <1>7, PolledType DEF StartEdgeFails
  <2>2. PlanTypeOK'
    BY <1>0, <1>7, <2>1 DEF StartEdgeFails, PlanTypeOK, PoolsTypeOK
  <2>. QED  BY <1>6, <1>7, <2>2 DEF StartEdgeFails, Outcome
<1>8. ASSUME NEW op, NEW x, NextCall(op, x) PROVE Tail(calls) \in Seq(Call)
  BY <1>8, HeadTailProperties DEF NextCall, TypeOK, PlanTypeOK
<1>9. ASSUME NEW e \in Edge, RecordCommand(e) PROVE TypeOK'
  <2>1. PlanTypeOK'
    BY <1>0, <1>8, <1>9 DEF RecordCommand, PlanTypeOK, PoolsTypeOK
  <2>. QED  BY <1>0, <1>9, <2>1, UnchangedTypes DEF RecordCommand, TypeOK, loopVars, history
<1>10. ASSUME NEW n \in Node, RestatOutput(n) PROVE TypeOK'
  <2>1. <<[op |-> "CleanNode", arg |-> n]>> \in Seq(Call)
    BY DEF Call, NodeCall
  <2>2. Tail(calls) \in Seq(Call)
    BY <1>8, <1>10 DEF RestatOutput
  <2>3. calls' \in Seq(Call)
    BY <1>10, <2>1, <2>2, ConcatProperties DEF RestatOutput
  <2>4. PlanTypeOK'
    BY <1>0, <1>10, <2>3 DEF RestatOutput, PlanTypeOK, PoolsTypeOK
  <2>. QED  BY <1>0, <1>10, <2>4, UnchangedTypes DEF RestatOutput, TypeOK, loopVars, history
<1>11. CASE NoProgress
  BY <1>0, <1>11, UnchangedTypes DEF NoProgress, TypeOK, history, Outcome
<1>12. CASE FinishCommandAborts
  <2>1. PlanTypeOK'
    BY <1>0, <1>12, UnchangedTypes DEF FinishCommandAborts
  <2>. QED  BY <1>6, <1>12, <2>1 DEF FinishCommandAborts, Outcome
<1>13. CASE ChildExit
  <2>1. RunnerTypeOK'
    BY <1>0, <1>13, RunnerStepType DEF ChildExit
  <2>. QED  BY <1>0, <1>13, <2>1, UnchangedTypes DEF ChildExit, TypeOK, loopVars, history
<1>14. CASE UNCHANGED vars
  BY <1>0, <1>14, UnchangedTypes DEF vars, TypeOK, loopVars, history
<1>. QED
  BY <1>1, <1>2, <1>3, <1>4, <1>5, <1>7, <1>9, <1>10, <1>11, <1>12, <1>13, <1>14,
     PlanCallType, FinishCommandSucceedsType, FinishCommandFailsType, StartEdgeType
  DEF Next, BuildStep, Ended, LoadUnknown, FinishUnplanned, WaitFails, Outcome

\* Every variable of the builder keeps its type: in particular no counter of the
\* ready queue and no failure budget ever goes below zero.
THEOREM TypeCorrect == Spec => []TypeOK
<1>1. Init => TypeOK
  BY InitType
<1>2. TypeOK /\ [Next]_vars => TypeOK'
  BY NextType
<1>. QED  BY <1>1, <1>2, PTL DEF Spec

-----------------------------------------------------------------------------
(* Dependencies before dependents. *)

\* What is in running_ has its inputs ready.
RunningOrder ==
    \A i \in 1..Len(running) : DependsOn[running[i].edge] \subseteq outputs_ready

\* DependencyOrder says this of the queues and of running_.
LEMMA DependencyOrderParts ==
    ASSUME TypeOK
    PROVE  DependencyOrder <=> PlanOrder /\ RunningOrder
<1>1. calls \in Seq(Call) /\ running \in Seq([edge : Edge, exit : {Live, ExitOk, ExitBad}])
  BY DEF TypeOK, PlanTypeOK, RunnerTypeOK
<1>2. (\A e \in Edge : Finishing(e) => DependsOn[e] \subseteq outputs_ready)
        <=> OrderedCalls(calls, outputs_ready)
  <2>1. ASSUME \A e \in Edge : Finishing(e) => DependsOn[e] \subseteq outputs_ready,
               NEW i \in 1..Len(calls), calls[i].op = "EdgeFinished"
        PROVE  DependsOn[calls[i].arg] \subseteq outputs_ready
    <3>1. calls[i] \in Call
      BY <1>1, ElementOfSeq
    <3>2. calls[i].arg \in Edge /\ calls[i] = [op |-> "EdgeFinished", arg |-> calls[i].arg]
      BY <2>1, <3>1 DEF Call, NodeCall, EdgeCall
    <3>. QED  BY <1>1, <2>1, <3>2 DEF Finishing
  <2>2. ASSUME OrderedCalls(calls, outputs_ready), NEW e \in Edge, Finishing(e)
        PROVE  DependsOn[e] \subseteq outputs_ready
    BY <1>1, <2>2 DEF Finishing, OrderedCalls
  <2>. QED  BY <2>1, <2>2 DEF OrderedCalls
<1>3. (\A e \in Edge : Executing(e) => DependsOn[e] \subseteq outputs_ready) <=> RunningOrder
  <2>1. \A i \in 1..Len(running) : running[i] \in [edge : Edge, exit : {Live, ExitOk, ExitBad}]
    BY <1>1, ElementOfSeq
  <2>2. \A i \in 1..Len(running) : running[i].edge \in Edge
    BY <2>1
  <2>3. DOMAIN running = 1..Len(running)
    BY <1>1
  <2>. QED  BY <2>2, <2>3, Zenon DEF Executing, RunningOrder
<1>4. \A p \in Pool : ToSet(delayed[p]) \subseteq Edge
  <2>1. \A p \in Pool : delayed[p] \in Seq(Edge)
    BY DEF TypeOK, PlanTypeOK, PoolsTypeOK
  <2>. QED  BY <2>1 DEF ToSet
<1>. QED
  BY <1>2, <1>3, <1>4
  DEF DependencyOrder, Scheduled, PlanOrder, OrderedReady, OrderedDelayed, Closed

\* A step of the plan's recursion keeps the order; more edges may become ready.
LEMMA PlanCallOrder ==
    ASSUME TypeOK, PlanOrder, PlanCall
    PROVE  PlanOrder' /\ outputs_ready \subseteq outputs_ready'
<1>1. /\ PlanTypeOK /\ ready \in [Edge -> Nat] /\ calls \in Seq(Call)
      /\ OrderedReady(ready, outputs_ready)
  BY DEF TypeOK, PlanTypeOK, PlanOrder
<1>2. ASSUME NEW op, NEW x, NextCall(op, x)
      PROVE  Tail(calls) \in Seq(Call) /\ OrderedCalls(Tail(calls), outputs_ready)
  BY <1>1, <1>2, TailOrdered DEF NextCall, PlanOrder
<1>3. ASSUME NEW n \in Node,
             \/ NextCall("NodeFinished", n) /\ NodeFinished(n, Tail(calls))
             \/ NextCall("CleanNode", n) /\ CleanNode(n, Tail(calls))
      PROVE  PlanOrder' /\ UNCHANGED outputs_ready
  BY <1>1, <1>2, <1>3, CleaningOrder
<1>4. ASSUME NEW e \in Edge,
             \/ NextCall("CleanOutEdge", e) /\ CleanOutEdge(e, Tail(calls))
             \/ NextCall("RecomputeOutputsDirty", e) /\ RecomputeOutputsDirty(e, Tail(calls))
             \/ NextCall("Unwant", e) /\ Unwant(e, Tail(calls))
      PROVE  PlanOrder' /\ UNCHANGED outputs_ready
  BY <1>1, <1>2, <1>4, CleaningOrder
<1>5. ASSUME NEW e \in Edge, NextCall("EdgeMaybeReady", e), EdgeMaybeReady(e, Tail(calls))
      PROVE  PlanOrder' /\ outputs_ready \subseteq outputs_ready'
  BY <1>1, <1>2, <1>5, EdgeMaybeReadyOrder
<1>6. ASSUME NEW e \in Edge, NextCall("EdgeFinished", e),
             EdgeFinishedSucceeded(e, ready, Tail(calls))
      PROVE  PlanOrder' /\ outputs_ready \subseteq outputs_ready'
  <2>1. DependsOn[e] \subseteq outputs_ready
    <3>1. Len(calls) \in Nat /\ Len(calls) > 0 /\ calls[1] = [op |-> "EdgeFinished", arg |-> e]
      BY <1>1, <1>6, EmptySeq, LenProperties, HeadTailProperties DEF NextCall
    <3>. QED  BY <3>1 DEF PlanOrder, OrderedCalls
  <2>. QED  BY <1>1, <1>2, <1>6, <2>1, EdgeFinishedSucceededOrder
<1>. QED  BY <1>3, <1>4, <1>5, <1>6 DEF PlanCall

\* The command that the builder waits for was started with its inputs ready.
LEMMA HeadOrdered ==
    ASSUME RunnerTypeOK, RunningOrder, running # <<>>
    PROVE  DependsOn[Head(running).edge] \subseteq outputs_ready
<1>1. Len(running) \in Nat /\ Len(running) > 0 /\ Head(running) = running[1]
  BY EmptySeq, LenProperties, HeadTailProperties DEF RunnerTypeOK
<1>. QED  BY <1>1 DEF RunningOrder

\* The runner only adds the edge it is told to start.
LEMMA RunnerOrder ==
    ASSUME RunnerTypeOK, RunningOrder, outputs_ready \subseteq outputs_ready'
    PROVE  /\ UNCHANGED runnerVars \/ ReapHead \/ Abort \/ StartCommandFails => RunningOrder'
           /\ \A i \in DOMAIN running, x \in {ExitOk, ExitBad} :
                 ChildExits(i, x) => RunningOrder'
           /\ \A e \in Edge : DependsOn[e] \subseteq outputs_ready /\ StartCommand(e)
                 => RunningOrder'
<1>0. running \in Seq([edge : Edge, exit : {Live, ExitOk, ExitBad}]) /\ Len(running) \in Nat
  BY LenProperties DEF RunnerTypeOK
<1>1. running' = running => RunningOrder'
  BY DEF RunningOrder
<1>2. ASSUME ReapHead PROVE RunningOrder'
  <2>1. running # <<>> /\ running' = Tail(running)
    BY <1>2 DEF ReapHead
  <2>2. Len(running') = Len(running) - 1 /\ \A i \in 1..Len(running') : running'[i] = running[i + 1]
    BY <1>0, <2>1, HeadTailProperties
  <2>3. ASSUME NEW i \in 1..Len(running')
        PROVE  DependsOn[running'[i].edge] \subseteq outputs_ready
    <3>1. i + 1 \in 1..Len(running) /\ running'[i] = running[i + 1]
      BY <1>0, <2>2
    <3>. QED  BY <3>1 DEF RunningOrder
  <2>. QED  BY <2>3 DEF RunningOrder
<1>3. Abort => RunningOrder'
  BY DEF Abort, RunningOrder
<1>4. ASSUME NEW i \in DOMAIN running, NEW x \in {ExitOk, ExitBad}, ChildExits(i, x)
      PROVE  RunningOrder'
  <2>1. running' = [running EXCEPT ![i] = [running[i] EXCEPT !.exit = x]]
    BY <1>4 DEF ChildExits
  <2>2. Len(running') = Len(running)
    BY <1>0, <2>1
  <2>3. \A j \in 1..Len(running) : running[j] \in [edge : Edge, exit : {Live, ExitOk, ExitBad}]
    BY <1>0, ElementOfSeq
  <2>4. \A j \in 1..Len(running) : running'[j].edge = running[j].edge
    BY <1>0, <2>1, <2>3
  <2>. QED  BY <2>2, <2>4 DEF RunningOrder
<1>5. ASSUME NEW e \in Edge, DependsOn[e] \subseteq outputs_ready, StartCommand(e)
      PROVE  RunningOrder'
  <2>1. running' = Append(running, [edge |-> e, exit |-> Live])
    BY <1>5 DEF StartCommand
  <2>2. /\ Len(running') = Len(running) + 1
        /\ \A i \in 1..Len(running) : running'[i] = running[i]
        /\ running'[Len(running) + 1].edge = e
    BY <1>0, <2>1, AppendProperties
  <2>3. ASSUME NEW i \in 1..Len(running')
        PROVE  DependsOn[running'[i].edge] \subseteq outputs_ready
    <3>1. i \in 1..Len(running) \/ i = Len(running) + 1
      BY <1>0, <2>2
    <3>. QED  BY <1>5, <2>2, <3>1 DEF RunningOrder
  <2>. QED  BY <2>3 DEF RunningOrder
<1>. QED  BY <1>1, <1>2, <1>3, <1>4, <1>5 DEF runnerVars, StartCommandFails

\* Every step of the builder keeps the order of dependencies.
LEMMA NextOrder ==
    ASSUME TypeOK, PlanOrder, RunningOrder, [Next]_vars
    PROVE  PlanOrder' /\ RunningOrder'
<1>0. /\ PlanTypeOK /\ RunnerTypeOK /\ ready \in [Edge -> Nat] /\ calls \in Seq(Call)
      /\ OrderedReady(ready, outputs_ready)
  BY DEF TypeOK, PlanTypeOK, PlanOrder
<1>. DEFINE planStill == UNCHANGED <<ready, delayed, outputs_ready, calls>>
<1>1. planStill => PlanOrder'
  BY DEF PlanOrder
<1>2. CASE PrepareQueue
  <2>1. PlanOrder'
    BY <1>0, <1>2, ScheduleInitialEdgesOrder DEF PrepareQueue
  <2>. QED  BY <1>0, <1>2, <2>1, RunnerOrder DEF PrepareQueue, ScheduleInitialEdges
<1>3. CASE LoopTop \/ StartDone \/ NoProgress \/ \E o \in Outcome : Die(o)
  <2>1. UNCHANGED planVars /\ UNCHANGED runnerVars
    BY <1>3 DEF LoopTop, StartDone, NoProgress, Die
  <2>. QED  BY <1>0, <1>1, <2>1, RunnerOrder DEF planVars
<1>4. ASSUME NEW e \in Edge, CanStart(e)
      PROVE  /\ DependsOn[e] \subseteq outputs_ready
             /\ Polled(e) \in [Edge -> Nat] /\ OrderedReady(Polled(e), outputs_ready)
  <2>1. DependsOn[e] \subseteq outputs_ready
    BY <1>0, <1>4 DEF CanStart, FindWork, OrderedReady
  <2>2. Polled(e) \in [Edge -> Nat]
    BY <1>0, <1>4, PolledType
  <2>3. \A x \in Edge : Polled(e)[x] > 0 => ready[x] > 0
    BY <1>0, <1>4 DEF Polled, CanStart, FindWork
  <2>. QED  BY <1>0, <2>1, <2>2, <2>3 DEF OrderedReady
<1>5. ASSUME NEW e \in Edge, StartPhony(e) PROVE PlanOrder' /\ RunningOrder'
  <2>1. CanStart(e) /\ EdgeFinishedSucceeded(e, Polled(e), <<>>) /\ UNCHANGED runnerVars
    BY <1>5 DEF StartPhony
  <2>2. <<>> \in Seq(Call) /\ OrderedCalls(<<>>, outputs_ready)
    BY DEF OrderedCalls
  <2>3. PlanOrder' /\ outputs_ready \subseteq outputs_ready'
    BY <1>0, <1>4, <2>1, <2>2, EdgeFinishedSucceededOrder
  <2>. QED  BY <1>0, <2>1, <2>3, RunnerOrder
<1>6. ASSUME NEW e \in Edge, StartEdge(e) \/ StartEdgeFails(e)
      PROVE  PlanOrder' /\ RunningOrder'
  <2>1. /\ CanStart(e) /\ ready' = Polled(e) /\ UNCHANGED <<delayed, outputs_ready, calls>>
        /\ StartCommand(e) \/ StartCommandFails \/ Abort
    BY <1>6 DEF StartEdge, StartEdgeFails, CleanupAndStop
  <2>2. PlanOrder'
    BY <1>4, <2>1 DEF PlanOrder
  <2>. QED  BY <1>0, <1>4, <2>1, <2>2, RunnerOrder
<1>7. ASSUME NEW e \in Edge, FinishCommandSucceeds(e) PROVE PlanOrder' /\ RunningOrder'
  <2>1. ReapHead /\ UNCHANGED <<ready, delayed, outputs_ready>>
    BY <1>7 DEF FinishCommandSucceeds, Reaped
  <2>2. DependsOn[e] \subseteq outputs_ready
    BY <1>0, <1>7, HeadOrdered DEF FinishCommandSucceeds, Reaped, ReapHead
  <2>. DEFINE restat == CallEach("RestatOutput", Outs[e])
              finish == <<[op |-> "EdgeFinished", arg |-> e], [op |-> "RecordCommand", arg |-> e]>>
  <2>3. restat \in Seq(Call) /\ OrderedCalls(restat, outputs_ready)
    BY OutsType, CallEachNode, CallEachOrdered DEF NodeCall
  <2>4. finish \in Seq(Call) /\ OrderedCalls(finish, outputs_ready)
    <3>1. /\ [op |-> "EdgeFinished", arg |-> e] \in Call
          /\ [op |-> "RecordCommand", arg |-> e] \in Call
      BY DEF Call, EdgeCall
    <3>. QED  BY <2>2, <3>1 DEF OrderedCalls
  <2>5. OrderedCalls(calls', outputs_ready)
    BY <1>7, <2>3, <2>4, ConcatOrdered DEF FinishCommandSucceeds
  <2>. QED  BY <1>0, <2>1, <2>5, RunnerOrder DEF PlanOrder
<1>8. ASSUME NEW e \in Edge, FinishCommandFails(e) PROVE PlanOrder' /\ RunningOrder'
  <2>1. ReapHead /\ EdgeFinishedFailed(e)
    BY <1>8 DEF FinishCommandFails, Reaped
  <2>2. PlanOrder' /\ UNCHANGED outputs_ready
    BY <1>0, <2>1, EdgeFinishedFailedOrder DEF EdgeFinishedFailed
  <2>. QED  BY <1>0, <2>1, <2>2, RunnerOrder
<1>9. ASSUME NEW e \in Edge, RecordCommand(e) PROVE PlanOrder' /\ RunningOrder'
  <2>1. /\ calls' = Tail(calls) /\ calls # <<>>
        /\ UNCHANGED <<ready, delayed, outputs_ready>> /\ UNCHANGED runnerVars
    BY <1>9 DEF RecordCommand, NextCall
  <2>2. OrderedCalls(calls', outputs_ready)
    BY <1>0, <2>1, TailOrdered DEF PlanOrder
  <2>. QED  BY <1>0, <2>1, <2>2, RunnerOrder DEF PlanOrder
<1>10. ASSUME NEW n \in Node, RestatOutput(n) PROVE PlanOrder' /\ RunningOrder'
  <2>1. /\ calls # <<>>
        /\ UNCHANGED <<ready, delayed, outputs_ready>> /\ UNCHANGED runnerVars
        /\ \/ calls' = Tail(calls)
           \/ calls' = <<[op |-> "CleanNode", arg |-> n]>> \o Tail(calls)
    BY <1>10 DEF RestatOutput, NextCall
  <2>2. Tail(calls) \in Seq(Call) /\ OrderedCalls(Tail(calls), outputs_ready)
    BY <1>0, <2>1, TailOrdered DEF PlanOrder
  <2>. DEFINE clean == <<[op |-> "CleanNode", arg |-> n]>>
  <2>3. clean \in Seq(Call) /\ OrderedCalls(clean, outputs_ready)
    BY DEF Call, NodeCall, OrderedCalls
  <2>4. OrderedCalls(calls', outputs_ready)
    BY <2>1, <2>2, <2>3, ConcatOrdered
  <2>. QED  BY <1>0, <2>1, <2>4, RunnerOrder DEF PlanOrder
<1>11. CASE PlanCall
  <2>1. PlanOrder' /\ outputs_ready \subseteq outputs_ready' /\ UNCHANGED runnerVars
    BY <1>11, PlanCallOrder DEF PlanCall
  <2>. QED  BY <1>0, <2>1, RunnerOrder
<1>12. CASE FinishCommandAborts
  BY <1>0, <1>1, <1>12, RunnerOrder DEF FinishCommandAborts, CleanupAndStop, planVars
<1>13. CASE ChildExit
  BY <1>0, <1>1, <1>13, RunnerOrder DEF ChildExit, planVars
<1>14. CASE UNCHANGED vars
  BY <1>0, <1>1, <1>14, RunnerOrder DEF vars, planVars
<1>. QED
  BY <1>2, <1>3, <1>5, <1>6, <1>7, <1>8, <1>9, <1>10, <1>11, <1>12, <1>13, <1>14
  DEF Next, BuildStep, Ended, LoadUnknown, FinishUnplanned, WaitFails, Outcome

\* No command is queued, run or finished before everything it needs is there, for
\* every manifest without cycles or duplicate producers.
THEOREM DependencyOrderHolds == Spec => []DependencyOrder
<1>1. Init => TypeOK /\ PlanOrder /\ RunningOrder
  <2>1. RunnerInit => RunningOrder
    BY DEF RunnerInit, RunningOrder
  <2>. QED  BY <2>1, InitType, PlanInitOrder DEF Init
<1>2. (TypeOK /\ PlanOrder /\ RunningOrder) /\ [Next]_vars
        => (TypeOK /\ PlanOrder /\ RunningOrder)'
  BY NextType, NextOrder
<1>3. TypeOK /\ PlanOrder /\ RunningOrder => DependencyOrder
  BY DependencyOrderParts
<1>. QED  BY <1>1, <1>2, <1>3, PTL DEF Spec

-----------------------------------------------------------------------------
(***************************************************************************)
(* How many commands run, and how many fail.  ParallelismKept is not       *)
(* inductive: a start must know that the capacity it uses up fits under    *)
(* -j, and a new round of starts that nothing is left in finished_, or     *)
(* CanRunMore's "at least one" would exceed it.                            *)
(***************************************************************************)
InUse == Len(running) + unstarted

RunnerInv ==
    /\ ParallelismKept
    /\ pc \in {"prepare", "loop"} => unstarted = 0
    /\ pc = "start" /\ capacity > 0 => InUse + capacity <= Parallelism

BudgetInv ==
    /\ failures_allowed <= FailuresAllowed
    /\ pc = "start" => failures_allowed > 0
    /\ failures_allowed > 0 => Cardinality(failed) <= FailuresAllowed - failures_allowed
    /\ failures_allowed = 0 =>
          IF pc \in Outcome THEN FailureBudget
          ELSE Cardinality(failed) + pending_commands <= FailuresAllowed + Parallelism - 1

\* CanRunMore never answers more than the places that -j leaves.
LEMMA CapacityFits ==
    ASSUME NEW r \in Nat, r <= Parallelism, NEW c \in CanRunMore(r, 0)
    PROVE  r + c <= Parallelism
<1>1. PICK h \in Headroom \cup {0} : c = Capacity(r, 0, h)
  BY DEF CanRunMore
<1>2. h \in Int /\ Parallelism \in Nat /\ Parallelism > 0
  BY RunnerAssumption
<1>3. HalfCapacity(r, 0, h) \in Nat /\ HalfCapacity(r, 0, h) <= 2 * (Parallelism - r)
  BY <1>2 DEF HalfCapacity, Places
<1>4. CASE HalfCapacity(r, 0, h) = 0 /\ r = 0
  BY <1>1, <1>2, <1>4 DEF Capacity
<1>5. CASE ~(HalfCapacity(r, 0, h) = 0 /\ r = 0)
  <2>1. c = HalfCapacity(r, 0, h) \div 2
    BY <1>1, <1>5 DEF Capacity
  <2>. QED  BY <1>2, <1>3, <2>1
<1>. QED  BY <1>4, <1>5

\* What the runner's operations do to the number of places in use.
LEMMA InUseSteps ==
    ASSUME RunnerTypeOK
    PROVE  /\ Len(running) \in Nat /\ unstarted \in Nat
           /\ UNCHANGED runnerVars => Len(running') = Len(running) /\ unstarted' = unstarted
           /\ ReapHead => Len(running') = Len(running) - 1 /\ unstarted' = unstarted
           /\ Abort => Len(running') = 0 /\ unstarted' = unstarted
           /\ StartCommandFails => Len(running') = Len(running) /\ unstarted' = unstarted + 1
           /\ \A e \in Edge : StartCommand(e) =>
                 Len(running') = Len(running) + 1 /\ unstarted' = unstarted
           /\ \A i \in DOMAIN running, x \in {ExitOk, ExitBad} : ChildExits(i, x) =>
                 Len(running') = Len(running) /\ unstarted' = unstarted
<1>0. /\ running \in Seq([edge : Edge, exit : {Live, ExitOk, ExitBad}])
      /\ Len(running) \in Nat /\ unstarted \in Nat
  BY LenProperties DEF RunnerTypeOK
<1>1. ReapHead => Len(running') = Len(running) - 1 /\ unstarted' = unstarted
  BY <1>0, HeadTailProperties DEF ReapHead
<1>2. \A e \in Edge : StartCommand(e) => Len(running') = Len(running) + 1 /\ unstarted' = unstarted
  BY <1>0, AppendProperties DEF StartCommand
<1>3. \A i \in DOMAIN running, x \in {ExitOk, ExitBad} : ChildExits(i, x) =>
          Len(running') = Len(running) /\ unstarted' = unstarted
  BY <1>0 DEF ChildExits
<1>. QED  BY <1>0, <1>1, <1>2, <1>3 DEF Abort, StartCommandFails, runnerVars

\* The ways a step may change places, counters and budget.  Every step of the
\* builder is one of them.
Aside ==  \* the loop does not move
    /\ Len(running') = Len(running) /\ unstarted' = unstarted
    /\ UNCHANGED <<loopVars, failed>>

Stops ==  \* the build ends, with or without Cleanup
    /\ pc \notin Outcome => pc' \in Outcome
    /\ Len(running') <= Len(running) /\ unstarted' = unstarted
    /\ UNCHANGED <<failures_allowed, failed>>
    /\ pc' \in Outcome

\* Steps beside the loop and steps that end it keep the bounds.
LEMMA AsideOrStops ==
    ASSUME TypeOK, RunnerInv, BudgetInv, Aside \/ Stops, Len(running') \in Nat
    PROVE  RunnerInv' /\ BudgetInv'
<1>1. /\ Len(running) \in Nat /\ unstarted \in Nat /\ Parallelism \in Nat \ {0}
      /\ FailuresAllowed \in Nat \ {0} /\ failures_allowed \in Nat
  BY InUseSteps, RunnerAssumption, BuilderAssumption DEF TypeOK
<1>2. Cardinality(failed) \in Nat
  BY FS_Subset, FS_CardinalityType, GraphAssumption DEF TypeOK
<1>3. CASE Aside
  BY <1>1, <1>3
  DEF Aside, RunnerInv, BudgetInv, ParallelismKept, FailureBudget, InUse, loopVars
<1>4. CASE Stops
  <2>1. RunnerInv'
    <3>1. pc' \in Outcome /\ pc' \notin {"prepare", "loop", "start"}
      BY <1>4 DEF Stops, Outcome
    <3>2. Len(running') + unstarted' <= Parallelism
      BY <1>1, <1>4 DEF Stops, RunnerInv, ParallelismKept
    <3>. QED  BY <3>1, <3>2 DEF RunnerInv, ParallelismKept
  <2>2. Cardinality(failed) <= FailuresAllowed + Parallelism - 1
    <3>1. CASE failures_allowed > 0
      BY <1>1, <1>2, <3>1 DEF BudgetInv
    <3>2. CASE failures_allowed = 0
      BY <1>1, <1>2, <3>2 DEF BudgetInv, FailureBudget, RunnerInv, ParallelismKept
    <3>. QED  BY <1>1, <3>1, <3>2
  <2>3. BudgetInv'
    BY <1>1, <1>2, <1>4, <2>2 DEF Stops, BudgetInv, FailureBudget, Outcome
  <2>. QED  BY <2>1, <2>3
<1>. QED  BY <1>3, <1>4

\* Every step of the builder keeps the bounds.
LEMMA NextBounds ==
    ASSUME TypeOK, RunnerInv, BudgetInv, [Next]_vars
    PROVE  RunnerInv' /\ BudgetInv'
<1>0. /\ RunnerTypeOK /\ RunnerTypeOK' /\ Len(running) \in Nat /\ unstarted \in Nat
      /\ Len(running') \in Nat /\ unstarted' \in Nat /\ Parallelism \in Nat \ {0}
      /\ FailuresAllowed \in Nat \ {0} /\ failures_allowed \in Nat /\ capacity \in Int
      /\ pending_commands \in Int
  <2>1. RunnerTypeOK'
    BY NextType DEF TypeOK
  <2>. QED  BY <2>1, InUseSteps, LenProperties, RunnerAssumption, BuilderAssumption
            DEF TypeOK, RunnerTypeOK
<1>1. /\ IsFiniteSet(failed) /\ Cardinality(failed) \in Nat
      /\ \A e \in Edge : /\ Cardinality(failed \cup {e}) \in Nat
                         /\ Cardinality(failed \cup {e}) <= Cardinality(failed) + 1
  <2>1. IsFiniteSet(failed) /\ Cardinality(failed) \in Nat
    BY FS_Subset, FS_CardinalityType, GraphAssumption DEF TypeOK
  <2>2. ASSUME NEW e \in Edge
        PROVE  /\ Cardinality(failed \cup {e}) \in Nat
               /\ Cardinality(failed \cup {e}) <= Cardinality(failed) + 1
    <3>1. Cardinality(failed \cup {e})
            = IF e \in failed THEN Cardinality(failed) ELSE Cardinality(failed) + 1
      BY <2>1, FS_AddElement
    <3>. QED  BY <2>1, <3>1
  <2>. QED  BY <2>1, <2>2
<1>2. CASE PrepareQueue
  <2>1. UNCHANGED <<runnerVars, capacity, pending_commands, failures_allowed, failed>>
        /\ pc = "prepare" /\ pc' = "loop"
    BY <1>2 DEF PrepareQueue, history
  <2>2. RunnerInv'
    BY <1>0, <2>1 DEF RunnerInv, ParallelismKept, InUse, Outcome, runnerVars
  <2>3. BudgetInv'
    BY <1>0, <1>1, <2>1 DEF BudgetInv, FailureBudget, Outcome
  <2>. QED  BY <2>2, <2>3
<1>3. CASE LoopTop
  <2>1. /\ UNCHANGED <<runnerVars, pending_commands, failures_allowed, failed>>
        /\ pc = "loop"
        /\ pc' \in {"succeeded", "reap", "panic", "start"}
        /\ pc' = "start" => capacity' \in CanRunMore(Len(running), unstarted) /\ failures_allowed # 0
    BY <1>3 DEF LoopTop, AtLoop, history
  <2>2. pc' = "start" => Len(running) + capacity' <= Parallelism
    BY <1>0, <2>1, CapacityFits DEF RunnerInv, ParallelismKept
  <2>3. RunnerInv'
    BY <1>0, <2>1, <2>2 DEF RunnerInv, ParallelismKept, InUse, Outcome, runnerVars
  <2>4. Cardinality(failed) + pending_commands <= FailuresAllowed + Parallelism - 1
            \/ failures_allowed > 0
    BY <1>0, <2>1 DEF BudgetInv, Outcome
  <2>5. pending_commands >= 0
    BY <1>0, <2>1 DEF RunnerInv, ParallelismKept, Outcome
  <2>6. BudgetInv'
    BY <1>0, <1>1, <2>1, <2>4, <2>5 DEF BudgetInv, FailureBudget
  <2>. QED  BY <2>3, <2>6
<1>4. CASE StartDone
  <2>1. /\ UNCHANGED <<runnerVars, capacity, pending_commands, failures_allowed, failed>>
        /\ pc = "start" /\ pc' \in {"succeeded", "reap"}
    BY <1>4 DEF StartDone, AtLoop, history
  <2>2. RunnerInv'
    BY <1>0, <2>1 DEF RunnerInv, ParallelismKept, InUse, Outcome, runnerVars
  <2>3. BudgetInv'
    BY <1>0, <1>1, <2>1 DEF BudgetInv, FailureBudget
  <2>. QED  BY <2>2, <2>3
<1>5. ASSUME NEW e \in Edge, StartEdge(e) PROVE RunnerInv' /\ BudgetInv'
  <2>1. /\ pc = "start" /\ pc' \in {"start", "fatal"} /\ capacity > 0
        /\ pending_commands' = pending_commands + 1
        /\ UNCHANGED <<failures_allowed, failed>>
    BY <1>5 DEF StartEdge, CanStart, AtLoop
  <2>2. Len(running') + unstarted' = Len(running) + unstarted + 1
    BY <1>0, <1>5, InUseSteps DEF StartEdge
  <2>3. pc' = "start" => capacity' \in Int /\ capacity' <= capacity - 1
    <3>1. \A c \in CanRunMore(Len(running'), unstarted') : c \in Nat
      BY <1>0, CapacityType
    <3>. QED  BY <1>0, <1>5, <3>1 DEF StartEdge
  <2>4. InUse + capacity <= Parallelism
    BY <2>1 DEF RunnerInv
  <2>5. pending_commands = Len(running) + unstarted
    BY <2>1 DEF RunnerInv, ParallelismKept, Outcome
  <2>6. RunnerInv'
    <3>1. Len(running') + unstarted' <= Parallelism
      BY <1>0, <2>1, <2>2, <2>4 DEF InUse
    <3>2. pending_commands' = Len(running') + unstarted'
      BY <1>0, <2>1, <2>2, <2>5
    <3>3. pc' = "start" => Len(running') + unstarted' + capacity' <= Parallelism
      BY <1>0, <2>2, <2>3, <2>4 DEF InUse
    <3>. QED  BY <2>1, <3>1, <3>2, <3>3 DEF RunnerInv, ParallelismKept, InUse
  <2>7. BudgetInv'
    BY <1>0, <1>1, <2>1 DEF BudgetInv
  <2>. QED  BY <2>6, <2>7
<1>6. ASSUME NEW e \in Edge, FinishCommandSucceeds(e) \/ FinishCommandFails(e)
      PROVE  RunnerInv' /\ BudgetInv'
  <2>1. /\ pc = "reap" /\ pc' = "loop" /\ ReapHead /\ unstarted = 0
        /\ pending_commands' = pending_commands - 1
        /\ \/ UNCHANGED <<failures_allowed, failed>>
           \/ failures_allowed' = AfterFailure /\ failed' = failed \cup {e}
    BY <1>6 DEF FinishCommandSucceeds, FinishCommandFails, Reaped, AtLoop
  <2>2. Len(running') = Len(running) - 1 /\ unstarted' = 0
    BY <1>0, <2>1, InUseSteps
  <2>3. pending_commands = Len(running)
    BY <1>0, <2>1 DEF RunnerInv, ParallelismKept, Outcome
  <2>4. RunnerInv'
    BY <1>0, <2>1, <2>2, <2>3 DEF RunnerInv, ParallelismKept, InUse
  <2>5. pending_commands' \in Int /\ pending_commands' <= Parallelism - 1
    BY <1>0, <2>1, <2>3 DEF RunnerInv, ParallelismKept
  <2>6. pc \notin Outcome /\ pc' \notin Outcome /\ pc' # "start"
    BY <2>1 DEF Outcome
  <2>7. BudgetInv'
    <3>1. CASE UNCHANGED <<failures_allowed, failed>>
      <4>1. failures_allowed = 0 =>
              Cardinality(failed) + pending_commands' <= FailuresAllowed + Parallelism - 1
        BY <1>0, <1>1, <2>1, <2>6 DEF BudgetInv
      <4>. QED  BY <2>6, <3>1, <4>1 DEF BudgetInv
    <3>2. CASE failures_allowed' = AfterFailure /\ failed' = failed \cup {e}
      <4>. DEFINE n == Cardinality(failed)
                  m == Cardinality(failed \cup {e})
      <4>1. m \in Nat /\ m <= n + 1 /\ n \in Nat
        BY <1>1
      <4>2. CASE failures_allowed # 0
        <5>1. failures_allowed' = failures_allowed - 1 /\ n <= FailuresAllowed - failures_allowed
          BY <1>0, <3>2, <4>2 DEF BudgetInv, AfterFailure
        <5>2. m <= FailuresAllowed - failures_allowed'
          BY <1>0, <4>1, <5>1
        <5>3. failures_allowed' = 0 =>
                m + pending_commands' <= FailuresAllowed + Parallelism - 1
          BY <1>0, <2>5, <4>1, <5>2
        <5>4. failures_allowed' <= FailuresAllowed
          BY <1>0, <5>1 DEF BudgetInv
        <5>. QED  BY <2>6, <3>2, <5>2, <5>3, <5>4 DEF BudgetInv
      <4>3. CASE failures_allowed = 0
        <5>1. failures_allowed' = 0
          BY <3>2, <4>3 DEF AfterFailure
        <5>2. n + pending_commands <= FailuresAllowed + Parallelism - 1
          BY <2>6, <4>3 DEF BudgetInv
        <5>3. m + pending_commands' <= FailuresAllowed + Parallelism - 1
          BY <1>0, <2>1, <4>1, <5>2
        <5>. QED  BY <1>0, <2>6, <3>2, <5>1, <5>3 DEF BudgetInv
      <4>. QED  BY <4>2, <4>3
    <3>. QED  BY <2>1, <3>1, <3>2
  <2>. QED  BY <2>4, <2>7
<1>7. ASSUME NEW o \in Outcome, Die(o) \/ CleanupAndStop(o) PROVE Stops
  <2>1. pc' \in Outcome /\ UNCHANGED <<failures_allowed, failed>>
        /\ (UNCHANGED runnerVars \/ Abort)
    BY <1>7 DEF Die, CleanupAndStop, history
  <2>2. Len(running') <= Len(running) /\ unstarted' = unstarted
    BY <1>0, <2>1, InUseSteps
  <2>. QED  BY <2>1, <2>2 DEF Stops
<1>8. CASE NoProgress
  <2>1. pc' \in Outcome /\ UNCHANGED <<failures_allowed, failed, runnerVars>>
    BY <1>8 DEF NoProgress, Outcome, history
  <2>2. Stops
    BY <1>0, <2>1, InUseSteps DEF Stops, runnerVars
  <2>. QED  BY <1>0, <2>2, AsideOrStops
<1>9. ASSUME \/ \E e \in Edge : StartPhony(e) \/ RecordCommand(e)
             \/ \E n \in Node : RestatOutput(n)
             \/ PlanCall \/ UNCHANGED vars
      PROVE  Aside
  <2>1. UNCHANGED <<runnerVars, loopVars, failed>>
    BY <1>9 DEF StartPhony, RecordCommand, RestatOutput, PlanCall, vars, history
  <2>. QED  BY <1>0, <2>1, InUseSteps DEF Aside
<1>10. CASE ChildExit
  <2>1. UNCHANGED <<loopVars, failed>>
    BY <1>10 DEF ChildExit, history
  <2>2. Aside
    BY <1>0, <1>10, <2>1, InUseSteps DEF ChildExit, Aside
  <2>. QED  BY <1>0, <2>2, AsideOrStops
<1>. QED
  BY <1>0, <1>2, <1>3, <1>4, <1>5, <1>6, <1>7, <1>8, <1>9, <1>10, AsideOrStops
  DEF Next, BuildStep, Ended, LoadUnknown, FinishUnplanned, WaitFails,
      StartEdgeFails, FinishCommandAborts, Outcome

\* The bounds hold when Build is called.
LEMMA InitBounds == Init => RunnerInv /\ BudgetInv
<1>1. SUFFICES ASSUME Init PROVE RunnerInv /\ BudgetInv
  OBVIOUS
<1>2. /\ running = <<>> /\ unstarted = 0 /\ pending_commands = 0 /\ pc = "prepare"
      /\ failures_allowed = FailuresAllowed /\ failed = {}
  BY <1>1 DEF Init, RunnerInit
<1>3. Parallelism \in Nat \ {0} /\ FailuresAllowed \in Nat \ {0} /\ Cardinality(failed) = 0
  BY <1>2, FS_EmptySet, RunnerAssumption, BuilderAssumption
<1>4. RunnerInv
  BY <1>2, <1>3 DEF RunnerInv, ParallelismKept
<1>5. BudgetInv
  BY <1>2, <1>3 DEF BudgetInv
<1>. QED  BY <1>4, <1>5

\* FailureBudget follows from the invariant in every state.
LEMMA BudgetHolds ==
    ASSUME TypeOK, RunnerInv, BudgetInv
    PROVE  FailureBudget
<1>1. /\ Len(running) \in Nat /\ unstarted \in Nat /\ Parallelism \in Nat \ {0}
      /\ FailuresAllowed \in Nat \ {0} /\ failures_allowed \in Nat
  BY InUseSteps, RunnerAssumption, BuilderAssumption DEF TypeOK
<1>2. Cardinality(failed) \in Nat
  BY FS_Subset, FS_CardinalityType, GraphAssumption DEF TypeOK
<1>3. CASE failures_allowed > 0
  BY <1>1, <1>2, <1>3 DEF BudgetInv, FailureBudget
<1>4. CASE failures_allowed = 0
  BY <1>1, <1>2, <1>4 DEF BudgetInv, FailureBudget, RunnerInv, ParallelismKept
<1>. QED  BY <1>1, <1>3, <1>4

\* However load, capacity and failures to start interleave, no more than -j commands
\* are running, and the loop knows how many.
THEOREM ParallelismHolds == Spec => []ParallelismKept
<1>1. Init => TypeOK /\ RunnerInv /\ BudgetInv
  BY InitType, InitBounds
<1>2. (TypeOK /\ RunnerInv /\ BudgetInv) /\ [Next]_vars => (TypeOK /\ RunnerInv /\ BudgetInv)'
  BY NextType, NextBounds
<1>3. RunnerInv => ParallelismKept
  BY DEF RunnerInv
<1>. QED  BY <1>1, <1>2, <1>3, PTL DEF Spec

\* With -k N no more than N failures are counted, plus those of the commands that
\* were running beside the N-th.
THEOREM FailureBudgetHolds == Spec => []FailureBudget
<1>1. Init => TypeOK /\ RunnerInv /\ BudgetInv
  BY InitType, InitBounds
<1>2. (TypeOK /\ RunnerInv /\ BudgetInv) /\ [Next]_vars => (TypeOK /\ RunnerInv /\ BudgetInv)'
  BY NextType, NextBounds
<1>3. TypeOK /\ RunnerInv /\ BudgetInv => FailureBudget
  BY BudgetHolds
<1>. QED  BY <1>1, <1>2, <1>3, PTL DEF Spec

-----------------------------------------------------------------------------
\* The two classes of manifests that the theorems speak of.
Unpooled == \A e \in Edge : Depth[PoolOf[e]] = 0
NoRestat == Restat = {}

-----------------------------------------------------------------------------
(* Sequences as sets. *)

\* The elements of a sequence, of its tail, and of two in a row.
LEMMA ToSetParts ==
    ASSUME NEW S, NEW s \in Seq(S), NEW t \in Seq(S)
    PROVE  /\ ToSet(s) \subseteq S
           /\ ToSet(<<>>) = {}
           /\ ToSet(s \o t) = ToSet(s) \cup ToSet(t)
           /\ s # <<>> => ToSet(s) = {Head(s)} \cup ToSet(Tail(s))
<1>1. /\ Len(s) \in Nat /\ Len(t) \in Nat /\ DOMAIN s = 1..Len(s) /\ DOMAIN t = 1..Len(t)
      /\ \A i \in 1..Len(s) : s[i] \in S
  BY LenProperties, ElementOfSeq
<1>2. ToSet(s \o t) = ToSet(s) \cup ToSet(t)
  <2>1. /\ s \o t \in Seq(S) /\ Len(s \o t) = Len(s) + Len(t)
        /\ \A i \in 1..Len(s) + Len(t) :
              (s \o t)[i] = IF i <= Len(s) THEN s[i] ELSE t[i - Len(s)]
    BY ConcatProperties
  <2>2. DOMAIN (s \o t) = 1..Len(s) + Len(t)
    BY <2>1, LenProperties
  <2>3. \A i \in 1..Len(s) : i \in 1..Len(s) + Len(t) /\ (s \o t)[i] = s[i]
    BY <1>1, <2>1
  <2>4. \A i \in 1..Len(t) : i + Len(s) \in 1..Len(s) + Len(t) /\ (s \o t)[i + Len(s)] = t[i]
    BY <1>1, <2>1
  <2>5. \A i \in 1..Len(s) + Len(t) :
          \/ i \in 1..Len(s) /\ (s \o t)[i] = s[i]
          \/ i - Len(s) \in 1..Len(t) /\ (s \o t)[i] = t[i - Len(s)]
    BY <1>1, <2>1
  <2>6. ToSet(s \o t) \subseteq ToSet(s) \cup ToSet(t)
    BY <1>1, <2>2, <2>5 DEF ToSet
  <2>7. ToSet(s) \cup ToSet(t) \subseteq ToSet(s \o t)
    BY <1>1, <2>2, <2>3, <2>4 DEF ToSet
  <2>. QED  BY <2>6, <2>7
<1>3. ASSUME s # <<>> PROVE ToSet(s) = {Head(s)} \cup ToSet(Tail(s))
  <2>1. /\ Len(s) > 0 /\ Head(s) = s[1] /\ Tail(s) \in Seq(S) /\ Len(Tail(s)) = Len(s) - 1
        /\ \A i \in 1..Len(Tail(s)) : Tail(s)[i] = s[i + 1]
    BY <1>1, <1>3, EmptySeq, HeadTailProperties
  <2>2. DOMAIN Tail(s) = 1..Len(Tail(s))
    BY <2>1, LenProperties
  <2>3. \A i \in 1..Len(s) : i = 1 \/ (i - 1 \in 1..Len(Tail(s)) /\ Tail(s)[i - 1] = s[i])
    BY <1>1, <2>1
  <2>4. \A i \in 1..Len(Tail(s)) : i + 1 \in 1..Len(s)
    BY <1>1, <2>1
  <2>5. ToSet(s) \subseteq {Head(s)} \cup ToSet(Tail(s))
    <3>1. SUFFICES ASSUME NEW i \in 1..Len(s) PROVE s[i] \in {Head(s)} \cup ToSet(Tail(s))
      BY <1>1 DEF ToSet
    <3>2. i = 1 \/ (i - 1 \in DOMAIN Tail(s) /\ Tail(s)[i - 1] = s[i])
      BY <2>2, <2>3
    <3>. QED  BY <2>1, <3>2 DEF ToSet
  <2>6. {Head(s)} \cup ToSet(Tail(s)) \subseteq ToSet(s)
    <3>1. 1 \in 1..Len(s)
      BY <1>1, <2>1
    <3>. QED  BY <1>1, <2>1, <2>2, <2>4, <3>1 DEF ToSet
  <2>. QED  BY <2>5, <2>6
<1>4. ToSet(s) \subseteq S /\ ToSet(<<>>) = {}
  BY <1>1 DEF ToSet
<1>. QED  BY <1>2, <1>3, <1>4

\* A loop over s makes one call for each of its elements.
LEMMA ToSetCallEach ==
    ASSUME NEW op, NEW S, NEW s \in Seq(S)
    PROVE  ToSet(CallEach(op, s)) = {[op |-> op, arg |-> x] : x \in ToSet(s)}
<1>1. DOMAIN s = 1..Len(s) /\ DOMAIN CallEach(op, s) = 1..Len(s)
  BY LenProperties DEF CallEach
<1>. QED  BY <1>1 DEF CallEach, ToSet

\* The calls that two sequences of calls make.
LEMMA CallsInARow ==
    ASSUME NEW s \in Seq(Call), NEW t \in Seq(Call)
    PROVE  /\ ToSet(s) \subseteq Call
           /\ s \o t \in Seq(Call)
           /\ ToSet(s \o t) = ToSet(s) \cup ToSet(t)
BY ToSetParts, ConcatProperties

\* The calls that are pending, and those after the next one.
Pending == ToSet(calls)
Later == ToSet(Tail(calls))

\* A call of op, and one for each element of X.
C(op, x) == [op |-> op, arg |-> x]
Each(op, X) == {C(op, x) : x \in X}

-----------------------------------------------------------------------------
(***************************************************************************)
(* What a step may do.  Every step of the builder is of one of ten kinds,  *)
(* described by what happens to the sets of pending calls and of running   *)
(* edges and to the variables that the invariants below speak of.          *)
(***************************************************************************)

\* No edge waits for a place in a pool.
Undelayed == \A p \in Pool : delayed[p] = <<>>

\* The edges whose command is in running_, and that none is in it twice.
InHand == {running[i].edge : i \in DOMAIN running}
Distinct == \A i, j \in DOMAIN running : running[i].edge = running[j].edge => i = j

\* The call c is the next one.
Pops(c) == calls # <<>> /\ Head(calls) = c /\ Pending = {c} \cup Later

\* The pending calls are well typed, and the next one is one of them.
LEMMA PendingParts ==
    ASSUME TypeOK
    PROVE  /\ Pending \subseteq Call
           /\ \A e : Finishing(e) <=> C("EdgeFinished", e) \in Pending
           /\ calls = <<>> => Pending = {}
           /\ \A op, x : NextCall(op, x) => Pops(C(op, x)) /\ Tail(calls) \in Seq(Call)
<1>1. calls \in Seq(Call)
  BY DEF TypeOK, PlanTypeOK
<1>2. \A e : Finishing(e) <=> C("EdgeFinished", e) \in Pending
  BY DEF Finishing, Pending, C, ToSet
<1>3. ASSUME NEW op, NEW x, NextCall(op, x)
      PROVE  Pops(C(op, x)) /\ Tail(calls) \in Seq(Call)
  BY <1>1, <1>3, ToSetParts, HeadTailProperties DEF NextCall, Pops, Pending, Later, C
<1>. QED  BY <1>1, <1>2, <1>3, ToSetParts DEF Pending

\* The ready queue after edges may have been moved to it that are behind q.
Refilled(q) ==
    /\ delayed' = delayed
    /\ \A e \in Edge : ready'[e] >= q[e]
    /\ Unpooled /\ Undelayed => ready' = q

\* StartDone, LoopTop and a child's exit: what is planned and what runs stays.
Still ==
    /\ UNCHANGED <<planVars, history, unstarted, InUse, InHand>>
    /\ Distinct => Distinct'
    /\ pc \in Outcome => pc' \in Outcome
    /\ pc' = "prepare" => pc = "prepare"
    /\ pc = "prepare" => pc' = "prepare" \/ pc' \in Outcome
    /\ pc' = "succeeded" => pc = "succeeded" \/ ~more_to_do

\* Cleanup and an end without success: nothing runs any more.
Quits ==
    /\ pc' \in Outcome /\ pc' # "succeeded"
    /\ InHand' = {} /\ Distinct'
    /\ \A e \in Edge : ready'[e] <= ready[e]
    /\ UNCHANGED <<delayed, want, outputs_ready, wanted_edges, command_edges, calls,
                   history, unstarted>>

\* PrepareQueue: what is wanted and ready goes to the queue, or waits for its pool.
Prepares ==
    /\ pc = "prepare" /\ pc' = "loop"
    /\ want' = [e \in Edge |-> IF e \in Initial \ InitiallyDelayed
                               THEN kWantToFinish ELSE want[e]]
    /\ \A e \in Initial \ InitiallyDelayed : ready'[e] = 1
    /\ \A e \in InitiallyDelayed : e \in ToSet(delayed'[PoolOf[e]])
    /\ Unpooled => /\ InitiallyDelayed = {} /\ Undelayed'
                   /\ \A e \in Edge \ Initial : ready'[e] = 0
    /\ UNCHANGED <<outputs_ready, wanted_edges, command_edges, calls, history, runnerVars>>

\* StartEdge of a command.
Starts(e) ==
    /\ pc = "start" /\ pc' \in {"start", "fatal"} /\ calls = <<>>
    /\ e \notin Phony /\ ready[e] > 0 /\ capacity > 0
    /\ ready' = Polled(e)
    /\ started' = [started EXCEPT ![e] = @ + 1]
    /\ \/ InHand' = InHand \cup {e} /\ UNCHANGED unstarted
       \/ UNCHANGED InHand /\ unstarted' = unstarted + 1
    /\ InUse' = InUse + 1
    /\ Distinct /\ e \notin InHand => Distinct'
    /\ UNCHANGED <<delayed, want, outputs_ready, wanted_edges, command_edges, calls,
                   planned, built, failed>>

\* The oldest command leaves running_.
Reaps(e) ==
    /\ pc = "reap" /\ pc' = "loop" /\ Pending = {}
    /\ InHand = {e} \cup InHand'
    /\ Distinct => e \notin InHand' /\ Distinct'
    /\ InUse' = InUse - 1 /\ UNCHANGED unstarted

\* FinishCommand of one that has succeeded.
Succeeds(e) ==
    /\ Reaps(e)
    /\ Pending' = Each("RestatOutput", ToSet(Outs[e]))
                  \cup {C("EdgeFinished", e), C("RecordCommand", e)}
    /\ built' = built \cup {e}
    /\ UNCHANGED <<delayed, want, ready, outputs_ready, wanted_edges, command_edges,
                   planned, started, failed>>

\* FinishCommand of one that has failed.
Fails(e) ==
    /\ Reaps(e)
    /\ failed' = failed \cup {e}
    /\ Refilled(ready)
    /\ UNCHANGED <<want, outputs_ready, wanted_edges, command_edges, calls,
                   planned, started, built>>

\* In the other kinds the loop waits for a call of the plan.
Waits == pc \notin Outcome /\ UNCHANGED <<runnerVars, loopVars, history>>

\* CleanNode takes an edge out of the plan.
Unwants(e) ==
    /\ Waits /\ Pops(C("Unwant", e)) /\ Pending' = Later
    /\ want' = [want EXCEPT ![e] = kWantNothing]
    /\ wanted_edges' = wanted_edges - 1
    /\ UNCHANGED <<delayed, ready, outputs_ready>>

\* ScheduleWork.
Schedules(e) ==
    /\ Waits /\ Pops(C("EdgeMaybeReady", e)) /\ Pending' = Later
    /\ want[e] = kWantToStart /\ DependsOn[e] \subseteq outputs_ready
    /\ want' = [want EXCEPT ![e] = kWantToFinish]
    /\ \A x \in Edge : ready'[x] >= ready[x]
    /\ \A p \in Pool : ToSet(delayed[p]) \subseteq ToSet(delayed'[p])
    /\ ready'[e] > 0 \/ e \in ToSet(delayed'[PoolOf[e]])
    /\ Unpooled => delayed' = delayed /\ ready' = [ready EXCEPT ![e] = @ + 1]
    /\ UNCHANGED <<outputs_ready, wanted_edges, command_edges>>

\* EdgeFinished: of a command, of a phony edge, or of an edge that nobody wants any more and
\* whose inputs are ready.
Completes(e) ==
    /\ Waits /\ want[e] # Absent
    /\ \/ /\ pc = "start" /\ e \in Phony /\ ready[e] > 0 /\ Pending = {}
          /\ Refilled(Polled(e))
          /\ Pending' = Each("NodeFinished", ToSet(Outs[e]))
       \/ /\ \/ Pops(C("EdgeFinished", e))
             \/ /\ Pops(C("EdgeMaybeReady", e))
                /\ want[e] = kWantNothing /\ DependsOn[e] \subseteq outputs_ready
          /\ Refilled(ready)
          /\ Pending' = Each("NodeFinished", ToSet(Outs[e])) \cup Later
    /\ want' = [want EXCEPT ![e] = Absent]
    /\ outputs_ready' = outputs_ready \cup {e}
    /\ wanted_edges' = StillWanted(e)
    /\ UNCHANGED command_edges

\* The plan's call c is replaced by the calls in S, and nothing else happens.
Replaces(c, S) ==
    \/ \E e \in Edge : c = C("RecordCommand", e) /\ S = {}
    \/ \E n \in Node : /\ c = C("RestatOutput", n)
                       /\ S = {} \/ (S = {C("CleanNode", n)} /\ ~NoRestat)
    \/ \E n \in Node : /\ c = C("NodeFinished", n)
                       /\ S = Each("EdgeMaybeReady", ToSet(OutEdges[n]))
    \/ \E n \in Node : /\ c = C("CleanNode", n)
                       /\ S = Each("CleanOutEdge", ToSet(OutEdges[n]))
    \/ \E e \in Edge : /\ c = C("CleanOutEdge", e)
                       /\ S = {} \/ (S = {C("RecomputeOutputsDirty", e)} /\ want[e] # Absent)
    \/ \E e \in Edge : /\ c = C("RecomputeOutputsDirty", e)
                       /\ \/ S = {}
                          \/ S = Each("CleanNode", ToSet(Outs[e])) \cup {C("Unwant", e)}
    \/ \E e \in Edge : /\ c = C("EdgeMaybeReady", e) /\ S = {}
                       /\ \/ want[e] \in {Absent, kWantToFinish}
                          \/ ~(DependsOn[e] \subseteq outputs_ready)

\* The call c is replaced by the calls of S, and the plan is left alone.
Shuffles(c, S) ==
    /\ Waits /\ Pops(c) /\ Pending' = S \cup Later
    /\ Replaces(c, S)
    /\ UNCHANGED <<delayed, want, ready, outputs_ready, wanted_edges, command_edges>>

\* What the runner's operations do to the set of running edges.
LEMMA InHandSteps ==
    ASSUME RunnerTypeOK
    PROVE  /\ \A e : Executing(e) <=> e \in InHand
           /\ InHand \subseteq Edge
           /\ running' = running => InHand' = InHand
           /\ ReapHead => /\ running # <<>> /\ running' = Tail(running)
                          /\ InHand = {Head(running).edge} \cup InHand'
           /\ Abort => InHand' = {}
           /\ \A e \in Edge : StartCommand(e) => InHand' = InHand \cup {e}
           /\ \A i \in DOMAIN running, x \in {ExitOk, ExitBad} :
                 ChildExits(i, x) => InHand' = InHand
<1>. DEFINE Child == [edge : Edge, exit : {Live, ExitOk, ExitBad}]
<1>0. /\ running \in Seq(Child) /\ Len(running) \in Nat /\ DOMAIN running = 1..Len(running)
      /\ \A i \in 1..Len(running) : running[i] \in Child
  BY LenProperties, ElementOfSeq DEF RunnerTypeOK
<1>1. (\A e : Executing(e) <=> e \in InHand) /\ InHand \subseteq Edge
  BY <1>0 DEF Executing, InHand
<1>2. ASSUME ReapHead
      PROVE  /\ running # <<>> /\ running' = Tail(running)
             /\ InHand = {Head(running).edge} \cup InHand'
  <2>1. running # <<>> /\ running' = Tail(running)
    BY <1>2 DEF ReapHead
  <2>2. /\ running' \in Seq(Child) /\ Len(running') = Len(running) - 1 /\ Len(running) > 0
        /\ Head(running) = running[1]
        /\ \A i \in 1..Len(running') : running'[i] = running[i + 1]
    BY <1>0, <2>1, EmptySeq, HeadTailProperties
  <2>3. DOMAIN running' = 1..Len(running')
    BY <2>2, LenProperties
  <2>4. ASSUME NEW i \in 1..Len(running)
        PROVE  running[i].edge \in {Head(running).edge} \cup InHand'
    <3>1. i = 1 \/ (i - 1 \in DOMAIN running' /\ running'[i - 1] = running[i])
      BY <1>0, <2>2, <2>3
    <3>. QED  BY <2>2, <3>1 DEF InHand
  <2>5. ASSUME NEW i \in 1..Len(running') PROVE running'[i].edge \in InHand
    <3>1. i + 1 \in DOMAIN running /\ running'[i] = running[i + 1]
      BY <1>0, <2>2
    <3>. QED  BY <3>1 DEF InHand
  <2>6. 1 \in DOMAIN running
    BY <1>0, <2>2
  <2>7. InHand \subseteq {Head(running).edge} \cup InHand'
    BY <1>0, <2>4 DEF InHand
  <2>8. {Head(running).edge} \cup InHand' \subseteq InHand
    BY <2>2, <2>3, <2>5, <2>6 DEF InHand
  <2>. QED  BY <2>1, <2>7, <2>8
<1>3. Abort => InHand' = {}
  BY DEF Abort, InHand
<1>4. ASSUME NEW e \in Edge, StartCommand(e) PROVE InHand' = InHand \cup {e}
  <2>1. running' = Append(running, [edge |-> e, exit |-> Live]) /\ [edge |-> e, exit |-> Live] \in Child
    BY <1>4 DEF StartCommand
  <2>2. /\ Len(running') = Len(running) + 1 /\ DOMAIN running' = 1..Len(running')
        /\ \A i \in 1..Len(running) : running'[i] = running[i]
        /\ running'[Len(running) + 1].edge = e
    BY <1>0, <2>1, AppendProperties, LenProperties
  <2>3. \A i \in DOMAIN running' : i \in DOMAIN running \/ i = Len(running) + 1
    BY <1>0, <2>2
  <2>4. DOMAIN running \subseteq DOMAIN running' /\ Len(running) + 1 \in DOMAIN running'
    BY <1>0, <2>2
  <2>. QED  BY <1>0, <2>2, <2>3, <2>4 DEF InHand
<1>5. ASSUME NEW i \in DOMAIN running, NEW x \in {ExitOk, ExitBad}, ChildExits(i, x)
      PROVE  InHand' = InHand
  <2>1. running' = [running EXCEPT ![i] = [running[i] EXCEPT !.exit = x]]
    BY <1>5 DEF ChildExits
  <2>2. DOMAIN running' = DOMAIN running /\ \A j \in DOMAIN running : running'[j].edge = running[j].edge
    BY <1>0, <2>1
  <2>. QED  BY <2>2 DEF InHand
<1>6. running' = running => InHand' = InHand
  BY DEF InHand
<1>. QED  BY <1>1, <1>2, <1>3, <1>4, <1>5, <1>6

\* running_ never has an edge twice that is only added when it is not in it.
LEMMA DistinctSteps ==
    ASSUME RunnerTypeOK
    PROVE  /\ Distinct /\ running' = running => Distinct'
           /\ Distinct /\ ReapHead => Head(running).edge \notin InHand' /\ Distinct'
           /\ Abort => Distinct'
           /\ \A e \in Edge : Distinct /\ StartCommand(e) /\ e \notin InHand => Distinct'
           /\ \A i \in DOMAIN running, x \in {ExitOk, ExitBad} :
                 Distinct /\ ChildExits(i, x) => Distinct'
<1>. DEFINE Child == [edge : Edge, exit : {Live, ExitOk, ExitBad}]
<1>0. /\ running \in Seq(Child) /\ Len(running) \in Nat /\ DOMAIN running = 1..Len(running)
      /\ \A i \in 1..Len(running) : running[i] \in Child
  BY LenProperties, ElementOfSeq DEF RunnerTypeOK
<1>1. ASSUME Distinct, ReapHead PROVE Head(running).edge \notin InHand' /\ Distinct'
  <2>1. /\ running # <<>> /\ running' = Tail(running)
        /\ running' \in Seq(Child) /\ Len(running') = Len(running) - 1 /\ Len(running) > 0
        /\ Head(running) = running[1]
        /\ \A i \in 1..Len(running') : running'[i] = running[i + 1]
    BY <1>0, <1>1, EmptySeq, HeadTailProperties DEF ReapHead
  <2>2. DOMAIN running' = 1..Len(running')
    BY <2>1, LenProperties
  <2>3. \A i \in DOMAIN running' : i \in Int /\ i + 1 # 1 /\ i + 1 \in DOMAIN running
                                 /\ running'[i] = running[i + 1]
    BY <1>0, <2>1, <2>2
  <2>4. 1 \in DOMAIN running
    BY <1>0, <2>1
  <2>5. Head(running).edge \notin InHand'
    BY <1>1, <2>1, <2>3, <2>4 DEF Distinct, InHand
  <2>6. ASSUME NEW i \in DOMAIN running', NEW j \in DOMAIN running',
               running'[i].edge = running'[j].edge
        PROVE  i = j
    <3>1. i + 1 = j + 1
      BY <1>1, <2>3, <2>6 DEF Distinct
    <3>. QED  BY <2>3, <3>1
  <2>. QED  BY <2>5, <2>6 DEF Distinct
<1>2. Abort => Distinct'
  BY DEF Abort, Distinct
<1>3. ASSUME NEW e \in Edge, Distinct, StartCommand(e), e \notin InHand PROVE Distinct'
  <2>1. running' = Append(running, [edge |-> e, exit |-> Live]) /\ [edge |-> e, exit |-> Live] \in Child
    BY <1>3 DEF StartCommand
  <2>2. /\ Len(running') = Len(running) + 1 /\ DOMAIN running' = 1..Len(running')
        /\ \A i \in 1..Len(running) : running'[i] = running[i]
        /\ running'[Len(running) + 1].edge = e
    BY <1>0, <2>1, AppendProperties, LenProperties
  <2>3. \A i \in DOMAIN running' :
          \/ i \in DOMAIN running /\ running'[i] = running[i]
          \/ i = Len(running) + 1 /\ running'[i].edge = e
    BY <1>0, <2>2
  <2>4. \A i \in DOMAIN running : running[i].edge # e
    BY <1>3 DEF InHand
  <2>. QED  BY <1>3, <2>3, <2>4 DEF Distinct
<1>4. ASSUME NEW i \in DOMAIN running, NEW x \in {ExitOk, ExitBad}, Distinct, ChildExits(i, x)
      PROVE  Distinct'
  <2>1. running' = [running EXCEPT ![i] = [running[i] EXCEPT !.exit = x]]
    BY <1>4 DEF ChildExits
  <2>2. DOMAIN running' = DOMAIN running /\ \A j \in DOMAIN running : running'[j].edge = running[j].edge
    BY <1>0, <2>1
  <2>. QED  BY <1>4, <2>2 DEF Distinct
<1>5. Distinct /\ running' = running => Distinct'
  BY DEF Distinct
<1>. QED  BY <1>1, <1>2, <1>3, <1>4, <1>5

\* Nothing is moved out of an empty delayed_.
LEMMA NothingDelayed ==
    ASSUME NEW p \in Pool, NEW u \in Int, NEW e \in Edge
    PROVE  Copies(<<>>, Retrieved(p, <<>>, u), e) = 0
<1>1. Depth[p] \in Nat
  BY GraphAssumption
<1>2. Retrieved(p, <<>>, u) = 0
  BY <1>1 DEF Retrieved
<1>3. {i \in 1..0 : <<>>[i] = e} = {}
  OBVIOUS
<1>. QED  BY <1>2, <1>3, FS_EmptySet DEF Copies

\* Giving a place back only adds to the ready queue, and nothing where no pool
\* has anything delayed.
LEMMA ReleasePlaceRefills ==
    ASSUME PlanTypeOK, NEW e \in Edge, NEW q \in [Edge -> Nat], ReleasePlace(e, q)
    PROVE  Refilled(q)
<1>. DEFINE p == PoolOf[e]
            u == IF want[e] # kWantNothing THEN Relinquished(p) ELSE use[p]
            k == Retrieved(p, delayed[p], u)
<1>1. p \in Pool /\ delayed \in [Pool -> Seq(Edge)] /\ use[p] \in Int
  BY OutsType DEF PlanTypeOK, PoolsTypeOK
<1>2. u \in Int
  BY <1>1 DEF Relinquished
<1>3. delayed' = delayed
  BY <1>1 DEF ReleasePlace, RetrieveReadyEdges
<1>4. ready' = [x \in Edge |-> q[x] + Copies(delayed[p], k, x)]
  BY DEF ReleasePlace
<1>5. \A x \in Edge : Copies(delayed[p], k, x) \in Nat
  BY <1>1, <1>2, RetrievedRange, CopiesOfDelayed
<1>6. Undelayed => \A x \in Edge : Copies(delayed[p], k, x) = 0
  BY <1>1, <1>2, NothingDelayed DEF Undelayed
<1>7. Undelayed => ready' = q
  <2>1. Undelayed => ready' = [x \in Edge |-> q[x]]
    BY <1>4, <1>6
  <2>. QED  BY <2>1
<1>. QED  BY <1>3, <1>4, <1>5, <1>7 DEF Refilled

\* ScheduleWork of an edge that is still to be started queues or delays it.
LEMMA ScheduleWorkQueues ==
    ASSUME PlanTypeOK, NEW e \in Edge, NEW rest, ScheduleWork(e, rest), want[e] = kWantToStart
    PROVE  /\ want' = [want EXCEPT ![e] = kWantToFinish]
           /\ \A x \in Edge : ready'[x] >= ready[x]
           /\ \A p \in Pool : ToSet(delayed[p]) \subseteq ToSet(delayed'[p])
           /\ ready'[e] > 0 \/ e \in ToSet(delayed'[PoolOf[e]])
           /\ Unpooled => delayed' = delayed /\ ready' = [ready EXCEPT ![e] = @ + 1]
<1>. DEFINE p == PoolOf[e]
            d == DelayEdge(delayed[p], e)
            k == Retrieved(p, d, use[p])
<1>1. /\ p \in Pool /\ delayed \in [Pool -> Seq(Edge)] /\ use[p] \in Int
      /\ ready \in [Edge -> Nat]
  BY OutsType DEF PlanTypeOK, PoolsTypeOK
<1>2. d \in Seq(Edge) /\ ToSet(d) = ToSet(delayed[p]) \cup {e}
  BY <1>1, DelayEdgeRange
<1>3. \A x \in Edge : Copies(d, k, x) \in Nat
  BY <1>1, <1>2, RetrievedRange, CopiesOfDelayed
<1>4. want' = [want EXCEPT ![e] = kWantToFinish]
  BY DEF ScheduleWork, kWantToStart, kWantToFinish
<1>5. CASE ShouldDelayEdge(p)
  <2>1. /\ delayed' = [delayed EXCEPT ![p] = d]
        /\ ready' = [x \in Edge |-> ready[x] + Copies(d, k, x)]
    BY <1>5 DEF ScheduleWork, RetrieveReadyEdges, kWantToStart, kWantToFinish
  <2>2. ~Unpooled
    BY <1>5 DEF Unpooled, ShouldDelayEdge
  <2>. QED  BY <1>1, <1>2, <1>3, <1>4, <2>1, <2>2
<1>6. CASE ~ShouldDelayEdge(p)
  <2>1. delayed' = delayed /\ ready' = [ready EXCEPT ![e] = @ + 1]
    BY <1>6 DEF ScheduleWork, kWantToStart, kWantToFinish
  <2>. QED  BY <1>1, <1>4, <2>1
<1>. QED  BY <1>5, <1>6

\* PrepareQueue queues every edge that can start, or delays it in its pool.
LEMMA PrepareQueuePrepares ==
    ASSUME TypeOK, PrepareQueue
    PROVE  Prepares
<1>1. PICK d \in [Pool -> UNION {SetToSeqs(S) : S \in SUBSET InitiallyDelayed}] :
        /\ \A p \in Pool : ToSet(d[p]) = {e \in InitiallyDelayed : PoolOf[e] = p}
        /\ delayed' = d
        /\ ready' = [e \in Edge |->
              LET p == PoolOf[e] IN
              IF ShouldDelayEdge(p)
              THEN Copies(d[p], Retrieved(p, d[p], use[p]), e)
              ELSE IF e \in Initial THEN 1 ELSE 0]
  BY DEF PrepareQueue, ScheduleInitialEdges
<1>2. \A e \in Edge : PoolOf[e] \in Pool
  BY OutsType
<1>3. /\ Initial \subseteq Edge /\ InitiallyDelayed \subseteq Edge
      /\ \A e \in InitiallyDelayed : ShouldDelayEdge(PoolOf[e])
      /\ \A e \in Initial \ InitiallyDelayed : ~ShouldDelayEdge(PoolOf[e])
  BY DEF Initial, InitiallyDelayed
<1>4. \A e \in Initial \ InitiallyDelayed : ready'[e] = 1
  BY <1>1, <1>3
<1>5. \A e \in InitiallyDelayed : e \in ToSet(delayed'[PoolOf[e]])
  BY <1>1, <1>2, <1>3
<1>6. ASSUME Unpooled
      PROVE  /\ InitiallyDelayed = {} /\ Undelayed'
             /\ \A e \in Edge \ Initial : ready'[e] = 0
  <2>1. \A e \in Edge : ~ShouldDelayEdge(PoolOf[e])
    BY <1>6 DEF Unpooled, ShouldDelayEdge
  <2>2. InitiallyDelayed = {}
    BY <1>3, <2>1
  <2>3. \A p \in Pool : ToSet(delayed'[p]) = {}
    BY <1>1, <2>2
  <2>4. ASSUME NEW p \in Pool PROVE delayed'[p] = <<>>
    <3>1. delayed'[p] \in Seq(Edge)
      BY ScheduleInitialEdgesType DEF TypeOK, PrepareQueue, PlanTypeOK, PoolsTypeOK
    <3>2. delayed'[p] # <<>> => Head(delayed'[p]) \in ToSet(delayed'[p])
      BY <3>1, ToSetParts
    <3>. QED  BY <2>3, <3>2
  <2>. QED  BY <1>1, <2>1, <2>2, <2>4 DEF Undelayed
<1>7. UNCHANGED <<runnerVars, history>> /\ pc = "prepare" /\ pc' = "loop"
  BY DEF PrepareQueue
<1>9. /\ want' = [e \in Edge |-> IF e \in Initial \ InitiallyDelayed
                                 THEN kWantToFinish ELSE want[e]]
      /\ UNCHANGED <<outputs_ready, wanted_edges, command_edges, calls>>
  BY DEF PrepareQueue, ScheduleInitialEdges
<1>. QED  BY <1>4, <1>5, <1>6, <1>7, <1>9 DEF Prepares

\* EdgeFinished after a success, in any of the three places it is called.
LEMMA FinishedCompletes ==
    ASSUME TypeOK, NEW e \in Edge, NEW q \in [Edge -> Nat], NEW rest \in Seq(Call),
           EdgeFinishedSucceeded(e, q, rest)
    PROVE  /\ want[e] # Absent /\ Refilled(q)
           /\ want' = [want EXCEPT ![e] = Absent]
           /\ outputs_ready' = outputs_ready \cup {e}
           /\ wanted_edges' = StillWanted(e)
           /\ UNCHANGED command_edges
           /\ Pending' = Each("NodeFinished", ToSet(Outs[e])) \cup ToSet(rest)
<1>1. Refilled(q)
  BY ReleasePlaceRefills DEF TypeOK, EdgeFinishedSucceeded
<1>2. CallEach("NodeFinished", Outs[e]) \in Seq(Call) /\ Outs[e] \in Seq(Node)
  BY CallEachNode, OutsType DEF NodeCall
<1>3. ToSet(calls') = ToSet(CallEach("NodeFinished", Outs[e])) \cup ToSet(rest)
  BY <1>2, ToSetParts DEF EdgeFinishedSucceeded
<1>4. Pending' = Each("NodeFinished", ToSet(Outs[e])) \cup ToSet(rest)
  BY <1>2, <1>3, ToSetCallEach DEF Pending, C, Each
<1>. QED  BY <1>1, <1>4 DEF EdgeFinishedSucceeded

\* Each call of the plan is of one of the last four kinds.
LEMMA PlanCallKinds ==
    ASSUME TypeOK, PlanCall
    PROVE  \/ \E e \in Edge : Unwants(e) \/ Schedules(e) \/ Completes(e)
           \/ \E c \in Call, S \in SUBSET Call : Shuffles(c, S)
<1>0. /\ PlanTypeOK /\ ready \in [Edge -> Nat] /\ calls \in Seq(Call)
      /\ UNCHANGED <<runnerVars, loopVars, history>>
  BY DEF TypeOK, PlanTypeOK, PlanCall
<1>1. ASSUME NEW op, NEW x, NextCall(op, x)
      PROVE  /\ Pops(C(op, x)) /\ Tail(calls) \in Seq(Call)
             /\ C(op, x) \in Call /\ Waits
  <2>1. Pops(C(op, x)) /\ Tail(calls) \in Seq(Call) /\ Pending \subseteq Call
    BY <1>1, PendingParts
  <2>. QED  BY <1>0, <1>1, <2>1 DEF NextCall, Waits, Pops
<1>2. ASSUME NEW s \in Seq(Call), NEW rest \in Seq(Call), calls' = s \o rest
      PROVE  Pending' = ToSet(s) \cup ToSet(rest)
  BY <1>2, CallsInARow DEF Pending
<1>3. ASSUME NEW rest \in Seq(Call), NEW op, NEW s,
             \/ op \in NodeCall /\ s \in Seq(Node)
             \/ op \in EdgeCall /\ s \in Seq(Edge)
      PROVE  /\ CallEach(op, s) \in Seq(Call)
             /\ ToSet(CallEach(op, s)) = Each(op, ToSet(s))
             /\ Each(op, ToSet(s)) \subseteq Call
             /\ calls' = CallEach(op, s) \o rest =>
                   Pending' = Each(op, ToSet(s)) \cup ToSet(rest)
  <2>1. CallEach(op, s) \in Seq(Call)
    BY <1>3, CallEachNode, CallEachEdge
  <2>2. ToSet(CallEach(op, s)) = Each(op, ToSet(s))
    BY <1>3, ToSetCallEach DEF C, Each
  <2>3. ToSet(CallEach(op, s)) \subseteq Call
    BY <2>1, CallsInARow
  <2>. QED  BY <1>2, <2>1, <2>2, <2>3
<1>4. /\ "CleanNode" \in NodeCall
      /\ {"EdgeMaybeReady", "CleanOutEdge", "RecomputeOutputsDirty"} \subseteq EdgeCall
      /\ \A e \in Edge : C("Unwant", e) \in Call /\ C("RecomputeOutputsDirty", e) \in Call
  BY DEF NodeCall, EdgeCall, Call, C
<1>5. ASSUME NEW n \in Node, NextCall("NodeFinished", n), NodeFinished(n, Tail(calls))
      PROVE  \E c \in Call, S \in SUBSET Call : Shuffles(c, S)
  <2>. DEFINE S == Each("EdgeMaybeReady", ToSet(OutEdges[n]))
  <2>0. calls' = CallEach("EdgeMaybeReady", OutEdges[n]) \o Tail(calls)
    BY <1>5 DEF NodeFinished
  <2>1. Pending' = S \cup Later /\ S \subseteq Call
    BY <1>1, <1>3, <1>4, <1>5, <2>0, OutsType DEF Later
  <2>2. Replaces(C("NodeFinished", n), S)
    BY DEF Replaces
  <2>3. Shuffles(C("NodeFinished", n), S)
    BY <1>1, <1>5, <2>1, <2>2 DEF Shuffles, NodeFinished
  <2>. QED  BY <1>1, <1>5, <2>1, <2>3
<1>6. ASSUME NEW n \in Node, NextCall("CleanNode", n), CleanNode(n, Tail(calls))
      PROVE  \E c \in Call, S \in SUBSET Call : Shuffles(c, S)
  <2>. DEFINE S == Each("CleanOutEdge", ToSet(OutEdges[n]))
  <2>0. calls' = CallEach("CleanOutEdge", OutEdges[n]) \o Tail(calls)
    BY <1>6 DEF CleanNode
  <2>1. Pending' = S \cup Later /\ S \subseteq Call
    BY <1>1, <1>3, <1>4, <1>6, <2>0, OutsType DEF Later
  <2>2. Replaces(C("CleanNode", n), S)
    BY DEF Replaces
  <2>3. Shuffles(C("CleanNode", n), S)
    BY <1>1, <1>6, <2>1, <2>2 DEF Shuffles, CleanNode
  <2>. QED  BY <1>1, <1>6, <2>1, <2>3
<1>7. ASSUME NEW e \in Edge, NextCall("CleanOutEdge", e), CleanOutEdge(e, Tail(calls))
      PROVE  \E c \in Call, S \in SUBSET Call : Shuffles(c, S)
  <2>. DEFINE each == [i \in 1..Len(Ins[e]) |-> e]
              S == {C("RecomputeOutputsDirty", e)}
  <2>0. UNCHANGED <<delayed, want, ready, outputs_ready, wanted_edges, command_edges>>
    BY <1>7 DEF CleanOutEdge
  <2>1. each \in Seq(Edge) /\ ToSet(each) \subseteq {e}
    BY OutsType, LenProperties DEF ToSet
  <2>2. CASE calls' = Tail(calls)
    <3>1. Replaces(C("CleanOutEdge", e), {})
      BY DEF Replaces
    <3>2. Shuffles(C("CleanOutEdge", e), {})
      BY <1>1, <1>7, <2>0, <2>2, <3>1 DEF Shuffles, Pending, Later
    <3>. QED  BY <1>1, <1>7, <3>2
  <2>3. CASE /\ want[e] # Absent /\ ToSet(Ins[e]) # {}
             /\ calls' = CallEach("RecomputeOutputsDirty", each) \o Tail(calls)
    <3>1. ToSet(each) = {e}
      BY <2>3, OutsType, LenProperties DEF ToSet
    <3>2. Pending' = Each("RecomputeOutputsDirty", ToSet(each)) \cup Later
      BY <1>1, <1>3, <1>4, <1>7, <2>1, <2>3 DEF Later
    <3>3. Pending' = S \cup Later /\ S \in SUBSET Call
      BY <1>4, <3>1, <3>2 DEF Each
    <3>4. Replaces(C("CleanOutEdge", e), S)
      BY <2>3 DEF Replaces
    <3>5. Shuffles(C("CleanOutEdge", e), S)
      BY <1>1, <1>7, <2>0, <3>3, <3>4 DEF Shuffles
    <3>. QED  BY <1>1, <1>7, <3>3, <3>5
  <2>. QED  BY <1>7, <2>2, <2>3 DEF CleanOutEdge
<1>8. ASSUME NEW e \in Edge, NextCall("RecomputeOutputsDirty", e),
             RecomputeOutputsDirty(e, Tail(calls))
      PROVE  \E c \in Call, S \in SUBSET Call : Shuffles(c, S)
  <2>. DEFINE clean == CallEach("CleanNode", Outs[e])
              S == Each("CleanNode", ToSet(Outs[e])) \cup {C("Unwant", e)}
  <2>0. UNCHANGED <<delayed, want, ready, outputs_ready, wanted_edges, command_edges>>
    BY <1>8 DEF RecomputeOutputsDirty
  <2>1. CASE calls' = Tail(calls)
    <3>1. Replaces(C("RecomputeOutputsDirty", e), {})
      BY DEF Replaces
    <3>2. Shuffles(C("RecomputeOutputsDirty", e), {})
      BY <1>1, <1>8, <2>0, <2>1, <3>1 DEF Shuffles, Pending, Later
    <3>. QED  BY <1>1, <1>8, <3>2
  <2>2. CASE calls' = clean \o <<C("Unwant", e)>> \o Tail(calls)
    <3>1. clean \in Seq(Call) /\ ToSet(clean) = Each("CleanNode", ToSet(Outs[e]))
      BY <1>1, <1>3, <1>4, <1>8, OutsType
    <3>2. <<C("Unwant", e)>> \in Seq(Call) /\ ToSet(<<C("Unwant", e)>>) = {C("Unwant", e)}
      BY <1>4 DEF ToSet
    <3>3. /\ clean \o <<C("Unwant", e)>> \in Seq(Call)
          /\ ToSet(clean \o <<C("Unwant", e)>>) = S
          /\ ToSet(clean \o <<C("Unwant", e)>>) \subseteq Call
      BY <3>1, <3>2, CallsInARow
    <3>4. Pending' = S \cup Later /\ S \subseteq Call
      <4>1. Pending' = ToSet(clean \o <<C("Unwant", e)>>) \cup ToSet(Tail(calls))
        BY <1>1, <1>2, <1>8, <2>2, <3>3
      <4>. QED  BY <3>3, <4>1 DEF Later
    <3>5. Replaces(C("RecomputeOutputsDirty", e), S)
      BY DEF Replaces
    <3>6. Shuffles(C("RecomputeOutputsDirty", e), S)
      BY <1>1, <1>8, <2>0, <3>4, <3>5 DEF Shuffles
    <3>. QED  BY <1>1, <1>8, <3>4, <3>6
  <2>. QED  BY <1>8, <2>1, <2>2 DEF RecomputeOutputsDirty, C
<1>9. ASSUME NEW e \in Edge, NextCall("Unwant", e), Unwant(e, Tail(calls))
      PROVE  Unwants(e)
  BY <1>1, <1>9 DEF Unwants, Unwant, Pending, Later
<1>10. ASSUME NEW e \in Edge, NextCall("EdgeFinished", e),
              EdgeFinishedSucceeded(e, ready, Tail(calls))
       PROVE  Completes(e)
  BY <1>0, <1>1, <1>10, FinishedCompletes DEF Completes, Later
<1>11. ASSUME NEW e \in Edge, NextCall("EdgeMaybeReady", e), EdgeMaybeReady(e, Tail(calls))
       PROVE  \/ Schedules(e) \/ Completes(e)
              \/ \E c \in Call, S \in SUBSET Call : Shuffles(c, S)
  <2>1. CASE want[e] = Absent \/ ~AllInputsReady(e)
    <3>1. Replaces(C("EdgeMaybeReady", e), {})
      BY <2>1 DEF Replaces, AllInputsReady
    <3>2. Shuffles(C("EdgeMaybeReady", e), {})
      BY <1>1, <1>11, <2>1, <3>1 DEF Shuffles, EdgeMaybeReady, Pending, Later
    <3>. QED  BY <1>1, <1>11, <3>2
  <2>2. CASE AllInputsReady(e) /\ want[e] = kWantNothing
    <3>1. EdgeFinishedSucceeded(e, ready, Tail(calls))
      BY <1>11, <2>2 DEF EdgeMaybeReady, kWantNothing, Absent
    <3>. QED  BY <1>0, <1>1, <1>11, <2>2, <3>1, FinishedCompletes
              DEF Completes, Later, AllInputsReady
  <2>3. CASE AllInputsReady(e) /\ want[e] \notin {Absent, kWantNothing}
    <3>1. ScheduleWork(e, Tail(calls))
      BY <1>11, <2>3 DEF EdgeMaybeReady
    <3>2. CASE want[e] = kWantToFinish
      <4>1. Replaces(C("EdgeMaybeReady", e), {})
        BY <3>2 DEF Replaces
      <4>2. Shuffles(C("EdgeMaybeReady", e), {})
        BY <1>1, <1>11, <3>1, <3>2, <4>1
        DEF Shuffles, ScheduleWork, Pending, Later, kWantToFinish, kWantToStart
      <4>. QED  BY <1>1, <1>11, <4>2
    <3>3. CASE want[e] = kWantToStart
      <4>1. Pending' = Later /\ UNCHANGED <<outputs_ready, wanted_edges, command_edges>>
        BY <3>1 DEF ScheduleWork, Pending, Later
      <4>. QED  BY <1>0, <1>1, <1>11, <2>3, <3>1, <3>3, <4>1, ScheduleWorkQueues
                DEF Schedules, AllInputsReady
    <3>. QED  BY <3>1, <3>2, <3>3 DEF ScheduleWork
  <2>. QED  BY <2>1, <2>2, <2>3
<1>. QED
  BY <1>5, <1>6, <1>7, <1>8, <1>9, <1>10, <1>11 DEF PlanCall

\* Some step of the kinds above.
Kinds ==
    \/ Still \/ Quits \/ Prepares
    \/ \E e \in Edge : \/ Starts(e) \/ Succeeds(e) \/ Fails(e)
                       \/ Unwants(e) \/ Schedules(e) \/ Completes(e)
    \/ \E c \in Call, S \in SUBSET Call : Shuffles(c, S)

\* FinishCommand pushes its calls on the empty stack.
LEMMA FinishCommandKinds ==
    ASSUME TypeOK, NEW e \in Edge
    PROVE  /\ FinishCommandSucceeds(e) => Succeeds(e)
           /\ FinishCommandFails(e) => Fails(e)
<1>0. PlanTypeOK /\ RunnerTypeOK /\ ready \in [Edge -> Nat]
  BY DEF TypeOK, PlanTypeOK
<1>1. Reaped(e) => Reaps(e)
  <2>1. Reaped(e) => /\ pc = "reap" /\ pc' = "loop" /\ calls = <<>> /\ Pending = {}
                     /\ ReapHead /\ e = Head(running).edge /\ UNCHANGED unstarted
    BY PendingParts DEF Reaped, AtLoop, ReapHead
  <2>2. Reaped(e) => InUse' = InUse - 1
    <3>1. /\ Len(running) \in Nat /\ unstarted \in Nat
          /\ ReapHead => Len(running') = Len(running) - 1 /\ unstarted' = unstarted
      BY <1>0, InUseSteps
    <3>. QED  BY <2>1, <3>1 DEF InUse
  <2>. QED  BY <1>0, <2>1, <2>2, InHandSteps, DistinctSteps DEF Reaps
<1>2. ASSUME FinishCommandSucceeds(e) PROVE Succeeds(e)
  <2>. DEFINE restat == CallEach("RestatOutput", Outs[e])
              end == <<C("EdgeFinished", e), C("RecordCommand", e)>>
  <2>1. restat \in Seq(Call) /\ ToSet(restat) = Each("RestatOutput", ToSet(Outs[e]))
    BY CallEachNode, ToSetCallEach, OutsType DEF NodeCall, C, Each
  <2>2. end \in Seq(Call) /\ ToSet(end) = {C("EdgeFinished", e), C("RecordCommand", e)}
    <3>1. C("EdgeFinished", e) \in Call /\ C("RecordCommand", e) \in Call
      BY DEF C, Call, EdgeCall
    <3>. QED  BY <3>1 DEF ToSet
  <2>3. calls' = restat \o end
    BY <1>2 DEF FinishCommandSucceeds, C
  <2>4. Pending' = Each("RestatOutput", ToSet(Outs[e]))
                   \cup {C("EdgeFinished", e), C("RecordCommand", e)}
    BY <2>1, <2>2, <2>3, CallsInARow DEF Pending
  <2>. QED  BY <1>1, <1>2, <2>4 DEF FinishCommandSucceeds, Succeeds
<1>3. ASSUME FinishCommandFails(e) PROVE Fails(e)
  <2>1. Refilled(ready)
    BY <1>0, <1>3, ReleasePlaceRefills DEF FinishCommandFails, EdgeFinishedFailed
  <2>. QED  BY <1>1, <1>3, <2>1 DEF FinishCommandFails, EdgeFinishedFailed, Fails
<1>. QED  BY <1>2, <1>3

\* The steps that pop one of FinishCommand's calls.
LEMMA FinishCallKinds ==
    ASSUME TypeOK,
           (\E e \in Edge : RecordCommand(e)) \/ (\E n \in Node : RestatOutput(n))
    PROVE  \E c \in Call, S \in SUBSET Call : Shuffles(c, S)
<1>1. ASSUME NEW e \in Edge, RecordCommand(e)
      PROVE  C("RecordCommand", e) \in Call /\ Shuffles(C("RecordCommand", e), {})
  <2>1. Pops(C("RecordCommand", e)) /\ C("RecordCommand", e) \in Call
    BY <1>1, PendingParts DEF RecordCommand, Pops
  <2>2. Pending' = Later
    BY <1>1 DEF RecordCommand, Pending, Later
  <2>3. Replaces(C("RecordCommand", e), {})
    BY DEF Replaces
  <2>. QED  BY <1>1, <2>1, <2>2, <2>3 DEF RecordCommand, Shuffles, Waits, NextCall
<1>2. ASSUME NEW n \in Node, RestatOutput(n)
      PROVE  \E c \in Call, S \in SUBSET Call : Shuffles(c, S)
  <2>1. /\ Pops(C("RestatOutput", n)) /\ C("RestatOutput", n) \in Call
        /\ Tail(calls) \in Seq(Call) /\ C("CleanNode", n) \in Call
    <3>1. Pops(C("RestatOutput", n)) /\ Tail(calls) \in Seq(Call)
      BY <1>2, PendingParts DEF RestatOutput
    <3>. QED  BY <3>1 DEF C, Call, NodeCall
  <2>2. /\ UNCHANGED <<delayed, want, ready, outputs_ready, wanted_edges, command_edges>>
        /\ Waits
    BY <1>2 DEF RestatOutput, Waits, NextCall
  <2>3. CASE calls' = Tail(calls)
    <3>1. Replaces(C("RestatOutput", n), {})
      BY DEF Replaces
    <3>2. Shuffles(C("RestatOutput", n), {})
      BY <2>1, <2>2, <2>3, <3>1 DEF Shuffles, Pending, Later
    <3>. QED  BY <2>1, <3>2
  <2>4. CASE ~NoRestat /\ calls' = <<C("CleanNode", n)>> \o Tail(calls)
    <3>1. <<C("CleanNode", n)>> \in Seq(Call) /\ ToSet(<<C("CleanNode", n)>>) = {C("CleanNode", n)}
      BY <2>1 DEF ToSet
    <3>2. Pending' = {C("CleanNode", n)} \cup Later
      BY <2>1, <2>4, <3>1, CallsInARow DEF Pending, Later
    <3>3. Replaces(C("RestatOutput", n), {C("CleanNode", n)})
      BY <2>4 DEF Replaces
    <3>4. Shuffles(C("RestatOutput", n), {C("CleanNode", n)})
      BY <2>1, <2>2, <3>2, <3>3 DEF Shuffles
    <3>. QED  BY <2>1, <3>4
  <2>. QED  BY <1>2, <2>3, <2>4 DEF RestatOutput, C, NoRestat
<1>. QED  BY <1>1, <1>2

\* The loop's own places are no outcomes; the ways to end are.
LEMMA OutcomeNames ==
    /\ "prepare" \notin Outcome /\ "loop" \notin Outcome
    /\ "start" \notin Outcome /\ "reap" \notin Outcome
    /\ "fatal" \in Outcome /\ "panic" \in Outcome
    /\ "succeeded" \in Outcome /\ "stuck" \in Outcome
<1>1. "prepare" \notin Outcome /\ "loop" \notin Outcome
  BY Zenon DEF Outcome
<1>2. "start" \notin Outcome /\ "reap" \notin Outcome
  BY Zenon DEF Outcome
<1>3. "fatal" \in Outcome /\ "panic" \in Outcome
  BY Zenon DEF Outcome
<1>4. "succeeded" \in Outcome /\ "stuck" \in Outcome
  BY Zenon DEF Outcome
<1>. QED  BY <1>1, <1>2, <1>3, <1>4

\* Where the steps that may end the loop lead, and what they leave alone.
LEMMA LoopSteps ==
    /\ LoopTop \/ StartDone \/ NoProgress =>
          /\ pc \notin Outcome /\ pc # "prepare" /\ pc' # "prepare"
          /\ pc' = "succeeded" => ~more_to_do
          /\ UNCHANGED <<planVars, runnerVars, history>>
    /\ LoadUnknown \/ WaitFails \/ (\E e \in Edge : FinishUnplanned(e)) =>
          \E o \in Outcome \ {"succeeded", "stuck"} : Die(o)
    /\ FinishCommandAborts \/ (\E e \in Edge : StartEdgeFails(e)) =>
          \E o \in Outcome \ {"succeeded", "stuck"} : CleanupAndStop(o)
<1>1. ASSUME NoProgress PROVE pc = "reap" /\ pc' # "prepare" /\ pc' # "succeeded"
  <2>1. pc = "reap"
    BY <1>1, Zenon DEF NoProgress, AtLoop
  <2>2. pc' # "prepare" /\ pc' # "succeeded"
    BY <1>1, Zenon DEF NoProgress
  <2>. QED  BY <2>1, <2>2
<1>2. NoProgress => UNCHANGED <<planVars, runnerVars, history>>
  BY Zenon DEF NoProgress
<1>3. LoopTop \/ StartDone =>
        /\ pc \notin Outcome /\ pc # "prepare" /\ pc' # "prepare"
        /\ pc' = "succeeded" => ~more_to_do
        /\ UNCHANGED <<planVars, runnerVars, history>>
  BY OutcomeNames DEF LoopTop, StartDone, AtLoop
<1>4. LoadUnknown \/ WaitFails \/ (\E e \in Edge : FinishUnplanned(e)) =>
        \E o \in Outcome \ {"succeeded", "stuck"} : Die(o)
  BY OutcomeNames DEF LoadUnknown, WaitFails, FinishUnplanned
<1>5. {"start error", "finish error"} \subseteq Outcome \ {"succeeded", "stuck"}
  BY Zenon DEF Outcome
<1>6. FinishCommandAborts \/ (\E e \in Edge : StartEdgeFails(e)) =>
        \E o \in Outcome \ {"succeeded", "stuck"} : CleanupAndStop(o)
  BY <1>5, Zenon DEF StartEdgeFails, FinishCommandAborts
<1>. QED  BY <1>1, <1>2, <1>3, <1>4, <1>6, OutcomeNames

\* Every step of the builder is of one of the kinds.
LEMMA NextKinds ==
    ASSUME TypeOK, [Next]_vars
    PROVE  Kinds
<1>0. /\ PlanTypeOK /\ RunnerTypeOK /\ ready \in [Edge -> Nat] /\ calls \in Seq(Call)
      /\ "prepare" \notin Outcome
  BY OutcomeNames DEF TypeOK, PlanTypeOK
<1>1. ASSUME UNCHANGED runnerVars PROVE UNCHANGED <<unstarted, InUse, InHand>> /\ (Distinct => Distinct')
  BY <1>0, <1>1, DistinctSteps DEF InHand, InUse, runnerVars
<1>2. CASE LoopTop \/ StartDone \/ NoProgress
  BY <1>1, <1>2, LoopSteps DEF Still, Kinds
<1>3. ASSUME NEW o \in Outcome \ {"succeeded", "stuck"}, Die(o) PROVE Still
  <2>1. UNCHANGED <<planVars, runnerVars, history>> /\ pc' = o
    BY <1>3 DEF Die
  <2>. QED  BY <1>0, <1>1, <2>1 DEF Still
<1>4. ASSUME NEW o \in Outcome \ {"succeeded", "stuck"}, CleanupAndStop(o),
             UNCHANGED <<delayed, want, outputs_ready, wanted_edges, command_edges, calls>>,
             ready' = ready \/ \E e \in Edge : CanStart(e) /\ ready' = Polled(e)
      PROVE  Quits
  <2>1. \A e \in Edge : ready'[e] <= ready[e]
    BY <1>0, <1>4 DEF Polled, CanStart, FindWork
  <2>2. InHand' = {} /\ Distinct' /\ UNCHANGED <<history, unstarted>> /\ pc' = o
    BY <1>0, <1>4, InHandSteps, DistinctSteps DEF CleanupAndStop, Abort
  <2>. QED  BY <1>4, <2>1, <2>2 DEF Quits
<1>5. CASE PrepareQueue
  BY <1>5, PrepareQueuePrepares DEF Kinds
<1>6. ASSUME NEW e \in Edge, StartPhony(e) PROVE Completes(e)
  <2>1. /\ pc = "start" /\ e \in Phony /\ ready[e] > 0 /\ Pending = {}
        /\ Polled(e) \in [Edge -> Nat] /\ <<>> \in Seq(Call)
    BY <1>0, <1>6, PolledType, PendingParts DEF StartPhony, CanStart, AtLoop, FindWork
  <2>2. /\ want[e] # Absent /\ Refilled(Polled(e))
        /\ want' = [want EXCEPT ![e] = Absent]
        /\ outputs_ready' = outputs_ready \cup {e}
        /\ wanted_edges' = StillWanted(e)
        /\ UNCHANGED command_edges
        /\ Pending' = Each("NodeFinished", ToSet(Outs[e])) \cup ToSet(<<>>)
    BY <1>6, <2>1, FinishedCompletes DEF StartPhony
  <2>3. ToSet(<<>>) = {}
    BY DEF ToSet
  <2>4. Waits
    BY <1>6, <2>1, OutcomeNames DEF StartPhony, Waits
  <2>. QED  BY <2>1, <2>2, <2>3, <2>4 DEF Completes
<1>7. ASSUME NEW e \in Edge, StartEdge(e) PROVE Starts(e)
  <2>1. /\ pc = "start" /\ calls = <<>> /\ ready[e] > 0 /\ e \notin Phony /\ capacity > 0
        /\ pc' \in {"start", "fatal"} /\ (StartCommand(e) \/ StartCommandFails)
    BY <1>7 DEF StartEdge, CanStart, AtLoop, FindWork
  <2>2. \/ InHand' = InHand \cup {e} /\ UNCHANGED unstarted
        \/ UNCHANGED InHand /\ unstarted' = unstarted + 1
    BY <1>0, <2>1, InHandSteps DEF StartCommand, StartCommandFails
  <2>3. Distinct /\ e \notin InHand => Distinct'
    BY <1>0, <2>1, DistinctSteps DEF StartCommandFails
  <2>4. InUse' = InUse + 1
    BY <1>0, <2>1, InUseSteps DEF InUse
  <2>. QED  BY <1>7, <2>1, <2>2, <2>3, <2>4 DEF StartEdge, Starts
<1>8. ASSUME NEW e \in Edge, StartEdgeFails(e) PROVE Quits
  <2>1. /\ CanStart(e) /\ ready' = Polled(e)
        /\ UNCHANGED <<delayed, want, outputs_ready, wanted_edges, command_edges, calls>>
    BY <1>8, Zenon DEF StartEdgeFails
  <2>. QED  BY <1>4, <1>8, <2>1, LoopSteps
<1>10. CASE FinishCommandAborts
  <2>1. UNCHANGED planVars
    BY <1>10, Zenon DEF FinishCommandAborts
  <2>2. Quits
    BY <1>4, <1>10, <2>1, LoopSteps DEF planVars
  <2>. QED  BY <2>2 DEF Kinds
<1>11. CASE ChildExit
  <2>1. UNCHANGED <<planVars, loopVars, history>>
    BY <1>11 DEF ChildExit
  <2>2. UNCHANGED <<unstarted, InUse, InHand>> /\ (Distinct => Distinct')
    BY <1>0, <1>11, InHandSteps, DistinctSteps, InUseSteps DEF ChildExit, ChildExits, InUse
  <2>. QED  BY <2>1, <2>2 DEF Still, Kinds, loopVars
<1>12. CASE UNCHANGED vars
  BY <1>1, <1>12 DEF vars, Still, Kinds, loopVars
<1>13. CASE PlanCall
  BY <1>13, PlanCallKinds DEF Kinds
<1>14. ASSUME (\E e \in Edge : RecordCommand(e)) \/ (\E n \in Node : RestatOutput(n))
       PROVE  Kinds
  BY <1>14, FinishCallKinds DEF Kinds
<1>15. ASSUME LoadUnknown \/ WaitFails \/ \E e \in Edge : FinishUnplanned(e)
       PROVE  Still
  BY <1>3, <1>15, LoopSteps
<1>16. ASSUME NEW e \in Edge, StartPhony(e) \/ StartEdge(e) \/ StartEdgeFails(e)
                              \/ FinishCommandSucceeds(e) \/ FinishCommandFails(e)
       PROVE  Kinds
  BY <1>6, <1>7, <1>8, <1>16, FinishCommandKinds DEF Kinds
<1>. QED
  BY <1>2, <1>5, <1>10, <1>11, <1>12, <1>13, <1>14, <1>15, <1>16
  DEF Next, BuildStep, Ended, Kinds

-----------------------------------------------------------------------------
(***************************************************************************)
(* No edge is lost.  NothingLost speaks of the head of the loop only; in   *)
(* between, an edge is kept by a pending call that will offer it again.    *)
(***************************************************************************)

\* Some pending call will look at the edge e again.
Offered(e) ==
    \/ C("EdgeMaybeReady", e) \in Pending
    \/ \E n \in Node : e \in ToSet(OutEdges[n]) /\ C("NodeFinished", n) \in Pending

\* The edge waits for a place in its pool.
Delayed(e) == \E p \in Pool : e \in ToSet(delayed[p])

\* A command that could not be started, or the build's end, is fatal to the rest.
Stalled == unstarted > 0 \/ pc \in Outcome

\* A queued edge is somewhere, and one that could be queued will be offered.
KeptInv ==
    /\ \A e \in Edge : want[e] = kWantToFinish => Scheduled(e) \/ e \in failed \/ Stalled
    /\ \A e \in Edge : want[e] = kWantToStart /\ DependsOn[e] \subseteq outputs_ready =>
           pc = "prepare" \/ Stalled \/ Offered(e) \/ Delayed(e)
    /\ pc = "prepare" => Pending = {} /\ \A e \in Edge : want[e] # kWantToFinish

\* Scheduled, said of the sets, before and after a step.
LEMMA ScheduledParts ==
    \A e : /\ Scheduled(e) <=> \/ ready[e] > 0 \/ Delayed(e) \/ e \in InHand
                               \/ C("EdgeFinished", e) \in Pending
           /\ Scheduled(e)' <=> \/ ready'[e] > 0 \/ Delayed(e)' \/ e \in InHand'
                                \/ C("EdgeFinished", e) \in Pending'
<1>1. \A e : (Executing(e) <=> e \in InHand) /\ (Executing(e)' <=> e \in InHand')
  BY DEF Executing, InHand
<1>2. \A e : /\ Finishing(e) <=> C("EdgeFinished", e) \in Pending
             /\ Finishing(e)' <=> C("EdgeFinished", e) \in Pending'
  BY DEF Finishing, Pending, C, ToSet
<1>. QED  BY <1>1, <1>2 DEF Scheduled, Delayed

\* Calls of different operations, or with different arguments, differ.
LEMMA CallsDiffer ==
    /\ \A op1, op2, x, y : C(op1, x) = C(op2, y) <=> op1 = op2 /\ x = y
    /\ \A op1, op2, x, X : C(op1, x) \in Each(op2, X) <=> op1 = op2 /\ x \in X
<1>1. \A op1, op2, x, y : C(op1, x) = C(op2, y) <=> op1 = op2 /\ x = y
  BY DEF C
<1>2. \A op1, op2, x, X : C(op1, x) \in Each(op2, X) <=> op1 = op2 /\ x \in X
  BY <1>1 DEF Each
<1>. QED  BY <1>1, <1>2

\* A stalled build stays stalled.
LEMMA StaysStalled ==
    ASSUME TypeOK, Kinds, Stalled
    PROVE  Stalled'
<1>0. unstarted \in Nat
  BY DEF TypeOK, RunnerTypeOK
<1>1. CASE Still \/ Quits
  BY <1>1 DEF Still, Quits, Stalled
<1>2. CASE Prepares
  BY <1>2, OutcomeNames DEF Prepares, Stalled, runnerVars
<1>3. ASSUME NEW e \in Edge, Starts(e) PROVE Stalled'
  BY <1>0, <1>3, OutcomeNames DEF Starts, Stalled
<1>4. ASSUME NEW e \in Edge, Succeeds(e) \/ Fails(e) PROVE Stalled'
  BY <1>4, OutcomeNames DEF Succeeds, Fails, Reaps, Stalled
<1>5. Waits => Stalled'
  BY DEF Waits, Stalled, runnerVars, loopVars
<1>. QED
  BY <1>1, <1>2, <1>3, <1>4, <1>5 DEF Kinds, Unwants, Schedules, Completes, Shuffles

\* The initial plan has nothing under way.
LEMMA InitKept == Init => KeptInv
<1>1. SUFFICES ASSUME Init PROVE KeptInv
  OBVIOUS
<1>2. pc = "prepare" /\ calls = <<>> /\ \A e \in Edge : want[e] # kWantToFinish
  BY <1>1 DEF Init, PlanInit, Absent, kWantToStart, kWantNothing, kWantToFinish
<1>3. Pending = {}
  BY <1>2 DEF Pending, ToSet
<1>. QED  BY <1>2, <1>3 DEF KeptInv

\* Steps of the loop itself keep every edge.
LEMMA LoopKeeps ==
    ASSUME TypeOK, TypeOK', KeptInv,
           \/ Still \/ Quits \/ Prepares
           \/ \E e \in Edge : Starts(e) \/ Succeeds(e) \/ Fails(e)
    PROVE  KeptInv'
<1>0. Kinds /\ (Stalled => Stalled') /\ ready \in [Edge -> Nat] /\ ready' \in [Edge -> Nat]
  BY StaysStalled DEF Kinds, TypeOK, PlanTypeOK
<1>1. CASE Still
  <2>1. Pending' = Pending /\ UNCHANGED <<want, outputs_ready, ready, delayed, failed, InHand>>
    BY <1>1 DEF Still, planVars, history, Pending
  <2>2. \A e \in Edge : (Offered(e) => Offered(e)') /\ (Delayed(e) => Delayed(e)')
    BY <2>1 DEF Offered, Delayed
  <2>3. \A e \in Edge : Scheduled(e) => Scheduled(e)'
    BY <2>1, <2>2, ScheduledParts
  <2>4. pc = "prepare" => pc' = "prepare" \/ Stalled'
    BY <1>1 DEF Still, Stalled
  <2>. QED  BY <1>0, <1>1, <2>1, <2>2, <2>3, <2>4 DEF KeptInv, Still
<1>2. CASE Quits
  BY <1>2, OutcomeNames DEF Quits, KeptInv, Stalled
<1>3. CASE Prepares
  <2>1. \A e \in Edge : want'[e] = kWantToFinish => ready'[e] > 0
    BY <1>3 DEF Prepares, KeptInv
  <2>2. ASSUME NEW e \in Edge, want'[e] = kWantToStart, DependsOn[e] \subseteq outputs_ready'
        PROVE  Delayed(e)'
    <3>1. e \in InitiallyDelayed
      BY <1>3, <2>2 DEF Prepares, Initial, AllInputsReady, kWantToStart, kWantToFinish
    <3>2. PoolOf[e] \in Pool
      BY OutsType
    <3>. QED  BY <1>3, <3>1, <3>2 DEF Prepares, Delayed
  <2>3. pc' # "prepare"
    BY <1>3 DEF Prepares
  <2>. QED  BY <2>1, <2>2, <2>3 DEF KeptInv, Scheduled
<1>4. ASSUME NEW x \in Edge, Starts(x) PROVE KeptInv'
  <2>1. /\ Pending' = Pending /\ UNCHANGED <<want, outputs_ready, delayed, failed>>
        /\ pc # "prepare" /\ pc' # "prepare"
    BY <1>4 DEF Starts, Pending
  <2>2. \A e \in Edge : (Offered(e) => Offered(e)') /\ (Delayed(e) => Delayed(e)')
    BY <2>1 DEF Offered, Delayed
  <2>3. \A e \in Edge : e # x => ready'[e] = ready[e]
    BY <1>4 DEF Starts, Polled, TypeOK, PlanTypeOK
  <2>4. \A e \in Edge : e \in InHand => e \in InHand'
    BY <1>4 DEF Starts
  <2>5. x \in InHand' \/ Stalled'
    BY <1>4 DEF Starts, Stalled, TypeOK, RunnerTypeOK
  <2>6. \A e \in Edge : Scheduled(e) => Scheduled(e)' \/ Stalled'
    BY <2>1, <2>2, <2>3, <2>4, <2>5, ScheduledParts
  <2>. QED  BY <1>0, <2>1, <2>2, <2>6 DEF KeptInv
<1>5. ASSUME NEW x \in Edge, Succeeds(x) \/ Fails(x) PROVE KeptInv'
  <2>1. /\ UNCHANGED <<want, outputs_ready, delayed>> /\ Pending = {}
        /\ pc # "prepare" /\ pc' # "prepare" /\ InHand = {x} \cup InHand'
        /\ \A e \in Edge : ready'[e] >= ready[e]
    BY <1>5 DEF Succeeds, Fails, Reaps, Refilled, TypeOK, PlanTypeOK
  <2>2. C("EdgeFinished", x) \in Pending' \/ x \in failed'
    BY <1>5 DEF Succeeds, Fails
  <2>3. failed \subseteq failed'
    BY <1>5 DEF Succeeds, Fails
  <2>4. \A e \in Edge : ~Offered(e) /\ (Delayed(e) => Delayed(e)')
    BY <2>1 DEF Offered, Delayed
  <2>5. \A e \in Edge : ready[e] > 0 => ready'[e] > 0
    BY <1>0, <2>1
  <2>6. \A e \in Edge : Scheduled(e) => Scheduled(e)' \/ e \in failed'
    BY <2>1, <2>2, <2>4, <2>5, ScheduledParts
  <2>. QED  BY <1>0, <2>1, <2>3, <2>4, <2>6 DEF KeptInv
<1>. QED  BY <1>1, <1>2, <1>3, <1>4, <1>5

\* A call that has offered an edge is followed by one that still does, until the edge
\* itself is looked at; and finishing an edge offers all that depend on it.
LEMMA OfferedNext ==
    ASSUME NEW e \in Edge
    PROVE  /\ \A x \in Edge : Unwants(x) /\ Offered(e) => Offered(e)'
           /\ \A x \in Edge : Schedules(x) /\ e # x /\ Offered(e) => Offered(e)'
           /\ \A x \in Edge : Completes(x) =>
                 /\ e # x /\ Offered(e) => Offered(e)'
                 /\ x \in DependsOn[e] => Offered(e)'
           /\ \A c \in Call, S \in SUBSET Call : Shuffles(c, S) /\ Offered(e) =>
                 Offered(e)' \/ c = C("EdgeMaybeReady", e)
<1>1. ASSUME NEW x \in Edge, Unwants(x), Offered(e) PROVE Offered(e)'
  BY <1>1, CallsDiffer DEF Unwants, Pops, Offered
<1>2. ASSUME NEW x \in Edge, Schedules(x), e # x, Offered(e) PROVE Offered(e)'
  BY <1>2, CallsDiffer DEF Schedules, Pops, Offered
<1>3. ASSUME NEW x \in Edge, Completes(x), e # x, Offered(e) PROVE Offered(e)'
  <2>1. \A c \in Pending : c \in Pending' \/ c = C("EdgeFinished", x) \/ c = C("EdgeMaybeReady", x)
    BY <1>3 DEF Completes, Pops
  <2>. QED  BY <1>3, <2>1, CallsDiffer DEF Offered
<1>4. ASSUME NEW x \in Edge, Completes(x), x \in DependsOn[e] PROVE Offered(e)'
  <2>1. PICK n \in ToSet(Outs[x]) : n \in Inputs(e)
    BY <1>4 DEF DependsOn
  <2>2. n \in Node /\ e \in ToSet(OutEdges[n])
    BY <2>1, GraphAssumption, OutsType, ToSetParts
  <2>3. C("NodeFinished", n) \in Pending'
    BY <1>4, <2>1, CallsDiffer DEF Completes
  <2>. QED  BY <2>2, <2>3 DEF Offered
<1>5. ASSUME NEW c \in Call, NEW S \in SUBSET Call, Shuffles(c, S), Offered(e),
             c # C("EdgeMaybeReady", e)
      PROVE  Offered(e)'
  <2>1. Pending = {c} \cup Later /\ Pending' = S \cup Later /\ Replaces(c, S)
    BY <1>5 DEF Shuffles, Pops
  <2>2. ASSUME NEW n \in Node, c = C("NodeFinished", n), e \in ToSet(OutEdges[n])
        PROVE  C("EdgeMaybeReady", e) \in S
    BY <2>1, <2>2, CallsDiffer DEF Replaces
  <2>. QED  BY <1>5, <2>1, <2>2 DEF Offered
<1>. QED  BY <1>1, <1>2, <1>3, <1>4, <1>5

\* Calls of the plan keep every edge: what they drop they have offered, queued or
\* delayed.
LEMMA CallsKeep ==
    ASSUME TypeOK, TypeOK', KeptInv, Kinds,
           \/ \E e \in Edge : Unwants(e) \/ Schedules(e) \/ Completes(e)
           \/ \E c \in Call, S \in SUBSET Call : Shuffles(c, S)
    PROVE  KeptInv'
<1>0. /\ UNCHANGED <<failed, pc, InHand>> /\ (Stalled => Stalled')
      /\ want \in [Edge -> {Absent, kWantNothing, kWantToStart, kWantToFinish}]
      /\ ready \in [Edge -> Nat] /\ ready' \in [Edge -> Nat]
  <2>1. Waits
    BY DEF Unwants, Schedules, Completes, Shuffles
  <2>. QED  BY <2>1, StaysStalled
            DEF Waits, runnerVars, loopVars, history, InHand, TypeOK, PlanTypeOK
<1>1. ASSUME NEW x \in Edge, Unwants(x) PROVE KeptInv'
  <2>1. /\ Pending = {C("Unwant", x)} \cup Pending' /\ UNCHANGED <<ready, delayed, outputs_ready>>
        /\ want' = [want EXCEPT ![x] = kWantNothing] /\ pc # "prepare"
    BY <1>1 DEF Unwants, Pops, KeptInv
  <2>2. \A e \in Edge : (Offered(e) => Offered(e)') /\ (Delayed(e) => Delayed(e)')
    BY <1>1, <2>1, OfferedNext DEF Delayed
  <2>3. \A e \in Edge : Scheduled(e) => Scheduled(e)'
    BY <1>0, <2>1, <2>2, CallsDiffer, ScheduledParts
  <2>. QED  BY <1>0, <2>1, <2>2, <2>3
            DEF KeptInv, kWantNothing, kWantToStart, kWantToFinish
<1>2. ASSUME NEW x \in Edge, Schedules(x) PROVE KeptInv'
  <2>1. /\ Pending = {C("EdgeMaybeReady", x)} \cup Pending' /\ UNCHANGED outputs_ready
        /\ want' = [want EXCEPT ![x] = kWantToFinish] /\ pc # "prepare"
        /\ \A e \in Edge : ready'[e] >= ready[e]
        /\ \A p \in Pool : ToSet(delayed[p]) \subseteq ToSet(delayed'[p])
        /\ ready'[x] > 0 \/ x \in ToSet(delayed'[PoolOf[x]])
    BY <1>2 DEF Schedules, Pops, KeptInv
  <2>2. \A e \in Edge : (e # x /\ Offered(e) => Offered(e)') /\ (Delayed(e) => Delayed(e)')
    BY <1>2, <2>1, OfferedNext DEF Delayed
  <2>3. \A e \in Edge : Scheduled(e) => Scheduled(e)'
    BY <1>0, <2>1, <2>2, CallsDiffer, ScheduledParts
  <2>4. Scheduled(x)'
    <3>1. PoolOf[x] \in Pool
      BY OutsType
    <3>. QED  BY <2>1, <3>1 DEF Scheduled
  <2>. QED  BY <1>0, <2>1, <2>2, <2>3, <2>4
            DEF KeptInv, kWantToStart, kWantToFinish
<1>3. ASSUME NEW x \in Edge, Completes(x) PROVE KeptInv'
  <2>0. pc # "prepare"
    BY <1>3 DEF Completes, Pops, KeptInv
  <2>1. /\ delayed' = delayed
        /\ outputs_ready' = outputs_ready \cup {x}
        /\ want' = [want EXCEPT ![x] = Absent]
    BY <1>3 DEF Completes, Refilled
  <2>2. \A e \in Edge : e # x => ready'[e] >= ready[e]
    BY <1>0, <1>3 DEF Completes, Refilled, Polled
  <2>3. \A c \in Pending : c \in Pending' \/ c = C("EdgeFinished", x) \/ c = C("EdgeMaybeReady", x)
    BY <1>3 DEF Completes, Pops
  <2>4. \A e \in Edge : e # x => (Offered(e) => Offered(e)') /\ (Delayed(e) => Delayed(e)')
    BY <1>3, <2>1, OfferedNext DEF Delayed
  <2>5. \A e \in Edge : e # x /\ Scheduled(e) => Scheduled(e)'
    BY <1>0, <2>1, <2>2, <2>3, <2>4, CallsDiffer, ScheduledParts
  <2>6. \A e \in Edge : x \in DependsOn[e] => Offered(e)'
    BY <1>3, OfferedNext
  <2>7. \A e \in Edge : DependsOn[e] \subseteq outputs_ready' =>
            x \in DependsOn[e] \/ DependsOn[e] \subseteq outputs_ready
    BY <2>1
  <2>. QED  BY <1>0, <2>0, <2>1, <2>4, <2>5, <2>6, <2>7
            DEF KeptInv, Absent, kWantToStart, kWantToFinish
<1>4. ASSUME NEW c \in Call, NEW S \in SUBSET Call, Shuffles(c, S) PROVE KeptInv'
  <2>1. /\ UNCHANGED <<delayed, want, ready, outputs_ready>> /\ pc # "prepare"
        /\ Pending = {c} \cup Later /\ Pending' = S \cup Later /\ Replaces(c, S)
    BY <1>4 DEF Shuffles, Pops, KeptInv
  <2>2. \A e \in Edge : c # C("EdgeFinished", e)
    BY <2>1, CallsDiffer DEF Replaces
  <2>3. \A e \in Edge : Scheduled(e) => Scheduled(e)'
    BY <1>0, <2>1, <2>2, ScheduledParts DEF Delayed
  <2>4. ASSUME NEW e \in Edge, c = C("EdgeMaybeReady", e), want[e] = kWantToStart
        PROVE  ~(DependsOn[e] \subseteq outputs_ready)
    BY <2>1, <2>4, CallsDiffer DEF Replaces, Absent, kWantToStart, kWantToFinish
  <2>6. \A e \in Edge : Offered(e) => Offered(e)' \/ c = C("EdgeMaybeReady", e)
    BY <1>4, OfferedNext
  <2>7. \A e \in Edge : Delayed(e) => Delayed(e)'
    BY <2>1 DEF Delayed
  <2>. QED  BY <1>0, <2>1, <2>3, <2>4, <2>6, <2>7 DEF KeptInv
<1>. QED  BY <1>1, <1>2, <1>3, <1>4

\* Every step keeps every edge.
LEMMA NextKept ==
    ASSUME TypeOK, KeptInv, [Next]_vars
    PROVE  KeptInv'
<1>1. TypeOK' /\ Kinds
  BY NextType, NextKinds
<1>. QED  BY <1>1, LoopKeeps, CallsKeep DEF Kinds

\* Whatever order the commands finish in, and whatever the pools, restat rules and
\* faults do, the loop never looks for work while an edge that could run has been
\* dropped.
THEOREM NothingLostHolds == Spec => []NothingLost
<1>1. Init => TypeOK /\ KeptInv
  BY InitType, InitKept
<1>2. (TypeOK /\ KeptInv) /\ [Next]_vars => (TypeOK /\ KeptInv)'
  BY NextType, NextKept
<1>3. TypeOK /\ KeptInv => NothingLost
  <2>1. SUFFICES ASSUME TypeOK, KeptInv, AtLoop("loop"), NEW e \in Edge,
                        Wanted(e), DependsOn[e] \subseteq outputs_ready
                 PROVE  Scheduled(e) \/ e \in failed \/ unstarted > 0
    BY DEF NothingLost
  <2>2. pc = "loop" /\ pc \notin Outcome /\ pc # "prepare" /\ Pending = {}
    BY <2>1, OutcomeNames, PendingParts DEF AtLoop
  <2>3. ~Offered(e)
    BY <2>2 DEF Offered
  <2>. QED  BY <2>1, <2>2, <2>3, ScheduledParts DEF KeptInv, Wanted, Stalled
<1>. QED  BY <1>1, <1>2, <1>3, PTL DEF Spec

-----------------------------------------------------------------------------
(***************************************************************************)
(* The counters and the outcome, where no rule is restat.  Nothing is      *)
(* cleaned then, so that a planned edge stays wanted until it is built.    *)
(***************************************************************************)

\* The calls that restat rules make.
Cleaning == {"CleanNode", "CleanOutEdge", "RecomputeOutputsDirty", "Unwant"}

\* Without them every planned edge is counted until it is built.
CountInv ==
    /\ WantedCount
    /\ command_edges > 0
    /\ \A c \in Pending : c.op \notin Cleaning
    /\ \A e \in Edge : want[e] = kWantNothing => e \notin planned
    /\ \A e \in planned : Wanted(e) \/ e \in outputs_ready
    /\ \A e \in Edge : C("EdgeFinished", e) \in Pending => e \in built
    /\ ReadyMeansBuilt
    /\ SuccessMeansBuilt

\* The wanted edges are counted one by one.
LEMMA WantedLess ==
    ASSUME TypeOK, WantedCount, NEW x \in Edge,
           want' = [want EXCEPT ![x] = Absent], wanted_edges' = StillWanted(x), want[x] # Absent
    PROVE  WantedCount'
<1>. DEFINE W == {e \in Edge : Wanted(e)}
<1>0. /\ want \in [Edge -> {Absent, kWantNothing, kWantToStart, kWantToFinish}]
      /\ IsFiniteSet(Edge)
  BY GraphAssumption DEF TypeOK, PlanTypeOK
<1>1. IsFiniteSet(W) /\ Cardinality(W) = wanted_edges
  BY <1>0, FS_Subset DEF WantedCount
<1>2. W' = W \ {x}
  BY <1>0 DEF Wanted, Absent, kWantToStart, kWantToFinish
<1>3. Cardinality(W') = IF x \in W THEN Cardinality(W) - 1 ELSE Cardinality(W)
  BY <1>1, <1>2, FS_RemoveElement
<1>4. x \in W <=> want[x] # kWantNothing
  BY <1>0 DEF Wanted, kWantNothing, kWantToStart, kWantToFinish
<1>. QED  BY <1>1, <1>3, <1>4 DEF WantedCount, StillWanted

\* While the same edges are wanted, the count is right.
LEMMA WantedSame ==
    ASSUME WantedCount, UNCHANGED wanted_edges, \A e \in Edge : Wanted(e) <=> Wanted(e)'
    PROVE  WantedCount'
<1>1. {e \in Edge : Wanted(e)} = {e \in Edge : Wanted(e)}'
  OBVIOUS
<1>. QED  BY <1>1 DEF WantedCount

\* The plan that the scan has made counts its edges and is not done.
LEMMA InitCounts == Init => CountInv
<1>1. SUFFICES ASSUME Init PROVE CountInv
  OBVIOUS
<1>2. PICK D \in SUBSET Edge, W \in SUBSET (Edge \ outputs_ready) :
        /\ want = [e \in Edge |-> IF e \notin W THEN Absent
                                  ELSE IF e \in D THEN kWantToStart ELSE kWantNothing]
        /\ wanted_edges = Cardinality(W \cap D)
  BY <1>1 DEF Init, PlanInit
<1>3. {e \in Edge : Wanted(e)} = W \cap D
  BY <1>2 DEF Wanted, Absent, kWantNothing, kWantToStart, kWantToFinish
<1>4. WantedCount
  BY <1>2, <1>3 DEF WantedCount
<1>5. Pending = {} /\ command_edges > 0 /\ pc = "prepare" /\ planned = {e \in Edge : Wanted(e)}
  BY <1>1 DEF Init, PlanInit, more_to_do, Pending, ToSet
<1>6. \A e \in Edge : want[e] = kWantNothing => ~Wanted(e)
  BY DEF Wanted, kWantNothing, kWantToStart, kWantToFinish
<1>7. ReadyMeansBuilt
  BY <1>2, <1>3, <1>5 DEF ReadyMeansBuilt
<1>. QED  BY <1>4, <1>5, <1>6, <1>7 DEF CountInv, SuccessMeansBuilt

\* When nothing more is wanted, every planned edge has its outputs ready.
LEMMA NothingWanted ==
    ASSUME TypeOK, CountInv, ~more_to_do
    PROVE  planned \subseteq built \cup Phony
<1>. DEFINE W == {e \in Edge : Wanted(e)}
<1>1. IsFiniteSet(W) /\ Cardinality(W) = wanted_edges /\ Cardinality(W) \in Nat
  BY FS_Subset, FS_CardinalityType, GraphAssumption DEF CountInv, WantedCount
<1>2. Cardinality(W) = 0
  BY <1>1 DEF more_to_do, CountInv
<1>3. W = {}
  BY <1>1, <1>2, FS_EmptySet
<1>4. planned \subseteq outputs_ready
  BY <1>3 DEF CountInv, TypeOK
<1>. QED  BY <1>4 DEF CountInv, ReadyMeansBuilt

\* Every step keeps the count and the outcome right.
LEMMA NextCounts ==
    ASSUME NoRestat, TypeOK, CountInv, [Next]_vars
    PROVE  CountInv'
<1>0. /\ want \in [Edge -> {Absent, kWantNothing, kWantToStart, kWantToFinish}]
      /\ \A e \in Edge : Wanted(e) <=> want[e] \in {kWantToStart, kWantToFinish}
      /\ \A e \in Edge : Wanted(e)' <=> want'[e] \in {kWantToStart, kWantToFinish}
  BY DEF TypeOK, PlanTypeOK, Wanted
<1>1. CASE Still
  <2>1. UNCHANGED <<want, wanted_edges, command_edges, outputs_ready, planned, built>>
        /\ Pending' = Pending
    BY <1>1 DEF Still, planVars, history, Pending
  <2>2. WantedCount' /\ ReadyMeansBuilt' /\ \A e \in Edge : Wanted(e)' <=> Wanted(e)
    BY <1>0, <2>1, WantedSame DEF CountInv, ReadyMeansBuilt
  <2>3. SuccessMeansBuilt'
    BY <1>1, <2>1, NothingWanted DEF Still, SuccessMeansBuilt, CountInv
  <2>. QED  BY <2>1, <2>2, <2>3 DEF CountInv, TypeOK
<1>2. ASSUME \/ Quits \/ \E x \in Edge : Starts(x) \/ Fails(x)
      PROVE  CountInv'
  <2>1. /\ UNCHANGED <<want, wanted_edges, command_edges, outputs_ready, planned, built>>
        /\ Pending' = Pending /\ pc' # "succeeded"
    BY <1>2 DEF Quits, Starts, Fails, Reaps, history, Pending
  <2>2. WantedCount' /\ ReadyMeansBuilt' /\ \A e \in Edge : Wanted(e)' <=> Wanted(e)
    BY <1>0, <2>1, WantedSame DEF CountInv, ReadyMeansBuilt
  <2>. QED  BY <2>1, <2>2 DEF CountInv, SuccessMeansBuilt, TypeOK
<1>3. CASE Prepares
  <2>1. /\ UNCHANGED <<wanted_edges, command_edges, outputs_ready, planned, built>>
        /\ Pending' = Pending /\ pc' # "succeeded"
        /\ want' = [e \in Edge |-> IF e \in Initial \ InitiallyDelayed
                                   THEN kWantToFinish ELSE want[e]]
    BY <1>3 DEF Prepares, history, Pending
  <2>2. \A e \in Edge : (Wanted(e) <=> Wanted(e)') /\ (want'[e] = kWantNothing => want[e] = kWantNothing)
    BY <1>0, <2>1 DEF Initial, kWantNothing, kWantToStart, kWantToFinish
  <2>3. WantedCount' /\ ReadyMeansBuilt'
    BY <2>1, <2>2, WantedSame DEF CountInv, ReadyMeansBuilt
  <2>. QED  BY <2>1, <2>2, <2>3 DEF CountInv, SuccessMeansBuilt, TypeOK
<1>4. ASSUME NEW x \in Edge, Succeeds(x) PROVE CountInv'
  <2>1. /\ UNCHANGED <<want, wanted_edges, command_edges, outputs_ready, planned>>
        /\ pc' # "succeeded" /\ built' = built \cup {x}
        /\ Pending' = Each("RestatOutput", ToSet(Outs[x]))
                      \cup {C("EdgeFinished", x), C("RecordCommand", x)}
    BY <1>4 DEF Succeeds, Reaps
  <2>2. WantedCount' /\ ReadyMeansBuilt' /\ \A e \in Edge : Wanted(e)' <=> Wanted(e)
    BY <1>0, <2>1, WantedSame DEF CountInv, ReadyMeansBuilt
  <2>3. \A c \in Pending' : c.op \notin Cleaning
    BY <2>1 DEF Each, C, Cleaning
  <2>4. \A e \in Edge : C("EdgeFinished", e) \in Pending' => e \in built'
    BY <2>1, CallsDiffer
  <2>. QED  BY <2>1, <2>2, <2>3, <2>4 DEF CountInv, SuccessMeansBuilt, TypeOK
<1>5. ASSUME NEW x \in Edge PROVE ~Unwants(x)
  <2>1. C("Unwant", x).op \in Cleaning
    BY DEF C, Cleaning
  <2>. QED  BY <2>1 DEF Unwants, Pops, CountInv
<1>6. Waits => /\ UNCHANGED <<planned, built>> /\ pc' # "succeeded"
  BY OutcomeNames DEF Waits, history, loopVars
<1>7. ASSUME NEW x \in Edge, Schedules(x) PROVE CountInv'
  <2>1. /\ UNCHANGED <<wanted_edges, command_edges, outputs_ready, planned, built>>
        /\ Pending' \subseteq Pending /\ pc' # "succeeded"
        /\ want[x] = kWantToStart /\ want' = [want EXCEPT ![x] = kWantToFinish]
    BY <1>6, <1>7 DEF Schedules, Pops
  <2>2. \A e \in Edge : (Wanted(e) <=> Wanted(e)') /\ (want'[e] = kWantNothing => want[e] = kWantNothing)
    BY <1>0, <2>1 DEF kWantNothing, kWantToStart, kWantToFinish
  <2>3. WantedCount' /\ ReadyMeansBuilt'
    BY <2>1, <2>2, WantedSame DEF CountInv, ReadyMeansBuilt
  <2>. QED  BY <2>1, <2>2, <2>3 DEF CountInv, SuccessMeansBuilt, TypeOK
<1>8. ASSUME NEW x \in Edge, Completes(x) PROVE CountInv'
  <2>1. /\ UNCHANGED <<command_edges, planned, built>> /\ pc' # "succeeded"
        /\ want[x] # Absent /\ want' = [want EXCEPT ![x] = Absent]
        /\ wanted_edges' = StillWanted(x)
        /\ outputs_ready' = outputs_ready \cup {x}
        /\ Pending' \subseteq Each("NodeFinished", ToSet(Outs[x])) \cup Pending
    BY <1>6, <1>8 DEF Completes, Pops
  <2>2. \/ x \in Phony \/ C("EdgeFinished", x) \in Pending \/ want[x] = kWantNothing
    BY <1>8 DEF Completes, Pops
  <2>3. x \in planned => x \in built \cup Phony
    BY <2>2 DEF CountInv
  <2>4. ReadyMeansBuilt'
    BY <2>1, <2>3 DEF CountInv, ReadyMeansBuilt
  <2>5. WantedCount'
    BY <2>1, WantedLess DEF CountInv
  <2>6. \A e \in Edge : e # x => want'[e] = want[e] /\ (Wanted(e) <=> Wanted(e)')
    BY <1>0, <2>1
  <2>7. \A c \in Pending' : c.op \notin Cleaning
    BY <2>1 DEF CountInv, Each, C, Cleaning
  <2>8. \A e \in Edge : C("EdgeFinished", e) \in Pending' => C("EdgeFinished", e) \in Pending
    BY <2>1, CallsDiffer
  <2>9. want'[x] # kWantNothing
    BY <1>0, <2>1 DEF Absent, kWantNothing
  <2>. QED  BY <2>1, <2>4, <2>5, <2>6, <2>7, <2>8, <2>9 DEF CountInv, SuccessMeansBuilt, TypeOK
<1>9. ASSUME NEW c \in Call, NEW S \in SUBSET Call, Shuffles(c, S) PROVE CountInv'
  <2>1. /\ UNCHANGED <<want, wanted_edges, command_edges, outputs_ready, planned, built>>
        /\ pc' # "succeeded" /\ c \in Pending /\ Replaces(c, S)
        /\ Pending' \subseteq S \cup Pending
    BY <1>6, <1>9 DEF Shuffles, Pops
  <2>2. WantedCount' /\ ReadyMeansBuilt' /\ \A e \in Edge : Wanted(e)' <=> Wanted(e)
    BY <1>0, <2>1, WantedSame DEF CountInv, ReadyMeansBuilt
  <2>3. c.op \notin Cleaning
    BY <2>1 DEF CountInv
  <2>4. \A d \in S : d.op = "EdgeMaybeReady"
    BY <2>1, <2>3 DEF Replaces, Each, C, Cleaning
  <2>5. \A e \in Edge : C("EdgeFinished", e) \in Pending' => C("EdgeFinished", e) \in Pending
    BY <2>1, <2>4 DEF C
  <2>. QED  BY <2>1, <2>2, <2>4, <2>5 DEF CountInv, SuccessMeansBuilt, TypeOK, Cleaning
<1>10. Kinds
  BY NextKinds
<1>. QED  BY <1>1, <1>2, <1>3, <1>4, <1>5, <1>7, <1>8, <1>9, <1>10 DEF Kinds

\* wanted_edges_, on which the loop ends, is the number of wanted edges.
THEOREM WantedCountHolds == ASSUME NoRestat PROVE Spec => []WantedCount
<1>1. Init => TypeOK /\ CountInv
  BY InitType, InitCounts
<1>2. (TypeOK /\ CountInv) /\ [Next]_vars => (TypeOK /\ CountInv)'
  BY NextType, NextCounts
<1>3. CountInv => WantedCount
  BY DEF CountInv
<1>. QED  BY <1>1, <1>2, <1>3, PTL DEF Spec

\* A planned edge has its outputs ready only once its command has succeeded.
THEOREM ReadyMeansBuiltHolds == ASSUME NoRestat PROVE Spec => []ReadyMeansBuilt
<1>1. Init => TypeOK /\ CountInv
  BY InitType, InitCounts
<1>2. (TypeOK /\ CountInv) /\ [Next]_vars => (TypeOK /\ CountInv)'
  BY NextType, NextCounts
<1>3. CountInv => ReadyMeansBuilt
  BY DEF CountInv
<1>. QED  BY <1>1, <1>2, <1>3, PTL DEF Spec

\* A build that reports success has built everything that was planned.
THEOREM SuccessMeansBuiltHolds == ASSUME NoRestat PROVE Spec => []SuccessMeansBuilt
<1>1. Init => TypeOK /\ CountInv
  BY InitType, InitCounts
<1>2. (TypeOK /\ CountInv) /\ [Next]_vars => (TypeOK /\ CountInv)'
  BY NextType, NextCounts
<1>3. CountInv => SuccessMeansBuilt
  BY DEF CountInv
<1>. QED  BY <1>1, <1>2, <1>3, PTL DEF Spec

-----------------------------------------------------------------------------
(***************************************************************************)
(* The order of the calls.  FinishCommand cleans outputs before it updates *)
(* the plan, and the calls that cleaning makes are pushed before the rest: *)
(* once EdgeFinished is at work nothing is left to be cleaned.             *)
(***************************************************************************)

\* The calls that come before the plan is updated, and the order this gives.
Early == {"RestatOutput", "CleanNode", "CleanOutEdge", "RecomputeOutputsDirty", "Unwant"}

InTurn(s) == \A i, j \in 1..Len(s) :
    i < j /\ s[j].op \in Early \cup {"EdgeFinished"} => s[i].op \in Early

\* No cleaning, and no EdgeFinished, among the calls of X.
Late(X) == \A c \in X : c.op \notin Early \cup {"EdgeFinished"}

\* Behind a call that does not clean there is nothing to clean.
LEMMA InTurnTail ==
    ASSUME NEW s \in Seq(Call), s # <<>>, InTurn(s)
    PROVE  /\ InTurn(Tail(s))
           /\ Head(s).op \notin Early => Late(ToSet(Tail(s)))
<1>1. /\ Len(s) \in Nat /\ Len(s) > 0 /\ Head(s) = s[1] /\ Tail(s) \in Seq(Call)
      /\ Len(Tail(s)) = Len(s) - 1
      /\ \A i \in 1..Len(Tail(s)) : Tail(s)[i] = s[i + 1]
  BY EmptySeq, HeadTailProperties, LenProperties
<1>2. DOMAIN Tail(s) = 1..Len(Tail(s))
  BY <1>1, LenProperties
<1>3. \A i \in 1..Len(Tail(s)) : i + 1 \in 1..Len(s) /\ 1 \in 1..Len(s) /\ 1 < i + 1
  BY <1>1
<1>4. InTurn(Tail(s))
  <2>1. SUFFICES ASSUME NEW i \in 1..Len(Tail(s)), NEW j \in 1..Len(Tail(s)), i < j,
                        Tail(s)[j].op \in Early \cup {"EdgeFinished"}
                 PROVE  Tail(s)[i].op \in Early
    BY DEF InTurn
  <2>2. i + 1 < j + 1 /\ s[j + 1].op \in Early \cup {"EdgeFinished"} /\ Tail(s)[i] = s[i + 1]
    BY <1>1, <2>1
  <2>. QED  BY <1>3, <2>2 DEF InTurn
<1>5. ASSUME Head(s).op \notin Early PROVE Late(ToSet(Tail(s)))
  <2>1. \A i \in 1..Len(Tail(s)) : Tail(s)[i].op \notin Early \cup {"EdgeFinished"}
    BY <1>1, <1>3, <1>5 DEF InTurn
  <2>. QED  BY <1>2, <2>1 DEF Late, ToSet
<1>. QED  BY <1>4, <1>5

\* Calls that clean may be put before anything, others before others.
LEMMA InTurnConcat ==
    ASSUME NEW s \in Seq(Call), NEW t \in Seq(Call),
           \/ (\A c \in ToSet(s) : c.op \in Early) /\ InTurn(t)
           \/ Late(ToSet(s) \cup ToSet(t))
    PROVE  InTurn(s \o t)
<1>1. /\ Len(s) \in Nat /\ Len(t) \in Nat /\ Len(s \o t) = Len(s) + Len(t)
      /\ DOMAIN s = 1..Len(s) /\ DOMAIN t = 1..Len(t) /\ s \o t \in Seq(Call)
      /\ \A i \in 1..Len(s) + Len(t) :
            (s \o t)[i] = IF i <= Len(s) THEN s[i] ELSE t[i - Len(s)]
  BY ConcatProperties, LenProperties
<1>2. SUFFICES ASSUME NEW i \in 1..Len(s) + Len(t), NEW j \in 1..Len(s) + Len(t), i < j,
                      (s \o t)[j].op \in Early \cup {"EdgeFinished"}
               PROVE  (s \o t)[i].op \in Early
  BY <1>1 DEF InTurn
<1>3. \A k \in 1..Len(s) : s[k] \in ToSet(s)
  BY <1>1 DEF ToSet
<1>4. \A k \in 1..Len(t) : t[k] \in ToSet(t)
  BY <1>1 DEF ToSet
<1>5. CASE Late(ToSet(s) \cup ToSet(t))
  <2>1. (s \o t)[j] \in ToSet(s) \cup ToSet(t)
    <3>1. j <= Len(s) => j \in 1..Len(s) /\ (s \o t)[j] = s[j]
      BY <1>1
    <3>2. ~(j <= Len(s)) => j - Len(s) \in 1..Len(t) /\ (s \o t)[j] = t[j - Len(s)]
      BY <1>1
    <3>. QED  BY <1>3, <1>4, <3>1, <3>2
  <2>. QED  BY <1>2, <1>5, <2>1 DEF Late
<1>6. CASE (\A c \in ToSet(s) : c.op \in Early) /\ InTurn(t)
  <2>1. CASE i <= Len(s)
    <3>1. i \in 1..Len(s) /\ (s \o t)[i] = s[i]
      BY <1>1, <2>1
    <3>. QED  BY <1>3, <1>6, <3>1
  <2>2. CASE ~(i <= Len(s))
    <3>1. /\ i - Len(s) \in 1..Len(t) /\ j - Len(s) \in 1..Len(t) /\ i - Len(s) < j - Len(s)
          /\ (s \o t)[i] = t[i - Len(s)] /\ (s \o t)[j] = t[j - Len(s)]
      BY <1>1, <1>2, <2>2
    <3>. QED  BY <1>2, <1>6, <3>1 DEF InTurn
  <2>. QED  BY <2>1, <2>2
<1>. QED  BY <1>5, <1>6

\* The loops of the plan put their calls before the rest in turn.
LEMMA EachInTurn ==
    ASSUME NEW op, NEW S, NEW s \in Seq(S), CallEach(op, s) \in Seq(Call),
           NEW t \in Seq(Call), InTurn(t), op \in Early \/ (op # "EdgeFinished" /\ Late(ToSet(t)))
    PROVE  InTurn(CallEach(op, s) \o t)
<1>1. ToSet(CallEach(op, s)) = {[op |-> op, arg |-> x] : x \in ToSet(s)}
  BY ToSetCallEach
<1>2. \A c \in ToSet(CallEach(op, s)) : c.op = op
  BY <1>1
<1>3. CASE op \in Early
  <2>1. \A c \in ToSet(CallEach(op, s)) : c.op \in Early
    BY <1>2, <1>3
  <2>. QED  BY <2>1, InTurnConcat
<1>4. CASE op \notin Early
  <2>1. Late(ToSet(CallEach(op, s)) \cup ToSet(t))
    BY <1>2, <1>4 DEF Late
  <2>. QED  BY <2>1, InTurnConcat
<1>. QED  BY <1>3, <1>4

\* A call of the plan keeps the order.
LEMMA PlanCallInTurn ==
    ASSUME TypeOK, InTurn(calls), PlanCall
    PROVE  InTurn(calls')
<1>. DEFINE rest == Tail(calls)
<1>1. ASSUME NEW op, NEW x, NextCall(op, x)
      PROVE  /\ rest \in Seq(Call) /\ InTurn(rest)
             /\ op \notin Early => Late(ToSet(rest))
  <2>1. calls \in Seq(Call) /\ calls # <<>> /\ Head(calls).op = op
    BY <1>1 DEF TypeOK, PlanTypeOK, NextCall
  <2>. QED  BY <2>1, InTurnTail, HeadTailProperties
<1>2. ASSUME NEW n \in Node, NextCall("NodeFinished", n), NodeFinished(n, rest)
      PROVE  InTurn(calls')
  <2>1. CallEach("EdgeMaybeReady", OutEdges[n]) \in Seq(Call) /\ OutEdges[n] \in Seq(Edge)
    BY CallEachEdge, OutsType DEF EdgeCall
  <2>2. "NodeFinished" \notin Early
    BY DEF Early
  <2>3. calls' = CallEach("EdgeMaybeReady", OutEdges[n]) \o rest
    BY <1>2 DEF NodeFinished
  <2>. QED  BY <1>1, <1>2, <2>1, <2>2, <2>3, EachInTurn
<1>3. ASSUME NEW n \in Node, NextCall("CleanNode", n), CleanNode(n, rest)
      PROVE  InTurn(calls')
  <2>1. CallEach("CleanOutEdge", OutEdges[n]) \in Seq(Call) /\ OutEdges[n] \in Seq(Edge)
    BY CallEachEdge, OutsType DEF EdgeCall
  <2>2. "CleanOutEdge" \in Early
    BY DEF Early
  <2>3. calls' = CallEach("CleanOutEdge", OutEdges[n]) \o rest
    BY <1>3 DEF CleanNode
  <2>. QED  BY <1>1, <1>3, <2>1, <2>2, <2>3, EachInTurn
<1>4. ASSUME NEW e \in Edge, NextCall("CleanOutEdge", e), CleanOutEdge(e, rest)
      PROVE  InTurn(calls')
  <2>. DEFINE each == [i \in 1..Len(Ins[e]) |-> e]
  <2>1. each \in Seq(Edge)
    BY OutsType, LenProperties
  <2>2. CallEach("RecomputeOutputsDirty", each) \in Seq(Call)
    BY <2>1, CallEachEdge DEF EdgeCall
  <2>3. "RecomputeOutputsDirty" \in Early
    BY DEF Early
  <2>4. calls' \in {rest, CallEach("RecomputeOutputsDirty", each) \o rest}
    BY <1>4 DEF CleanOutEdge
  <2>. HIDE DEF each
  <2>. QED  BY <1>1, <1>4, <2>1, <2>2, <2>3, <2>4, EachInTurn
<1>5. ASSUME NEW e \in Edge, NextCall("RecomputeOutputsDirty", e), RecomputeOutputsDirty(e, rest)
      PROVE  InTurn(calls')
  <2>. DEFINE clean == CallEach("CleanNode", Outs[e])
              unwant == <<[op |-> "Unwant", arg |-> e]>>
  <2>1. clean \in Seq(Call) /\ ToSet(clean) = {[op |-> "CleanNode", arg |-> x] : x \in ToSet(Outs[e])}
    BY CallEachNode, OutsType, ToSetCallEach DEF NodeCall
  <2>2. unwant \in Seq(Call) /\ ToSet(unwant) = {[op |-> "Unwant", arg |-> e]}
    <3>1. [op |-> "Unwant", arg |-> e] \in Call
      BY DEF Call, EdgeCall
    <3>. QED  BY <3>1 DEF ToSet
  <2>3. clean \o unwant \in Seq(Call) /\ ToSet(clean \o unwant) = ToSet(clean) \cup ToSet(unwant)
    BY <2>1, <2>2, CallsInARow
  <2>4. \A c \in ToSet(clean \o unwant) : c.op \in Early
    BY <2>1, <2>2, <2>3 DEF Early
  <2>5. calls' = rest \/ calls' = clean \o unwant \o rest
    BY <1>5 DEF RecomputeOutputsDirty
  <2>. HIDE DEF clean, unwant
  <2>. QED  BY <1>1, <1>5, <2>3, <2>4, <2>5, InTurnConcat
<1>6. ASSUME NEW e \in Edge, NextCall("Unwant", e), Unwant(e, rest)
      PROVE  InTurn(calls')
  BY <1>1, <1>6 DEF Unwant
<1>7. ASSUME NEW e \in Edge, NEW q, NextCall("EdgeFinished", e) \/ NextCall("EdgeMaybeReady", e),
             EdgeFinishedSucceeded(e, q, rest)
      PROVE  InTurn(calls')
  <2>1. CallEach("NodeFinished", Outs[e]) \in Seq(Call) /\ Outs[e] \in Seq(Node)
    BY CallEachNode, OutsType DEF NodeCall
  <2>2. "EdgeFinished" \notin Early /\ "EdgeMaybeReady" \notin Early
    BY DEF Early
  <2>3. calls' = CallEach("NodeFinished", Outs[e]) \o rest
    BY <1>7 DEF EdgeFinishedSucceeded
  <2>. QED  BY <1>1, <1>7, <2>1, <2>2, <2>3, EachInTurn
<1>8. ASSUME NEW e \in Edge, NextCall("EdgeMaybeReady", e), EdgeMaybeReady(e, rest)
      PROVE  InTurn(calls')
  <2>1. calls' = rest \/ EdgeFinishedSucceeded(e, ready, rest)
    BY <1>8 DEF EdgeMaybeReady, ScheduleWork
  <2>. QED  BY <1>1, <1>7, <1>8, <2>1
<1>. QED  BY <1>2, <1>3, <1>4, <1>5, <1>6, <1>7, <1>8 DEF PlanCall

\* Every step keeps the order.
LEMMA NextInTurn ==
    ASSUME TypeOK, InTurn(calls), [Next]_vars
    PROVE  InTurn(calls')
<1>0. calls \in Seq(Call) /\ (calls # <<>> => InTurn(Tail(calls)))
  BY InTurnTail DEF TypeOK, PlanTypeOK
<1>1. InTurn(<<>>)
  BY DEF InTurn
<1>2. ASSUME NEW e \in Edge, FinishCommandSucceeds(e) PROVE InTurn(calls')
  <2>. DEFINE end == <<[op |-> "EdgeFinished", arg |-> e], [op |-> "RecordCommand", arg |-> e]>>
  <2>1. [op |-> "EdgeFinished", arg |-> e] \in Call /\ [op |-> "RecordCommand", arg |-> e] \in Call
    BY DEF Call, EdgeCall
  <2>2. end \in Seq(Call) /\ InTurn(end)
    BY <2>1 DEF InTurn, Early
  <2>3. CallEach("RestatOutput", Outs[e]) \in Seq(Call) /\ Outs[e] \in Seq(Node)
    BY CallEachNode, OutsType DEF NodeCall
  <2>4. "RestatOutput" \in Early
    BY DEF Early
  <2>5. calls' = CallEach("RestatOutput", Outs[e]) \o end
    BY <1>2 DEF FinishCommandSucceeds
  <2>. HIDE DEF end
  <2>. QED  BY <2>2, <2>3, <2>4, <2>5, EachInTurn
<1>3. ASSUME NEW e \in Edge, StartPhony(e) PROVE InTurn(calls')
  <2>1. CallEach("NodeFinished", Outs[e]) \in Seq(Call) /\ Outs[e] \in Seq(Node)
    BY CallEachNode, OutsType DEF NodeCall
  <2>2. Late(ToSet(<<>>))
    BY DEF Late, ToSet
  <2>3. calls' = CallEach("NodeFinished", Outs[e]) \o <<>> /\ <<>> \in Seq(Call)
    BY <1>3 DEF StartPhony, EdgeFinishedSucceeded
  <2>. QED  BY <1>1, <2>1, <2>2, <2>3, EachInTurn
<1>4. ASSUME NEW n \in Node, RestatOutput(n) PROVE InTurn(calls')
  <2>. DEFINE clean == <<[op |-> "CleanNode", arg |-> n]>>
  <2>1. clean \in Seq(Call) /\ \A c \in ToSet(clean) : c.op \in Early
    <3>1. [op |-> "CleanNode", arg |-> n] \in Call
      BY DEF Call, NodeCall
    <3>. QED  BY <3>1 DEF ToSet, Early
  <2>2. calls # <<>> /\ Tail(calls) \in Seq(Call)
    BY <1>0, <1>4, HeadTailProperties DEF RestatOutput, NextCall
  <2>3. calls' = Tail(calls) \/ calls' = clean \o Tail(calls)
    BY <1>4 DEF RestatOutput
  <2>. HIDE DEF clean
  <2>. QED  BY <1>0, <2>1, <2>2, <2>3, InTurnConcat
<1>5. ASSUME NEW e \in Edge, RecordCommand(e) PROVE InTurn(calls')
  BY <1>0, <1>5 DEF RecordCommand, NextCall
<1>6. ASSUME PrepareQueue \/ (\E e \in Edge : StartEdge(e) \/ FinishCommandFails(e))
      PROVE  calls' = calls
  BY <1>6 DEF PrepareQueue, ScheduleInitialEdges, StartEdge, FinishCommandFails, EdgeFinishedFailed
<1>7. LoopTop \/ StartDone \/ NoProgress => calls' = calls
  BY LoopSteps DEF planVars
<1>8. (\E o \in Outcome : Die(o)) => calls' = calls
  BY DEF Die, planVars
<1>9. (\E e \in Edge : StartEdgeFails(e)) \/ FinishCommandAborts => calls' = calls
  BY Zenon DEF StartEdgeFails, FinishCommandAborts, planVars
<1>10. ChildExit \/ UNCHANGED vars => calls' = calls
  BY DEF ChildExit, vars, planVars
<1>11. CASE PlanCall
  BY <1>11, PlanCallInTurn
<1>12. LoadUnknown \/ WaitFails \/ (\E e \in Edge : FinishUnplanned(e)) => calls' = calls
  BY <1>8, LoopSteps
<1>. QED
  BY <1>2, <1>3, <1>4, <1>5, <1>6, <1>7, <1>9, <1>10, <1>11, <1>12
  DEF Next, BuildStep, Ended

-----------------------------------------------------------------------------
(***************************************************************************)
(* One pass through the queues, where no pool is limited.  (In a limited   *)
(* pool delayed_ keeps the edges it has let in and lets them in again: see *)
(* RetrieveReadyEdges in Pools.)                                           *)
(***************************************************************************)

\* The commands: each is queued or has been started, once, and only one that runs
\* can succeed or fail.
LifeInv ==
    /\ \A e \in Edge :
         /\ ready[e] + started[e] <= 1
         /\ want[e] = kWantToStart => ready[e] = 0 /\ started[e] = 0
         /\ ready[e] > 0 \/ started[e] > 0 \/ Wanted(e) => e \in planned
         /\ started[e] > 0 => e \notin Phony /\ DependsOn[e] \subseteq outputs_ready
    /\ \A e \in InHand : started[e] > 0 /\ e \notin built \cup failed
    /\ \A e \in built \cup failed : started[e] > 0
    /\ built \cap failed = {}
    /\ \A e \in Edge : C("EdgeFinished", e) \in Pending => e \in built
    /\ Undelayed /\ Distinct

\* Node n is an output that is not ready.  If a phony edge makes it, which may be among
\* its own out_edges_, that edge waits for another.
Unready(n) ==
    \E d \in Edge \ outputs_ready :
        n \in ToSet(Outs[d]) /\ (d \in Phony => ~(DependsOn[d] \subseteq outputs_ready))

\* The plan: what is queued, running or failed is kWantToFinish, and cleaning stays
\* ahead of the outputs that are ready.
IdleInv ==
    /\ \A e \in Edge : /\ ready[e] > 0 => want[e] = kWantToFinish
                       /\ e \in InHand \/ e \in failed => want[e] = kWantToFinish
                       /\ C("EdgeFinished", e) \in Pending => want[e] = kWantToFinish
                       /\ want[e] # Absent => e \notin outputs_ready
    /\ \A n \in Node : C("RestatOutput", n) \in Pending \/ C("CleanNode", n) \in Pending =>
           Unready(n)
    /\ \A e \in Edge : /\ C("CleanOutEdge", e) \in Pending \/ C("RecomputeOutputsDirty", e) \in Pending
                            \/ C("Unwant", e) \in Pending =>
                              ~(DependsOn[e] \subseteq outputs_ready)
                       /\ C("RecomputeOutputsDirty", e) \in Pending \/ C("Unwant", e) \in Pending =>
                              want[e] # Absent
    /\ InTurn(calls)

\* The plan and the build begin with empty queues.
LEMMA InitLife == Init => LifeInv /\ IdleInv
<1>1. SUFFICES ASSUME Init PROVE LifeInv /\ IdleInv
  OBVIOUS
<1>2. /\ calls = <<>> /\ running = <<>> /\ ready = [e \in Edge |-> 0] /\ started = [e \in Edge |-> 0]
      /\ built = {} /\ failed = {} /\ delayed = [p \in Pool |-> <<>>]
      /\ planned = {e \in Edge : Wanted(e)}
      /\ \A e \in Edge : want[e] # Absent => e \notin outputs_ready
  BY <1>1 DEF Init, PlanInit, PoolsInit, RunnerInit, Absent, kWantToStart, kWantNothing
<1>3. Pending = {} /\ InHand = {} /\ InTurn(calls) /\ Distinct /\ Undelayed
  BY <1>2 DEF Pending, ToSet, InHand, InTurn, Distinct, Undelayed
<1>. QED  BY <1>2, <1>3 DEF LifeInv, IdleInv

\* What the invariants say of the edge whose EdgeFinished or readiness is looked at.
LEMMA LateCalls ==
    ASSUME TypeOK, IdleInv, NEW op, NEW x, Pops(C(op, x)), op \notin Early
    PROVE  Late(Later)
<1>1. calls \in Seq(Call) /\ calls # <<>> /\ InTurn(calls) /\ Head(calls).op = op
  BY DEF TypeOK, PlanTypeOK, Pops, C, IdleInv
<1>. QED  BY <1>1, InTurnTail DEF Later

\* No call of a set that is late cleans or finishes.
LEMMA LateNames ==
    ASSUME NEW X, Late(X)
    PROVE  \A a : /\ C("EdgeFinished", a) \notin X /\ C("RestatOutput", a) \notin X
                  /\ C("CleanNode", a) \notin X /\ C("CleanOutEdge", a) \notin X
                  /\ C("RecomputeOutputsDirty", a) \notin X /\ C("Unwant", a) \notin X
BY DEF Late, C, Early

\* Steps of the loop itself.
LEMMA LoopLife ==
    ASSUME Unpooled, TypeOK, TypeOK', DependencyOrder, LifeInv, IdleInv, InTurn(calls'),
           \/ Still \/ Quits \/ Prepares
           \/ \E e \in Edge : Starts(e) \/ Succeeds(e) \/ Fails(e)
    PROVE  LifeInv' /\ IdleInv'
<1>0. /\ want \in [Edge -> {Absent, kWantNothing, kWantToStart, kWantToFinish}]
      /\ ready \in [Edge -> Nat] /\ ready' \in [Edge -> Nat]
      /\ started \in [Edge -> Nat] /\ built \subseteq Edge /\ failed \subseteq Edge
      /\ \A e \in Edge : Wanted(e) <=> want[e] \in {kWantToStart, kWantToFinish}
      /\ \A e \in Edge : Wanted(e)' <=> want'[e] \in {kWantToStart, kWantToFinish}
  BY DEF TypeOK, PlanTypeOK, Wanted
<1>00. Absent # kWantToStart /\ kWantToFinish # kWantToStart /\ Absent # kWantToFinish
  BY DEF Absent, kWantToStart, kWantToFinish
<1>1. ASSUME Still \/ Quits PROVE LifeInv' /\ IdleInv'
  <2>1. /\ UNCHANGED <<want, outputs_ready, delayed, planned, started, built, failed>>
        /\ Pending' = Pending /\ InHand' \subseteq InHand /\ (Distinct => Distinct')
        /\ \A e \in Edge : ready'[e] <= ready[e]
    BY <1>0, <1>1 DEF Still, Quits, planVars, history, Pending
  <2>2. Undelayed' /\ Distinct' /\ \A e \in Edge : Wanted(e) <=> Wanted(e)'
    BY <1>0, <2>1 DEF Undelayed, LifeInv
  <2>3. LifeInv'
    BY <1>0, <2>1, <2>2 DEF LifeInv
  <2>4. IdleInv'
    BY <1>0, <2>1 DEF IdleInv, Unready
  <2>. QED  BY <2>3, <2>4
<1>2. CASE Prepares
  <2>1. /\ UNCHANGED <<outputs_ready, planned, started, built, failed, InHand, Distinct>>
        /\ Pending' = Pending /\ Undelayed'
        /\ want' = [e \in Edge |-> IF e \in Initial THEN kWantToFinish ELSE want[e]]
        /\ \A e \in Initial : ready'[e] = 1
        /\ \A e \in Edge \ Initial : ready'[e] = 0
    BY <1>2 DEF Prepares, runnerVars, history, Pending, InHand, Distinct
  <2>2. \A e \in Initial : e \in Edge /\ want[e] = kWantToStart
    BY DEF Initial
  <2>3. LifeInv'
    BY <1>0, <1>00, <2>1, <2>2 DEF LifeInv
  <2>4. IdleInv'
    BY <1>0, <1>00, <2>1, <2>2 DEF IdleInv, Unready
  <2>. QED  BY <2>3, <2>4
<1>3. ASSUME NEW x \in Edge, Starts(x) PROVE LifeInv' /\ IdleInv'
  <2>1. /\ UNCHANGED <<want, outputs_ready, delayed, planned, built, failed>>
        /\ Pending' = Pending /\ InHand' \subseteq InHand \cup {x}
        /\ x \notin Phony /\ ready[x] > 0
        /\ ready' = [ready EXCEPT ![x] = @ - 1] /\ started' = [started EXCEPT ![x] = @ + 1]
    BY <1>3 DEF Starts, Pending, Polled
  <2>2. /\ want[x] = kWantToFinish /\ DependsOn[x] \subseteq outputs_ready
        /\ ready[x] = 1 /\ started[x] = 0
    BY <1>0, <2>1 DEF IdleInv, LifeInv, DependencyOrder, Scheduled
  <2>3. x \notin InHand /\ x \notin built /\ x \notin failed
    BY <2>2 DEF LifeInv
  <2>4. Distinct' /\ Undelayed'
    BY <1>3, <2>1, <2>3 DEF Starts, LifeInv, Undelayed
  <2>5. ready'[x] = 0 /\ started'[x] = 1 /\ \A e \in Edge \ {x} : ready'[e] = ready[e] /\ started'[e] = started[e]
    BY <1>0, <2>1, <2>2
  <2>6. x \in planned
    BY <1>0, <2>2 DEF LifeInv
  <2>7. LifeInv'
    BY <1>0, <1>00, <2>1, <2>2, <2>3, <2>4, <2>5, <2>6 DEF LifeInv
  <2>8. IdleInv'
    BY <1>0, <2>1, <2>2, <2>5 DEF IdleInv, Unready
  <2>. QED  BY <2>7, <2>8
<1>4. ASSUME NEW x \in Edge, Succeeds(x) PROVE LifeInv' /\ IdleInv'
  <2>1. /\ UNCHANGED <<want, outputs_ready, delayed, planned, ready, started, failed>>
        /\ Pending = {} /\ InHand = {x} \cup InHand' /\ x \notin InHand' /\ Distinct'
        /\ built' = built \cup {x}
        /\ Pending' = Each("RestatOutput", ToSet(Outs[x]))
                      \cup {C("EdgeFinished", x), C("RecordCommand", x)}
    BY <1>4 DEF Succeeds, Reaps, LifeInv
  <2>2. /\ started[x] > 0 /\ x \notin failed /\ want[x] = kWantToFinish
        /\ x \notin outputs_ready /\ x \notin Phony
    BY <1>00, <2>1 DEF LifeInv, IdleInv
  <2>3. \A a : /\ C("EdgeFinished", a) \in Pending' => a = x
               /\ C("RestatOutput", a) \in Pending' => a \in ToSet(Outs[x])
               /\ C("CleanNode", a) \notin Pending' /\ C("CleanOutEdge", a) \notin Pending'
               /\ C("RecomputeOutputsDirty", a) \notin Pending' /\ C("Unwant", a) \notin Pending'
    BY <2>1, CallsDiffer
  <2>4. Undelayed'
    BY <2>1 DEF LifeInv, Undelayed
  <2>5. LifeInv'
    BY <1>0, <2>1, <2>2, <2>3, <2>4 DEF LifeInv
  <2>6. IdleInv'
    BY <1>0, <2>1, <2>2, <2>3 DEF IdleInv, Unready
  <2>. QED  BY <2>5, <2>6
<1>5. ASSUME NEW x \in Edge, Fails(x) PROVE LifeInv' /\ IdleInv'
  <2>1. /\ UNCHANGED <<want, outputs_ready, planned, delayed, started, built>>
        /\ Pending = {} /\ InHand = {x} \cup InHand' /\ x \notin InHand' /\ Distinct'
        /\ failed' = failed \cup {x} /\ Pending' = Pending /\ ready' = ready
    BY <1>5 DEF Fails, Reaps, Refilled, LifeInv, Pending
  <2>2. started[x] > 0 /\ x \notin built /\ want[x] = kWantToFinish
    BY <2>1 DEF LifeInv, IdleInv
  <2>3. Undelayed'
    BY <2>1 DEF LifeInv, Undelayed
  <2>4. LifeInv'
    BY <1>0, <2>1, <2>2, <2>3 DEF LifeInv
  <2>5. IdleInv'
    BY <1>0, <2>1, <2>2 DEF IdleInv, Unready
  <2>. QED  BY <2>4, <2>5
<1>. QED  BY <1>1, <1>2, <1>3, <1>4, <1>5

\* Calls of the plan.
LEMMA CallsLife ==
    ASSUME Unpooled, TypeOK, TypeOK', DependencyOrder, LifeInv, IdleInv, InTurn(calls'),
           \/ \E e \in Edge : Unwants(e) \/ Schedules(e) \/ Completes(e)
           \/ \E c \in Call, S \in SUBSET Call : Shuffles(c, S)
    PROVE  LifeInv' /\ IdleInv'
<1>0. /\ want \in [Edge -> {Absent, kWantNothing, kWantToStart, kWantToFinish}]
      /\ ready \in [Edge -> Nat] /\ ready' \in [Edge -> Nat]
      /\ started \in [Edge -> Nat] /\ built \subseteq Edge /\ failed \subseteq Edge
      /\ \A e \in Edge : Wanted(e) <=> want[e] \in {kWantToStart, kWantToFinish}
      /\ \A e \in Edge : Wanted(e)' <=> want'[e] \in {kWantToStart, kWantToFinish}
  BY DEF TypeOK, PlanTypeOK, Wanted
<1>00. /\ Absent # kWantToStart /\ kWantToFinish # kWantToStart /\ Absent # kWantToFinish
       /\ kWantNothing \notin {Absent, kWantToStart, kWantToFinish}
  BY DEF Absent, kWantNothing, kWantToStart, kWantToFinish
<1>000. /\ UNCHANGED <<planned, started, built, failed, InHand, Distinct>>
  <2>1. Waits
    BY DEF Unwants, Schedules, Completes, Shuffles
  <2>. QED  BY <2>1 DEF Waits, runnerVars, history, InHand, Distinct
<1>1. ASSUME NEW x \in Edge, Unwants(x) PROVE LifeInv' /\ IdleInv'
  <2>1. /\ UNCHANGED <<delayed, ready, outputs_ready>> /\ C("Unwant", x) \in Pending
        /\ Pending' \subseteq Pending /\ want' = [want EXCEPT ![x] = kWantNothing]
    BY <1>1 DEF Unwants, Pops
  <2>2. want[x] # Absent /\ ~(DependsOn[x] \subseteq outputs_ready)
    BY <2>1 DEF IdleInv
  <2>3. /\ ready[x] = 0 /\ started[x] = 0
    BY <1>0, <2>2 DEF DependencyOrder, Scheduled, LifeInv
  <2>4. x \notin InHand /\ x \notin failed /\ x \notin built /\ C("EdgeFinished", x) \notin Pending
    BY <2>3 DEF LifeInv
  <2>5. Undelayed'
    BY <2>1 DEF LifeInv, Undelayed
  <2>6. LifeInv'
    BY <1>0, <1>00, <1>000, <2>1, <2>5 DEF LifeInv
  <2>7. IdleInv'
    BY <1>0, <1>00, <1>000, <2>1, <2>2, <2>3, <2>4 DEF IdleInv, Unready
  <2>. QED  BY <2>6, <2>7
<1>2. ASSUME NEW x \in Edge, Schedules(x) PROVE LifeInv' /\ IdleInv'
  <2>1. /\ UNCHANGED <<delayed, outputs_ready>> /\ Pops(C("EdgeMaybeReady", x)) /\ Pending' = Later
        /\ want[x] = kWantToStart /\ want' = [want EXCEPT ![x] = kWantToFinish]
        /\ ready' = [ready EXCEPT ![x] = @ + 1]
    BY <1>2 DEF Schedules
  <2>2. ready[x] = 0 /\ started[x] = 0 /\ x \in planned /\ x \notin outputs_ready
    BY <1>0, <1>00, <2>1 DEF LifeInv, IdleInv
  <2>3. Late(Pending')
    <3>1. "EdgeMaybeReady" \notin Early
      BY DEF Early
    <3>. QED  BY <2>1, <3>1, LateCalls
  <2>4. /\ ready'[x] = 1 /\ want'[x] = kWantToFinish
        /\ \A e \in Edge \ {x} : ready'[e] = ready[e] /\ want'[e] = want[e]
    BY <1>0, <2>1, <2>2
  <2>5. Undelayed'
    BY <2>1 DEF LifeInv, Undelayed
  <2>6. LifeInv'
    BY <1>0, <1>00, <1>000, <2>1, <2>2, <2>3, <2>4, <2>5, LateNames DEF LifeInv
  <2>7. IdleInv'
    BY <1>0, <1>00, <1>000, <2>1, <2>2, <2>3, <2>4, LateNames DEF IdleInv
  <2>. QED  BY <2>6, <2>7
<1>3. ASSUME NEW x \in Edge, Completes(x) PROVE LifeInv' /\ IdleInv'
  <2>1. /\ want[x] # Absent /\ want' = [want EXCEPT ![x] = Absent]
        /\ outputs_ready' = outputs_ready \cup {x}
    BY <1>3 DEF Completes
  <2>2. /\ ready'[x] = 0 /\ x \notin InHand /\ x \notin failed /\ delayed' = delayed
        /\ \A e \in Edge \ {x} : ready'[e] = ready[e]
        /\ Late(Pending')
    <3>1. ASSUME NEW X, Pending' = Each("NodeFinished", ToSet(Outs[x])) \cup X, Late(X)
          PROVE  Late(Pending')
      BY <3>1 DEF Late, Each, C, Early
    <3>2. "EdgeFinished" \notin Early /\ "EdgeMaybeReady" \notin Early /\ Late({})
      BY DEF Early, Late
    <3>3. CASE pc = "start" /\ x \in Phony /\ ready[x] > 0 /\ Pending = {} /\ Refilled(Polled(x))
               /\ Pending' = Each("NodeFinished", ToSet(Outs[x]))
      <4>1. started[x] = 0 /\ ready[x] = 1
        BY <1>0, <3>3 DEF LifeInv
      <4>2. ready' = [ready EXCEPT ![x] = @ - 1] /\ delayed' = delayed
        BY <3>3 DEF Refilled, Polled, LifeInv
      <4>3. Late(Pending')
        BY <3>1, <3>2, <3>3
      <4>. QED  BY <1>0, <4>1, <4>2, <4>3 DEF LifeInv
    <3>4. CASE Pops(C("EdgeFinished", x)) /\ Refilled(ready)
               /\ Pending' = Each("NodeFinished", ToSet(Outs[x])) \cup Later
      <4>1. C("EdgeFinished", x) \in Pending /\ Late(Later)
        BY <3>2, <3>4, LateCalls DEF Pops
      <4>2. x \in built
        BY <4>1 DEF LifeInv
      <4>3. ready' = ready /\ delayed' = delayed
        BY <3>4 DEF Refilled, LifeInv
      <4>4. started[x] > 0 /\ ready[x] = 0
        BY <1>0, <4>2 DEF LifeInv
      <4>5. Late(Pending')
        BY <3>1, <3>4, <4>1
      <4>. QED  BY <1>0, <4>2, <4>3, <4>4, <4>5 DEF LifeInv
    <3>5. CASE Pops(C("EdgeMaybeReady", x)) /\ want[x] = kWantNothing /\ Refilled(ready)
               /\ Pending' = Each("NodeFinished", ToSet(Outs[x])) \cup Later
      <4>1. Late(Later)
        BY <3>2, <3>5, LateCalls
      <4>2. ready[x] = 0 /\ x \notin InHand /\ x \notin failed
        BY <1>0, <1>00, <3>5 DEF IdleInv
      <4>3. ready' = ready /\ delayed' = delayed
        BY <3>5 DEF Refilled, LifeInv
      <4>4. Late(Pending')
        BY <3>1, <3>5, <4>1
      <4>. QED  BY <4>2, <4>3, <4>4
    <3>. QED  BY <1>3, <3>3, <3>4, <3>5 DEF Completes
  <2>3. Undelayed'
    BY <2>2 DEF LifeInv, Undelayed
  <2>4. want'[x] = Absent /\ \A e \in Edge \ {x} : want'[e] = want[e]
    BY <1>0, <2>1
  <2>5. LifeInv'
    BY <1>0, <1>00, <1>000, <2>1, <2>2, <2>3, <2>4, LateNames DEF LifeInv
  <2>6. IdleInv'
    BY <1>0, <1>00, <1>000, <2>1, <2>2, <2>4, LateNames DEF IdleInv
  <2>. QED  BY <2>5, <2>6
<1>4. ASSUME NEW c \in Call, NEW S \in SUBSET Call, Shuffles(c, S) PROVE LifeInv' /\ IdleInv'
  <2>1. /\ UNCHANGED <<delayed, want, ready, outputs_ready>>
        /\ Pops(c) /\ c \in Pending /\ Pending' = S \cup Later /\ Later \subseteq Pending
        /\ Replaces(c, S)
    BY <1>4 DEF Shuffles, Pops
  <2>2. \A e \in Edge : C("EdgeFinished", e) \notin S
    BY <2>1, CallsDiffer DEF Replaces
  <2>3. Undelayed' /\ \A e \in Edge : Wanted(e) <=> Wanted(e)'
    BY <1>0, <2>1 DEF LifeInv, Undelayed
  <2>4. LifeInv'
    BY <1>0, <1>000, <2>1, <2>2, <2>3 DEF LifeInv
  <2>5. ASSUME NEW n \in Node, C("RestatOutput", n) \in S \/ C("CleanNode", n) \in S
        PROVE  Unready(n)
    <3>1. \/ c = C("RestatOutput", n)
          \/ \E e \in Edge : c = C("RecomputeOutputsDirty", e) /\ n \in ToSet(Outs[e])
      BY <2>1, <2>5, CallsDiffer DEF Replaces
    <3>. QED  BY <2>1, <3>1 DEF IdleInv, Unready
  <2>6. ASSUME NEW e \in Edge, \/ C("CleanOutEdge", e) \in S
                               \/ C("RecomputeOutputsDirty", e) \in S \/ C("Unwant", e) \in S
        PROVE  ~(DependsOn[e] \subseteq outputs_ready)
    <3>1. \/ c = C("CleanOutEdge", e) \/ c = C("RecomputeOutputsDirty", e)
          \/ \E n \in Node : c = C("CleanNode", n) /\ e \in ToSet(OutEdges[n])
      BY <2>1, <2>6, CallsDiffer DEF Replaces
    <3>2. ASSUME NEW n \in Node, c = C("CleanNode", n), e \in ToSet(OutEdges[n])
          PROVE  ~(DependsOn[e] \subseteq outputs_ready)
      <4>1. PICK d \in Edge \ outputs_ready :
                /\ n \in ToSet(Outs[d])
                /\ d \in Phony => ~(DependsOn[d] \subseteq outputs_ready)
        BY <2>1, <3>2 DEF IdleInv, Unready
      <4>2. n \in Inputs(e) \/ (e \in Phony /\ n \in ToSet(Outs[e]))
        BY <3>2, GraphAssumption
      <4>3. CASE n \in Inputs(e)
        BY <4>1, <4>3 DEF DependsOn
      <4>4. CASE e \in Phony /\ n \in ToSet(Outs[e])
        <5>1. d = e
          BY <4>1, <4>4, GraphAssumption
        <5>. QED  BY <4>1, <4>4, <5>1
      <4>. QED  BY <4>2, <4>3, <4>4
    <3>. QED  BY <2>1, <3>1, <3>2 DEF IdleInv
  <2>7. ASSUME NEW e \in Edge, C("RecomputeOutputsDirty", e) \in S \/ C("Unwant", e) \in S
        PROVE  want[e] # Absent
    <3>1. \/ c = C("CleanOutEdge", e) /\ want[e] # Absent
          \/ c = C("RecomputeOutputsDirty", e)
      BY <2>1, <2>7, CallsDiffer DEF Replaces
    <3>. QED  BY <2>1, <3>1 DEF IdleInv
  <2>8. IdleInv'
    <3>1. \A e \in Edge : /\ ready'[e] > 0 => want'[e] = kWantToFinish
                          /\ e \in InHand' \/ e \in failed' => want'[e] = kWantToFinish
                          /\ C("EdgeFinished", e) \in Pending' => want'[e] = kWantToFinish
                          /\ want'[e] # Absent => e \notin outputs_ready'
      BY <1>000, <2>1, <2>2 DEF IdleInv
    <3>2. \A n \in Node : C("RestatOutput", n) \in Pending' \/ C("CleanNode", n) \in Pending' =>
              Unready(n)'
      BY <2>1, <2>5 DEF IdleInv, Unready
    <3>3. \A e \in Edge : C("CleanOutEdge", e) \in Pending' \/ C("RecomputeOutputsDirty", e) \in Pending'
                              \/ C("Unwant", e) \in Pending' =>
                                ~(DependsOn[e] \subseteq outputs_ready')
      BY <2>1, <2>6 DEF IdleInv
    <3>4. \A e \in Edge : C("RecomputeOutputsDirty", e) \in Pending' \/ C("Unwant", e) \in Pending' =>
              want'[e] # Absent
      BY <2>1, <2>7 DEF IdleInv
    <3>. QED  BY <3>1, <3>2, <3>3, <3>4 DEF IdleInv
  <2>. QED  BY <2>4, <2>8
<1>. QED  BY <1>1, <1>2, <1>3, <1>4

\* What the life of an edge rests on, of every manifest and of those without limited
\* pools.
OrderInv == TypeOK /\ PlanOrder /\ RunningOrder

\* It holds when building begins.
LEMMA InitOrder == Init => OrderInv
<1>1. RunnerInit => RunningOrder
  BY DEF RunnerInit, RunningOrder
<1>. QED  BY <1>1, InitType, PlanInitOrder DEF Init, OrderInv

\* Every step keeps the order, the life of every edge, and the peace of those that are not
\* wanted.
LEMMA NextLife ==
    ASSUME Unpooled, OrderInv, LifeInv, IdleInv, [Next]_vars
    PROVE  OrderInv' /\ LifeInv' /\ IdleInv'
<1>1. OrderInv' /\ Kinds /\ DependencyOrder
  BY NextType, NextOrder, NextKinds, DependencyOrderParts DEF OrderInv
<1>2. InTurn(calls')
  BY NextInTurn DEF OrderInv, IdleInv
<1>. QED  BY <1>1, <1>2, LoopLife, CallsLife DEF OrderInv, Kinds

\* Although several inputs of an edge may offer it, and restat rules may clean it
\* meanwhile, no command is started twice.
THEOREM RunsOnceHolds == ASSUME Unpooled PROVE Spec => []RunsOnce
<1>1. Init => OrderInv /\ LifeInv /\ IdleInv
  BY InitOrder, InitLife
<1>2. (OrderInv /\ LifeInv /\ IdleInv) /\ [Next]_vars => (OrderInv /\ LifeInv /\ IdleInv)'
  BY NextLife
<1>3. OrderInv /\ LifeInv => RunsOnce
  <2>1. SUFFICES ASSUME OrderInv, LifeInv, NEW e \in Edge PROVE started[e] <= 1
    BY DEF RunsOnce
  <2>2. ready[e] \in Nat /\ started[e] \in Nat /\ ready[e] + started[e] <= 1
    BY <2>1 DEF OrderInv, TypeOK, PlanTypeOK, LifeInv
  <2>. QED  BY <2>2
<1>. QED  BY <1>1, <1>2, <1>3, PTL DEF Spec

\* An edge that CleanNode has taken out of the plan is neither queued nor running.
THEOREM UnwantedIsIdleHolds == ASSUME Unpooled PROVE Spec => []UnwantedIsIdle
<1>1. Init => OrderInv /\ LifeInv /\ IdleInv
  BY InitOrder, InitLife
<1>2. (OrderInv /\ LifeInv /\ IdleInv) /\ [Next]_vars => (OrderInv /\ LifeInv /\ IdleInv)'
  BY NextLife
<1>3. OrderInv /\ LifeInv /\ IdleInv => UnwantedIsIdle
  <2>1. SUFFICES ASSUME OrderInv, LifeInv, IdleInv, NEW e \in Edge, want[e] = kWantNothing
                 PROVE  ~Scheduled(e)
    BY DEF UnwantedIsIdle
  <2>2. ready[e] \in Nat /\ kWantNothing # kWantToFinish
    BY <2>1 DEF OrderInv, TypeOK, PlanTypeOK, kWantNothing, kWantToFinish
  <2>3. ~Delayed(e)
    BY <2>1 DEF Delayed, LifeInv, Undelayed, ToSet
  <2>. QED  BY <2>1, <2>2, <2>3, ScheduledParts DEF IdleInv
<1>. QED  BY <1>1, <1>2, <1>3, PTL DEF Spec

\* Behind a failed edge nothing is started, and no outputs become ready.
THEOREM FailureContainedHolds == ASSUME Unpooled PROVE Spec => []FailureContained
<1>1. Init => OrderInv /\ LifeInv /\ IdleInv
  BY InitOrder, InitLife
<1>2. (OrderInv /\ LifeInv /\ IdleInv) /\ [Next]_vars => (OrderInv /\ LifeInv /\ IdleInv)'
  BY NextLife
<1>3. OrderInv /\ LifeInv /\ IdleInv => FailureContained
  <2>1. SUFFICES ASSUME OrderInv, LifeInv, IdleInv, NEW e \in failed, NEW x \in Edge, e \in DependsOn[x]
                 PROVE  started[x] = 0 /\ x \notin outputs_ready
    BY DEF FailureContained
  <2>2. e \in Edge /\ started[x] \in Nat /\ Closed(outputs_ready)
    BY <2>1 DEF OrderInv, TypeOK, PlanOrder
  <2>3. e \notin outputs_ready
    BY <2>1, <2>2 DEF IdleInv, Absent, kWantToFinish
  <2>4. x \notin outputs_ready
    BY <2>1, <2>2, <2>3 DEF Closed
  <2>5. ~(started[x] > 0)
    BY <2>1, <2>3 DEF LifeInv
  <2>. QED  BY <2>2, <2>4, <2>5
<1>. QED  BY <1>1, <1>2, <1>3, PTL DEF Spec

-----------------------------------------------------------------------------
(* The abstract schedule. *)

\* The commands that have been started and have not ended.
Active == {e \in Edge : started[e] > 0} \ (built \cup failed)

\* They are the runner's.
ActiveInv == pc \notin Outcome => Cardinality(Active) <= InUse

\* What makes a step of the builder one of the schedule.
SchedInv == OrderInv /\ LifeInv /\ IdleInv /\ CountInv /\ RunnerInv /\ BudgetInv /\ ActiveInv

\* Building begins with nothing started.
LEMMA InitSched == Init => SchedInv
<1>1. SUFFICES ASSUME Init PROVE ActiveInv
  BY InitOrder, InitLife, InitCounts, InitBounds DEF SchedInv
<1>2. running = <<>> /\ unstarted = 0 /\ Active = {}
  BY <1>1 DEF Init, RunnerInit, Active
<1>. QED  BY <1>2, FS_EmptySet DEF ActiveInv, InUse

\* The set of active commands is finite, and grows and shrinks by one.
LEMMA ActiveCount ==
    ASSUME TypeOK, NEW x \in Edge
    PROVE  /\ Cardinality(Active) \in Nat
           /\ Cardinality(Active \cup {x}) <= Cardinality(Active) + 1
           /\ x \in Active => Cardinality(Active \ {x}) = Cardinality(Active) - 1
<1>1. IsFiniteSet(Active)
  BY FS_Subset, GraphAssumption DEF Active
<1>2. Cardinality(Active) \in Nat
  BY <1>1, FS_CardinalityType
<1>3. Cardinality(Active \cup {x}) = IF x \in Active THEN Cardinality(Active)
                                    ELSE Cardinality(Active) + 1
  BY <1>1, FS_AddElement
<1>4. Cardinality(Active \ {x}) = IF x \in Active THEN Cardinality(Active) - 1
                                  ELSE Cardinality(Active)
  BY <1>1, FS_RemoveElement
<1>. HIDE DEF Active
<1>. QED  BY <1>2, <1>3, <1>4

\* The abstract schedule counts as everyone does.
LEMMA SameCardinality == \A S : Schedule!Cardinality(S) = Cardinality(S)
BY DEF Cardinality, Schedule!Cardinality

\* What a step does to the schedule.
LEMMA StepSchedules ==
    ASSUME Unpooled, NoRestat, SchedInv, [Next]_vars
    PROVE  /\ ActiveInv'
           /\ Schedule!SNext \/ UNCHANGED Schedule!svars
<1>0. /\ TypeOK /\ Kinds /\ DependencyOrder /\ Closed(outputs_ready) /\ LifeInv /\ IdleInv
      /\ ActiveInv /\ RunnerInv /\ ReadyMeansBuilt
      /\ started \in [Edge -> Nat] /\ ready \in [Edge -> Nat] /\ outputs_ready \in SUBSET Edge
      /\ Parallelism \in Nat /\ capacity \in Int /\ InUse \in Int
  BY NextKinds, DependencyOrderParts, InUseSteps, RunnerAssumption
  DEF SchedInv, OrderInv, PlanOrder, CountInv, TypeOK, PlanTypeOK, InUse
<1>1. ASSUME UNCHANGED history, pc' \in Outcome \/ (UNCHANGED InUse /\ pc \notin Outcome)
      PROVE  ActiveInv' /\ UNCHANGED Schedule!svars
  <2>1. UNCHANGED Active /\ UNCHANGED Schedule!svars
    BY <1>1 DEF history, Active, Schedule!svars
  <2>. QED  BY <1>0, <1>1, <2>1 DEF ActiveInv
<1>2. CASE Still \/ Quits
  BY <1>1, <1>2 DEF Still, Quits
<1>3. CASE Prepares
  BY <1>1, <1>3, OutcomeNames DEF Prepares, InUse, runnerVars
<1>4. CASE Waits
  BY <1>1, <1>4 DEF Waits, InUse, runnerVars
<1>5. ASSUME NEW x \in Edge, Starts(x)
      PROVE  ActiveInv' /\ Schedule!SNext
  <2>1. /\ x \notin Phony /\ ready[x] > 0 /\ pc = "start" /\ capacity > 0 /\ InUse' = InUse + 1
        /\ started' = [started EXCEPT ![x] = @ + 1] /\ UNCHANGED <<planned, built, failed>>
    BY <1>5 DEF Starts
  <2>2. DependsOn[x] \subseteq outputs_ready /\ x \in planned /\ started[x] = 0
    BY <1>0, <2>1 DEF DependencyOrder, Scheduled, LifeInv
  <2>3. x \notin built /\ x \notin failed
    BY <2>2, <1>0 DEF LifeInv
  <2>4. x \notin Active /\ Active' = Active \cup {x}
    BY <1>0, <2>1, <2>2, <2>3 DEF Active
  <2>5. Cardinality(Active) < Parallelism
    <3>1. Cardinality(Active) <= InUse /\ Cardinality(Active) \in Nat
      BY <1>0, <2>1, OutcomeNames, ActiveCount DEF ActiveInv
    <3>2. InUse + capacity <= Parallelism
      BY <1>0, <2>1 DEF RunnerInv
    <3>. QED  BY <1>0, <2>1, <3>1, <3>2
  <2>6. outputs_ready \cap (planned \ Phony) \subseteq built
    BY <1>0 DEF ReadyMeansBuilt
  <2>7. Schedule!Satisfied(x)
    BY <1>0, <2>2, <2>6 DEF Schedule!Satisfied, Closed
  <2>8. Schedule!Start(x)
    BY <2>1, <2>2, <2>3, <2>4, <2>5, <2>7, SameCardinality DEF Schedule!Start, Active
  <2>9. ActiveInv'
    <3>1. Cardinality(Active) <= InUse /\ Cardinality(Active') <= Cardinality(Active) + 1
      BY <1>0, <2>1, <2>4, OutcomeNames, ActiveCount DEF ActiveInv
    <3>2. Cardinality(Active) \in Nat /\ Cardinality(Active') \in Nat
      BY <1>0, <2>4, ActiveCount, FS_Subset, FS_CardinalityType, GraphAssumption DEF Active
    <3>. QED  BY <1>0, <2>1, <3>1, <3>2 DEF ActiveInv
  <2>. QED  BY <2>8, <2>9 DEF Schedule!SNext
<1>6. ASSUME NEW x \in Edge, Succeeds(x) \/ Fails(x)
      PROVE  ActiveInv' /\ Schedule!SNext
  <2>1. /\ x \in InHand /\ InUse' = InUse - 1 /\ pc = "reap" /\ UNCHANGED <<planned, started>>
        /\ \/ built' = built \cup {x} /\ UNCHANGED failed
           \/ failed' = failed \cup {x} /\ UNCHANGED built
    BY <1>6 DEF Succeeds, Fails, Reaps
  <2>2. x \in Active
    BY <1>0, <2>1 DEF LifeInv, Active
  <2>3. Active' = Active \ {x}
    BY <2>1 DEF Active
  <2>4. Schedule!Succeed(x) \/ Schedule!Fail(x)
    BY <2>1, <2>2, <2>3 DEF Schedule!Succeed, Schedule!Fail, Active
  <2>5. ActiveInv'
    <3>1. /\ Cardinality(Active) <= InUse /\ Cardinality(Active) \in Nat
          /\ Cardinality(Active') = Cardinality(Active) - 1
      BY <1>0, <2>1, <2>2, <2>3, OutcomeNames, ActiveCount DEF ActiveInv
    <3>. QED  BY <1>0, <2>1, <3>1 DEF ActiveInv
  <2>. QED  BY <2>4, <2>5 DEF Schedule!SNext
<1>. QED
  BY <1>0, <1>2, <1>3, <1>4, <1>5, <1>6
  DEF Kinds, Unwants, Schedules, Completes, Shuffles

\* Every step keeps it.
LEMMA NextSched ==
    ASSUME Unpooled, NoRestat, SchedInv, [Next]_vars
    PROVE  SchedInv'
<1>1. OrderInv' /\ LifeInv' /\ IdleInv'
  BY NextLife DEF SchedInv
<1>2. CountInv' /\ RunnerInv' /\ BudgetInv'
  BY NextCounts, NextBounds DEF SchedInv, OrderInv
<1>. QED  BY <1>1, <1>2, StepSchedules DEF SchedInv

\* The builder, with its plan, queues, pools, runner and faults, does nothing but run
\* the schedule: each planned command at most once, no more than -j at a time, and
\* none before everything it needs has been built.
THEOREM ImplementsScheduleHolds == ASSUME Unpooled, NoRestat PROVE Spec => ImplementsSchedule
<1>1. Init => SchedInv /\ Schedule!SInit
  <2>1. Init => Schedule!SInit
    BY DEF Init, Schedule!SInit
  <2>. QED  BY <2>1, InitSched
<1>2. SchedInv /\ [Next]_vars => SchedInv'
  BY NextSched
<1>3. SchedInv /\ [Next]_vars => [Schedule!SNext]_(Schedule!svars)
  BY StepSchedules
<1>. QED  BY <1>1, <1>2, <1>3, PTL DEF Spec, ImplementsSchedule, Schedule!SSpec

-----------------------------------------------------------------------------
(***************************************************************************)
(* No build gets stuck.  If the loop had nothing to wait for and more to   *)
(* do, some wanted edge would have no wanted edge before it (the graph has *)
(* no cycle); its inputs would be ready, so KeptInv has it queued, and the *)
(* loop starts what is queued while it has capacity.                       *)
(***************************************************************************)

\* Of the plan: an edge with nothing to do passes the readiness of its inputs on,
\* what an edge in the plan depends on is in the plan or ready, and the counter
\* does not exceed the number of wanted edges.
StuckInv ==
    /\ \A e \in Edge : want[e] = kWantNothing /\ DependsOn[e] \subseteq outputs_ready => Offered(e)
    /\ \A e \in Edge : want[e] # Absent =>
           \A d \in DependsOn[e] : want[d] # Absent \/ d \in outputs_ready
    /\ wanted_edges <= Cardinality({e \in Edge : Wanted(e)})

\* Of the loop: without a command it has capacity, and it waits only when nothing is
\* left to start.
LoopInv ==
    /\ pc = "start" /\ pending_commands = 0 => capacity > 0
    /\ pc = "reap" => calls = <<>>
    /\ pc = "reap" /\ pending_commands = 0 /\ failures_allowed = FailuresAllowed =>
           more_to_do /\ \A e \in Edge : ready[e] = 0

\* AddSubTarget leaves no planned edge without its producers, and plans none that has
\* nothing to do and nothing to wait for.
LEMMA InitStuck == Init => StuckInv /\ LoopInv
<1>1. SUFFICES ASSUME Init PROVE StuckInv /\ LoopInv
  OBVIOUS
<1>2. PICK D \in SUBSET Edge, W \in SUBSET (Edge \ outputs_ready) :
        /\ IsReadyScan(D, outputs_ready) /\ IsPlanned(outputs_ready, W)
        /\ want = [e \in Edge |-> IF e \notin W THEN Absent
                                  ELSE IF e \in D THEN kWantToStart ELSE kWantNothing]
        /\ wanted_edges = Cardinality(W \cap D)
  BY <1>1 DEF Init, PlanInit
<1>3. Absent # kWantToStart /\ Absent # kWantNothing /\ kWantToStart # kWantNothing
  BY DEF Absent, kWantToStart, kWantNothing
<1>4. ASSUME NEW e \in Edge, want[e] = kWantNothing PROVE ~(DependsOn[e] \subseteq outputs_ready)
  <2>1. e \in W /\ e \notin D /\ e \notin outputs_ready
    BY <1>2, <1>3, <1>4
  <2>. QED  BY <1>2, <2>1 DEF IsReadyScan
<1>5. ASSUME NEW e \in Edge, want[e] # Absent, NEW d \in DependsOn[e]
      PROVE  want[d] # Absent \/ d \in outputs_ready
  <2>1. e \in W /\ d \in Edge
    BY <1>2, <1>5 DEF DependsOn
  <2>2. d \in W \/ d \in outputs_ready
    BY <1>2, <1>5, <2>1 DEF IsPlanned
  <2>. QED  BY <1>2, <1>3, <2>1, <2>2
<1>6. {e \in Edge : Wanted(e)} = W \cap D
  BY <1>2, <1>3 DEF Wanted, kWantToFinish, Absent, kWantToStart, kWantNothing
<1>7. wanted_edges <= Cardinality({e \in Edge : Wanted(e)})
  <2>1. Cardinality(W \cap D) \in Nat
    BY FS_Subset, FS_CardinalityType, GraphAssumption
  <2>. QED  BY <1>2, <1>6, <2>1
<1>8. LoopInv
  BY <1>1 DEF Init, LoopInv
<1>. QED  BY <1>4, <1>5, <1>7, <1>8 DEF StuckInv

\* The counter stays below the number of wanted edges.
LEMMA WantedBound ==
    ASSUME TypeOK, wanted_edges <= Cardinality({e \in Edge : Wanted(e)})
    PROVE  /\ UNCHANGED wanted_edges /\ (\A e \in Edge : Wanted(e) <=> Wanted(e)') =>
                wanted_edges' <= Cardinality({e \in Edge : Wanted(e)}')
           /\ \A x \in Edge : \A w :
                /\ want' = [want EXCEPT ![x] = w] /\ w \in {Absent, kWantNothing}
                /\ \/ wanted_edges' = wanted_edges - 1
                   \/ wanted_edges' = wanted_edges /\ ~Wanted(x)
                => wanted_edges' <= Cardinality({e \in Edge : Wanted(e)}')
<1>. DEFINE W == {e \in Edge : Wanted(e)}
<1>0. /\ want \in [Edge -> {Absent, kWantNothing, kWantToStart, kWantToFinish}]
      /\ wanted_edges \in Int /\ IsFiniteSet(W) /\ Cardinality(W) \in Nat
  BY FS_Subset, FS_CardinalityType, GraphAssumption DEF TypeOK, PlanTypeOK
<1>1. ASSUME UNCHANGED wanted_edges, \A e \in Edge : Wanted(e) <=> Wanted(e)'
      PROVE  wanted_edges' <= Cardinality(W')
  <2>1. W' = W
    BY <1>1
  <2>. QED  BY <1>1, <2>1
<1>2. ASSUME NEW x \in Edge, NEW w, want' = [want EXCEPT ![x] = w], w \in {Absent, kWantNothing},
             \/ wanted_edges' = wanted_edges - 1
             \/ wanted_edges' = wanted_edges /\ ~Wanted(x)
      PROVE  wanted_edges' <= Cardinality(W')
  <2>1. W' = W \ {x}
    BY <1>0, <1>2 DEF Wanted, Absent, kWantNothing, kWantToStart, kWantToFinish
  <2>2. Cardinality(W') = IF x \in W THEN Cardinality(W) - 1 ELSE Cardinality(W)
    BY <1>0, <2>1, FS_RemoveElement
  <2>. HIDE DEF W
  <2>3. Wanted(x) <=> x \in W
    BY DEF W
  <2>. QED  BY <1>0, <1>2, <2>2, <2>3 DEF W
<1>. QED  BY <1>1, <1>2

\* Steps of the plan.
LEMMA NextStuck ==
    ASSUME TypeOK, IdleInv, StuckInv, Kinds
    PROVE  StuckInv'
<1>0. /\ want \in [Edge -> {Absent, kWantNothing, kWantToStart, kWantToFinish}]
      /\ \A e \in Edge : Wanted(e) <=> want[e] \in {kWantToStart, kWantToFinish}
      /\ \A e \in Edge : Wanted(e)' <=> want'[e] \in {kWantToStart, kWantToFinish}
  BY DEF TypeOK, PlanTypeOK, Wanted
<1>00. /\ Absent \notin {kWantNothing, kWantToStart, kWantToFinish}
       /\ kWantNothing \notin {kWantToStart, kWantToFinish}
  BY DEF Absent, kWantNothing, kWantToStart, kWantToFinish
<1>1. ASSUME \/ Still \/ Quits \/ \E x \in Edge : Starts(x) \/ Succeeds(x) \/ Fails(x)
      PROVE  StuckInv'
  <2>1. /\ UNCHANGED <<want, outputs_ready, wanted_edges>>
        /\ Pending' = Pending \/ Pending = {}
    BY <1>1 DEF Still, Quits, Starts, Succeeds, Fails, Reaps, planVars, Pending
  <2>2. wanted_edges' <= Cardinality({e \in Edge : Wanted(e)}')
    BY <1>0, <2>1, WantedBound DEF StuckInv
  <2>3. \A e \in Edge : Offered(e) => Offered(e)'
    BY <2>1 DEF Offered
  <2>. QED  BY <2>1, <2>2, <2>3 DEF StuckInv
<1>2. CASE Prepares
  <2>1. /\ UNCHANGED <<outputs_ready, wanted_edges>> /\ Pending' = Pending
        /\ want' = [e \in Edge |-> IF e \in Initial \ InitiallyDelayed
                                   THEN kWantToFinish ELSE want[e]]
    BY <1>2 DEF Prepares, Pending
  <2>2. \A e \in Edge : /\ Wanted(e) <=> Wanted(e)'
                        /\ want'[e] = kWantNothing => want[e] = kWantNothing
                        /\ want[e] # Absent <=> want'[e] # Absent
    BY <1>0, <1>00, <2>1 DEF Initial
  <2>3. wanted_edges' <= Cardinality({e \in Edge : Wanted(e)}')
    BY <2>1, <2>2, WantedBound DEF StuckInv
  <2>4. \A e \in Edge : Offered(e) => Offered(e)'
    BY <2>1 DEF Offered
  <2>5. \A e \in Edge : DependsOn[e] \subseteq Edge
    BY DEF DependsOn
  <2>. QED  BY <2>1, <2>2, <2>3, <2>4, <2>5 DEF StuckInv
<1>3. ASSUME NEW x \in Edge, Unwants(x) PROVE StuckInv'
  <2>1. /\ C("Unwant", x) \in Pending /\ UNCHANGED outputs_ready
        /\ want' = [want EXCEPT ![x] = kWantNothing] /\ wanted_edges' = wanted_edges - 1
    BY <1>3 DEF Unwants, Pops
  <2>2. want[x] # Absent /\ ~(DependsOn[x] \subseteq outputs_ready)
    BY <2>1 DEF IdleInv
  <2>3. wanted_edges' <= Cardinality({e \in Edge : Wanted(e)}')
    BY <2>1, WantedBound DEF StuckInv
  <2>4. \A e \in Edge : Offered(e) => Offered(e)'
    BY <1>3, OfferedNext
  <2>5. \A e \in Edge : want[e] # Absent <=> want'[e] # Absent
    BY <1>0, <1>00, <2>1, <2>2
  <2>6. \A e \in Edge : DependsOn[e] \subseteq Edge
    BY DEF DependsOn
  <2>. QED  BY <1>0, <2>1, <2>2, <2>3, <2>4, <2>5, <2>6 DEF StuckInv
<1>4. ASSUME NEW x \in Edge, Schedules(x) PROVE StuckInv'
  <2>1. /\ UNCHANGED <<outputs_ready, wanted_edges>> /\ want[x] = kWantToStart
        /\ want' = [want EXCEPT ![x] = kWantToFinish]
    BY <1>4 DEF Schedules
  <2>2. \A e \in Edge : /\ Wanted(e) <=> Wanted(e)'
                        /\ want'[e] = kWantNothing => want[e] = kWantNothing /\ e # x
                        /\ want[e] # Absent <=> want'[e] # Absent
    BY <1>0, <1>00, <2>1
  <2>3. wanted_edges' <= Cardinality({e \in Edge : Wanted(e)}')
    BY <2>1, <2>2, WantedBound DEF StuckInv
  <2>4. \A e \in Edge : e # x /\ Offered(e) => Offered(e)'
    BY <1>4, OfferedNext
  <2>5. \A e \in Edge : DependsOn[e] \subseteq Edge
    BY DEF DependsOn
  <2>. QED  BY <2>1, <2>2, <2>3, <2>4, <2>5 DEF StuckInv
<1>5. ASSUME NEW x \in Edge, Completes(x) PROVE StuckInv'
  <2>1. /\ want[x] # Absent /\ want' = [want EXCEPT ![x] = Absent]
        /\ outputs_ready' = outputs_ready \cup {x} /\ wanted_edges' = StillWanted(x)
    BY <1>5 DEF Completes
  <2>2. \A e \in Edge : want'[e] # Absent => want'[e] = want[e] /\ e # x
    BY <1>0, <2>1
  <2>3. wanted_edges' <= Cardinality({e \in Edge : Wanted(e)}')
    <3>1. \/ wanted_edges' = wanted_edges - 1
          \/ wanted_edges' = wanted_edges /\ ~Wanted(x)
      BY <1>0, <1>00, <2>1 DEF StillWanted
    <3>. QED  BY <2>1, <3>1, WantedBound DEF StuckInv
  <2>4. \A e \in Edge : /\ e # x /\ Offered(e) => Offered(e)'
                        /\ x \in DependsOn[e] => Offered(e)'
    BY <1>5, OfferedNext
  <2>5. ASSUME NEW e \in Edge, want'[e] = kWantNothing, DependsOn[e] \subseteq outputs_ready'
        PROVE  Offered(e)'
    <3>1. want[e] = kWantNothing /\ e # x
      BY <1>00, <2>2, <2>5
    <3>2. x \in DependsOn[e] \/ DependsOn[e] \subseteq outputs_ready
      BY <2>1, <2>5
    <3>. QED  BY <2>4, <3>1, <3>2 DEF StuckInv
  <2>6. ASSUME NEW e \in Edge, want'[e] # Absent, NEW d \in DependsOn[e]
        PROVE  want'[d] # Absent \/ d \in outputs_ready'
    <3>1. d \in Edge /\ (want[d] # Absent \/ d \in outputs_ready)
      BY <2>2, <2>6 DEF StuckInv, DependsOn
    <3>. QED  BY <1>0, <2>1, <3>1
  <2>. QED  BY <2>3, <2>5, <2>6 DEF StuckInv
<1>6. ASSUME NEW c \in Call, NEW S \in SUBSET Call, Shuffles(c, S) PROVE StuckInv'
  <2>1. UNCHANGED <<want, outputs_ready, wanted_edges>> /\ Replaces(c, S)
    BY <1>6 DEF Shuffles
  <2>2. wanted_edges' <= Cardinality({e \in Edge : Wanted(e)}')
    BY <1>0, <2>1, WantedBound DEF StuckInv
  <2>3. ASSUME NEW e \in Edge, c = C("EdgeMaybeReady", e), want[e] = kWantNothing
        PROVE  ~(DependsOn[e] \subseteq outputs_ready)
    BY <1>00, <2>1, <2>3, CallsDiffer DEF Replaces
  <2>4. \A e \in Edge : Offered(e) => Offered(e)' \/ c = C("EdgeMaybeReady", e)
    BY <1>6, OfferedNext
  <2>. QED  BY <2>1, <2>2, <2>3, <2>4 DEF StuckInv
<1>. QED  BY <1>1, <1>2, <1>3, <1>4, <1>5, <1>6 DEF Kinds

\* Without a load limit an idle runner has room for a command.
LEMMA IdleCapacity ==
    ASSUME ~LoadLimited, NEW c \in CanRunMore(0, 0)
    PROVE  c > 0
<1>1. c = Capacity(0, 0, 0) /\ Parallelism \in Nat /\ Parallelism > 0
  BY RunnerAssumption DEF CanRunMore
<1>2. HalfCapacity(0, 0, 0) = 2 * Parallelism
  BY <1>1 DEF HalfCapacity, Places
<1>3. (2 * Parallelism) \div 2 = Parallelism /\ 2 * Parallelism # 0
  BY <1>1
<1>. QED  BY <1>1, <1>2, <1>3 DEF Capacity

\* Steps of the loop.
LEMMA NextLoop ==
    ASSUME ~LoadLimited, TypeOK, RunnerInv, LoopInv, [Next]_vars
    PROVE  LoopInv'
<1>0. /\ RunnerTypeOK /\ Len(running) \in Nat /\ unstarted \in Nat /\ pending_commands \in Int
      /\ FailuresAllowed \in Nat /\ FailuresAllowed > 0
      /\ pc \notin Outcome => pending_commands = Len(running) + unstarted
  BY InUseSteps, BuilderAssumption DEF TypeOK, RunnerInv, ParallelismKept
<1>1. ASSUME pc' \notin {"start", "reap"} PROVE LoopInv'
  BY <1>1 DEF LoopInv
<1>2. ASSUME pc' \in Outcome PROVE LoopInv'
  BY <1>1, <1>2, OutcomeNames
<1>3. ASSUME UNCHANGED loopVars, UNCHANGED planVars \/ pc # "reap"
      PROVE  LoopInv'
  BY <1>3 DEF LoopInv, loopVars, planVars, more_to_do
<1>4. CASE LoopTop
  <2>1. CASE pc' = "start"
    <3>1. /\ pc = "loop" /\ capacity' \in CanRunMore(Len(running), unstarted)
          /\ UNCHANGED pending_commands
      BY <1>4, <2>1 DEF LoopTop, AtLoop
    <3>2. ASSUME pending_commands' = 0 PROVE capacity' > 0
      <4>1. Len(running) = 0 /\ unstarted = 0
        BY <1>0, <3>1, <3>2, OutcomeNames
      <4>. QED  BY <3>1, <4>1, IdleCapacity
    <3>. QED  BY <2>1, <3>2 DEF LoopInv
  <2>2. CASE pc' = "reap"
    <3>1. calls' = <<>> /\ failures_allowed' = 0
      BY <1>4, <2>2 DEF LoopTop, AtLoop, planVars
    <3>. QED  BY <1>0, <2>2, <3>1 DEF LoopInv
  <2>. QED  BY <1>1, <2>1, <2>2
<1>5. CASE StartDone
  <2>1. CASE pc' = "reap"
    <3>1. /\ pc = "start" /\ calls' = <<>> /\ UNCHANGED <<pending_commands, planVars>>
          /\ capacity <= 0 \/ \A e \in Edge : ~(ready[e] > 0)
          /\ pending_commands # 0 \/ more_to_do
      BY <1>5, <2>1 DEF StartDone, AtLoop, planVars, FindWork
    <3>2. ASSUME pending_commands' = 0
          PROVE  more_to_do' /\ \A e \in Edge : ready'[e] = 0
      <4>1. capacity > 0 /\ more_to_do /\ capacity \in Int
        BY <3>1, <3>2 DEF LoopInv, TypeOK
      <4>2. \A e \in Edge : ready[e] = 0
        BY <3>1, <4>1 DEF TypeOK, PlanTypeOK
      <4>. QED  BY <3>1, <4>1, <4>2 DEF planVars, more_to_do
    <3>. QED  BY <2>1, <3>1, <3>2 DEF LoopInv
  <2>2. CASE pc' # "reap"
    BY <1>1, <1>5, <2>2 DEF StartDone
  <2>. QED  BY <2>1, <2>2
<1>6. ASSUME NEW e \in Edge, StartEdge(e) PROVE LoopInv'
  <2>1. pc = "start" /\ pending_commands' = pending_commands + 1 /\ pc' \in {"start", "fatal"}
    BY <1>6 DEF StartEdge, CanStart, AtLoop
  <2>2. pending_commands' # 0
    BY <1>0, <2>1, OutcomeNames
  <2>. QED  BY <2>1, <2>2 DEF LoopInv
<1>7. ASSUME NEW e \in Edge, FinishCommandSucceeds(e) \/ FinishCommandFails(e) PROVE LoopInv'
  BY <1>1, <1>7 DEF FinishCommandSucceeds, FinishCommandFails, Reaped
<1>8. CASE PrepareQueue
  BY <1>1, <1>8 DEF PrepareQueue
<1>9. CASE NoProgress
  <2>1. pc' \in Outcome
    BY <1>9, Zenon DEF NoProgress, Outcome
  <2>. QED  BY <1>2, <2>1
<1>10. ASSUME \E o \in Outcome : Die(o) \/ CleanupAndStop(o) PROVE LoopInv'
  BY <1>2, <1>10 DEF Die, CleanupAndStop
<1>11. ASSUME \/ LoadUnknown \/ WaitFails \/ FinishCommandAborts
              \/ \E e \in Edge : FinishUnplanned(e) \/ StartEdgeFails(e)
       PROVE  LoopInv'
  BY <1>10, <1>11, LoopSteps
<1>12. ASSUME \E e \in Edge : StartPhony(e) PROVE LoopInv'
  BY <1>3, <1>12 DEF StartPhony, CanStart, AtLoop
<1>13. ASSUME \/ PlanCall \/ (\E n \in Node : RestatOutput(n)) \/ (\E e \in Edge : RecordCommand(e))
       PROVE  LoopInv'
  <2>1. UNCHANGED loopVars /\ calls # <<>>
    BY <1>13 DEF PlanCall, RestatOutput, RecordCommand, NextCall
  <2>. QED  BY <1>3, <2>1 DEF LoopInv
<1>14. CASE ChildExit \/ UNCHANGED vars
  BY <1>3, <1>14 DEF ChildExit, vars
<1>. QED
  BY <1>4, <1>5, <1>6, <1>7, <1>8, <1>9, <1>11, <1>12, <1>13, <1>14 DEF Next, BuildStep, Ended

\* The loop is stuck only when it waits for nothing and no failure has been counted.
LEMMA StuckOnly ==
    ASSUME [Next]_vars, pc # "stuck", pc' = "stuck"
    PROVE  AtLoop("reap") /\ pending_commands = 0 /\ ~(failures_allowed < FailuresAllowed)
<1>1. CASE NoProgress
  <2>1. AtLoop("reap") /\ pending_commands = 0
    BY <1>1, Zenon DEF NoProgress
  <2>2. failures_allowed < FailuresAllowed => pc' # "stuck"
    BY <1>1, Zenon DEF NoProgress
  <2>. QED  BY <2>1, <2>2
<1>2. ASSUME \E o \in Outcome \ {"succeeded", "stuck"} : Die(o) \/ CleanupAndStop(o) PROVE FALSE
  BY <1>2 DEF Die, CleanupAndStop
<1>3. ASSUME \/ LoadUnknown \/ WaitFails \/ FinishCommandAborts
             \/ \E e \in Edge : FinishUnplanned(e) \/ StartEdgeFails(e)
      PROVE  FALSE
  BY <1>2, <1>3, LoopSteps
<1>4. ASSUME UNCHANGED loopVars PROVE FALSE
  BY <1>4 DEF loopVars
<1>5. ASSUME \/ PlanCall \/ ChildExit \/ UNCHANGED vars
             \/ \E n \in Node : RestatOutput(n)
             \/ \E e \in Edge : StartPhony(e) \/ RecordCommand(e)
      PROVE  FALSE
  BY <1>4, <1>5 DEF PlanCall, ChildExit, vars, RestatOutput, StartPhony, RecordCommand
<1>6. ASSUME \/ PrepareQueue \/ LoopTop \/ StartDone
             \/ \E e \in Edge : StartEdge(e) \/ FinishCommandSucceeds(e) \/ FinishCommandFails(e)
      PROVE  FALSE
  BY <1>6 DEF PrepareQueue, LoopTop, StartDone, StartEdge, FinishCommandSucceeds,
              FinishCommandFails, Reaped
<1>. QED  BY <1>1, <1>3, <1>5, <1>6 DEF Next, BuildStep, Ended

\* The graph has no cycle, so some edge of the plan waits for none of its others.
LEMMA FrontEdge ==
    ASSUME TypeOK, StuckInv, wanted_edges > 0
    PROVE  \E e \in Edge : want[e] # Absent /\ DependsOn[e] \subseteq outputs_ready
<1>. DEFINE W == {e \in Edge : Wanted(e)}
            S == {e \in Edge : want[e] # Absent}
<1>1. W # {}
  <2>1. W = {} => Cardinality(W) = 0
    BY FS_EmptySet
  <2>. QED  BY <2>1 DEF StuckInv, TypeOK, PlanTypeOK
<1>2. S # {}
  BY <1>1 DEF Wanted, Absent, kWantToStart, kWantToFinish
<1>3. PICK e \in S : DependsOn[e] \cap S = {}
  BY <1>2, AcyclicAssumption
<1>4. DependsOn[e] \subseteq Edge
  BY <1>3 DEF DependsOn
<1>5. \A d \in DependsOn[e] : want[d] # Absent \/ d \in outputs_ready
  BY <1>3 DEF StuckInv
<1>. QED  BY <1>3, <1>4, <1>5

\* While nothing has failed and nothing is running, the loop has something to start.
LEMMA SomethingToDo ==
    ASSUME OrderInv, KeptInv, LifeInv, IdleInv, RunnerInv, BudgetInv, StuckInv, LoopInv,
           AtLoop("reap"), pending_commands = 0, ~(failures_allowed < FailuresAllowed)
    PROVE  FALSE
<1>0. /\ TypeOK /\ PlanTypeOK /\ RunnerTypeOK /\ FailuresAllowed \in Nat /\ FailuresAllowed > 0
      /\ failures_allowed \in Nat /\ failed \subseteq Edge /\ pc = "reap" /\ calls = <<>>
  BY BuilderAssumption DEF OrderInv, TypeOK, AtLoop
<1>1. failures_allowed = FailuresAllowed /\ more_to_do /\ \A e \in Edge : ready[e] = 0
  BY <1>0 DEF BudgetInv, LoopInv
<1>2. Pending = {} /\ pc \notin Outcome /\ pc # "prepare"
  BY <1>0, PendingParts, OutcomeNames
<1>3. InHand = {} /\ unstarted = 0
  <2>1. Len(running) \in Nat /\ unstarted \in Nat /\ Len(running) + unstarted = 0
    BY <1>0, <1>2, InUseSteps DEF RunnerInv, ParallelismKept
  <2>2. running = <<>>
    BY <1>0, <2>1, EmptySeq DEF RunnerTypeOK
  <2>. QED  BY <2>1, <2>2 DEF InHand
<1>4. failed = {}
  <2>1. IsFiniteSet(failed) /\ Cardinality(failed) \in Nat /\ Cardinality(failed) <= 0
    BY <1>0, <1>1, FS_Subset, FS_CardinalityType, GraphAssumption DEF BudgetInv
  <2>. QED  BY <2>1, FS_EmptySet
<1>5. ~Stalled /\ \A e \in Edge : ~Offered(e) /\ ~Delayed(e) /\ ~Scheduled(e)
  <2>1. \A e \in Edge : ~Delayed(e)
    BY DEF Delayed, LifeInv, Undelayed, ToSet
  <2>. QED  BY <1>1, <1>2, <1>3, <2>1, ScheduledParts DEF Stalled, Offered
<1>6. PICK e \in Edge : want[e] # Absent /\ DependsOn[e] \subseteq outputs_ready
  <2>1. wanted_edges > 0
    BY <1>1 DEF more_to_do
  <2>. QED  BY <1>0, <2>1, FrontEdge
<1>7. want[e] \in {kWantNothing, kWantToStart, kWantToFinish}
  BY <1>0, <1>6 DEF PlanTypeOK
<1>8. want[e] # kWantNothing
  BY <1>5, <1>6 DEF StuckInv
<1>9. want[e] # kWantToStart
  BY <1>2, <1>5, <1>6 DEF KeptInv
<1>10. want[e] # kWantToFinish
  BY <1>4, <1>5 DEF KeptInv
<1>. QED  BY <1>7, <1>8, <1>9, <1>10

\* What NeverStuck rests on.
AllInv ==
    /\ OrderInv /\ KeptInv /\ LifeInv /\ IdleInv
    /\ RunnerInv /\ BudgetInv /\ StuckInv /\ LoopInv
    /\ NeverStuck

\* Whatever fails and whatever restat rules clean, a build without pools and without a
\* load limit always finds something to start or to wait for until it is done, or has
\* failed a command.
THEOREM NeverStuckHolds == ASSUME Unpooled, ~LoadLimited PROVE Spec => []NeverStuck
<1>1. Init => AllInv
  <2>1. Init => NeverStuck
    BY DEF Init, NeverStuck
  <2>. QED  BY <2>1, InitOrder, InitKept, InitLife, InitBounds, InitStuck DEF AllInv
<1>2. AllInv /\ [Next]_vars => AllInv'
  <2>1. SUFFICES ASSUME AllInv, [Next]_vars PROVE AllInv'
    OBVIOUS
  <2>2. TypeOK /\ Kinds
    BY <2>1, NextKinds DEF AllInv, OrderInv
  <2>3. OrderInv' /\ LifeInv' /\ IdleInv'
    BY <2>1, NextLife DEF AllInv
  <2>4. KeptInv' /\ StuckInv'
    BY <2>1, <2>2, NextKept, NextStuck DEF AllInv
  <2>5. RunnerInv' /\ BudgetInv' /\ LoopInv'
    BY <2>1, <2>2, NextBounds, NextLoop DEF AllInv
  <2>6. NeverStuck'
    BY <2>1, StuckOnly, SomethingToDo DEF AllInv, NeverStuck
  <2>. QED  BY <2>3, <2>4, <2>5, <2>6 DEF AllInv
<1>3. AllInv => NeverStuck
  BY DEF AllInv
<1>. QED  BY <1>1, <1>2, <1>3, PTL DEF Spec
-----------------------------------------------------------------------------
(***************************************************************************)
(* The depth of a pool.  An edge that a pool has let in stays in delayed_  *)
(* and is let in again, so that the queue holds copies; PoolDepthKept      *)
(* holds all the same, because every copy has been counted: each one that  *)
(* is queued, is running or is about to be finished has its own place in   *)
(* current_use_.                                                           *)
(***************************************************************************)

\* The copies of a pool's edges in the queue q, its edges that run, and whether one of them
\* is about to be finished.
Queued(q, p) == {t \in Edge \X (Nat \ {0}) : PoolOf[t[1]] = p /\ t[2] <= q[t[1]]}
RunOf(p) == {i \in DOMAIN running : PoolOf[running[i].edge] = p}
EndOf(p) == IF \E e \in Edge : PoolOf[e] = p /\ C("EdgeFinished", e) \in Pending THEN 1 ELSE 0

\* delayed_ holds edges of its own pool, each once.
DelayedRight(d, p) ==
    /\ d \in Seq(Edge)
    /\ \A i \in 1..Len(d) : PoolOf[d[i]] = p
    /\ \A i, j \in 1..Len(d) : d[i] = d[j] => i = j
    /\ Depth[p] = 0 => Len(d) = 0

\* The queue is r when the first k edges of d have been moved to q.
LetIn(q, r, d, k) == \A x \in Edge : r[x] = q[x] + Copies(d, k, x)

\* It is r when a copy of e has been taken from q.
TakenOut(q, r, e) == \A x \in Edge : r[x] = IF x = e THEN q[e] - 1 ELSE q[x]

\* There is a place for all that is queued in q and for |n| more.
Fits(q, n, u, p) ==
    /\ IsFiniteSet(Queued(q, p))
    /\ Cardinality(Queued(q, p)) + n <= u
    /\ u <= Depth[p]

\* The invariant: nothing is counted before PrepareQueue, what is delayed is in its own pool
\* and there once, and every copy queued, every running edge and the edge about to be finished
\* has its own place in current_use_.
PoolInv ==
    /\ pc = "prepare" => running = <<>> /\ calls = <<>> /\ \A p \in Pool : use[p] = 0
    /\ \A p \in Pool : DelayedRight(delayed[p], p)
    /\ \A p \in Pool : Depth[p] # 0 => Fits(ready, Cardinality(RunOf(p)) + EndOf(p), use[p], p)

\* Among edges without duplicates there is one copy of each at most.
LEMMA CopiesOfDistinct ==
    ASSUME NEW p \in Pool, NEW d, DelayedRight(d, p), NEW k \in 0..Len(d), NEW e \in Edge
    PROVE  /\ Copies(d, k, e) = IF \E i \in 1..k : d[i] = e THEN 1 ELSE 0
           /\ PoolOf[e] # p => Copies(d, k, e) = 0
<1>. DEFINE S == {i \in 1..k : d[i] = e}
<1>1. Len(d) \in Nat /\ k \in Nat
  BY LenProperties DEF DelayedRight
<1>2. \A i \in 1..k : i \in 1..Len(d)
  BY <1>1
<1>3. CASE \E i \in 1..k : d[i] = e
  <2>1. PICK i \in 1..k : d[i] = e
    BY <1>3
  <2>2. S = {i}
    BY <1>2, <2>1 DEF DelayedRight
  <2>3. Cardinality(S) = 1
    BY <2>2, FS_Singleton
  <2>. QED  BY <1>2, <1>3, <2>1, <2>3 DEF Copies, DelayedRight
<1>4. CASE ~\E i \in 1..k : d[i] = e
  <2>1. S = {}
    BY <1>4
  <2>2. Cardinality(S) = 0
    BY <2>1, FS_EmptySet
  <2>. QED  BY <1>4, <2>2 DEF Copies
<1>. QED  BY <1>3, <1>4

\* A copy that FindWork takes is one copy less.
LEMMA QueuedPolled ==
    ASSUME NEW q \in [Edge -> Nat], NEW e \in Edge, q[e] > 0,
           NEW r, TakenOut(q, r, e), NEW p \in Pool, IsFiniteSet(Queued(q, p))
    PROVE  /\ IsFiniteSet(Queued(r, p))
           /\ Cardinality(Queued(r, p)) \in Nat /\ Cardinality(Queued(q, p)) \in Nat
           /\ Cardinality(Queued(r, p))
                = Cardinality(Queued(q, p)) - (IF PoolOf[e] = p THEN 1 ELSE 0)
<1>1. \A x \in Edge : r[x] = IF x = e THEN q[e] - 1 ELSE q[x]
  BY DEF TakenOut
<1>2. CASE PoolOf[e] = p
  <2>1. <<e, q[e]>> \in Queued(q, p)
    BY <1>2 DEF Queued
  <2>2. Queued(r, p) = Queued(q, p) \ {<<e, q[e]>>}
    <3>1. ASSUME NEW t \in Edge \X (Nat \ {0})
          PROVE  t[2] <= r[t[1]] <=> t[2] <= q[t[1]] /\ t # <<e, q[e]>>
      <4>1. PICK x \in Edge, j \in Nat \ {0} : t = <<x, j>>
        OBVIOUS
      <4>2. j <= r[x] <=> j <= q[x] /\ ~(x = e /\ j = q[e])
        BY <1>1
      <4>. QED  BY <4>1, <4>2
    <3>. QED  BY <3>1 DEF Queued
  <2>3. /\ IsFiniteSet(Queued(r, p))
        /\ Cardinality(Queued(r, p)) = Cardinality(Queued(q, p)) - 1
    BY <2>1, <2>2, FS_RemoveElement
  <2>4. Cardinality(Queued(r, p)) \in Nat /\ Cardinality(Queued(q, p)) \in Nat
    BY <2>3, FS_CardinalityType
  <2>. QED  BY <1>2, <2>3, <2>4
<1>3. CASE PoolOf[e] # p
  <2>1. Queued(r, p) = Queued(q, p)
    BY <1>1, <1>3 DEF Queued
  <2>. QED  BY <1>3, <2>1, FS_CardinalityType
<1>. QED  BY <1>2, <1>3

\* The edges that a pool lets in are that many copies more, and none of another pool.
LEMMA QueuedGrows ==
    ASSUME NEW q \in [Edge -> Nat], NEW o \in Pool, NEW d, DelayedRight(d, o),
           NEW k \in 0..Len(d), NEW r, LetIn(q, r, d, k),
           NEW p \in Pool, IsFiniteSet(Queued(q, p))
    PROVE  /\ IsFiniteSet(Queued(r, p))
           /\ Cardinality(Queued(r, p)) \in Nat /\ Cardinality(Queued(q, p)) \in Nat
           /\ Cardinality(Queued(r, p))
                <= Cardinality(Queued(q, p)) + (IF p = o THEN k ELSE 0)
<1>0. /\ Len(d) \in Nat /\ k \in Nat /\ \A i \in 1..k : i \in 1..Len(d) /\ d[i] \in Edge
  BY LenProperties, ElementOfSeq DEF DelayedRight
<1>1. \A x \in Edge : /\ r[x] = q[x] + (IF \E i \in 1..k : d[i] = x THEN 1 ELSE 0)
                      /\ PoolOf[x] # o => r[x] = q[x]
  BY CopiesOfDistinct DEF LetIn
<1>2. CASE p # o
  <2>1. Queued(r, p) = Queued(q, p)
    BY <1>1, <1>2 DEF Queued
  <2>. QED  BY <1>2, <2>1, FS_CardinalityType
<1>3. CASE p = o
  <2>. DEFINE f == [i \in 1..k |-> <<d[i], q[d[i]] + 1>>]
              T == {f[i] : i \in 1..k}
  <2>1. f \in Surjection(1..k, T)
    BY DEF Surjection
  <2>2. IsFiniteSet(1..k) /\ Cardinality(1..k) = k
    BY <1>0, FS_Interval
  <2>3. IsFiniteSet(T) /\ Cardinality(T) <= k
    BY <2>1, <2>2, FS_Surjection
  <2>4. Queued(r, p) \subseteq Queued(q, p) \cup T
    <3>1. SUFFICES ASSUME NEW x \in Edge, NEW j \in Nat \ {0}, PoolOf[x] = p, j <= r[x], ~(j <= q[x])
                   PROVE  <<x, j>> \in T
      BY DEF Queued
    <3>2. PICK i \in 1..k : d[i] = x
      BY <1>1, <3>1
    <3>3. j = q[x] + 1
      BY <1>1, <3>1, <3>2
    <3>4. f[i] = <<x, j>>
      BY <3>2, <3>3
    <3>. QED  BY <3>4
  <2>. HIDE DEF T
  <2>5. /\ IsFiniteSet(Queued(q, p) \cup T)
        /\ Cardinality(Queued(q, p) \cup T)
             = Cardinality(Queued(q, p)) + Cardinality(T) - Cardinality(Queued(q, p) \cap T)
    BY <2>3, FS_Union
  <2>6. IsFiniteSet(Queued(q, p) \cap T)
    BY <2>3, FS_Intersection
  <2>7. /\ Cardinality(T) \in Nat /\ Cardinality(Queued(q, p)) \in Nat
        /\ Cardinality(Queued(q, p) \cap T) \in Nat
    BY <2>3, <2>6, FS_CardinalityType
  <2>8. /\ IsFiniteSet(Queued(r, p))
        /\ Cardinality(Queued(r, p)) <= Cardinality(Queued(q, p) \cup T)
    BY <2>4, <2>5, FS_Subset
  <2>9. Cardinality(Queued(r, p)) \in Nat
    BY <2>8, FS_CardinalityType
  <2>. QED  BY <1>0, <1>3, <2>3, <2>5, <2>7, <2>8, <2>9
<1>. QED  BY <1>2, <1>3

\* RetrieveReadyEdges keeps to the depth of the pool.
LEMMA RetrievedFits ==
    ASSUME NEW q \in [Edge -> Nat], NEW o \in Pool, NEW d, DelayedRight(d, o),
           NEW u \in Int, NEW r,
           LetIn(q, r, d, Retrieved(o, d, u)),
           NEW p \in Pool, Depth[p] # 0, NEW n \in Nat, NEW v \in Int,
           Fits(q, n, IF p = o THEN u ELSE v, p)
    PROVE  Fits(r, n, IF p = o THEN u + Retrieved(o, d, u) ELSE v, p)
<1>. DEFINE k == Retrieved(o, d, u)
<1>1. d \in Seq(Edge) /\ k \in 0..Len(d) /\ Depth[o] \in Nat /\ Depth[p] \in Nat
  BY RetrievedRange, GraphAssumption DEF DelayedRight
<1>2. Len(d) \in Nat /\ k \in Nat
  BY <1>1, LenProperties
<1>3. u <= Depth[o] => u + k <= Depth[o]
  BY <1>1, <1>2 DEF Retrieved
<1>. HIDE DEF k
<1>4. /\ IsFiniteSet(Queued(r, p))
      /\ Cardinality(Queued(r, p)) \in Nat /\ Cardinality(Queued(q, p)) \in Nat
      /\ Cardinality(Queued(r, p)) <= Cardinality(Queued(q, p)) + (IF p = o THEN k ELSE 0)
  <2>1. LetIn(q, r, d, k)
    BY DEF k
  <2>2. IsFiniteSet(Queued(q, p))
    BY DEF Fits
  <2>. QED  BY <1>1, <2>1, <2>2, QueuedGrows
<1>5. Cardinality(Queued(r, p)) + n <= IF p = o THEN u + k ELSE v
  <2>1. Cardinality(Queued(q, p)) + n <= IF p = o THEN u ELSE v
    BY DEF Fits
  <2>. QED  BY <1>2, <1>4, <2>1
<1>6. (IF p = o THEN u + k ELSE v) <= Depth[p]
  BY <1>3 DEF Fits
<1>7. Fits(r, n, IF p = o THEN u + k ELSE v, p)
  BY <1>4, <1>5, <1>6 DEF Fits
<1>. QED  BY <1>7 DEF k

\* Only the edges of the pool count.
LEMMA QueuedSame ==
    ASSUME NEW q, NEW r, NEW p, \A x \in Edge : PoolOf[x] = p => q[x] = r[x]
    PROVE  Queued(q, p) = Queued(r, p)
  BY DEF Queued

\* An edge that is delayed is delayed once, and in its own pool.
LEMMA DelayEdgeRight ==
    ASSUME NEW e \in Edge, NEW d, DelayedRight(d, PoolOf[e]), ShouldDelayEdge(PoolOf[e])
    PROVE  DelayedRight(DelayEdge(d, e), PoolOf[e])
<1>1. CASE e \in ToSet(d)
  BY <1>1 DEF DelayEdge
<1>2. CASE e \notin ToSet(d)
  <2>1. DelayEdge(d, e) = Append(d, e) /\ d \in Seq(Edge)
    BY <1>2 DEF DelayEdge, DelayedRight
  <2>2. /\ Append(d, e) \in Seq(Edge) /\ Len(d) \in Nat /\ Len(Append(d, e)) = Len(d) + 1
        /\ \A i \in 1..Len(d) : Append(d, e)[i] = d[i]
        /\ Append(d, e)[Len(d) + 1] = e
    BY <2>1, AppendProperties, LenProperties
  <2>3. \A i \in 1..Len(d) : d[i] # e
    BY <1>2, <2>1, LenProperties DEF ToSet
  <2>4. \A i \in 1..Len(d) + 1 : i \in 1..Len(d) \/ i = Len(d) + 1
    BY <2>2
  <2>. QED  BY <2>1, <2>2, <2>3, <2>4 DEF DelayedRight, ShouldDelayEdge
<1>. QED  BY <1>1, <1>2

\* EdgeFinished gives one place back, unless nothing was wanted of the edge, and lets others in.
LEMMA ReleaseFits ==
    ASSUME TypeOK, NEW e \in Edge, NEW q \in [Edge -> Nat], ReleasePlace(e, q),
           \A o \in Pool : DelayedRight(delayed[o], o),
           NEW p \in Pool, Depth[p] # 0, NEW n \in Nat,
           Fits(q, n, use[p] - (IF p = PoolOf[e] /\ want[e] # kWantNothing THEN 1 ELSE 0), p)
    PROVE  Fits(ready', n, use'[p], p)
<1>. DEFINE o == PoolOf[e]
            u == IF want[e] # kWantNothing THEN Relinquished(o) ELSE use[o]
<1>1. o \in Pool /\ use \in [Pool -> Int] /\ delayed[o] \in Seq(Edge)
  BY OutsType DEF TypeOK, PlanTypeOK, PoolsTypeOK
<1>2. u \in Int /\ use[p] \in Int
  BY <1>1 DEF Relinquished
<1>3. use[p] - (IF p = o /\ want[e] # kWantNothing THEN 1 ELSE 0) = IF p = o THEN u ELSE use[p]
  BY <1>1, <1>2 DEF Relinquished
<1>4. /\ use' = [use EXCEPT ![o] = u + Retrieved(o, delayed[o], u)]
      /\ ready' = [x \in Edge |-> q[x] + Copies(delayed[o], Retrieved(o, delayed[o], u), x)]
  BY DEF ReleasePlace, RetrieveReadyEdges
<1>5. use'[p] = IF p = o THEN u + Retrieved(o, delayed[o], u) ELSE use[p]
  BY <1>1, <1>4
<1>6. Fits(q, n, IF p = o THEN u ELSE use[p], p)
  BY <1>3
<1>. HIDE DEF u, o
<1>7. DelayedRight(delayed[o], o)
  BY <1>1
<1>8. Fits(ready', n, IF p = o THEN u + Retrieved(o, delayed[o], u) ELSE use[p], p)
  <2>1. LetIn(q, ready', delayed[o], Retrieved(o, delayed[o], u))
    BY <1>4 DEF LetIn
  <2>2. o \in Pool /\ u \in Int /\ use[p] \in Int
    BY <1>1, <1>2
  <2>. QED  BY <1>6, <1>7, <2>1, <2>2, RetrievedFits
<1>. QED  BY <1>5, <1>8

\* ScheduleWork queues an edge at once only when its pool is not limited.
LEMMA ScheduleFits ==
    ASSUME TypeOK, NEW e \in Edge, NEW rest, ScheduleWork(e, rest),
           \A o \in Pool : DelayedRight(delayed[o], o)
    PROVE  /\ \A o \in Pool : DelayedRight(delayed'[o], o)
           /\ \A p \in Pool, n \in Nat :
                 Depth[p] # 0 /\ Fits(ready, n, use[p], p) => Fits(ready', n, use'[p], p)
<1>. DEFINE o == PoolOf[e]
            d == DelayEdge(delayed[o], e)
            k == Retrieved(o, d, use[o])
<1>1. /\ o \in Pool /\ use \in [Pool -> Int] /\ delayed \in [Pool -> Seq(Edge)]
      /\ ready \in [Edge -> Nat]
  BY OutsType DEF TypeOK, PlanTypeOK, PoolsTypeOK
<1>2. CASE UNCHANGED <<want, ready, use, delayed>>
  BY <1>2
<1>3. CASE ShouldDelayEdge(o) /\ RetrieveReadyEdges(o, d, use[o])
           /\ ready' = [x \in Edge |-> ready[x] + Copies(d, k, x)]
  <2>1. DelayedRight(d, o)
    BY <1>1, <1>3, DelayEdgeRight
  <2>2. use' = [use EXCEPT ![o] = use[o] + k] /\ delayed' = [delayed EXCEPT ![o] = d]
    BY <1>3 DEF RetrieveReadyEdges
  <2>3. \A x \in Pool : DelayedRight(delayed'[x], x)
    BY <1>1, <2>1, <2>2
  <2>4. ASSUME NEW p \in Pool, NEW n \in Nat, Depth[p] # 0, Fits(ready, n, use[p], p)
        PROVE  Fits(ready', n, use'[p], p)
    <3>1. use'[p] = IF p = o THEN use[o] + k ELSE use[p]
      BY <1>1, <2>2
    <3>2. use[o] \in Int /\ use[p] \in Int
      BY <1>1
    <3>3. Fits(ready, n, IF p = o THEN use[o] ELSE use[p], p)
      BY <2>4
    <3>4. Fits(ready', n, IF p = o THEN use[o] + Retrieved(o, d, use[o]) ELSE use[p], p)
      <4>. HIDE DEF d, o
      <4>1. LetIn(ready, ready', d, Retrieved(o, d, use[o]))
        BY <1>3 DEF k, LetIn
      <4>2. o \in Pool /\ ready \in [Edge -> Nat]
        BY <1>1
      <4>. QED  BY <2>1, <2>4, <3>2, <3>3, <4>1, <4>2, RetrievedFits
    <3>. QED  BY <3>1, <3>4
  <2>. QED  BY <2>3, <2>4
<1>4. CASE ~ShouldDelayEdge(o) /\ ready' = [ready EXCEPT ![e] = @ + 1] /\ UNCHANGED <<use, delayed>>
  <2>1. ASSUME NEW p \in Pool, Depth[p] # 0 PROVE Queued(ready', p) = Queued(ready, p)
    <3>1. \A x \in Edge : PoolOf[x] = p => ready'[x] = ready[x]
      BY <1>1, <1>4, <2>1 DEF ShouldDelayEdge
    <3>. QED  BY <3>1, QueuedSame
  <2>. QED  BY <1>4, <2>1 DEF Fits
<1>. QED  BY <1>2, <1>3, <1>4 DEF ScheduleWork

\* What the runner does to the number of running edges of a pool.
LEMMA RunOfSteps ==
    ASSUME RunnerTypeOK, NEW p \in Pool
    PROVE  /\ IsFiniteSet(RunOf(p)) /\ Cardinality(RunOf(p)) \in Nat
           /\ running' = <<>> => Cardinality(RunOf(p)') = 0
           /\ \A e \in Edge : StartCommand(e) =>
                 Cardinality(RunOf(p)') = Cardinality(RunOf(p)) + (IF PoolOf[e] = p THEN 1 ELSE 0)
           /\ ReapHead =>
                 /\ Cardinality(RunOf(p)') \in Nat
                 /\ Cardinality(RunOf(p)')
                      <= Cardinality(RunOf(p)) - (IF PoolOf[Head(running).edge] = p THEN 1 ELSE 0)
           /\ \A i \in DOMAIN running : \A x : ChildExits(i, x) => RunOf(p)' = RunOf(p)
<1>1. /\ running \in Seq([edge : Edge, exit : {Live, ExitOk, ExitBad}])
      /\ Len(running) \in Nat /\ DOMAIN running = 1..Len(running)
  BY LenProperties DEF RunnerTypeOK
<1>2. IsFiniteSet(RunOf(p)) /\ Cardinality(RunOf(p)) \in Nat
  <2>1. RunOf(p) \in SUBSET (1..Len(running)) /\ IsFiniteSet(1..Len(running))
    BY <1>1, FS_Interval DEF RunOf
  <2>. QED  BY <2>1, FS_Subset, FS_CardinalityType
<1>3. ASSUME running' = <<>> PROVE Cardinality(RunOf(p)') = 0
  <2>1. RunOf(p)' = {}
    BY <1>3 DEF RunOf
  <2>. QED  BY <2>1, FS_EmptySet
<1>4. ASSUME NEW e \in Edge, StartCommand(e)
      PROVE  Cardinality(RunOf(p)') = Cardinality(RunOf(p)) + (IF PoolOf[e] = p THEN 1 ELSE 0)
  <2>. DEFINE new == [edge |-> e, exit |-> Live]
              m == Len(running) + 1
  <2>1. running' = Append(running, new) /\ new \in [edge : Edge, exit : {Live, ExitOk, ExitBad}]
    BY <1>4 DEF StartCommand
  <2>2. /\ DOMAIN running' = 1..m /\ running'[m].edge = e
        /\ \A i \in 1..Len(running) : running'[i] = running[i]
    BY <1>1, <2>1, AppendProperties, LenProperties
  <2>3. 1..m = 1..Len(running) \cup {m} /\ m \notin 1..Len(running)
    BY <1>1
  <2>4. RunOf(p)' = (IF PoolOf[e] = p THEN RunOf(p) \cup {m} ELSE RunOf(p)) /\ m \notin RunOf(p)
    BY <1>1, <2>2, <2>3 DEF RunOf
  <2>. HIDE DEF m
  <2>5. Cardinality(RunOf(p) \cup {m}) = Cardinality(RunOf(p)) + 1
    BY <1>2, <2>4, FS_AddElement
  <2>. QED  BY <1>2, <2>4, <2>5
<1>5. ASSUME ReapHead
      PROVE  /\ Cardinality(RunOf(p)') \in Nat
             /\ Cardinality(RunOf(p)')
                  <= Cardinality(RunOf(p)) - (IF PoolOf[Head(running).edge] = p THEN 1 ELSE 0)
  <2>1. /\ running # <<>> /\ running' = Tail(running) /\ Head(running) = running[1]
        /\ Len(running) > 0 /\ DOMAIN running' = 1..(Len(running) - 1)
        /\ \A i \in 1..(Len(running) - 1) : running'[i] = running[i + 1]
    BY <1>1, <1>5, HeadTailProperties, EmptySeq, LenProperties DEF ReapHead
  <2>2. \A i \in 1..(Len(running) - 1) : i + 1 \in 1..Len(running) /\ i + 1 # 1
    BY <1>1
  <2>3. 1 \in RunOf(p) <=> PoolOf[Head(running).edge] = p
    BY <1>1, <2>1 DEF RunOf
  <2>. DEFINE f == [i \in RunOf(p)' |-> i + 1]
  <2>4. \A i \in RunOf(p)' : i \in 1..(Len(running) - 1) /\ i + 1 \in RunOf(p) \ {1}
    BY <1>1, <2>1, <2>2 DEF RunOf
  <2>5. f \in Injection(RunOf(p)', RunOf(p) \ {1})
    <3>1. f \in [RunOf(p)' -> RunOf(p) \ {1}]
      BY <2>4
    <3>2. \A i, j \in RunOf(p)' : f[i] = f[j] => i = j
      <4>1. SUFFICES ASSUME NEW i \in RunOf(p)', NEW j \in RunOf(p)', i + 1 = j + 1
                     PROVE  i = j
        OBVIOUS
      <4>2. i \in Int /\ j \in Int
        BY <1>1, <2>4
      <4>. QED  BY <4>1, <4>2
    <3>. QED  BY <3>1, <3>2 DEF Injection, IsInjective
  <2>6. /\ IsFiniteSet(RunOf(p) \ {1})
        /\ Cardinality(RunOf(p) \ {1})
             = IF 1 \in RunOf(p) THEN Cardinality(RunOf(p)) - 1 ELSE Cardinality(RunOf(p))
    BY <1>2, FS_RemoveElement
  <2>7. /\ IsFiniteSet(RunOf(p)')
        /\ Cardinality(RunOf(p)') <= Cardinality(RunOf(p) \ {1})
    BY <2>5, <2>6, FS_Injection
  <2>8. Cardinality(RunOf(p)') \in Nat
    BY <2>7, FS_CardinalityType
  <2>. QED  BY <1>2, <2>3, <2>6, <2>7, <2>8
<1>6. ASSUME NEW i \in DOMAIN running, NEW x, ChildExits(i, x) PROVE RunOf(p)' = RunOf(p)
  <2>1. /\ DOMAIN running' = DOMAIN running
        /\ \A j \in DOMAIN running : running'[j].edge = running[j].edge
    <3>1. running' = [running EXCEPT ![i].exit = x]
      BY <1>6 DEF ChildExits
    <3>2. \A j \in DOMAIN running : running[j] \in [edge : Edge, exit : {Live, ExitOk, ExitBad}]
      BY <1>1, ElementOfSeq
    <3>. QED  BY <1>1, <3>1, <3>2
  <2>. QED  BY <2>1 DEF RunOf
<1>. QED  BY <1>2, <1>3, <1>4, <1>5, <1>6

\* PrepareQueue fills the empty queue.
LEMMA PrepareFits ==
    ASSUME TypeOK, PoolInv, PrepareQueue
    PROVE  PoolInv'
<1>1. /\ pc = "prepare" /\ running = <<>> /\ calls = <<>> /\ \A p \in Pool : use[p] = 0
      /\ pc' = "loop" /\ running' = <<>> /\ calls' = <<>>
  BY DEF PrepareQueue, ScheduleInitialEdges, PoolInv, runnerVars
<1>2. PICK d \in [Pool -> UNION {SetToSeqs(S) : S \in SUBSET InitiallyDelayed}] :
        /\ \A p \in Pool : ToSet(d[p]) = {e \in InitiallyDelayed : PoolOf[e] = p}
        /\ delayed' = d
        /\ use' = [p \in Pool |-> use[p] + Retrieved(p, d[p], use[p])]
        /\ ready' = [e \in Edge |->
              LET p == PoolOf[e] IN
              IF ShouldDelayEdge(p) THEN Copies(d[p], Retrieved(p, d[p], use[p]), e)
              ELSE IF e \in Initial THEN 1 ELSE 0]
  BY DEF PrepareQueue, ScheduleInitialEdges
<1>3. ASSUME NEW p \in Pool PROVE DelayedRight(d[p], p)
  <2>1. PICK S \in SUBSET InitiallyDelayed : d[p] \in SetToSeqs(S)
    BY <1>2
  <2>2. S \subseteq Edge /\ IsFiniteSet(S)
    BY FS_Subset, GraphAssumption DEF InitiallyDelayed, Initial
  <2>3. Cardinality(S) \in Nat
    BY <2>2, FS_CardinalityType
  <2>4. /\ d[p] \in [1..Cardinality(S) -> S]
        /\ \A i, j \in DOMAIN d[p] : d[p][i] = d[p][j] => i = j
    BY <2>1 DEF SetToSeqs, IsInjective
  <2>5. d[p] \in Seq(Edge) /\ DOMAIN d[p] = 1..Len(d[p]) /\ Len(d[p]) \in Nat
    BY <2>2, <2>3, <2>4, LenProperties
  <2>6. \A i \in 1..Len(d[p]) : d[p][i] \in InitiallyDelayed /\ PoolOf[d[p][i]] = p
    BY <1>2, <2>5 DEF ToSet
  <2>7. Depth[p] = 0 => Len(d[p]) = 0
    <3>1. Len(d[p]) # 0 => 1 \in 1..Len(d[p])
      BY <2>5
    <3>. QED  BY <2>6, <3>1 DEF InitiallyDelayed, ShouldDelayEdge
  <2>. QED  BY <2>4, <2>5, <2>6, <2>7 DEF DelayedRight
<1>4. ASSUME NEW p \in Pool, Depth[p] # 0
      PROVE  Fits(ready', Cardinality(RunOf(p)') + EndOf(p)', use'[p], p)
  <2>. DEFINE none == [e \in Edge |-> 0]
              k == Retrieved(p, d[p], 0)
              r == [e \in Edge |-> 0 + Copies(d[p], k, e)]
  <2>1. Cardinality(RunOf(p)') + EndOf(p)' = 0
    <3>1. RunOf(p)' = {}
      BY <1>1 DEF RunOf
    <3>2. EndOf(p)' = 0
      BY <1>1 DEF EndOf, Pending, ToSet
    <3>. QED  BY <3>1, <3>2, FS_EmptySet
  <2>2. Fits(none, 0, 0, p)
    <3>1. Queued(none, p) = {}
      BY DEF Queued
    <3>2. Depth[p] \in Nat
      BY GraphAssumption
    <3>. HIDE DEF none
    <3>. QED  BY <3>1, <3>2, FS_EmptySet DEF Fits
  <2>3. LetIn(none, r, d[p], k)
    BY DEF LetIn
  <2>4. use'[p] = k /\ d[p] \in Seq(Edge) /\ k \in Nat
    <3>1. d[p] \in Seq(Edge)
      BY <1>3 DEF DelayedRight
    <3>2. k \in 0..Len(d[p]) /\ Len(d[p]) \in Nat
      BY <3>1, RetrievedRange, LenProperties
    <3>3. use'[p] = 0 + k
      BY <1>1, <1>2
    <3>. QED  BY <3>1, <3>2, <3>3
  <2>5. \A e \in Edge : PoolOf[e] = p => r[e] = ready'[e]
    <3>1. SUFFICES ASSUME NEW e \in Edge, PoolOf[e] = p PROVE r[e] = ready'[e]
      OBVIOUS
    <3>2. ready'[e] = Copies(d[p], k, e)
      BY <1>1, <1>2, <1>4, <3>1 DEF ShouldDelayEdge
    <3>3. Copies(d[p], k, e) \in Nat
      BY <2>4, RetrievedRange, CopiesOfDelayed
    <3>. QED  BY <3>2, <3>3
  <2>6. none \in [Edge -> Nat]
    OBVIOUS
  <2>. HIDE DEF none, r
  <2>7. Fits(r, 0, IF p = p THEN 0 + k ELSE 0, p)
    <3>1. LetIn(none, r, d[p], Retrieved(p, d[p], 0))
      BY <2>3
    <3>2. Fits(none, 0, IF p = p THEN 0 ELSE 0, p) /\ 0 \in Int /\ 0 \in Nat
      BY <2>2
    <3>. QED  BY <1>3, <1>4, <2>6, <3>1, <3>2, RetrievedFits
  <2>8. Fits(r, 0, use'[p], p)
    BY <2>4, <2>7
  <2>9. Queued(r, p) = Queued(ready', p)
    BY <2>5, QueuedSame
  <2>. QED  BY <2>1, <2>8, <2>9 DEF Fits
<1>5. \A p \in Pool : DelayedRight(delayed'[p], p)
  BY <1>2, <1>3
<1>. QED  BY <1>1, <1>4, <1>5 DEF PoolInv

\* What has a place for m edges has one for fewer.
LEMMA FitsLess ==
    ASSUME NEW q, NEW p, NEW m \in Nat, NEW n \in Nat, NEW u \in Int, Fits(q, m, u, p), n <= m
    PROVE  Fits(q, n, u, p)
<1>1. Cardinality(Queued(q, p)) \in Nat
  BY FS_CardinalityType DEF Fits
<1>. QED  BY <1>1 DEF Fits

\* When a copy is taken from the queue there is a place for one more edge of its pool, or one
\* place can be given back.
LEMMA FitsPolled ==
    ASSUME NEW q \in [Edge -> Nat], NEW e \in Edge, q[e] > 0, NEW p \in Pool,
           NEW n \in Nat, NEW u \in Int, Fits(q, n, u, p)
    PROVE  /\ Fits([q EXCEPT ![e] = @ - 1], n + (IF PoolOf[e] = p THEN 1 ELSE 0), u, p)
           /\ Fits([q EXCEPT ![e] = @ - 1], n, u - (IF PoolOf[e] = p THEN 1 ELSE 0), p)
<1>. DEFINE r == [q EXCEPT ![e] = @ - 1]
<1>0. TakenOut(q, r, e)
  BY DEF TakenOut
<1>. HIDE DEF r
<1>1. IsFiniteSet(Queued(q, p)) /\ Cardinality(Queued(q, p)) + n <= u /\ u <= Depth[p]
  BY DEF Fits
<1>2. /\ IsFiniteSet(Queued(r, p))
      /\ Cardinality(Queued(r, p)) \in Nat /\ Cardinality(Queued(q, p)) \in Nat
      /\ Cardinality(Queued(r, p))
           = Cardinality(Queued(q, p)) - (IF PoolOf[e] = p THEN 1 ELSE 0)
  BY <1>0, <1>1, QueuedPolled
<1>3. Depth[p] \in Nat
  BY GraphAssumption
<1>4. /\ Fits(r, n + (IF PoolOf[e] = p THEN 1 ELSE 0), u, p)
      /\ Fits(r, n, u - (IF PoolOf[e] = p THEN 1 ELSE 0), p)
  BY <1>1, <1>2, <1>3 DEF Fits
<1>. QED  BY <1>4 DEF r

\* EdgeFinished is called for one edge at a time.
LEMMA OneEnds ==
    ASSUME TypeOK, InTurn(calls), NEW p \in Pool
    PROVE  /\ EndOf(p) \in {0, 1}
           /\ calls = <<>> => EndOf(p) = 0
           /\ \A op, x : NextCall(op, x) /\ op \notin Early =>
                 /\ \A e \in Edge : C("EdgeFinished", e) \notin Later
                 /\ EndOf(p) = IF op = "EdgeFinished" /\ x \in Edge /\ PoolOf[x] = p THEN 1 ELSE 0
<1>1. calls \in Seq(Call)
  BY DEF TypeOK, PlanTypeOK
<1>2. calls = <<>> => Pending = {}
  BY PendingParts
<1>3. ASSUME NEW op, NEW x, NextCall(op, x), op \notin Early
      PROVE  /\ \A e \in Edge : C("EdgeFinished", e) \notin Later
             /\ EndOf(p) = IF op = "EdgeFinished" /\ x \in Edge /\ PoolOf[x] = p THEN 1 ELSE 0
  <2>1. calls # <<>> /\ Head(calls).op = op
    BY <1>3 DEF NextCall
  <2>2. Late(Later)
    BY <1>1, <1>3, <2>1, InTurnTail DEF Later
  <2>3. \A e \in Edge : C("EdgeFinished", e) \notin Later
    BY <2>2 DEF Late, C
  <2>4. Pending = {C(op, x)} \cup Later
    BY <1>3, PendingParts DEF Pops
  <2>5. \A e \in Edge : C("EdgeFinished", e) = C(op, x) <=> op = "EdgeFinished" /\ x = e
    BY DEF C
  <2>. QED  BY <2>3, <2>4, <2>5 DEF EndOf
<1>. QED  BY <1>2, <1>3 DEF EndOf

\* EdgeFinished of an edge that has given up its own place, or never had one.
LEMMA PlaceReleased ==
    ASSUME TypeOK, NEW e \in Edge, NEW q \in [Edge -> Nat], ReleasePlace(e, q),
           \A o \in Pool : DelayedRight(delayed[o], o),
           NEW p \in Pool, Depth[p] # 0, NEW n \in Nat, use[p] <= Depth[p],
           \/ Fits(q, n, use[p] - (IF PoolOf[e] = p THEN 1 ELSE 0), p)
           \/ want[e] = kWantNothing /\ Fits(q, n, use[p], p)
    PROVE  Fits(ready', n, use'[p], p)
<1>. DEFINE u == use[p] - (IF p = PoolOf[e] /\ want[e] # kWantNothing THEN 1 ELSE 0)
<1>1. use[p] \in Int /\ Depth[p] \in Nat
  BY GraphAssumption DEF TypeOK, PlanTypeOK, PoolsTypeOK
<1>2. Fits(q, n, u, p)
  <2>1. CASE want[e] = kWantNothing /\ Fits(q, n, use[p], p)
    <3>1. u = use[p]
      BY <1>1, <2>1
    <3>. QED  BY <2>1, <3>1
  <2>2. CASE Fits(q, n, use[p] - (IF PoolOf[e] = p THEN 1 ELSE 0), p)
    <3>1. IsFiniteSet(Queued(q, p)) /\ Cardinality(Queued(q, p)) \in Nat
      BY <2>2, FS_CardinalityType DEF Fits
    <3>2. Cardinality(Queued(q, p)) + n <= use[p] - (IF PoolOf[e] = p THEN 1 ELSE 0)
      BY <2>2 DEF Fits
    <3>3. Cardinality(Queued(q, p)) + n <= u /\ u <= Depth[p]
      BY <1>1, <3>1, <3>2
    <3>. QED  BY <3>1, <3>3 DEF Fits
  <2>. QED  BY <2>1, <2>2
<1>. HIDE DEF u
<1>3. Fits(q, n, use[p] - (IF p = PoolOf[e] /\ want[e] # kWantNothing THEN 1 ELSE 0), p)
  BY <1>2 DEF u
<1>. QED  BY <1>3, ReleaseFits

\* A call of the plan's makes no new EdgeFinished pending, and what it leaves behind the next
\* call is pending still.
LEMMA EndsStay ==
    ASSUME TypeOK, InTurn(calls), NEW p \in Pool,
           \/ PlanCall
           \/ (\E e \in Edge : RecordCommand(e)) \/ (\E n \in Node : RestatOutput(n))
    PROVE  EndOf(p)' <= EndOf(p)
<1>1. SUFFICES ASSUME NEW e \in Edge, C("EdgeFinished", e) \in Pending'
               PROVE  C("EdgeFinished", e) \in Pending
  BY DEF EndOf
<1>2. /\ C("EdgeFinished", e).op = "EdgeFinished"
      /\ \A op, X : \A c \in Each(op, X) : c.op = op
  BY DEF C, Each
<1>3. \/ \E x \in Edge : Unwants(x) \/ Schedules(x) \/ Completes(x)
      \/ \E c \in Call, S \in SUBSET Call : Shuffles(c, S)
  BY PlanCallKinds, FinishCallKinds
<1>4. ASSUME NEW x \in Edge, Unwants(x) \/ Schedules(x) PROVE C("EdgeFinished", e) \in Pending
  BY <1>1, <1>4 DEF Unwants, Schedules, Pops
<1>5. ASSUME NEW x \in Edge, Completes(x) PROVE C("EdgeFinished", e) \in Pending
  <2>1. C("EdgeFinished", e) \notin Each("NodeFinished", ToSet(Outs[x]))
    BY <1>2
  <2>. QED  BY <1>1, <1>5, <2>1 DEF Completes, Pops
<1>6. ASSUME NEW c \in Call, NEW S \in SUBSET Call, Shuffles(c, S)
      PROVE  C("EdgeFinished", e) \in Pending
  <2>1. \A a \in S : a.op # "EdgeFinished"
    <3>1. SUFFICES ASSUME NEW a \in S PROVE a.op # "EdgeFinished"
      OBVIOUS
    <3>2. Replaces(c, S)
      BY <1>6 DEF Shuffles
    <3>3. \/ \E x : a \in {C("CleanNode", x), C("RecomputeOutputsDirty", x), C("Unwant", x)}
          \/ \E op \in {"EdgeMaybeReady", "CleanOutEdge", "CleanNode"} : \E X : a \in Each(op, X)
      BY <3>1, <3>2, Zenon DEF Replaces
    <3>4. CASE \E x : a \in {C("CleanNode", x), C("RecomputeOutputsDirty", x), C("Unwant", x)}
      BY <3>4 DEF C
    <3>5. CASE \E op \in {"EdgeMaybeReady", "CleanOutEdge", "CleanNode"} : \E X : a \in Each(op, X)
      BY <1>2, <3>5
    <3>. QED  BY <3>3, <3>4, <3>5
  <2>2. Pending' = S \cup Later /\ Pending = {c} \cup Later
    BY <1>6 DEF Shuffles, Pops
  <2>3. C("EdgeFinished", e) \notin S
    BY <1>2, <2>1
  <2>. QED  BY <1>1, <2>2, <2>3
<1>. QED  BY <1>3, <1>4, <1>5, <1>6

\* A step that leaves the pools and the queue alone and the number of edges that run or are
\* about to be finished no greater.
LEMMA PoolsLeft ==
    ASSUME TypeOK, PoolInv, UNCHANGED <<use, delayed, ready>>,
           pc' = "prepare" => pc = "prepare" /\ UNCHANGED <<running, calls>>,
           \A p \in Pool :
              /\ Cardinality(RunOf(p)) \in Nat /\ Cardinality(RunOf(p)') \in Nat
              /\ EndOf(p) \in {0, 1} /\ EndOf(p)' \in {0, 1}
              /\ Cardinality(RunOf(p)') + EndOf(p)' <= Cardinality(RunOf(p)) + EndOf(p)
    PROVE  PoolInv'
<1>1. ASSUME NEW p \in Pool, Depth[p] # 0
      PROVE  Fits(ready, Cardinality(RunOf(p)') + EndOf(p)', use[p], p)
  <2>1. /\ Cardinality(RunOf(p)) + EndOf(p) \in Nat /\ Cardinality(RunOf(p)') + EndOf(p)' \in Nat
        /\ Cardinality(RunOf(p)') + EndOf(p)' <= Cardinality(RunOf(p)) + EndOf(p)
    <3>1. EndOf(p) \in Nat /\ EndOf(p)' \in Nat
      OBVIOUS
    <3>. QED  BY <3>1
  <2>2. Fits(ready, Cardinality(RunOf(p)) + EndOf(p), use[p], p)
    BY <1>1 DEF PoolInv
  <2>3. use[p] \in Int
    BY DEF TypeOK, PlanTypeOK, PoolsTypeOK
  <2>. QED  BY <2>1, <2>2, <2>3, FitsLess
<1>. QED  BY <1>1 DEF PoolInv

\* A call of the plan's keeps the places.
LEMMA PlanCallPools ==
    ASSUME TypeOK, InTurn(calls), PoolInv, PlanCall
    PROVE  PoolInv'
<1>0. /\ RunnerTypeOK /\ ready \in [Edge -> Nat] /\ use \in [Pool -> Int]
      /\ UNCHANGED <<running, unstarted, pc>>
  BY DEF TypeOK, PlanTypeOK, PoolsTypeOK, PlanCall, runnerVars, loopVars
<1>1. \A p \in Pool :
        /\ Cardinality(RunOf(p)) \in Nat /\ RunOf(p)' = RunOf(p)
        /\ EndOf(p) \in {0, 1} /\ EndOf(p)' \in {0, 1} /\ EndOf(p)' <= EndOf(p)
  BY <1>0, RunOfSteps, EndsStay DEF RunOf, EndOf
<1>2. ASSUME NEW op, NEW x, NextCall(op, x) PROVE calls # <<>> /\ pc # "prepare"
  BY <1>2 DEF NextCall, PoolInv
<1>3. pc # "prepare"
  BY <1>2 DEF PlanCall
<1>4. \A p \in Pool : DelayedRight(delayed[p], p)
  BY DEF PoolInv
<1>5. \A p \in Pool : Depth[p] # 0 =>
        /\ Fits(ready, Cardinality(RunOf(p)) + EndOf(p), use[p], p)
        /\ Fits(ready, Cardinality(RunOf(p)) + EndOf(p)', use[p], p)
        /\ use[p] <= Depth[p]
  <2>1. SUFFICES ASSUME NEW p \in Pool, Depth[p] # 0
                 PROVE  /\ Fits(ready, Cardinality(RunOf(p)) + EndOf(p), use[p], p)
                        /\ Fits(ready, Cardinality(RunOf(p)) + EndOf(p)', use[p], p)
                        /\ use[p] <= Depth[p]
    OBVIOUS
  <2>2. Fits(ready, Cardinality(RunOf(p)) + EndOf(p), use[p], p)
    BY <2>1 DEF PoolInv
  <2>3. /\ Cardinality(RunOf(p)) + EndOf(p) \in Nat /\ Cardinality(RunOf(p)) + EndOf(p)' \in Nat
        /\ Cardinality(RunOf(p)) + EndOf(p)' <= Cardinality(RunOf(p)) + EndOf(p)
        /\ use[p] \in Int
    BY <1>0, <1>1
  <2>. QED  BY <2>2, <2>3, FitsLess DEF Fits
<1>6. CASE UNCHANGED <<use, delayed, ready>>
  BY <1>3, <1>4, <1>5, <1>0, <1>1, <1>6 DEF PoolInv
<1>7. ASSUME NEW e \in Edge, EdgeFinishedSucceeded(e, ready, Tail(calls)),
             \/ NextCall("EdgeFinished", e)
             \/ want[e] = kWantNothing
      PROVE  PoolInv'
  <2>1. ReleasePlace(e, ready)
    BY <1>7 DEF EdgeFinishedSucceeded
  <2>2. delayed' = delayed
    <3>1. delayed \in [Pool -> Seq(Edge)]
      BY DEF TypeOK, PlanTypeOK, PoolsTypeOK
    <3>. QED  BY <2>1, <3>1 DEF ReleasePlace, RetrieveReadyEdges
  <2>3. ASSUME NEW p \in Pool, Depth[p] # 0
        PROVE  Fits(ready', Cardinality(RunOf(p)) + EndOf(p)', use'[p], p)
    <3>. DEFINE n == Cardinality(RunOf(p)) + EndOf(p)'
    <3>1. n \in Nat
      BY <1>1
    <3>2. CASE want[e] = kWantNothing
      <4>1. Fits(ready, n, use[p], p) /\ use[p] <= Depth[p]
        BY <1>5, <2>3
      <4>. HIDE DEF n
      <4>2. Fits(ready', n, use'[p], p)
        BY <1>0, <1>4, <2>1, <2>3, <3>1, <3>2, <4>1, PlaceReleased
      <4>. QED  BY <4>2 DEF n
    <3>3. CASE NextCall("EdgeFinished", e)
      <4>1. EndOf(p) = IF PoolOf[e] = p THEN 1 ELSE 0
        BY <3>3, OneEnds DEF Early
      <4>2. EndOf(p)' = 0
        <5>1. /\ Tail(calls) \in Seq(Call) /\ \A x \in Edge : C("EdgeFinished", x) \notin Later
          BY <3>3, PendingParts, OneEnds DEF Early
        <5>2. Pending' = Each("NodeFinished", ToSet(Outs[e])) \cup Later
          BY <1>0, <1>7, <5>1, FinishedCompletes DEF Later
        <5>3. \A x : C("EdgeFinished", x) \notin Each("NodeFinished", ToSet(Outs[e]))
          BY DEF C, Each
        <5>. QED  BY <5>1, <5>2, <5>3 DEF EndOf
      <4>3. Fits(ready, n, use[p] - (IF PoolOf[e] = p THEN 1 ELSE 0), p)
        <5>1. Fits(ready, Cardinality(RunOf(p)) + EndOf(p), use[p], p)
          BY <1>5, <2>3
        <5>2. /\ IsFiniteSet(Queued(ready, p)) /\ Cardinality(Queued(ready, p)) \in Nat
              /\ Cardinality(Queued(ready, p)) + (Cardinality(RunOf(p)) + EndOf(p)) <= use[p]
              /\ use[p] <= Depth[p] /\ use[p] \in Int /\ Depth[p] \in Nat
          BY <1>0, <5>1, FS_CardinalityType, GraphAssumption DEF Fits
        <5>3. /\ Cardinality(Queued(ready, p)) + n <= use[p] - (IF PoolOf[e] = p THEN 1 ELSE 0)
              /\ use[p] - (IF PoolOf[e] = p THEN 1 ELSE 0) <= Depth[p]
          BY <1>1, <4>1, <4>2, <5>2
        <5>. QED  BY <5>2, <5>3 DEF Fits
      <4>4. use[p] <= Depth[p]
        BY <1>5, <2>3
      <4>. HIDE DEF n
      <4>5. Fits(ready', n, use'[p], p)
        BY <1>0, <1>4, <2>1, <2>3, <3>1, <4>3, <4>4, PlaceReleased
      <4>. QED  BY <4>5 DEF n
    <3>. QED  BY <1>7, <3>2, <3>3
  <2>. QED  BY <1>0, <1>1, <1>3, <1>4, <2>2, <2>3 DEF PoolInv
<1>8. ASSUME NEW e \in Edge, ScheduleWork(e, Tail(calls)) PROVE PoolInv'
  <2>1. /\ \A o \in Pool : DelayedRight(delayed'[o], o)
        /\ \A p \in Pool, n \in Nat :
              Depth[p] # 0 /\ Fits(ready, n, use[p], p) => Fits(ready', n, use'[p], p)
    BY <1>4, <1>8, ScheduleFits
  <2>2. ASSUME NEW p \in Pool, Depth[p] # 0
        PROVE  Fits(ready', Cardinality(RunOf(p)) + EndOf(p)', use'[p], p)
    <3>1. Cardinality(RunOf(p)) + EndOf(p)' \in Nat
      BY <1>1
    <3>. QED  BY <1>5, <2>1, <2>2, <3>1
  <2>. QED  BY <1>0, <1>1, <1>3, <2>1, <2>2 DEF PoolInv
<1>9. ASSUME NEW e \in Edge, NextCall("EdgeMaybeReady", e), EdgeMaybeReady(e, Tail(calls))
      PROVE  PoolInv'
  <2>1. CASE want[e] = Absent \/ ~AllInputsReady(e)
    BY <1>6, <1>9, <2>1 DEF EdgeMaybeReady
  <2>2. CASE ~(want[e] = Absent \/ ~AllInputsReady(e)) /\ want[e] # kWantNothing
    BY <1>8, <1>9, <2>2 DEF EdgeMaybeReady
  <2>3. CASE ~(want[e] = Absent \/ ~AllInputsReady(e)) /\ want[e] = kWantNothing
    BY <1>7, <1>9, <2>3 DEF EdgeMaybeReady
  <2>. QED  BY <2>1, <2>2, <2>3
<1>. QED
  BY <1>6, <1>7, <1>9
  DEF PlanCall, NodeFinished, CleanNode, CleanOutEdge, RecomputeOutputsDirty, Unwant

\* StartEdge and StartPhony poll a copy, whose place the command, or the call, takes.
LEMMA StartPools ==
    ASSUME TypeOK, PoolInv, NEW e \in Edge, StartEdge(e) \/ StartEdgeFails(e) \/ StartPhony(e)
    PROVE  PoolInv'
<1>0. /\ RunnerTypeOK /\ ready \in [Edge -> Nat] /\ use \in [Pool -> Int]
      /\ delayed \in [Pool -> Seq(Edge)]
  BY DEF TypeOK, PlanTypeOK, PoolsTypeOK
<1>1. CanStart(e) /\ ready[e] > 0 /\ calls = <<>> /\ pc = "start"
  <2>1. CanStart(e)
    BY Zenon DEF StartEdge, StartEdgeFails, StartPhony
  <2>. QED  BY <2>1 DEF CanStart, FindWork, AtLoop
<1>2. \A p \in Pool : EndOf(p) = 0
  BY <1>1, PendingParts DEF EndOf
<1>3. \A p \in Pool : DelayedRight(delayed[p], p)
  BY DEF PoolInv
<1>4. \A p \in Pool : IsFiniteSet(RunOf(p)) /\ Cardinality(RunOf(p)) \in Nat
  BY <1>0, RunOfSteps
<1>5. ASSUME NEW p \in Pool, Depth[p] # 0
      PROVE  /\ Fits(Polled(e), Cardinality(RunOf(p)) + (IF PoolOf[e] = p THEN 1 ELSE 0), use[p], p)
             /\ Fits(Polled(e), Cardinality(RunOf(p)), use[p], p)
             /\ Fits(Polled(e), 0, use[p], p)
             /\ Fits(Polled(e), Cardinality(RunOf(p)),
                     use[p] - (IF PoolOf[e] = p THEN 1 ELSE 0), p)
             /\ use[p] <= Depth[p]
  <2>. DEFINE n == Cardinality(RunOf(p))
  <2>1. n \in Nat /\ use[p] \in Int
    BY <1>0, <1>4
  <2>2. Fits(ready, n, use[p], p)
    <3>1. Fits(ready, n + EndOf(p), use[p], p) /\ n + EndOf(p) = n
      BY <1>2, <1>5, <2>1 DEF PoolInv
    <3>. QED  BY <3>1
  <2>. HIDE DEF n
  <2>3. /\ Fits([ready EXCEPT ![e] = @ - 1], n + (IF PoolOf[e] = p THEN 1 ELSE 0), use[p], p)
        /\ Fits([ready EXCEPT ![e] = @ - 1], n, use[p] - (IF PoolOf[e] = p THEN 1 ELSE 0), p)
    BY <1>0, <1>1, <2>1, <2>2, FitsPolled
  <2>. DEFINE q == Polled(e)
  <2>4. /\ Fits(q, n + (IF PoolOf[e] = p THEN 1 ELSE 0), use[p], p)
        /\ Fits(q, n, use[p] - (IF PoolOf[e] = p THEN 1 ELSE 0), p)
    BY <2>3 DEF Polled
  <2>. HIDE DEF q
  <2>5. n + (IF PoolOf[e] = p THEN 1 ELSE 0) \in Nat /\ n <= n + (IF PoolOf[e] = p THEN 1 ELSE 0)
    BY <2>1
  <2>6. Fits(q, n, use[p], p)
    BY <2>1, <2>4, <2>5, FitsLess
  <2>7. Fits(q, 0, use[p], p)
    BY <2>1, <2>6, FitsLess
  <2>. QED  BY <2>2, <2>4, <2>6, <2>7 DEF n, q, Fits
<1>6. CASE StartEdge(e)
  <2>1. /\ ready' = Polled(e) /\ UNCHANGED <<use, delayed, calls>>
        /\ StartCommand(e) \/ StartCommandFails
        /\ pc' # "prepare"
    BY <1>6 DEF StartEdge
  <2>2. ASSUME NEW p \in Pool, Depth[p] # 0
        PROVE  Fits(ready', Cardinality(RunOf(p)') + EndOf(p)', use[p], p)
    <3>1. EndOf(p)' = 0
      BY <1>2, <2>1 DEF EndOf, Pending
    <3>2. CASE StartCommand(e)
      <4>1. Cardinality(RunOf(p)') = Cardinality(RunOf(p)) + (IF PoolOf[e] = p THEN 1 ELSE 0)
        BY <1>0, <3>2, RunOfSteps
      <4>2. Cardinality(RunOf(p)') + EndOf(p)'
              = Cardinality(RunOf(p)) + (IF PoolOf[e] = p THEN 1 ELSE 0)
        BY <1>4, <3>1, <4>1
      <4>. QED  BY <1>5, <2>1, <2>2, <4>2
    <3>3. CASE StartCommandFails
      <4>1. RunOf(p)' = RunOf(p)
        BY <3>3 DEF StartCommandFails, RunOf
      <4>2. Cardinality(RunOf(p)') + EndOf(p)' = Cardinality(RunOf(p))
        BY <1>4, <3>1, <4>1
      <4>. QED  BY <1>5, <2>1, <2>2, <4>2
    <3>. QED  BY <2>1, <3>2, <3>3
  <2>. QED  BY <1>3, <2>1, <2>2 DEF PoolInv
<1>7. CASE StartEdgeFails(e)
  <2>1. /\ ready' = Polled(e) /\ UNCHANGED <<use, delayed, calls>>
    BY <1>7, Zenon DEF StartEdgeFails
  <2>3. running' = <<>> /\ pc' # "prepare"
    BY <1>7, LoopSteps, OutcomeNames DEF CleanupAndStop, Abort
  <2>2. ASSUME NEW p \in Pool, Depth[p] # 0
        PROVE  Fits(ready', Cardinality(RunOf(p)') + EndOf(p)', use[p], p)
    <3>1. EndOf(p)' = 0
      BY <1>2, <2>1 DEF EndOf, Pending
    <3>2. Cardinality(RunOf(p)') = 0
      BY <1>0, <2>3, RunOfSteps
    <3>. QED  BY <1>5, <2>1, <2>2, <3>1, <3>2
  <2>. QED  BY <1>3, <2>1, <2>2, <2>3 DEF PoolInv
<1>8. CASE StartPhony(e)
  <2>1. /\ EdgeFinishedSucceeded(e, Polled(e), <<>>) /\ UNCHANGED running /\ pc' # "prepare"
    BY <1>1, <1>8 DEF StartPhony, runnerVars, loopVars
  <2>2. /\ ReleasePlace(e, Polled(e)) /\ delayed' = delayed
    BY <1>0, <2>1 DEF EdgeFinishedSucceeded, ReleasePlace, RetrieveReadyEdges
  <2>3. Polled(e) \in [Edge -> Nat]
    BY <1>0, <1>1, PolledType
  <2>4. \A p \in Pool : EndOf(p)' = 0
    <3>1. Pending' = Each("NodeFinished", ToSet(Outs[e])) \cup ToSet(<<>>)
      <4>1. <<>> \in Seq(Call)
        OBVIOUS
      <4>. QED  BY <2>1, <2>3, <4>1, FinishedCompletes
    <3>2. \A x : C("EdgeFinished", x) \notin Each("NodeFinished", ToSet(Outs[e]))
      BY DEF C, Each
    <3>3. ToSet(<<>>) = {}
      BY DEF ToSet
    <3>. QED  BY <3>1, <3>2, <3>3 DEF EndOf
  <2>5. ASSUME NEW p \in Pool, Depth[p] # 0
        PROVE  Fits(ready', Cardinality(RunOf(p)') + EndOf(p)', use'[p], p)
    <3>1. Cardinality(RunOf(p)') + EndOf(p)' = Cardinality(RunOf(p))
      <4>1. RunOf(p)' = RunOf(p)
        BY <2>1 DEF RunOf
      <4>. QED  BY <1>4, <2>4, <4>1
    <3>. DEFINE n == Cardinality(RunOf(p))
                q == Polled(e)
    <3>2. /\ n \in Nat /\ use[p] <= Depth[p] /\ q \in [Edge -> Nat] /\ ReleasePlace(e, q)
          /\ Fits(q, n, use[p] - (IF PoolOf[e] = p THEN 1 ELSE 0), p)
      BY <1>4, <1>5, <2>2, <2>3, <2>5
    <3>. HIDE DEF n, q
    <3>3. Fits(ready', n, use'[p], p)
      BY <1>3, <2>5, <3>2, PlaceReleased
    <3>. QED  BY <3>1, <3>3 DEF n
  <2>. QED  BY <1>3, <2>1, <2>2, <2>5 DEF PoolInv
<1>. QED  BY <1>6, <1>7, <1>8

\* FinishCommand: the place of the command is that of the call, or is given back.
LEMMA FinishPools ==
    ASSUME TypeOK, PoolInv, NEW e \in Edge, FinishCommandSucceeds(e) \/ FinishCommandFails(e)
    PROVE  PoolInv'
<1>0. /\ RunnerTypeOK /\ ready \in [Edge -> Nat] /\ use \in [Pool -> Int]
      /\ delayed \in [Pool -> Seq(Edge)] /\ calls \in Seq(Call)
  BY DEF TypeOK, PlanTypeOK, PoolsTypeOK
<1>1. Reaped(e)
  BY DEF FinishCommandSucceeds, FinishCommandFails
<1>2. calls = <<>> /\ ReapHead /\ Head(running).edge = e /\ pc' = "loop"
  BY <1>1 DEF Reaped, AtLoop
<1>3. \A p \in Pool :
        /\ EndOf(p) = 0
        /\ Cardinality(RunOf(p)) \in Nat /\ Cardinality(RunOf(p)') \in Nat
        /\ Cardinality(RunOf(p)') <= Cardinality(RunOf(p)) - (IF PoolOf[e] = p THEN 1 ELSE 0)
  <2>1. \A p \in Pool : EndOf(p) = 0
    BY <1>2, PendingParts DEF EndOf
  <2>. QED  BY <1>0, <1>2, <2>1, RunOfSteps
<1>4. CASE FinishCommandSucceeds(e)
  <2>1. /\ UNCHANGED <<use, delayed, ready>>
        /\ Pending' = Each("RestatOutput", ToSet(Outs[e]))
                      \cup {C("EdgeFinished", e), C("RecordCommand", e)}
    BY <1>4, FinishCommandKinds DEF FinishCommandSucceeds, Succeeds
  <2>2. \A p \in Pool : EndOf(p)' = IF PoolOf[e] = p THEN 1 ELSE 0
    <3>1. \A x : C("EdgeFinished", x) \in Pending' <=> x = e
      BY <2>1 DEF C, Each
    <3>. QED  BY <3>1 DEF EndOf
  <2>3. \A p \in Pool : EndOf(p)' \in {0, 1} /\ EndOf(p) \in {0, 1}
    BY <1>3, <2>2
  <2>4. \A p \in Pool :
          Cardinality(RunOf(p)') + EndOf(p)' <= Cardinality(RunOf(p)) + EndOf(p)
    <3>1. SUFFICES ASSUME NEW p \in Pool
                   PROVE  Cardinality(RunOf(p)') + EndOf(p)' <= Cardinality(RunOf(p)) + EndOf(p)
      OBVIOUS
    <3>. QED  BY <1>3, <2>2
  <2>. QED  BY <1>2, <1>3, <2>1, <2>3, <2>4, PoolsLeft
<1>5. CASE FinishCommandFails(e)
  <2>1. ReleasePlace(e, ready) /\ UNCHANGED calls
    BY <1>5 DEF FinishCommandFails, EdgeFinishedFailed
  <2>2. delayed' = delayed
    BY <1>0, <2>1 DEF ReleasePlace, RetrieveReadyEdges
  <2>3. \A p \in Pool : DelayedRight(delayed[p], p)
    BY DEF PoolInv
  <2>4. ASSUME NEW p \in Pool, Depth[p] # 0
        PROVE  Fits(ready', Cardinality(RunOf(p)') + EndOf(p)', use'[p], p)
    <3>. DEFINE n == Cardinality(RunOf(p)')
                m == Cardinality(RunOf(p))
                one == IF PoolOf[e] = p THEN 1 ELSE 0
    <3>1. EndOf(p)' = 0 /\ n \in Nat /\ m \in Nat /\ n <= m - one /\ one \in {0, 1}
      <4>1. EndOf(p)' = 0
        BY <1>2, <1>3, <2>1 DEF EndOf, Pending
      <4>. QED  BY <1>3, <4>1
    <3>2. Fits(ready, m, use[p], p)
      <4>1. Fits(ready, m + EndOf(p), use[p], p) /\ m + EndOf(p) = m
        BY <1>3, <2>4 DEF PoolInv
      <4>. QED  BY <4>1
    <3>. HIDE DEF n, m, one
    <3>3. /\ IsFiniteSet(Queued(ready, p)) /\ Cardinality(Queued(ready, p)) \in Nat
          /\ Cardinality(Queued(ready, p)) + m <= use[p] /\ use[p] <= Depth[p]
          /\ use[p] \in Int /\ Depth[p] \in Nat
      BY <1>0, <3>2, FS_CardinalityType, GraphAssumption DEF Fits
    <3>4. Cardinality(Queued(ready, p)) + n <= use[p] - one /\ use[p] - one <= Depth[p]
      BY <3>1, <3>3
    <3>5. Fits(ready, n, use[p] - one, p)
      BY <3>3, <3>4 DEF Fits
    <3>6. Fits(ready, n, use[p] - (IF PoolOf[e] = p THEN 1 ELSE 0), p)
      BY <3>5 DEF one
    <3>7. Fits(ready', n, use'[p], p)
      BY <1>0, <2>1, <2>3, <2>4, <3>1, <3>3, <3>6, PlaceReleased
    <3>8. Cardinality(RunOf(p)') + EndOf(p)' = n
      BY <3>1 DEF n
    <3>. QED  BY <3>7, <3>8
  <2>. QED  BY <1>2, <2>2, <2>3, <2>4 DEF PoolInv
<1>. QED  BY <1>4, <1>5

\* Every step keeps the places.
LEMMA NextPools ==
    ASSUME TypeOK, InTurn(calls), PoolInv, [Next]_vars
    PROVE  PoolInv'
<1>0. RunnerTypeOK
  BY DEF TypeOK
<1>1. \A p \in Pool :
        /\ Cardinality(RunOf(p)) \in Nat /\ EndOf(p) \in {0, 1} /\ EndOf(p)' \in {0, 1}
  BY <1>0, RunOfSteps DEF EndOf
<1>2. ASSUME UNCHANGED <<use, delayed, ready, calls>>,
             pc' = "prepare" => pc = "prepare" /\ UNCHANGED running,
             \A p \in Pool : RunOf(p)' = RunOf(p) \/ Cardinality(RunOf(p)') = 0
      PROVE  PoolInv'
  <2>1. \A p \in Pool : EndOf(p)' = EndOf(p)
    BY <1>2 DEF EndOf, Pending
  <2>2. \A p \in Pool :
          /\ Cardinality(RunOf(p)') \in Nat
          /\ Cardinality(RunOf(p)') + EndOf(p)' <= Cardinality(RunOf(p)) + EndOf(p)
    <3>1. SUFFICES ASSUME NEW p \in Pool
                   PROVE  /\ Cardinality(RunOf(p)') \in Nat
                          /\ Cardinality(RunOf(p)') + EndOf(p)'
                               <= Cardinality(RunOf(p)) + EndOf(p)
      OBVIOUS
    <3>2. CASE RunOf(p)' = RunOf(p)
      BY <1>1, <2>1, <3>2
    <3>3. CASE Cardinality(RunOf(p)') = 0
      BY <1>1, <2>1, <3>3
    <3>. QED  BY <1>2, <3>2, <3>3
  <2>. QED  BY <1>1, <1>2, <2>2, PoolsLeft
<1>3. ASSUME UNCHANGED <<planVars, runnerVars>>, pc' = "prepare" => pc = "prepare" PROVE PoolInv'
  <2>1. UNCHANGED <<use, delayed, ready, calls, running>>
    BY <1>3 DEF planVars, runnerVars
  <2>2. \A p \in Pool : RunOf(p)' = RunOf(p)
    BY <2>1 DEF RunOf
  <2>. QED  BY <1>2, <1>3, <2>1, <2>2
<1>4. CASE LoopTop \/ StartDone \/ NoProgress \/ UNCHANGED vars
  BY <1>3, <1>4, LoopSteps DEF vars, loopVars
<1>5. CASE LoadUnknown \/ WaitFails \/ \E e \in Edge : FinishUnplanned(e)
  BY <1>3, <1>5, LoopSteps, OutcomeNames DEF Die
<1>6. CASE FinishCommandAborts
  <2>1. UNCHANGED planVars
    BY <1>6, Zenon DEF FinishCommandAborts
  <2>2. running' = <<>> /\ pc' # "prepare"
    BY <1>6, LoopSteps, OutcomeNames DEF CleanupAndStop, Abort
  <2>3. \A p \in Pool : Cardinality(RunOf(p)') = 0
    BY <1>0, <2>2, RunOfSteps
  <2>. QED  BY <1>2, <2>1, <2>2, <2>3 DEF planVars
<1>7. CASE ChildExit
  <2>1. PICK i \in DOMAIN running, x \in {ExitOk, ExitBad} :
            ChildExits(i, x) /\ UNCHANGED <<planVars, loopVars, history>>
    BY <1>7 DEF ChildExit
  <2>2. \A p \in Pool : RunOf(p)' = RunOf(p)
    BY <1>0, <2>1, RunOfSteps
  <2>3. UNCHANGED <<use, delayed, ready, calls, pc>>
    BY <2>1 DEF planVars, loopVars
  <2>4. pc # "prepare"
    <3>1. running # <<>>
      BY <2>1
    <3>. QED  BY <3>1 DEF PoolInv
  <2>. QED  BY <1>2, <2>2, <2>3, <2>4
<1>8. CASE (\E e \in Edge : RecordCommand(e)) \/ (\E n \in Node : RestatOutput(n))
  <2>1. UNCHANGED <<use, delayed, ready, running, pc>> /\ calls # <<>>
    BY <1>8 DEF RecordCommand, RestatOutput, NextCall, runnerVars, loopVars
  <2>2. \A p \in Pool : RunOf(p)' = RunOf(p) /\ EndOf(p)' <= EndOf(p)
    BY <1>8, <2>1, EndsStay DEF RunOf
  <2>3. pc # "prepare"
    BY <2>1 DEF PoolInv
  <2>4. \A p \in Pool :
          /\ Cardinality(RunOf(p)') \in Nat
          /\ Cardinality(RunOf(p)') + EndOf(p)' <= Cardinality(RunOf(p)) + EndOf(p)
    <3>1. SUFFICES ASSUME NEW p \in Pool
                   PROVE  /\ Cardinality(RunOf(p)') \in Nat
                          /\ Cardinality(RunOf(p)') + EndOf(p)'
                               <= Cardinality(RunOf(p)) + EndOf(p)
      OBVIOUS
    <3>. QED  BY <1>1, <2>2
  <2>. QED  BY <1>1, <2>1, <2>3, <2>4, PoolsLeft
<1>. QED
  BY <1>4, <1>5, <1>6, <1>7, <1>8, PrepareFits, StartPools, FinishPools, PlanCallPools
  DEF Next, BuildStep, Ended

\* At the start nothing is queued, delayed or running.
LEMMA InitPools == Init => PoolInv
<1>1. SUFFICES ASSUME Init PROVE PoolInv
  OBVIOUS
<1>2. /\ use = [p \in Pool |-> 0] /\ delayed = [p \in Pool |-> <<>>]
      /\ ready = [e \in Edge |-> 0] /\ calls = <<>> /\ running = <<>>
  BY <1>1 DEF Init, PlanInit, PoolsInit, RunnerInit
<1>3. ASSUME NEW p \in Pool PROVE DelayedRight(delayed[p], p)
  <2>1. delayed[p] = <<>> /\ <<>> \in Seq(Edge) /\ Len(<<>>) = 0
    BY <1>2
  <2>. QED  BY <2>1 DEF DelayedRight
<1>4. ASSUME NEW p \in Pool, Depth[p] # 0
      PROVE  Fits(ready, Cardinality(RunOf(p)) + EndOf(p), use[p], p)
  <2>1. Queued(ready, p) = {} /\ RunOf(p) = {}
    BY <1>2 DEF Queued, RunOf
  <2>2. EndOf(p) = 0 /\ use[p] = 0
    BY <1>2 DEF EndOf, Pending, ToSet
  <2>3. Depth[p] \in Nat
    BY GraphAssumption
  <2>. QED  BY <2>1, <2>2, <2>3, FS_EmptySet DEF Fits
<1>. QED  BY <1>2, <1>3, <1>4 DEF PoolInv

\* At most depth_ commands of a pool are queued to run or running, in every manifest, also where
\* RetrieveReadyEdges lets an edge in again.
THEOREM PoolDepthHolds == Spec => []PoolDepthKept
<1>1. TypeOK /\ PoolInv => PoolDepthKept
  <2>1. SUFFICES ASSUME TypeOK, PoolInv, NEW p \in Pool, Depth[p] # 0
                 PROVE  use[p] \in 0..Depth[p] /\ Cardinality(RunOf(p)) <= use[p]
    BY DEF PoolDepthKept, RunOf
  <2>2. /\ Cardinality(RunOf(p)) \in Nat /\ EndOf(p) \in Nat /\ use[p] \in Int
        /\ Depth[p] \in Nat
    <3>1. Cardinality(RunOf(p)) \in Nat
      BY <2>1, RunOfSteps DEF TypeOK
    <3>. QED  BY <2>1, <3>1, GraphAssumption DEF EndOf, TypeOK, PlanTypeOK, PoolsTypeOK
  <2>3. Fits(ready, Cardinality(RunOf(p)) + EndOf(p), use[p], p)
    BY <2>1 DEF PoolInv
  <2>4. /\ Cardinality(Queued(ready, p)) \in Nat
        /\ Cardinality(Queued(ready, p)) + (Cardinality(RunOf(p)) + EndOf(p)) <= use[p]
        /\ use[p] <= Depth[p]
    BY <2>3, FS_CardinalityType DEF Fits
  <2>. QED  BY <2>2, <2>4
<1>2. Init => TypeOK /\ InTurn(calls) /\ PoolInv
  <2>1. SUFFICES ASSUME Init PROVE TypeOK /\ InTurn(calls) /\ PoolInv
    OBVIOUS
  <2>2. calls = <<>>
    BY <2>1 DEF Init, PlanInit
  <2>3. InTurn(calls)
    BY <2>2 DEF InTurn
  <2>. QED  BY <2>1, <2>3, InitType, InitPools
<1>3. TypeOK /\ InTurn(calls) /\ PoolInv /\ [Next]_vars
        => TypeOK' /\ InTurn(calls)' /\ PoolInv'
  <2>1. TypeOK /\ InTurn(calls) /\ [Next]_vars => InTurn(calls)'
    BY NextInTurn DEF InTurn
  <2>. QED  BY <2>1, NextType, NextPools
<1>. QED  BY <1>1, <1>2, <1>3, PTL DEF Spec
=============================================================================
