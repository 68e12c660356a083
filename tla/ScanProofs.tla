----------------------------- MODULE ScanProofs -----------------------------
(***************************************************************************)
(* What the dependency scan and AddSubTarget leave, for every manifest,    *)
(* with cycles or without, every recording of its dependencies and every   *)
(* list of targets.                                                        *)
(***************************************************************************)
EXTENDS DependencyScan, FiniteSetTheorems, SequenceTheorems, TLAPS

\* The visit of node n is over: what is known of it does not change any more.
Settled(n) ==
    /\ n \in Node
    /\ IF n \in Leaf THEN n \notin graph.present => n \in dirty
                     ELSE mark_[InEdge[n]] = "done"

\* in_edge() == nil || in_edge().outputs_ready_
ReadyOf(n) == n \in Leaf \/ outputs_ready_[InEdge[n]]

\* What the first m inputs of an edge make of it.
SettledTo(e, m) == \A k \in 1..m : Settled(inputs_[e][k])
ReadyTo(e, m) == \A k \in 1..m : ReadyOf(inputs_[e][k])
DirtiedTo(e, m) ==
    graph.load[e] = "stale" \/ \E k \in 1..m : ~IsOrderOnly(e, k) /\ inputs_[e][k] \in dirty

IsDirty(e) == DirtiedTo(e, Len(inputs_[e])) \/ RecomputeOutputDirty(e)

TypeInv ==
    /\ graph \in Graphs
    /\ inputs_ \in [Edge -> Seq(Node \cup {Nil})]
    /\ mark_ \in [Edge -> {"none", "stack", "done"}]
    /\ outputs_ready_ \in [Edge -> BOOLEAN]
    /\ dirty \subseteq Node
    /\ queue \in Seq(Node) /\ frames \in Seq(Frame)

\* Only what was visited is dirty, and the outputs of an edge together.
DirtyInv ==
    /\ \A n \in dirty : IF n \in Leaf THEN n \notin graph.present
                        ELSE mark_[InEdge[n]] = "done"
    /\ \A e \in Edge : \A m, n \in ToSet(Outs[e]) : m \in dirty => n \in dirty

EdgeInv(e) ==
    mark_[e] = "done" =>
        /\ ToSet(Outs[e]) # {}
        /\ SettledTo(e, Len(inputs_[e]))
        /\ outputs_ready_[e] = (ReadyTo(e, Len(inputs_[e])) /\ (IsDirty(e) => NothingToDo(e)))
        /\ \A n \in ToSet(Outs[e]) : n \in dirty <=> IsDirty(e)

EdgesInv == \A e \in Edge : EdgeInv(e)

EdgeOf(i) == InEdge[frames[i].node]

\* An activation: the inputs before |next| are settled and have been counted.  All but
\* the last one are at the input whose activation is the next one.
FrameInv(i) ==
    LET f == frames[i]
        e == EdgeOf(i)
    IN  /\ f.node \in Node \ Leaf
        /\ mark_[e] = "stack"
        /\ f.next <= Len(inputs_[e]) + 1
        /\ f.returned => f.next <= Len(inputs_[e])
        /\ SettledTo(e, f.next - 1)
        /\ outputs_ready_[e] = ReadyTo(e, f.next - 1)
        /\ f.dirty = DirtiedTo(e, f.next - 1)

LinkInv(i) ==
    frames[i].returned =>
        IF i = Len(frames) THEN Settled(inputs_[EdgeOf(i)][frames[i].next])
                           ELSE inputs_[EdgeOf(i)][frames[i].next] = frames[i + 1].node

StackInv ==
    /\ \A i \in DOMAIN frames : FrameInv(i) /\ LinkInv(i)
    /\ \A i \in DOMAIN frames : i < Len(frames) => frames[i].returned
    /\ \A i, j \in DOMAIN frames : EdgeOf(i) = EdgeOf(j) => i = j
    /\ pc \in {"target", "plan"} => frames = <<>>

\* A scan that has not given up leaves no mark behind.
MarksInv ==
    /\ err = "none" /\ pc # "panic" => \A e \in Edge : mark_[e] = "stack" => e \in Active
    /\ err = "cycle" => pc = "done" /\ (OnStack = Active => Cyclic(OnStack))

\* What was visited has no cycle.
AcyclicInv == ~Cyclic(Done)

ScanInv == TypeInv /\ DirtyInv /\ EdgesInv /\ StackInv /\ MarksInv /\ AcyclicInv

\* The target of a scan is visited first, and settled when the scan is over.
TargetInv ==
    /\ targets \in Seq(Node)
    /\ Len(targets) <= Len(graph.targets)
    /\ \A i \in 1..Len(targets) :
           targets[i] = graph.targets[Len(graph.targets) - Len(targets) + i]
    /\ pc \in {"scan", "plan"} => targets # <<>>
    /\ pc = "scan" => \/ Settled(Head(targets))
                      \/ frames = <<>> /\ queue # <<>> /\ Head(queue) = Head(targets)
                      \/ frames # <<>> /\ frames[1].node = Head(targets)
    /\ pc = "done" /\ err = "none" => targets = <<>>

Wanted == {e \in Edge : want[e] # "absent"}

\* Nothing is left to do for node n.
Covered(n) == n \in Leaf \/ (mark_[InEdge[n]] = "done"
                             /\ (outputs_ready_[InEdge[n]] \/ InEdge[n] \in Wanted))

WalkInv ==
    /\ walk \in Seq(Node)
    /\ \A n \in ToSet(walk) :
          /\ Settled(n)
          /\ n \in ToSet(graph.targets) \/ \E f \in Wanted : n \in ToSet(inputs_[f])
    /\ pc \in {"target", "scan"} \/ (pc = "done" /\ err = "none") => walk = <<>>

WantInv ==
    /\ want \in [Edge -> {"absent", "nothing", "start"}]
    /\ \A e \in Wanted :
          /\ mark_[e] = "done" /\ ~outputs_ready_[e]
          /\ want[e] = "start" <=> IsDirty(e)
          /\ ToSet(Outs[e]) \cap ToSet(graph.targets) # {} \/ \E f \in Wanted : e \in DependsOn(f)
          /\ \A n \in ToSet(inputs_[e]) : Covered(n) \/ n \in ToSet(walk)

CoverInv ==
    err = "none" =>
        /\ \A i \in 1..(Len(graph.targets) - Len(targets)) : Covered(graph.targets[i])
        /\ pc = "plan" => Covered(Head(targets)) \/ Head(targets) \in ToSet(walk)

PlanInv == TargetInv /\ WalkInv /\ WantInv /\ CoverInv

-----------------------------------------------------------------------------
(* Graphs, frames, and what stays as it is *)

LEMMA InEdgeProduces ==
    ASSUME NEW n \in Node \ Leaf
    PROVE  InEdge[n] \in Edge /\ n \in ToSet(Outs[InEdge[n]])
<1>1. Producers[n] # {} /\ Producers[n] = {e \in Edge : n \in ToSet(Outs[e])}
    BY DEF Leaf, Producers
<1>2. InEdge[n] = CHOOSE e \in Edge : e \in Producers[n]
    BY DEF InEdge
<1>3. \E e \in Edge : e \in Producers[n]
    BY <1>1
<1>4. InEdge[n] \in Edge /\ InEdge[n] \in Producers[n]
    BY <1>2, <1>3
<1> QED
    BY <1>1, <1>4

LEMMA OutputHasInEdge ==
    ASSUME NEW e \in Edge, NEW n \in ToSet(Outs[e])
    PROVE  n \in Node /\ n \notin Leaf /\ InEdge[n] = e
<1>1. Outs[e] \in Seq(Node)
    BY DependencyScanAssumption
<1>2. n \in Node
    BY <1>1 DEF ToSet
<1>3. e \in Producers[n]
    BY <1>2 DEF Producers
<1>4. n \in Node \ Leaf
    BY <1>2, <1>3 DEF Leaf
<1>5. InEdge[n] \in Edge /\ n \in ToSet(Outs[InEdge[n]])
    BY <1>4, InEdgeProduces
<1> QED
    BY <1>4, <1>5, DependencyScanAssumption

\* What a step of the scan may do: it adds to what is known, and leaves alone what has been
\* visited to the end.
Grows ==
    /\ graph' = graph
    /\ \A e \in Edge : mark_[e] = "done" =>
          mark_'[e] = "done" /\ inputs_'[e] = inputs_[e] /\ outputs_ready_'[e] = outputs_ready_[e]
    /\ dirty \subseteq dirty'
    /\ \A n \in dirty' \ dirty :
          IF n \in Leaf THEN n \notin graph.present ELSE mark_[InEdge[n]] # "done"

LEMMA SettledStays ==
    ASSUME Grows, NEW n, Settled(n)
    PROVE  Settled(n)' /\ (n \in dirty') = (n \in dirty) /\ ReadyOf(n)' = ReadyOf(n)
<1>1. CASE n \in Leaf
    BY <1>1 DEF Grows, Settled, ReadyOf
<1>2. CASE n \notin Leaf
    <2>1. n \in Node \ Leaf /\ mark_[InEdge[n]] = "done"
        BY <1>2 DEF Settled
    <2>2. InEdge[n] \in Edge
        BY <2>1, InEdgeProduces
    <2>3. mark_'[InEdge[n]] = "done" /\ outputs_ready_'[InEdge[n]] = outputs_ready_[InEdge[n]]
        BY <2>1, <2>2 DEF Grows
    <2>4. (n \in dirty') = (n \in dirty)
        BY <1>2, <2>1 DEF Grows
    <2> QED
        BY <1>2, <2>1, <2>3, <2>4 DEF Settled, ReadyOf
<1> QED
    BY <1>1, <1>2

\* So what the settled inputs of an edge make of it does not change.
LEMMA SumsStay ==
    ASSUME Grows, NEW e \in Edge, NEW m, inputs_'[e] = inputs_[e], SettledTo(e, m)
    PROVE  /\ SettledTo(e, m)'
           /\ ReadyTo(e, m)' = ReadyTo(e, m)
           /\ DirtiedTo(e, m)' = DirtiedTo(e, m)
<1>1. \A k \in 1..m : /\ Settled(inputs_[e][k])
                      /\ Settled(inputs_[e][k])'
                      /\ (inputs_[e][k] \in dirty)' = (inputs_[e][k] \in dirty)
                      /\ ReadyOf(inputs_[e][k])' = ReadyOf(inputs_[e][k])
    <2> TAKE k \in 1..m
    <2>1. PICK n : n = inputs_[e][k]
        OBVIOUS
    <2>2. Settled(n)
        BY <2>1 DEF SettledTo
    <2>3. Settled(n)' /\ (n \in dirty') = (n \in dirty) /\ ReadyOf(n)' = ReadyOf(n)
        BY <2>2, SettledStays
    <2>4. inputs_'[e][k] = n
        BY <2>1
    <2> QED
        BY <2>1, <2>2, <2>3, <2>4 DEF Settled, ReadyOf
<1>2. \A k : IsOrderOnly(e, k)' = IsOrderOnly(e, k)
    BY DEF Grows, IsOrderOnly
<1>3. graph' = graph
    BY DEF Grows
<1>4. \A k \in 1..m : (inputs_[e][k] \in dirty)' = (inputs_[e][k] \in dirty)
    BY <1>1
<1>5. \A k \in 1..m : ReadyOf(inputs_[e][k])' = ReadyOf(inputs_[e][k])
    BY <1>1
<1>6. SettledTo(e, m)'
    BY <1>1 DEF SettledTo
<1>7. ReadyTo(e, m)' = ReadyTo(e, m)
    BY <1>5 DEF ReadyTo
<1>8. DirtiedTo(e, m)' = DirtiedTo(e, m)
    BY <1>2, <1>3, <1>4 DEF DirtiedTo
<1> QED
    BY <1>6, <1>7, <1>8

LEMMA EdgeStays ==
    ASSUME Grows, NEW e \in Edge, mark_[e] = "done", EdgeInv(e)
    PROVE  EdgeInv(e)' /\ IsDirty(e)' = IsDirty(e)
<1>1. PICK m : m = Len(inputs_[e])
    OBVIOUS
<1>2. /\ inputs_'[e] = inputs_[e] /\ outputs_ready_'[e] = outputs_ready_[e] /\ graph' = graph
      /\ SettledTo(e, m)
    BY <1>1 DEF Grows, EdgeInv
<1>3. /\ SettledTo(e, m)'
      /\ ReadyTo(e, m)' = ReadyTo(e, m)
      /\ DirtiedTo(e, m)' = DirtiedTo(e, m)
    BY <1>2, SumsStay
<1>4. IsDirty(e)' = IsDirty(e)
    <2>1. IsDirty(e) = (DirtiedTo(e, m) \/ RecomputeOutputDirty(e))
        BY <1>1 DEF IsDirty
    <2>2. IsDirty(e)' = (DirtiedTo(e, m)' \/ RecomputeOutputDirty(e)')
        BY <1>1, <1>2 DEF IsDirty
    <2>3. RecomputeOutputDirty(e)' = RecomputeOutputDirty(e)
        BY <1>2 DEF RecomputeOutputDirty
    <2> QED
        BY <1>3, <2>1, <2>2, <2>3
<1>5. \A n \in ToSet(Outs[e]) : (n \in dirty') = (n \in dirty)
    <2> TAKE n \in ToSet(Outs[e])
    <2>1. n \notin Leaf /\ InEdge[n] = e
        BY OutputHasInEdge
    <2> QED
        BY <2>1 DEF Grows
<1>6. NothingToDo(e)' = NothingToDo(e)
    BY <1>2 DEF NothingToDo
<1>7. EdgeInv(e)'
    BY <1>1, <1>2, <1>3, <1>4, <1>5, <1>6 DEF EdgeInv
<1> QED
    BY <1>4, <1>7

LEMMA FrameTypes ==
    ASSUME TypeInv
    PROVE  /\ Len(frames) \in Nat /\ DOMAIN frames = 1..Len(frames)
           /\ \A i \in DOMAIN frames :
                 /\ frames[i] \in Frame
                 /\ frames[i].next \in Nat /\ frames[i].next >= 1
                 /\ frames[i].returned \in BOOLEAN /\ frames[i].dirty \in BOOLEAN
           /\ frames # <<>> => Len(frames) \in DOMAIN frames /\ Top = frames[Len(frames)]
<1>1. frames \in Seq(Frame)
    BY DEF TypeInv
<1>2. Len(frames) \in Nat /\ DOMAIN frames = 1..Len(frames)
    BY <1>1
<1>3. \A i \in DOMAIN frames : frames[i] \in Frame
    BY <1>1
<1>4. frames # <<>> => Len(frames) \in DOMAIN frames
    BY <1>1
<1> QED
    BY <1>2, <1>3, <1>4 DEF Frame, Top

LEMMA InputTypes ==
    ASSUME TypeInv, NEW e \in Edge
    PROVE  /\ inputs_[e] \in Seq(Node \cup {Nil})
           /\ Len(inputs_[e]) \in Nat /\ DOMAIN inputs_[e] = 1..Len(inputs_[e])
           /\ graph.order_only[e] \in Nat
<1>1. inputs_[e] \in Seq(Node \cup {Nil})
    BY DEF TypeInv
<1>2. WellFormed(graph)
    BY GraphsAssumption DEF TypeInv
<1>3. graph.order_only[e] \in Nat
    BY <1>2 DEF WellFormed
<1> QED
    BY <1>1, <1>3

\* A frame that a step leaves as it is, but for |returned|.
LEMMA FrameStays ==
    ASSUME Grows, NEW i, FrameInv(i), EdgeOf(i) \in Edge,
           frames'[i].node = frames[i].node, frames'[i].next = frames[i].next,
           frames'[i].dirty = frames[i].dirty,
           frames'[i].returned => frames[i].next <= Len(inputs_[EdgeOf(i)]),
           mark_'[EdgeOf(i)] = mark_[EdgeOf(i)],
           inputs_'[EdgeOf(i)] = inputs_[EdgeOf(i)],
           outputs_ready_'[EdgeOf(i)] = outputs_ready_[EdgeOf(i)]
    PROVE  FrameInv(i)'
<1>1. PICK e \in Edge : e = EdgeOf(i)
    OBVIOUS
<1>2. PICK m : m = frames[i].next - 1
    OBVIOUS
<1>3. e = EdgeOf(i)'
    BY <1>1 DEF EdgeOf
<1>4. SettledTo(e, m) /\ inputs_'[e] = inputs_[e]
    BY <1>1, <1>2 DEF FrameInv
<1>5. /\ SettledTo(e, m)'
      /\ ReadyTo(e, m)' = ReadyTo(e, m)
      /\ DirtiedTo(e, m)' = DirtiedTo(e, m)
    BY <1>4, SumsStay
<1>6. outputs_ready_[e] = ReadyTo(e, m) /\ frames[i].dirty = DirtiedTo(e, m)
    BY <1>1, <1>2 DEF FrameInv
<1>7. m = frames'[i].next - 1
    BY <1>2
<1> QED
    BY <1>1, <1>3, <1>5, <1>6, <1>7 DEF FrameInv

LEMMA AcyclicStays ==
    ASSUME AcyclicInv, Done' = Done, \A e \in Done : inputs_'[e] = inputs_[e]
    PROVE  AcyclicInv'
<1>1. \A e \in Done : DependsOn(e)' = DependsOn(e)
    BY DEF DependsOn
<1>2. \A C \in SUBSET Done : (\A e \in C : (DependsOn(e) \cap C # {})')
                               => \A e \in C : DependsOn(e) \cap C # {}
    BY <1>1
<1> QED
    BY <1>2 DEF AcyclicInv, Cyclic

-----------------------------------------------------------------------------
(* The scan *)

LEMMA ScanInit == Init => ScanInv
<1> SUFFICES ASSUME Init PROVE ScanInv
    OBVIOUS
<1>1. WellFormed(graph)
    BY GraphsAssumption DEF Init
<1>2. \A e \in Edge : inputs_[e] = graph.ins[e] /\ mark_[e] = "none"
    BY DEF Init
<1>3. TypeInv
    <2>1. inputs_ \in [Edge -> Seq(Node \cup {Nil})]
        <3>1. \A e \in Edge : graph.ins[e] \in Seq(Node \cup {Nil})
            BY <1>1 DEF WellFormed
        <3>2. graph.ins \in [Edge -> Seq(Node)]
            BY <1>1 DEF WellFormed
        <3>3. graph.ins \in [Edge -> Seq(Node \cup {Nil})]
            BY <3>1, <3>2
        <3> QED
            BY <3>3 DEF Init
    <2> QED
        BY <2>1 DEF Init, TypeInv
<1>4. DirtyInv
    BY DEF Init, DirtyInv
<1>5. EdgesInv
    BY <1>2 DEF EdgesInv, EdgeInv
<1>6. StackInv
    BY DEF Init, StackInv
<1>7. MarksInv
    BY <1>2 DEF Init, MarksInv
<1>8. AcyclicInv
    BY <1>2 DEF AcyclicInv, Cyclic, Done
<1> QED
    BY <1>3, <1>4, <1>5, <1>6, <1>7, <1>8 DEF ScanInv

\* A step that visits nothing.
LEMMA ScanUntouched ==
    ASSUME ScanInv,
           UNCHANGED <<graph, inputs_, mark_, outputs_ready_, dirty, frames>>,
           queue' \in Seq(Node),
           pc' \in {"target", "plan"} => frames = <<>>,
           err' = "none" /\ pc' # "panic" => err = "none" /\ pc # "panic",
           err' = "cycle" => pc' = "done" /\ (OnStack = Active => Cyclic(OnStack))
    PROVE  ScanInv' /\ Grows
<1>1. Grows
    BY DEF Grows
<1>2. TypeInv'
    BY DEF ScanInv, TypeInv
<1>3. DirtyInv'
    BY DEF ScanInv, DirtyInv
<1>4. EdgesInv'
    BY DEF ScanInv, EdgesInv, EdgeInv, SettledTo, ReadyTo, DirtiedTo, IsDirty, Settled, ReadyOf,
           IsOrderOnly, RecomputeOutputDirty, NothingToDo
<1>5. StackInv'
    <2>1. ASSUME NEW i \in DOMAIN frames PROVE FrameInv(i)' /\ LinkInv(i)'
        <3>1. FrameInv(i) /\ LinkInv(i) /\ frames' = frames
            BY DEF ScanInv, StackInv
        <3>2. EdgeOf(i) \in Edge
            BY <3>1, InEdgeProduces DEF FrameInv, EdgeOf
        <3>3. frames[i].returned => frames[i].next <= Len(inputs_[EdgeOf(i)])
            BY <3>1 DEF FrameInv
        <3>4. FrameInv(i)'
            BY <1>1, <3>1, <3>2, <3>3, FrameStays
        <3>5. PICK n : n = inputs_[EdgeOf(i)][frames[i].next]
            OBVIOUS
        <3>6. n = (inputs_[EdgeOf(i)][frames[i].next])' /\ (Settled(n) => Settled(n)')
            BY <3>5, <1>1, SettledStays DEF EdgeOf
        <3>7. LinkInv(i)'
            BY <3>1, <3>5, <3>6 DEF LinkInv, Settled
        <3> QED
            BY <3>4, <3>7
    <2> QED
        BY <2>1 DEF ScanInv, StackInv, EdgeOf
<1>6. MarksInv'
    <2>1. OnStack' = OnStack /\ Active' = Active
        BY DEF OnStack, Active
    <2>2. ASSUME Cyclic(OnStack) PROVE Cyclic(OnStack)'
        <3>1. PICK C \in SUBSET OnStack : C # {} /\ \A e \in C : DependsOn(e) \cap C # {}
            BY <2>2 DEF Cyclic
        <3>2. \A e \in C : (DependsOn(e) \cap C # {})'
            BY <3>1 DEF DependsOn
        <3> QED
            BY <2>1, <3>1, <3>2 DEF Cyclic
    <2>3. (\A e \in Edge : mark_[e] = "stack" => e \in Active)
             => (\A e \in Edge : mark_[e] = "stack" => e \in Active)'
        BY <2>1
    <2>4. /\ err' = "none" /\ pc' # "panic" => \A e \in Edge : mark_[e] = "stack" => e \in Active
          /\ err' = "cycle" => pc' = "done" /\ (OnStack = Active => Cyclic(OnStack))
        BY DEF ScanInv, MarksInv
    <2> QED
        BY <2>1, <2>2, <2>3, <2>4 DEF MarksInv
<1>7. AcyclicInv'
    BY AcyclicStays DEF ScanInv, Done
<1> QED
    BY <1>1, <1>2, <1>3, <1>4, <1>5, <1>6, <1>7 DEF ScanInv

LEMMA OnePerFrame ==
    ASSUME ScanInv, NEW i \in DOMAIN frames
    PROVE  /\ EdgeOf(i) \in Edge /\ FrameInv(i) /\ LinkInv(i)
           /\ frames[i].node \in ToSet(Outs[EdgeOf(i)])
           /\ mark_[EdgeOf(i)] = "stack"
<1>1. FrameInv(i) /\ LinkInv(i)
    BY DEF ScanInv, StackInv
<1> QED
    BY <1>1, InEdgeProduces DEF FrameInv, EdgeOf

\* The activation that reaches a node on the stack closes a cycle: from that node's own
\* activation on, each is at an input that the next one produces.
LEMMA StackCloses ==
    ASSUME ScanInv, NEW n \in Node \ Leaf, About(n), frames # <<>>,
           mark_[InEdge[n]] = "stack", OnStack = Active
    PROVE  Cyclic(OnStack)
<1> DEFINE N == Len(frames)
<1>1. /\ N \in Nat /\ DOMAIN frames = 1..N /\ N \in DOMAIN frames /\ Top = frames[N]
      /\ \A i \in DOMAIN frames : frames[i].next \in Nat /\ frames[i].next >= 1
    BY FrameTypes DEF ScanInv
<1>2. InEdge[n] \in Edge /\ n \in ToSet(Outs[InEdge[n]])
    BY InEdgeProduces
<1>3. InEdge[n] \in Active
    BY <1>2 DEF OnStack
<1>4. PICK j \in DOMAIN frames : EdgeOf(j) = InEdge[n]
    BY <1>3 DEF Active, EdgeOf
<1> DEFINE C == {EdgeOf(i) : i \in j..N}
<1>5. j..N \subseteq DOMAIN frames /\ j \in j..N
    BY <1>1, <1>4
<1>6. C \subseteq Active /\ C # {}
    BY <1>5 DEF Active, EdgeOf
<1>7. ASSUME NEW i \in j..N PROVE DependsOn(EdgeOf(i)) \cap C # {}
    <2> DEFINE e == EdgeOf(i)
               x == inputs_[e][frames[i].next]
    <2>1. i \in DOMAIN frames /\ e \in Edge /\ FrameInv(i) /\ LinkInv(i)
        BY <1>5, OnePerFrame
    <2>2. \E d \in C : d \in Edge /\ x \in ToSet(Outs[d]) /\ frames[i].next <= Len(inputs_[e])
        <3>1. CASE i = N
            <4>1. x = n /\ frames[i].next <= Len(inputs_[e])
                BY <1>1, <3>1 DEF About, NextInput, TopEdge, EdgeOf
            <4> QED
                BY <1>2, <1>4, <1>5, <4>1
        <3>2. CASE i # N
            <4>1. i < N /\ i + 1 \in j..N /\ i + 1 \in DOMAIN frames
                BY <1>1, <1>4, <3>2
            <4>2. frames[i].returned
                BY <2>1, <4>1 DEF ScanInv, StackInv
            <4>3. x = frames[i + 1].node /\ frames[i].next <= Len(inputs_[e])
                BY <2>1, <3>2, <4>2 DEF LinkInv, FrameInv
            <4>4. EdgeOf(i + 1) \in Edge /\ frames[i + 1].node \in ToSet(Outs[EdgeOf(i + 1)])
                BY <4>1, OnePerFrame
            <4> QED
                BY <4>1, <4>3, <4>4
        <3> QED
            BY <3>1, <3>2
    <2>3. frames[i].next \in 1..Len(inputs_[e]) /\ DOMAIN inputs_[e] = 1..Len(inputs_[e])
        BY <1>1, <2>1, <2>2, InputTypes DEF ScanInv
    <2>4. x \in ToSet(inputs_[e])
        BY <2>3 DEF ToSet
    <2> QED
        BY <2>2, <2>4 DEF DependsOn
<1>8. \A e \in C : DependsOn(e) \cap C # {}
    BY <1>7
<1>9. C \in SUBSET OnStack /\ C # {}
    BY <1>6
<1> HIDE DEF C
<1> QED
    BY <1>8, <1>9 DEF Cyclic

\* NextTarget, NoMoreTargets, ScanDone, VisitInStack, VisitNil, EnterPanics, and planning.
LEMMA ScanQuiet ==
    ASSUME ScanInv, TargetInv,
           \/ NextTarget \/ NoMoreTargets \/ ScanDone \/ VisitNil \/ PlanDone
           \/ \E n \in Node : \/ VisitInStack(n) \/ EnterPanics(n)
                              \/ PlanMissing(n) \/ PlanNothing(n) \/ PlanEdge(n)
    PROVE  ScanInv' /\ Grows
<1> USE DEF scanned, planned
<1>0. queue \in Seq(Node) /\ targets \in Seq(Node)
    BY DEF ScanInv, TypeInv, TargetInv
<1>00. err = "cycle" => pc = "done"
    BY DEF ScanInv, MarksInv
<1>1. CASE NextTarget
    <2>1. queue' \in Seq(Node)
        BY <1>0, <1>1 DEF NextTarget
    <2> QED
        BY <1>00, <1>1, <2>1, ScanUntouched DEF NextTarget
<1>2. CASE NoMoreTargets \/ VisitNil \/ ScanDone \/ PlanDone
    BY <1>0, <1>00, <1>2, ScanUntouched
        DEF NoMoreTargets, VisitNil, ScanDone, PlanDone, About, ScanInv, StackInv
<1>3. ASSUME NEW n \in Node, EnterPanics(n) \/ PlanNothing(n) \/ PlanEdge(n)
      PROVE  ScanInv' /\ Grows
    <2>1. /\ UNCHANGED <<graph, inputs_, mark_, outputs_ready_, dirty, frames, queue, err>>
          /\ pc' = pc \/ pc' = "panic"
        BY <1>3 DEF EnterPanics, PlanNothing, PlanEdge
    <2>2. pc' \in {"target", "plan"} => frames = <<>>
        BY <2>1 DEF ScanInv, StackInv
    <2>3. pc \in {"scan", "plan"}
        BY <1>3 DEF EnterPanics, Unmarked, About, PlanNothing, PlanEdge, Planning
    <2> QED
        BY <1>0, <1>00, <2>1, <2>2, <2>3, ScanUntouched
<1>4. ASSUME NEW n \in Node, PlanMissing(n) PROVE ScanInv' /\ Grows
    BY <1>0, <1>4, ScanUntouched DEF PlanMissing, Fail
<1>5. ASSUME NEW n \in Node, VisitInStack(n) PROVE ScanInv' /\ Grows
    <2>1. CASE frames = <<>>
        BY <1>0, <1>00, <1>5, <2>1, ScanUntouched DEF VisitInStack, About
    <2>2. CASE frames # <<>>
        <3>1. OnStack = Active => Cyclic(OnStack)
            BY <1>5, <2>2, StackCloses DEF VisitInStack
        <3> QED
            BY <1>0, <1>5, <2>2, <3>1, ScanUntouched DEF VisitInStack, Fail
    <2> QED
        BY <2>1, <2>2
<1> QED
    BY <1>1, <1>2, <1>3, <1>4, <1>5

LEMMA VisitTypes ==
    ASSUME TypeInv
    PROVE  /\ FramesAfter \in Seq(Frame) /\ Len(FramesAfter) = Len(frames)
           /\ \A i \in DOMAIN frames :
                 /\ FramesAfter[i].node = frames[i].node /\ FramesAfter[i].next = frames[i].next
                 /\ FramesAfter[i].dirty = frames[i].dirty
                 /\ i < Len(frames) => FramesAfter[i] = frames[i]
                 /\ i = Len(frames) => FramesAfter[i].returned
           /\ frames = <<>> /\ queue # <<>> => QueueAfter \in Seq(Node)
           /\ frames # <<>> => QueueAfter \in Seq(Node)
<1>1. frames \in Seq(Frame) /\ queue \in Seq(Node)
    BY DEF TypeInv
<1>2. /\ FramesAfter \in Seq(Frame) /\ Len(FramesAfter) = Len(frames)
      /\ \A i \in DOMAIN frames :
                 /\ FramesAfter[i].node = frames[i].node /\ FramesAfter[i].next = frames[i].next
                 /\ FramesAfter[i].dirty = frames[i].dirty
                 /\ i < Len(frames) => FramesAfter[i] = frames[i]
                 /\ i = Len(frames) => FramesAfter[i].returned
    <2>1. CASE frames = <<>>
        BY <2>1 DEF FramesAfter
    <2>2. CASE frames # <<>>
        <3>1. Len(frames) \in DOMAIN frames /\ DOMAIN frames = 1..Len(frames) /\ Len(frames) \in Nat
            BY <1>1, <2>2
        <3>2. \A i \in DOMAIN frames : frames[i] \in Frame
            BY <1>1
        <3>3. FramesAfter = [frames EXCEPT ![Len(frames)].returned = TRUE]
            BY <2>2 DEF FramesAfter
        <3>4. [frames[Len(frames)] EXCEPT !.returned = TRUE] \in Frame
            BY <3>1, <3>2 DEF Frame
        <3>5. FramesAfter \in Seq(Frame) /\ Len(FramesAfter) = Len(frames)
            BY <1>1, <3>1, <3>3, <3>4
        <3>6. \A i \in DOMAIN frames : i # Len(frames) => FramesAfter[i] = frames[i]
            BY <3>3
        <3>7. FramesAfter[Len(frames)] = [frames[Len(frames)] EXCEPT !.returned = TRUE]
            BY <3>1, <3>3
        <3> QED
            BY <3>1, <3>2, <3>5, <3>6, <3>7 DEF Frame
    <2> QED
        BY <2>1, <2>2
<1>3. frames = <<>> /\ queue # <<>> => QueueAfter \in Seq(Node)
    BY <1>1 DEF QueueAfter
<1>4. frames # <<>> => QueueAfter \in Seq(Node)
    BY <1>1 DEF QueueAfter
<1> QED
    BY <1>2, <1>3, <1>4

\* Where the visit of n begins.
LEMMA AboutTop ==
    ASSUME ScanInv, NEW n, About(n)
    PROVE  /\ pc = "scan" /\ QueueAfter \in Seq(Node)
           /\ err # "cycle"
           /\ frames # <<>> =>
                 /\ Len(frames) \in DOMAIN frames /\ ~frames[Len(frames)].returned
                 /\ frames[Len(frames)].next <= Len(inputs_[EdgeOf(Len(frames))])
                 /\ n = inputs_[EdgeOf(Len(frames))][frames[Len(frames)].next]
<1>1. TypeInv /\ MarksInv
    BY DEF ScanInv
<1>2. pc = "scan" /\ QueueAfter \in Seq(Node)
    BY <1>1, VisitTypes DEF About
<1>3. err # "cycle"
    BY <1>1, <1>2 DEF MarksInv
<1>4. frames # <<>> => /\ Len(frames) \in DOMAIN frames
                       /\ Top = frames[Len(frames)]
    BY <1>1, FrameTypes
<1> QED
    BY <1>2, <1>3, <1>4 DEF About, NextInput, TopEdge, EdgeOf

\* The frames that were there when a visit has begun: all of them are at an input.
LEMMA FramesStay ==
    ASSUME ScanInv, NEW n, About(n), Grows, NEW i \in DOMAIN frames,
           frames'[i] = FramesAfter[i],
           mark_'[EdgeOf(i)] = mark_[EdgeOf(i)], inputs_'[EdgeOf(i)] = inputs_[EdgeOf(i)],
           outputs_ready_'[EdgeOf(i)] = outputs_ready_[EdgeOf(i)]
    PROVE  /\ FrameInv(i)' /\ frames'[i].returned
           /\ EdgeOf(i)' = EdgeOf(i)
           /\ (inputs_[EdgeOf(i)][frames[i].next])' = inputs_[EdgeOf(i)][frames[i].next]
           /\ i < Len(frames) => inputs_[EdgeOf(i)][frames[i].next] = frames[i + 1].node
           /\ i = Len(frames) => inputs_[EdgeOf(i)][frames[i].next] = n
<1>1. /\ FrameInv(i) /\ LinkInv(i) /\ EdgeOf(i) \in Edge
    BY OnePerFrame
<1>2. TypeInv
    BY DEF ScanInv
<1>3. /\ frames'[i].node = frames[i].node /\ frames'[i].next = frames[i].next
      /\ frames'[i].dirty = frames[i].dirty
      /\ i < Len(frames) => frames'[i].returned = frames[i].returned
      /\ i = Len(frames) => frames'[i].returned
    BY <1>2, VisitTypes
<1>4. Len(frames) \in Nat /\ i \in 1..Len(frames) /\ frames # <<>>
    BY <1>2, FrameTypes
<1>5. i < Len(frames) => frames[i].returned /\ frames[i].next <= Len(inputs_[EdgeOf(i)])
    BY <1>1 DEF ScanInv, StackInv, FrameInv
<1>6. i = Len(frames) => /\ frames[i].next <= Len(inputs_[EdgeOf(i)])
                         /\ n = inputs_[EdgeOf(i)][frames[i].next]
    BY <1>4, AboutTop
<1>7. frames'[i].returned /\ frames[i].next <= Len(inputs_[EdgeOf(i)])
    BY <1>3, <1>4, <1>5, <1>6
<1>8. FrameInv(i)'
    BY <1>1, <1>3, <1>7, FrameStays
<1>9. EdgeOf(i)' = EdgeOf(i)
    BY <1>3 DEF EdgeOf
<1>10. (inputs_[EdgeOf(i)][frames[i].next])' = inputs_[EdgeOf(i)][frames[i].next]
    BY <1>3, <1>9
<1>11. i < Len(frames) => inputs_[EdgeOf(i)][frames[i].next] = frames[i + 1].node
    BY <1>1, <1>5 DEF LinkInv
<1> QED
    BY <1>6, <1>7, <1>8, <1>9, <1>10, <1>11

\* VisitLeaf and VisitDone: the visit is over at once.
LEMMA VisitReturns ==
    ASSUME ScanInv, NEW n \in Node, About(n), Grows, Settled(n)', DirtyInv', dirty' \subseteq Node,
           queue' = QueueAfter, frames' = FramesAfter,
           UNCHANGED <<inputs_, mark_, outputs_ready_, pc, err>>
    PROVE  ScanInv'
<1>1. pc = "scan" /\ err # "cycle" /\ QueueAfter \in Seq(Node)
    BY AboutTop
<1>0. Len(frames) \in Nat
    BY FrameTypes DEF ScanInv
<1>2. PICK N \in Nat : N = Len(frames)
    BY <1>0
<1>3. /\ frames' \in Seq(Frame) /\ Len(frames') = N
      /\ DOMAIN frames = 1..N /\ DOMAIN frames' = 1..N
      /\ \A i \in 1..N : frames'[i].node = frames[i].node
    BY <1>2, VisitTypes, FrameTypes DEF ScanInv
<1>4. TypeInv'
    BY <1>1, <1>3 DEF ScanInv, TypeInv, Grows
<1>5. EdgesInv'
    BY EdgeStays DEF ScanInv, EdgesInv, EdgeInv
<1>6. \A i \in 1..N : /\ FrameInv(i)' /\ frames'[i].returned
                      /\ EdgeOf(i)' = EdgeOf(i)
                      /\ (inputs_[EdgeOf(i)][frames[i].next])' = inputs_[EdgeOf(i)][frames[i].next]
                      /\ i < N => inputs_[EdgeOf(i)][frames[i].next] = frames[i + 1].node
                      /\ i = N => inputs_[EdgeOf(i)][frames[i].next] = n
    BY <1>2, <1>3, FramesStay
<1>7. ASSUME NEW i \in 1..N PROVE LinkInv(i)'
    <2>1. i < N => (inputs_[EdgeOf(i)][frames[i].next])' = frames'[i + 1].node
        <3>1. i < N => i + 1 \in 1..N
            OBVIOUS
        <3> QED
            BY <1>3, <1>6, <3>1
    <2>2. i = N => (inputs_[EdgeOf(i)][frames[i].next])' = n
        BY <1>6
    <2>3. i = N => Settled(inputs_[EdgeOf(i)][frames[i].next])'
        BY <2>2 DEF Settled
    <2> QED
        BY <1>3, <2>1, <2>3 DEF LinkInv
<1>8. StackInv'
    <2>1. \A i, j \in 1..N : EdgeOf(i) = EdgeOf(j) => i = j
        BY <1>3 DEF ScanInv, StackInv
    <2> QED
        BY <1>1, <1>3, <1>6, <1>7, <2>1 DEF StackInv
<1>9. MarksInv'
    <2>1. \A e \in Edge : mark_[e] = "stack" /\ e \in Active => e \in Active'
        BY <1>3 DEF Active
    <2> QED
        BY <1>1, <2>1 DEF ScanInv, MarksInv
<1>10. AcyclicInv'
    BY AcyclicStays DEF ScanInv, Done
<1> QED
    BY <1>4, <1>5, <1>8, <1>9, <1>10 DEF ScanInv

LEMMA ScanVisits ==
    ASSUME ScanInv, NEW n \in Node, VisitLeaf(n) \/ VisitDone(n)
    PROVE  ScanInv' /\ Grows
<1>1. CASE VisitLeaf(n)
    <2>1. Grows
        BY <1>1 DEF VisitLeaf, Grows
    <2>2. Settled(n)'
        BY <1>1 DEF VisitLeaf, Settled
    <2>3. DirtyInv'
        <3>1. \A e \in Edge : n \notin ToSet(Outs[e])
            BY <1>1, OutputHasInEdge DEF VisitLeaf
        <3> QED
            BY <1>1, <3>1 DEF VisitLeaf, ScanInv, DirtyInv
    <2>4. dirty' \subseteq Node
        BY <1>1 DEF VisitLeaf, ScanInv, TypeInv
    <2> QED
        BY <1>1, <2>1, <2>2, <2>3, <2>4, VisitReturns DEF VisitLeaf
<1>2. CASE VisitDone(n)
    <2>1. Grows
        BY <1>2 DEF VisitDone, Grows
    <2>2. Settled(n)'
        BY <1>2 DEF VisitDone, Settled, IsDone
    <2>3. DirtyInv' /\ dirty' \subseteq Node
        BY <1>2 DEF VisitDone, ScanInv, DirtyInv, TypeInv
    <2> QED
        BY <1>2, <2>1, <2>2, <2>3, VisitReturns DEF VisitDone
<1> QED
    BY <1>1, <1>2

\* What loading the deps makes of an edge's inputs: nodes, or a nil where a depfile's were
\* not put.
LEMMA LoadDepsTypes ==
    ASSUME TypeInv, NEW e \in Edge, ~DepfilePanics(e)
    PROVE  LoadDeps(e) \in Seq(Node \cup {Nil})
<1>1. /\ inputs_[e] \in Seq(Node \cup {Nil})
      /\ Len(inputs_[e]) \in Nat /\ DOMAIN inputs_[e] = 1..Len(inputs_[e])
      /\ graph.order_only[e] \in Nat
    BY InputTypes
<1>2. graph.found[e] \in Seq(Node)
    <2>1. WellFormed(graph)
        BY GraphsAssumption DEF TypeInv
    <2> QED
        BY <2>1 DEF WellFormed
<1>3. Len(graph.found[e]) \in Nat /\ graph.found[e] \in Seq(Node \cup {Nil})
    BY <1>2
<1>4. CASE graph.load[e] = "log"
    <2>1. LoadDeps(e) = inputs_[e] \o graph.found[e]
        BY <1>4 DEF LoadDeps, LoadDepsFromLog
    <2> QED
        BY <1>1, <1>3, <2>1
<1>5. CASE graph.load[e] = "depfile"
    <2> DEFINE L == DepfileLength(e)
               S == DepfileStart(e)
               C == graph.found[e]
               x(i) == IF i > S /\ i <= DepfileEnd(e) THEN C[i - S]
                       ELSE IF i <= Len(inputs_[e]) THEN inputs_[e][i] ELSE Nil
    <2>1. Len(C) >= graph.order_only[e]
        BY <1>1, <1>3, <1>5 DEF DepfilePanics
    <2>2. /\ L \in Nat /\ L >= Len(inputs_[e]) /\ S \in Int
          /\ DepfileEnd(e) = S + Len(C)
        <3>1. PICK a, b, c : a = Len(inputs_[e]) /\ b = Len(graph.found[e])
                             /\ c = graph.order_only[e]
            OBVIOUS
        <3>2. a \in Nat /\ b \in Nat /\ c \in Nat /\ b >= c
            BY <1>1, <1>3, <2>1, <3>1
        <3>3. L = a + b - c /\ S = a - 2 * c /\ DepfileEnd(e) = S + b
            BY <3>1 DEF DepfileLength, DepfileStart, DepfileEnd
        <3>4. a + b - c \in Nat /\ a + b - c >= a /\ a - 2 * c \in Int
            BY <3>2
        <3> QED
            BY <3>1, <3>3, <3>4
    <2>3. ASSUME NEW i \in 1..L PROVE x(i) \in Node \cup {Nil}
        <3>1. CASE i > S /\ i <= DepfileEnd(e)
            <4>1. i - S \in 1..Len(C)
                BY <1>3, <2>2, <3>1
            <4>2. C[i - S] \in Node
                BY <1>2, <4>1
            <4> QED
                BY <3>1, <4>2
        <3>2. CASE ~(i > S /\ i <= DepfileEnd(e))
            <4>1. i <= Len(inputs_[e]) => inputs_[e][i] \in Node \cup {Nil}
                BY <1>1, <2>2
            <4> QED
                BY <3>2, <4>1
        <3> QED
            BY <3>1, <3>2
    <2>4. LoadDeps(e) = [i \in 1..L |-> x(i)]
        BY <1>5 DEF LoadDeps, ProcessDepfileDeps
    <2> HIDE DEF x, L
    <2>5. [i \in 1..L |-> x(i)] \in Seq(Node \cup {Nil}) /\ Len([i \in 1..L |-> x(i)]) = L
        BY <2>2, <2>3
    <2> QED
        BY <1>1, <2>2, <2>4, <2>5
<1>6. CASE graph.load[e] \notin {"log", "depfile"}
    <2>1. LoadDeps(e) = inputs_[e]
        BY <1>6 DEF LoadDeps
    <2> QED
        BY <1>1, <2>1
<1> QED
    BY <1>4, <1>5, <1>6

LEMMA ScanEnters ==
    ASSUME ScanInv, NEW n \in Node, EnterEdge(n)
    PROVE  ScanInv' /\ Grows
<1>1. PICK e : e = InEdge[n]
    OBVIOUS
<1>2. n \in Node \ Leaf /\ About(n) /\ mark_[e] = "none" /\ ~DepfilePanics(e)
    BY <1>1 DEF EnterEdge, Unmarked
<1>3. e \in Edge
    BY <1>1, <1>2, InEdgeProduces
<1>4. PICK x : x = LoadDeps(e)
    OBVIOUS
<1>5. x \in Seq(Node \cup {Nil})
    BY <1>2, <1>3, <1>4, LoadDepsTypes DEF ScanInv
<1>6. /\ inputs_ \in [Edge -> Seq(Node \cup {Nil})] /\ mark_ \in [Edge -> {"none", "stack", "done"}]
      /\ outputs_ready_ \in [Edge -> BOOLEAN]
    BY DEF ScanInv, TypeInv
<1>7. /\ mark_'[e] = "stack" /\ outputs_ready_'[e] = TRUE /\ inputs_'[e] = x
      /\ \A d \in Edge \ {e} : /\ mark_'[d] = mark_[d] /\ outputs_ready_'[d] = outputs_ready_[d]
                               /\ inputs_'[d] = inputs_[d]
      /\ graph' = graph /\ dirty' = dirty /\ pc' = pc /\ err' = err
    BY <1>1, <1>3, <1>4, <1>6 DEF EnterEdge, MarkOnEntry
<1>8. Grows
    BY <1>2, <1>7 DEF Grows
<1>9. pc = "scan" /\ err # "cycle" /\ QueueAfter \in Seq(Node)
    BY <1>2, AboutTop
<1>10. PICK new : new = [node |-> n, next |-> 1, returned |-> FALSE,
                         dirty |-> graph.load[e] = "stale"]
    OBVIOUS
<1>11. new \in Frame
    BY <1>10 DEF Frame
<1>12. Len(frames) \in Nat
    BY FrameTypes DEF ScanInv
<1>13. PICK N \in Nat : N = Len(frames)
    BY <1>12
<1>14. FramesAfter \in Seq(Frame) /\ Len(FramesAfter) = N /\ DOMAIN frames = 1..N
    BY <1>13, VisitTypes, FrameTypes DEF ScanInv
<1>15. frames' = Append(FramesAfter, new)
    BY <1>1, <1>10 DEF EnterEdge
<1>16. /\ frames' \in Seq(Frame) /\ Len(frames') = N + 1 /\ DOMAIN frames' = 1..(N + 1)
       /\ \A i \in 1..N : frames'[i] = FramesAfter[i]
       /\ frames'[N + 1] = new
    BY <1>11, <1>14, <1>15
<1>17. \A i \in 1..N : frames'[i].node = frames[i].node /\ frames'[i].next = frames[i].next
    BY <1>14, <1>16, VisitTypes DEF ScanInv
<1>18. TypeInv'
    <2>1. graph.validations[e] \in Seq(Node)
        <3>1. WellFormed(graph)
            BY GraphsAssumption DEF ScanInv, TypeInv
        <3> QED
            BY <1>3, <3>1 DEF WellFormed
    <2>2. queue' \in Seq(Node)
        BY <1>1, <1>9, <2>1 DEF EnterEdge
    <2>3. inputs_' \in [Edge -> Seq(Node \cup {Nil})]
        BY <1>1, <1>3, <1>4, <1>5, <1>6 DEF EnterEdge
    <2>4. mark_' \in [Edge -> {"none", "stack", "done"}] /\ outputs_ready_' \in [Edge -> BOOLEAN]
        BY <1>6 DEF EnterEdge, MarkOnEntry
    <2> QED
        BY <1>7, <1>16, <2>2, <2>3, <2>4 DEF ScanInv, TypeInv
<1>19. DirtyInv'
    BY <1>2, <1>3, <1>7, InEdgeProduces DEF ScanInv, DirtyInv, TypeInv
<1>20. EdgesInv'
    BY <1>7, <1>8, EdgeStays DEF ScanInv, EdgesInv, EdgeInv
<1>21. \A i \in 1..N : EdgeOf(i) \in Edge /\ mark_[EdgeOf(i)] = "stack" /\ EdgeOf(i) # e
    BY <1>2, <1>14, OnePerFrame
<1>22. \A i \in 1..N : /\ FrameInv(i)' /\ frames'[i].returned
                       /\ EdgeOf(i)' = EdgeOf(i)
                       /\ (inputs_[EdgeOf(i)][frames[i].next])' = inputs_[EdgeOf(i)][frames[i].next]
                       /\ i < N => inputs_[EdgeOf(i)][frames[i].next] = frames[i + 1].node
                       /\ i = N => inputs_[EdgeOf(i)][frames[i].next] = n
    BY <1>2, <1>7, <1>8, <1>13, <1>14, <1>16, <1>21, FramesStay
<1>23. ASSUME NEW i \in 1..N PROVE LinkInv(i)'
    <2>1. i < N => frames'[i + 1].node = frames[i + 1].node
        <3>1. i < N => i + 1 \in 1..N
            OBVIOUS
        <3> QED
            BY <1>17, <3>1
    <2>2. i = N => frames'[i + 1].node = n
        BY <1>10, <1>16
    <2>3. (inputs_[EdgeOf(i)][frames[i].next])' = frames'[i + 1].node
        BY <1>22, <2>1, <2>2
    <2>4. i # Len(frames')
        BY <1>16
    <2> QED
        BY <2>3, <2>4 DEF LinkInv
<1>24. FrameInv(N + 1)' /\ LinkInv(N + 1)' /\ EdgeOf(N + 1)' = e
    <2>1. frames'[N + 1].node = n /\ frames'[N + 1].next = 1 /\ ~frames'[N + 1].returned
          /\ frames'[N + 1].dirty = (graph.load[e] = "stale")
        BY <1>10, <1>16
    <2>2. EdgeOf(N + 1)' = e
        BY <1>1, <2>1 DEF EdgeOf
    <2>3. SettledTo(e, 0)' /\ ReadyTo(e, 0)' = TRUE /\ DirtiedTo(e, 0)' = (graph.load[e] = "stale")
        BY <1>7 DEF SettledTo, ReadyTo, DirtiedTo
    <2>4. Len(inputs_'[e]) \in Nat
        BY <1>5, <1>7
    <2>5. frames'[N + 1].next - 1 = 0 /\ frames'[N + 1].next <= Len(inputs_'[e]) + 1
        BY <2>1, <2>4
    <2>6. FrameInv(N + 1)'
        BY <1>2, <1>7, <2>1, <2>2, <2>3, <2>5 DEF FrameInv
    <2>7. LinkInv(N + 1)'
        BY <2>1 DEF LinkInv
    <2> QED
        BY <2>2, <2>6, <2>7
<1>25. StackInv'
    <2>1. \A i, j \in 1..N : EdgeOf(i) = EdgeOf(j) => i = j
        BY <1>14 DEF ScanInv, StackInv
    <2>2. \A i, j \in 1..(N + 1) : EdgeOf(i)' = EdgeOf(j)' => i = j
        <3>1. \A i \in 1..(N + 1) : i \in 1..N \/ i = N + 1
            OBVIOUS
        <3> QED
            BY <1>21, <1>22, <1>24, <2>1, <3>1
    <2>3. \A i \in 1..(N + 1) : FrameInv(i)' /\ LinkInv(i)' /\ (i < N + 1 => frames'[i].returned)
        <3>1. \A i \in 1..(N + 1) : i \in 1..N \/ i = N + 1
            OBVIOUS
        <3> QED
            BY <1>22, <1>23, <1>24, <3>1
    <2>4. pc' = "scan"
        BY <1>7, <1>9
    <2> QED
        BY <1>16, <2>2, <2>3, <2>4 DEF StackInv
<1>26. MarksInv'
    <2>1. \A d \in Active : d \in Active'
        BY <1>14, <1>16, <1>17 DEF Active
    <2>2. e \in Active'
        <3>1. N + 1 \in DOMAIN frames' /\ e = InEdge[frames'[N + 1].node]
            BY <1>1, <1>10, <1>16
        <3> QED
            BY <3>1 DEF Active
    <2> QED
        BY <1>7, <1>9, <2>1, <2>2 DEF ScanInv, MarksInv
<1>27. AcyclicInv'
    <2>1. Done' = Done /\ \A d \in Done : inputs_'[d] = inputs_[d]
        BY <1>2, <1>3, <1>7 DEF Done
    <2> QED
        BY <2>1, AcyclicStays DEF ScanInv
<1> QED
    BY <1>8, <1>18, <1>19, <1>20, <1>25, <1>26, <1>27 DEF ScanInv

LEMMA ScanGivesUp ==
    ASSUME ScanInv, NEW n \in Node, EnterFails(n)
    PROVE  ScanInv' /\ Grows
<1>1. PICK e : e = InEdge[n]
    OBVIOUS
<1>2. n \in Node \ Leaf /\ mark_[e] = "none"
    BY <1>1 DEF EnterFails, Unmarked
<1>3. e \in Edge
    BY <1>1, <1>2, InEdgeProduces
<1>4. mark_ \in [Edge -> {"none", "stack", "done"}] /\ outputs_ready_ \in [Edge -> BOOLEAN]
    BY DEF ScanInv, TypeInv
<1>5. /\ mark_'[e] = "stack"
      /\ \A d \in Edge \ {e} : mark_'[d] = mark_[d] /\ outputs_ready_'[d] = outputs_ready_[d]
      /\ UNCHANGED <<graph, inputs_, dirty>> /\ frames' = <<>> /\ queue' = <<>>
      /\ err' \in {"silent", "depfile"}
    BY <1>1, <1>3, <1>4 DEF EnterFails, Fail
<1>6. Grows
    BY <1>2, <1>5 DEF Grows
<1>7. TypeInv'
    <2>1. mark_' \in [Edge -> {"none", "stack", "done"}] /\ outputs_ready_' \in [Edge -> BOOLEAN]
        BY <1>4 DEF EnterFails
    <2> QED
        BY <1>5, <2>1 DEF ScanInv, TypeInv
<1>8. DirtyInv'
    BY <1>2, <1>3, <1>5, InEdgeProduces DEF ScanInv, DirtyInv, TypeInv
<1>9. EdgesInv'
    BY <1>5, <1>6, EdgeStays DEF ScanInv, EdgesInv, EdgeInv
<1>10. StackInv' /\ MarksInv'
    BY <1>5 DEF StackInv, MarksInv
<1>11. AcyclicInv'
    <2>1. Done' = Done /\ \A d \in Done : inputs_'[d] = inputs_[d]
        BY <1>2, <1>3, <1>5 DEF Done
    <2> QED
        BY <2>1, AcyclicStays DEF ScanInv
<1> QED
    BY <1>6, <1>7, <1>8, <1>9, <1>10, <1>11 DEF ScanInv

LEMMA ScanInputVisited ==
    ASSUME ScanInv, InputVisited
    PROVE  ScanInv' /\ Grows
<1>1. TypeInv
    BY DEF ScanInv
<1>2. Len(frames) \in Nat
    BY <1>1, FrameTypes
<1>3. PICK N \in Nat : N = Len(frames)
    BY <1>2
<1>4. /\ pc = "scan" /\ frames # <<>> /\ N \in DOMAIN frames /\ DOMAIN frames = 1..N
      /\ Top = frames[N] /\ frames[N].returned /\ frames[N] \in Frame
      /\ frames[N].next \in Nat /\ frames[N].next >= 1
    BY <1>1, <1>3, FrameTypes DEF InputVisited
<1>5. PICK e : e = EdgeOf(N)
    OBVIOUS
<1>6. PICK m : m = frames[N].next
    OBVIOUS
<1>7. PICK n : n = inputs_[e][m]
    OBVIOUS
<1>8. e \in Edge /\ FrameInv(N) /\ LinkInv(N) /\ mark_[e] = "stack"
    BY <1>4, <1>5, OnePerFrame
<1>9. /\ m \in Nat /\ m >= 1 /\ m <= Len(inputs_[e])
      /\ SettledTo(e, m - 1) /\ outputs_ready_[e] = ReadyTo(e, m - 1)
      /\ frames[N].dirty = DirtiedTo(e, m - 1) /\ Settled(n)
    BY <1>3, <1>4, <1>5, <1>6, <1>7, <1>8 DEF FrameInv, LinkInv
<1>10. TopEdge = e /\ NextInput = n
    BY <1>4, <1>5, <1>6, <1>7 DEF NextInput, TopEdge, EdgeOf
<1>11. PICK ready : ready = (outputs_ready_[e] /\ ReadyOf(n))
    OBVIOUS
<1>12. PICK soiled : soiled = (frames[N].dirty \/ (~IsOrderOnly(e, m) /\ n \in dirty))
    OBVIOUS
<1>13. ready \in BOOLEAN /\ soiled \in BOOLEAN /\ outputs_ready_ \in [Edge -> BOOLEAN]
    BY <1>11, <1>12, <1>1 DEF TypeInv
<1>14. /\ outputs_ready_' = [outputs_ready_ EXCEPT ![e] = ready]
       /\ frames' = [frames EXCEPT ![N] = [frames[N] EXCEPT !.next = m + 1, !.returned = FALSE,
                                                            !.dirty = soiled]]
       /\ UNCHANGED <<graph, inputs_, mark_, dirty, queue, pc, err>>
    <2>1. outputs_ready_' = [outputs_ready_ EXCEPT ![e] = ready]
        BY <1>10, <1>11 DEF InputVisited, ReadyOf
    <2>2. frames' = [frames EXCEPT ![N] = [frames[N] EXCEPT !.next = m + 1, !.returned = FALSE,
                                                            !.dirty = soiled]]
        BY <1>3, <1>4, <1>6, <1>10, <1>12 DEF InputVisited
    <2>3. UNCHANGED <<graph, inputs_, mark_, dirty, queue, pc, err>>
        BY DEF InputVisited
    <2> QED
        BY <2>1, <2>2, <2>3
<1>15. /\ outputs_ready_'[e] = ready
       /\ \A d \in Edge \ {e} : outputs_ready_'[d] = outputs_ready_[d]
       /\ outputs_ready_' \in [Edge -> BOOLEAN]
    BY <1>8, <1>13, <1>14
<1>16. Grows
    BY <1>8, <1>14, <1>15 DEF Grows
<1>17. PICK new : new = [frames[N] EXCEPT !.next = m + 1, !.returned = FALSE, !.dirty = soiled]
    OBVIOUS
<1>18. /\ new \in Frame /\ new.node = frames[N].node /\ new.next = m + 1 /\ ~new.returned
       /\ new.dirty = soiled
    <2>1. m + 1 \in Nat \ {0}
        BY <1>9
    <2> QED
        BY <1>4, <1>13, <1>17, <2>1 DEF Frame
<1>19. frames' = [frames EXCEPT ![N] = new]
    BY <1>14, <1>17
<1>20. /\ frames' \in Seq(Frame) /\ Len(frames') = N /\ DOMAIN frames' = 1..N
       /\ \A i \in 1..N : i # N => frames'[i] = frames[i]
       /\ frames'[N] = new
    BY <1>1, <1>3, <1>4, <1>18, <1>19 DEF TypeInv
<1>21. \A i \in 1..N : frames'[i].node = frames[i].node /\ EdgeOf(i)' = EdgeOf(i)
    BY <1>18, <1>20 DEF EdgeOf
<1>22. TypeInv'
    BY <1>14, <1>15, <1>20, <1>1 DEF TypeInv
<1>23. DirtyInv'
    BY <1>14 DEF ScanInv, DirtyInv
<1>24. EdgesInv'
    BY <1>14, <1>16, EdgeStays DEF ScanInv, EdgesInv, EdgeInv
<1>25. \A i, j \in 1..N : EdgeOf(i) = EdgeOf(j) => i = j
    BY <1>4 DEF ScanInv, StackInv
<1>26. ASSUME NEW i \in 1..N, i # N PROVE FrameInv(i)' /\ LinkInv(i)' /\ frames'[i].returned
    <2>1. FrameInv(i) /\ LinkInv(i) /\ EdgeOf(i) \in Edge /\ frames'[i] = frames[i]
        BY <1>4, <1>20, <1>26, OnePerFrame
    <2>2. frames[i].returned /\ i < N
        BY <1>3, <1>4, <1>26 DEF ScanInv, StackInv
    <2>3. EdgeOf(i) # e
        BY <1>5, <1>25, <1>26
    <2>4. frames[i].returned => frames[i].next <= Len(inputs_[EdgeOf(i)])
        BY <2>1 DEF FrameInv
    <2>5. FrameInv(i)'
        BY <1>14, <1>15, <1>16, <2>1, <2>3, <2>4, FrameStays
    <2>6. i + 1 \in 1..N
        BY <2>2
    <2>7. inputs_[EdgeOf(i)][frames[i].next] = frames[i + 1].node
        BY <1>3, <2>1, <2>2 DEF LinkInv
    <2>8. (inputs_[EdgeOf(i)][frames[i].next])' = (frames[i + 1].node)'
        BY <1>14, <1>21, <2>1, <2>6, <2>7
    <2>9. LinkInv(i)'
        BY <1>3, <1>20, <1>26, <2>8 DEF LinkInv
    <2> QED
        BY <2>1, <2>2, <2>5, <2>9
<1>27. FrameInv(N)' /\ LinkInv(N)'
    <2>1. /\ SettledTo(e, m - 1)'
          /\ ReadyTo(e, m - 1)' = ReadyTo(e, m - 1)
          /\ DirtiedTo(e, m - 1)' = DirtiedTo(e, m - 1)
        BY <1>8, <1>9, <1>14, <1>16, SumsStay
    <2>2. Settled(n)' /\ (n \in dirty)' = (n \in dirty) /\ ReadyOf(n)' = ReadyOf(n)
        BY <1>9, <1>16, SettledStays
    <2>3. \A k \in 1..m : k \in 1..(m - 1) \/ k = m
        BY <1>9
    <2>4. m \in 1..m /\ 1..(m - 1) \subseteq 1..m /\ inputs_'[e][m] = n
        BY <1>7, <1>9, <1>14
    <2>5. SettledTo(e, m)'
        BY <2>1, <2>2, <2>3, <2>4 DEF SettledTo, Settled
    <2>6. ReadyTo(e, m)' = (ReadyTo(e, m - 1)' /\ ReadyOf(n)')
        BY <2>3, <2>4 DEF ReadyTo, ReadyOf
    <2>7. DirtiedTo(e, m)' = (DirtiedTo(e, m - 1)' \/ (~IsOrderOnly(e, m)' /\ n \in dirty'))
        BY <2>3, <2>4 DEF DirtiedTo
    <2>8. IsOrderOnly(e, m)' = IsOrderOnly(e, m)
        BY <1>14 DEF IsOrderOnly
    <2>9. ready = ReadyTo(e, m)'
        BY <1>9, <1>11, <2>1, <2>2, <2>6
    <2>10. soiled = DirtiedTo(e, m)'
        BY <1>9, <1>12, <2>1, <2>2, <2>7, <2>8
    <2>11. EdgeOf(N)' = e /\ frames'[N] = new /\ (m + 1) - 1 = m /\ m + 1 <= Len(inputs_[e]) + 1
        <3>1. Len(inputs_[e]) \in Nat
            BY <1>1, <1>8, InputTypes
        <3> QED
            BY <1>4, <1>5, <1>9, <1>20, <1>21, <3>1
    <2>12. frames[N].node \in Node \ Leaf
        BY <1>8 DEF FrameInv
    <2>13. FrameInv(N)'
        BY <1>8, <1>14, <1>15, <1>18, <2>5, <2>9, <2>10, <2>11, <2>12 DEF FrameInv
    <2>14. LinkInv(N)'
        BY <1>18, <2>11 DEF LinkInv
    <2> QED
        BY <2>13, <2>14
<1>28. StackInv'
    <2>1. \A i \in 1..N : FrameInv(i)' /\ LinkInv(i)'
        BY <1>26, <1>27
    <2>2. \A i \in 1..N : i < N => frames'[i].returned
        BY <1>3, <1>26
    <2>3. \A i, j \in 1..N : EdgeOf(i)' = EdgeOf(j)' => i = j
        BY <1>21, <1>25
    <2>4. pc' \notin {"target", "plan"}
        BY <1>4, <1>14
    <2> QED
        BY <1>20, <2>1, <2>2, <2>3, <2>4 DEF StackInv
<1>29. MarksInv'
    <2>1. Active' = Active
        BY <1>4, <1>20, <1>21 DEF Active
    <2> QED
        BY <1>4, <1>14, <2>1 DEF ScanInv, MarksInv
<1>30. AcyclicInv'
    BY <1>14, AcyclicStays DEF ScanInv, Done
<1> QED
    BY <1>16, <1>22, <1>23, <1>24, <1>28, <1>29, <1>30 DEF ScanInv

\* What an edge with settled inputs depends on has been visited.
LEMMA SettledDone ==
    ASSUME TypeInv, NEW e \in Edge, SettledTo(e, Len(inputs_[e]))
    PROVE  DependsOn(e) \subseteq Done
<1> SUFFICES ASSUME NEW d \in DependsOn(e) PROVE d \in Done
    OBVIOUS
<1>1. d \in Edge /\ ToSet(Outs[d]) \cap ToSet(inputs_[e]) # {}
    BY DEF DependsOn
<1>2. PICK n \in ToSet(Outs[d]) : n \in ToSet(inputs_[e])
    BY <1>1
<1>3. PICK k \in DOMAIN inputs_[e] : n = inputs_[e][k]
    BY <1>2 DEF ToSet
<1>4. Settled(n)
    BY <1>3, InputTypes DEF SettledTo
<1>5. n \notin Leaf /\ InEdge[n] = d
    BY <1>1, OutputHasInEdge
<1> QED
    BY <1>1, <1>4, <1>5 DEF Settled, Done

\* An edge that depends only on what has no cycle closes none.
LEMMA AcyclicGrows ==
    ASSUME TypeInv, EdgesInv, AcyclicInv, NEW e \in Edge, mark_[e] # "done",
           DependsOn(e) \subseteq Done, Done' = Done \cup {e}, inputs_' = inputs_
    PROVE  AcyclicInv'
<1>1. \A d \in Done : DependsOn(d) \subseteq Done
    BY SettledDone DEF EdgesInv, EdgeInv, Done
<1>2. SUFFICES ASSUME NEW C \in SUBSET (Done \cup {e}), C # {},
                      \A d \in C : DependsOn(d) \cap C # {}
               PROVE  FALSE
    <2>1. \A d \in Edge : DependsOn(d)' = DependsOn(d)
        BY DEF DependsOn
    <2>2. ASSUME NEW C \in SUBSET (Done \cup {e}), C # {},
                 \A d \in C : (DependsOn(d) \cap C # {})'
          PROVE  FALSE
        <3>1. \A d \in C : DependsOn(d) \cap C # {}
            BY <2>1, <2>2 DEF Done
        <3> QED
            BY <1>2, <2>2, <3>1
    <2> QED
        BY <2>2 DEF AcyclicInv, Cyclic
<1>3. e \notin Done
    BY DEF Done
<1>4. \A d \in C : DependsOn(d) \cap (C \ {e}) # {}
    BY <1>1, <1>2, <1>3
<1>5. C \ {e} # {} /\ C \ {e} \in SUBSET Done
    BY <1>2, <1>4
<1> QED
    BY <1>4, <1>5 DEF AcyclicInv, Cyclic

LEMMA ScanLeaves ==
    ASSUME ScanInv, LeaveEdge
    PROVE  ScanInv' /\ Grows
<1>1. TypeInv /\ frames \in Seq(Frame)
    BY DEF ScanInv, TypeInv
<1>2. Len(frames) \in Nat
    BY <1>1, FrameTypes
<1>3. PICK N \in Nat : N = Len(frames)
    BY <1>2
<1>4. /\ pc = "scan" /\ frames # <<>> /\ N \in DOMAIN frames /\ DOMAIN frames = 1..N
      /\ Top = frames[N] /\ ~frames[N].returned /\ frames[N].next \in Nat
    BY <1>1, <1>3, FrameTypes DEF LeaveEdge
<1>5. PICK e : e = EdgeOf(N)
    OBVIOUS
<1>6. TopEdge = e
    BY <1>4, <1>5 DEF TopEdge, EdgeOf
<1>7. /\ e \in Edge /\ FrameInv(N) /\ mark_[e] = "stack"
      /\ frames[N].node \in ToSet(Outs[e])
    BY <1>4, <1>5, OnePerFrame
<1>8. Len(inputs_[e]) \in Nat
    BY <1>1, <1>7, InputTypes
<1>9. PICK m \in Nat : m = Len(inputs_[e])
    BY <1>8
<1>10. frames[N].next > m /\ frames[N].next <= m + 1
    BY <1>4, <1>5, <1>6, <1>7, <1>9 DEF LeaveEdge, FrameInv
<1>11. frames[N].next - 1 = m
    BY <1>4, <1>10
<1>12. SettledTo(e, m) /\ outputs_ready_[e] = ReadyTo(e, m) /\ frames[N].dirty = DirtiedTo(e, m)
    BY <1>5, <1>7, <1>11 DEF FrameInv
<1>13. PICK isDirty : isDirty = IsDirty(e)
    OBVIOUS
<1>14. isDirty = (Top.dirty \/ RecomputeOutputDirty(e))
    BY <1>4, <1>9, <1>12, <1>13 DEF IsDirty
<1>15. PICK ready : ready = (outputs_ready_[e] /\ (isDirty => NothingToDo(e)))
    OBVIOUS
<1>16. /\ dirty' = IF isDirty THEN dirty \cup ToSet(Outs[e]) ELSE dirty
       /\ outputs_ready_' = [outputs_ready_ EXCEPT ![e] = ready]
       /\ mark_' = [mark_ EXCEPT ![e] = "done"]
       /\ frames' = Front(frames)
       /\ UNCHANGED <<graph, inputs_, queue, pc, err>>
    BY <1>6, <1>14, <1>15 DEF LeaveEdge, Marked
<1>17. /\ outputs_ready_ \in [Edge -> BOOLEAN] /\ mark_ \in [Edge -> {"none", "stack", "done"}]
       /\ ready \in BOOLEAN
    BY <1>1, <1>15 DEF TypeInv
<1>18. /\ outputs_ready_'[e] = ready /\ mark_'[e] = "done"
       /\ \A d \in Edge \ {e} : outputs_ready_'[d] = outputs_ready_[d] /\ mark_'[d] = mark_[d]
       /\ outputs_ready_' \in [Edge -> BOOLEAN] /\ mark_' \in [Edge -> {"none", "stack", "done"}]
    BY <1>7, <1>16, <1>17
<1>19. \A n \in ToSet(Outs[e]) : n \in Node /\ n \notin Leaf /\ InEdge[n] = e /\ n \notin dirty
    <2> TAKE n \in ToSet(Outs[e])
    <2>1. n \in Node /\ n \notin Leaf /\ InEdge[n] = e
        BY <1>7, OutputHasInEdge
    <2>2. n \notin dirty
        BY <1>7, <2>1 DEF ScanInv, DirtyInv
    <2> QED
        BY <2>1, <2>2
<1>20. Grows
    <2>1. \A n \in dirty' \ dirty : n \notin Leaf /\ mark_[InEdge[n]] # "done"
        BY <1>7, <1>16, <1>19
    <2>2. dirty \subseteq dirty'
        BY <1>16
    <2>3. \A d \in Edge : mark_[d] = "done" =>
            mark_'[d] = "done" /\ inputs_'[d] = inputs_[d] /\ outputs_ready_'[d] = outputs_ready_[d]
        BY <1>7, <1>16, <1>18
    <2> QED
        BY <1>16, <2>1, <2>2, <2>3 DEF Grows
<1>21. N >= 1
    BY <1>4
<1>22. /\ frames' \in Seq(Frame) /\ Len(frames') = N - 1 /\ DOMAIN frames' = 1..(N - 1)
       /\ \A i \in 1..(N - 1) : frames'[i] = frames[i]
    <2>1. frames' = SubSeq(frames, 1, N - 1)
        BY <1>3, <1>16 DEF Front
    <2>2. N - 1 \in Nat /\ N - 1 <= Len(frames)
        BY <1>3, <1>21
    <2>3. \A i \in 1..(N - 1) : i \in 1..Len(frames)
        BY <1>3
    <2> QED
        BY <1>1, <2>1, <2>2, <2>3
<1>23. TypeInv'
    <2>1. dirty' \subseteq Node
        BY <1>1, <1>16, <1>19 DEF TypeInv
    <2> QED
        BY <1>1, <1>16, <1>18, <1>22, <2>1 DEF TypeInv
<1>24. \A d \in Edge : \A n \in ToSet(Outs[d]) : n \in ToSet(Outs[e]) => d = e
    BY <1>7, DependencyScanAssumption
<1>25. DirtyInv'
    <2>1. \A n \in dirty' : n \in dirty \/ n \in ToSet(Outs[e])
        BY <1>16
    <2>2. \A n \in dirty : IF n \in Leaf THEN n \notin graph.present ELSE mark_'[InEdge[n]] = "done"
        <3> TAKE n \in dirty
        <3>1. n \in Node
            BY <1>1 DEF TypeInv
        <3>2. CASE n \in Leaf
            BY <3>2 DEF ScanInv, DirtyInv
        <3>3. CASE n \notin Leaf
            <4>1. InEdge[n] \in Edge /\ mark_[InEdge[n]] = "done"
                BY <3>1, <3>3, InEdgeProduces DEF ScanInv, DirtyInv
            <4> QED
                BY <1>18, <3>3, <4>1
        <3> QED
            BY <3>2, <3>3
    <2>3. \A d \in Edge : \A m1, n1 \in ToSet(Outs[d]) : m1 \in dirty' => n1 \in dirty'
        <3> TAKE d \in Edge
        <3> TAKE m1, n1 \in ToSet(Outs[d])
        <3>1. m1 \in dirty => n1 \in dirty
            BY DEF ScanInv, DirtyInv
        <3> QED
            BY <1>16, <1>24, <3>1
    <2> QED
        BY <1>16, <1>18, <1>19, <2>1, <2>2, <2>3 DEF DirtyInv
<1>26. EdgeInv(e)'
    <2>1. SettledTo(e, m)' /\ ReadyTo(e, m)' = ReadyTo(e, m) /\ DirtiedTo(e, m)' = DirtiedTo(e, m)
        BY <1>7, <1>12, <1>16, <1>20, SumsStay
    <2>2. m = Len(inputs_'[e])
        BY <1>9, <1>16
    <2>3. RecomputeOutputDirty(e)' = RecomputeOutputDirty(e) /\ NothingToDo(e)' = NothingToDo(e)
        BY <1>16 DEF RecomputeOutputDirty, NothingToDo
    <2>4. IsDirty(e)' = (DirtiedTo(e, m)' \/ RecomputeOutputDirty(e)')
        BY <2>2 DEF IsDirty
    <2>5. IsDirty(e) = (DirtiedTo(e, m) \/ RecomputeOutputDirty(e))
        BY <1>9 DEF IsDirty
    <2>6. IsDirty(e)' = isDirty
        BY <1>13, <2>1, <2>3, <2>4, <2>5
    <2>7. outputs_ready_'[e] = (ReadyTo(e, m)' /\ (IsDirty(e)' => NothingToDo(e)'))
        BY <1>12, <1>15, <1>18, <2>1, <2>3, <2>6
    <2>8. \A n \in ToSet(Outs[e]) : n \in dirty' <=> IsDirty(e)'
        BY <1>16, <1>19, <2>6
    <2>9. ToSet(Outs[e]) # {}
        BY <1>7
    <2> QED
        BY <2>1, <2>2, <2>7, <2>8, <2>9 DEF EdgeInv
<1>27. EdgesInv'
    BY <1>18, <1>20, <1>26, EdgeStays DEF ScanInv, EdgesInv, EdgeInv
<1>28. \A i, j \in 1..N : EdgeOf(i) = EdgeOf(j) => i = j
    BY <1>4 DEF ScanInv, StackInv
<1>29. \A i \in 1..(N - 1) : i \in 1..N /\ i # N /\ EdgeOf(i)' = EdgeOf(i) /\ EdgeOf(i) # e
    BY <1>5, <1>21, <1>22, <1>28 DEF EdgeOf
<1>30. ASSUME NEW i \in 1..(N - 1) PROVE FrameInv(i)' /\ LinkInv(i)' /\ frames'[i].returned
    <2>1. FrameInv(i) /\ LinkInv(i) /\ EdgeOf(i) \in Edge /\ frames'[i] = frames[i]
        BY <1>4, <1>22, <1>29, OnePerFrame
    <2>2. frames[i].returned
        <3>1. i < N
            OBVIOUS
        <3> QED
            BY <1>3, <1>4, <1>29, <3>1 DEF ScanInv, StackInv
    <2>3. frames[i].returned => frames[i].next <= Len(inputs_[EdgeOf(i)])
        BY <2>1 DEF FrameInv
    <2>4. FrameInv(i)'
        BY <1>16, <1>18, <1>20, <1>29, <2>1, <2>3, FrameStays
    <2>5. inputs_[EdgeOf(i)][frames[i].next] = frames[i + 1].node
        BY <1>3, <1>29, <2>1, <2>2 DEF LinkInv
    <2>6. (inputs_[EdgeOf(i)][frames[i].next])' = frames[i + 1].node
        BY <1>16, <1>29, <2>1, <2>5
    <2>7. CASE i = N - 1
        <3>1. i + 1 = N
            BY <2>7
        <3>2. frames[N].node \in Node \ Leaf /\ InEdge[frames[N].node] = e
            BY <1>5, <1>7 DEF FrameInv, EdgeOf
        <3>3. PICK n : n = frames[N].node
            OBVIOUS
        <3>4. Settled(n)'
            BY <1>18, <3>2, <3>3 DEF Settled
        <3>5. (inputs_[EdgeOf(i)][frames[i].next])' = n
            BY <2>6, <3>1, <3>3
        <3>6. Settled(inputs_[EdgeOf(i)][frames[i].next])'
            BY <3>4, <3>5 DEF Settled
        <3> QED
            BY <1>22, <2>1, <2>2, <2>4, <2>7, <3>6 DEF LinkInv
    <2>8. CASE i # N - 1
        <3>1. i + 1 \in 1..(N - 1)
            BY <2>8
        <3>2. (frames[i + 1].node)' = frames[i + 1].node
            BY <1>22, <3>1
        <3> QED
            BY <1>22, <2>1, <2>2, <2>4, <2>6, <2>8, <3>2 DEF LinkInv
    <2> QED
        BY <2>7, <2>8
<1>31. StackInv'
    <2>1. \A i, j \in 1..(N - 1) : EdgeOf(i)' = EdgeOf(j)' => i = j
        BY <1>28, <1>29
    <2>2. pc' \notin {"target", "plan"}
        BY <1>4, <1>16
    <2> QED
        BY <1>22, <1>30, <2>1, <2>2 DEF StackInv
<1>32. MarksInv'
    <2>1. ASSUME NEW d \in Edge, mark_[d] = "stack", d \in Active, d # e PROVE d \in Active'
        <3>1. PICK i \in 1..N : d = EdgeOf(i)
            BY <1>4, <2>1 DEF Active, EdgeOf
        <3>2. i # N
            BY <1>5, <2>1, <3>1
        <3>3. i \in 1..(N - 1)
            BY <3>2
        <3> QED
            BY <1>22, <3>1, <3>3 DEF Active, EdgeOf
    <2>2. ASSUME err' = "none", pc' # "panic", NEW d \in Edge, mark_'[d] = "stack" PROVE d \in Active'
        <3>1. d # e
            BY <1>18, <2>2
        <3>2. mark_[d] = "stack"
            BY <1>18, <2>2, <3>1
        <3>3. d \in Active
            BY <1>16, <2>2, <3>2 DEF ScanInv, MarksInv
        <3> QED
            BY <2>1, <3>1, <3>2, <3>3
    <2>3. err' # "cycle"
        BY <1>4, <1>16 DEF ScanInv, MarksInv
    <2> QED
        BY <2>2, <2>3 DEF MarksInv
<1>33. AcyclicInv'
    <2>1. Done' = Done \cup {e}
        BY <1>7, <1>18 DEF Done
    <2>2. DependsOn(e) \subseteq Done
        BY <1>1, <1>7, <1>9, <1>12, SettledDone
    <2> QED
        BY <1>1, <1>7, <1>16, <2>1, <2>2, AcyclicGrows DEF ScanInv
<1> QED
    BY <1>20, <1>23, <1>25, <1>27, <1>31, <1>32, <1>33 DEF ScanInv

LEMMA ScanNext ==
    ASSUME ScanInv, TargetInv, Next
    PROVE  ScanInv' /\ Grows
BY ScanQuiet, ScanVisits, ScanEnters, ScanGivesUp, ScanInputVisited, ScanLeaves DEF Next

-----------------------------------------------------------------------------
(* The targets and the plan *)

LEMMA TargetTypes ==
    ASSUME TypeInv, TargetInv
    PROVE  /\ graph.targets \in Seq(Node) /\ targets \in Seq(Node)
           /\ Len(targets) \in Nat /\ Len(graph.targets) \in Nat
           /\ targets # <<>> =>
                 /\ Head(targets) \in Node /\ Head(targets) = targets[1] /\ Len(targets) >= 1
                 /\ Tail(targets) \in Seq(Node) /\ Len(Tail(targets)) = Len(targets) - 1
                 /\ \A i \in 1..(Len(targets) - 1) : Tail(targets)[i] = targets[i + 1]
                 /\ Head(targets) = graph.targets[Len(graph.targets) - Len(targets) + 1]
                 /\ Head(targets) \in ToSet(graph.targets)
<1>1. graph.targets \in Seq(Node)
    <2>1. WellFormed(graph)
        BY GraphsAssumption DEF TypeInv
    <2> QED
        BY <2>1 DEF WellFormed
<1>2. targets \in Seq(Node)
    BY DEF TargetInv
<1>3. ASSUME targets # <<>>
      PROVE  /\ Head(targets) \in Node /\ Head(targets) = targets[1] /\ Len(targets) >= 1
             /\ Tail(targets) \in Seq(Node) /\ Len(Tail(targets)) = Len(targets) - 1
             /\ \A i \in 1..(Len(targets) - 1) : Tail(targets)[i] = targets[i + 1]
    BY <1>2, <1>3
<1>4. ASSUME targets # <<>>
      PROVE  /\ Head(targets) = graph.targets[Len(graph.targets) - Len(targets) + 1]
             /\ Head(targets) \in ToSet(graph.targets)
    <2>1. 1 \in 1..Len(targets) /\ Len(targets) <= Len(graph.targets)
        BY <1>2, <1>3, <1>4 DEF TargetInv
    <2>2. Head(targets) = graph.targets[Len(graph.targets) - Len(targets) + 1]
        BY <1>3, <1>4, <2>1 DEF TargetInv
    <2>3. Len(graph.targets) - Len(targets) + 1 \in 1..Len(graph.targets)
        BY <1>1, <1>2, <2>1
    <2> QED
        BY <1>1, <2>2, <2>3 DEF ToSet
<1> QED
    BY <1>1, <1>2, <1>3, <1>4

\* The loop over the targets advances by one or not at all.
LEMMA TargetsAdvance ==
    ASSUME TypeInv, TargetInv, graph' = graph,
           targets' = targets \/ (targets # <<>> /\ targets' = Tail(targets))
    PROVE  /\ targets' \in Seq(Node)
           /\ Len(targets') <= Len(graph'.targets)
           /\ \A i \in 1..Len(targets') :
                 targets'[i] = graph'.targets[Len(graph'.targets) - Len(targets') + i]
<1>1. CASE targets' = targets
    BY <1>1 DEF TargetInv
<1>2. CASE targets # <<>> /\ targets' = Tail(targets)
    <2>1. PICK n, g : n = Len(targets) /\ g = Len(graph.targets)
        OBVIOUS
    <2>2. /\ n \in Nat /\ g \in Nat /\ n >= 1 /\ n <= g
          /\ targets' \in Seq(Node) /\ Len(targets') = n - 1
          /\ \A i \in 1..(n - 1) : targets'[i] = targets[i + 1]
        BY <1>2, <2>1, TargetTypes DEF TargetInv
    <2>3. \A i \in 1..(n - 1) : targets'[i] = graph.targets[g - (n - 1) + i]
        <3> TAKE i \in 1..(n - 1)
        <3>1. i + 1 \in 1..n /\ g - n + (i + 1) = g - (n - 1) + i
            BY <2>2
        <3>2. targets[i + 1] = graph.targets[g - n + (i + 1)]
            BY <2>1, <3>1 DEF TargetInv
        <3> QED
            BY <2>2, <3>1, <3>2
    <2>4. n - 1 <= g
        BY <2>2
    <2> QED
        BY <2>1, <2>2, <2>3, <2>4
<1> QED
    BY <1>1, <1>2

\* The node that a scan began with.
First == IF frames = <<>> THEN Head(queue) ELSE frames[1].node

\* It is met before the other nodes of its scan, and stays the first activation until it
\* is settled.
LEMMA FirstMet ==
    ASSUME ScanInv, NEW n \in Node, NEW v, v = First,
           VisitLeaf(n) \/ VisitDone(n) \/ EnterEdge(n) \/ InputVisited \/ LeaveEdge
    PROVE  Settled(v)' \/ (frames' # <<>> /\ frames'[1].node = v)
<1>1. TypeInv /\ frames \in Seq(Frame)
    BY DEF ScanInv, TypeInv
<1>2. Len(frames) \in Nat
    BY <1>1, FrameTypes
<1>3. PICK N \in Nat : N = Len(frames)
    BY <1>2
<1>4. frames # <<>> => N >= 1 /\ 1 \in DOMAIN frames /\ N \in DOMAIN frames /\ Top = frames[N]
    BY <1>1, <1>3, FrameTypes
<1>5. /\ FramesAfter \in Seq(Frame) /\ Len(FramesAfter) = N
      /\ frames # <<>> => FramesAfter[1].node = frames[1].node
    BY <1>1, <1>3, <1>4, VisitTypes
<1>6. CASE VisitLeaf(n) \/ VisitDone(n)
    <2>1. CASE frames = <<>>
        <3>1. v = n
            BY <1>6, <2>1 DEF VisitLeaf, VisitDone, About, First
        <3>2. Settled(n)'
            BY <1>6 DEF VisitLeaf, VisitDone, Settled, IsDone
        <3> QED
            BY <3>1, <3>2
    <2>2. CASE frames # <<>>
        <3>1. frames' = FramesAfter
            BY <1>6 DEF VisitLeaf, VisitDone
        <3> QED
            BY <1>4, <1>5, <2>2, <3>1 DEF First
    <2> QED
        BY <2>1, <2>2
<1>7. CASE EnterEdge(n)
    <2>1. PICK new : new = [node |-> n, next |-> 1, returned |-> FALSE,
                            dirty |-> graph.load[InEdge[n]] = "stale"]
        OBVIOUS
    <2>2. new \in Frame /\ new.node = n
        BY <2>1 DEF Frame
    <2>3. frames' = Append(FramesAfter, new)
        BY <1>7, <2>1 DEF EnterEdge
    <2>4. frames' # <<>> /\ (N >= 1 => frames'[1] = FramesAfter[1]) /\ (N = 0 => frames'[1] = new)
        BY <1>5, <2>2, <2>3
    <2>5. CASE frames = <<>>
        <3>1. v = n /\ N = 0
            BY <1>3, <1>7, <2>5 DEF EnterEdge, Unmarked, About, First
        <3> QED
            BY <2>2, <2>4, <3>1
    <2>6. CASE frames # <<>>
        BY <1>4, <1>5, <2>4, <2>6 DEF First
    <2> QED
        BY <2>5, <2>6
<1>8. CASE InputVisited
    <2>1. frames # <<>> /\ frames[N] \in Frame /\ Len(frames') = Len(frames)
        BY <1>1, <1>3, <1>4, <1>8, FrameTypes DEF InputVisited
    <2>2. frames'[1].node = frames[1].node
        <3>1. N # 1 => frames'[1] = frames[1]
            BY <1>3, <1>4, <1>8, <2>1 DEF InputVisited
        <3>2. frames'[N].node = frames[N].node
            BY <1>3, <1>4, <1>8, <2>1 DEF InputVisited, Frame
        <3> QED
            BY <3>1, <3>2
    <2>3. frames' # <<>>
        BY <1>1, <1>3, <1>4, <2>1, <1>8 DEF InputVisited
    <2> QED
        BY <2>1, <2>2, <2>3 DEF First
<1>9. CASE LeaveEdge
    <2>1. frames # <<>> /\ frames' = SubSeq(frames, 1, N - 1) /\ v = frames[1].node
        BY <1>3, <1>9 DEF LeaveEdge, Front, First
    <2>2. CASE N = 1
        <3>1. v \in Node \ Leaf /\ InEdge[v] \in Edge
            BY <1>4, <2>1, <2>2, OnePerFrame DEF FrameInv, EdgeOf
        <3>2. TopEdge = InEdge[v]
            BY <1>4, <2>1, <2>2 DEF TopEdge
        <3>3. mark_'[InEdge[v]] = "done"
            BY <1>1, <1>9, <3>1, <3>2 DEF LeaveEdge, TypeInv
        <3> QED
            BY <3>1, <3>3 DEF Settled
    <2>3. CASE N # 1
        <3>1. N > 1
            BY <1>4, <2>1, <2>3
        <3>2. Len(frames') = N - 1 /\ frames'[1] = frames[1] /\ frames' \in Seq(Frame)
            BY <1>1, <1>3, <2>1, <3>1
        <3> QED
            BY <2>1, <3>1, <3>2
    <2> QED
        BY <2>2, <2>3
<1> QED
    BY <1>6, <1>7, <1>8, <1>9

LEMMA TargetScans ==
    ASSUME ScanInv, TargetInv, Grows, NEW n \in Node,
           VisitLeaf(n) \/ VisitDone(n) \/ EnterEdge(n) \/ InputVisited \/ LeaveEdge
    PROVE  TargetInv'
<1>1. /\ pc = "scan" /\ UNCHANGED <<pc, err, targets>> /\ graph' = graph
      /\ frames # <<>> \/ queue # <<>>
    BY DEF VisitLeaf, VisitDone, EnterEdge, Unmarked, About, InputVisited, LeaveEdge
<1>2. PICK v, t : v = First /\ t = Head(targets)
    OBVIOUS
<1>3. Settled(v)' \/ (frames' # <<>> /\ frames'[1].node = v)
    BY <1>2, FirstMet
<1>4. Settled(t) \/ v = t
    BY <1>1, <1>2 DEF TargetInv, First
<1>5. Settled(t) => Settled(t)'
    BY SettledStays
<1>6. Settled(t)' \/ (frames' # <<>> /\ frames'[1].node = t)
    BY <1>3, <1>4, <1>5
<1>7. Settled(Head(targets))' \/ (frames' # <<>> /\ frames'[1].node = Head(targets'))
    BY <1>1, <1>2, <1>6 DEF Settled
<1> QED
    BY <1>1, <1>7 DEF TargetInv

LEMMA TargetNext ==
    ASSUME ScanInv, TargetInv, Grows, Next
    PROVE  TargetInv'
<1>1. TypeInv
    BY DEF ScanInv
<1>2. graph' = graph
    BY DEF Grows
<1>3. ASSUME targets' = targets \/ (targets # <<>> /\ targets' = Tail(targets)), pc' # "scan",
             pc' = "plan" => targets' # <<>>, pc' = "done" /\ err' = "none" => targets' = <<>>
      PROVE  TargetInv'
    BY <1>1, <1>2, <1>3, TargetsAdvance DEF TargetInv
<1>4. CASE NextTarget
    <2>1. targets' = targets /\ targets # <<>> /\ queue' = <<Head(targets)>> /\ pc' = "scan"
        BY <1>4 DEF NextTarget
    <2>2. frames' = <<>>
        BY <1>4 DEF NextTarget, ScanInv, StackInv
    <2>3. Head(queue') = Head(targets') /\ queue' # <<>>
        BY <2>1
    <2> QED
        BY <1>1, <1>2, <2>1, <2>2, <2>3, TargetsAdvance DEF TargetInv
<1>5. CASE NoMoreTargets \/ ScanDone \/ VisitNil
    BY <1>3, <1>5 DEF NoMoreTargets, ScanDone, VisitNil, About, TargetInv
<1>6. CASE PlanDone
    BY <1>3, <1>6 DEF PlanDone, TargetsAfter, TargetInv
<1>7. ASSUME NEW n \in Node,
             VisitInStack(n) \/ EnterFails(n) \/ EnterPanics(n) \/ PlanMissing(n)
      PROVE  TargetInv'
    <2>1. targets # <<>>
        BY <1>7 DEF VisitInStack, EnterFails, EnterPanics, PlanMissing, Unmarked, About, Planning, TargetInv
    <2>2. /\ targets' = targets \/ targets' = Tail(targets)
          /\ pc' \in {"panic", "target"} \/ (pc' = "done" /\ err' # "none")
        BY <1>7 DEF VisitInStack, EnterFails, EnterPanics, PlanMissing, Fail, TargetsAfter
    <2> QED
        BY <1>3, <2>1, <2>2
<1>8. ASSUME NEW n \in Node, PlanNothing(n) \/ PlanEdge(n) PROVE TargetInv'
    BY <1>3, <1>8 DEF PlanNothing, PlanEdge, Planning, TargetInv
<1>9. ASSUME NEW n \in Node, VisitLeaf(n) \/ VisitDone(n) \/ EnterEdge(n) PROVE TargetInv'
    BY <1>9, TargetScans
<1>10. CASE InputVisited \/ LeaveEdge
    <2>1. Node # {}
        <3>1. pc = "scan"
            BY <1>10 DEF InputVisited, LeaveEdge
        <3>2. Head(targets) \in Node
            BY <1>1, <3>1, TargetTypes DEF TargetInv
        <3> QED
            BY <3>2
    <2>2. PICK n \in Node : TRUE
        BY <2>1
    <2> QED
        BY <1>10, TargetScans
<1> QED
    BY <1>4, <1>5, <1>6, <1>7, <1>8, <1>9, <1>10 DEF Next

LEMMA CoveredStays ==
    ASSUME Grows, Wanted \subseteq Wanted', NEW n \in Node, Covered(n)
    PROVE  Covered(n)'
<1>1. CASE n \in Leaf
    BY <1>1 DEF Covered
<1>2. CASE n \notin Leaf
    <2>1. PICK e : e = InEdge[n]
        OBVIOUS
    <2>2. e \in Edge /\ mark_[e] = "done" /\ (outputs_ready_[e] \/ e \in Wanted)
        BY <1>2, <2>1, InEdgeProduces DEF Covered
    <2>3. mark_'[e] = "done" /\ outputs_ready_'[e] = outputs_ready_[e]
        BY <2>2 DEF Grows
    <2>4. outputs_ready_'[e] \/ e \in Wanted'
        BY <2>2, <2>3
    <2> QED
        BY <2>1, <2>3, <2>4 DEF Covered
<1> QED
    BY <1>1, <1>2

\* What is visited and done has nodes for inputs.
LEMMA InputsSettled ==
    ASSUME ScanInv, NEW e \in Edge, mark_[e] = "done"
    PROVE  /\ inputs_[e] \in Seq(Node)
           /\ \A n \in ToSet(inputs_[e]) : n \in Node /\ Settled(n)
<1>1. inputs_[e] \in Seq(Node \cup {Nil}) /\ DOMAIN inputs_[e] = 1..Len(inputs_[e])
    BY InputTypes DEF ScanInv
<1>2. \A k \in 1..Len(inputs_[e]) : Settled(inputs_[e][k])
    BY DEF ScanInv, EdgesInv, EdgeInv, SettledTo
<1>3. \A k \in 1..Len(inputs_[e]) : inputs_[e][k] \in Node
    BY <1>2 DEF Settled
<1>4. inputs_[e] \in Seq(Node)
    BY <1>1, <1>3
<1>5. \A n \in ToSet(inputs_[e]) : \E k \in 1..Len(inputs_[e]) : n = inputs_[e][k]
    BY <1>1 DEF ToSet
<1> QED
    BY <1>2, <1>3, <1>4, <1>5

\* The part of WantInv about one edge.
WantedInv(e) ==
    /\ mark_[e] = "done" /\ ~outputs_ready_[e]
    /\ want[e] = "start" <=> IsDirty(e)
    /\ ToSet(Outs[e]) \cap ToSet(graph.targets) # {} \/ \E f \in Wanted : e \in DependsOn(f)
    /\ \A n \in ToSet(inputs_[e]) : Covered(n) \/ n \in ToSet(walk)

\* It stays, as long as a call of AddSubTarget that is over has covered its node.
LEMMA WantedStays ==
    ASSUME ScanInv, WantInv, Grows, Wanted \subseteq Wanted',
           \A n \in ToSet(walk) : n \in ToSet(walk)' \/ Covered(n)',
           NEW e \in Wanted, want'[e] = want[e]
    PROVE  WantedInv(e)'
<1>1. e \in Edge /\ WantedInv(e)
    BY DEF WantInv, Wanted, WantedInv
<1>2. mark_[e] = "done" /\ EdgeInv(e)
    BY <1>1 DEF WantedInv, ScanInv, EdgesInv
<1>3. /\ mark_'[e] = "done" /\ outputs_ready_'[e] = outputs_ready_[e] /\ inputs_'[e] = inputs_[e]
      /\ graph' = graph
    BY <1>1, <1>2 DEF Grows
<1>4. IsDirty(e)' = IsDirty(e)
    BY <1>1, <1>2, EdgeStays
<1>5. ASSUME NEW f \in Wanted, e \in DependsOn(f) PROVE f \in Wanted' /\ e \in DependsOn(f)'
    <2>1. f \in Edge /\ mark_[f] = "done"
        BY DEF Wanted, WantInv
    <2>2. inputs_'[f] = inputs_[f]
        BY <2>1 DEF Grows
    <2> QED
        BY <1>5, <2>2 DEF DependsOn
<1>6. ASSUME NEW n \in ToSet(inputs_[e]) PROVE Covered(n)' \/ n \in ToSet(walk)'
    <2>1. n \in Node
        BY <1>1, <1>2, InputsSettled
    <2>2. Covered(n) \/ n \in ToSet(walk)
        BY <1>1 DEF WantedInv
    <2> QED
        BY <2>1, <2>2, CoveredStays
<1>7. (ToSet(Outs[e]) \cap ToSet(graph.targets) # {} \/ \E f \in Wanted : e \in DependsOn(f))'
    BY <1>1, <1>3, <1>5 DEF WantedInv
<1>8. (\A n \in ToSet(inputs_[e]) : Covered(n) \/ n \in ToSet(walk))'
    BY <1>3, <1>6
<1>9. ~outputs_ready_'[e] /\ (want'[e] = "start" <=> IsDirty(e)')
    BY <1>1, <1>3, <1>4 DEF WantedInv
<1> QED
    BY <1>3, <1>7, <1>8, <1>9 DEF WantedInv

\* A step that makes no entry.
LEMMA WantStays ==
    ASSUME ScanInv, WantInv, Grows, want' = want,
           \A n \in ToSet(walk) : n \in ToSet(walk)' \/ Covered(n)'
    PROVE  WantInv'
<1>1. Wanted' = Wanted
    BY DEF Wanted
<1>2. \A e \in Wanted : WantedInv(e)'
    BY <1>1, WantedStays
<1> QED
    BY <1>1, <1>2 DEF WantInv, WantedInv

\* What a call of AddSubTarget is for does not change.
LEMMA WalkStays ==
    ASSUME ScanInv, WantInv, WalkInv, Grows, Wanted \subseteq Wanted', NEW n \in ToSet(walk)
    PROVE  /\ Settled(n)'
           /\ (n \in ToSet(graph.targets) \/ \E f \in Wanted : n \in ToSet(inputs_[f]))'
<1>1. Settled(n) /\ (n \in ToSet(graph.targets) \/ \E f \in Wanted : n \in ToSet(inputs_[f]))
    BY DEF WalkInv
<1>2. Settled(n)'
    BY <1>1, SettledStays
<1>3. ASSUME NEW f \in Wanted, n \in ToSet(inputs_[f]) PROVE f \in Wanted' /\ n \in ToSet(inputs_'[f])
    <2>1. f \in Edge /\ mark_[f] = "done"
        BY DEF Wanted, WantInv
    <2>2. inputs_'[f] = inputs_[f]
        BY <2>1 DEF Grows
    <2> QED
        BY <1>3, <2>2
<1>4. graph' = graph
    BY DEF Grows
<1> QED
    BY <1>1, <1>2, <1>3, <1>4

LEMMA TargetsCovered ==
    ASSUME ScanInv, TargetInv, CoverInv, Grows, Wanted \subseteq Wanted', err = "none",
           targets' = targets
    PROVE  (\A i \in 1..(Len(graph.targets) - Len(targets)) : Covered(graph.targets[i]))'
<1>1. PICK N : N = Len(graph.targets) - Len(targets)
    OBVIOUS
<1>2. graph' = graph
    BY DEF Grows
<1>3. \A i \in 1..N : Covered(graph.targets[i])
    BY <1>1 DEF CoverInv
<1>4. \A i \in 1..N : graph.targets[i] \in Node
    <2>1. /\ graph.targets \in Seq(Node)
          /\ Len(targets) \in Nat /\ Len(graph.targets) \in Nat
        BY TargetTypes DEF ScanInv
    <2>2. \A i \in 1..N : i \in 1..Len(graph.targets)
        BY <1>1, <2>1
    <2> QED
        BY <2>1, <2>2
<1>5. ASSUME NEW i \in 1..N PROVE Covered(graph.targets[i])'
    <2>1. PICK n \in Node : n = graph.targets[i]
        BY <1>4
    <2>2. Covered(n)'
        BY <1>3, <2>1, CoveredStays
    <2> QED
        BY <1>2, <2>1, <2>2 DEF Covered
<1>6. (\A i \in 1..N : Covered(graph.targets[i]))'
    BY <1>5
<1>7. N = Len(graph'.targets) - Len(targets')
    BY <1>1, <1>2
<1> QED
    BY <1>6, <1>7

\* The scan makes no entries and covers what was covered.
LEMMA PlanScans ==
    ASSUME ScanInv, PlanInv, Grows, UNCHANGED planned, pc \in {"target", "scan"}, pc' # "plan",
           err' = "none" => err = "none" /\ targets' = targets
    PROVE  WalkInv' /\ WantInv' /\ CoverInv'
<1>1. walk' = walk /\ want' = want /\ Wanted' = Wanted
    BY DEF planned, Wanted
<1>2. walk = <<>>
    BY DEF PlanInv, WalkInv
<1>3. WantInv'
    BY <1>1, WantStays DEF PlanInv
<1>4. WalkInv'
    BY <1>1, <1>2 DEF WalkInv, ToSet
<1>5. CoverInv'
    BY <1>1, TargetsCovered DEF PlanInv, CoverInv
<1> QED
    BY <1>3, <1>4, <1>5

LEMMA PlanBegins ==
    ASSUME ScanInv, PlanInv, Grows, ScanDone
    PROVE  WalkInv' /\ WantInv' /\ CoverInv'
<1>1. PICK t : t = Head(targets)
    OBVIOUS
<1>2. /\ pc = "scan" /\ frames = <<>> /\ queue = <<>> /\ targets # <<>> /\ want' = want
      /\ UNCHANGED <<graph, targets, mark_, outputs_ready_, dirty, err>>
      /\ walk' = IF t \notin Leaf /\ outputs_ready_[InEdge[t]] THEN <<>> ELSE <<t>>
    BY <1>1 DEF ScanDone, scanned, PlanInv, TargetInv
<1>3. Settled(t)
    BY <1>1, <1>2 DEF PlanInv, TargetInv
<1>4. t \in Node /\ t \in ToSet(graph.targets)
    BY <1>1, <1>2, TargetTypes DEF ScanInv, PlanInv
<1>5. walk = <<>>
    BY <1>2 DEF PlanInv, WalkInv
<1>6. WantInv'
    BY <1>2, <1>5, WantStays DEF PlanInv, ToSet
<1>7. Settled(t)'
    BY <1>3, SettledStays
<1>8. WalkInv'
    <2>1. walk' \in Seq(Node) /\ ToSet(walk') \subseteq {t}
        BY <1>2, <1>4 DEF ToSet
    <2>2. \A n \in ToSet(walk') : n = t
        BY <2>1
    <2>3. pc' = "plan"
        BY DEF ScanDone
    <2>4. \A n \in ToSet(walk') : Settled(n)'
        BY <1>7, <2>2 DEF Settled
    <2> QED
        BY <1>2, <1>4, <2>1, <2>2, <2>3, <2>4 DEF WalkInv
<1>9. Covered(t)' \/ t \in ToSet(walk')
    <2>1. CASE t \notin Leaf /\ outputs_ready_[InEdge[t]]
        BY <1>2, <1>3, <2>1 DEF Settled, Covered
    <2>2. CASE ~(t \notin Leaf /\ outputs_ready_[InEdge[t]])
        <3>1. walk' = <<t>>
            BY <1>2, <2>2
        <3> QED
            BY <3>1 DEF ToSet
    <2> QED
        BY <2>1, <2>2
<1>10. CoverInv'
    <2>1. Wanted' = Wanted
        BY <1>2 DEF Wanted
    <2>2. Covered(Head(targets))' \/ Head(targets') \in ToSet(walk')
        BY <1>1, <1>2, <1>9 DEF Covered
    <2> QED
        BY <1>2, <2>1, <2>2, TargetsCovered DEF CoverInv, PlanInv
<1> QED
    BY <1>6, <1>8, <1>10

LEMMA WalkParts ==
    ASSUME WalkInv, walk # <<>>
    PROVE  /\ Head(walk) \in Node /\ Head(walk) \in ToSet(walk)
           /\ Tail(walk) \in Seq(Node) /\ ToSet(Tail(walk)) \subseteq ToSet(walk)
           /\ \A n \in ToSet(walk) : n = Head(walk) \/ n \in ToSet(Tail(walk))
<1>1. walk \in Seq(Node) /\ Len(walk) \in Nat /\ DOMAIN walk = 1..Len(walk)
    BY DEF WalkInv
<1>2. Len(walk) >= 1
    BY <1>1
<1>3. /\ Tail(walk) \in Seq(Node) /\ DOMAIN Tail(walk) = 1..(Len(walk) - 1)
      /\ \A i \in 1..(Len(walk) - 1) : Tail(walk)[i] = walk[i + 1]
      /\ Head(walk) = walk[1] /\ Head(walk) \in Node
    BY <1>1
<1>4. Head(walk) \in ToSet(walk)
    BY <1>1, <1>2, <1>3 DEF ToSet
<1>5. \A i \in 1..(Len(walk) - 1) : i + 1 \in 1..Len(walk)
    BY <1>1
<1>6. ToSet(Tail(walk)) \subseteq ToSet(walk)
    BY <1>1, <1>3, <1>5 DEF ToSet
<1>7. ASSUME NEW n \in ToSet(walk) PROVE n = Head(walk) \/ n \in ToSet(Tail(walk))
    <2>1. PICK i \in 1..Len(walk) : n = walk[i]
        BY <1>1 DEF ToSet
    <2>2. CASE i = 1
        BY <1>3, <2>1, <2>2
    <2>3. CASE i # 1
        <3>1. i - 1 \in 1..(Len(walk) - 1) /\ (i - 1) + 1 = i
            BY <1>1, <2>3
        <3>2. n = Tail(walk)[i - 1]
            BY <1>3, <2>1, <3>1
        <3> QED
            BY <1>3, <3>1, <3>2 DEF ToSet
    <2> QED
        BY <2>2, <2>3
<1> QED
    BY <1>3, <1>4, <1>6, <1>7

\* A step that makes no entry: the calls to come are among those that were, and a call
\* that is over has covered its node.
LEMMA PlanReturns ==
    ASSUME ScanInv, PlanInv, Grows, want' = want, walk' \in Seq(Node),
           ToSet(walk') \subseteq ToSet(walk), targets' = targets, pc = "plan",
           pc' \in {"target", "scan"} => walk' = <<>>, pc' = "done" => err' # "none",
           \A n \in ToSet(walk) : n \in ToSet(walk)' \/ Covered(n)',
           err' = "none" => err = "none"
    PROVE  WalkInv' /\ WantInv' /\ CoverInv'
<1>1. Wanted' = Wanted
    BY DEF Wanted
<1>2. WantInv'
    BY WantStays DEF PlanInv
<1>3. \A n \in ToSet(walk') :
         /\ Settled(n)'
         /\ (n \in ToSet(graph.targets) \/ \E f \in Wanted : n \in ToSet(inputs_[f]))'
    BY <1>1, WalkStays DEF PlanInv
<1>4. WalkInv'
    BY <1>3 DEF WalkInv
<1>5. ASSUME err' = "none", pc' = "plan" PROVE (Covered(Head(targets)) \/ Head(targets) \in ToSet(walk))'
    <2>1. PICK t : t = Head(targets)
        OBVIOUS
    <2>2. Covered(t) \/ t \in ToSet(walk)
        BY <1>5, <2>1 DEF PlanInv, CoverInv
    <2>3. t \in Node
        BY <2>1, TargetTypes DEF ScanInv, PlanInv, TargetInv
    <2>4. Covered(t)' \/ t \in ToSet(walk')
        BY <1>1, <2>2, <2>3, CoveredStays
    <2> QED
        BY <2>1, <2>4 DEF Covered
<1>6. CoverInv'
    BY <1>1, <1>5, TargetsCovered DEF PlanInv, CoverInv
<1> QED
    BY <1>2, <1>4, <1>6

LEMMA PlanLeaves ==
    ASSUME ScanInv, PlanInv, Grows, NEW n \in Node, PlanMissing(n) \/ PlanNothing(n)
    PROVE  WalkInv' /\ WantInv' /\ CoverInv'
<1>1. WalkInv /\ pc = "plan" /\ walk # <<>> /\ n = Head(walk)
    BY DEF PlanMissing, PlanNothing, Planning, PlanInv
<1>2. CASE PlanMissing(n)
    <2>1. /\ err' = "missing" /\ want' = want /\ walk' = walk /\ targets' = targets /\ pc' = "done"
        BY <1>2 DEF PlanMissing, Fail, planned
    <2> QED
        BY <1>1, <2>1, PlanReturns DEF WalkInv
<1>3. CASE PlanNothing(n)
    <2>1. /\ walk' = Tail(walk) /\ want' = want /\ targets' = targets /\ pc' = pc /\ err' = err
          /\ UNCHANGED <<graph, mark_, outputs_ready_>>
        BY <1>3 DEF PlanNothing, scanned
    <2>2. Settled(n)
        BY <1>1, WalkParts DEF WalkInv
    <2>3. Covered(n)'
        BY <1>3, <2>1, <2>2 DEF PlanNothing, Settled, Covered
    <2>4. /\ Tail(walk) \in Seq(Node) /\ ToSet(Tail(walk)) \subseteq ToSet(walk)
          /\ \A x \in ToSet(walk) : x = n \/ x \in ToSet(Tail(walk))
        BY <1>1, WalkParts
    <2>5. \A x \in ToSet(walk) : x \in ToSet(walk)' \/ Covered(x)'
        BY <2>1, <2>3, <2>4
    <2> QED
        BY <1>1, <2>1, <2>4, <2>5, PlanReturns
<1> QED
    BY <1>2, <1>3

LEMMA PlanEnters ==
    ASSUME ScanInv, PlanInv, Grows, NEW n \in Node, PlanEdge(n)
    PROVE  WalkInv' /\ WantInv' /\ CoverInv'
<1>1. WalkInv /\ WantInv /\ pc = "plan" /\ walk # <<>> /\ n = Head(walk) /\ n \notin Leaf
    BY DEF PlanEdge, Planning, PlanInv
<1>2. PICK e : e = InEdge[n]
    OBVIOUS
<1>3. e \in Edge /\ n \in ToSet(Outs[e])
    BY <1>1, <1>2, InEdgeProduces
<1>4. /\ n \in ToSet(walk) /\ Tail(walk) \in Seq(Node) /\ ToSet(Tail(walk)) \subseteq ToSet(walk)
      /\ \A x \in ToSet(walk) : x = n \/ x \in ToSet(Tail(walk))
    BY <1>1, WalkParts
<1>5. mark_[e] = "done" /\ EdgeInv(e)
    BY <1>1, <1>2, <1>3, <1>4 DEF WalkInv, Settled, ScanInv, EdgesInv
<1>6. PICK w : w = Entry(n)
    OBVIOUS
<1>7. /\ want' = [want EXCEPT ![e] = w] /\ ~outputs_ready_[e]
      /\ walk' = IF want[e] = "absent" THEN inputs_[e] \o Tail(walk) ELSE Tail(walk)
      /\ UNCHANGED <<graph, targets, inputs_, mark_, outputs_ready_, dirty, pc, err>>
    BY <1>2, <1>6 DEF PlanEdge, scanned
<1>8. want \in [Edge -> {"absent", "nothing", "start"}]
    BY <1>1 DEF WantInv
<1>9. /\ w \in {"nothing", "start"}
      /\ w = IF n \in dirty THEN "start" ELSE IF want[e] = "absent" THEN "nothing" ELSE want[e]
    BY <1>2, <1>3, <1>6, <1>8 DEF Entry
<1>10. /\ want' \in [Edge -> {"absent", "nothing", "start"}] /\ want'[e] = w
       /\ \A d \in Edge \ {e} : want'[d] = want[d]
    BY <1>3, <1>7, <1>8, <1>9
<1>11. Wanted' = Wanted \cup {e} /\ Wanted \subseteq Wanted'
    BY <1>3, <1>9, <1>10 DEF Wanted
<1>12. Covered(n)'
    BY <1>2, <1>5, <1>7, <1>11 DEF Covered
<1>13. n \in dirty <=> IsDirty(e)
    BY <1>3, <1>5 DEF EdgeInv
<1>14. /\ inputs_[e] \in Seq(Node)
       /\ \A x \in ToSet(inputs_[e]) : x \in Node /\ Settled(x)
    BY <1>3, <1>5, InputsSettled
<1>15. /\ walk' \in Seq(Node)
       /\ ToSet(Tail(walk)) \subseteq ToSet(walk')
       /\ want[e] = "absent" => ToSet(inputs_[e]) \subseteq ToSet(walk')
       /\ \A x \in ToSet(walk') : \/ x \in ToSet(Tail(walk))
                                  \/ want[e] = "absent" /\ x \in ToSet(inputs_[e])
    <2>1. CASE want[e] # "absent"
        BY <1>4, <1>7, <2>1
    <2>2. CASE want[e] = "absent"
        <3>1. walk' = inputs_[e] \o Tail(walk)
            BY <1>7, <2>2
        <3>2. PICK a, b : a = inputs_[e] /\ b = Tail(walk)
            OBVIOUS
        <3>3. a \in Seq(Node) /\ b \in Seq(Node) /\ walk' = a \o b
            BY <1>4, <1>14, <3>1, <3>2
        <3>4. walk' \in Seq(Node)
            BY <3>3
        <3>5. ToSet(walk') = ToSet(a) \cup ToSet(b)
            <4>1. Len(a) \in Nat /\ Len(b) \in Nat /\ Len(walk') = Len(a) + Len(b)
                  /\ DOMAIN a = 1..Len(a) /\ DOMAIN b = 1..Len(b)
                  /\ DOMAIN walk' = 1..(Len(a) + Len(b))
                BY <3>3
            <4>2. \A i \in 1..Len(a) : walk'[i] = a[i] /\ i \in 1..(Len(a) + Len(b))
                BY <3>3, <4>1
            <4>3. \A i \in 1..Len(b) : walk'[Len(a) + i] = b[i] /\ Len(a) + i \in 1..(Len(a) + Len(b))
                BY <3>3, <4>1
            <4>4. \A i \in 1..(Len(a) + Len(b)) : i \in 1..Len(a) \/ i - Len(a) \in 1..Len(b)
                BY <4>1
            <4>5. \A i \in 1..(Len(a) + Len(b)) : Len(a) + (i - Len(a)) = i
                BY <4>1
            <4>6. \A i \in 1..(Len(a) + Len(b)) : walk'[i] \in ToSet(a) \cup ToSet(b)
                BY <4>1, <4>2, <4>3, <4>4, <4>5 DEF ToSet
            <4>7. ToSet(walk') \subseteq ToSet(a) \cup ToSet(b)
                BY <4>1, <4>6 DEF ToSet
            <4>8. ToSet(a) \subseteq ToSet(walk') /\ ToSet(b) \subseteq ToSet(walk')
                BY <4>1, <4>2, <4>3 DEF ToSet
            <4> QED
                BY <4>7, <4>8
        <3> QED
            BY <2>2, <3>2, <3>4, <3>5
    <2> QED
        BY <2>1, <2>2
<1>16. \A x \in ToSet(walk) : x \in ToSet(walk)' \/ Covered(x)'
    BY <1>4, <1>12, <1>15
<1>17. ASSUME NEW d \in Wanted, d # e PROVE WantedInv(d)'
    <2>1. want'[d] = want[d]
        BY <1>10, <1>17 DEF Wanted
    <2> QED
        BY <1>1, <1>11, <1>16, <2>1, WantedStays
<1>18. WantedInv(e)'
    <2>1. CASE e \in Wanted
        <3>1. want[e] = "start" <=> IsDirty(e)
            BY <1>1, <2>1 DEF WantInv
        <3>2. want[e] \in {"nothing", "start"}
            BY <1>3, <1>8, <2>1 DEF Wanted
        <3>3. want'[e] = want[e]
            BY <1>9, <1>10, <1>13, <3>1, <3>2
        <3> QED
            BY <1>1, <1>11, <1>16, <2>1, <3>3, WantedStays
    <2>2. CASE e \notin Wanted
        <3>1. want[e] = "absent"
            BY <1>3, <2>2 DEF Wanted
        <3>2. want'[e] = "start" <=> IsDirty(e)
            BY <1>9, <1>10, <1>13, <3>1
        <3>3. IsDirty(e)' = IsDirty(e)
            BY <1>3, <1>5, EdgeStays
        <3>4. (ToSet(Outs[e]) \cap ToSet(graph.targets) # {} \/ \E f \in Wanted : e \in DependsOn(f))'
            <4>1. CASE n \in ToSet(graph.targets)
                BY <1>3, <1>7, <4>1
            <4>2. ASSUME NEW f \in Wanted, n \in ToSet(inputs_[f]) PROVE f \in Wanted' /\ e \in DependsOn(f)'
                BY <1>3, <1>7, <1>11, <4>2 DEF DependsOn
            <4> QED
                BY <1>1, <1>4, <4>1, <4>2 DEF WalkInv
        <3>5. \A x \in ToSet(inputs_'[e]) : x \in ToSet(walk')
            BY <1>7, <1>15, <3>1
        <3> QED
            BY <1>5, <1>7, <3>2, <3>3, <3>4, <3>5 DEF WantedInv
    <2> QED
        BY <2>1, <2>2
<1>19. WantInv'
    <2>1. \A d \in Wanted' : WantedInv(d)'
        BY <1>11, <1>17, <1>18
    <2> QED
        BY <1>10, <2>1 DEF WantInv, WantedInv
<1>20. WalkInv'
    <2>1. ASSUME NEW x \in ToSet(walk')
          PROVE  /\ Settled(x)'
                 /\ (x \in ToSet(graph.targets) \/ \E f \in Wanted : x \in ToSet(inputs_[f]))'
        <3>1. CASE x \in ToSet(Tail(walk))
            BY <1>1, <1>4, <1>11, <3>1, WalkStays
        <3>2. CASE x \in ToSet(inputs_[e])
            <4>1. Settled(x)'
                BY <1>14, <3>2, SettledStays
            <4>2. e \in Wanted' /\ x \in ToSet(inputs_'[e])
                BY <1>7, <1>11, <3>2
            <4> QED
                BY <4>1, <4>2
        <3> QED
            BY <1>15, <3>1, <3>2
    <2> QED
        BY <1>1, <1>7, <1>15, <2>1 DEF WalkInv
<1>21. CoverInv'
    <2>1. PICK t : t = Head(targets)
        OBVIOUS
    <2>2. t \in Node
        BY <1>1, <2>1, TargetTypes DEF ScanInv, PlanInv, TargetInv
    <2>3. err = "none" => Covered(t) \/ t \in ToSet(walk)
        BY <1>1, <2>1 DEF PlanInv, CoverInv
    <2>4. err = "none" => Covered(t)' \/ t \in ToSet(walk')
        BY <1>11, <1>16, <2>2, <2>3, CoveredStays
    <2>5. err = "none" => (Covered(Head(targets)) \/ Head(targets) \in ToSet(walk))'
        BY <1>7, <2>1, <2>4 DEF Covered
    <2> QED
        BY <1>7, <1>11, <2>5, TargetsCovered DEF CoverInv, PlanInv
<1> QED
    BY <1>19, <1>20, <1>21

\* The calls for a target are over, and it is covered.
LEMMA PlanEnds ==
    ASSUME ScanInv, PlanInv, Grows, PlanDone
    PROVE  WalkInv' /\ WantInv' /\ CoverInv'
<1>1. /\ pc = "plan" /\ walk = <<>> /\ pc' = "target" /\ targets' = Tail(targets)
      /\ walk' = walk /\ want' = want /\ err' = err
      /\ UNCHANGED <<graph, mark_, outputs_ready_>>
    BY DEF PlanDone, TargetsAfter, scanned, planned
<1>2. WantInv'
    BY <1>1, WantStays DEF PlanInv
<1>3. WalkInv'
    BY <1>1 DEF WalkInv, ToSet
<1>4. targets # <<>>
    BY <1>1 DEF PlanInv, TargetInv
<1>5. PICK N, t : N = Len(graph.targets) - Len(targets) /\ t = Head(targets)
    OBVIOUS
<1>6. /\ N \in Nat /\ t = graph.targets[N + 1] /\ N + 1 = Len(graph'.targets) - Len(targets')
    <2>1. PICK a, b : a = Len(graph.targets) /\ b = Len(targets)
        OBVIOUS
    <2>2. /\ a \in Nat /\ b \in Nat /\ b <= a /\ Len(targets') = b - 1
          /\ t = graph.targets[a - b + 1]
        BY <1>1, <1>4, <1>5, <2>1, TargetTypes DEF ScanInv, PlanInv, TargetInv
    <2>3. a - b \in Nat /\ (a - b) + 1 = a - (b - 1)
        BY <2>2
    <2> QED
        BY <1>1, <1>5, <2>1, <2>2, <2>3
<1>7. err = "none" => Covered(t)
    BY <1>1, <1>5 DEF PlanInv, CoverInv, ToSet
<1>8. err = "none" => \A i \in 1..N : Covered(graph.targets[i])
    BY <1>5 DEF PlanInv, CoverInv
<1>9. err = "none" => \A i \in 1..(N + 1) : Covered(graph.targets[i])
    <2>1. \A i \in 1..(N + 1) : i \in 1..N \/ i = N + 1
        BY <1>6
    <2> QED
        BY <1>6, <1>7, <1>8, <2>1
<1>10. err' = "none" => \A i \in 1..(N + 1) : Covered(graph.targets[i])'
    BY <1>1, <1>9 DEF Covered, Wanted
<1>11. CoverInv'
    BY <1>1, <1>6, <1>10 DEF CoverInv
<1> QED
    BY <1>2, <1>3, <1>11

LEMMA PlanNext ==
    ASSUME ScanInv, PlanInv, Grows, Next
    PROVE  PlanInv'
<1>1. TargetInv'
    BY TargetNext DEF PlanInv
<1>2. CASE NextTarget \/ NoMoreTargets \/ VisitNil \/ InputVisited \/ LeaveEdge
    BY <1>1, <1>2, PlanScans
        DEF NextTarget, NoMoreTargets, VisitNil, InputVisited, LeaveEdge, About, PlanInv
<1>3. ASSUME NEW n \in Node, VisitLeaf(n) \/ VisitDone(n) \/ EnterEdge(n) \/ EnterPanics(n)
      PROVE  PlanInv'
    BY <1>1, <1>3, PlanScans
        DEF VisitLeaf, VisitDone, EnterEdge, EnterPanics, Unmarked, About, PlanInv
<1>4. ASSUME NEW n \in Node, VisitInStack(n) \/ EnterFails(n) PROVE PlanInv'
    <2>1. /\ pc = "scan" /\ UNCHANGED planned /\ pc' # "plan"
          /\ err' # "none" \/ UNCHANGED <<targets, err>>
        BY <1>4 DEF VisitInStack, EnterFails, Unmarked, About, Fail
    <2> QED
        BY <1>1, <2>1, PlanScans DEF PlanInv
<1>5. CASE ScanDone
    BY <1>1, <1>5, PlanBegins DEF PlanInv
<1>6. CASE PlanDone
    BY <1>1, <1>6, PlanEnds DEF PlanInv
<1>7. ASSUME NEW n \in Node, PlanMissing(n) \/ PlanNothing(n) \/ PlanEdge(n) PROVE PlanInv'
    BY <1>1, <1>7, PlanLeaves, PlanEnters DEF PlanInv
<1> QED
    BY <1>2, <1>3, <1>4, <1>5, <1>6, <1>7 DEF Next

LEMMA PlanInit == Init => PlanInv
<1> SUFFICES ASSUME Init PROVE PlanInv
    OBVIOUS
<1>1. WellFormed(graph)
    BY GraphsAssumption DEF Init
<1>2. targets = graph.targets /\ targets \in Seq(Node)
    BY <1>1 DEF Init, WellFormed
<1>3. Len(targets) \in Nat /\ Len(graph.targets) - Len(targets) = 0
    BY <1>2
<1>4. TargetInv
    BY <1>2, <1>3 DEF Init, TargetInv
<1>5. walk = <<>> /\ Wanted = {} /\ want \in [Edge -> {"absent", "nothing", "start"}]
    BY DEF Init, Wanted
<1>6. WalkInv /\ WantInv
    BY <1>5 DEF WalkInv, WantInv, ToSet
<1>7. CoverInv
    BY <1>3 DEF Init, CoverInv
<1> QED
    BY <1>4, <1>6, <1>7 DEF PlanInv

LEMMA Unstepped == ScanInv /\ PlanInv /\ UNCHANGED vars => ScanInv' /\ PlanInv'
<1> SUFFICES ASSUME ScanInv, PlanInv, UNCHANGED vars PROVE ScanInv' /\ PlanInv'
    OBVIOUS
<1> USE DEF vars, planned
<1>1. ScanInv' /\ Grows
    BY ScanUntouched DEF ScanInv, TypeInv, StackInv, MarksInv
<1>2. want' = want /\ walk' = walk /\ targets' = targets /\ pc' = pc /\ err' = err /\ graph' = graph
    OBVIOUS
<1>3. WantInv'
    BY <1>1, <1>2, WantStays DEF PlanInv
<1>4. Wanted' = Wanted
    BY <1>2 DEF Wanted
<1>5. WalkInv'
    BY <1>1, <1>2, <1>4 DEF PlanInv, WalkInv, Settled
<1>6. TargetInv'
    BY <1>1, <1>2 DEF PlanInv, TargetInv, Settled
<1>7. CoverInv'
    BY <1>1, <1>2, <1>4 DEF PlanInv, CoverInv, Covered
<1> QED
    BY <1>1, <1>3, <1>5, <1>6, <1>7 DEF PlanInv

\* The whole is inductive.
THEOREM ScanPlanInvHolds == Spec => [](ScanInv /\ PlanInv)
<1>1. Init => ScanInv /\ PlanInv
    BY ScanInit, PlanInit
<1>2. ScanInv /\ PlanInv /\ [Next]_vars => (ScanInv /\ PlanInv)'
    BY ScanNext, PlanNext, Unstepped DEF PlanInv
<1> QED
    BY <1>1, <1>2, PTL DEF Spec

-----------------------------------------------------------------------------
(* What the scan leaves *)

LEMMA DoneHolds ==
    ASSUME ScanInv, NEW e \in Done
    PROVE  /\ e \in Edge /\ mark_[e] = "done" /\ EdgeInv(e)
           /\ Len(inputs_[e]) \in Nat /\ DOMAIN inputs_[e] = 1..Len(inputs_[e])
           /\ \A i \in 1..Len(inputs_[e]) : Settled(inputs_[e][i])
           /\ DependsOn(e) \subseteq Done
<1>1. e \in Edge /\ mark_[e] = "done"
    BY DEF Done
<1>2. EdgeInv(e) /\ TypeInv
    BY <1>1 DEF ScanInv, EdgesInv
<1>3. SettledTo(e, Len(inputs_[e]))
    BY <1>1, <1>2 DEF EdgeInv
<1> QED
    BY <1>1, <1>2, <1>3, InputTypes, SettledDone DEF SettledTo

LEMMA SameToSet ==
    ASSUME NEW s
    PROVE  G!ToSet(s) = ToSet(s)
BY DEF G!ToSet, ToSet

\* The static graph that the build's models start from, in terms of the scan's inputs_.
LEMMA StaticGraph ==
    ASSUME ScanInv, NEW e \in Done
    PROVE  /\ Positions(e, FALSE) = {i \in 1..Len(inputs_[e]) : ~IsOrderOnly(e, i)}
           /\ G!Inputs(e) = ToSet(inputs_[e])
           /\ G!DependsOn[e] = DependsOn(e)
           /\ G!DirtiedBy[e] = {d \in Done : \E i \in Positions(e, FALSE) :
                                                 inputs_[e][i] \in ToSet(Outs[d])}
<1>1. e \in Edge /\ DOMAIN inputs_[e] = 1..Len(inputs_[e]) /\ DependsOn(e) \subseteq Done
    BY DoneHolds
<1>2. PICK a, c, s : a = Len(inputs_[e]) /\ c = graph.order_only[e] /\ s = inputs_[e]
    OBVIOUS
<1>3. s \in Seq(Node \cup {Nil}) /\ a = Len(s) /\ a \in Nat /\ c \in Nat
    BY <1>1, <1>2, InputTypes DEF ScanInv
<1>4. \A i \in 1..a : IsOrderOnly(e, i) = (i > a - c)
    BY <1>2 DEF IsOrderOnly
<1>5. /\ Positions(e, FALSE) = {i \in 1..a : ~(i > a - c)}
      /\ Positions(e, TRUE) = {i \in 1..a : i > a - c}
    <2>1. \A i : IsOrderOnly(e, i) \in BOOLEAN
        BY DEF IsOrderOnly
    <2>2. Positions(e, FALSE) = {i \in 1..a : ~IsOrderOnly(e, i)}
        BY <1>1, <1>2, <2>1 DEF Positions
    <2>3. Positions(e, TRUE) = {i \in 1..a : IsOrderOnly(e, i)}
        BY <1>1, <1>2, <2>1 DEF Positions
    <2> QED
        BY <1>4, <2>2, <2>3
<1>6. Positions(e, FALSE) = 1..(a - c)
    <2>1. \A i : i \in 1..(a - c) <=> i \in 1..a /\ ~(i > a - c)
        BY <1>3
    <2>2. \A i : i \in Positions(e, FALSE) <=> i \in 1..a /\ ~(i > a - c)
        BY <1>5
    <2> QED
        BY <2>1, <2>2
<1>7. ToSet(SubSeq(s, 1, a - c)) = {s[i] : i \in Positions(e, FALSE)}
    <2>1. a - c \in Int /\ a - c <= a
        BY <1>3
    <2>2. /\ DOMAIN SubSeq(s, 1, a - c) = 1..(a - c)
          /\ \A i \in 1..(a - c) : SubSeq(s, 1, a - c)[i] = s[i]
        BY <1>3, <2>1
    <2> QED
        BY <1>6, <2>2 DEF ToSet
<1>8. ToSet(s) = {s[i] : i \in Positions(e, FALSE)} \cup {s[i] : i \in Positions(e, TRUE)}
    <2>1. ToSet(s) = {s[i] : i \in 1..a}
        BY <1>1, <1>2 DEF ToSet
    <2> QED
        BY <1>5, <2>1
<1>9. G!Inputs(e) = ToSet(SubSeq(s, 1, a - c)) \cup {s[i] : i \in Positions(e, TRUE)}
    <2>1. G!Inputs(e) = G!ToSet(SubSeq(s, 1, a - c)) \cup {s[i] : i \in Positions(e, TRUE)}
        BY <1>2 DEF G!Inputs
    <2> QED
        BY <2>1, SameToSet
<1>10. G!Inputs(e) = ToSet(s)
    BY <1>7, <1>8, <1>9
<1>11. G!DependsOn[e] = DependsOn(e)
    <2>1. G!DependsOn[e] = {d \in Done : ToSet(Outs[d]) \cap G!Inputs(e) # {}}
        <3>1. G!DependsOn[e] = {d \in Done : G!ToSet([f \in Done |-> Outs[f]][d]) \cap G!Inputs(e) # {}}
            BY DEF G!DependsOn
        <3>2. \A d \in Done : G!ToSet([f \in Done |-> Outs[f]][d]) = ToSet(Outs[d])
            BY SameToSet
        <3> QED
            BY <3>1, <3>2
    <2>2. G!DependsOn[e] = {d \in Done : ToSet(Outs[d]) \cap ToSet(inputs_[e]) # {}}
        BY <1>2, <1>10, <2>1
    <2> QED
        BY <1>1, <2>2 DEF DependsOn, Done
<1>12. G!DirtiedBy[e] = {d \in Done : \E i \in Positions(e, FALSE) : s[i] \in ToSet(Outs[d])}
    <2>1. G!DirtiedBy[e] = {d \in Done : ToSet(Outs[d]) \cap ToSet(SubSeq(s, 1, a - c)) # {}}
        <3>1. G!DirtiedBy[e] = {d \in Done : G!ToSet([f \in Done |-> Outs[f]][d])
                                              \cap G!ToSet(SubSeq(s, 1, a - c)) # {}}
            BY <1>2 DEF G!DirtiedBy
        <3>2. \A d \in Done : G!ToSet([f \in Done |-> Outs[f]][d]) = ToSet(Outs[d])
            BY SameToSet
        <3> QED
            BY <3>1, <3>2, SameToSet
    <2> QED
        BY <1>7, <2>1
<1> QED
    BY <1>1, <1>2, <1>4, <1>5, <1>10, <1>11, <1>12

LEMMA DirtyEdge ==
    ASSUME ScanInv, NEW e \in Done
    PROVE  e \in DirtyEdges <=> IsDirty(e)
BY DoneHolds DEF EdgeInv, DirtyEdges

\* A settled node is dirty as a missing file or as an output of a dirty edge.
LEMMA SettledDirty ==
    ASSUME ScanInv, NEW n, Settled(n)
    PROVE  n \in dirty <=> \/ n \in Leaf \ graph.present
                           \/ \E d \in DirtyEdges : n \in ToSet(Outs[d])
<1>1. CASE n \in Leaf
    <2>1. \A d \in DirtyEdges : n \notin ToSet(Outs[d])
        BY <1>1, OutputHasInEdge DEF DirtyEdges, Done
    <2>2. n \in dirty <=> n \notin graph.present
        BY <1>1 DEF Settled, ScanInv, DirtyInv
    <2> QED
        BY <1>1, <2>1, <2>2
<1>2. CASE n \notin Leaf
    <2>1. PICK e : e = InEdge[n]
        OBVIOUS
    <2>2. e \in Edge /\ n \in ToSet(Outs[e]) /\ mark_[e] = "done"
        BY <1>2, <2>1, InEdgeProduces DEF Settled
    <2>3. \A d \in Edge : n \in ToSet(Outs[d]) => d = e
        BY <2>1, OutputHasInEdge
    <2>4. n \in dirty <=> ToSet(Outs[e]) \cap dirty # {}
        BY <2>2 DEF ScanInv, DirtyInv
    <2>5. n \in dirty <=> e \in DirtyEdges
        BY <2>2, <2>4 DEF DirtyEdges, Done
    <2> QED
        BY <1>2, <2>2, <2>3, <2>5 DEF DirtyEdges, Done
<1> QED
    BY <1>1, <1>2

LEMMA DirtySolves ==
    ASSUME ScanInv
    PROVE  G!IsDirtyScan(OwnDirty, DirtyEdges)
<1>1. ASSUME NEW e \in Done
      PROVE  e \in DirtyEdges <=> e \in OwnDirty \/ G!DirtiedBy[e] \cap DirtyEdges # {}
    <2>1. /\ Positions(e, FALSE) = {i \in 1..Len(inputs_[e]) : ~IsOrderOnly(e, i)}
          /\ G!DirtiedBy[e] = {d \in Done : \E i \in Positions(e, FALSE) :
                                                 inputs_[e][i] \in ToSet(Outs[d])}
        BY StaticGraph
    <2>2. \A i \in Positions(e, FALSE) :
             inputs_[e][i] \in dirty <=>
                 \/ inputs_[e][i] \in Leaf \ graph.present
                 \/ \E d \in DirtyEdges : inputs_[e][i] \in ToSet(Outs[d])
        BY <2>1, DoneHolds, SettledDirty
    <2>3. e \in DirtyEdges <=> \/ graph.load[e] = "stale" \/ RecomputeOutputDirty(e)
                               \/ \E i \in Positions(e, FALSE) : inputs_[e][i] \in dirty
        BY <2>1, DirtyEdge DEF IsDirty, DirtiedTo
    <2>4. e \in OwnDirty <=> \/ graph.load[e] = "stale" \/ RecomputeOutputDirty(e)
                             \/ \E i \in Positions(e, FALSE) : inputs_[e][i] \in Leaf \ graph.present
        BY DEF OwnDirty
    <2>5. G!DirtiedBy[e] \cap DirtyEdges # {} <=>
             \E i \in Positions(e, FALSE) : \E d \in DirtyEdges : inputs_[e][i] \in ToSet(Outs[d])
        BY <2>1 DEF DirtyEdges
    <2> QED
        BY <2>2, <2>3, <2>4, <2>5
<1>2. DirtyEdges \subseteq Done /\ OwnDirty \subseteq Done
    BY DEF DirtyEdges, OwnDirty
<1>3. DirtyEdges = OwnDirty \cup {e \in Done : G!DirtiedBy[e] \cap DirtyEdges # {}}
    BY <1>1, <1>2
<1> QED
    BY <1>3 DEF G!IsDirtyScan

LEMMA ReadySolves ==
    ASSUME ScanInv
    PROVE  G!IsReadyScan(DirtyEdges, ReadyEdges)
<1>1. ASSUME NEW e \in Done
      PROVE  e \in ReadyEdges <=>
                 /\ G!DependsOn[e] \subseteq ReadyEdges
                 /\ e \in DirtyEdges => e \in Phony \cap Done /\ G!Inputs(e) = {}
    <2>1. /\ e \in Edge /\ DOMAIN inputs_[e] = 1..Len(inputs_[e])
          /\ outputs_ready_[e] = /\ ReadyTo(e, Len(inputs_[e]))
                                 /\ IsDirty(e) => NothingToDo(e)
          /\ \A i \in 1..Len(inputs_[e]) : Settled(inputs_[e][i])
        BY DoneHolds DEF EdgeInv
    <2>2. G!Inputs(e) = ToSet(inputs_[e]) /\ G!DependsOn[e] = DependsOn(e)
        BY StaticGraph
    <2>3. (inputs_[e] = <<>>) = (ToSet(inputs_[e]) = {})
        <3>1. PICK s : s = inputs_[e]
            OBVIOUS
        <3>2. s \in Seq(Node \cup {Nil})
            BY <2>1, <3>1, InputTypes DEF ScanInv
        <3>3. s = <<>> => ToSet(s) = {}
            BY DEF ToSet
        <3>4. s # <<>> => s[1] \in ToSet(s)
            BY <3>2 DEF ToSet
        <3> QED
            BY <3>1, <3>3, <3>4
    <2>4. ReadyTo(e, Len(inputs_[e])) <=> DependsOn(e) \subseteq ReadyEdges
        <3>1. ASSUME ReadyTo(e, Len(inputs_[e])), NEW d \in DependsOn(e) PROVE d \in ReadyEdges
            <4>1. d \in Done /\ d \in Edge /\ ToSet(Outs[d]) \cap ToSet(inputs_[e]) # {}
                BY DoneHolds DEF DependsOn
            <4>2. PICK i \in 1..Len(inputs_[e]) : inputs_[e][i] \in ToSet(Outs[d])
                BY <2>1, <4>1 DEF ToSet
            <4>3. inputs_[e][i] \notin Leaf /\ InEdge[inputs_[e][i]] = d
                BY <4>1, <4>2, OutputHasInEdge
            <4>4. ReadyOf(inputs_[e][i])
                BY <3>1, <4>2 DEF ReadyTo
            <4> QED
                BY <4>1, <4>3, <4>4 DEF ReadyOf, ReadyEdges
        <3>2. ASSUME DependsOn(e) \subseteq ReadyEdges, NEW i \in 1..Len(inputs_[e])
              PROVE  ReadyOf(inputs_[e][i])
            <4>1. PICK n : n = inputs_[e][i]
                OBVIOUS
            <4>2. Settled(n) /\ n \in ToSet(inputs_[e])
                BY <2>1, <4>1 DEF ToSet
            <4>3. CASE n \notin Leaf
                <5>1. InEdge[n] \in Edge /\ n \in ToSet(Outs[InEdge[n]])
                    BY <4>2, <4>3, InEdgeProduces DEF Settled
                <5>2. InEdge[n] \in DependsOn(e)
                    BY <4>2, <5>1 DEF DependsOn
                <5> QED
                    BY <3>2, <4>1, <5>2 DEF ReadyOf, ReadyEdges
            <4> QED
                BY <4>1, <4>3 DEF ReadyOf
        <3> QED
            BY <3>1, <3>2 DEF ReadyTo
    <2>5. outputs_ready_[e] <=> e \in ReadyEdges
        BY DEF ReadyEdges
    <2> QED
        BY <2>1, <2>2, <2>3, <2>4, <2>5, DirtyEdge DEF NothingToDo
<1>2. ReadyEdges \subseteq Done
    BY DEF ReadyEdges
<1>3. ReadyEdges = {e \in Done : /\ G!DependsOn[e] \subseteq ReadyEdges
                                 /\ e \in DirtyEdges => e \in Phony \cap Done /\ G!Inputs(e) = {}}
    BY <1>1, <1>2
<1> QED
    BY <1>3 DEF G!IsReadyScan

\* However the search went - targets, validations and inputs in any order, deps loaded on
\* the way, scans given up half way - the marks that RecomputeNodeDirty and
\* RecomputeOutputsDirty leave solve the equations that the build's models start from.
THEOREM VerdictIsSolutionHolds == Spec => []VerdictIsSolution
<1>1. ScanInv => VerdictIsSolution
    BY DirtySolves, ReadySolves DEF VerdictIsSolution
<1> QED
    BY <1>1, ScanPlanInvHolds, PTL

\* AddSubTarget plans an edge only when the producers of its inputs have been visited to
\* the end by RecomputeNodeDirty, also after scans that gave up half way.
THEOREM PlannedIsScannedHolds == Spec => []PlannedIsScanned
<1>1. ASSUME ScanInv, PlanInv PROVE PlannedIsScanned
    <2>1. \A e \in Edge : want[e] # "absent" => e \in Done
        BY <1>1 DEF PlanInv, WantInv, Wanted, Done
    <2> QED
        BY <1>1, <2>1, DoneHolds DEF PlannedIsScanned
<1> QED
    BY <1>1, ScanPlanInvHolds, PTL

\* What AddSubTarget has entered in want_ when RunBuild's loop over the targets is over:
\* the edges that are not ready and that a target reaches, the dirty ones to be started.
THEOREM PlanIsReachableHolds == Spec => []PlanIsReachable
<1>1. ASSUME ScanInv, PlanInv, Finished PROVE G!IsPlanned(ReadyEdges, Wanted)
    <2>1. walk = <<>> /\ targets = <<>>
        BY <1>1 DEF PlanInv, WalkInv, TargetInv, Finished
    <2>2. \A n \in ToSet(graph.targets) : Covered(n)
        <3>1. graph.targets \in Seq(Node) /\ Len(graph.targets) - Len(targets) = Len(graph.targets)
            BY <1>1, <2>1, TargetTypes DEF ScanInv, PlanInv
        <3>2. \A i \in 1..Len(graph.targets) : Covered(graph.targets[i])
            BY <1>1, <3>1 DEF PlanInv, CoverInv, Finished
        <3> QED
            BY <3>1, <3>2 DEF ToSet
    <2>3. \A f \in Wanted : \A n \in ToSet(inputs_[f]) : Covered(n)
        BY <1>1, <2>1 DEF PlanInv, WantInv, ToSet
    <2>4. \A e \in Wanted :
             /\ e \in Done \ ReadyEdges
             /\ \/ ToSet(Outs[e]) \cap ToSet(graph.targets) # {}
                \/ \E f \in Wanted : e \in DependsOn(f)
        BY <1>1 DEF PlanInv, WantInv, Wanted, Done, ReadyEdges
    <2>5. \A f \in Wanted : G!DependsOn[f] = DependsOn(f)
        BY <1>1, <2>4, StaticGraph
    <2>6. ASSUME NEW e \in Done \ ReadyEdges, NEW n \in ToSet(Outs[e]), Covered(n)
          PROVE  e \in Wanted
        <3>1. n \notin Leaf /\ InEdge[n] = e
            BY <2>6, OutputHasInEdge DEF Done
        <3> QED
            BY <2>6, <3>1 DEF Covered, ReadyEdges
    <2>7. \A e \in Done \ ReadyEdges :
             \/ ToSet(Outs[e]) \cap ToSet(graph.targets) # {}
             \/ \E f \in Wanted : e \in DependsOn(f)
             => e \in Wanted
        BY <2>2, <2>3, <2>6 DEF DependsOn
    <2>8. \A e \in Done : G!ToSet([d \in Done |-> Outs[d]][e]) = ToSet(Outs[e])
        BY SameToSet
    <2>9. \A e \in Done \ ReadyEdges :
             e \in Wanted <=> \/ G!ToSet([d \in Done |-> Outs[d]][e]) \cap ToSet(graph.targets) # {}
                             \/ \E f \in Wanted : e \in G!DependsOn[f]
        <3> TAKE e \in Done \ ReadyEdges
        <3>1. G!ToSet([d \in Done |-> Outs[d]][e]) = ToSet(Outs[e])
            BY <2>8
        <3>2. (\E f \in Wanted : e \in G!DependsOn[f]) <=> (\E f \in Wanted : e \in DependsOn(f))
            BY <2>5
        <3> QED
            BY <2>4, <2>7, <3>1, <3>2
    <2>10. Wanted = {e \in Done \ ReadyEdges :
                        \/ G!ToSet([d \in Done |-> Outs[d]][e]) \cap ToSet(graph.targets) # {}
                        \/ \E f \in Wanted : e \in G!DependsOn[f]}
        BY <2>4, <2>9
    <2> QED
        BY <2>10 DEF G!IsPlanned
<1>2. ASSUME ScanInv, PlanInv, NEW e \in Edge, want[e] # "absent"
      PROVE  (want[e] = "start") = (e \in DirtyEdges)
    <2>1. e \in Done /\ (want[e] = "start" <=> IsDirty(e))
        BY <1>2 DEF PlanInv, WantInv, Wanted, Done
    <2> QED
        BY <1>2, <2>1, DirtyEdge
<1>3. ScanInv /\ PlanInv => PlanIsReachable
    BY <1>1, <1>2 DEF PlanIsReachable, Wanted
<1> QED
    BY <1>3, ScanPlanInvHolds, PTL

\* VerifyDAG reports a cycle only when the edges it takes for its stack are on one, and
\* the scan overlooks none: the marks are those of the activations of RecomputeNodeDirty,
\* each of an edge of its own, and what was visited to the end has no cycle.
THEOREM CycleIsRealHolds == Spec => []CycleIsReal
<1>1. ASSUME ScanInv, pc = "scan", err = "none" PROVE Active = OnStack
    <2>1. Active \subseteq OnStack
        BY <1>1, OnePerFrame DEF Active, OnStack, EdgeOf
    <2>2. OnStack \subseteq Active
        BY <1>1 DEF ScanInv, MarksInv, OnStack
    <2> QED
        BY <2>1, <2>2
<1>2. ASSUME ScanInv PROVE Cardinality(Active) = Len(frames)
    <2>1. PICK N : N = Len(frames)
        OBVIOUS
    <2>2. N \in Nat /\ DOMAIN frames = 1..N
        BY <1>2, <2>1, FrameTypes DEF ScanInv
    <2> DEFINE f == [i \in 1..N |-> EdgeOf(i)]
    <2>3. \A i, j \in 1..N : f[i] = f[j] => i = j
        BY <1>2, <2>2 DEF ScanInv, StackInv
    <2>4. Active = {f[i] : i \in 1..N}
        BY <2>2 DEF Active, EdgeOf
    <2>5. f \in [1..N -> Active]
        BY <2>4
    <2> HIDE DEF f
    <2>6. f \in Bijection(1..N, Active)
        BY <2>3, <2>4, <2>5 DEF Bijection, Injection, Surjection, IsInjective
    <2>7. IsFiniteSet(1..N) /\ Cardinality(1..N) = N
        <3>1. 1 \in Int /\ N \in Int
            BY <2>2
        <3>2. IsFiniteSet(1..N) /\ Cardinality(1..N) = IF 1 > N THEN 0 ELSE N - 1 + 1
            BY <3>1, FS_Interval
        <3> QED
            BY <2>2, <3>2
    <2>8. ExistsBijection(1..N, Active)
        BY <2>6 DEF ExistsBijection
    <2> QED
        BY <2>1, <2>7, <2>8, FS_Bijection
<1>3. ScanInv => CycleIsReal
    BY <1>1, <1>2 DEF CycleIsReal, ScanInv, MarksInv, AcyclicInv
<1> QED
    BY <1>3, ScanPlanInvHolds, PTL
=============================================================================
