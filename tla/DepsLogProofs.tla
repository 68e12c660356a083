---------------------------- MODULE DepsLogProofs ----------------------------
(***************************************************************************)
(* What the deps log keeps, for any nodes, lists of dependencies, number   *)
(* of calls and processes, and whatever crashes or closes the log.         *)
(***************************************************************************)
EXTENDS DepsLog, FiniteSetTheorems, SequenceTheorems, TLAPS

Call == [at : {"ids", "insert", "update"}, node : Output, mtime : Mtimes,
         ins : Seq(Node), changed : BOOLEAN]

\* A node has one row at most.  That of an output has no parent; any other has one,
\* an output that was told of it.
RowIsRight(i) ==
    IF rows[i].pid = None THEN rows[i].path \in Output
    ELSE /\ rows[i].pid \in DOMAIN rows
         /\ rows[rows[i].pid].path \in Output
         /\ rows[i].path \in told[rows[rows[i].pid].path]

TableInv ==
    /\ rows \in Seq(Row)
    /\ told \in [Output -> SUBSET Node]
    /\ \A i, j \in DOMAIN rows : rows[i].path = rows[j].path => i = j
    /\ \A i \in DOMAIN rows : RowIsRight(i)

\* The ids of a process are the positions of the rows.
IdsInv ==
    /\ id_ \in [Node -> Nat]
    /\ nodes_ \in Seq(Node)
    /\ up => /\ Len(nodes_) = Len(rows)
             /\ \A i \in DOMAIN rows : id_[rows[i].path] = i
             /\ \A n \in Node : id_[n] # None =>
                    id_[n] \in DOMAIN rows /\ rows[id_[n]].path = n

CallInv ==
    call # Idle =>
        /\ up /\ call \in Call
        /\ ToSet(call.ins) \subseteq told[call.node]
        /\ call.at = "update" => Unnumbered = {}

RecordedInv ==
    /\ recorded \in [Output -> SUBSET Node]
    /\ \A o \in Output : \A h \in recorded[o] : \E i \in DOMAIN rows : rows[i].path = h

LatestInv ==
    /\ deps_ \in Seq(Deps \cup {NoDeps})
    /\ latest \in [Output -> Deps \cup {NoDeps}]
    /\ MemoryIsLatest

LogInv == TableInv /\ IdsInv /\ CallInv /\ RecordedInv /\ LatestInv

-----------------------------------------------------------------------------
(* The order of rows, and what Load makes of them *)

\* Nth enumerates a finite set of row numbers: each k gives a member of it, and every
\* member has its k.
LEMMA NthEnumerates ==
    ASSUME NEW S \in SUBSET Nat, IsFiniteSet(S)
    PROVE  /\ \A k \in 1..Cardinality(S) : Nth(S, k) \in S
           /\ \A i \in S : \E k \in 1..Cardinality(S) : Nth(S, k) = i
<1> DEFINE UpTo(i) == {j \in S : j <= i}
           rank == [i \in S |-> Cardinality(UpTo(i))]
           N == Cardinality(S)
<1>1. N \in Nat
    BY FS_CardinalityType
<1>2. ASSUME NEW i \in S
      PROVE  IsFiniteSet(UpTo(i)) /\ rank[i] \in 1..N
    <2>1. UpTo(i) \in SUBSET S /\ i \in UpTo(i)
        OBVIOUS
    <2>2. IsFiniteSet(UpTo(i)) /\ Cardinality(UpTo(i)) <= N
        BY <2>1, FS_Subset
    <2>3. Cardinality(UpTo(i)) \in Nat /\ Cardinality(UpTo(i)) # 0
        BY <2>1, <2>2, FS_CardinalityType, FS_EmptySet
    <2> QED
        BY <1>1, <2>2, <2>3
<1>3. ASSUME NEW i \in S, NEW j \in S, rank[i] = rank[j], i <= j
      PROVE  i = j
    <2>1. UpTo(i) \in SUBSET UpTo(j) /\ j \in UpTo(j)
        <3>1. \A x \in S : x \in Nat
            OBVIOUS
        <3>2. \A x \in S : x <= i => x <= j
            BY <1>3, <3>1
        <3>3. j <= j
            BY <3>1
        <3> QED
            BY <3>2, <3>3
    <2>2. UpTo(i) = UpTo(j)
        BY <1>2, <1>3, <2>1, FS_Subset
    <2> QED
        BY <1>3, <2>1, <2>2
<1>4. rank \in Injection(S, 1..N)
    <2>1. rank \in [S -> 1..N]
        BY <1>2
    <2>2. ASSUME NEW i \in S, NEW j \in S, rank[i] = rank[j] PROVE i = j
        <3>1. i <= j \/ j <= i
            OBVIOUS
        <3> QED
            BY <1>3, <2>2, <3>1
    <2> HIDE DEF rank
    <2> QED
        BY <2>1, <2>2 DEF Injection, IsInjective
<1>5. rank \in Surjection(S, 1..N)
    <2>1. IsFiniteSet(1..N) /\ Cardinality(1..N) = N
        BY <1>1, FS_Interval
    <2> HIDE DEF rank
    <2> QED
        BY <1>4, <2>1, FS_Injection
<1>6. ASSUME NEW k \in 1..N PROVE Nth(S, k) \in S /\ rank[Nth(S, k)] = k
    <2>1. \E i \in S : rank[i] = k
        <3> HIDE DEF rank
        <3> QED
            BY <1>5 DEF Surjection
    <2>2. \E i \in S : Cardinality({j \in S : j <= i}) = k
        BY <2>1
    <2> QED
        BY <2>2 DEF Nth
<1>7. ASSUME NEW i \in S PROVE \E k \in 1..N : Nth(S, k) = i
    <2>1. rank[i] \in 1..N
        BY <1>2
    <2>2. Nth(S, rank[i]) \in S /\ rank[Nth(S, rank[i])] = rank[i]
        BY <1>6, <2>1
    <2>3. Nth(S, rank[i]) = i
        <3> HIDE DEF rank
        <3> QED
            BY <1>4, <2>2 DEF Injection, IsInjective
    <2> QED
        BY <2>1, <2>3
<1> QED
    BY <1>6, <1>7

\* What Load reports for a row are the nodes of the rows that name it as their parent,
\* all of them and no other.
LEMMA LoadedAreChildren ==
    ASSUME rows \in Seq(Row), NEW i \in Nat
    PROVE  /\ ToSet(LoadedDeps(i).nodes) = {rows[k].path : k \in Children(i)}
           /\ i \in DOMAIN rows => LoadedDeps(i) \in Deps \cup {NoDeps}
<1> DEFINE S == Children(i)
<1>0. \A k \in DOMAIN rows : rows[k].path \in Node /\ rows[k].mtime \in Mtimes \cup {0}
    <2>1. \A k \in DOMAIN rows : rows[k] \in Row
        OBVIOUS
    <2> QED
        BY <2>1 DEF Row
<1>1. S \in SUBSET Nat /\ IsFiniteSet(S)
    <2>1. DOMAIN rows = 1..Len(rows) /\ Len(rows) \in Nat
        OBVIOUS
    <2>2. IsFiniteSet(1..Len(rows))
        BY <2>1, FS_Interval
    <2>3. S \in SUBSET (1..Len(rows))
        BY <2>1 DEF Children
    <2> QED
        BY <2>1, <2>2, <2>3, FS_Subset
<1>2. CASE S = {}
    BY <1>2 DEF LoadedDeps, NoDeps, ToSet
<1>3. CASE S # {}
    <2> DEFINE nodes == [k \in 1..Cardinality(S) |-> rows[Nth(S, k)].path]
    <2>1. Cardinality(S) \in Nat
        BY <1>1, FS_CardinalityType
    <2>2. LoadedDeps(i) = [mtime |-> rows[i].mtime, nodes |-> nodes]
        BY <1>3 DEF LoadedDeps
    <2>3. /\ \A k \in 1..Cardinality(S) : Nth(S, k) \in S
          /\ \A j \in S : \E k \in 1..Cardinality(S) : Nth(S, k) = j
        <3> HIDE DEF S
        <3> QED
            BY <1>1, NthEnumerates
    <2>4. {nodes[k] : k \in 1..Cardinality(S)} = {rows[k].path : k \in S}
        BY <2>3
    <2>5. \A k \in 1..Cardinality(S) : nodes[k] \in Node
        BY <1>0, <2>3 DEF Children
    <2>6. nodes \in Seq(Node)
        BY <2>1, <2>5
    <2>7. ToSet(nodes) = {rows[k].path : k \in S}
        BY <2>4 DEF ToSet
    <2>8. i \in DOMAIN rows => rows[i].mtime \in Mtimes \cup {0}
        BY <1>0
    <2> HIDE DEF nodes
    <2> QED
        BY <2>2, <2>6, <2>7, <2>8 DEF Deps
<1> QED
    BY <1>2, <1>3

\* A node's row is the only one with its path.
LEMMA RowNumberIs ==
    ASSUME TableInv, NEW n \in Node
    PROVE  /\ \A i \in DOMAIN rows : rows[i].path = n => RowNumber(n) = i
           /\ RowNumber(n) # None => RowNumber(n) \in DOMAIN rows /\ rows[RowNumber(n)].path = n
           /\ RowNumber(n) \in Nat
<1>1. DOMAIN rows = 1..Len(rows) /\ Len(rows) \in Nat
    BY DEF TableInv
<1>2. \A i, j \in DOMAIN rows : rows[i].path = rows[j].path => i = j
    BY DEF TableInv
<1>3. LoadedIds[n] = IF \E i \in DOMAIN rows : rows[i].path = n
                     THEN CHOOSE i \in DOMAIN rows : rows[i].path = n ELSE None
    BY DEF LoadedIds
<1>4. ASSUME NEW i \in DOMAIN rows, rows[i].path = n PROVE LoadedIds[n] = i
    BY <1>2, <1>3, <1>4
<1>5. (\A i \in DOMAIN rows : rows[i].path # n) => LoadedIds[n] = None
    BY <1>3
<1> QED
    BY <1>1, <1>4, <1>5 DEF RowNumber, None

LEMMA RowTypes ==
    ASSUME rows \in Seq(Row)
    PROVE  /\ DOMAIN rows = 1..Len(rows) /\ Len(rows) \in Nat
           /\ \A i \in DOMAIN rows : rows[i] \in Row
           /\ \A i \in DOMAIN rows : rows[i].path \in Node /\ rows[i].pid \in Nat
<1>1. DOMAIN rows = 1..Len(rows) /\ Len(rows) \in Nat
    OBVIOUS
<1>2. \A i \in DOMAIN rows : rows[i] \in Row
    OBVIOUS
<1> QED
    BY <1>1, <1>2 DEF Row

-----------------------------------------------------------------------------
(* The invariant *)

LEMMA LogInit == Init => LogInv
<1> SUFFICES ASSUME Init PROVE LogInv
    OBVIOUS
<1>1. TableInv
    BY DepsLogAssumption DEF Init, TableInv, RowIsRight
<1>2. IdsInv
    BY DEF Init, IdsInv, None
<1>3. CallInv
    BY DEF Init, CallInv
<1>4. RecordedInv
    BY DEF Init, RecordedInv
<1>5. LatestInv
    BY DEF Init, LatestInv, MemoryIsLatest
<1> QED
    BY <1>1, <1>2, <1>3, <1>4, <1>5 DEF LogInv

\* A step that touches neither the rows nor the memory nor the call.
LEMMA LogUntouched ==
    ASSUME LogInv, UNCHANGED <<rows, up, memoryVars, call, history>>
    PROVE  LogInv'
<1>1. TableInv'
    BY DEF LogInv, TableInv, RowIsRight, history
<1>2. IdsInv'
    BY DEF LogInv, IdsInv, memoryVars
<1>3. CallInv'
    BY DEF LogInv, CallInv, memoryVars, history, Unnumbered, Asked
<1>4. RecordedInv'
    BY DEF LogInv, RecordedInv, history
<1>5. LatestInv'
    BY DEF LogInv, LatestInv, MemoryIsLatest, memoryVars, history, GetDeps
<1> QED
    BY <1>1, <1>2, <1>3, <1>4, <1>5 DEF LogInv

LEMMA LogLoad ==
    ASSUME LogInv, Load
    PROVE  LogInv'
<1>1. TableInv'
    BY DEF LogInv, TableInv, RowIsRight, Load
<1>2. DOMAIN rows = 1..Len(rows) /\ Len(rows) \in Nat
    /\ \A i \in DOMAIN rows : rows[i].path \in Node
    BY RowTypes DEF LogInv, TableInv
<1>3. IdsInv'
    <2>1. \A n \in Node : /\ id_'[n] = RowNumber(n)
                          /\ id_'[n] \in Nat
                          /\ id_'[n] # None => id_'[n] \in DOMAIN rows /\ rows[id_'[n]].path = n
        BY RowNumberIs DEF LogInv, Load, RowNumber
    <2>2. \A i \in DOMAIN rows : id_'[rows[i].path] = i
        BY <1>2, <2>1, RowNumberIs DEF LogInv
    <2>3. id_' \in [Node -> Nat]
        <3>1. id_' = [n \in Node |-> id_'[n]]
            BY DEF Load, LoadedIds
        <3> QED
            BY <2>1, <3>1
    <2>4. nodes_' \in Seq(Node) /\ Len(nodes_') = Len(rows)
        BY <1>2 DEF Load
    <2> QED
        BY <2>1, <2>2, <2>3, <2>4 DEF IdsInv, Load
<1>4. CallInv'
    BY DEF LogInv, CallInv, Load
<1>5. RecordedInv'
    BY DEF LogInv, RecordedInv, Load
<1>6. LatestInv'
    <2>1. \A i \in 1..Len(rows) : LoadedDeps(i) \in Deps \cup {NoDeps}
        BY <1>2, LoadedAreChildren DEF LogInv, TableInv
    <2>2. deps_' \in Seq(Deps \cup {NoDeps})
        BY <1>2, <2>1 DEF Load
    <2>3. latest' = [o \in Output |-> NoDeps]
        BY DEF Load
    <2> QED
        BY <2>2, <2>3 DEF LatestInv, MemoryIsLatest
<1> QED
    BY <1>1, <1>3, <1>4, <1>5, <1>6 DEF LogInv

LEMMA LogRecordDeps ==
    ASSUME LogInv, NEW o \in Output, NEW m \in Mtimes, NEW ins \in DepLists,
           RecordDeps(o, m, ins)
    PROVE  LogInv'
<1> USE DEF RecordDeps, diskVars, memoryVars
<1>0. ins \in Seq(Node) /\ ToSet(ins) \subseteq Node
    BY DepsLogAssumption DEF ToSet
<1>1. /\ told' \in [Output -> SUBSET Node]
      /\ \A p \in Output : told[p] \subseteq told'[p]
      /\ ToSet(ins) \subseteq told'[o]
    BY <1>0 DEF LogInv, TableInv
<1>2. TableInv'
    <2>1. \A i \in DOMAIN rows : RowIsRight(i)'
        BY <1>1 DEF LogInv, TableInv, RowIsRight
    <2> QED
        BY <1>1, <2>1 DEF LogInv, TableInv
<1>3. IdsInv'
    BY DEF LogInv, IdsInv
<1>4. CallInv'
    <2>1. call' \in Call
        BY <1>0 DEF Call
    <2> QED
        BY <1>1, <2>1 DEF CallInv
<1>5. RecordedInv'
    BY DEF LogInv, RecordedInv
<1>6. LatestInv'
    BY DEF LogInv, LatestInv, MemoryIsLatest, GetDeps
<1> QED
    BY <1>2, <1>3, <1>4, <1>5, <1>6 DEF LogInv

\* A step that only moves the call on.
LEMMA LogMoveOn ==
    ASSUME LogInv, call # Idle,
           UNCHANGED <<rows, up, memoryVars, history>>,
           NEW at \in {"insert", "update"}, call' = [call EXCEPT !.at = at],
           at = "update" => Unnumbered = {}
    PROVE  LogInv'
<1> USE DEF memoryVars, history
<1>1. call \in Call
    BY DEF LogInv, CallInv
<1>2. /\ call' \in Call /\ call'.at = at
      /\ call'.node = call.node /\ call'.ins = call.ins
    BY <1>1 DEF Call
<1>3. TableInv'
    BY DEF LogInv, TableInv, RowIsRight
<1>4. IdsInv'
    BY DEF LogInv, IdsInv
<1>5. CallInv'
    <2>1. Unnumbered' = Unnumbered
        BY <1>2 DEF Unnumbered, Asked
    <2> QED
        BY <1>2, <2>1 DEF LogInv, CallInv
<1>6. RecordedInv'
    BY DEF LogInv, RecordedInv
<1>7. LatestInv'
    BY DEF LogInv, LatestInv, MemoryIsLatest, GetDeps
<1> QED
    BY <1>3, <1>4, <1>5, <1>6, <1>7 DEF LogInv

\* The INSERT is of the output itself, or of an input whose parent has its id already.
LEMMA LogRecordId ==
    ASSUME LogInv, RecordId
    PROVE  LogInv'
<1> DEFINE o == call.node
<1>1. call \in Call /\ up /\ call # Idle /\ ToSet(call.ins) \subseteq told[o]
    BY DEF LogInv, CallInv, RecordId
<1>2. o \in Output /\ o \in Node /\ call.ins \in Seq(Node) /\ call.mtime \in Mtimes
    BY <1>1, DepsLogAssumption DEF Call
<1>3. rows \in Seq(Row) /\ Len(rows) \in Nat
    BY DEF LogInv, TableInv
<1>4. PICK N \in Nat : N = Len(rows)
    BY <1>3
<1>5. /\ DOMAIN rows = 1..N
      /\ \A i \in DOMAIN rows : rows[i].path \in Node /\ rows[i].pid \in Nat
    BY <1>3, <1>4, RowTypes
<1>6. /\ Asked \in Seq(Node) /\ DOMAIN Asked = 1..(Len(call.ins) + 1) /\ Asked[1] = o
      /\ \A k \in DOMAIN Asked : k # 1 => Asked[k] \in ToSet(call.ins)
    <2>1. <<o>> \in Seq(Node) /\ Len(<<o>>) = 1 /\ <<o>>[1] = o
        BY <1>2
    <2>2. /\ Asked \in Seq(Node) /\ Len(Asked) = 1 + Len(call.ins) /\ Len(call.ins) \in Nat
          /\ \A k \in 1..(1 + Len(call.ins)) :
                 Asked[k] = IF k <= 1 THEN <<o>>[k] ELSE call.ins[k - 1]
        BY <1>2, <2>1, ConcatProperties DEF Asked
    <2>3. DOMAIN call.ins = 1..Len(call.ins) /\ DOMAIN Asked = 1..Len(Asked)
        BY <1>2, <2>2
    <2>4. ASSUME NEW k \in DOMAIN Asked, k # 1 PROVE Asked[k] \in ToSet(call.ins)
        <3>1. k - 1 \in DOMAIN call.ins /\ Asked[k] = call.ins[k - 1]
            BY <2>2, <2>3, <2>4
        <3> QED
            BY <3>1 DEF ToSet
    <2> QED
        BY <2>1, <2>2, <2>3, <2>4
<1>7. PICK k \in Unnumbered :
          /\ \A j \in Unnumbered : k <= j
          /\ rows' = Append(rows, RowOf(Asked[k]))
          /\ nodes_' = Append(nodes_, Asked[k])
          /\ id_' = [id_ EXCEPT ![Asked[k]] = Len(nodes_) + 1]
    BY DEF RecordId
<1> DEFINE n == Asked[k]
           r == RowOf(n)
<1>8. k \in DOMAIN Asked /\ k \in Nat /\ k >= 1 /\ n \in Node /\ id_[n] = None
    BY <1>6, <1>7 DEF Unnumbered
<1>9. /\ id_ \in [Node -> Nat] /\ nodes_ \in Seq(Node) /\ Len(nodes_) = N
      /\ \A i \in DOMAIN rows : id_[rows[i].path] = i
      /\ \A x \in Node : id_[x] # None => id_[x] \in DOMAIN rows /\ rows[id_[x]].path = x
    BY <1>1, <1>5, <1>4 DEF LogInv, IdsInv
<1>10. \A i \in DOMAIN rows : rows[i].path # n
    BY <1>5, <1>4, <1>8, <1>9 DEF None
<1>11. n # o => id_[o] \in DOMAIN rows /\ rows[id_[o]].path = o /\ n \in told[o]
    <2> SUFFICES ASSUME n # o PROVE id_[o] # None /\ n \in told[o]
        BY <1>2, <1>9
    <2>1. k # 1 /\ ~(k <= 1)
        BY <1>6, <1>8
    <2>2. 1 \notin Unnumbered
        BY <1>7, <1>8, <2>1
    <2>3. 1 \in DOMAIN Asked
        BY <1>6, <1>8
    <2> QED
        BY <1>1, <1>6, <1>8, <2>1, <2>2, <2>3 DEF Unnumbered
<1>12. /\ r \in Row /\ r.path = n
       /\ n = o => r.pid = None
       /\ n # o => r.pid = id_[o]
    BY <1>2, <1>8, <1>9 DEF RowOf, Row, None
<1>13. /\ rows' \in Seq(Row) /\ Len(rows') = N + 1 /\ DOMAIN rows' = 1..(N + 1)
       /\ rows'[N + 1] = r
       /\ \A i \in DOMAIN rows : i \in DOMAIN rows' /\ rows'[i] = rows[i]
       /\ \A i \in DOMAIN rows' : i \in DOMAIN rows \/ i = N + 1
    <2>1. rows' = Append(rows, r) /\ rows \in Seq(Row)
        BY <1>7 DEF LogInv, TableInv
    <2> HIDE DEF r
    <2> QED
        BY <1>5, <1>4, <1>12, <2>1
<1> HIDE DEF r
<1>14. TableInv'
    <2>1. told' = told /\ told \in [Output -> SUBSET Node]
        BY DEF LogInv, TableInv, RecordId, history
    <2>2. \A i, j \in DOMAIN rows' : rows'[i].path = rows'[j].path => i = j
        BY <1>10, <1>12, <1>13 DEF LogInv, TableInv
    <2>3. ASSUME NEW i \in DOMAIN rows PROVE RowIsRight(i)'
        <3>1. RowIsRight(i)
            BY DEF LogInv, TableInv
        <3> QED
            BY <1>13, <2>1, <3>1 DEF RowIsRight
    <2>4. RowIsRight(N + 1)'
        <3>1. CASE n = o
            BY <1>2, <1>12, <1>13, <3>1 DEF RowIsRight
        <3>2. CASE n # o
            BY <1>2, <1>5, <1>4, <1>11, <1>12, <1>13, <2>1, <3>2 DEF RowIsRight, None
        <3> QED
            BY <3>1, <3>2
    <2> QED
        BY <1>13, <2>1, <2>2, <2>3, <2>4 DEF TableInv
<1>15. /\ id_' \in [Node -> Nat] /\ nodes_' \in Seq(Node) /\ Len(nodes_') = N + 1
       /\ id_'[n] = N + 1
       /\ \A x \in Node \ {n} : id_'[x] = id_[x]
    BY <1>5, <1>4, <1>7, <1>8, <1>9
<1>16. IdsInv'
    <2>1. \A i \in DOMAIN rows' : id_'[rows'[i].path] = i
        <3>1. ASSUME NEW i \in DOMAIN rows PROVE id_'[rows'[i].path] = i
            <4>1. rows[i].path \in Node \ {n} /\ id_[rows[i].path] = i /\ rows'[i] = rows[i]
                BY <1>5, <1>4, <1>9, <1>10, <1>13
            <4> QED
                BY <1>15, <4>1
        <3>2. id_'[rows'[N + 1].path] = N + 1
            BY <1>12, <1>13, <1>15
        <3> QED
            BY <1>13, <3>1, <3>2
    <2>2. \A x \in Node : id_'[x] # None => id_'[x] \in DOMAIN rows' /\ rows'[id_'[x]].path = x
        <3>1. ASSUME NEW x \in Node \ {n}, id_'[x] # None
              PROVE  id_'[x] \in DOMAIN rows' /\ rows'[id_'[x]].path = x
            <4>1. id_'[x] \in DOMAIN rows /\ rows[id_'[x]].path = x
                BY <1>9, <1>15, <3>1
            <4> QED
                BY <1>13, <4>1
        <3>2. id_'[n] \in DOMAIN rows' /\ rows'[id_'[n]].path = n
            BY <1>12, <1>13, <1>15
        <3> QED
            BY <3>1, <3>2
    <2> QED
        BY <1>13, <1>15, <2>1, <2>2 DEF IdsInv
<1>17. CallInv'
    <2>1. /\ call' \in Call /\ call'.at = "ids"
          /\ call'.node = call.node /\ call'.ins = call.ins
        BY <1>1 DEF RecordId, Call
    <2> QED
        BY <1>1, <2>1 DEF CallInv, RecordId, history
<1>18. RecordedInv'
    BY <1>13 DEF LogInv, RecordedInv, RecordId, history
<1>19. LatestInv'
    <2>1. deps_' = deps_ /\ latest' = latest /\ up' = up
        BY DEF RecordId, history
    <2>2. ASSUME NEW p \in Output, up, latest[p] # NoDeps PROVE GetDeps(p)' = latest'[p]
        <3>1. GetDeps(p) = latest[p]
            BY <2>2 DEF LogInv, LatestInv, MemoryIsLatest
        <3>2. id_[p] # None /\ p \in Node
            BY <2>2, <3>1, DepsLogAssumption DEF GetDeps
        <3>3. id_'[p] = id_[p]
            BY <1>8, <1>15, <3>2
        <3> QED
            BY <2>1, <3>1, <3>3 DEF GetDeps
    <2> QED
        BY <2>1, <2>2 DEF LogInv, LatestInv, MemoryIsLatest
<1> QED
    BY <1>14, <1>16, <1>17, <1>18, <1>19 DEF LogInv

\* What a finished call has named has a row.
LEMMA AskedHaveRows ==
    ASSUME LogInv, call # Idle, Unnumbered = {}
    PROVE  /\ call.node \in Output
           /\ id_[call.node] # None
           /\ ToSet(call.ins) \subseteq Node
           /\ \A h \in ToSet(call.ins) : \E i \in DOMAIN rows : rows[i].path = h
<1>1. call \in Call /\ up
    BY DEF LogInv, CallInv
<1>2. call.node \in Node /\ call.node \in Output /\ call.ins \in Seq(Node)
    BY <1>1, DepsLogAssumption DEF Call
<1>3. /\ Asked \in Seq(Node) /\ Len(Asked) = 1 + Len(call.ins) /\ Len(call.ins) \in Nat
      /\ Asked[1] = call.node
      /\ \A k \in 1..Len(call.ins) : Asked[k + 1] = call.ins[k]
    <2>1. <<call.node>> \in Seq(Node) /\ Len(<<call.node>>) = 1
        BY <1>2
    <2> QED
        BY <1>2, <2>1, ConcatProperties DEF Asked
<1>4. /\ DOMAIN Asked = 1..(1 + Len(call.ins)) /\ DOMAIN call.ins = 1..Len(call.ins)
    BY <1>2, <1>3
<1>5. \A k \in DOMAIN Asked : id_[Asked[k]] # None
    BY DEF Unnumbered
<1>6. \A h \in ToSet(call.ins) : h \in Node /\ id_[h] # None
    BY <1>2, <1>3, <1>4, <1>5 DEF ToSet
<1>7. id_[call.node] # None
    BY <1>3, <1>4, <1>5
<1> QED
    BY <1>1, <1>2, <1>6, <1>7 DEF LogInv, IdsInv

LEMMA LogNothingNew ==
    ASSUME LogInv, NothingNew
    PROVE  LogInv'
<1> USE DEF NothingNew, diskVars, memoryVars
<1>1. /\ call.node \in Output /\ ToSet(call.ins) \subseteq Node
      /\ \A h \in ToSet(call.ins) : \E i \in DOMAIN rows : rows[i].path = h
    BY AskedHaveRows
<1>2. TableInv'
    BY DEF LogInv, TableInv, RowIsRight
<1>3. IdsInv'
    BY DEF LogInv, IdsInv
<1>4. CallInv'
    BY DEF CallInv
<1>5. RecordedInv'
    BY <1>1 DEF LogInv, RecordedInv
<1>6. LatestInv'
    <2>1. call \in Call
        BY DEF LogInv, CallInv
    <2>2. [mtime |-> call.mtime, nodes |-> call.ins] \in Deps
        BY <2>1 DEF Call, Deps
    <2>3. GetDeps(call.node) = [mtime |-> call.mtime, nodes |-> call.ins]
        BY DEF SameDeps
    <2>4. \A p \in Output : GetDeps(p)' = GetDeps(p)
        BY DEF GetDeps
    <2> QED
        BY <1>1, <2>2, <2>3, <2>4 DEF LogInv, LatestInv, MemoryIsLatest
<1> QED
    BY <1>2, <1>3, <1>4, <1>5, <1>6 DEF LogInv

LEMMA LogUpdateDeps ==
    ASSUME LogInv, UpdateDeps
    PROVE  LogInv'
<1>0. PICK o \in Output : o = call.node
    BY AskedHaveRows DEF UpdateDeps, LogInv, CallInv
<1> DEFINE i == id_[o]
           d == [mtime |-> call.mtime, nodes |-> call.ins]
           L == Len(deps_)
           M == IF i > L THEN i ELSE L
<1>1. /\ i # None /\ ToSet(call.ins) \subseteq Node
      /\ \A h \in ToSet(call.ins) : \E j \in DOMAIN rows : rows[j].path = h
    BY <1>0, AskedHaveRows DEF UpdateDeps, LogInv, CallInv
<1>2. TableInv'
    BY DEF LogInv, TableInv, RowIsRight, UpdateDeps, diskVars
<1>3. IdsInv'
    BY DEF LogInv, IdsInv, UpdateDeps, diskVars
<1>4. CallInv'
    BY DEF CallInv, UpdateDeps
<1>5. RecordedInv'
    BY <1>0, <1>1 DEF LogInv, RecordedInv, UpdateDeps, diskVars
<1>6. LatestInv'
    <2>1. /\ id_ \in [Node -> Nat] /\ o \in Node /\ call \in Call /\ up
          /\ \A n, m \in Node : id_[n] # None /\ id_[n] = id_[m] => n = m
        BY <1>1, DepsLogAssumption DEF LogInv, IdsInv, CallInv, UpdateDeps
    <2>2. d \in Deps
        BY <2>1 DEF Call, Deps
    <2>3. deps_ \in Seq(Deps \cup {NoDeps}) /\ L \in Nat /\ DOMAIN deps_ = 1..L
        BY DEF LogInv, LatestInv
    <2>4. i \in Nat /\ i >= 1 /\ M \in Nat /\ i <= M /\ L <= M
        BY <1>1, <2>1, <2>3 DEF None
    <2>5. deps_' = [k \in 1..M |-> IF k = i THEN d
                                   ELSE IF k \in DOMAIN deps_ THEN deps_[k] ELSE NoDeps]
        BY <1>0 DEF UpdateDeps
    <2>6. deps_' \in Seq(Deps \cup {NoDeps}) /\ Len(deps_') = M
        <3>1. \A k \in DOMAIN deps_ : deps_[k] \in Deps \cup {NoDeps}
            BY <2>3
        <3>2. \A k \in 1..M : deps_'[k] \in Deps \cup {NoDeps}
            BY <2>2, <2>5, <3>1
        <3> HIDE DEF M, d
        <3> QED
            BY <2>4, <2>5, <3>2
    <2>7. id_' = id_ /\ up' = up
        BY DEF UpdateDeps
    <2>8. latest' \in [Output -> Deps \cup {NoDeps}]
          /\ latest'[o] = d
          /\ \A p \in Output \ {o} : latest'[p] = latest[p]
        BY <1>0, <2>2 DEF LogInv, LatestInv, UpdateDeps
    <2>9. GetDeps(o)' = d
        <3>1. deps_'[i] = d
            BY <2>4, <2>5
        <3> HIDE DEF M, d
        <3>2. id_'[o] # None /\ ~(id_'[o] > Len(deps_'))
            BY <1>1, <2>4, <2>6, <2>7
        <3>3. deps_'[id_'[o]] = d
            BY <2>7, <3>1
        <3> QED
            BY <3>2, <3>3 DEF GetDeps
    <2>10. ASSUME NEW p \in Output \ {o}, latest[p] # NoDeps
           PROVE  GetDeps(p)' = latest[p]
        <3>1. GetDeps(p) = latest[p] /\ p \in Node
            BY <2>1, <2>10, DepsLogAssumption DEF LogInv, LatestInv, MemoryIsLatest
        <3>2. id_[p] # None /\ ~(id_[p] > L) /\ deps_[id_[p]] = latest[p]
            BY <2>10, <3>1 DEF GetDeps
        <3>3. id_[p] # i /\ id_[p] \in 1..L
            BY <2>1, <2>3, <2>10, <3>1, <3>2 DEF None
        <3>4. id_[p] \in 1..M /\ id_[p] \in DOMAIN deps_
            BY <2>3, <2>4, <3>3
        <3>5. deps_'[id_[p]] = latest[p]
            BY <2>5, <3>2, <3>3, <3>4
        <3> HIDE DEF M
        <3>6. id_'[p] # None /\ ~(id_'[p] > Len(deps_'))
            BY <2>1, <2>4, <2>6, <2>7, <3>1, <3>2, <3>4
        <3> QED
            BY <2>7, <3>5, <3>6 DEF GetDeps
    <2> HIDE DEF d
    <2>11. \A p \in Output : latest'[p] # NoDeps => GetDeps(p)' = latest'[p]
        BY <2>8, <2>9, <2>10
    <2> QED
        BY <2>6, <2>8, <2>11 DEF LatestInv, MemoryIsLatest
<1> QED
    BY <1>2, <1>3, <1>4, <1>5, <1>6 DEF LogInv

LEMMA LogDown ==
    ASSUME LogInv, Down
    PROVE  LogInv'
<1> USE DEF Down, diskVars
<1>1. TableInv'
    BY DEF LogInv, TableInv, RowIsRight
<1>2. IdsInv'
    BY DEF IdsInv, None
<1>3. CallInv'
    BY DEF CallInv
<1>4. RecordedInv'
    BY DEF LogInv, RecordedInv
<1>5. LatestInv'
    BY DEF LogInv, LatestInv, MemoryIsLatest
<1> QED
    BY <1>1, <1>2, <1>3, <1>4, <1>5 DEF LogInv

LEMMA LogNext == LogInv /\ [Next]_vars => LogInv'
<1> SUFFICES ASSUME LogInv, [Next]_vars PROVE LogInv'
    OBVIOUS
<1>1. CASE Load
    BY <1>1, LogLoad
<1>2. CASE LoadPanics \/ OpenConn \/ CreateTable \/ Sign \/ SignalClose
    BY <1>2, LogUntouched
        DEF LoadPanics, OpenConn, CreateTable, Sign, SignalClose, diskVars
<1>3. ASSUME NEW o \in Output, NEW m \in Mtimes, NEW ins \in DepLists, RecordDeps(o, m, ins)
      PROVE  LogInv'
    BY <1>3, LogRecordDeps
<1>4. CASE RecordIdChecked
    BY <1>4, LogMoveOn DEF RecordIdChecked, diskVars
<1>5. CASE RecordId
    BY <1>5, LogRecordId
<1>6. CASE NothingNew
    BY <1>6, LogNothingNew
<1>7. CASE SomethingNew
    BY <1>7, LogMoveOn DEF SomethingNew, diskVars
<1>8. CASE UpdateDeps
    BY <1>8, LogUpdateDeps
<1>9. CASE Exit \/ ClosedUnderneath
    BY <1>9, LogDown DEF Exit, ClosedUnderneath
<1>10. CASE UNCHANGED vars
    BY <1>10, LogUntouched DEF vars, memoryVars, history
<1> QED
    BY <1>1, <1>2, <1>3, <1>4, <1>5, <1>6, <1>7, <1>8, <1>9, <1>10 DEF Next

LEMMA LogInvariant == Spec => []LogInv
<1> QED
    BY LogInit, LogNext, PTL DEF Spec

-----------------------------------------------------------------------------
(* The theorems *)

\* Load never reports a dependency that no depfile of that output has named: a row's
\* parent is an output that was told of it, or the row is of an output itself.
THEOREM NoInventedDepsHolds == Spec => []NoInventedDeps
<1>1. LogInv => NoInventedDeps
    <2> SUFFICES ASSUME LogInv, NEW o \in Output, RowNumber(o) # None
                 PROVE  ToSet(LoadedDeps(RowNumber(o)).nodes) \subseteq told[o]
        BY DEF NoInventedDeps
    <2> DEFINE i == RowNumber(o)
    <2>1. i \in DOMAIN rows /\ rows[i].path = o /\ i \in Nat /\ i # None
        BY RowNumberIs, DepsLogAssumption DEF LogInv
    <2> HIDE DEF i
    <2>2. ToSet(LoadedDeps(i).nodes) = {rows[k].path : k \in Children(i)}
        BY <2>1, LoadedAreChildren DEF LogInv, TableInv
    <2>3. ASSUME NEW k \in Children(i) PROVE rows[k].path \in told[o]
        BY <2>1 DEF Children, LogInv, TableInv, RowIsRight
    <2> QED
        BY <2>2, <2>3 DEF i
<1> QED
    BY <1>1, LogInvariant, PTL

\* Every input that a finished RecordDeps has named is still a dependency of that output
\* for every later process, unless another output has named it too or it is an output.
THEOREM UnsharedDepsSurviveHolds == Spec => []UnsharedDepsSurvive
<1>1. LogInv => UnsharedDepsSurvive
    <2> SUFFICES ASSUME LogInv, NEW o \in Output, NEW h \in recorded[o]
                 PROVE  /\ RowNumber(h) # None
                        /\ h \notin Output /\ (\A p \in Output \ {o} : h \notin told[p])
                             => h \in ToSet(LoadedDeps(RowNumber(o)).nodes)
        BY DEF UnsharedDepsSurvive
    <2>1. PICK k \in DOMAIN rows : rows[k].path = h
        BY DEF LogInv, RecordedInv
    <2>2. /\ DOMAIN rows = 1..Len(rows) /\ Len(rows) \in Nat /\ h \in Node
          /\ \A i \in DOMAIN rows : rows[i].path \in Node /\ rows[i].pid \in Nat
        BY <2>1, RowTypes DEF LogInv, TableInv
    <2>3. RowNumber(h) # None
        BY <2>1, <2>2, RowNumberIs DEF LogInv, None
    <2>4. ASSUME h \notin Output, \A p \in Output \ {o} : h \notin told[p]
          PROVE  h \in ToSet(LoadedDeps(RowNumber(o)).nodes)
        <3> DEFINE i == rows[k].pid
        <3>1. i # None /\ i \in DOMAIN rows /\ rows[i].path \in Output /\ h \in told[rows[i].path]
            BY <2>1, <2>4 DEF LogInv, TableInv, RowIsRight
        <3>2. rows[i].path = o
            BY <2>4, <3>1
        <3>3. RowNumber(o) = i
            BY <3>1, <3>2, RowNumberIs, DepsLogAssumption DEF LogInv
        <3>4. k \in Children(i)
            BY DEF Children
        <3>5. ToSet(LoadedDeps(i).nodes) = {rows[j].path : j \in Children(i)}
            BY <2>2, <3>1, LoadedAreChildren DEF LogInv, TableInv
        <3> QED
            BY <2>1, <3>3, <3>4, <3>5
    <2> QED
        BY <2>3, <2>4
<1> QED
    BY <1>1, LogInvariant, PTL

\* What RecordDeps was last told of an output is what GetDeps answers for the rest of the
\* process, also when it found nothing new to write.
THEOREM MemoryIsLatestHolds == Spec => []MemoryIsLatest
<1>1. LogInv => MemoryIsLatest
    BY DEF LogInv, LatestInv
<1> QED
    BY <1>1, LogInvariant, PTL
=============================================================================
