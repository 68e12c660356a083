--------------------------- MODULE ManifestProofs ---------------------------
(***************************************************************************)
(* What the parser leaves, for every set of files, nesting of includes and *)
(* command line: scopes that do not leak, nodes and edges that agree, and  *)
(* roots that reach what they should.                                      *)
(***************************************************************************)
EXTENDS ManifestParser, FiniteSetTheorems, SequenceTheorems, WellFoundedInduction, TLAPS

\* An activation reads a file there is, in a scope there is.
FrameInv(i) ==
    /\ DOMAIN frames[i] = {"file", "pos", "env", "saved"}
    /\ frames[i].file \in Files /\ frames[i].pos \in Nat \ {0}
    /\ frames[i].env \in DOMAIN envs

FramesInv ==
    /\ program \in Programs
    /\ IsSeq(frames) /\ IsSeq(envs)
    /\ status = "parse" => Len(frames) # 0
    /\ \A i \in DOMAIN frames : FrameInv(i)

\* Scopes are made inwards, and that of a subninja is new.
ScopesInv ==
    /\ \A i, j \in DOMAIN frames : i <= j => frames[i].env <= frames[j].env
    /\ \A i \in DOMAIN frames : frames[i].saved # {} =>
           /\ i - 1 \in DOMAIN frames
           /\ frames[i - 1].env < frames[i].env
           /\ frames[i].saved = {envs[frames[i - 1].env]}

\* No scope but that of the innermost file changes.
ScopesKept ==
    /\ IsSeq(envs') /\ Len(envs) <= Len(envs')
    /\ \A s \in DOMAIN envs : s # Top.env => envs'[s] = envs[s]

-----------------------------------------------------------------------------
(* Sequences *)

LEMMA SeqParts ==
    ASSUME NEW s
    PROVE  IsSeq(s) <=> Len(s) \in Nat /\ s = [i \in 1..Len(s) |-> s[i]]
<1>1. ASSUME IsSeq(s) PROVE Len(s) \in Nat /\ s = [i \in 1..Len(s) |-> s[i]]
    BY <1>1 DEF IsSeq
<1>2. ASSUME Len(s) \in Nat, s = [i \in 1..Len(s) |-> s[i]] PROVE IsSeq(s)
    <2>1. \A i \in 1..Len(s) : s[i] \in ToSet(s)
        BY <1>2 DEF ToSet
    <2> QED
        BY <1>2, <2>1 DEF IsSeq
<1> QED
    BY <1>1, <1>2

LEMMA UpToNext ==
    ASSUME NEW n \in Nat
    PROVE  /\ \A i \in 1..(n + 1) : i \in 1..n \/ (i = n + 1 /\ i - 1 = n)
           /\ \A i \in 1..n : i \in 1..(n + 1) /\ n \in 1..n
           /\ \A i \in 1..(n - 1) : i \in 1..n
           /\ n # 0 => n \in 1..(n + 1) /\ n \in 1..n
    OBVIOUS

LEMMA SeqFacts ==
    ASSUME NEW s, IsSeq(s)
    PROVE  /\ Len(s) \in Nat /\ DOMAIN s = 1..Len(s) /\ s \in Seq(ToSet(s))
           /\ s = [i \in 1..Len(s) |-> s[i]]
           /\ s = <<>> <=> Len(s) = 0
    BY SeqParts DEF IsSeq

LEMMA IsSeqOf ==
    ASSUME NEW S, NEW s \in Seq(S)
    PROVE  IsSeq(s)
    BY SeqParts

LEMMA Appended ==
    ASSUME NEW s, IsSeq(s), NEW x
    PROVE  /\ IsSeq(Append(s, x)) /\ Len(Append(s, x)) = Len(s) + 1
           /\ \A i \in 1..Len(s) : Append(s, x)[i] = s[i]
           /\ Append(s, x)[Len(s) + 1] = x
<1>1. s \in Seq(ToSet(s) \cup {x}) /\ Len(s) \in Nat
    <2>1. s \in Seq(ToSet(s)) /\ Len(s) \in Nat
        BY SeqFacts
    <2>2. ToSet(s) \subseteq ToSet(s) \cup {x}
        OBVIOUS
    <2> QED
        BY <2>1, <2>2, SeqMonotonic
<1>2. Append(s, x) \in Seq(ToSet(s) \cup {x})
    BY <1>1
<1>3. IsSeq(Append(s, x))
    BY <1>2, IsSeqOf
<1> QED
    BY <1>1, <1>3

LEMMA OneIsSeq ==
    ASSUME NEW x
    PROVE  IsSeq(<<x>>) /\ Len(<<x>>) = 1 /\ DOMAIN <<x>> = {1} /\ <<x>>[1] = x
<1>1. <<x>> \in Seq({x})
    OBVIOUS
<1>2. IsSeq(<<x>>)
    BY <1>1, IsSeqOf
<1> QED
    BY <1>2

LEMMA FunIsSeq ==
    ASSUME NEW s, NEW n \in Nat, s = [i \in 1..n |-> s[i]]
    PROVE  IsSeq(s) /\ Len(s) = n
<1>1. Len(s) = n
    OBVIOUS
<1> QED
    BY <1>1, SeqParts

LEMMA Fronted ==
    ASSUME NEW s, IsSeq(s), Len(s) # 0
    PROVE  /\ IsSeq(Front(s)) /\ Len(Front(s)) = Len(s) - 1
           /\ \A i \in 1..(Len(s) - 1) : Front(s)[i] = s[i]
<1>1. PICK n \in Nat : n = Len(s) - 1
    BY SeqFacts
<1>2. Front(s) = SubSeq(s, 1, n)
    BY <1>1 DEF Front
<1>3. Front(s) = [i \in 1..n |-> s[i]]
    BY <1>2
<1>4. Front(s) = [i \in 1..n |-> Front(s)[i]]
    BY <1>3
<1>5. IsSeq(Front(s)) /\ Len(Front(s)) = n
    BY <1>4, FunIsSeq
<1> QED
    BY <1>1, <1>3, <1>5

LEMMA Replaced ==
    ASSUME NEW s, IsSeq(s), NEW k, NEW x
    PROVE  /\ IsSeq([s EXCEPT ![k] = x]) /\ Len([s EXCEPT ![k] = x]) = Len(s)
           /\ \A i \in 1..Len(s) : i # k => [s EXCEPT ![k] = x][i] = s[i]
           /\ k \in 1..Len(s) => [s EXCEPT ![k] = x][k] = x
<1>1. PICK n \in Nat : n = Len(s) /\ DOMAIN s = 1..n
    BY SeqFacts
<1> DEFINE t == [s EXCEPT ![k] = x]
<1>2. t = [i \in 1..n |-> IF i = k THEN x ELSE s[i]]
    BY <1>1
<1>3. t = [i \in 1..n |-> t[i]]
    BY <1>2
<1>4. IsSeq(t) /\ Len(t) = n
    <2> HIDE DEF t
    <2> QED
        BY <1>3, FunIsSeq
<1> QED
    BY <1>1, <1>2, <1>4

-----------------------------------------------------------------------------
(* How often something occurs in a sequence *)

LEMMA LeastOne ==
    ASSUME NEW S \in SUBSET Nat, S # {}
    PROVE  \E x \in S : \A y \in S : x <= y
<1> DEFINE Less == {p \in Nat \X Nat : p[1] < p[2]}
<1>1. IsWellFoundedOn(Less, Nat)
    BY NatLessThanWellFounded DEF OpToRel
<1> HIDE DEF Less
<1>2. PICK x \in S : \A y \in S : ~(<<y, x>> \in Less)
    BY <1>1, WFMin
<1>3. ASSUME NEW y \in S PROVE x <= y
    <2>1. x \in Nat /\ y \in Nat
        OBVIOUS
    <2>2. ~(y < x)
        BY <1>2, <2>1 DEF Less
    <2> QED
        BY <2>1, <2>2
<1> QED
    BY <1>3

LEMMA ConcatIs ==
    ASSUME NEW u, IsSeq(u), NEW v, IsSeq(v)
    PROVE  /\ IsSeq(u \o v) /\ Len(u \o v) = Len(u) + Len(v)
           /\ \A j \in 1..(Len(u) + Len(v)) :
                  (u \o v)[j] = IF j <= Len(u) THEN u[j] ELSE v[j - Len(u)]
<1>1. PICK S : u \in Seq(S) /\ v \in Seq(S)
    <2>1. u \in Seq(ToSet(u)) /\ v \in Seq(ToSet(v))
        BY SeqFacts
    <2>2. u \in Seq(ToSet(u) \cup ToSet(v)) /\ v \in Seq(ToSet(u) \cup ToSet(v))
        <3> HIDE DEF ToSet
        <3> QED
            BY <2>1, SeqMonotonic
    <2> QED
        BY <2>2
<1>2. /\ u \o v \in Seq(S) /\ Len(u \o v) = Len(u) + Len(v)
      /\ \A j \in 1..(Len(u) + Len(v)) :
             (u \o v)[j] = IF j <= Len(u) THEN u[j] ELSE v[j - Len(u)]
    BY <1>1, ConcatProperties
<1>3. IsSeq(u \o v)
    BY <1>2, IsSeqOf
<1> QED
    BY <1>2, <1>3

\* Where x occurs in s.
Positions(x, s) == {i \in DOMAIN s : s[i] = x}

LEMMA OccurrencesFacts ==
    ASSUME NEW s, IsSeq(s), NEW x
    PROVE  /\ IsFiniteSet(Positions(x, s)) /\ Occurrences(x, s) \in Nat
           /\ Occurrences(x, s) = 0 <=> x \notin ToSet(s)
<1>1. Len(s) \in Nat /\ DOMAIN s = 1..Len(s)
    BY SeqFacts
<1>2. Positions(x, s) \in SUBSET (1..Len(s))
    BY <1>1 DEF Positions
<1>3. IsFiniteSet(Positions(x, s))
    <2>1. IsFiniteSet(1..Len(s))
        BY <1>1, FS_Interval
    <2> QED
        BY <1>2, <2>1, FS_Subset
<1>4. Occurrences(x, s) = Cardinality(Positions(x, s))
    BY DEF Occurrences, Positions
<1>5. Positions(x, s) = {} <=> x \notin ToSet(s)
    BY DEF Positions, ToSet
<1> QED
    BY <1>3, <1>4, <1>5, FS_CardinalityType, FS_EmptySet

LEMMA OccursOnce ==
    ASSUME NEW s, IsSeq(s), NEW x \in ToSet(s),
           \A i, j \in DOMAIN s : i # j => s[i] # s[j]
    PROVE  Occurrences(x, s) = 1
<1>1. PICK i \in DOMAIN s : s[i] = x
    BY DEF ToSet
<1>2. Positions(x, s) = {i}
    BY <1>1 DEF Positions
<1> QED
    BY <1>2, FS_Singleton DEF Occurrences, Positions

LEMMA SamePositions ==
    ASSUME NEW s, NEW t, NEW x, Positions(x, s) = Positions(x, t)
    PROVE  Occurrences(x, s) = Occurrences(x, t)
    BY DEF Occurrences, Positions

LEMMA OccurrencesAppended ==
    ASSUME NEW s, IsSeq(s), NEW k \in Nat, NEW x, x \notin ToSet(s),
           NEW t, IsSeq(t), Len(t) = Len(s) + k,
           \A i \in 1..Len(s) : t[i] = s[i],
           \A i \in (Len(s) + 1)..(Len(s) + k) : t[i] = x
    PROVE  /\ ToSet(t) \subseteq ToSet(s) \cup {x}
           /\ Occurrences(x, t) = k
           /\ \A y : y # x => Occurrences(y, t) = Occurrences(y, s)
<1>1. PICK n \in Nat : n = Len(s) /\ DOMAIN s = 1..n
    BY SeqFacts
<1>3. /\ DOMAIN t = 1..(n + k)
      /\ \A i \in 1..n : i \in 1..(n + k) /\ t[i] = s[i]
      /\ \A i \in (n + 1)..(n + k) : i \in 1..(n + k) /\ t[i] = x
      /\ \A i \in 1..(n + k) : i \in 1..n \/ i \in (n + 1)..(n + k)
    <2>1. DOMAIN t = 1..(n + k)
        BY <1>1, SeqFacts
    <2> QED
        BY <1>1, <2>1
<1>5. ToSet(t) \subseteq ToSet(s) \cup {x}
    <2>1. ASSUME NEW i \in 1..(n + k) PROVE t[i] \in ToSet(s) \cup {x}
        <3>1. CASE i \in 1..n
            BY <1>1, <1>3, <3>1 DEF ToSet
        <3>2. CASE i \in (n + 1)..(n + k)
            BY <1>3, <3>2
        <3> QED
            BY <1>3, <3>1, <3>2
    <2> QED
        BY <1>3, <2>1 DEF ToSet
<1>6. Occurrences(x, t) = k
    <2>1. \A i \in 1..n : s[i] # x
        BY <1>1 DEF ToSet
    <2>2. {i \in DOMAIN t : t[i] = x} = (n + 1)..(n + k)
        BY <1>3, <2>1
    <2>3. Cardinality((n + 1)..(n + k)) = k
        BY FS_Interval
    <2> QED
        BY <2>2, <2>3 DEF Occurrences
<1>7. ASSUME NEW y, y # x PROVE Occurrences(y, t) = Occurrences(y, s)
    <2>1. Positions(y, t) = Positions(y, s)
        BY <1>1, <1>3, <1>7 DEF Positions
    <2> QED
        BY <2>1, SamePositions
<1> QED
    BY <1>5, <1>6, <1>7

\* What AddIn appends.
LEMMA AddInLemma ==
    ASSUME NEW s, IsSeq(s), NEW k \in Nat, NEW x, x \notin ToSet(s),
           NEW u, IsSeq(u), Len(u) = k, \A i \in 1..k : u[i] = x
    PROVE  /\ IsSeq(s \o u) /\ ToSet(s \o u) \subseteq ToSet(s) \cup {x}
           /\ Occurrences(x, s \o u) = k
           /\ \A y : y # x => Occurrences(y, s \o u) = Occurrences(y, s)
<1>1. PICK n \in Nat : n = Len(s)
    BY SeqFacts
<1>2. /\ IsSeq(s \o u) /\ Len(s \o u) = n + k
      /\ \A i \in 1..(n + k) : (s \o u)[i] = IF i <= n THEN s[i] ELSE u[i - n]
    <2>1. /\ IsSeq(s \o u) /\ Len(s \o u) = Len(s) + Len(u)
          /\ \A j \in 1..(Len(s) + Len(u)) :
                 (s \o u)[j] = IF j <= Len(s) THEN s[j] ELSE u[j - Len(s)]
        BY ConcatIs, Zenon
    <2> QED
        BY <1>1, <2>1
<1>3. ASSUME NEW i \in 1..n PROVE (s \o u)[i] = s[i]
    <2>1. i \in 1..(n + k) /\ i <= n
        OBVIOUS
    <2> QED
        BY <1>2, <2>1
<1>4. ASSUME NEW i \in (n + 1)..(n + k) PROVE (s \o u)[i] = x
    <2>1. i \in 1..(n + k) /\ ~(i <= n) /\ i - n \in 1..k
        OBVIOUS
    <2> QED
        BY <1>2, <2>1
<1>5. PICK t : t = s \o u
    OBVIOUS
<1>6. /\ IsSeq(t) /\ Len(t) = Len(s) + k
      /\ \A i \in 1..Len(s) : t[i] = s[i]
      /\ \A i \in (Len(s) + 1)..(Len(s) + k) : t[i] = x
    BY <1>1, <1>2, <1>3, <1>4, <1>5
<1>7. /\ ToSet(t) \subseteq ToSet(s) \cup {x}
      /\ Occurrences(x, t) = k
      /\ \A y : y # x => Occurrences(y, t) = Occurrences(y, s)
    BY <1>6, OccurrencesAppended
<1> QED
    BY <1>5, <1>6, <1>7

\* What is left of the inputs of an edge that named itself.
LEMMA RemoveFirstFacts ==
    ASSUME NEW s, IsSeq(s), NEW x, Contains(s, x)
    PROVE  LET t == RemoveFirst(s, x)
           IN  /\ IsSeq(t) /\ ToSet(t) \subseteq ToSet(s)
               /\ Occurrences(x, t) < Occurrences(x, s)
               /\ \A y : y # x => Occurrences(y, t) = Occurrences(y, s)
<1>1. PICK n \in Nat : n = Len(s) /\ DOMAIN s = 1..n
    BY SeqFacts
<1> DEFINE t == RemoveFirst(s, x)
           I == {i \in 1..Len(s) : s[i] = x}
<1>2. PICK k \in 1..n : s[k] = x /\ t = RemoveAt(s, k)
    <2>1. I \in SUBSET Nat /\ I # {}
        BY <1>1 DEF Contains
    <2>2. Min(I) \in I
        BY <2>1, LeastOne DEF Min
    <2>3. SelectInSeq(s, LAMBDA v : v = x) = Min(I)
        BY <2>1 DEF SelectInSeq
    <2>4. t = RemoveAt(s, Min(I))
        BY <2>3 DEF RemoveFirst, Contains
    <2>5. Min(I) \in 1..n /\ s[Min(I)] = x
        BY <1>1, <2>2
    <2> HIDE DEF I, t
    <2> QED
        BY <2>4, <2>5
<1> HIDE DEF t
<1>3. PICK m \in Nat : m = n - 1 /\ n = m + 1
    BY <1>2
<1>4. t = [j \in 1..m |-> IF j < k THEN s[j] ELSE s[j + 1]]
    <2>1. PICK p \in Nat : p = k - 1
        BY <1>2
    <2>2. PICK q \in Nat : q = n - k /\ p + q = m
        BY <1>2, <1>3, <2>1
    <2>3. PICK u : u = SubSeq(s, 1, p)
        OBVIOUS
    <2>4. PICK v : v = SubSeq(s, k + 1, n)
        OBVIOUS
    <2>5. u = [j \in 1..p |-> s[j]]
        BY <2>3
    <2>6. v = [j \in 1..q |-> s[k + j]]
        <3>1. n - (k + 1) + 1 = q /\ \A j \in 1..q : (k + 1) + j - 1 = k + j
            BY <2>2
        <3>2. v = [j \in 1..q |-> s[(k + 1) + j - 1]]
            BY <2>4, <3>1
        <3> QED
            BY <3>1, <3>2
    <2>7. IsSeq(u) /\ Len(u) = p
        <3>1. u = [j \in 1..p |-> u[j]]
            BY <2>5
        <3> QED
            BY <3>1, FunIsSeq
    <2>8. IsSeq(v) /\ Len(v) = q
        <3>1. v = [j \in 1..q |-> v[j]]
            BY <2>6
        <3> QED
            BY <3>1, FunIsSeq
    <2>9. t = u \o v
        BY <1>1, <1>2, <2>1, <2>3, <2>4 DEF RemoveAt
    <2>10. t = [j \in 1..m |-> IF j <= p THEN u[j] ELSE v[j - p]]
        <3>1. /\ IsSeq(t) /\ Len(t) = m
              /\ \A j \in 1..m : t[j] = IF j <= p THEN u[j] ELSE v[j - p]
            <4>1. /\ IsSeq(u \o v) /\ Len(u \o v) = Len(u) + Len(v)
                  /\ \A j \in 1..(Len(u) + Len(v)) :
                         (u \o v)[j] = IF j <= Len(u) THEN u[j] ELSE v[j - Len(u)]
                BY <2>7, <2>8, ConcatIs, Zenon
            <4> QED
                BY <2>2, <2>7, <2>8, <2>9, <4>1
        <3>2. t = [j \in 1..m |-> t[j]]
            BY <3>1, SeqFacts
        <3> QED
            BY <3>1, <3>2
    <2>11. ASSUME NEW j \in 1..m
           PROVE  (IF j <= p THEN u[j] ELSE v[j - p]) = (IF j < k THEN s[j] ELSE s[j + 1])
        <3>1. CASE j < k
            <4>1. j \in 1..p
                BY <2>1, <3>1
            <4> QED
                BY <2>5, <3>1, <4>1
        <3>2. CASE ~(j < k)
            <4>1. j - p \in 1..q /\ k + (j - p) = j + 1 /\ ~(j <= p)
                BY <1>2, <2>1, <2>2, <3>2
            <4> QED
                BY <2>6, <3>2, <4>1
        <3> QED
            BY <3>1, <3>2
    <2> QED
        BY <2>10, <2>11
<1>5. /\ DOMAIN t = 1..m
      /\ \A j \in 1..m : j < k => t[j] = s[j]
      /\ \A j \in 1..m : ~(j < k) => t[j] = s[j + 1]
      /\ t = [j \in 1..m |-> t[j]]
    BY <1>4
<1>6. IsSeq(t)
    BY <1>5, FunIsSeq
<1>7. ToSet(t) \subseteq ToSet(s)
    <2>1. \A j \in 1..m : j \in 1..n /\ j + 1 \in 1..n
        BY <1>3
    <2> QED
        BY <1>1, <1>5, <2>1 DEF ToSet
\* Where what follows the removed one comes from.
<1>8. ASSUME NEW y
      PROVE  ExistsBijection(Positions(y, s) \ {k}, Positions(y, t))
    <2> DEFINE S == Positions(y, s) \ {k}
               T == Positions(y, t)
               f == [i \in S |-> IF i < k THEN i ELSE i - 1]
    <2>1. ASSUME NEW i \in S PROVE f[i] \in T
        <3>1. i \in 1..n /\ s[i] = y /\ i # k
            BY <1>1 DEF Positions
        <3>2. CASE i < k
            <4>1. i \in 1..m
                BY <1>3, <3>1, <3>2
            <4> QED
                BY <1>5, <3>1, <3>2, <4>1 DEF Positions
        <3>3. CASE ~(i < k)
            <4>1. i - 1 \in 1..m /\ ~(i - 1 < k) /\ (i - 1) + 1 = i
                BY <1>2, <1>3, <3>1, <3>3
            <4> QED
                BY <1>5, <3>1, <3>3, <4>1 DEF Positions
        <3> QED
            BY <3>2, <3>3
    <2>2. ASSUME NEW i \in S, NEW j \in S, f[i] = f[j] PROVE i = j
        <3>1. i \in 1..n /\ i # k /\ j \in 1..n /\ j # k
            BY <1>1 DEF Positions
        <3> QED
            BY <1>2, <2>2, <3>1
    <2>3. ASSUME NEW j \in T PROVE \E i \in S : f[i] = j
        <3>1. j \in 1..m /\ t[j] = y
            BY <1>5 DEF Positions
        <3>2. CASE j < k
            <4>1. j \in 1..n /\ s[j] = y /\ j # k
                <5>1. j \in 1..n /\ j # k
                    BY <1>2, <1>3, <3>1, <3>2
                <5> QED
                    BY <1>5, <3>1, <3>2, <5>1
            <4> QED
                BY <1>1, <3>2, <4>1 DEF Positions
        <3>3. CASE ~(j < k)
            <4>1. j + 1 \in 1..n /\ s[j + 1] = y /\ j + 1 # k /\ ~(j + 1 < k) /\ (j + 1) - 1 = j
                <5>1. j + 1 \in 1..n /\ j + 1 # k /\ ~(j + 1 < k) /\ (j + 1) - 1 = j
                    BY <1>2, <1>3, <3>1, <3>3
                <5> QED
                    BY <1>5, <3>1, <3>3, <5>1
            <4>2. j + 1 \in S
                BY <1>1, <4>1 DEF Positions
            <4> QED
                BY <4>1, <4>2
        <3> QED
            BY <3>2, <3>3
    <2>4. f \in [S -> T]
        BY <2>1
    <2> HIDE DEF S, T, f
    <2>5. f \in Bijection(S, T)
        BY <2>2, <2>3, <2>4 DEF Bijection, Injection, Surjection, IsInjective
    <2> QED
        BY <2>5 DEF ExistsBijection, S, T
<1>9. ASSUME NEW y
      PROVE  Occurrences(y, t) = IF y = x THEN Occurrences(y, s) - 1 ELSE Occurrences(y, s)
    <2>1. IsFiniteSet(Positions(y, s))
        BY OccurrencesFacts
    <2>2. /\ IsFiniteSet(Positions(y, s) \ {k})
          /\ Cardinality(Positions(y, s) \ {k}) =
               IF k \in Positions(y, s) THEN Cardinality(Positions(y, s)) - 1
               ELSE Cardinality(Positions(y, s))
        BY <2>1, FS_RemoveElement
    <2>3. k \in Positions(y, s) <=> y = x
        BY <1>1, <1>2 DEF Positions
    <2>4. Cardinality(Positions(y, t)) = Cardinality(Positions(y, s) \ {k})
        BY <1>8, <2>2, FS_Bijection
    <2> QED
        BY <2>2, <2>3, <2>4 DEF Occurrences, Positions
<1>10. Occurrences(x, t) < Occurrences(x, s)
    BY <1>9, OccurrencesFacts
<1> QED
    BY <1>6, <1>7, <1>9, <1>10 DEF t

-----------------------------------------------------------------------------
(* Scopes *)

LEMMA AdvancedFacts ==
    ASSUME FramesInv, Len(frames) # 0
    PROVE  /\ IsSeq(Advanced) /\ Len(Advanced) = Len(frames)
           /\ \A i \in DOMAIN frames :
                  /\ DOMAIN Advanced[i] = DOMAIN frames[i]
                  /\ Advanced[i].env = frames[i].env
                  /\ Advanced[i].file = frames[i].file
                  /\ Advanced[i].saved = frames[i].saved
                  /\ Advanced[i].pos \in Nat \ {0}
<1>1. PICK n \in Nat : n = Len(frames) /\ n # 0 /\ DOMAIN frames = 1..n
    BY SeqFacts DEF FramesInv
<1>2. PICK top : top = [frames[n] EXCEPT !.pos = @ + 1]
    OBVIOUS
<1>3. Advanced = [frames EXCEPT ![n] = top]
    BY <1>1, <1>2 DEF Advanced
<1>4. /\ DOMAIN top = DOMAIN frames[n] /\ top.env = frames[n].env
      /\ top.file = frames[n].file /\ top.saved = frames[n].saved
      /\ top.pos \in Nat \ {0}
    <2>1. /\ DOMAIN frames[n] = {"file", "pos", "env", "saved"}
          /\ frames[n].pos \in Nat \ {0}
        BY <1>1 DEF FramesInv, FrameInv
    <2> QED
        BY <1>2, <2>1
<1>5. /\ IsSeq([frames EXCEPT ![n] = top]) /\ Len([frames EXCEPT ![n] = top]) = n
      /\ \A i \in 1..n : i # n => [frames EXCEPT ![n] = top][i] = frames[i]
      /\ [frames EXCEPT ![n] = top][n] = top
    <2>1. IsSeq(frames)
        BY DEF FramesInv
    <2>2. n \in 1..Len(frames)
        BY <1>1
    <2> QED
        BY <1>1, <2>1, <2>2, Replaced
<1>6. ASSUME NEW i \in DOMAIN frames
      PROVE  /\ DOMAIN Advanced[i] = DOMAIN frames[i]
             /\ Advanced[i].env = frames[i].env
             /\ Advanced[i].file = frames[i].file
             /\ Advanced[i].saved = frames[i].saved
             /\ Advanced[i].pos \in Nat \ {0}
    <2>1. CASE i = n
        BY <1>3, <1>4, <1>5, <2>1
    <2>2. CASE i # n
        <3>1. Advanced[i] = frames[i]
            BY <1>1, <1>3, <1>5, <2>2
        <3>2. frames[i].pos \in Nat \ {0}
            BY DEF FramesInv, FrameInv
        <3> QED
            BY <3>1, <3>2
    <2> QED
        BY <2>1, <2>2
<1>7. IsSeq(Advanced) /\ Len(Advanced) = Len(frames)
    BY <1>1, <1>3, <1>5
<1> QED
    BY <1>6, <1>7

LEMMA ScopesKeptFacts ==
    ASSUME FramesInv, ScopesInv, ScopesKept, Len(frames) # 0
    PROVE  /\ DOMAIN envs \subseteq DOMAIN envs'
           /\ Top = frames[Len(frames)]
           /\ Len(frames) \in DOMAIN frames
           /\ \A i \in DOMAIN frames : frames[i].saved # {} =>
                  frames[i].saved = {envs'[frames[i - 1].env]}
<1>1. DOMAIN envs = 1..Len(envs) /\ DOMAIN envs' = 1..Len(envs')
      /\ Len(envs) \in Nat /\ Len(envs') \in Nat /\ Len(envs) <= Len(envs')
      /\ DOMAIN frames = 1..Len(frames) /\ Len(frames) \in Nat
    BY SeqFacts DEF FramesInv, ScopesKept
<1>2. Top = frames[Len(frames)]
    BY DEF Top, Last
<1>3. Len(frames) \in DOMAIN frames
    BY <1>1
<1>4. ASSUME NEW i \in DOMAIN frames, frames[i].saved # {}
      PROVE  frames[i].saved = {envs'[frames[i - 1].env]}
    <2>1. /\ i - 1 \in DOMAIN frames /\ frames[i - 1].env < frames[i].env
          /\ frames[i].saved = {envs[frames[i - 1].env]}
        BY <1>4 DEF ScopesInv
    <2>2. frames[i].env <= Top.env
        BY <1>1, <1>2, <1>3 DEF ScopesInv
    <2>3. frames[i - 1].env \in DOMAIN envs /\ Top.env \in DOMAIN envs
          /\ frames[i].env \in DOMAIN envs
        BY <1>2, <1>3, <2>1 DEF FramesInv, FrameInv
    <2>4. frames[i - 1].env # Top.env
        BY <1>1, <2>1, <2>2, <2>3
    <2> QED
        BY <2>1, <2>3, <2>4 DEF ScopesKept
<1>5. DOMAIN envs \subseteq DOMAIN envs'
    BY <1>1
<1> QED
    BY <1>2, <1>3, <1>4, <1>5

\* A statement that goes on in the same file.
LEMMA StepInFile ==
    ASSUME FramesInv, ScopesInv, ScopesKept, Len(frames) # 0,
           frames' = Advanced, program' = program
    PROVE  FramesInv' /\ ScopesInv'
<1>1. /\ DOMAIN envs \subseteq DOMAIN envs'
      /\ \A i \in DOMAIN frames : frames[i].saved # {} =>
             frames[i].saved = {envs'[frames[i - 1].env]}
    BY ScopesKeptFacts
<1>2. /\ IsSeq(frames') /\ Len(frames') = Len(frames) /\ DOMAIN frames' = DOMAIN frames
      /\ IsSeq(envs')
    BY AdvancedFacts, SeqFacts DEF FramesInv, ScopesKept
<1>3. \A i \in DOMAIN frames :
          /\ DOMAIN frames'[i] = DOMAIN frames[i]
          /\ frames'[i].env = frames[i].env /\ frames'[i].file = frames[i].file
          /\ frames'[i].saved = frames[i].saved /\ frames'[i].pos \in Nat \ {0}
    BY AdvancedFacts
<1>4. FramesInv'
    <2>1. ASSUME NEW i \in DOMAIN frames PROVE FrameInv(i)'
        BY <1>1, <1>2, <1>3, <2>1 DEF FramesInv, FrameInv, Files
    <2>2. program' \in Programs
        BY DEF FramesInv
    <2> QED
        BY <1>2, <2>1, <2>2 DEF FramesInv
<1>5. ScopesInv'
    <2>1. ASSUME NEW i \in DOMAIN frames', NEW j \in DOMAIN frames', i <= j
          PROVE  frames'[i].env <= frames'[j].env
        BY <1>2, <1>3, <2>1 DEF ScopesInv
    <2>2. ASSUME NEW i \in DOMAIN frames', frames'[i].saved # {}
          PROVE  /\ i - 1 \in DOMAIN frames' /\ frames'[i - 1].env < frames'[i].env
                 /\ frames'[i].saved = {envs'[frames'[i - 1].env]}
        BY <1>1, <1>2, <1>3, <2>2 DEF ScopesInv
    <2> QED
        BY <2>1, <2>2 DEF ScopesInv
<1> QED
    BY <1>4, <1>5

\* A file that is included, or read in a scope of its own.
LEMMA StepIntoFile ==
    ASSUME FramesInv, ScopesInv, ScopesKept, Len(frames) # 0, program' = program,
           NEW new, frames' = Append(Advanced, new),
           DOMAIN new = {"file", "pos", "env", "saved"},
           new.file \in Files, new.pos = 1, new.env \in DOMAIN envs',
           \/ new.saved = {} /\ new.env = Top.env
           \/ new.saved = {envs'[Top.env]} /\ new.env = Len(envs) + 1
    PROVE  FramesInv' /\ ScopesInv'
<1>1. /\ DOMAIN envs \subseteq DOMAIN envs' /\ Top = frames[Len(frames)]
      /\ Len(frames) \in DOMAIN frames
      /\ \A i \in DOMAIN frames : frames[i].saved # {} =>
             frames[i].saved = {envs'[frames[i - 1].env]}
    BY ScopesKeptFacts
<1>2. PICK n \in Nat \ {0} : n = Len(frames) /\ DOMAIN frames = 1..n
    BY SeqFacts DEF FramesInv
<1>3. PICK m \in Nat : m = Len(envs) /\ DOMAIN envs = 1..m
    BY SeqFacts DEF FramesInv
<1>4. IsSeq(Advanced) /\ Len(Advanced) = n
    BY <1>2, AdvancedFacts
<1>5. /\ IsSeq(frames') /\ DOMAIN frames' = 1..(n + 1) /\ Len(frames') # 0
      /\ \A i \in 1..n : frames'[i] = Advanced[i]
      /\ frames'[n + 1] = new
    <2>1. /\ IsSeq(frames') /\ Len(frames') = n + 1
          /\ \A i \in 1..n : frames'[i] = Advanced[i]
          /\ frames'[n + 1] = new
        BY <1>4, Appended
    <2> QED
        BY <2>1, SeqFacts
<1>6. \A i \in 1..n :
          /\ DOMAIN frames'[i] = {"file", "pos", "env", "saved"}
          /\ frames'[i].env = frames[i].env /\ frames'[i].file \in Files
          /\ frames'[i].saved = frames[i].saved /\ frames'[i].pos \in Nat \ {0}
    BY <1>2, <1>5, AdvancedFacts DEF FramesInv, FrameInv
<1>7. \A i \in 1..n : frames[i].env \in 1..m /\ frames[i].env <= Top.env
    BY <1>1, <1>2, <1>3 DEF FramesInv, FrameInv, ScopesInv
<1>8. FramesInv'
    <2>1. ASSUME NEW i \in 1..(n + 1) PROVE FrameInv(i)'
        <3>1. CASE i = n + 1
            BY <1>5, <3>1 DEF FrameInv, Files
        <3>2. CASE i \in 1..n
            BY <1>1, <1>3, <1>6, <1>7, <3>2 DEF FrameInv, Files
        <3> QED
            BY <2>1, <3>1, <3>2
    <2>2. program' \in Programs /\ IsSeq(envs')
        BY DEF FramesInv, ScopesKept
    <2> QED
        BY <1>5, <2>1, <2>2 DEF FramesInv
<1>9. Top.env \in 1..m /\ Top.env <= new.env /\ (new.saved # {} => Top.env < new.env)
    BY <1>1, <1>2, <1>3, <1>7
<1>10. ASSUME NEW i \in 1..(n + 1), NEW j \in 1..(n + 1), i <= j
       PROVE  frames'[i].env <= frames'[j].env
    <2>1. CASE j \in 1..n
        <3>1. i \in 1..n
            BY <1>10, <2>1
        <3> QED
            BY <1>2, <1>6, <1>10, <2>1, <3>1 DEF ScopesInv
    <2>2. CASE j = n + 1 /\ i \in 1..n
        <3>1. frames'[i].env \in 1..m /\ frames'[i].env <= Top.env
            BY <1>6, <1>7, <2>2
        <3>2. new.env = Top.env \/ new.env = m + 1
            BY <1>3
        <3> QED
            BY <1>5, <1>9, <2>2, <3>1, <3>2
    <2>3. CASE j = n + 1 /\ i = n + 1
        <3>1. new.env = Top.env \/ new.env = m + 1
            BY <1>3
        <3> QED
            BY <1>5, <1>9, <2>3, <3>1
    <2>4. (i \in 1..n \/ i = n + 1) /\ (j \in 1..n \/ j = n + 1)
        BY UpToNext
    <2> QED
        BY <2>1, <2>2, <2>3, <2>4, Zenon
<1>11. ASSUME NEW i \in 1..(n + 1), frames'[i].saved # {}
       PROVE  /\ i - 1 \in 1..(n + 1) /\ frames'[i - 1].env < frames'[i].env
              /\ frames'[i].saved = {envs'[frames'[i - 1].env]}
    <2>1. CASE i \in 1..n
        <3>1. i - 1 \in 1..n /\ frames[i - 1].env < frames[i].env
            BY <1>2, <1>6, <1>11, <2>1 DEF ScopesInv
        <3>2. frames'[i].saved = {envs'[frames[i - 1].env]}
            BY <1>1, <1>2, <1>6, <1>11, <2>1
        <3>3. i - 1 \in 1..(n + 1)
            BY <3>1, UpToNext
        <3>4. frames'[i - 1].env = frames[i - 1].env /\ frames'[i].env = frames[i].env
            BY <1>6, <2>1, <3>1
        <3> QED
            BY <3>1, <3>2, <3>3, <3>4
    <2>2. CASE i = n + 1
        <3>1. i - 1 = n /\ n \in 1..n /\ n \in 1..(n + 1)
            BY <2>2, UpToNext
        <3>2. frames'[n].env = Top.env
            BY <1>1, <1>2, <1>6, <3>1
        <3> QED
            BY <1>5, <1>9, <1>11, <2>2, <3>1, <3>2
    <2>3. i \in 1..n \/ i = n + 1
        BY UpToNext
    <2> QED
        BY <2>1, <2>2, <2>3, Zenon
<1>12. ScopesInv'
    BY <1>5, <1>10, <1>11 DEF ScopesInv
<1> QED
    BY <1>8, <1>12

\* The file that includes goes on.
LEMMA StepOutOfFile ==
    ASSUME FramesInv, ScopesInv, Len(frames) # 0, EndOfFile
    PROVE  FramesInv' /\ ScopesInv'
<1>1. PICK n \in Nat \ {0} : n = Len(frames) /\ DOMAIN frames = 1..n
    BY SeqFacts DEF FramesInv
<1>2. /\ frames' = Front(frames) /\ program' = program /\ envs' = envs
      /\ status' = IF n = 1 THEN "loaded" ELSE "parse"
    BY <1>1 DEF EndOfFile
<1>3. /\ IsSeq(frames') /\ Len(frames') = n - 1
      /\ \A i \in 1..(n - 1) : frames'[i] = frames[i]
    BY <1>1, <1>2, Fronted DEF FramesInv
<1>4. DOMAIN frames' = 1..(n - 1)
    BY <1>3, SeqFacts
<1>5. FramesInv'
    <2>1. ASSUME NEW i \in 1..(n - 1) PROVE FrameInv(i)'
        <3>1. FrameInv(i)
            BY <1>1, <2>1 DEF FramesInv
        <3> QED
            BY <1>2, <1>3, <3>1 DEF FrameInv, Files
    <2>2. status' = "parse" => Len(frames') # 0
        BY <1>2, <1>3
    <2> QED
        BY <1>2, <1>3, <1>4, <2>1, <2>2 DEF FramesInv
<1>6. ScopesInv'
    <2>1. \A i \in 1..(n - 1) : i \in 1..n
        BY UpToNext
    <2>2. ASSUME NEW i \in 1..(n - 1), NEW j \in 1..(n - 1), i <= j
          PROVE  frames'[i].env <= frames'[j].env
        BY <1>1, <1>3, <2>1, <2>2 DEF ScopesInv
    <2>3. ASSUME NEW i \in 1..(n - 1), frames'[i].saved # {}
          PROVE  /\ i - 1 \in 1..(n - 1) /\ frames'[i - 1].env < frames'[i].env
                 /\ frames'[i].saved = {envs'[frames'[i - 1].env]}
        <3>1. /\ i - 1 \in 1..n /\ frames[i - 1].env < frames[i].env
              /\ frames[i].saved = {envs[frames[i - 1].env]}
            BY <1>1, <1>3, <2>1, <2>3 DEF ScopesInv
        <3>2. i - 1 \in 1..(n - 1)
            BY <3>1
        <3>3. frames'[i - 1] = frames[i - 1] /\ frames'[i] = frames[i]
            BY <1>3, <3>2
        <3> QED
            BY <1>2, <3>1, <3>2, <3>3
    <2> QED
        BY <1>4, <2>2, <2>3 DEF ScopesInv
<1> QED
    BY <1>5, <1>6

LEMMA KeptReplaced ==
    ASSUME FramesInv, NEW x, envs' = [envs EXCEPT ![Top.env] = x]
    PROVE  ScopesKept
<1>1. PICK m \in Nat : m = Len(envs) /\ DOMAIN envs = 1..m
    BY SeqFacts DEF FramesInv
<1>2. /\ IsSeq(envs') /\ Len(envs') = m
      /\ \A s \in 1..m : s # Top.env => envs'[s] = envs[s]
    BY <1>1, Replaced DEF FramesInv
<1> QED
    BY <1>1, <1>2 DEF ScopesKept

LEMMA KeptSame ==
    ASSUME FramesInv, envs' = envs
    PROVE  ScopesKept
    BY SeqFacts DEF FramesInv, ScopesKept

LEMMA KeptAppended ==
    ASSUME FramesInv, NEW x, envs' = Append(envs, x)
    PROVE  ScopesKept /\ Len(envs') = Len(envs) + 1 /\ \A s \in DOMAIN envs : envs'[s] = envs[s]
<1>1. PICK m \in Nat : m = Len(envs) /\ DOMAIN envs = 1..m
    BY SeqFacts DEF FramesInv
<1>2. /\ IsSeq(envs') /\ Len(envs') = m + 1
      /\ \A s \in 1..m : envs'[s] = envs[s]
    BY <1>1, Appended DEF FramesInv
<1> QED
    BY <1>1, <1>2 DEF ScopesKept

\* A step that stays where it is, or is the last.
LEMMA StepAside ==
    ASSUME FramesInv, ScopesInv, UNCHANGED <<program, frames, envs>>,
           status' # "parse" \/ status' = status
    PROVE  FramesInv' /\ ScopesInv'
    BY DEF FramesInv, ScopesInv, FrameInv, Files

LEMMA ScopesStep ==
    ASSUME FramesInv, ScopesInv, [Next]_vars
    PROVE  FramesInv' /\ ScopesInv'
<1> DEFINE top == Top.env
<1>1. \A kind : Read(kind) => Len(frames) # 0
    BY DEF Read, FramesInv
<1>2. \A how : Ends(how) => UNCHANGED <<program, frames, envs>> /\ status' = how
    BY DEF Ends
<1>3. CASE ParseBad
    BY <1>2, <1>3, StepAside DEF ParseBad
<1>4. CASE ParseLet
    <2>1. \E x : envs' = [envs EXCEPT ![Top.env] = x]
        BY <1>4 DEF ParseLet
    <2> QED
        BY <1>1, <1>4, <2>1, KeptReplaced, StepInFile DEF ParseLet
<1>5. CASE ParsePool
    BY <1>1, <1>2, <1>5, StepAside, KeptSame, StepInFile DEF ParsePool
<1>6. CASE ParseRule
    <2>1. CASE RuleIsRefused(Statement)
        BY <1>2, <1>6, <2>1, StepAside DEF ParseRule
    <2>2. CASE ~RuleIsRefused(Statement)
        <3>1. \E x : envs' = [envs EXCEPT ![Top.env] = x]
            BY <1>6, <2>2 DEF ParseRule
        <3> QED
            BY <1>1, <1>6, <2>2, <3>1, KeptReplaced, StepInFile DEF ParseRule
    <2> QED
        BY <2>1, <2>2
<1>7. CASE ParseEdge
    <2>1. CASE EdgeVerdict(Statement) # "added"
        <3>1. EdgeVerdict(Statement) # "parse"
            BY DEF EdgeVerdict
        <3> QED
            BY <1>2, <1>7, <2>1, <3>1, StepAside DEF ParseEdge
    <2>2. CASE EdgeVerdict(Statement) = "added"
        <3>1. envs' = envs \/ \E x : envs' = Append(envs, x)
            BY <1>7, <2>2 DEF ParseEdge, EdgeScopes
        <3> QED
            BY <1>1, <1>7, <2>2, <3>1, KeptSame, KeptAppended, StepInFile DEF ParseEdge
    <2> QED
        BY <2>1, <2>2
<1>8. CASE ParseDefault
    BY <1>1, <1>2, <1>8, StepAside, KeptSame, StepInFile DEF ParseDefault
<1>9. ASSUME NEW kind \in {"include", "subninja"}, ParseFileInclude(kind)
      PROVE  FramesInv' /\ ScopesInv'
    <2> DEFINE file == Evaluated(Statement.paths[1], Top.env)
               env  == IF NewScope(kind) THEN Len(envs) + 1 ELSE Top.env
               saved == IF kind = "subninja" THEN {envs[Top.env]} ELSE {}
               new  == [file |-> file, pos |-> 1, env |-> env, saved |-> saved]
    <2>1. CASE file \notin Files \/ (file \in Files /\ Len(frames) = MaxDepth)
        <3>1. Ends("error") \/ Ends("overflow")
            BY <1>9, <2>1 DEF ParseFileInclude
        <3> QED
            BY <1>2, <3>1, StepAside
    <2>2. CASE file \in Files /\ Len(frames) # MaxDepth
        <3>1. /\ frames' = Append(Advanced, new) /\ program' = program
              /\ envs' = IF kind = "subninja" THEN Append(envs, NewBindingEnv(Top.env)) ELSE envs
              /\ Len(frames) # 0
            BY <1>1, <1>9, <2>2 DEF ParseFileInclude, NewScope
        <3>2. top \in DOMAIN envs /\ DOMAIN envs = 1..Len(envs) /\ Len(envs) \in Nat
            <4>1. /\ DOMAIN envs = 1..Len(envs) /\ Len(envs) \in Nat
                  /\ DOMAIN frames = 1..Len(frames) /\ Len(frames) \in Nat
                BY SeqFacts DEF FramesInv
            <4>2. Len(frames) \in DOMAIN frames
                BY <3>1, <4>1
            <4> QED
                BY <4>1, <4>2 DEF FramesInv, FrameInv, Top, Last
        <3>3. CASE kind = "subninja"
            <4>1. /\ ScopesKept /\ Len(envs') = Len(envs) + 1 /\ envs'[top] = envs[top]
                BY <3>1, <3>2, <3>3, KeptAppended
            <4>2. DOMAIN envs' = 1..Len(envs')
                BY <4>1, SeqFacts DEF ScopesKept
            <4>3. env = Len(envs) + 1 /\ env \in DOMAIN envs' /\ saved = {envs'[top]}
                BY <3>2, <3>3, <4>1, <4>2 DEF NewScope
            <4> HIDE DEF file, env, saved
            <4>4. /\ DOMAIN new = {"file", "pos", "env", "saved"}
                  /\ new.file = file /\ new.pos = 1 /\ new.env = env /\ new.saved = saved
                OBVIOUS
            <4> HIDE DEF new
            <4> QED
                BY <2>2, <3>1, <4>1, <4>3, <4>4, StepIntoFile
        <3>4. CASE kind # "subninja"
            <4>1. ScopesKept /\ envs' = envs
                BY <3>1, <3>4, KeptSame
            <4>2. env = top /\ env \in DOMAIN envs' /\ saved = {}
                BY <3>2, <3>4, <4>1 DEF NewScope
            <4> HIDE DEF file, env, saved
            <4>3. /\ DOMAIN new = {"file", "pos", "env", "saved"}
                  /\ new.file = file /\ new.pos = 1 /\ new.env = env /\ new.saved = saved
                OBVIOUS
            <4> HIDE DEF new
            <4> QED
                BY <2>2, <3>1, <4>1, <4>2, <4>3, StepIntoFile
        <3> QED
            BY <3>3, <3>4
    <2> QED
        BY <2>1, <2>2
<1>10. CASE EndOfFile
    <2>1. Len(frames) # 0
        BY <1>10 DEF EndOfFile, FramesInv
    <2> QED
        BY <1>10, <2>1, StepOutOfFile
<1>11. CASE CollectTargetsFromArgs
    BY <1>2, <1>11, StepAside DEF CollectTargetsFromArgs
<1>12. CASE Done \/ UNCHANGED vars
    BY <1>12, StepAside DEF Done, vars
<1> QED
    BY <1>3, <1>4, <1>5, <1>6, <1>7, <1>8, <1>9, <1>10, <1>11, <1>12 DEF Next

LEMMA ScopesInit ==
    ASSUME Init
    PROVE  FramesInv /\ ScopesInv
<1>1. PICK first : frames = <<first>> /\ first = [file |-> Main, pos |-> 1, env |-> 1, saved |-> {}]
    BY DEF Init
<1>2. /\ DOMAIN first = {"file", "pos", "env", "saved"}
      /\ first.file = Main /\ first.pos = 1 /\ first.env = 1 /\ first.saved = {}
    BY <1>1
<1>3. DOMAIN frames = {1} /\ frames[1] = first /\ Len(frames) = 1 /\ IsSeq(frames)
    BY <1>1, OneIsSeq
<1>4. \E scope : envs = <<scope>>
    BY DEF Init
<1>5. DOMAIN envs = {1} /\ IsSeq(envs)
    BY <1>4, OneIsSeq
<1>6. program \in Programs /\ Main \in Files
    BY ProgramsAssumption DEF Init, Files
<1>7. FramesInv
    BY <1>2, <1>3, <1>5, <1>6 DEF FramesInv, FrameInv
<1>8. ScopesInv
    BY <1>2, <1>3 DEF ScopesInv
<1> QED
    BY <1>7, <1>8

\* The innermost scope is the only one that changes, and no other frame is in the scope that
\* a subninja keeps: ParseFileInclude, manifest_parser.go.
THEOREM SubninjaContainedHolds == Spec => []SubninjaContained
<1>1. FramesInv /\ ScopesInv => SubninjaContained
    BY DEF ScopesInv, SubninjaContained
<1> QED
    BY <1>1, ScopesInit, ScopesStep, PTL DEF Spec

-----------------------------------------------------------------------------
(* Nodes and edges *)

\* An edge as ParseEdge leaves it.
EdgeInv(e) ==
    /\ IsSeq(edges_[e].outputs_) /\ IsSeq(edges_[e].inputs_) /\ Len(edges_[e].outputs_) # 0
    /\ ToSet(edges_[e].outputs_) \cup ToSet(edges_[e].inputs_) \subseteq Known
    /\ \A i, j \in DOMAIN edges_[e].outputs_ :
           i # j => edges_[e].outputs_[i] # edges_[e].outputs_[j]

\* A node as GetNode, AddOut and AddIn leave it.
NodeInv(n) ==
    /\ nodes[n].in_edge \in 0..Len(edges_)
    /\ IsSeq(nodes[n].out_edges) /\ ToSet(nodes[n].out_edges) \subseteq 1..Len(edges_)

\* The edge lost its mention of n.
LostItself(n, e) ==
    /\ edges_[e].rule = PhonyRule /\ edges_[e].outputs_ = <<n>>
    /\ Occurrences(e, nodes[n].out_edges) > Occurrences(n, edges_[e].inputs_)

\* What each knows of the other.
LinkInv(n, e) ==
    /\ nodes[n].in_edge = e <=> n \in ToSet(edges_[e].outputs_)
    /\ \/ Occurrences(e, nodes[n].out_edges) = Occurrences(n, edges_[e].inputs_)
       \/ LostItself(n, e)

EdgesInv ==
    /\ IsSeq(edges_)
    /\ \A n \in Known : NodeInv(n)
    /\ \A e \in Edges : EdgeInv(e)
    /\ \A n \in Known, e \in Edges : LinkInv(n, e)

LEMMA GetNodeFacts ==
    ASSUME EdgesInv, NEW n
    PROVE  /\ GetNode(n).in_edge \in 0..Len(edges_) /\ IsSeq(GetNode(n).out_edges)
           /\ ToSet(GetNode(n).out_edges) \subseteq 1..Len(edges_)
           /\ n \in Known => GetNode(n) = nodes[n]
           /\ n \notin Known => GetNode(n).in_edge = 0
                                /\ \A e : Occurrences(e, GetNode(n).out_edges) = 0
<1>1. CASE n \in Known
    BY <1>1 DEF GetNode, EdgesInv, NodeInv
<1>2. CASE n \notin Known
    <2>1. GetNode(n).in_edge = 0 /\ GetNode(n).out_edges = <<>>
        BY <1>2 DEF GetNode, NewNode
    <2>2. IsSeq(<<>>) /\ ToSet(<<>>) = {}
        <3>1. <<>> \in Seq({}) /\ DOMAIN <<>> = {}
            OBVIOUS
        <3>2. ToSet(<<>>) = {}
            BY <3>1 DEF ToSet
        <3> QED
            BY <3>1, <3>2, IsSeqOf
    <2>3. \A e : Occurrences(e, <<>>) = 0
        BY <2>2, OccurrencesFacts
    <2>4. Len(edges_) \in Nat
        BY SeqFacts DEF EdgesInv
    <2> QED
        BY <1>2, <2>1, <2>2, <2>3, <2>4
<1> QED
    BY <1>1, <1>2

MadeOf(node, n, edge, e) ==
    /\ node.in_edge = IF n \in ToSet(edge.outputs_) THEN e ELSE GetNode(n).in_edge
    /\ IsSeq(node.out_edges) /\ ToSet(node.out_edges) \subseteq 1..e
    /\ Occurrences(e, node.out_edges) = Occurrences(n, edge.inputs_)
    /\ \A f : f # e => Occurrences(f, node.out_edges) = Occurrences(f, GetNode(n).out_edges)

\* What an edge that is added makes of the nodes.
LEMMA NodesWithFacts ==
    ASSUME EdgesInv, NEW edge, IsSeq(edge.inputs_), NEW e, e = Len(edges_) + 1,
           NEW n \in Known \cup Mentioned(edge), NEW node, node = NodesWith(edge, e)[n]
    PROVE  MadeOf(node, n, edge, e)
<1>1. PICK m \in Nat : m = Len(edges_)
    BY SeqFacts DEF EdgesInv
<1>2. PICK out : out = GetNode(n).out_edges
    OBVIOUS
<1>3. ToSet(out) \subseteq 1..m
    BY <1>1, <1>2, GetNodeFacts
<1>4. IsSeq(out)
    BY <1>2, GetNodeFacts
<1>5. PICK k \in Nat : k = Occurrences(n, edge.inputs_)
    BY OccurrencesFacts
<1>6. PICK copies : copies = [i \in 1..k |-> e]
    OBVIOUS
<1>7. IsSeq(copies) /\ Len(copies) = k /\ \A i \in 1..k : copies[i] = e
    BY <1>6, FunIsSeq
<1>8. PICK new : new = out \o copies
    OBVIOUS
<1>9. 1..m \subseteq 1..e /\ e \in 1..e
    BY <1>1
<1>10. e \notin ToSet(out)
    BY <1>1, <1>3
<1>11. /\ IsSeq(new) /\ ToSet(new) \subseteq ToSet(out) \cup {e}
       /\ Occurrences(e, new) = k
       /\ \A f : f # e => Occurrences(f, new) = Occurrences(f, out)
    BY <1>4, <1>7, <1>8, <1>10, AddInLemma
<1>12. node = [in_edge |-> AddOut(n, edge, e), out_edges |-> AddIn(n, edge, e)]
    BY DEF NodesWith
<1>13. AddIn(n, edge, e) = new
    BY <1>2, <1>5, <1>6, <1>8 DEF AddIn, AddInCalls
<1>14. node.in_edge = AddOut(n, edge, e) /\ node.out_edges = new
    BY <1>12, <1>13
<1>15. ToSet(new) \subseteq 1..e
    <2> HIDE DEF ToSet
    <2> QED
        BY <1>3, <1>9, <1>11
<1> QED
    BY <1>2, <1>5, <1>11, <1>14, <1>15 DEF AddOut, MadeOf

LEMMA EdgeAdded ==
    ASSUME EdgesInv, NEW edge, NEW new, NEW e, e = Len(edges_) + 1,
           nodes' = NodesWith(edge, e), edges_' = Append(edges_, new),
           IsSeq(edge.outputs_), IsSeq(edge.inputs_), Len(edge.outputs_) # 0,
           \A i, j \in DOMAIN edge.outputs_ : i # j => edge.outputs_[i] # edge.outputs_[j],
           \A n \in ToSet(edge.outputs_) \cap Known : nodes[n].in_edge = 0,
           new.outputs_ = edge.outputs_,
           IsSeq(new.inputs_), ToSet(new.inputs_) \subseteq ToSet(edge.inputs_),
           \A n : \/ Occurrences(n, new.inputs_) = Occurrences(n, edge.inputs_)
                  \/ /\ new.rule = PhonyRule /\ new.outputs_ = <<n>>
                     /\ Occurrences(n, new.inputs_) < Occurrences(n, edge.inputs_)
    PROVE  EdgesInv'
<1>1. PICK m \in Nat : m = Len(edges_) /\ DOMAIN edges_ = 1..m /\ e = m + 1
    BY SeqFacts DEF EdgesInv
<1>2. /\ IsSeq(edges_') /\ Len(edges_') = e
      /\ \A f \in 1..m : edges_'[f] = edges_[f]
      /\ edges_'[e] = new
    BY <1>1, Appended DEF EdgesInv
<1>3. DOMAIN edges_' = 1..e
    BY <1>2, SeqFacts
<1>4. Known' = Known \cup Mentioned(edge)
    BY DEF NodesWith, Known
<1>5. \A n \in Known' :
          /\ nodes'[n].in_edge = IF n \in ToSet(edge.outputs_) THEN e ELSE GetNode(n).in_edge
          /\ IsSeq(nodes'[n].out_edges) /\ ToSet(nodes'[n].out_edges) \subseteq 1..e
          /\ Occurrences(e, nodes'[n].out_edges) = Occurrences(n, edge.inputs_)
          /\ \A f : f # e => Occurrences(f, nodes'[n].out_edges)
                                 = Occurrences(f, GetNode(n).out_edges)
    <2>1. ASSUME NEW n \in Known', NEW node, node = nodes'[n]
          PROVE  /\ node.in_edge = IF n \in ToSet(edge.outputs_) THEN e ELSE GetNode(n).in_edge
                 /\ IsSeq(node.out_edges) /\ ToSet(node.out_edges) \subseteq 1..e
                 /\ Occurrences(e, node.out_edges) = Occurrences(n, edge.inputs_)
                 /\ \A f : f # e => Occurrences(f, node.out_edges)
                                        = Occurrences(f, GetNode(n).out_edges)
        <3>1. n \in Known \cup Mentioned(edge) /\ node = NodesWith(edge, e)[n]
            BY <1>4, <2>1
        <3>2. MadeOf(node, n, edge, e)
            BY <3>1, NodesWithFacts
        <3> QED
            BY <3>2 DEF MadeOf
    <2> QED
        BY <2>1
<1>6. /\ \A f \in 1..e : f \in 1..m \/ f = e
      /\ \A f \in 1..m : f # e /\ f # 0 /\ f \in 1..e
      /\ \A f \in 0..m : f # e /\ f \in 0..e
      /\ e \in 0..e /\ e \in 1..e /\ e # 0
    BY <1>1
<1>7. \A n : /\ GetNode(n).in_edge \in 0..m
             /\ n \in Known => GetNode(n) = nodes[n]
             /\ n \notin Known => GetNode(n).in_edge = 0
                                  /\ \A f : Occurrences(f, GetNode(n).out_edges) = 0
    BY <1>1, GetNodeFacts
<1>8. ASSUME NEW n \in Known' PROVE NodeInv(n)'
    BY <1>2, <1>5, <1>6, <1>7 DEF NodeInv
<1>9. ASSUME NEW f \in 1..e PROVE EdgeInv(f)'
    <2>1. CASE f \in 1..m
        <3>1. EdgeInv(f) /\ edges_'[f] = edges_[f] /\ Known \subseteq Known'
            BY <1>1, <1>2, <1>4, <2>1 DEF EdgesInv, Edges
        <3> QED
            BY <3>1 DEF EdgeInv
    <2>2. CASE f = e
        <3>1. ToSet(edge.outputs_) \cup ToSet(edge.inputs_) \subseteq Known'
            BY <1>4 DEF Mentioned
        <3>2. ToSet(new.outputs_) \cup ToSet(new.inputs_) \subseteq Known'
            <4> HIDE DEF ToSet
            <4> QED
                BY <3>1
        <3> QED
            BY <1>2, <2>2, <3>2 DEF EdgeInv
    <2> QED
        BY <1>6, <2>1, <2>2
<1>10. ASSUME NEW n \in Known', NEW f \in 1..m PROVE LinkInv(n, f)'
    <2>1. /\ EdgeInv(f) /\ edges_'[f] = edges_[f] /\ f # e /\ f # 0
          /\ n \in Known => LinkInv(n, f)
        BY <1>1, <1>2, <1>6 DEF EdgesInv, Edges
    <2>2. nodes'[n].in_edge = f <=> n \in ToSet(edges_[f].outputs_)
        <3>1. CASE n \in Known
            <4>1. /\ nodes[n].in_edge = f <=> n \in ToSet(edges_[f].outputs_)
                  /\ n \in ToSet(edge.outputs_) => nodes[n].in_edge = 0
                  /\ GetNode(n) = nodes[n]
                BY <1>7, <2>1, <3>1 DEF LinkInv
            <4> QED
                BY <1>5, <2>1, <4>1
        <3>2. CASE n \notin Known
            <4>1. n \notin ToSet(edges_[f].outputs_) /\ GetNode(n).in_edge = 0
                BY <1>7, <2>1, <3>2 DEF EdgeInv
            <4> QED
                BY <1>5, <2>1, <4>1
        <3> QED
            BY <3>1, <3>2
    <2>3. \/ Occurrences(f, nodes'[n].out_edges) = Occurrences(n, edges_'[f].inputs_)
          \/ LostItself(n, f)'
        <3>1. Occurrences(f, nodes'[n].out_edges) = Occurrences(f, GetNode(n).out_edges)
            BY <1>5, <2>1
        <3>2. CASE n \in Known
            <4>1. Occurrences(f, nodes'[n].out_edges) = Occurrences(f, nodes[n].out_edges)
                BY <1>7, <3>1, <3>2
            <4>2. \/ Occurrences(f, nodes[n].out_edges) = Occurrences(n, edges_[f].inputs_)
                  \/ LostItself(n, f)
                BY <2>1, <3>2 DEF LinkInv
            <4> QED
                BY <2>1, <4>1, <4>2 DEF LostItself
        <3>3. CASE n \notin Known
            <4>1. n \notin ToSet(edges_[f].inputs_) /\ IsSeq(edges_[f].inputs_)
                BY <2>1, <3>3 DEF EdgeInv
            <4>2. Occurrences(n, edges_[f].inputs_) = 0
                BY <4>1, OccurrencesFacts
            <4>3. Occurrences(f, nodes'[n].out_edges) = 0
                BY <1>7, <3>1, <3>3
            <4> QED
                BY <2>1, <4>2, <4>3
        <3> QED
            BY <3>2, <3>3
    <2> QED
        BY <2>1, <2>2, <2>3 DEF LinkInv
<1>11. ASSUME NEW n \in Known' PROVE LinkInv(n, e)'
    <2>1. nodes'[n].in_edge = e <=> n \in ToSet(new.outputs_)
        <3>1. GetNode(n).in_edge # e
            BY <1>6, <1>7
        <3> QED
            BY <1>5, <3>1
    <2>2. Occurrences(e, nodes'[n].out_edges) = Occurrences(n, edge.inputs_)
        BY <1>5
    <2>3. Occurrences(n, edge.inputs_) \in Nat /\ Occurrences(n, new.inputs_) \in Nat
        BY OccurrencesFacts
    <2>4. \/ Occurrences(e, nodes'[n].out_edges) = Occurrences(n, new.inputs_)
          \/ /\ new.rule = PhonyRule /\ new.outputs_ = <<n>>
             /\ Occurrences(e, nodes'[n].out_edges) > Occurrences(n, new.inputs_)
        BY <2>2, <2>3
    <2> QED
        BY <1>2, <2>1, <2>4 DEF LinkInv, LostItself
<1>12. \A n \in Known', f \in 1..e : LinkInv(n, f)'
    BY <1>6, <1>10, <1>11
<1> QED
    BY <1>2, <1>3, <1>8, <1>9, <1>12 DEF EdgesInv, Edges

LEMMA WithoutItselfFacts ==
    ASSUME NEW edge, DOMAIN edge = {"rule", "env_", "pool_", "outputs_", "implicit_outs_",
                                    "inputs_", "implicit_deps_", "order_only_deps_",
                                    "validations_", "own_scope"},
           IsSeq(edge.inputs_), IsSeq(edge.outputs_),
           NEW new, new = WithoutItself(edge)
    PROVE  /\ new.outputs_ = edge.outputs_
           /\ IsSeq(new.inputs_) /\ ToSet(new.inputs_) \subseteq ToSet(edge.inputs_)
           /\ \A n : \/ Occurrences(n, new.inputs_) = Occurrences(n, edge.inputs_)
                     \/ /\ new.rule = PhonyRule /\ new.outputs_ = <<n>>
                        /\ Occurrences(n, new.inputs_) < Occurrences(n, edge.inputs_)
<1>1. CASE new = edge
    BY <1>1
<1>2. CASE new # edge
    <2>1. /\ edge.rule = PhonyRule /\ Len(edge.outputs_) = 1
          /\ Contains(edge.inputs_, edge.outputs_[1])
          /\ new = [edge EXCEPT !.inputs_ = RemoveFirst(edge.inputs_, edge.outputs_[1])]
        BY <1>2 DEF WithoutItself
    <2>2. PICK x : x = edge.outputs_[1]
        OBVIOUS
    <2>3. PICK ins : ins = RemoveFirst(edge.inputs_, x)
        OBVIOUS
    <2>4. new.outputs_ = edge.outputs_ /\ new.rule = edge.rule /\ new.inputs_ = ins
        BY <2>1, <2>2, <2>3
    <2>5. edge.outputs_ = <<x>>
        <3>1. edge.outputs_ = [i \in 1..Len(edge.outputs_) |-> edge.outputs_[i]]
            BY SeqFacts
        <3>2. edge.outputs_ = [i \in 1..1 |-> x]
            BY <2>1, <2>2, <3>1
        <3> QED
            BY <3>2
    <2>6. /\ IsSeq(ins) /\ ToSet(ins) \subseteq ToSet(edge.inputs_)
          /\ Occurrences(x, ins) < Occurrences(x, edge.inputs_)
          /\ \A y : y # x => Occurrences(y, ins) = Occurrences(y, edge.inputs_)
        BY <2>1, <2>2, <2>3, RemoveFirstFacts
    <2> QED
        BY <2>1, <2>4, <2>5, <2>6
<1> QED
    BY <1>1, <1>2

\* What the lexer has read is a statement of the file.
LEMMA StatementFacts ==
    ASSUME FramesInv, NEW kind, Read(kind)
    PROVE  IsSeq(Statement.outs) /\ IsSeq(Statement.ins)
<1>1. Len(frames) \in DOMAIN frames
    BY SeqFacts DEF FramesInv, Read
<1>2. /\ Top.file \in DOMAIN program /\ Top.pos \in Nat \ {0}
      /\ Top.pos <= Len(program[Top.file])
    BY <1>1 DEF FramesInv, FrameInv, Read, Top, Last, Files
<1>3. WellFormed(program)
    BY ProgramsAssumption DEF FramesInv
<1>4. IsSeq(program[Top.file])
    BY <1>2, <1>3 DEF WellFormed
<1>5. Top.pos \in DOMAIN program[Top.file]
    BY <1>2, <1>4, SeqFacts
<1> QED
    BY <1>2, <1>3, <1>5 DEF WellFormed, Statement

LEMMA PathsFacts ==
    ASSUME NEW build, NEW evals, IsSeq(evals)
    PROVE  IsSeq(Paths(build, evals)) /\ Len(Paths(build, evals)) = Len(evals)
<1>1. PICK n \in Nat : n = Len(evals) /\ DOMAIN evals = 1..n
    BY SeqFacts
<1>2. PICK s : s = Paths(build, evals)
    OBVIOUS
<1>3. s = [i \in 1..n |-> s[i]]
    BY <1>1, <1>2 DEF Paths
<1> QED
    BY <1>1, <1>2, <1>3, FunIsSeq

LEMMA ParseEdgeLinks ==
    ASSUME FramesInv, EdgesInv, ParseEdge
    PROVE  EdgesInv'
<1>1. IsSeq(Statement.outs) /\ IsSeq(Statement.ins)
    BY StatementFacts DEF ParseEdge
<1>2. CASE EdgeVerdict(Statement) # "added"
    <2>1. UNCHANGED state
        BY <1>2 DEF ParseEdge, Ends
    <2> QED
        BY <2>1 DEF state, EdgesInv, NodeInv, EdgeInv, LinkInv, LostItself, Known, Edges
<1>3. CASE EdgeVerdict(Statement) = "added"
    <2>1. PICK outs, ins : /\ outs = Paths(Statement, Statement.outs)
                           /\ ins = Paths(Statement, Statement.ins)
        OBVIOUS
    <2>2. IsSeq(outs) /\ IsSeq(ins) /\ Len(outs) = Len(Statement.outs)
        BY <1>1, <2>1, PathsFacts
    <2>3. Statement.outs # <<>> /\ ~MultipleRules(outs)
        BY <1>3, <2>1 DEF EdgeVerdict, NoPath
    <2>4. Len(outs) # 0
        BY <1>1, <2>2, <2>3, SeqFacts
    <2>5. /\ \A i, j \in DOMAIN outs : i # j => outs[i] # outs[j]
          /\ \A n \in ToSet(outs) \cap Known : nodes[n].in_edge = 0
        BY <2>3 DEF MultipleRules
    <2>6. PICK edge : edge = [EdgeOf(Statement) EXCEPT !.pool_ = PoolName(Statement)]
        OBVIOUS
    <2>7. /\ DOMAIN edge = {"rule", "env_", "pool_", "outputs_", "implicit_outs_",
                            "inputs_", "implicit_deps_", "order_only_deps_",
                            "validations_", "own_scope"}
          /\ edge.outputs_ = outs /\ edge.inputs_ = ins
        <3>1. PICK rule, env, vals, own :
                  EdgeOf(Statement) =
                      [rule |-> rule, env_ |-> env, pool_ |-> Empty,
                       outputs_ |-> outs, implicit_outs_ |-> Statement.implicit_outs,
                       inputs_ |-> ins, implicit_deps_ |-> Statement.implicit,
                       order_only_deps_ |-> Statement.order_only,
                       validations_ |-> vals, own_scope |-> own]
            BY <2>1 DEF EdgeOf
        <3>2. PICK pool : edge = [EdgeOf(Statement) EXCEPT !.pool_ = pool]
            BY <2>6
        <3> QED
            BY <3>1, <3>2
    <2>8. PICK new, e : new = WithoutItself(edge) /\ e = Len(edges_) + 1
        OBVIOUS
    <2>9. nodes' = NodesWith(edge, e) /\ edges_' = Append(edges_, new)
        BY <1>3, <2>6, <2>8 DEF ParseEdge
    <2>10. /\ new.outputs_ = edge.outputs_
           /\ IsSeq(new.inputs_) /\ ToSet(new.inputs_) \subseteq ToSet(edge.inputs_)
           /\ \A n : \/ Occurrences(n, new.inputs_) = Occurrences(n, edge.inputs_)
                     \/ /\ new.rule = PhonyRule /\ new.outputs_ = <<n>>
                        /\ Occurrences(n, new.inputs_) < Occurrences(n, edge.inputs_)
        BY <2>2, <2>7, <2>8, WithoutItselfFacts
    <2> QED
        BY <2>2, <2>4, <2>5, <2>7, <2>8, <2>9, <2>10, EdgeAdded
<1> QED
    BY <1>2, <1>3

\* What a step does not touch stays as it was.
LEMMA StateKept ==
    ASSUME [Next]_vars, ~ParseEdge
    PROVE  UNCHANGED <<edges_, nodes>>
<1>1. \A how : Ends(how) => UNCHANGED <<edges_, nodes>>
    BY DEF Ends, state
<1> QED
    BY <1>1 DEF Next, vars, ParseBad, ParseLet, ParsePool, ParseRule, ParseDefault,
                ParseFileInclude, EndOfFile, CollectTargetsFromArgs, Done, state

LEMMA EdgesStep ==
    ASSUME FramesInv, EdgesInv, [Next]_vars
    PROVE  EdgesInv'
<1>1. CASE ParseEdge
    BY <1>1, ParseEdgeLinks
<1>2. CASE ~ParseEdge
    BY <1>2, StateKept DEF EdgesInv, NodeInv, EdgeInv, LinkInv, LostItself, Known, Edges
<1> QED
    BY <1>1, <1>2

LEMMA EdgesInit ==
    ASSUME Init
    PROVE  EdgesInv
<1>1. edges_ = <<>> /\ nodes = <<>>
    BY DEF Init
<1>2. <<>> \in Seq({}) /\ DOMAIN <<>> = {}
    OBVIOUS
<1>3. IsSeq(<<>>)
    BY <1>2, IsSeqOf
<1> QED
    BY <1>1, <1>2, <1>3 DEF EdgesInv, Known, Edges

\* Nodes and edges agree about who makes and who uses what, in any nesting of files, with
\* duplicates refused and phony edges relieved of themselves: State.AddOut, State.AddIn and
\* ManifestParser.ParseEdge.
THEOREM NodesAgreeWithEdgesHolds == Spec => []NodesAgreeWithEdges
<1>1. EdgesInv => NodesAgreeWithEdges
    <2> SUFFICES ASSUME EdgesInv, NEW n \in Known, NEW e \in Edges
                 PROVE  /\ nodes[n].in_edge = e <=> Occurrences(n, edges_[e].outputs_) = 1
                        /\ nodes[n].in_edge # e <=> Occurrences(n, edges_[e].outputs_) = 0
                        /\ \/ Occurrences(e, nodes[n].out_edges)
                                = Occurrences(n, edges_[e].inputs_)
                           \/ NamedItself(e) /\ edges_[e].outputs_ = <<n>>
        BY DEF NodesAgreeWithEdges
    <2>1. EdgeInv(e) /\ LinkInv(n, e)
        BY DEF EdgesInv
    <2>2. nodes[n].in_edge = e <=> n \in ToSet(edges_[e].outputs_)
        BY <2>1 DEF LinkInv
    <2>3. n \in ToSet(edges_[e].outputs_) => Occurrences(n, edges_[e].outputs_) = 1
        BY <2>1, OccursOnce DEF EdgeInv
    <2>4. n \notin ToSet(edges_[e].outputs_) => Occurrences(n, edges_[e].outputs_) = 0
        BY <2>1, OccurrencesFacts DEF EdgeInv
    <2>5. LostItself(n, e) => NamedItself(e) /\ edges_[e].outputs_ = <<n>>
        BY DEF LostItself, NamedItself
    <2> QED
        BY <2>1, <2>2, <2>3, <2>4, <2>5 DEF LinkInv
<1> QED
    BY <1>1, ScopesInit, ScopesStep, EdgesInit, EdgesStep, PTL DEF Spec

-----------------------------------------------------------------------------
(* Roots *)

\* What is built when nothing is asked for.
RootsInv == status = "run" /\ args = <<>> /\ defaults_ = <<>> => targets = RootNodes

LEMMA RootsStep ==
    ASSUME RootsInv, [Next]_vars
    PROVE  RootsInv'
<1>1. \A how : Ends(how) => status' = how
    BY DEF Ends
<1>2. CASE CollectTargetsFromArgs
    <2>1. CASE Ends("error")
        BY <1>1, <2>1 DEF RootsInv
    <2>2. CASE ~Ends("error")
        BY <1>2, <2>2 DEF CollectTargetsFromArgs, RootsInv, DefaultNodes, RootNodes, state
    <2> QED
        BY <2>1, <2>2
<1>3. CASE Done \/ UNCHANGED vars
    BY <1>3 DEF Done, vars, RootsInv, RootNodes
<1>4. CASE ParseEdge
    <2>1. EdgeVerdict(Statement) # "run" /\ status = "parse"
        BY <1>4 DEF EdgeVerdict, ParseEdge, Read
    <2> QED
        BY <1>1, <1>4, <2>1 DEF ParseEdge, RootsInv
<1>5. CASE \/ ParseBad \/ ParseLet \/ ParsePool \/ ParseRule \/ ParseDefault
           \/ ParseFileInclude("include") \/ ParseFileInclude("subninja") \/ EndOfFile
    BY <1>1, <1>5 DEF RootsInv, Read, ParseBad, ParseLet, ParsePool, ParseRule, ParseDefault,
                      ParseFileInclude, EndOfFile
<1> QED
    BY <1>2, <1>3, <1>4, <1>5 DEF Next

LEMMA RootsReach ==
    ASSUME EdgesInv, RootsInv
    PROVE  RootsReachAll
<1> SUFFICES ASSUME targets = RootNodes, Acyclic, NEW S \in SUBSET Edges,
                    \A e \in Edges : ToSet(edges_[e].outputs_) \cap targets # {}
                                     \/ NamedItself(e) => e \in S,
                    \A e \in S, f \in Edges : Uses(e, f) => f \in S
             PROVE  S = Edges
    BY DEF RootsReachAll, RootsInv
<1> SUFFICES ASSUME Edges \ S # {} PROVE FALSE
    OBVIOUS
<1>1. PICK f \in Edges \ S : \A e \in Edges \ S : ~Uses(e, f)
    BY DEF Acyclic
<1>2. \A e \in Edges : ~Uses(e, f)
    BY <1>1
<1>3. ToSet(edges_[f].outputs_) \cap targets = {} /\ ~NamedItself(f)
    BY <1>1
<1>4. EdgeInv(f)
    BY DEF EdgesInv
<1>5. PICK x \in Known : x \in ToSet(edges_[f].outputs_)
    <2>1. 1 \in DOMAIN edges_[f].outputs_
        BY <1>4, SeqFacts DEF EdgeInv
    <2>2. edges_[f].outputs_[1] \in ToSet(edges_[f].outputs_)
        BY <2>1 DEF ToSet
    <2> HIDE DEF ToSet
    <2> QED
        BY <1>4, <2>2 DEF EdgeInv
<1>6. nodes[x].out_edges # <<>>
    BY <1>3, <1>5 DEF RootNodes, Edges
<1>7. PICK g \in Edges : g \in ToSet(nodes[x].out_edges)
    <2>1. NodeInv(x) /\ Edges = 1..Len(edges_)
        BY SeqFacts DEF EdgesInv, Edges
    <2>2. 1 \in DOMAIN nodes[x].out_edges
        BY <1>6, <2>1, SeqFacts DEF NodeInv
    <2>3. nodes[x].out_edges[1] \in ToSet(nodes[x].out_edges)
        BY <2>2 DEF ToSet
    <2> HIDE DEF ToSet
    <2> QED
        BY <2>1, <2>3 DEF NodeInv
<1>8. LinkInv(x, g) /\ LinkInv(x, f) /\ EdgeInv(g) /\ NodeInv(x)
    BY DEF EdgesInv
<1>9. Occurrences(g, nodes[x].out_edges) # 0
    BY <1>7, <1>8, OccurrencesFacts DEF NodeInv
<1>10. CASE Occurrences(g, nodes[x].out_edges) = Occurrences(x, edges_[g].inputs_)
    <2>1. x \in ToSet(edges_[g].inputs_)
        BY <1>8, <1>9, <1>10, OccurrencesFacts DEF EdgeInv
    <2> QED
        BY <1>2, <1>5, <2>1 DEF Uses
<1>11. CASE LostItself(x, g)
    <2>1. edges_[g].outputs_ = <<x>> /\ NamedItself(g)
        BY <1>11 DEF LostItself, NamedItself
    <2>2. x \in ToSet(edges_[g].outputs_)
        BY <2>1 DEF ToSet
    <2>3. g = f
        BY <1>5, <1>8, <2>2 DEF LinkInv
    <2> QED
        BY <1>3, <2>1, <2>3
<1> QED
    BY <1>8, <1>10, <1>11 DEF LinkInv

\* Without targets and defaults nothing of a graph without a cycle is left out, but for what
\* only a phony edge that named itself leads to: State.RootNodes and
\* NinjaMain.CollectTargetsFromArgs.
THEOREM RootsReachAllHolds == Spec => []RootsReachAll
<1>1. Init => RootsInv
    BY DEF Init, RootsInv
<1> QED
    BY <1>1, RootsStep, RootsReach, ScopesInit, ScopesStep, EdgesInit, EdgesStep, PTL DEF Spec
=============================================================================
