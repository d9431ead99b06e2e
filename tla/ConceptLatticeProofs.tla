------------------------ MODULE ConceptLatticeProofs ------------------------
(***************************************************************************)
(* Proofs about ConceptLattice: finite orders and the functions of         *)
(* LatticeTables on them; the caches, the calls and what they answer; the  *)
(* joins that sublattice() adds; the drawing of the diagram.               *)
(***************************************************************************)
EXTENDS ConceptLattice, OrderProofs, SequenceTheorems

-----------------------------------------------------------------------------
\* Orders on a set N of concepts, as sets of pairs.

IsOrder(N, Adj) ==
  /\ Adj \subseteq N \X N
  /\ \A i \in N : <<i, i>> \in Adj
  /\ \A i, j \in N : <<i, j>> \in Adj /\ <<j, i>> \in Adj => i = j
  /\ \A i, j, k \in N : <<i, j>> \in Adj /\ <<j, k>> \in Adj => <<i, k>> \in Adj

Dual(Adj) == {<<p[2], p[1]>> : p \in Adj}

\* The least upper bounds and the greatest lower bounds of S.
Sups(N, Adj, S) ==
  {u \in N : /\ \A i \in S : <<i, u>> \in Adj
             /\ \A k \in N : (\A i \in S : <<i, k>> \in Adj) => <<u, k>> \in Adj}
Infs(N, Adj, S) ==
  {l \in N : /\ \A i \in S : <<l, i>> \in Adj
             /\ \A k \in N : (\A i \in S : <<k, i>> \in Adj) => <<k, l>> \in Adj}

IsLatticeOrder(N, Adj) ==
  /\ IsOrder(N, Adj)
  /\ \A i, j \in N : Sups(N, Adj, {i, j}) # {} /\ Infs(N, Adj, {i, j}) # {}

\* j covers i.
CoversIn(N, Adj, j, i) ==
  /\ i # j /\ <<i, j>> \in Adj
  /\ \A k \in N : <<i, k>> \in Adj /\ <<k, j>> \in Adj => k \in {i, j}

\* What is below and above a concept.
LEMMA DownUp ==
  ASSUME NEW N, NEW Adj, Adj \subseteq N \X N
  PROVE  /\ \A j, k : k \in Downset(Adj, j) <=> k \in N /\ <<k, j>> \in Adj
         /\ \A j, k : k \in Upset(Adj, j) <=> k \in N /\ <<j, k>> \in Adj
BY DEF Downset, Upset

\* The dual of an order is one, with bounds and covers exchanged.
LEMMA DualOrder ==
  ASSUME NEW N, NEW Adj, IsOrder(N, Adj)
  PROVE  /\ IsOrder(N, Dual(Adj))
         /\ \A i, j : <<i, j>> \in Dual(Adj) <=> <<j, i>> \in Adj
         /\ \A S : Sups(N, Dual(Adj), S) = Infs(N, Adj, S)
         /\ \A S : Infs(N, Dual(Adj), S) = Sups(N, Adj, S)
         /\ \A i, j : CoversIn(N, Dual(Adj), j, i) <=> CoversIn(N, Adj, i, j)
         /\ IsLatticeOrder(N, Adj) => IsLatticeOrder(N, Dual(Adj))
<1>1. ASSUME NEW i, NEW j PROVE <<i, j>> \in Dual(Adj) <=> <<j, i>> \in Adj
  <2>1. ASSUME NEW p \in Adj, <<i, j>> = <<p[2], p[1]>> PROVE <<j, i>> \in Adj
    <3>1. p = <<p[1], p[2]>> /\ i = p[2] /\ j = p[1]
      BY <2>1 DEF IsOrder
    <3> QED BY <3>1
  <2>2. <<j, i>> \in Adj => <<i, j>> = <<(<<j, i>>)[2], (<<j, i>>)[1]>>
    OBVIOUS
  <2> QED BY <2>1, <2>2 DEF Dual
<1>2. IsOrder(N, Dual(Adj))
  <2>1. Dual(Adj) \subseteq N \X N
    BY DEF Dual, IsOrder
  <2> QED BY <1>1, <2>1 DEF IsOrder
<1>3. /\ \A S : Sups(N, Dual(Adj), S) = Infs(N, Adj, S)
      /\ \A S : Infs(N, Dual(Adj), S) = Sups(N, Adj, S)
  BY <1>1 DEF Sups, Infs
<1>4. \A i, j : CoversIn(N, Dual(Adj), j, i) <=> CoversIn(N, Adj, i, j)
  BY <1>1 DEF CoversIn
<1> QED BY <1>1, <1>2, <1>3, <1>4 DEF IsLatticeOrder

\* What is strictly above has more below it.
LEMMA SizeStrict ==
  ASSUME NEW N, IsFiniteSet(N), NEW Adj, IsOrder(N, Adj)
  PROVE  /\ \A i \in N : Size(Adj, i) \in Nat /\ Size(Adj, i) >= 1
         /\ \A i \in N : Size(Adj, i) <= Cardinality(N)
         /\ \A i, j \in N : <<i, j>> \in Adj /\ i # j => Size(Adj, i) < Size(Adj, j)
         /\ \A i \in N : Size(Adj, i) = 1 <=> Downset(Adj, i) = {i}
         /\ \A i \in N : Size(Adj, i) = Cardinality(N) <=> Downset(Adj, i) = N
<1>0. \A i, k : k \in Downset(Adj, i) <=> k \in N /\ <<k, i>> \in Adj
  BY DownUp DEF IsOrder
<1>1. ASSUME NEW i \in N
      PROVE  /\ IsFiniteSet(Downset(Adj, i)) /\ Size(Adj, i) \in Nat
             /\ Size(Adj, i) <= Cardinality(N)
             /\ Size(Adj, i) = Cardinality(N) <=> Downset(Adj, i) = N
             /\ i \in Downset(Adj, i)
             /\ Downset(Adj, i) \in SUBSET N
  <2>1. Downset(Adj, i) \in SUBSET N /\ i \in Downset(Adj, i)
    BY <1>0 DEF IsOrder
  <2> QED BY <2>1, FS_Subset, FS_CardinalityType DEF Size
<1>2. ASSUME NEW i \in N
      PROVE  /\ Size(Adj, i) >= 1
             /\ Size(Adj, i) = 1 <=> Downset(Adj, i) = {i}
  <2>1. Size(Adj, i) # 0
    BY <1>1, FS_EmptySet DEF Size
  <2>2. IsFiniteSet({i}) /\ Cardinality({i}) = 1 /\ {i} \in SUBSET Downset(Adj, i)
    <3>1. IsFiniteSet({i}) /\ Cardinality({i}) = 1
      BY FS_Singleton, Zenon
    <3> QED BY <1>1, <3>1
  <2>3. Size(Adj, i) = 1 => Downset(Adj, i) = {i}
    BY <1>1, <2>2, FS_Subset DEF Size
  <2> QED BY <1>1, <2>1, <2>2, <2>3 DEF Size
<1>3. ASSUME NEW i \in N, NEW j \in N, <<i, j>> \in Adj, i # j
      PROVE  Size(Adj, i) < Size(Adj, j)
  <2>1. Downset(Adj, i) \subseteq Downset(Adj, j)
    <3>1. \A k \in N : <<k, i>> \in Adj => <<k, j>> \in Adj
      BY <1>3 DEF IsOrder
    <3> QED BY <3>1, <1>0
  <2>2. j \notin Downset(Adj, i) /\ j \in Downset(Adj, j)
    BY <1>0, <1>3 DEF IsOrder
  <2>3. IsFiniteSet(Downset(Adj, j)) /\ Downset(Adj, i) \in SUBSET Downset(Adj, j)
    BY <1>1, <2>1
  <2>4. /\ Cardinality(Downset(Adj, i)) <= Cardinality(Downset(Adj, j))
        /\ Cardinality(Downset(Adj, j)) = Cardinality(Downset(Adj, i)) =>
             Downset(Adj, j) = Downset(Adj, i)
    BY <2>3, FS_Subset, Zenon
  <2>5. Downset(Adj, j) # Downset(Adj, i)
    BY <2>2
  <2> QED BY <1>1, <2>4, <2>5 DEF Size
<1> QED BY <1>1, <1>2, <1>3

\* A non-empty set of concepts has a minimal and a maximal one.
LEMMA Extremal ==
  ASSUME NEW N, IsFiniteSet(N), NEW Adj, IsOrder(N, Adj),
         NEW S \in SUBSET N, S # {}
  PROVE  /\ \E m \in S : \A k \in S : <<k, m>> \in Adj => k = m
         /\ \E m \in S : \A k \in S : <<m, k>> \in Adj => k = m
<1>1. \A i \in S : Size(Adj, i) \in Nat /\ Size(Adj, i) <= Cardinality(N)
  BY SizeStrict
<1>2. \E m \in S : \A k \in S : <<k, m>> \in Adj => k = m
  <2> DEFINE T == {Size(Adj, i) : i \in S}
  <2>1. T \in SUBSET Nat /\ T # {}
    BY <1>1
  <2>2. Min(T) \in T /\ \A x \in T : Min(T) <= x
    <3> HIDE DEF T
    <3> QED BY <2>1, NatMin
  <2>3. PICK m \in S : Size(Adj, m) = Min(T)
    BY <2>2
  <2>4. ASSUME NEW k \in S, <<k, m>> \in Adj PROVE k = m
    <3>1. Size(Adj, m) <= Size(Adj, k)
      BY <2>2, <2>3
    <3> QED BY <1>1, <2>4, <3>1, SizeStrict
  <2> QED BY <2>4
<1>3. \E m \in S : \A k \in S : <<m, k>> \in Adj => k = m
  <2> DEFINE T == {Size(Adj, i) : i \in S}
  <2>0. Cardinality(N) \in Nat
    BY FS_CardinalityType
  <2>1. T \in SUBSET (0 .. Cardinality(N)) /\ T # {}
    BY <1>1, <2>0
  <2>2. Max(T) \in T /\ \A x \in T : x <= Max(T)
    <3> HIDE DEF T
    <3> QED BY <2>0, <2>1, NatMax
  <2>3. PICK m \in S : Size(Adj, m) = Max(T)
    BY <2>2
  <2>4. ASSUME NEW k \in S, <<m, k>> \in Adj PROVE k = m
    <3>1. Size(Adj, k) <= Size(Adj, m)
      BY <2>2, <2>3
    <3> QED BY <1>1, <2>4, <3>1, SizeStrict
  <2> QED BY <2>4
<1> QED BY <1>2, <1>3

\* A set of concepts has at most one supremum and one infimum.
LEMMA BoundsUnique ==
  ASSUME NEW N, NEW Adj, IsOrder(N, Adj), NEW S
  PROVE  /\ \A u \in Sups(N, Adj, S) : Sups(N, Adj, S) = {u}
         /\ \A l \in Infs(N, Adj, S) : Infs(N, Adj, S) = {l}
<1>1. ASSUME NEW u \in Sups(N, Adj, S), NEW v \in Sups(N, Adj, S) PROVE u = v
  BY DEF Sups, IsOrder
<1>2. ASSUME NEW u \in Infs(N, Adj, S), NEW v \in Infs(N, Adj, S) PROVE u = v
  BY DEF Infs, IsOrder
<1> QED BY <1>1, <1>2

\* The tables hold the bounds that exist, and numbers of concepts or 0 in any case.
LEMMA TablesRight ==
  ASSUME NEW N \in SUBSET Nat, IsFiniteSet(N), NEW Adj, IsOrder(N, Adj),
         NEW i \in N, NEW j \in N
  PROVE  /\ \A l \in Infs(N, Adj, {i, j}) : meet_val(Adj, i, j) = l
         /\ \A u \in Sups(N, Adj, {i, j}) : join_val(Adj, i, j) = u
<1>0. /\ \A a, k : k \in Downset(Adj, a) <=> k \in N /\ <<k, a>> \in Adj
      /\ \A a, k : k \in Upset(Adj, a) <=> k \in N /\ <<a, k>> \in Adj
  BY DownUp DEF IsOrder
<1>1. ASSUME NEW l \in Infs(N, Adj, {i, j}) PROVE meet_val(Adj, i, j) = l
  <2> DEFINE lower_bounds == Downset(Adj, i) \cap Downset(Adj, j)
             largest == {k \in lower_bounds :
                           \A m \in lower_bounds : Size(Adj, m) <= Size(Adj, k)}
  <2>1. \A k : k \in lower_bounds <=> k \in N /\ <<k, i>> \in Adj /\ <<k, j>> \in Adj
    BY <1>0
  <2>2. l \in N /\ <<l, i>> \in Adj /\ <<l, j>> \in Adj /\ l \in lower_bounds
    BY <2>1 DEF Infs
  <2>3. \A k \in lower_bounds : <<k, l>> \in Adj
    BY <2>1 DEF Infs
  <2>4. \A k \in lower_bounds : k # l => Size(Adj, k) < Size(Adj, l)
    BY <2>1, <2>2, <2>3, SizeStrict
  <2>5. \A k \in lower_bounds : Size(Adj, k) \in Nat
    BY <2>1, SizeStrict
  <2> HIDE DEF lower_bounds
  <2>6. largest = {l}
    <3>1. l \in largest
      BY <2>2, <2>4, <2>5
    <3>2. ASSUME NEW k \in largest PROVE k = l
      <4>1. k \in lower_bounds /\ Size(Adj, l) <= Size(Adj, k)
        BY <2>2
      <4> QED BY <4>1, <2>2, <2>4, <2>5
    <3> QED BY <3>1, <3>2
  <2>7. Min(largest) = l
    <3>1. {l} \in SUBSET Nat /\ {l} # {}
      BY <2>2
    <3>2. Min({l}) \in {l}
      BY <3>1, NatMin
    <3> QED BY <2>6, <3>2
  <2>8. meet_val(Adj, i, j) = IF largest = {} THEN 0 ELSE Min(largest)
    BY DEF meet_val, lower_bounds
  <2> QED BY <2>6, <2>7, <2>8
<1>2. ASSUME NEW u \in Sups(N, Adj, {i, j}) PROVE join_val(Adj, i, j) = u
  <2> DEFINE upper_bounds == Upset(Adj, i) \cap Upset(Adj, j)
             smallest == {k \in upper_bounds :
                            \A m \in upper_bounds : Size(Adj, k) <= Size(Adj, m)}
  <2>1. \A k : k \in upper_bounds <=> k \in N /\ <<i, k>> \in Adj /\ <<j, k>> \in Adj
    BY <1>0
  <2>2. u \in N /\ <<i, u>> \in Adj /\ <<j, u>> \in Adj /\ u \in upper_bounds
    BY <2>1 DEF Sups
  <2>3. \A k \in upper_bounds : <<u, k>> \in Adj
    BY <2>1 DEF Sups
  <2>4. \A k \in upper_bounds : k # u => Size(Adj, u) < Size(Adj, k)
    BY <2>1, <2>2, <2>3, SizeStrict
  <2>5. \A k \in upper_bounds : Size(Adj, k) \in Nat
    BY <2>1, SizeStrict
  <2> HIDE DEF upper_bounds
  <2>6. smallest = {u}
    <3>1. u \in smallest
      BY <2>2, <2>4, <2>5
    <3>2. ASSUME NEW k \in smallest PROVE k = u
      <4>1. k \in upper_bounds /\ Size(Adj, k) <= Size(Adj, u)
        BY <2>2
      <4> QED BY <4>1, <2>2, <2>4, <2>5
    <3> QED BY <3>1, <3>2
  <2>7. Min(smallest) = u
    <3>1. {u} \in SUBSET Nat /\ {u} # {}
      BY <2>2
    <3>2. Min({u}) \in {u}
      BY <3>1, NatMin
    <3> QED BY <2>6, <3>2
  <2>8. join_val(Adj, i, j) = IF smallest = {} THEN 0 ELSE Min(smallest)
    BY DEF join_val, upper_bounds
  <2> QED BY <2>6, <2>7, <2>8
<1> QED BY <1>1, <1>2

\* Of any relation the tables hold numbers of concepts, or 0.
LEMMA TablesType ==
  ASSUME NEW N \in SUBSET Nat, NEW Adj, Adj \subseteq N \X N, NEW i, NEW j
  PROVE  meet_val(Adj, i, j) \in N \cup {0} /\ join_val(Adj, i, j) \in N \cup {0}
<1>0. /\ \A a, k : k \in Downset(Adj, a) => k \in N
      /\ \A a, k : k \in Upset(Adj, a) => k \in N
  BY DownUp
<1>1. \A S \in SUBSET N : S # {} => Min(S) \in S
  BY NatMin
<1>2. meet_val(Adj, i, j) \in N \cup {0}
  <2> DEFINE lower_bounds == Downset(Adj, i) \cap Downset(Adj, j)
             largest == {k \in lower_bounds :
                           \A m \in lower_bounds : Size(Adj, m) <= Size(Adj, k)}
  <2>1. largest \in SUBSET N
    BY <1>0
  <2>2. meet_val(Adj, i, j) = IF largest = {} THEN 0 ELSE Min(largest)
    BY DEF meet_val
  <2> HIDE DEF largest
  <2> QED BY <1>1, <2>1, <2>2
<1>3. join_val(Adj, i, j) \in N \cup {0}
  <2> DEFINE upper_bounds == Upset(Adj, i) \cap Upset(Adj, j)
             smallest == {k \in upper_bounds :
                            \A m \in upper_bounds : Size(Adj, k) <= Size(Adj, m)}
  <2>1. smallest \in SUBSET N
    BY <1>0
  <2>2. join_val(Adj, i, j) = IF smallest = {} THEN 0 ELSE Min(smallest)
    BY DEF join_val
  <2> HIDE DEF smallest
  <2> QED BY <1>1, <2>1, <2>2
<1> QED BY <1>2, <1>3

\* The transitive reduction of an order is its covering relation.
LEMMA ReductionRight ==
  ASSUME NEW N, NEW Adj, IsOrder(N, Adj)
  PROVE  /\ reduce_transitivity(Adj) \subseteq N \X N
         /\ \A i, j \in N : <<i, j>> \in reduce_transitivity(Adj) <=> CoversIn(N, Adj, j, i)
<1>0. \A e \in Adj : e = <<e[1], e[2]>> /\ e[1] \in N /\ e[2] \in N
  BY DEF IsOrder
<1>1. ASSUME NEW i \in N, NEW j \in N, <<i, j>> \in reduce_transitivity(Adj)
      PROVE  CoversIn(N, Adj, j, i)
  <2>1. <<i, j>> \in Adj /\ i # j
    BY <1>1 DEF reduce_transitivity
  <2>2. ASSUME NEW k \in N, <<i, k>> \in Adj, <<k, j>> \in Adj, k # i, k # j PROVE FALSE
    BY <1>1, <2>2 DEF reduce_transitivity
  <2> QED BY <2>1, <2>2 DEF CoversIn
<1>2. ASSUME NEW i \in N, NEW j \in N, CoversIn(N, Adj, j, i)
      PROVE  <<i, j>> \in reduce_transitivity(Adj)
  <2>1. <<i, j>> \in Adj /\ i # j
    BY <1>2 DEF CoversIn
  <2>2. ASSUME NEW f \in Adj, f[1] # f[2], f[1] = i, f[2] # j, <<f[2], j>> \in Adj
        PROVE  FALSE
    <3>1. f[2] \in N /\ <<i, f[2]>> \in Adj
      BY <1>0, <2>2
    <3> QED BY <1>2, <2>2, <3>1 DEF CoversIn
  <2> QED BY <2>1, <2>2 DEF reduce_transitivity
<1>3. reduce_transitivity(Adj) \subseteq N \X N
  BY DEF reduce_transitivity, IsOrder
<1> QED BY <1>1, <1>2, <1>3

\* Between two concepts, one below the other, there are a concept that the upper
\* one covers and one that covers the lower one.
LEMMA CoverBetween ==
  ASSUME NEW N, IsFiniteSet(N), NEW Adj, IsOrder(N, Adj),
         NEW i \in N, NEW j \in N, <<i, j>> \in Adj, i # j
  PROVE  /\ \E c \in N : CoversIn(N, Adj, j, c) /\ <<i, c>> \in Adj
         /\ \E c \in N : CoversIn(N, Adj, c, i) /\ <<c, j>> \in Adj
<1>1. \E c \in N : CoversIn(N, Adj, j, c) /\ <<i, c>> \in Adj
  <2> DEFINE S == {k \in N : <<i, k>> \in Adj /\ <<k, j>> \in Adj /\ k # j}
  <2>1. S \in SUBSET N /\ i \in S
    BY DEF IsOrder
  <2>2. PICK c \in S : \A k \in S : <<c, k>> \in Adj => k = c
    <3> HIDE DEF S
    <3>1. S # {}
      BY <2>1
    <3> QED BY <2>1, <3>1, Extremal
  <2>3. ASSUME NEW k \in N, <<c, k>> \in Adj, <<k, j>> \in Adj PROVE k \in {c, j}
    BY <2>2, <2>3 DEF IsOrder
  <2> QED BY <2>2, <2>3 DEF CoversIn
<1>2. \E c \in N : CoversIn(N, Adj, c, i) /\ <<c, j>> \in Adj
  <2> DEFINE S == {k \in N : <<i, k>> \in Adj /\ <<k, j>> \in Adj /\ k # i}
  <2>1. S \in SUBSET N /\ j \in S
    BY DEF IsOrder
  <2>2. PICK c \in S : \A k \in S : <<k, c>> \in Adj => k = c
    <3> HIDE DEF S
    <3>1. S # {}
      BY <2>1
    <3> QED BY <2>1, <3>1, Extremal
  <2>3. ASSUME NEW k \in N, <<i, k>> \in Adj, <<k, c>> \in Adj PROVE k \in {c, i}
    BY <2>2, <2>3 DEF IsOrder
  <2> QED BY <2>2, <2>3 DEF CoversIn
<1> QED BY <1>1, <1>2

\* meet and join of a set of concepts are concepts, and its bounds when these exist.
LEMMA SetBoundsType ==
  ASSUME NEW N, NEW Adj, Adj \subseteq N \X N, NEW S
  PROVE  meet(Adj, S) \subseteq N /\ join(Adj, S) \subseteq N
<1>1. \A a : Downset(Adj, a) \subseteq N /\ Upset(Adj, a) \subseteq N
  BY DownUp
<1> QED BY <1>1 DEF meet, join

LEMMA SetBoundsRight ==
  ASSUME NEW N \in SUBSET Nat, IsFiniteSet(N), NEW Adj, IsOrder(N, Adj),
         NEW S \in SUBSET N, S # {}
  PROVE  /\ Infs(N, Adj, S) # {} => meet(Adj, S) = Infs(N, Adj, S)
         /\ Sups(N, Adj, S) # {} => join(Adj, S) = Sups(N, Adj, S)
<1>0. /\ \A a, k : k \in Downset(Adj, a) <=> k \in N /\ <<k, a>> \in Adj
      /\ \A a, k : k \in Upset(Adj, a) <=> k \in N /\ <<a, k>> \in Adj
  BY DownUp DEF IsOrder
<1>1. Min(S) \in S
  BY NatMin
<1>2. ASSUME NEW l \in Infs(N, Adj, S) PROVE meet(Adj, S) = Infs(N, Adj, S)
  <2> DEFINE candidates == {k \in Downset(Adj, Min(S)) : \A i \in S : <<k, i>> \in Adj}
             lowest == {k \in candidates : \A c \in candidates : <<c, k>> \in Adj}
  <2>1. \A k : k \in candidates <=> k \in N /\ \A i \in S : <<k, i>> \in Adj
    BY <1>0, <1>1
  <2>2. meet(Adj, S) = IF Cardinality(candidates) > 1 THEN lowest ELSE candidates
    BY DEF meet
  <2>3. candidates \in SUBSET N /\ IsFiniteSet(candidates) /\ l \in candidates
    <3>1. candidates \in SUBSET N /\ l \in candidates
      BY <2>1 DEF Infs
    <3> QED BY <3>1, FS_Subset
  <2> HIDE DEF candidates
  <2>4. lowest = Infs(N, Adj, S)
    BY <2>1 DEF Infs
  <2>5. CASE Cardinality(candidates) > 1
    BY <2>2, <2>4, <2>5
  <2>6. CASE ~ (Cardinality(candidates) > 1)
    <3>1. Cardinality(candidates) \in Nat /\ Cardinality(candidates) # 0
      BY <2>3, FS_CardinalityType, FS_EmptySet
    <3>2. Cardinality(candidates) = 1
      BY <2>6, <3>1
    <3>3. PICK x : candidates = {x}
      BY <2>3, <3>2, FS_Singleton
    <3>4. candidates = {l} /\ lowest = {l}
      BY <2>3, <3>3 DEF IsOrder
    <3> QED BY <2>2, <2>4, <2>6, <3>4
  <2> QED BY <2>5, <2>6
<1>3. ASSUME NEW u \in Sups(N, Adj, S) PROVE join(Adj, S) = Sups(N, Adj, S)
  <2> DEFINE candidates == {k \in Upset(Adj, Min(S)) : \A i \in S : <<i, k>> \in Adj}
             lowest == {k \in candidates : \A c \in candidates : <<k, c>> \in Adj}
  <2>1. \A k : k \in candidates <=> k \in N /\ \A i \in S : <<i, k>> \in Adj
    BY <1>0, <1>1
  <2>2. join(Adj, S) = IF Cardinality(candidates) > 1 THEN lowest ELSE candidates
    BY DEF join
  <2>3. candidates \in SUBSET N /\ IsFiniteSet(candidates) /\ u \in candidates
    <3>1. candidates \in SUBSET N /\ u \in candidates
      BY <2>1 DEF Sups
    <3> QED BY <3>1, FS_Subset
  <2> HIDE DEF candidates
  <2>4. lowest = Sups(N, Adj, S)
    BY <2>1 DEF Sups
  <2>5. CASE Cardinality(candidates) > 1
    BY <2>2, <2>4, <2>5
  <2>6. CASE ~ (Cardinality(candidates) > 1)
    <3>1. Cardinality(candidates) \in Nat /\ Cardinality(candidates) # 0
      BY <2>3, FS_CardinalityType, FS_EmptySet
    <3>2. Cardinality(candidates) = 1
      BY <2>6, <3>1
    <3>3. PICK x : candidates = {x}
      BY <2>3, <3>2, FS_Singleton
    <3>4. candidates = {u} /\ lowest = {u}
      BY <2>3, <3>3 DEF IsOrder
    <3> QED BY <2>2, <2>4, <2>6, <3>4
  <2> QED BY <2>5, <2>6
<1> QED BY <1>2, <1>3

\* The bounds of two concepts of a lattice, as concepts.
LEMMA PairBounds ==
  ASSUME NEW N, NEW Adj, IsLatticeOrder(N, Adj), NEW i \in N, NEW j \in N
  PROVE  /\ \E u \in N : u \in Sups(N, Adj, {i, j})
         /\ \E l \in N : l \in Infs(N, Adj, {i, j})
<1>1. Sups(N, Adj, {i, j}) # {} /\ Infs(N, Adj, {i, j}) # {}
  BY DEF IsLatticeOrder
<1>2. Sups(N, Adj, {i, j}) \subseteq N /\ Infs(N, Adj, {i, j}) \subseteq N
  BY DEF Sups, Infs
<1> QED BY <1>1, <1>2

\* With the bounds of two concepts there are those of any number of them: a
\* smallest set without one could be made smaller.
LEMMA FiniteSups ==
  ASSUME NEW N, IsFiniteSet(N), NEW Adj, IsLatticeOrder(N, Adj),
         NEW S \in SUBSET N, S # {}
  PROVE  Sups(N, Adj, S) # {}
<1> DEFINE Bad == {T \in SUBSET N : T # {} /\ Sups(N, Adj, T) = {}}
           Sizes == {Cardinality(T) : T \in Bad}
<1>1. SUFFICES ASSUME S \in Bad PROVE FALSE
  OBVIOUS
<1>2. \A T \in SUBSET N : IsFiniteSet(T) /\ Cardinality(T) \in Nat
  BY FS_Subset, FS_CardinalityType
<1>3. PICK T \in Bad : \A U \in Bad : Cardinality(T) <= Cardinality(U)
  <2>1. Sizes \in SUBSET Nat /\ Sizes # {}
    BY <1>1, <1>2
  <2>2. Min(Sizes) \in Sizes /\ \A x \in Sizes : Min(Sizes) <= x
    <3> HIDE DEF Sizes
    <3> QED BY <2>1, NatMin
  <2> QED BY <2>2
<1>4. PICK t \in T : TRUE
  OBVIOUS
<1>5. T \ {t} \notin Bad
  <2>1. Cardinality(T \ {t}) = Cardinality(T) - 1
    BY <1>2, FS_RemoveElement
  <2> QED BY <1>2, <1>3, <2>1
<1>6. t \in N /\ Sups(N, Adj, {t, t}) # {}
  BY DEF IsLatticeOrder
<1>7. CASE T = {t}
  <2>1. {t, t} = T
    BY <1>7
  <2> QED BY <1>6, <2>1
<1>8. CASE T # {t}
  <2>1. T \ {t} # {} /\ T \ {t} \in SUBSET N
    BY <1>8
  <2>2. PICK u \in N : u \in Sups(N, Adj, T \ {t})
    BY <1>5, <2>1 DEF Sups
  <2>3. PICK v \in N : v \in Sups(N, Adj, {u, t})
    BY <1>6, PairBounds
  <2>4. ASSUME NEW i \in T PROVE <<i, v>> \in Adj
    <3>1. <<u, v>> \in Adj /\ <<t, v>> \in Adj
      BY <2>3 DEF Sups
    <3>2. i # t => <<i, u>> \in Adj
      BY <2>2 DEF Sups
    <3> QED BY <3>1, <3>2, <1>3 DEF IsLatticeOrder, IsOrder
  <2>5. ASSUME NEW k \in N, \A i \in T : <<i, k>> \in Adj PROVE <<v, k>> \in Adj
    <3>1. <<u, k>> \in Adj
      BY <2>2, <2>5 DEF Sups
    <3> QED BY <1>4, <2>3, <2>5, <3>1 DEF Sups
  <2>6. v \in Sups(N, Adj, T)
    BY <2>4, <2>5 DEF Sups
  <2> QED BY <2>6
<1> QED BY <1>7, <1>8

LEMMA FiniteInfs ==
  ASSUME NEW N, IsFiniteSet(N), NEW Adj, IsLatticeOrder(N, Adj),
         NEW S \in SUBSET N, S # {}
  PROVE  Infs(N, Adj, S) # {}
<1>1. IsOrder(N, Adj)
  BY DEF IsLatticeOrder
<1>2. IsLatticeOrder(N, Dual(Adj)) /\ Sups(N, Dual(Adj), S) = Infs(N, Adj, S)
  BY <1>1, DualOrder
<1> QED BY <1>2, FiniteSups

\* The elements with one lower neighbour.
Irreducibles(N, Adj) ==
  {j \in N : Cardinality(Downset(reduce_transitivity(Adj), j)) = 1}

\* An irreducible concept has another below it, which all concepts properly
\* below it are below.
LEMMA IrreducibleBelow ==
  ASSUME NEW N, IsFiniteSet(N), NEW Adj, IsOrder(N, Adj)
  PROVE  /\ \A j \in Irreducibles(N, Adj) :
              \E d \in N : /\ <<d, j>> \in Adj /\ d # j
                           /\ \A k \in N : <<k, j>> \in Adj /\ k # j => <<k, d>> \in Adj
         /\ \A j \in N : j \notin Irreducibles(N, Adj) =>
              \/ \A k \in N : <<k, j>> \in Adj => k = j
              \/ \E a, b \in N : a # b /\ CoversIn(N, Adj, j, a) /\ CoversIn(N, Adj, j, b)
<1> DEFINE Cov == reduce_transitivity(Adj)
<1>1. \A j \in N : \A k : k \in Downset(Cov, j) <=> k \in N /\ CoversIn(N, Adj, j, k)
  <2>1. Cov \subseteq N \X N
    BY ReductionRight
  <2>2. \A j, k : k \in Downset(Cov, j) <=> k \in N /\ <<k, j>> \in Cov
    <3> HIDE DEF Cov
    <3> QED BY <2>1, DownUp
  <2> QED BY <2>2, ReductionRight
<1>2. \A j \in N : Downset(Cov, j) \in SUBSET N /\ IsFiniteSet(Downset(Cov, j))
  <2>1. \A j \in N : Downset(Cov, j) \in SUBSET N
    BY <1>1
  <2> QED BY <2>1, FS_Subset
<1>3. \A j \in Irreducibles(N, Adj) : j \in N /\ Cardinality(Downset(Cov, j)) = 1
  BY DEF Irreducibles
<1>4. \A j \in N : j \notin Irreducibles(N, Adj) => Cardinality(Downset(Cov, j)) # 1
  BY DEF Irreducibles
<1> HIDE DEF Cov
<1>5. ASSUME NEW j \in Irreducibles(N, Adj)
      PROVE  \E d \in N : /\ <<d, j>> \in Adj /\ d # j
                          /\ \A k \in N : <<k, j>> \in Adj /\ k # j => <<k, d>> \in Adj
  <2>1. PICK d : Downset(Cov, j) = {d}
    BY <1>2, <1>3, FS_Singleton
  <2>2. d \in N /\ CoversIn(N, Adj, j, d)
    BY <1>1, <1>3, <2>1
  <2>3. ASSUME NEW k \in N, <<k, j>> \in Adj, k # j PROVE <<k, d>> \in Adj
    <3>1. PICK c \in N : CoversIn(N, Adj, j, c) /\ <<k, c>> \in Adj
      BY <1>3, <2>3, CoverBetween
    <3>2. c = d
      BY <1>1, <1>3, <2>1, <3>1
    <3> QED BY <3>1, <3>2
  <2> QED BY <2>2, <2>3 DEF CoversIn
<1>6. ASSUME NEW j \in N, j \notin Irreducibles(N, Adj), NEW k \in N, <<k, j>> \in Adj, k # j
      PROVE  \E a, b \in N : a # b /\ CoversIn(N, Adj, j, a) /\ CoversIn(N, Adj, j, b)
  <2>1. PICK c \in N : CoversIn(N, Adj, j, c)
    BY <1>6, CoverBetween
  <2>2. c \in Downset(Cov, j)
    BY <1>1, <2>1
  <2>3. Downset(Cov, j) # {c}
    BY <1>2, <1>4, <1>6, FS_Singleton
  <2>4. PICK b \in Downset(Cov, j) : b # c
    BY <2>2, <2>3
  <2> QED BY <1>1, <2>1, <2>4
<1> QED BY <1>5, <1>6

\* In a lattice every concept is the supremum of the irreducible ones below it,
\* and none of these can be spared.
LEMMA IrreduciblesLaw ==
  ASSUME NEW N, IsFiniteSet(N), NEW Adj, IsLatticeOrder(N, Adj)
  PROVE  /\ \A c \in N : c \in Sups(N, Adj, {j \in Irreducibles(N, Adj) : <<j, c>> \in Adj})
         /\ \A j \in Irreducibles(N, Adj) :
              j \notin Sups(N, Adj, {k \in Irreducibles(N, Adj) : <<k, j>> \in Adj} \ {j})
<1> DEFINE J(c) == {j \in Irreducibles(N, Adj) : <<j, c>> \in Adj}
           Bad == {c \in N : c \notin Sups(N, Adj, J(c))}
<1>0. IsOrder(N, Adj) /\ Irreducibles(N, Adj) \subseteq N
  BY DEF IsLatticeOrder, Irreducibles
<1>1. ASSUME Bad # {} PROVE FALSE
  <2>1. PICK c \in Bad : \A d \in Bad : <<d, c>> \in Adj => d = c
    <3>1. Bad \in SUBSET N
      OBVIOUS
    <3> HIDE DEF Bad
    <3> QED BY <1>0, <1>1, <3>1, Extremal
  <2>2. PICK k \in N : (\A i \in J(c) : <<i, k>> \in Adj) /\ <<c, k>> \notin Adj
    BY <2>1 DEF Sups
  <2>3. c \in N /\ c \notin Irreducibles(N, Adj)
    BY <1>0, <2>1, <2>2 DEF IsOrder
  <2>4. ~ \A d \in N : <<d, c>> \in Adj => d = c
    <3>1. PICK l \in N : l \in Infs(N, Adj, {c, k})
      BY <2>3, PairBounds
    <3>2. <<l, c>> \in Adj /\ <<l, k>> \in Adj
      BY <3>1 DEF Infs
    <3> QED BY <2>2, <3>2
  <2>5. PICK a \in N, b \in N : a # b /\ CoversIn(N, Adj, c, a) /\ CoversIn(N, Adj, c, b)
    <3> HIDE DEF Bad, J
    <3> QED BY <1>0, <2>3, <2>4, IrreducibleBelow
  <2>6. ASSUME NEW d \in N, CoversIn(N, Adj, c, d) PROVE <<d, k>> \in Adj
    <3>1. d # c /\ <<d, c>> \in Adj
      BY <2>6 DEF CoversIn
    <3>2. d \in Sups(N, Adj, J(d))
      BY <2>1, <3>1
    <3>3. \A i \in J(d) : i \in J(c)
      BY <1>0, <2>3, <3>1 DEF IsOrder
    <3> QED BY <2>2, <3>2, <3>3 DEF Sups
  <2>7. PICK v \in N : v \in Sups(N, Adj, {a, b})
    BY PairBounds
  <2> HIDE DEF Bad, J
  <2>8. <<v, k>> \in Adj /\ <<v, c>> \in Adj /\ <<a, v>> \in Adj /\ <<b, v>> \in Adj
    BY <2>3, <2>5, <2>6, <2>7 DEF Sups, CoversIn
  <2>9. v = c
    <3>1. v \in {a, c} /\ v \in {b, c}
      BY <2>3, <2>5, <2>7, <2>8 DEF CoversIn
    <3> QED BY <2>5, <3>1
  <2> QED BY <2>2, <2>8, <2>9
<1>2. ASSUME NEW j \in Irreducibles(N, Adj), j \in Sups(N, Adj, J(j) \ {j}) PROVE FALSE
  <2>1. PICK d \in N : /\ <<d, j>> \in Adj /\ d # j
                       /\ \A k \in N : <<k, j>> \in Adj /\ k # j => <<k, d>> \in Adj
    <3>1. \A q \in Irreducibles(N, Adj) :
            \E e \in N : /\ <<e, q>> \in Adj /\ e # q
                         /\ \A k \in N : <<k, q>> \in Adj /\ k # q => <<k, e>> \in Adj
      BY <1>0, IrreducibleBelow
    <3> QED BY <3>1
  <2>2. \A k \in J(j) \ {j} : <<k, d>> \in Adj
    BY <1>0, <2>1
  <2>3. <<j, d>> \in Adj
    BY <1>2, <2>2 DEF Sups
  <2> QED BY <1>0, <2>1, <2>3 DEF IsOrder
<1> QED BY <1>1, <1>2

MeetIrreduciblesAbove(N, Adj, C) == {m \in Irreducibles(N, Dual(Adj)) : <<C, m>> \in Adj}
Lowest(Adj, S) == {m \in S : \A k \in S : <<k, m>> \in Adj => k = m}

\* A concept of a lattice is the infimum of the lowest of the concepts above it
\* that are irreducible in the dual order.
LEMMA DecomposeLaw ==
  ASSUME NEW N, IsFiniteSet(N), NEW Adj, IsLatticeOrder(N, Adj), NEW C \in N
  PROVE  C \in Infs(N, Adj, Lowest(Adj, MeetIrreduciblesAbove(N, Adj, C)))
<1> DEFINE id == {m \in Irreducibles(N, Dual(Adj)) : <<C, m>> \in Adj}
           lowest == {m \in id : \A k \in id : <<k, m>> \in Adj => k = m}
<1>0. IsOrder(N, Adj) /\ id \in SUBSET N
  BY DEF IsLatticeOrder, Irreducibles
<1>1. /\ IsLatticeOrder(N, Dual(Adj))
      /\ \A i, j : <<i, j>> \in Dual(Adj) <=> <<j, i>> \in Adj
      /\ \A S : Sups(N, Dual(Adj), S) = Infs(N, Adj, S)
  BY <1>0, DualOrder
<1>2. C \in Infs(N, Adj, id)
  <2>1. \A c \in N : c \in Sups(N, Dual(Adj),
                              {j \in Irreducibles(N, Dual(Adj)) : <<j, c>> \in Dual(Adj)})
    BY <1>1, IrreduciblesLaw
  <2>2. id = {j \in Irreducibles(N, Dual(Adj)) : <<j, C>> \in Dual(Adj)}
    BY <1>1
  <2> QED BY <1>1, <2>1, <2>2
<1>3. ASSUME NEW m \in id PROVE \E k \in lowest : <<k, m>> \in Adj
  <2> DEFINE S == {k \in id : <<k, m>> \in Adj}
  <2>1. S \in SUBSET N /\ m \in S
    BY <1>0 DEF IsOrder
  <2>2. PICK k \in S : \A l \in S : <<l, k>> \in Adj => l = k
    <3> HIDE DEF S
    <3> QED BY <1>0, <2>1, Extremal
  <2>3. ASSUME NEW l \in id, <<l, k>> \in Adj PROVE l = k
    <3>1. <<l, m>> \in Adj
      BY <1>0, <2>2, <2>3 DEF IsOrder
    <3> QED BY <2>2, <2>3, <3>1
  <2> QED BY <2>2, <2>3
<1>4. ASSUME NEW d \in N, \A m \in lowest : <<d, m>> \in Adj PROVE <<d, C>> \in Adj
  <2>1. ASSUME NEW m \in id PROVE <<d, m>> \in Adj
    <3>1. PICK k \in lowest : <<k, m>> \in Adj
      BY <1>3
    <3> QED BY <1>0, <1>4, <3>1 DEF IsOrder
  <2> QED BY <1>2, <2>1 DEF Infs
<1>5. \A m \in lowest : <<C, m>> \in Adj
  OBVIOUS
<1>6. lowest = Lowest(Adj, MeetIrreduciblesAbove(N, Adj, C))
  BY DEF Lowest, MeetIrreduciblesAbove
<1> QED BY <1>4, <1>5, <1>6 DEF Infs

-----------------------------------------------------------------------------
\* Distributive, modular and semimodular lattices.

\* m and j give the meet and the join of every two concepts.
IsMeetJoin(N, Adj, m, j) ==
  \A x, y \in N :
    /\ m[x][y] \in N /\ <<m[x][y], x>> \in Adj /\ <<m[x][y], y>> \in Adj
    /\ \A k \in N : <<k, x>> \in Adj /\ <<k, y>> \in Adj => <<k, m[x][y]>> \in Adj
    /\ j[x][y] \in N /\ <<x, j[x][y]>> \in Adj /\ <<y, j[x][y]>> \in Adj
    /\ \A k \in N : <<x, k>> \in Adj /\ <<y, k>> \in Adj => <<j[x][y], k>> \in Adj

Distributive(N, m, j) == \A x, y, z \in N : m[x][j[y][z]] = j[m[x][y]][m[x][z]]

Modular(N, m, j) ==
  \A x, z \in N : m[x][z] = x => \A y \in N : j[x][m[y][z]] = m[j[x][y]][z]

\* No two elements (comparable elements) have the same meet and the same join
\* with a third.
Cancels(N, m, j) == \A x, y, z \in N : m[x][y] = m[x][z] /\ j[x][y] = j[x][z] => y = z
CancelsBelow(N, Adj, m, j) ==
  \A x, y, z \in N : <<y, z>> \in Adj /\ m[x][y] = m[x][z] /\ j[x][y] = j[x][z] => y = z

\* The modular law in terms of the order.
LEMMA ModularLaw ==
  ASSUME NEW N, NEW Adj, IsOrder(N, Adj), NEW m, NEW j, IsMeetJoin(N, Adj, m, j)
  PROVE  /\ \A x, y \in N : m[x][y] = m[y][x] /\ j[x][y] = j[y][x]
         /\ \A x, y \in N : <<x, y>> \in Adj <=> m[x][y] = x
         /\ \A x, y \in N : <<x, y>> \in Adj <=> j[x][y] = y
         /\ Modular(N, m, j) <=>
              \A x, y, z \in N : <<x, z>> \in Adj => j[x][m[y][z]] = m[j[x][y]][z]
<1>1. ASSUME NEW x \in N, NEW y \in N PROVE m[x][y] = m[y][x] /\ j[x][y] = j[y][x]
  <2>1. /\ m[x][y] \in N /\ <<m[x][y], x>> \in Adj /\ <<m[x][y], y>> \in Adj
        /\ \A k \in N : <<k, x>> \in Adj /\ <<k, y>> \in Adj => <<k, m[x][y]>> \in Adj
        /\ m[y][x] \in N /\ <<m[y][x], x>> \in Adj /\ <<m[y][x], y>> \in Adj
        /\ \A k \in N : <<k, x>> \in Adj /\ <<k, y>> \in Adj => <<k, m[y][x]>> \in Adj
    BY DEF IsMeetJoin
  <2>2. /\ j[x][y] \in N /\ <<x, j[x][y]>> \in Adj /\ <<y, j[x][y]>> \in Adj
        /\ \A k \in N : <<x, k>> \in Adj /\ <<y, k>> \in Adj => <<j[x][y], k>> \in Adj
        /\ j[y][x] \in N /\ <<x, j[y][x]>> \in Adj /\ <<y, j[y][x]>> \in Adj
        /\ \A k \in N : <<x, k>> \in Adj /\ <<y, k>> \in Adj => <<j[y][x], k>> \in Adj
    BY DEF IsMeetJoin
  <2>3. <<m[x][y], m[y][x]>> \in Adj /\ <<m[y][x], m[x][y]>> \in Adj
    BY <2>1
  <2>4. <<j[x][y], j[y][x]>> \in Adj /\ <<j[y][x], j[x][y]>> \in Adj
    BY <2>2
  <2> QED BY <2>1, <2>2, <2>3, <2>4 DEF IsOrder
<1>2. \A x, y \in N : <<x, y>> \in Adj <=> m[x][y] = x
  BY DEF IsOrder, IsMeetJoin
<1>3. \A x, y \in N : <<x, y>> \in Adj <=> j[x][y] = y
  BY DEF IsOrder, IsMeetJoin
<1>4. Modular(N, m, j) <=>
        \A x, y, z \in N : <<x, z>> \in Adj => j[x][m[y][z]] = m[j[x][y]][z]
  <2>1. Modular(N, m, j) <=>
          \A x, y, z \in N : m[x][z] = x => j[x][m[y][z]] = m[j[x][y]][z]
    BY Zenon DEF Modular
  <2> HIDE DEF Modular
  <2>2. ASSUME \A x, y, z \in N : m[x][z] = x => j[x][m[y][z]] = m[j[x][y]][z],
               NEW x \in N, NEW y \in N, NEW z \in N, <<x, z>> \in Adj
        PROVE  j[x][m[y][z]] = m[j[x][y]][z]
    <3>1. m[x][z] = x
      BY <1>2, <2>2
    <3> QED BY <2>2, <3>1, Zenon
  <2>3. ASSUME \A x, y, z \in N : <<x, z>> \in Adj => j[x][m[y][z]] = m[j[x][y]][z],
               NEW x \in N, NEW y \in N, NEW z \in N, m[x][z] = x
        PROVE  j[x][m[y][z]] = m[j[x][y]][z]
    <3>1. <<x, z>> \in Adj
      BY <1>2, <2>3
    <3> QED BY <2>3, <3>1, Zenon
  <2> QED BY <2>1, <2>2, <2>3, Zenon
<1> QED BY <1>1, <1>2, <1>3, <1>4

\* A lattice is modular when no two comparable elements have the same meet and
\* the same join with a third.
LEMMA ModularByCancelling ==
  ASSUME NEW N, NEW Adj, IsOrder(N, Adj), NEW m, NEW j, IsMeetJoin(N, Adj, m, j)
  PROVE  Modular(N, m, j) <=> CancelsBelow(N, Adj, m, j)
<1>1. ASSUME Modular(N, m, j), NEW x \in N, NEW y \in N, NEW z \in N,
             <<y, z>> \in Adj, m[x][y] = m[x][z], j[x][y] = j[x][z]
      PROVE  y = z
  <2>1. j[y][m[x][z]] = m[j[y][x]][z]
    BY <1>1, ModularLaw
  <2>2. m[j[y][x]][z] = z
    <3>0. j[x][z] \in N /\ <<z, j[x][z]>> \in Adj
      BY DEF IsMeetJoin
    <3>1. j[y][x] = j[x][z] /\ j[x][z] \in N /\ <<z, j[x][z]>> \in Adj
      BY <1>1, <3>0, ModularLaw
    <3>2. m[z][j[x][z]] = z /\ m[z][j[x][z]] = m[j[x][z]][z]
      BY <3>1, ModularLaw
    <3> QED BY <3>1, <3>2
  <2>3. j[y][m[x][z]] = y
    <3>1. m[x][y] \in N /\ <<m[x][y], y>> \in Adj
      BY DEF IsMeetJoin
    <3>2. j[m[x][y]][y] = y /\ j[m[x][y]][y] = j[y][m[x][y]]
      BY <3>1, ModularLaw
    <3> QED BY <1>1, <3>2
  <2> QED BY <2>1, <2>2, <2>3
<1>2. ASSUME \A x, y, z \in N :
               <<y, z>> \in Adj /\ m[x][y] = m[x][z] /\ j[x][y] = j[x][z] => y = z,
             NEW x \in N, NEW y \in N, NEW z \in N, <<x, z>> \in Adj
      PROVE  j[x][m[y][z]] = m[j[x][y]][z]
  <2> DEFINE d == m[y][z]
             e == j[x][y]
             a == j[x][d]
             b == m[e][z]
  <2>1. /\ d \in N /\ <<d, y>> \in Adj /\ <<d, z>> \in Adj
        /\ e \in N /\ <<x, e>> \in Adj /\ <<y, e>> \in Adj
    BY DEF IsMeetJoin
  <2>2. /\ a \in N /\ <<x, a>> \in Adj /\ <<d, a>> \in Adj
        /\ \A k \in N : <<x, k>> \in Adj /\ <<d, k>> \in Adj => <<a, k>> \in Adj
        /\ b \in N /\ <<b, e>> \in Adj /\ <<b, z>> \in Adj
        /\ \A k \in N : <<k, e>> \in Adj /\ <<k, z>> \in Adj => <<k, b>> \in Adj
    <3> HIDE DEF d, e
    <3> QED BY <2>1 DEF IsMeetJoin
  <2>3. /\ \A k \in N : <<k, y>> \in Adj /\ <<k, z>> \in Adj => <<k, d>> \in Adj
        /\ \A k \in N : <<x, k>> \in Adj /\ <<y, k>> \in Adj => <<e, k>> \in Adj
    BY DEF IsMeetJoin
  <2> HIDE DEF a, b, d, e
  <2>4. <<a, b>> \in Adj
    BY <1>2, <2>1, <2>2 DEF IsOrder
  <2>5. m[y][a] = m[y][b]
    <3>1. \A k \in N : <<k, y>> \in Adj /\ <<k, a>> \in Adj => <<k, b>> \in Adj
      BY <2>2, <2>4 DEF IsOrder
    <3>2. \A k \in N : <<k, y>> \in Adj /\ <<k, b>> \in Adj => <<k, a>> \in Adj
      <4>1. ASSUME NEW k \in N, <<k, y>> \in Adj, <<k, b>> \in Adj PROVE <<k, a>> \in Adj
        <5>1. <<k, z>> \in Adj
          BY <2>2, <4>1 DEF IsOrder
        <5>2. <<k, d>> \in Adj
          BY <2>3, <4>1, <5>1
        <5> QED BY <2>1, <2>2, <5>2 DEF IsOrder
      <4> QED BY <4>1
    <3>3. /\ m[y][a] \in N /\ <<m[y][a], y>> \in Adj /\ <<m[y][a], a>> \in Adj
          /\ m[y][b] \in N /\ <<m[y][b], y>> \in Adj /\ <<m[y][b], b>> \in Adj
      BY <2>2 DEF IsMeetJoin
    <3>4. <<m[y][a], m[y][b]>> \in Adj /\ <<m[y][b], m[y][a]>> \in Adj
      BY <2>2, <3>1, <3>2, <3>3 DEF IsMeetJoin
    <3> QED BY <3>3, <3>4 DEF IsOrder
  <2>6. j[y][a] = j[y][b]
    <3>1. \A k \in N : <<y, k>> \in Adj /\ <<b, k>> \in Adj => <<a, k>> \in Adj
      BY <2>2, <2>4 DEF IsOrder
    <3>2. \A k \in N : <<y, k>> \in Adj /\ <<a, k>> \in Adj => <<b, k>> \in Adj
      <4>1. ASSUME NEW k \in N, <<y, k>> \in Adj, <<a, k>> \in Adj PROVE <<b, k>> \in Adj
        <5>1. <<x, k>> \in Adj
          BY <2>2, <4>1 DEF IsOrder
        <5>2. <<e, k>> \in Adj
          BY <2>3, <4>1, <5>1
        <5> QED BY <2>1, <2>2, <5>2 DEF IsOrder
      <4> QED BY <4>1
    <3>3. /\ j[y][a] \in N /\ <<y, j[y][a]>> \in Adj /\ <<a, j[y][a]>> \in Adj
          /\ j[y][b] \in N /\ <<y, j[y][b]>> \in Adj /\ <<b, j[y][b]>> \in Adj
      BY <2>2 DEF IsMeetJoin
    <3>4. <<j[y][a], j[y][b]>> \in Adj /\ <<j[y][b], j[y][a]>> \in Adj
      BY <2>2, <3>1, <3>2, <3>3 DEF IsMeetJoin
    <3> QED BY <3>3, <3>4 DEF IsOrder
  <2>7. a = b
    BY <1>2, <2>2, <2>4, <2>5, <2>6
  <2> QED BY <2>7 DEF a, b, d, e
<1>3. Modular(N, m, j) <=>
        \A x, y, z \in N : <<x, z>> \in Adj => j[x][m[y][z]] = m[j[x][y]][z]
  BY ModularLaw
<1> QED BY <1>1, <1>2, <1>3 DEF CancelsBelow

\* p is the join of the meets of two of x, y and z, and q is the meet of their joins.
Medians(N, Adj, m, j, x, y, z, p, q) ==
  /\ p \in N /\ q \in N
  /\ \A k \in N : <<p, k>> \in Adj <=>
       <<m[x][y], k>> \in Adj /\ <<m[x][z], k>> \in Adj /\ <<m[y][z], k>> \in Adj
  /\ \A k \in N : <<k, q>> \in Adj <=>
       <<k, j[x][y]>> \in Adj /\ <<k, j[x][z]>> \in Adj /\ <<k, j[y][z]>> \in Adj

\* In a modular lattice the three elements between the median bounds p and q of
\* x, y and z meet in p.
LEMMA MedianMeet ==
  ASSUME NEW N, NEW Adj, IsOrder(N, Adj), NEW m, NEW j, IsMeetJoin(N, Adj, m, j),
         Modular(N, m, j),
         NEW x \in N, NEW y \in N, NEW z \in N, NEW p, NEW q,
         Medians(N, Adj, m, j, x, y, z, p, q)
  PROVE  m[j[p][m[x][q]]][j[p][m[y][q]]] = p
<1> DEFINE xq == m[x][q]
           yq == m[y][q]
           v == j[p][yq]
           xz == m[x][z]
           r == j[xz][y]
<1> p \in N /\ q \in N
  BY DEF Medians
<1>0. \A a, b, c \in N : <<a, b>> \in Adj /\ <<b, c>> \in Adj => <<a, c>> \in Adj
  BY DEF IsOrder
<1>1. /\ xq \in N /\ <<xq, x>> \in Adj /\ <<xq, q>> \in Adj
      /\ yq \in N /\ <<yq, y>> \in Adj /\ <<yq, q>> \in Adj
      /\ xz \in N /\ <<xz, x>> \in Adj /\ <<xz, z>> \in Adj
  BY DEF IsMeetJoin
<1>2. /\ v \in N /\ <<p, v>> \in Adj /\ <<yq, v>> \in Adj
      /\ \A k \in N : <<p, k>> \in Adj /\ <<yq, k>> \in Adj => <<v, k>> \in Adj
      /\ r \in N /\ <<xz, r>> \in Adj /\ <<y, r>> \in Adj
  <2> HIDE DEF yq, xz
  <2> QED BY <1>1 DEF IsMeetJoin
<1>3. <<m[x][y], p>> \in Adj /\ <<xz, p>> \in Adj /\ <<m[y][z], p>> \in Adj
  BY DEF IsOrder, Medians
<1>4. /\ m[x][y] \in N /\ <<m[x][y], y>> \in Adj /\ m[y][z] \in N /\ <<m[y][z], y>> \in Adj
  BY DEF IsMeetJoin
<1>5. j[xz][m[y][x]] = m[r][x]
  <2>1. \A a, b, c \in N : <<a, c>> \in Adj => j[a][m[b][c]] = m[j[a][b]][c]
    BY ModularLaw
  <2> HIDE DEF xz
  <2> QED BY <1>1, <2>1
<1> HIDE DEF xq, yq, v, r
<1>6. j[p][m[xq][v]] = m[j[p][xq]][v]
  BY <1>1, <1>2, ModularLaw
<1>7. <<v, r>> \in Adj
  <2>1. <<m[x][y], r>> \in Adj /\ <<m[y][z], r>> \in Adj /\ <<yq, r>> \in Adj
    BY <1>0, <1>1, <1>2, <1>4
  <2>2. <<p, r>> \in Adj
    BY <1>2, <2>1 DEF Medians
  <2> QED BY <1>2, <2>1, <2>2
<1>8. <<m[xq][v], p>> \in Adj
  <2>1. m[xq][v] \in N /\ <<m[xq][v], xq>> \in Adj /\ <<m[xq][v], v>> \in Adj
    BY <1>1, <1>2 DEF IsMeetJoin
  <2>2. <<m[xq][v], x>> \in Adj /\ <<m[xq][v], r>> \in Adj
    BY <1>0, <1>1, <1>2, <1>7, <2>1
  <2>3. <<m[xq][v], m[r][x]>> \in Adj
    BY <1>2, <2>1, <2>2 DEF IsMeetJoin
  <2>4. <<m[r][x], p>> \in Adj /\ m[r][x] \in N
    <3>1. m[y][x] \in N /\ <<m[y][x], p>> \in Adj
      BY <1>3, <1>4, ModularLaw
    <3>2. j[xz][m[y][x]] \in N /\ <<j[xz][m[y][x]], p>> \in Adj
      <4> HIDE DEF xz
      <4> QED BY <1>1, <1>3, <3>1 DEF IsMeetJoin
    <3> QED BY <1>5, <3>2
  <2> QED BY <1>0, <2>1, <2>3, <2>4
<1>9. j[p][m[xq][v]] = p
  <2>1. m[xq][v] \in N
    BY <1>1, <1>2 DEF IsMeetJoin
  <2>2. j[p][m[xq][v]] = j[m[xq][v]][p]
    BY <2>1, ModularLaw
  <2>3. j[m[xq][v]][p] = p
    BY <1>8, <2>1, ModularLaw
  <2> QED BY <2>2, <2>3
<1> QED BY <1>6, <1>9 DEF xq, yq, v

\* They join in q.
LEMMA MedianJoin ==
  ASSUME NEW N, NEW Adj, IsOrder(N, Adj), NEW m, NEW j, IsMeetJoin(N, Adj, m, j),
         Modular(N, m, j),
         NEW x \in N, NEW y \in N, NEW z \in N, NEW p, NEW q,
         Medians(N, Adj, m, j, x, y, z, p, q)
  PROVE  /\ <<p, q>> \in Adj
         /\ j[j[p][m[x][q]]][j[p][m[y][q]]] = q
<1>0. p \in N /\ q \in N
  BY DEF Medians
<1>1. \A a, b : <<a, b>> \in Dual(Adj) <=> <<b, a>> \in Adj
  BY DualOrder
<1>2. IsOrder(N, Dual(Adj))
  BY DualOrder
<1>3. IsMeetJoin(N, Dual(Adj), j, m)
  BY <1>1 DEF IsMeetJoin
<1>4. /\ \A a, b \in N : m[a][b] = m[b][a] /\ j[a][b] = j[b][a]
      /\ \A a, b \in N : <<a, b>> \in Adj <=> j[a][b] = b
      /\ \A a, b, c \in N : <<a, c>> \in Adj => j[a][m[b][c]] = m[j[a][b]][c]
  BY ModularLaw
<1>5. \A a, b \in N : m[a][b] \in N /\ j[a][b] \in N
  BY DEF IsMeetJoin
<1>6. Modular(N, j, m)
  <2>1. ASSUME NEW a \in N, NEW c \in N, j[a][c] = a, NEW b \in N
        PROVE  m[a][j[b][c]] = j[m[a][b]][c]
    <3>1. j[c][a] = a
      BY <1>4, <2>1
    <3>2. <<c, a>> \in Adj
      BY <1>4, <3>1
    <3>3. j[c][m[b][a]] = m[j[c][b]][a]
      BY <1>4, <3>2
    <3>4. j[c][m[b][a]] = j[m[a][b]][c]
      BY <1>4, <1>5
    <3>5. m[j[c][b]][a] = m[a][j[b][c]]
      BY <1>4, <1>5
    <3> QED BY <3>3, <3>4, <3>5
  <2> QED BY <2>1 DEF Modular
<1>7. <<p, q>> \in Adj
  <2>1. /\ <<m[x][y], x>> \in Adj /\ <<m[x][y], y>> \in Adj /\ m[x][y] \in N
        /\ <<m[x][z], x>> \in Adj /\ <<m[x][z], z>> \in Adj /\ m[x][z] \in N
        /\ <<m[y][z], y>> \in Adj /\ <<m[y][z], z>> \in Adj /\ m[y][z] \in N
        /\ <<x, j[x][y]>> \in Adj /\ <<y, j[x][y]>> \in Adj /\ j[x][y] \in N
        /\ <<x, j[x][z]>> \in Adj /\ <<z, j[x][z]>> \in Adj /\ j[x][z] \in N
        /\ <<y, j[y][z]>> \in Adj /\ <<z, j[y][z]>> \in Adj /\ j[y][z] \in N
    BY DEF IsMeetJoin
  <2>2. \A a, b, c \in N : <<a, b>> \in Adj /\ <<b, c>> \in Adj => <<a, c>> \in Adj
    BY DEF IsOrder
  <2>3. <<m[x][y], q>> \in Adj
    BY <2>1, <2>2 DEF Medians
  <2>4. <<m[x][z], q>> \in Adj
    BY <2>1, <2>2 DEF Medians
  <2>5. <<m[y][z], q>> \in Adj
    BY <2>1, <2>2 DEF Medians
  <2> QED BY <1>0, <2>3, <2>4, <2>5 DEF Medians
<1>8. j[m[q][j[x][p]]][m[q][j[y][p]]] = q
  <2>1. Medians(N, Dual(Adj), j, m, x, y, z, q, p)
    BY <1>0, <1>1 DEF Medians
  <2> QED BY <1>2, <1>3, <1>6, <2>1, MedianMeet, Zenon
<1>9. ASSUME NEW a \in N PROVE m[q][j[a][p]] = j[p][m[a][q]]
  <2>1. j[p][m[a][q]] = m[j[p][a]][q]
    BY <1>0, <1>4, <1>7
  <2>2. m[j[p][a]][q] = m[q][j[a][p]]
    BY <1>0, <1>4, <1>5
  <2> QED BY <2>1, <2>2
<1> QED BY <1>7, <1>8, <1>9

\* A lattice is distributive when no two elements have the same meet and the
\* same join with a third.
LEMMA DistributiveByCancelling ==
  ASSUME NEW N, NEW Adj, IsOrder(N, Adj), NEW m, NEW j, IsMeetJoin(N, Adj, m, j)
  PROVE  Distributive(N, m, j) <=> Cancels(N, m, j)
<1>1. /\ \A a, b \in N : m[a][b] = m[b][a] /\ j[a][b] = j[b][a]
      /\ \A a, b \in N : <<a, b>> \in Adj <=> m[a][b] = a
  BY ModularLaw
<1>2. \A a, b \in N : m[a][b] \in N /\ j[a][b] \in N
  BY DEF IsMeetJoin
<1>3. ASSUME Distributive(N, m, j), NEW x \in N, NEW y \in N, NEW z \in N,
             m[x][y] = m[x][z], j[x][y] = j[x][z]
      PROVE  y = z
  <2>1. m[y][j[y][x]] = y /\ m[z][j[z][x]] = z
    <3>1. /\ j[y][x] \in N /\ <<y, j[y][x]>> \in Adj
          /\ j[z][x] \in N /\ <<z, j[z][x]>> \in Adj
      BY DEF IsMeetJoin
    <3> QED BY <1>1, <3>1
  <2>2. m[y][j[z][x]] = j[m[y][z]][m[y][x]]
    BY <1>3 DEF Distributive
  <2>3. m[z][j[y][x]] = j[m[z][y]][m[z][x]]
    BY <1>3 DEF Distributive
  <2>4. j[z][x] = j[y][x] /\ m[z][y] = m[y][z] /\ m[y][x] = m[z][x]
    BY <1>1, <1>3
  <2> QED BY <2>1, <2>2, <2>3, <2>4
<1>4. ASSUME \A x, y, z \in N : m[x][y] = m[x][z] /\ j[x][y] = j[x][z] => y = z,
             NEW x \in N, NEW y \in N, NEW z \in N
      PROVE  m[x][j[y][z]] = j[m[x][y]][m[x][z]]
  <2>0. Modular(N, m, j)
    <3>1. CancelsBelow(N, Adj, m, j)
      BY <1>4 DEF CancelsBelow
    <3> QED BY <3>1, ModularByCancelling
  <2>1. /\ \A a, b, c \in N : <<a, c>> \in Adj => j[a][m[b][c]] = m[j[a][b]][c]
        /\ \A a, b \in N : <<a, b>> \in Adj <=> j[a][b] = b
        /\ \A a, b, c \in N : <<a, b>> \in Adj /\ <<b, c>> \in Adj => <<a, c>> \in Adj
        /\ \A a, b \in N : <<a, b>> \in Adj /\ <<b, a>> \in Adj => a = b
    <3>1. /\ \A a, b, c \in N : <<a, c>> \in Adj => j[a][m[b][c]] = m[j[a][b]][c]
          /\ \A a, b \in N : <<a, b>> \in Adj <=> j[a][b] = b
      BY <2>0, ModularLaw
    <3> QED BY <3>1 DEF IsOrder
  <2> DEFINE p == j[j[m[x][y]][m[x][z]]][m[y][z]]
             q == m[m[j[x][y]][j[x][z]]][j[y][z]]
  <2>2. /\ p \in N
        /\ \A k \in N : <<p, k>> \in Adj <=>
             <<m[x][y], k>> \in Adj /\ <<m[x][z], k>> \in Adj /\ <<m[y][z], k>> \in Adj
    <3> DEFINE a == m[x][y]
               b == m[x][z]
               c == m[y][z]
               d == j[a][b]
    <3>1. a \in N /\ b \in N /\ c \in N
      BY <1>2
    <3> HIDE DEF a, b, c
    <3>2. /\ d \in N /\ <<a, d>> \in Adj /\ <<b, d>> \in Adj
          /\ \A k \in N : <<a, k>> \in Adj /\ <<b, k>> \in Adj => <<d, k>> \in Adj
      BY <3>1 DEF IsMeetJoin
    <3> HIDE DEF d
    <3>3. /\ j[d][c] \in N /\ <<d, j[d][c]>> \in Adj /\ <<c, j[d][c]>> \in Adj
          /\ \A k \in N : <<d, k>> \in Adj /\ <<c, k>> \in Adj => <<j[d][c], k>> \in Adj
      BY <3>1, <3>2 DEF IsMeetJoin
    <3>4. ASSUME NEW k \in N
          PROVE  <<j[d][c], k>> \in Adj <=>
                   <<a, k>> \in Adj /\ <<b, k>> \in Adj /\ <<c, k>> \in Adj
      <4>1. <<j[d][c], k>> \in Adj => <<d, k>> \in Adj /\ <<c, k>> \in Adj
        BY <2>1, <3>1, <3>2, <3>3
      <4>2. <<d, k>> \in Adj => <<a, k>> \in Adj /\ <<b, k>> \in Adj
        BY <2>1, <3>1, <3>2
      <4> QED BY <3>2, <3>3, <4>1, <4>2
    <3>5. p = j[d][c]
      BY DEF a, b, c, d
    <3> HIDE DEF p
    <3> QED BY <3>3, <3>4, <3>5 DEF a, b, c
  <2>3. /\ q \in N
        /\ \A k \in N : <<k, q>> \in Adj <=>
             <<k, j[x][y]>> \in Adj /\ <<k, j[x][z]>> \in Adj /\ <<k, j[y][z]>> \in Adj
    <3> DEFINE a == j[x][y]
               b == j[x][z]
               c == j[y][z]
               d == m[a][b]
    <3>1. a \in N /\ b \in N /\ c \in N
      BY <1>2
    <3> HIDE DEF a, b, c
    <3>2. /\ d \in N /\ <<d, a>> \in Adj /\ <<d, b>> \in Adj
          /\ \A k \in N : <<k, a>> \in Adj /\ <<k, b>> \in Adj => <<k, d>> \in Adj
      BY <3>1 DEF IsMeetJoin
    <3> HIDE DEF d
    <3>3. /\ m[d][c] \in N /\ <<m[d][c], d>> \in Adj /\ <<m[d][c], c>> \in Adj
          /\ \A k \in N : <<k, d>> \in Adj /\ <<k, c>> \in Adj => <<k, m[d][c]>> \in Adj
      BY <3>1, <3>2 DEF IsMeetJoin
    <3>4. ASSUME NEW k \in N
          PROVE  <<k, m[d][c]>> \in Adj <=>
                   <<k, a>> \in Adj /\ <<k, b>> \in Adj /\ <<k, c>> \in Adj
      <4>1. <<k, m[d][c]>> \in Adj => <<k, d>> \in Adj /\ <<k, c>> \in Adj
        BY <2>1, <3>1, <3>2, <3>3
      <4>2. <<k, d>> \in Adj => <<k, a>> \in Adj /\ <<k, b>> \in Adj
        BY <2>1, <3>1, <3>2
      <4> QED BY <3>2, <3>3, <4>1, <4>2
    <3>5. q = m[d][c]
      BY DEF a, b, c, d
    <3> HIDE DEF q
    <3> QED BY <3>3, <3>4, <3>5 DEF a, b, c
  <2>4. /\ m[x][y] = m[y][x] /\ m[x][z] = m[z][x] /\ m[y][z] = m[z][y]
        /\ j[x][y] = j[y][x] /\ j[x][z] = j[z][x] /\ j[y][z] = j[z][y]
    BY <1>1
  <2> DEFINE u == j[p][m[x][q]]
             v == j[p][m[y][q]]
             w == j[p][m[z][q]]
  <2>5. p = q
    <3> HIDE DEF p, q
    <3>0. /\ Medians(N, Adj, m, j, x, y, z, p, q)
          /\ Medians(N, Adj, m, j, x, z, y, p, q)
          /\ Medians(N, Adj, m, j, y, z, x, p, q)
      BY <2>2, <2>3, <2>4 DEF Medians
    <3>1. m[u][v] = p /\ j[u][v] = q
      <4>1. m[u][v] = p
        BY <2>0, <3>0, MedianMeet
      <4>2. <<p, q>> \in Adj /\ j[j[p][m[x][q]]][j[p][m[y][q]]] = q
        BY <2>0, <3>0, MedianJoin
      <4> QED BY <4>1, <4>2
    <3>2. m[u][w] = p /\ j[u][w] = q
      <4>1. m[u][w] = p
        BY <2>0, <3>0, MedianMeet
      <4>2. <<p, q>> \in Adj /\ j[j[p][m[x][q]]][j[p][m[z][q]]] = q
        BY <2>0, <3>0, MedianJoin
      <4> QED BY <4>1, <4>2
    <3>3. m[v][w] = p /\ j[v][w] = q
      <4>1. m[v][w] = p
        BY <2>0, <3>0, MedianMeet
      <4>2. <<p, q>> \in Adj /\ j[j[p][m[y][q]]][j[p][m[z][q]]] = q
        BY <2>0, <3>0, MedianJoin
      <4> QED BY <4>1, <4>2
    <3>4. u \in N /\ v \in N /\ w \in N
      <4>1. m[x][q] \in N /\ m[y][q] \in N /\ m[z][q] \in N
        BY <1>2, <2>3
      <4> QED BY <1>2, <2>2, <4>1
    <3> HIDE DEF u, v, w
    <3>5. v = w
      BY <1>4, <3>1, <3>2, <3>4
    <3>6. m[v][v] = v /\ j[v][v] = v
      BY <1>1, <2>1, <3>4 DEF IsOrder
    <3> QED BY <3>3, <3>5, <3>6
  <2> DEFINE b == j[m[x][y]][m[x][z]]
             a == m[x][j[y][z]]
  <2>6. /\ m[x][y] \in N /\ <<m[x][y], x>> \in Adj /\ <<m[x][y], y>> \in Adj
        /\ m[x][z] \in N /\ <<m[x][z], x>> \in Adj /\ <<m[x][z], z>> \in Adj
        /\ m[y][z] \in N /\ <<m[y][z], y>> \in Adj /\ <<m[y][z], z>> \in Adj
        /\ j[y][z] \in N
        /\ <<x, j[x][y]>> \in Adj /\ j[x][y] \in N /\ <<x, j[x][z]>> \in Adj /\ j[x][z] \in N
        /\ \A k \in N : <<k, x>> \in Adj /\ <<k, y>> \in Adj => <<k, m[x][y]>> \in Adj
    BY DEF IsMeetJoin
  <2>7. /\ b \in N /\ <<m[x][y], b>> \in Adj /\ <<m[x][z], b>> \in Adj /\ <<b, x>> \in Adj
    <3> DEFINE a1 == m[x][y]
               b1 == m[x][z]
    <3>1. a1 \in N /\ b1 \in N /\ <<a1, x>> \in Adj /\ <<b1, x>> \in Adj
      BY <2>6
    <3> HIDE DEF a1, b1
    <3>2. j[a1][b1] \in N /\ <<a1, j[a1][b1]>> \in Adj /\ <<b1, j[a1][b1]>> \in Adj
          /\ <<j[a1][b1], x>> \in Adj
      BY <3>1 DEF IsMeetJoin
    <3> QED BY <3>2 DEF a1, b1
  <2>8. a = m[x][q]
    <3>1. /\ a \in N /\ <<a, x>> \in Adj /\ <<a, j[y][z]>> \in Adj
          /\ \A k \in N : <<k, x>> \in Adj /\ <<k, j[y][z]>> \in Adj => <<k, a>> \in Adj
      BY <2>6 DEF IsMeetJoin
    <3> HIDE DEF q, a
    <3>2. /\ m[x][q] \in N /\ <<m[x][q], x>> \in Adj /\ <<m[x][q], q>> \in Adj
          /\ \A k \in N : <<k, x>> \in Adj /\ <<k, q>> \in Adj => <<k, m[x][q]>> \in Adj
      BY <2>3 DEF IsMeetJoin
    <3>3. <<q, j[y][z]>> \in Adj
      BY <2>3 DEF IsOrder
    <3>4. <<m[x][q], a>> \in Adj
      BY <2>1, <2>3, <2>6, <3>1, <3>2, <3>3
    <3>5. <<a, q>> \in Adj
      <4>1. <<a, j[x][y]>> \in Adj
        BY <2>1, <2>6, <3>1
      <4>2. <<a, j[x][z]>> \in Adj
        BY <2>1, <2>6, <3>1
      <4> QED BY <2>3, <3>1, <4>1, <4>2
    <3>6. <<a, m[x][q]>> \in Adj
      BY <3>1, <3>2, <3>5
    <3> QED BY <2>1, <3>1, <3>2, <3>4, <3>6
  <2>9. b = m[p][x]
    <3>1. j[b][m[m[y][z]][x]] = m[j[b][m[y][z]]][x]
      <4> DEFINE c == m[y][z]
      <4>1. c \in N
        BY <2>6
      <4> HIDE DEF b, c
      <4>2. j[b][m[c][x]] = m[j[b][c]][x]
        BY <2>1, <2>7, <4>1
      <4> QED BY <4>2 DEF c
    <3>2. j[b][m[y][z]] = p
      OBVIOUS
    <3>3. /\ m[m[y][z]][x] \in N /\ <<m[m[y][z]][x], b>> \in Adj
      <4> DEFINE c == m[y][z]
      <4> HIDE DEF b, c
      <4>1. c \in N /\ <<c, y>> \in Adj
        BY <2>6 DEF c
      <4>2. m[c][x] \in N /\ <<m[c][x], c>> \in Adj /\ <<m[c][x], x>> \in Adj
        BY <4>1 DEF IsMeetJoin
      <4>3. <<m[c][x], m[x][y]>> \in Adj
        BY <2>1, <2>6, <4>1, <4>2
      <4>4. <<m[c][x], b>> \in Adj
        BY <2>1, <2>6, <2>7, <4>2, <4>3
      <4> QED BY <4>2, <4>4 DEF c
    <3>4. j[b][m[m[y][z]][x]] = b
      <4> DEFINE e == m[m[y][z]][x]
      <4>1. e \in N /\ <<e, b>> \in Adj
        BY <3>3
      <4> HIDE DEF b, e
      <4>2. j[e][b] = b /\ j[e][b] = j[b][e]
        BY <1>1, <2>1, <2>7, <4>1
      <4> QED BY <4>2 DEF e
    <3> QED BY <3>1, <3>2, <3>4
  <2>10. m[p][x] = m[x][q]
    <3> HIDE DEF p, q
    <3> QED BY <1>1, <2>2, <2>5
  <2> QED BY <2>8, <2>9, <2>10
<1> QED BY <1>3, <1>4 DEF Distributive, Cancels

\* A lattice is semimodular when the join of x and y covers y if x covers their
\* meet.  It is enough to know this of elements that both cover their meet.
LEMMA SemimodularLaw ==
  ASSUME NEW N, IsFiniteSet(N), NEW Adj, IsOrder(N, Adj),
         NEW m, NEW j, IsMeetJoin(N, Adj, m, j)
  PROVE  (\A x, y \in N :
            x # y /\ CoversIn(N, Adj, x, m[x][y]) => CoversIn(N, Adj, j[x][y], y))
         <=>
         (\A x, y \in N :
            x # y /\ CoversIn(N, Adj, x, m[x][y]) /\ CoversIn(N, Adj, y, m[x][y]) =>
              CoversIn(N, Adj, j[x][y], x) /\ CoversIn(N, Adj, j[x][y], y))
<1>0. /\ \A a, b \in N : m[a][b] = m[b][a] /\ j[a][b] = j[b][a]
      /\ \A a, b \in N : <<a, b>> \in Adj <=> m[a][b] = a
      /\ \A a, b \in N : <<a, b>> \in Adj <=> j[a][b] = b
  BY ModularLaw
<1>1. ASSUME \A x, y \in N :
               x # y /\ CoversIn(N, Adj, x, m[x][y]) => CoversIn(N, Adj, j[x][y], y),
             NEW x \in N, NEW y \in N, x # y,
             CoversIn(N, Adj, x, m[x][y]), CoversIn(N, Adj, y, m[x][y])
      PROVE  CoversIn(N, Adj, j[x][y], x) /\ CoversIn(N, Adj, j[x][y], y)
  <2>1. m[x][y] = m[y][x] /\ j[x][y] = j[y][x]
    BY <1>0
  <2> QED BY <1>1, <2>1
<1>2. ASSUME \A x, y \in N :
               x # y /\ CoversIn(N, Adj, x, m[x][y]) /\ CoversIn(N, Adj, y, m[x][y]) =>
                 CoversIn(N, Adj, j[x][y], x) /\ CoversIn(N, Adj, j[x][y], y),
             NEW x \in N, NEW y \in N, x # y, CoversIn(N, Adj, x, m[x][y])
      PROVE  CoversIn(N, Adj, j[x][y], y)
  <2> DEFINE l == m[x][y]
             S == {z \in N : /\ <<l, z>> \in Adj /\ <<z, y>> \in Adj
                             /\ CoversIn(N, Adj, j[x][z], z)}
  <2>0. /\ \A a, b, c \in N : <<a, b>> \in Adj /\ <<b, c>> \in Adj => <<a, c>> \in Adj
        /\ \A a, b \in N : <<a, b>> \in Adj /\ <<b, a>> \in Adj => a = b
        /\ \A a \in N : <<a, a>> \in Adj
    BY DEF IsOrder
  <2>1. /\ l \in N /\ <<l, x>> \in Adj /\ <<l, y>> \in Adj /\ l # x
        /\ \A k \in N : <<k, x>> \in Adj /\ <<k, y>> \in Adj => <<k, l>> \in Adj
        /\ CoversIn(N, Adj, x, l)
    BY <1>2 DEF IsMeetJoin, CoversIn
  <2> HIDE DEF l
  <2>2. l \in S
    <3>1. j[x][l] = x
      BY <1>0, <2>1
    <3> QED BY <2>0, <2>1, <3>1
  <2>3. PICK z \in S : \A k \in S : <<z, k>> \in Adj => k = z
    <3>1. S \in SUBSET N /\ S # {}
      BY <2>2
    <3> HIDE DEF S
    <3> QED BY <3>1, Extremal
  <2>4. CASE z = y
    BY <2>3, <2>4
  <2>5. CASE z # y
    <3>1. PICK c \in N : CoversIn(N, Adj, c, z) /\ <<c, y>> \in Adj
      BY <2>3, <2>5, CoverBetween
    <3> DEFINE w == j[x][z]
               q == j[w][c]
    <3>2. /\ w \in N /\ <<x, w>> \in Adj /\ <<z, w>> \in Adj /\ CoversIn(N, Adj, w, z)
          /\ \A k \in N : <<x, k>> \in Adj /\ <<z, k>> \in Adj => <<w, k>> \in Adj
      BY <2>3 DEF IsMeetJoin
    <3> HIDE DEF w
    <3>3. z \in N /\ <<l, z>> \in Adj /\ <<z, c>> \in Adj /\ z # c /\ w # z
      BY <2>3, <3>1, <3>2 DEF CoversIn
    <3>4. w # c
      <4>1. ASSUME w = c PROVE FALSE
        <5>1. <<x, y>> \in Adj
          BY <2>0, <3>1, <3>2, <4>1
        <5>2. <<x, l>> \in Adj
          BY <2>0, <2>1, <5>1
        <5> QED BY <2>0, <2>1, <5>2
      <4> QED BY <4>1
    <3>5. m[w][c] = z
      <4>1. /\ m[w][c] \in N /\ <<m[w][c], w>> \in Adj /\ <<m[w][c], c>> \in Adj
            /\ \A k \in N : <<k, w>> \in Adj /\ <<k, c>> \in Adj => <<k, m[w][c]>> \in Adj
        BY <3>2 DEF IsMeetJoin
      <4>2. <<z, m[w][c]>> \in Adj
        BY <3>2, <3>3, <4>1
      <4>3. m[w][c] \in {z, w} /\ m[w][c] \in {z, c}
        BY <3>1, <3>2, <4>1, <4>2 DEF CoversIn
      <4> QED BY <3>4, <4>3
    <3>6. CoversIn(N, Adj, q, c)
      BY <1>2, <3>1, <3>2, <3>4, <3>5
    <3>7. /\ q \in N /\ <<w, q>> \in Adj /\ <<c, q>> \in Adj
          /\ \A k \in N : <<w, k>> \in Adj /\ <<c, k>> \in Adj => <<q, k>> \in Adj
      BY <3>2 DEF IsMeetJoin
    <3> HIDE DEF q
    <3>8. j[x][c] = q
      <4>1. /\ j[x][c] \in N /\ <<x, j[x][c]>> \in Adj /\ <<c, j[x][c]>> \in Adj
            /\ \A k \in N : <<x, k>> \in Adj /\ <<c, k>> \in Adj => <<j[x][c], k>> \in Adj
        BY DEF IsMeetJoin
      <4>2. <<z, j[x][c]>> \in Adj
        BY <2>0, <3>3, <4>1
      <4>3. <<w, j[x][c]>> \in Adj
        BY <3>2, <4>1, <4>2
      <4>4. <<q, j[x][c]>> \in Adj
        BY <3>7, <4>1, <4>3
      <4>5. <<x, q>> \in Adj
        BY <2>0, <3>2, <3>7
      <4>6. <<j[x][c], q>> \in Adj
        BY <3>7, <4>1, <4>5
      <4> QED BY <2>0, <3>7, <4>1, <4>4, <4>6
    <3>9. c \in S
      BY <2>0, <2>1, <3>1, <3>3, <3>6, <3>8
    <3> QED BY <2>3, <3>3, <3>9
  <2> QED BY <2>4, <2>5
<1> QED BY <1>1, <1>2

-----------------------------------------------------------------------------
\* The tables and the checks on them.

\* T has no holes and gives the meets and the joins of an order.
IsTables(k, Adj, T) ==
  /\ IsMeetJoin(1 .. k, Adj, T.meet, T.join)
  /\ ~ HasHoles(k, T)
  /\ \A x, y \in 1 .. k : /\ T.meet[x][y] \in 1 .. k /\ T.join[x][y] \in 1 .. k
                          /\ Infs(1 .. k, Adj, {x, y}) = {T.meet[x][y]}
                          /\ Sups(1 .. k, Adj, {x, y}) = {T.join[x][y]}

\* The tables of a lattice have no holes and give the meets and the joins.
LEMMA TablesMeetJoin ==
  ASSUME NEW k \in Nat, NEW Adj, IsLatticeOrder(1 .. k, Adj)
  PROVE  IsTables(k, Adj, compute_meet_join(k, Adj))
<1> DEFINE N == 1 .. k
           T == compute_meet_join(k, Adj)
<1>1. N \in SUBSET Nat /\ IsFiniteSet(N) /\ IsOrder(N, Adj) /\ 0 \notin N
  BY FS_Interval DEF IsLatticeOrder
<1>2. \A x, y \in N : T.meet[x][y] = meet_val(Adj, x, y) /\ T.join[x][y] = join_val(Adj, x, y)
  BY DEF compute_meet_join
<1> HIDE DEF T
<1>3. HasHoles(k, T) <=> \E x, y \in N : T.meet[x][y] = 0 \/ T.join[x][y] = 0
  BY DEF HasHoles
<1> HIDE DEF N
<1>4. ASSUME NEW x \in N, NEW y \in N
      PROVE  /\ T.meet[x][y] \in N /\ T.join[x][y] \in N
             /\ Infs(N, Adj, {x, y}) = {T.meet[x][y]}
             /\ Sups(N, Adj, {x, y}) = {T.join[x][y]}
  <2>1. PICK u \in N : u \in Sups(N, Adj, {x, y})
    BY PairBounds DEF N
  <2>2. PICK l \in N : l \in Infs(N, Adj, {x, y})
    BY PairBounds DEF N
  <2>3. T.meet[x][y] = l /\ T.join[x][y] = u
    <3>1. meet_val(Adj, x, y) = l
      BY <1>1, <2>2, TablesRight
    <3>2. join_val(Adj, x, y) = u
      BY <1>1, <2>1, TablesRight
    <3> QED BY <1>2, <3>1, <3>2
  <2>4. Sups(N, Adj, {x, y}) = {u} /\ Infs(N, Adj, {x, y}) = {l}
    BY <1>1, <2>1, <2>2, BoundsUnique
  <2> QED BY <2>3, <2>4
<1>5. IsMeetJoin(N, Adj, T.meet, T.join)
  <2>1. ASSUME NEW x \in N, NEW y \in N
        PROVE  /\ T.meet[x][y] \in N
               /\ <<T.meet[x][y], x>> \in Adj /\ <<T.meet[x][y], y>> \in Adj
               /\ \A c \in N : <<c, x>> \in Adj /\ <<c, y>> \in Adj => <<c, T.meet[x][y]>> \in Adj
               /\ T.join[x][y] \in N
               /\ <<x, T.join[x][y]>> \in Adj /\ <<y, T.join[x][y]>> \in Adj
               /\ \A c \in N : <<x, c>> \in Adj /\ <<y, c>> \in Adj => <<T.join[x][y], c>> \in Adj
    <3>1. T.meet[x][y] \in Infs(N, Adj, {x, y}) /\ T.join[x][y] \in Sups(N, Adj, {x, y})
      BY <1>4
    <3> QED BY <3>1 DEF Infs, Sups
  <2> QED BY <2>1 DEF IsMeetJoin
<1>6. ~ HasHoles(k, T)
  BY <1>1, <1>3, <1>4
<1> QED BY <1>4, <1>5, <1>6 DEF N, T, IsTables

\* A finite lattice has a bottom, and an atom below every other element.
LEMMA AtomicLaw ==
  ASSUME NEW k \in Nat \ {0}, NEW Adj, IsLatticeOrder(1 .. k, Adj)
  PROVE  check_atomicity(k, Adj, reduce_transitivity(Adj))
<1> DEFINE N == 1 .. k
           Cov == reduce_transitivity(Adj)
           bottoms == {i \in N : \A j \in N : <<i, j>> \in Adj}
           b == Min(bottoms)
<1>1. N \in SUBSET Nat /\ IsFiniteSet(N) /\ IsOrder(N, Adj) /\ N # {} /\ 1 \in N
  <2>1. IsFiniteSet(N)
    BY FS_Interval
  <2> QED BY <2>1 DEF IsLatticeOrder
<1>2. check_atomicity(k, Adj, Cov) <=>
        /\ bottoms # {}
        /\ {i \in N : <<b, i>> \in Cov} = {} => k <= 1
        /\ \A x \in N \ {b} : \E a \in {i \in N : <<b, i>> \in Cov} : <<a, x>> \in Adj
  BY DEF check_atomicity
<1>3. bottoms # {} /\ bottoms \in SUBSET Nat
  <2>1. Infs(N, Adj, N) # {}
    BY <1>1, FiniteInfs
  <2> QED BY <1>1, <2>1 DEF Infs
<1>4. b \in bottoms
  <2> HIDE DEF bottoms
  <2> QED BY <1>3, NatMin
<1>5. b \in N /\ \A x \in N : <<b, x>> \in Adj
  <2> HIDE DEF b
  <2> QED BY <1>4
<1> HIDE DEF b
<1>6. ASSUME NEW x \in N, x # b
      PROVE  \E a \in N : <<b, a>> \in Cov /\ <<a, x>> \in Adj
  <2>1. PICK a \in N : CoversIn(N, Adj, a, b) /\ <<a, x>> \in Adj
    <3> HIDE DEF N
    <3> QED BY <1>1, <1>5, <1>6, CoverBetween
  <2>2. <<b, a>> \in Cov
    <3> HIDE DEF N
    <3> QED BY <1>1, <1>5, <2>1, ReductionRight
  <2> QED BY <2>1, <2>2
<1>7. ASSUME {i \in N : <<b, i>> \in Cov} = {}, ~ (k <= 1) PROVE FALSE
  <2>1. PICK x \in {1, 2} : x # b
    OBVIOUS
  <2>2. x \in N
    BY <1>7
  <2> QED BY <1>6, <1>7, <2>1, <2>2
<1> QED BY <1>2, <1>3, <1>6, <1>7

\* x has the same bounds with y and with z.
SameIn(N, Adj, x, y, z) ==
  /\ Infs(N, Adj, {x, y}) = Infs(N, Adj, {x, z})
  /\ Sups(N, Adj, {x, y}) = Sups(N, Adj, {x, z})

\* What the checks on tables T say of a lattice.
ChecksRight(N, Adj, k, T) ==
  /\ check_distributivity(k, T) <=> \A x, y, z \in N : SameIn(N, Adj, x, y, z) => y = z
  /\ check_modularity(k, T) <=>
       \A x, y, z \in N : <<y, z>> \in Adj /\ SameIn(N, Adj, x, y, z) => y = z
  /\ check_semimodularity(k, T, reduce_transitivity(Adj)) <=>
       \A x, y \in N : x # y =>
         \A l \in Infs(N, Adj, {x, y}), u \in Sups(N, Adj, {x, y}) :
           CoversIn(N, Adj, x, l) /\ CoversIn(N, Adj, y, l) =>
             CoversIn(N, Adj, u, x) /\ CoversIn(N, Adj, u, y)

LEMMA ChecksLaw ==
  ASSUME NEW k \in Nat, NEW Adj, IsLatticeOrder(1 .. k, Adj),
         NEW T, T = compute_meet_join(k, Adj)
  PROVE  ChecksRight(1 .. k, Adj, k, T)
<1> DEFINE N == 1 .. k
           m == T.meet
           j == T.join
           Cov == reduce_transitivity(Adj)
           Same(x, y, z) == SameIn(N, Adj, x, y, z)
<1>1. IsFiniteSet(N) /\ IsOrder(N, Adj)
  BY FS_Interval DEF IsLatticeOrder
<1>2. /\ IsMeetJoin(N, Adj, m, j)
      /\ \A x, y \in N : /\ m[x][y] \in N /\ j[x][y] \in N
                         /\ Infs(N, Adj, {x, y}) = {m[x][y]}
                         /\ Sups(N, Adj, {x, y}) = {j[x][y]}
  <2>1. IsTables(k, Adj, T)
    BY TablesMeetJoin
  <2> QED BY <2>1 DEF IsTables
<1> HIDE DEF Cov
<1>3. /\ check_distributivity(k, T) <=> Distributive(N, m, j)
      /\ check_modularity(k, T) <=> Modular(N, m, j)
      /\ check_semimodularity(k, T, Cov) <=>
           \A x, y \in N : x # y /\ <<m[x][y], x>> \in Cov => <<y, j[x][y]>> \in Cov
  BY DEF check_distributivity, check_modularity, check_semimodularity, Distributive, Modular
<1> HIDE DEF N, m, j
<1>4. \A x, y, z \in N :
        Same(x, y, z) <=> m[x][y] = m[x][z] /\ j[x][y] = j[x][z]
  <2>1. ASSUME NEW x \in N, NEW y \in N, NEW z \in N
        PROVE  Same(x, y, z) <=> m[x][y] = m[x][z] /\ j[x][y] = j[x][z]
    <3>1. /\ Infs(N, Adj, {x, y}) = {m[x][y]} /\ Infs(N, Adj, {x, z}) = {m[x][z]}
          /\ Sups(N, Adj, {x, y}) = {j[x][y]} /\ Sups(N, Adj, {x, z}) = {j[x][z]}
      BY <1>2
    <3> QED BY <3>1 DEF SameIn
  <2> QED BY <2>1
<1>5. check_distributivity(k, T) <=> \A x, y, z \in N : Same(x, y, z) => y = z
  <2>1. Distributive(N, m, j) <=> Cancels(N, m, j)
    BY <1>1, <1>2, DistributiveByCancelling
  <2> HIDE DEF Same
  <2> QED BY <1>3, <1>4, <2>1 DEF Cancels
<1>6. check_modularity(k, T) <=>
        \A x, y, z \in N : <<y, z>> \in Adj /\ Same(x, y, z) => y = z
  <2>1. Modular(N, m, j) <=> CancelsBelow(N, Adj, m, j)
    BY <1>1, <1>2, ModularByCancelling
  <2> HIDE DEF Same
  <2> QED BY <1>3, <1>4, <2>1 DEF CancelsBelow
<1>7. check_semimodularity(k, T, Cov) <=>
        \A x, y \in N : x # y =>
          \A l \in Infs(N, Adj, {x, y}), u \in Sups(N, Adj, {x, y}) :
            CoversIn(N, Adj, x, l) /\ CoversIn(N, Adj, y, l) =>
              CoversIn(N, Adj, u, x) /\ CoversIn(N, Adj, u, y)
  <2>1. \A i, c \in N : <<i, c>> \in Cov <=> CoversIn(N, Adj, c, i)
    BY <1>1, ReductionRight DEF Cov
  <2>2. check_semimodularity(k, T, Cov) <=>
          \A x, y \in N :
            x # y /\ CoversIn(N, Adj, x, m[x][y]) => CoversIn(N, Adj, j[x][y], y)
    BY <1>2, <1>3, <2>1
  <2>3. (\A x, y \in N :
           x # y /\ CoversIn(N, Adj, x, m[x][y]) => CoversIn(N, Adj, j[x][y], y))
        <=>
        (\A x, y \in N :
           x # y /\ CoversIn(N, Adj, x, m[x][y]) /\ CoversIn(N, Adj, y, m[x][y]) =>
             CoversIn(N, Adj, j[x][y], x) /\ CoversIn(N, Adj, j[x][y], y))
    BY <1>1, <1>2, SemimodularLaw, Zenon
  <2>4. ASSUME NEW x \in N, NEW y \in N
        PROVE  (\A l \in Infs(N, Adj, {x, y}), u \in Sups(N, Adj, {x, y}) :
                  CoversIn(N, Adj, x, l) /\ CoversIn(N, Adj, y, l) =>
                    CoversIn(N, Adj, u, x) /\ CoversIn(N, Adj, u, y))
               <=>
               (CoversIn(N, Adj, x, m[x][y]) /\ CoversIn(N, Adj, y, m[x][y]) =>
                  CoversIn(N, Adj, j[x][y], x) /\ CoversIn(N, Adj, j[x][y], y))
    <3>1. Infs(N, Adj, {x, y}) = {m[x][y]} /\ Sups(N, Adj, {x, y}) = {j[x][y]}
      BY <1>2
    <3> QED BY <3>1
  <2> QED BY <2>2, <2>3, <2>4
<1> QED BY <1>5, <1>6, <1>7 DEF N, Cov, ChecksRight

-----------------------------------------------------------------------------
\* Numbers in order.

Passed(S, T, k) == Cardinality({j \in S : j < k}) + Cardinality({j \in T : j < k})

\* Counting through a set and once more through the numbers it has twice, every
\* place is that of one number.
LEMMA Counting ==
  ASSUME NEW b \in Nat, NEW S \in SUBSET (0 .. b), NEW T \in SUBSET S,
         NEW i \in 1 .. (Cardinality(S) + Cardinality(T))
  PROVE  \E k \in S :
           i - Passed(S, T, k) \in 1 .. (IF k \in T THEN 2 ELSE 1)
<1> DEFINE Before(U, c) == {j \in U : j < c}
           F(c) == Cardinality(Before(S, c)) + Cardinality(Before(T, c))
           Far == {c \in Nat : F(c) >= i}
<1>1. IsFiniteSet(S) /\ IsFiniteSet(T) /\ Cardinality(S) \in Nat /\ Cardinality(T) \in Nat
  <2>1. IsFiniteSet(0 .. b)
    BY FS_Interval
  <2>2. IsFiniteSet(S)
    BY <2>1, FS_Subset
  <2>3. IsFiniteSet(T)
    BY <2>2, FS_Subset
  <2> QED BY <2>2, <2>3, FS_CardinalityType
<1>2. ASSUME NEW U \in {S, T}, NEW c \in Nat
      PROVE  /\ IsFiniteSet(Before(U, c)) /\ Cardinality(Before(U, c)) \in Nat
             /\ Cardinality(Before(U, c + 1))
                  = IF c \in U THEN Cardinality(Before(U, c)) + 1 ELSE Cardinality(Before(U, c))
  <2>1. U \in SUBSET (0 .. b) /\ IsFiniteSet(U)
    BY <1>1
  <2>2. Before(U, c) \in SUBSET U
    OBVIOUS
  <2>3. IsFiniteSet(Before(U, c)) /\ Cardinality(Before(U, c)) \in Nat
    BY <2>1, <2>2, FS_Subset, FS_CardinalityType
  <2>4. Before(U, c + 1) = IF c \in U THEN Before(U, c) \cup {c} ELSE Before(U, c)
    <3>1. \A x \in U : x \in Int
      BY <2>1
    <3>2. \A x \in U : x < c + 1 <=> x < c \/ x = c
      BY <3>1
    <3> QED BY <3>2
  <2>5. c \notin Before(U, c)
    OBVIOUS
  <2> HIDE DEF Before
  <2>6. Cardinality(Before(U, c) \cup {c}) = Cardinality(Before(U, c)) + 1
    BY <2>3, <2>5, FS_AddElement
  <2> QED BY <2>3, <2>4, <2>6
<1>3. F(0) = 0
  <2>1. \A x \in S : x \in Int /\ ~ (x < 0)
    OBVIOUS
  <2>2. Before(S, 0) = {} /\ Before(T, 0) = {}
    BY <2>1
  <2>3. Cardinality({}) = 0
    BY FS_EmptySet
  <2>4. Cardinality(Before(S, 0)) = 0 /\ Cardinality(Before(T, 0)) = 0
    BY <2>2, <2>3
  <2> QED BY <2>4
<1>4. F(b + 1) = Cardinality(S) + Cardinality(T)
  <2>0. \A x \in S : x \in Int /\ x < b + 1
    OBVIOUS
  <2>1. Before(S, b + 1) = S /\ Before(T, b + 1) = T
    BY <2>0
  <2> HIDE DEF Before
  <2> QED BY <2>1
<1> HIDE DEF Before
<1>5. \A c \in Nat : F(c) \in Nat
  BY <1>2
<1>6. \A c \in Nat : F(c + 1) = F(c) + (IF c \in S THEN 1 ELSE 0) + (IF c \in T THEN 1 ELSE 0)
  <2> SUFFICES ASSUME NEW c \in Nat
               PROVE  F(c + 1) = F(c) + (IF c \in S THEN 1 ELSE 0) + (IF c \in T THEN 1 ELSE 0)
    OBVIOUS
  <2>1. /\ Cardinality(Before(S, c + 1))
             = IF c \in S THEN Cardinality(Before(S, c)) + 1 ELSE Cardinality(Before(S, c))
        /\ Cardinality(Before(T, c + 1))
             = IF c \in T THEN Cardinality(Before(T, c)) + 1 ELSE Cardinality(Before(T, c))
        /\ Cardinality(Before(S, c)) \in Nat /\ Cardinality(Before(T, c)) \in Nat
    BY <1>2
  <2> QED BY <2>1
<1>7. i \in Nat /\ 1 <= i /\ i <= Cardinality(S) + Cardinality(T)
  BY <1>1
<1> HIDE DEF F
<1>8. Min(Far) \in Far /\ \A c \in Far : Min(Far) <= c
  <2>1. Far \in SUBSET Nat /\ b + 1 \in Far
    BY <1>4, <1>7
  <2> HIDE DEF Far
  <2> QED BY <2>1, NatMin
<1> DEFINE k == Min(Far) - 1
<1>9. k \in Nat /\ F(k) < i /\ F(k + 1) >= i
  <2>1. Min(Far) # 0
    BY <1>3, <1>7, <1>8
  <2>2. Min(Far) \in Nat /\ F(Min(Far)) >= i
    BY <1>8
  <2> HIDE DEF Far
  <2>3. k \in Nat /\ k + 1 = Min(Far)
    BY <2>1, <2>2
  <2>4. k \notin Far
    BY <1>8, <2>2, <2>3
  <2> QED BY <1>5, <1>7, <2>2, <2>3, <2>4 DEF Far
<1> HIDE DEF k
<1>10. F(k + 1) = F(k) + (IF k \in S THEN 1 ELSE 0) + (IF k \in T THEN 1 ELSE 0) /\ F(k) \in Nat
  BY <1>5, <1>6, <1>9
<1>11. k \in S /\ i - F(k) \in 1 .. (IF k \in T THEN 2 ELSE 1)
  BY <1>7, <1>9, <1>10
<1> QED BY <1>11 DEF F, Before, Passed

\* Ascending lists a set of numbers without repetition.
LEMMA AscendingLists ==
  ASSUME NEW b \in Nat, NEW S \in SUBSET (0 .. b)
  PROVE  /\ IsFiniteSet(S) /\ Cardinality(S) \in Nat
         /\ Ascending(S) \in [1 .. Cardinality(S) -> S]
         /\ \A i, j \in 1 .. Cardinality(S) : Ascending(S)[i] = Ascending(S)[j] => i = j
         /\ \A x \in S : \E i \in 1 .. Cardinality(S) : Ascending(S)[i] = x
<1>1. IsFiniteSet(S) /\ Cardinality(S) \in Nat
  <2>1. IsFiniteSet(0 .. b)
    BY FS_Interval
  <2> QED BY <2>1, FS_Subset, FS_CardinalityType
<1> DEFINE c == Cardinality(S)
           a == Ascending(S)
           Place(x) == Cardinality({y \in S : y < x})
<1>2. ASSUME NEW i \in 1 .. c
      PROVE  \E x \in S : Place(x) = i - 1
  <2>0. PICK T \in SUBSET S : T = {} /\ Cardinality(T) = 0
    BY FS_EmptySet
  <2>2. i \in 1 .. (Cardinality(S) + Cardinality(T))
    BY <1>1, <2>0
  <2>3. PICK k \in S :
          i - Passed(S, T, k) \in 1 .. (IF k \in T THEN 2 ELSE 1)
    BY <2>2, Counting
  <2>4. Cardinality({j \in T : j < k}) = 0
    <3>1. {j \in T : j < k} = T
      BY <2>0
    <3> QED BY <2>0, <3>1
  <2>5. Cardinality({j \in S : j < k}) \in Nat
    <3>1. {j \in S : j < k} \in SUBSET S
      OBVIOUS
    <3> QED BY <1>1, <3>1, FS_Subset, FS_CardinalityType
  <2>6. i - Cardinality({j \in S : j < k}) \in 1 .. 1
    BY <2>0, <2>3, <2>4, <2>5 DEF Passed
  <2>7. Cardinality({j \in S : j < k}) = i - 1
    BY <2>5, <2>6
  <2> QED BY <2>7
<1>3. ASSUME NEW i \in 1 .. c
      PROVE  a[i] \in S /\ Place(a[i]) = i - 1
  <2>1. a[i] = CHOOSE x \in S : Place(x) = i - 1
    BY DEF Ascending
  <2> HIDE DEF a, Place
  <2> QED BY <1>2, <2>1
<1>4. a \in [1 .. c -> S]
  <2>1. a = [i \in 1 .. c |-> a[i]]
    BY DEF Ascending
  <2> HIDE DEF a, c
  <2> QED BY <1>3, <2>1
<1> HIDE DEF a, Place
<1>5. \A i, j \in 1 .. c : a[i] = a[j] => i = j
  BY <1>1, <1>3
<1>6. \A x \in S : \E i \in 1 .. c : a[i] = x
  <2>1. a \in Injection(1 .. c, S)
    BY <1>4, <1>5 DEF Injection, IsInjective
  <2>2. Cardinality(1 .. c) = c
    <3>1. Cardinality(1 .. c) = IF 1 > c THEN 0 ELSE c - 1 + 1
      BY <1>1, FS_Interval
    <3> QED BY <1>1, <3>1
  <2>3. a \in Surjection(1 .. c, S)
    BY <1>1, <2>1, <2>2, FS_Injection
  <2> QED BY <2>3 DEF Surjection
<1> QED BY <1>1, <1>4, <1>5, <1>6 DEF a

-----------------------------------------------------------------------------
\* The order of the concepts.

\* What the properties say of the concepts, in terms of their order.
LEMMA OrderLaw ==
  ASSUME concepts \in Seq(Extents)
  PROVE  /\ n \in Nat /\ Concepts \in SUBSET Nat /\ 0 \notin Concepts
         /\ IsFiniteSet(Concepts) /\ Cardinality(Concepts) = n
         /\ Order \subseteq Concepts \X Concepts
         /\ \A i, j \in Concepts : <<i, j>> \in Order <=> Below(i, j)
         /\ Distinct => IsOrder(Concepts, Order)
         /\ \A S : Suprema(S) \subseteq Concepts /\ Infima(S) \subseteq Concepts
         /\ \A S \in SUBSET Concepts : Suprema(S) = Sups(Concepts, Order, S)
         /\ \A S \in SUBSET Concepts : Infima(S) = Infs(Concepts, Order, S)
         /\ IsLattice => IsLatticeOrder(Concepts, Order)
         /\ \A i, j \in Concepts : Covers(j, i) <=> CoversIn(Concepts, Order, j, i)
<1>1. n \in Nat /\ concepts \in [1 .. n -> Extents]
  BY LenProperties DEF n
<1>2. /\ Concepts \in SUBSET Nat /\ 0 \notin Concepts
      /\ IsFiniteSet(Concepts) /\ Cardinality(Concepts) = n
  <2>1. IsFiniteSet(1 .. n) /\ Cardinality(1 .. n) = IF 1 > n THEN 0 ELSE n - 1 + 1
    BY <1>1, FS_Interval
  <2>2. Cardinality(1 .. n) = n
    BY <1>1, <2>1
  <2> QED BY <1>1, <2>1, <2>2 DEF Concepts
<1>3. \A i \in Concepts, o \in Objects : concepts[i][o] \in Nat
  BY <1>1, LatticeAssumption DEF Concepts, Extents
<1>4. Order \subseteq Concepts \X Concepts
  BY DEF Order
<1>5. \A i, j \in Concepts : <<i, j>> \in Order <=> Below(i, j)
  BY DEF Order, Below
<1>6. ASSUME Distinct PROVE IsOrder(Concepts, Order)
  <2>1. \A i \in Concepts : Below(i, i)
    BY <1>3 DEF Below
  <2>2. \A i, j, k \in Concepts : Below(i, j) /\ Below(j, k) => Below(i, k)
    BY <1>3 DEF Below
  <2>3. ASSUME NEW i \in Concepts, NEW j \in Concepts, Below(i, j), Below(j, i) PROVE i = j
    <3>1. concepts[i] \in [Objects -> 0 .. K] /\ concepts[j] \in [Objects -> 0 .. K]
      BY <1>1 DEF Concepts, Extents
    <3>2. \A o \in Objects : concepts[i][o] = concepts[j][o]
      BY <1>3, <2>3 DEF Below
    <3>3. concepts[i] = concepts[j]
      BY <3>1, <3>2
    <3> QED BY <1>6, <3>3 DEF Distinct
  <2> QED BY <1>4, <1>5, <2>1, <2>2, <2>3 DEF IsOrder
<1>7. \A S : Suprema(S) \subseteq Concepts /\ Infima(S) \subseteq Concepts
  BY DEF Suprema, Infima
<1>8. \A S \in SUBSET Concepts : Suprema(S) = Sups(Concepts, Order, S)
  BY <1>5 DEF Suprema, Sups
<1>9. \A S \in SUBSET Concepts : Infima(S) = Infs(Concepts, Order, S)
  BY <1>5 DEF Infima, Infs
<1>10. ASSUME IsLattice PROVE IsLatticeOrder(Concepts, Order)
  <2>1. IsOrder(Concepts, Order)
    BY <1>6, <1>10 DEF IsLattice
  <2>2. \A i, j \in Concepts : Suprema({i, j}) # {} /\ Infima({i, j}) # {}
    BY <1>10 DEF IsLattice
  <2>3. \A i, j \in Concepts : /\ Suprema({i, j}) = Sups(Concepts, Order, {i, j})
                               /\ Infima({i, j}) = Infs(Concepts, Order, {i, j})
    BY <1>8, <1>9
  <2> QED BY <2>1, <2>2, <2>3 DEF IsLatticeOrder
<1>11. \A i, j \in Concepts : Covers(j, i) <=> CoversIn(Concepts, Order, j, i)
  BY <1>5 DEF Covers, CoversIn
<1> QED BY <1>1, <1>2, <1>4, <1>5, <1>6, <1>7, <1>8, <1>9, <1>10, <1>11

-----------------------------------------------------------------------------
\* The caches and the calls.

PropertyNames == {"distributivity", "modularity", "semimodularity", "atomicity"}

\* What is kept belongs to the concepts.
CachesOK ==
  /\ subconcept_matrix \in {Unset, Known(Order)}
  /\ covering_matrix # Unset =>
       \E Cov \in SUBSET (Concepts \X Concepts) : covering_matrix = Known(Cov)
  /\ tables \in {Unset, Known(compute_meet_join(n, Order))}
  /\ properties \in [PropertyNames -> {Unset, Known(TRUE), Known(FALSE)}]

\* What sublattice() works on.
CallsOK ==
  /\ concepts \in Seq(Extents) \ {<< >>}
  /\ calls \in 0 .. MaxCalls
  /\ idx \subseteq idx_final /\ generators \subseteq idx_final /\ idx_final \subseteq Concepts
  /\ generators = {} => idx = {} /\ idx_final = {}
  /\ generators # {} =>
       /\ subconcept_matrix = Known(Order)
       /\ answer = <<"joins">> \/ \E T \in SUBSET idx_final : answer = <<"meets", T>>

\* A step that leaves the concepts alone, and computes what is missing.
Keeps ==
  /\ concepts' = concepts
  /\ subconcept_matrix' \in {subconcept_matrix, Known(Order)}
  /\ covering_matrix' \in {covering_matrix, Known(reduce_transitivity(Order))}
  /\ tables' \in {tables, Known(compute_meet_join(n, Order))}
  /\ properties' \in [PropertyNames -> {Unset, Known(TRUE), Known(FALSE)}]

\* A step to a new lattice of some of the concepts.
Replaces ==
  /\ generators' = {} /\ idx' = {} /\ idx_final' = {}
  /\ calls' \in 0 .. MaxCalls
  /\ \E list \in Seq({concepts[k] : k \in Concepts}) \ {<< >>} : Replace(list)

\* What belongs to the concepts does as long as they stay.
LEMMA KeptOrder ==
  ASSUME concepts' = concepts
  PROVE  /\ n' = n /\ Concepts' = Concepts /\ Order' = Order
         /\ IsLattice' = IsLattice /\ Distinct' = Distinct
         /\ \A S : Suprema(S)' = Suprema(S) /\ Infima(S)' = Infima(S)
         /\ \A i, j : Below(i, j)' = Below(i, j) /\ Covers(j, i)' = Covers(j, i)
<1>1. n' = n /\ Concepts' = Concepts
  BY DEF n, Concepts
<1>2. Order' = Order
  BY <1>1 DEF Order
<1>3. \A i, j : Below(i, j)' = Below(i, j)
  BY DEF Below
<1>4. \A S : Suprema(S)' = Suprema(S) /\ Infima(S)' = Infima(S)
  BY <1>1, <1>3 DEF Suprema, Infima
<1>5. Distinct' = Distinct
  BY <1>1 DEF Distinct
<1>6. IsLattice' = IsLattice
  BY <1>1, <1>4, <1>5 DEF IsLattice
<1>7. \A i, j : Covers(j, i)' = Covers(j, i)
  BY <1>1, <1>3 DEF Covers
<1> QED BY <1>1, <1>2, <1>3, <1>4, <1>5, <1>6, <1>7

\* What the builders build.
LEMMA Builders ==
  ASSUME CachesOK
  PROVE  /\ \A v, w : Known(v) # Unset /\ Known(v)[1] = v /\ (Known(v) = Known(w) => v = w)
         /\ build_adjacency => subconcept_matrix' = Known(Order)
         /\ build_covering =>
              /\ subconcept_matrix' = Known(Order)
              /\ covering_matrix' # Unset
              /\ covering_matrix' \in {covering_matrix, Known(reduce_transitivity(Order))}
         /\ build_meet_join =>
              /\ subconcept_matrix' = Known(Order)
              /\ tables' = Known(compute_meet_join(n, Order))
<1>1. \A v, w : Known(v) # Unset /\ Known(v)[1] = v /\ (Known(v) = Known(w) => v = w)
  BY DEF Known, Unset
<1>2. subconcept_matrix \in {Unset, Known(Order)} /\ tables \in {Unset, Known(compute_meet_join(n, Order))}
  BY DEF CachesOK
<1>3. ASSUME build_adjacency PROVE subconcept_matrix' = Known(Order)
  BY <1>2, <1>3 DEF build_adjacency
<1>4. ASSUME build_covering
      PROVE  /\ subconcept_matrix' = Known(Order)
             /\ covering_matrix' # Unset
             /\ covering_matrix' \in {covering_matrix, Known(reduce_transitivity(Order))}
  <2>1. subconcept_matrix' = Known(Order) /\ subconcept_matrix'[1] = Order
    BY <1>1, <1>3, <1>4 DEF build_covering
  <2> QED BY <1>1, <1>4, <2>1 DEF build_covering
<1>5. ASSUME build_meet_join
      PROVE  /\ subconcept_matrix' = Known(Order)
             /\ tables' = Known(compute_meet_join(n, Order))
  <2>1. subconcept_matrix' = Known(Order) /\ subconcept_matrix'[1] = Order
    BY <1>1, <1>3, <1>5 DEF build_meet_join
  <2> QED BY <1>1, <1>2, <1>5, <2>1 DEF build_meet_join
<1> QED BY <1>1, <1>3, <1>4, <1>5

\* A call that reads the concepts.
LEMMA ReadStep ==
  ASSUME CallsOK, Ready, Called, concepts' = concepts, UNCHANGED sublattice_vars
  PROVE  CallsOK' /\ generators' = {}
<1>1. generators = {} /\ calls < MaxCalls /\ calls \in 0 .. MaxCalls /\ MaxCalls \in Nat
  BY LatticeAssumption DEF CallsOK, Ready
<1>2. calls' \in 0 .. MaxCalls
  BY <1>1 DEF Called
<1>3. Concepts' = Concepts
  BY KeptOrder
<1> QED BY <1>1, <1>2, <1>3 DEF CallsOK, sublattice_vars

\* The concepts listed are some of those there.
LEMMA ListedConcepts ==
  ASSUME CallsOK, NEW S \in SUBSET Concepts, S # {}
  PROVE  Listed(S) \in Seq({concepts[k] : k \in Concepts}) \ {<< >>}
<1>1. n \in Nat /\ S \in SUBSET (0 .. n)
  <2>1. n \in Nat /\ Concepts \in SUBSET Nat
    BY OrderLaw DEF CallsOK
  <2> QED BY <2>1 DEF Concepts
<1> DEFINE c == Cardinality(S)
           a == Ascending(S)
           E == {concepts[k] : k \in Concepts}
<1>2. IsFiniteSet(S) /\ c \in Nat /\ a \in [1 .. c -> S]
  BY <1>1, AscendingLists
<1>3. c # 0
  BY <1>2, FS_EmptySet
<1> HIDE DEF a, c
<1>4. Listed(S) = [i \in 1 .. c |-> concepts[a[i]]]
  BY DEF Listed, a, c
<1>5. Listed(S) \in [1 .. c -> E]
  BY <1>2, <1>4
<1> HIDE DEF E
<1>6. Listed(S) \in Seq(E) /\ Len(Listed(S)) = c
  BY <1>2, <1>5
<1>7. Listed(S) # << >>
  BY <1>2, <1>3, <1>6, EmptySeq
<1> QED BY <1>6, <1>7 DEF E

\* A new lattice has nothing computed.
LEMMA ReplaceStep ==
  ASSUME CallsOK, Replaces
  PROVE  CallsOK' /\ CachesOK'
<1> DEFINE E == {concepts[k] : k \in Concepts}
<1>1. E \subseteq Extents
  <2>1. concepts \in Seq(Extents)
    BY DEF CallsOK
  <2>2. concepts \in [1 .. Len(concepts) -> Extents]
    BY <2>1, LenProperties
  <2> QED BY <2>2 DEF Concepts, n
<1>2. PICK list \in Seq(E) \ {<< >>} : Replace(list)
  BY DEF Replaces
<1> HIDE DEF E
<1>3. list \in Seq(Extents) \ {<< >>}
  BY <1>1, <1>2, SeqMonotonic
<1>4. CallsOK'
  BY <1>2, <1>3 DEF CallsOK, Replaces, Replace
<1>5. CachesOK'
  <2>1. properties' \in [PropertyNames -> {Unset, Known(TRUE), Known(FALSE)}]
    BY <1>2 DEF Replace, NoProperties, PropertyNames
  <2> QED BY <1>2, <2>1 DEF CachesOK, Replace
<1> QED BY <1>4, <1>5

\* A property asked for.
LEMMA AskStep ==
  ASSUME CallsOK, CachesOK, NEW name \in PropertyNames, NEW outcomes \in SUBSET BOOLEAN,
         Ask(name, outcomes)
  PROVE  CallsOK' /\ Keeps /\ generators' = {}
<1>1. CallsOK' /\ generators' = {}
  BY ReadStep DEF Ask
<1>2. CASE properties[name] # Unset
  <2>1. UNCHANGED caches /\ concepts' = concepts
    BY <1>2 DEF Ask
  <2>2. properties \in [PropertyNames -> {Unset, Known(TRUE), Known(FALSE)}]
    BY DEF CachesOK
  <2> QED BY <1>1, <2>1, <2>2 DEF caches, Keeps
<1>3. CASE properties[name] = Unset
  <2>1. build_covering /\ build_meet_join
    BY <1>3 DEF Ask, build_structure
  <2>2. PICK b \in outcomes : properties' = [properties EXCEPT ![name] = Known(b)]
    BY <1>3 DEF Ask
  <2>3. properties' \in [PropertyNames -> {Unset, Known(TRUE), Known(FALSE)}]
    <3> DEFINE Outcome == {Unset, Known(TRUE), Known(FALSE)}
    <3>1. Known(b) \in Outcome
      BY <2>2
    <3>2. properties \in [PropertyNames -> Outcome]
      BY DEF CachesOK
    <3> HIDE DEF Outcome
    <3>3. properties' \in [PropertyNames -> Outcome]
      BY <2>2, <3>1, <3>2
    <3> QED BY <3>3 DEF Outcome
  <2> QED BY <1>1, <2>1, <2>3, Builders DEF Ask, Keeps
<1> QED BY <1>1, <1>2, <1>3

\* The outcomes of the checks are truth values.
LEMMA Outcomes ==
  /\ ReadsTables(check_distributivity(n, tables'[1])) \in SUBSET BOOLEAN
  /\ ReadsTables(check_modularity(n, tables'[1])) \in SUBSET BOOLEAN
  /\ ReadsTables(check_semimodularity(n, tables'[1], covering_matrix'[1])) \in SUBSET BOOLEAN
  /\ {check_atomicity(n, subconcept_matrix'[1], covering_matrix'[1])} \in SUBSET BOOLEAN
<1>1. \A check \in BOOLEAN : ReadsTables(check) \in SUBSET BOOLEAN
  BY DEF ReadsTables
<1>2. /\ check_distributivity(n, tables'[1]) \in BOOLEAN
      /\ check_modularity(n, tables'[1]) \in BOOLEAN
      /\ check_semimodularity(n, tables'[1], covering_matrix'[1]) \in BOOLEAN
      /\ check_atomicity(n, subconcept_matrix'[1], covering_matrix'[1]) \in BOOLEAN
  BY Zenon DEF check_distributivity, check_modularity, check_semimodularity, check_atomicity
<1> QED BY <1>1, <1>2

\* The actions that read.
Reads ==
  \/ supremum \/ infimum \/ join_irreducibles \/ meet_irreducibles \/ decompose
  \/ top \/ bottom \/ is_distributive \/ is_modular \/ is_semimodular \/ is_atomic
  \/ plot \/ plotting

LEMMA ReadsStep ==
  ASSUME CallsOK, CachesOK, Reads
  PROVE  CallsOK' /\ Keeps
<1> USE DEF Keeps
<1>0. properties \in [PropertyNames -> {Unset, Known(TRUE), Known(FALSE)}]
  BY DEF CachesOK
<1>1. CASE supremum
  BY <1>0, <1>1, Builders, ReadStep DEF supremum
<1>2. CASE infimum
  BY <1>0, <1>2, Builders, ReadStep DEF infimum
<1>3. CASE join_irreducibles
  BY <1>0, <1>3, Builders, ReadStep DEF join_irreducibles
<1>4. CASE meet_irreducibles
  BY <1>0, <1>4, Builders, ReadStep DEF meet_irreducibles
<1>5. CASE decompose
  BY <1>0, <1>5, Builders, ReadStep DEF decompose
<1>6. CASE top
  BY <1>0, <1>6, Builders, ReadStep DEF top
<1>7. CASE bottom
  BY <1>0, <1>7, Builders, ReadStep DEF bottom
<1>8. CASE is_distributive \/ is_modular \/ is_semimodular \/ is_atomic
  <2>1. \E name \in PropertyNames, outcomes \in SUBSET BOOLEAN : Ask(name, outcomes)
    BY <1>8, Outcomes
       DEF PropertyNames, is_distributive, is_modular, is_semimodular, is_atomic
  <2> QED BY <2>1, AskStep
<1>9. CASE plot
  BY <1>0, <1>9, Builders, ReadStep DEF plot
<1>10. CASE plotting
  <2>1. UNCHANGED <<concepts, caches, answer, calls, sublattice_vars>>
    BY <1>10 DEF plotting
  <2>2. Concepts' = Concepts /\ Order' = Order
    BY <2>1, KeptOrder
  <2> QED BY <1>0, <2>1, <2>2 DEF CallsOK, caches, sublattice_vars
<1> QED BY <1>1, <1>2, <1>3, <1>4, <1>5, <1>6, <1>7, <1>8, <1>9, <1>10 DEF Reads

\* A step that keeps the concepts keeps what belongs to them.
LEMMA KeepsStep ==
  ASSUME CallsOK, CachesOK, Keeps
  PROVE  CachesOK'
<1>1. n' = n /\ Concepts' = Concepts /\ Order' = Order
  BY KeptOrder DEF Keeps
<1>2. reduce_transitivity(Order) \in SUBSET (Concepts \X Concepts)
  <2>1. Order \subseteq Concepts \X Concepts
    BY OrderLaw DEF CallsOK
  <2> QED BY <2>1 DEF reduce_transitivity
<1> QED BY <1>1, <1>2 DEF CachesOK, Keeps

\* The rounds of sublattice().
Rounds == sublattice \/ JoinRound \/ TurnToMeets \/ MeetRound

LEMMA RoundsStep ==
  ASSUME CallsOK, CachesOK, Rounds
  PROVE  CallsOK' /\ Keeps
<1> USE DEF Keeps
<1>0. /\ properties \in [PropertyNames -> {Unset, Known(TRUE), Known(FALSE)}]
      /\ concepts \in Seq(Extents) /\ concepts # << >> /\ calls \in 0 .. MaxCalls
      /\ Order \subseteq Concepts \X Concepts
  BY OrderLaw DEF CachesOK, CallsOK
<1>1. CASE sublattice
  <2>1. PICK S \in UNION {kSubset(k, Concepts) : k \in 1 .. MaxStart} :
          generators' = S /\ idx' = S /\ idx_final' = S
    BY <1>1 DEF sublattice
  <2>2. S \in SUBSET Concepts
    BY <2>1 DEF kSubset
  <2>3. subconcept_matrix' = Known(Order) /\ answer' = <<"joins">>
    BY <1>1, Builders DEF sublattice
  <2>4. concepts' = concepts /\ Concepts' = Concepts /\ Order' = Order
    BY <1>1, KeptOrder DEF sublattice
  <2>5. calls' \in 0 .. MaxCalls
    BY <1>0, <1>1, LatticeAssumption DEF sublattice, Ready, Called
  <2> QED BY <1>0, <1>1, <2>1, <2>2, <2>3, <2>4, <2>5 DEF CallsOK, sublattice
<1>2. ASSUME generators # {}
      PROVE  /\ subconcept_matrix[1] = Order
             /\ NewJoins \subseteq Concepts /\ NewMeets \subseteq Concepts
  <2>1. subconcept_matrix[1] = Order
    BY <1>2, Builders DEF CallsOK
  <2>2. \A S : join(Order, S) \subseteq Concepts /\ meet(Order, S) \subseteq Concepts
    BY <1>0, SetBoundsType
  <2> QED BY <2>1, <2>2 DEF NewJoins, NewMeets
<1>3. CASE JoinRound
  <2>1. concepts' = concepts /\ Concepts' = Concepts /\ Order' = Order
    BY <1>3, KeptOrder DEF JoinRound, caches
  <2> QED BY <1>0, <1>2, <1>3, <2>1 DEF CallsOK, JoinRound, caches
<1>4. CASE TurnToMeets
  <2>1. concepts' = concepts /\ Concepts' = Concepts /\ Order' = Order
    BY <1>4, KeptOrder DEF TurnToMeets, caches
  <2> QED BY <1>0, <1>4, <2>1 DEF CallsOK, TurnToMeets, caches
<1>5. CASE MeetRound
  <2>1. concepts' = concepts /\ Concepts' = Concepts /\ Order' = Order
    BY <1>5, KeptOrder DEF MeetRound, caches
  <2>2. \E T \in SUBSET idx_final : answer = <<"meets", T>>
    BY <1>5 DEF CallsOK, MeetRound
  <2>3. \E T \in SUBSET idx_final' : answer' = <<"meets", T>>
    BY <1>5, <2>2 DEF MeetRound
  <2> QED BY <1>0, <1>2, <1>5, <2>1, <2>3 DEF CallsOK, MeetRound, caches
<1> QED BY <1>1, <1>3, <1>4, <1>5 DEF Rounds

\* The operations that return a lattice of some of the concepts.
LEMMA ReplacesStep ==
  ASSUME CallsOK, subconcepts \/ superconcepts \/ Sublattice
  PROVE  Replaces
<1>0. /\ concepts \in Seq(Extents) /\ calls \in 0 .. MaxCalls
      /\ \A C \in Concepts : <<C, C>> \in Order
  <2>1. concepts \in Seq(Extents) /\ calls \in 0 .. MaxCalls
    BY DEF CallsOK
  <2>2. \A C \in Concepts : Below(C, C)
    <3>1. concepts \in [Concepts -> Extents]
      BY <2>1, LenProperties DEF Concepts, n
    <3> QED BY <3>1, LatticeAssumption DEF Below, Extents
  <2> QED BY <2>1, <2>2, OrderLaw
<1>1. ASSUME NEW S \in SUBSET Concepts, S # {}, Replace(Listed(S)), Ready, Called,
             UNCHANGED sublattice_vars
      PROVE  Replaces
  <2>1. Listed(S) \in Seq({concepts[k] : k \in Concepts}) \ {<< >>}
    BY <1>1, ListedConcepts
  <2>2. generators' = {} /\ idx' = {} /\ idx_final' = {}
    BY <1>1 DEF CallsOK, Ready, sublattice_vars
  <2>3. calls' \in 0 .. MaxCalls
    BY <1>0, <1>1, LatticeAssumption DEF Ready, Called
  <2> QED BY <1>1, <2>1, <2>2, <2>3 DEF Replaces
<1>2. CASE subconcepts
  <2>1. PICK C \in Concepts : Replace(Listed({k \in Concepts : <<k, C>> \in Order}))
    BY <1>2 DEF subconcepts
  <2>2. C \in {k \in Concepts : <<k, C>> \in Order}
    BY <1>0
  <2> QED BY <1>1, <1>2, <2>1, <2>2 DEF subconcepts
<1>3. CASE superconcepts
  <2>1. PICK C \in Concepts : Replace(Listed({k \in Concepts : <<C, k>> \in Order}))
    BY <1>3 DEF superconcepts
  <2>2. C \in {k \in Concepts : <<C, k>> \in Order}
    BY <1>0
  <2> QED BY <1>1, <1>3, <2>1, <2>2 DEF superconcepts
<1>4. CASE Sublattice
  <2> DEFINE twice == answer[2]
             At(i) == CHOOSE k \in idx_final :
                        i - Passed(idx_final, twice, k) \in 1 .. (IF k \in twice THEN 2 ELSE 1)
             c == Cardinality(idx_final) + Cardinality(twice)
             E == {concepts[k] : k \in Concepts}
             list == [i \in 1 .. c |-> concepts[At(i)]]
  <2>1. /\ generators # {} /\ generators \subseteq idx_final
        /\ idx_final \in SUBSET Concepts /\ twice \in SUBSET idx_final
    BY <1>4 DEF CallsOK, Sublattice
  <2>2. Replace(list)
    BY <1>4 DEF Sublattice, Passed
  <2>3. n \in Nat /\ idx_final \in SUBSET (0 .. n)
    <3>1. n \in Nat
      BY OrderLaw DEF CallsOK
    <3> QED BY <2>1, <3>1 DEF Concepts
  <2> HIDE DEF twice
  <2>4. c \in Nat \ {0}
    <3>1. IsFiniteSet(idx_final) /\ Cardinality(idx_final) \in Nat
      BY <2>3, AscendingLists
    <3>2. IsFiniteSet(twice) /\ Cardinality(twice) \in Nat
      BY <2>1, <3>1, FS_Subset, FS_CardinalityType
    <3>3. Cardinality(idx_final) # 0
      BY <2>1, <3>1, FS_EmptySet
    <3> QED BY <3>1, <3>2, <3>3
  <2>5. ASSUME NEW i \in 1 .. c PROVE At(i) \in Concepts
    <3>1. \E k \in idx_final :
            i - Passed(idx_final, twice, k) \in 1 .. (IF k \in twice THEN 2 ELSE 1)
      BY <2>1, <2>3, Counting
    <3> QED BY <2>1, <3>1
  <2> HIDE DEF At, c
  <2>6. list \in [1 .. c -> E]
    BY <2>5
  <2> HIDE DEF E, list
  <2>7. list \in Seq(E) /\ Len(list) = c
    BY <2>4, <2>6
  <2>8. list # << >>
    BY <2>4, <2>7, EmptySeq
  <2>9. generators' = {} /\ idx' = {} /\ idx_final' = {} /\ calls' \in 0 .. MaxCalls
    BY <1>0, <1>4 DEF Sublattice
  <2> QED BY <2>2, <2>7, <2>8, <2>9 DEF Replaces, E
<1> QED BY <1>2, <1>3, <1>4

\* A lattice read from a file.
LEMMA JsonStep ==
  ASSUME CallsOK, CachesOK, json
  PROVE  /\ CallsOK' /\ CachesOK'
         /\ concepts' = [i \in Concepts |->
                           [o \in Objects |-> IF concepts[i][o] > 0 THEN K ELSE 0]]
         /\ covering_matrix' \in {Unset, covering_matrix, Known(reduce_transitivity(Order))}
<1> DEFINE crisp == [i \in Concepts |-> [o \in Objects |-> IF concepts[i][o] > 0 THEN K ELSE 0]]
           hierarchy == IF covering_matrix = Unset THEN reduce_transitivity(Order)
                        ELSE covering_matrix[1]
<1>1. n \in Nat /\ concepts \in Seq(Extents) /\ concepts # << >> /\ n # 0
      /\ Order \subseteq Concepts \X Concepts
  <2>1. concepts \in Seq(Extents) /\ concepts # << >>
    BY DEF CallsOK
  <2> QED BY <2>1, OrderLaw, EmptySeq DEF n
<1>2. concepts' = crisp
  BY DEF json
<1>3. concepts' \in Seq(Extents) /\ Len(concepts') = n /\ concepts' # << >>
  <2>1. crisp \in [1 .. n -> Extents]
    BY LatticeAssumption DEF Extents, Concepts
  <2> HIDE DEF crisp
  <2>2. crisp \in Seq(Extents) /\ Len(crisp) = n
    BY <1>1, <2>1
  <2> QED BY <1>1, <1>2, <2>2, EmptySeq
<1>4. Concepts' = Concepts
  BY <1>3 DEF Concepts, n
<1>5. /\ generators = {} /\ generators' = {} /\ idx' = {} /\ idx_final' = {}
      /\ calls' \in 0 .. MaxCalls
  BY LatticeAssumption DEF json, Ready, Called, CallsOK, sublattice_vars
<1>6. CallsOK'
  BY <1>3, <1>5 DEF CallsOK
<1>7. (IF subconcept_matrix = Unset THEN Order ELSE subconcept_matrix[1]) = Order
  BY Builders DEF CachesOK
<1>8. covering_matrix' = IF hierarchy = {} THEN Unset ELSE Known(hierarchy)
  BY <1>7 DEF json
<1>9. /\ covering_matrix' \in {Unset, covering_matrix, Known(reduce_transitivity(Order))}
      /\ covering_matrix' # Unset =>
           \E Cov \in SUBSET (Concepts \X Concepts) : covering_matrix' = Known(Cov)
  <2>1. reduce_transitivity(Order) \in SUBSET (Concepts \X Concepts)
    BY <1>1 DEF reduce_transitivity
  <2>2. CASE covering_matrix = Unset
    BY <1>8, <2>1, <2>2
  <2>3. CASE covering_matrix # Unset
    <3>1. PICK Cov \in SUBSET (Concepts \X Concepts) : covering_matrix = Known(Cov)
      BY <2>3 DEF CachesOK
    <3>2. hierarchy = Cov
      BY <2>3, <3>1, Builders
    <3> QED BY <1>8, <3>1, <3>2
  <2> QED BY <2>2, <2>3
<1>10. CachesOK'
  <2>1. properties' \in [PropertyNames -> {Unset, Known(TRUE), Known(FALSE)}]
    BY DEF json, NoProperties, PropertyNames
  <2>2. subconcept_matrix' = Unset /\ tables' = Unset
    BY DEF json
  <2> QED BY <1>4, <1>9, <2>1, <2>2 DEF CachesOK
<1> QED BY <1>2, <1>6, <1>9, <1>10

\* Every step.
LEMMA EveryStep ==
  ASSUME CallsOK, CachesOK, [Next]_vars
  PROVE  CallsOK' /\ CachesOK' /\ (Keeps \/ Replaces \/ json)
<1>1. CASE Reads
  BY <1>1, ReadsStep, KeepsStep
<1>2. CASE Rounds
  BY <1>2, RoundsStep, KeepsStep
<1>3. CASE subconcepts \/ superconcepts \/ Sublattice
  BY <1>3, ReplacesStep, ReplaceStep
<1>4. CASE json
  BY <1>4, JsonStep
<1>5. CASE UNCHANGED vars
  <2>1. UNCHANGED <<concepts, caches, answer, calls, sublattice_vars>>
    BY <1>5 DEF vars
  <2>2. properties \in [PropertyNames -> {Unset, Known(TRUE), Known(FALSE)}]
    BY DEF CachesOK
  <2>3. Keeps
    BY <2>1, <2>2 DEF Keeps, caches
  <2>4. Concepts' = Concepts /\ Order' = Order
    BY <2>1, KeptOrder
  <2>5. CallsOK'
    BY <2>1, <2>4 DEF CallsOK, caches, sublattice_vars
  <2> QED BY <2>3, <2>5, KeepsStep
<1> QED BY <1>1, <1>2, <1>3, <1>4, <1>5 DEF Next, Reads, Rounds

\* Init.
LEMMA CallsInit ==
  ASSUME Init
  PROVE  CallsOK /\ CachesOK
<1>1. concepts \in Seq(Extents) \ {<< >>} /\ calls \in 0 .. MaxCalls
  BY LatticeAssumption DEF Init
<1>2. properties \in [PropertyNames -> {Unset, Known(TRUE), Known(FALSE)}]
  BY DEF Init, NoProperties, PropertyNames
<1> QED BY <1>1, <1>2 DEF Init, CallsOK, CachesOK

-----------------------------------------------------------------------------
\* The answers.

\* The lattices start from crisp contexts.
CrispLists == \A list \in InitConcepts : \A i \in DOMAIN list, o \in Objects : list[i][o] \in {0, K}

\* The covering relation of crisp concepts is kept through files, too.
CoverOK ==
  CrispLists =>
    /\ \A i \in Concepts, o \in Objects : concepts[i][o] \in {0, K}
    /\ covering_matrix \in {Unset, Known(reduce_transitivity(Order))}

\* x has the same bounds with y and with z.
SameBounds(x, y, z) == Infima({x, y}) = Infima({x, z}) /\ Suprema({x, y}) = Suprema({x, z})

\* The value b of a property is right.
Says(name, b) ==
  IsLattice =>
    /\ name = "distributivity" => (b <=> \A x, y, z \in Concepts : SameBounds(x, y, z) => y = z)
    /\ name = "modularity" =>
         (b <=> \A x, y, z \in Concepts : Below(y, z) /\ SameBounds(x, y, z) => y = z)
    /\ CrispLists /\ name = "semimodularity" =>
         (b <=> \A x, y \in Concepts : x # y =>
                  \A l \in Infima({x, y}), u \in Suprema({x, y}) :
                    Covers(x, l) /\ Covers(y, l) => Covers(u, x) /\ Covers(u, y))
    /\ CrispLists /\ name = "atomicity" => b

KnownProperties ==
  \A name \in PropertyNames, b \in BOOLEAN : properties[name] = Known(b) => Says(name, b)

\* Where nothing is said about an answer.
Plain == {"plot", "subconcepts", "superconcepts", "json", "joins", "meets", "sublattice"}

\* What the answers are.
BoundAnswer ==
  \E S, D \in SUBSET Concepts :
    \/ answer = <<"supremum", S, D>> /\ (IsLattice => D = Suprema(S))
    \/ answer = <<"infimum", S, D>> /\ (IsLattice => D = Infima(S))
    \/ answer = <<"top", D>> /\ (IsLattice => D = Infima({}))
    \/ answer = <<"bottom", D>> /\ (IsLattice => D = Suprema({}))

IrreducibleAnswer ==
  \E D \in SUBSET Concepts :
    \/ answer = <<"join_irreducibles", D>> /\ (CrispLists => D = Irreducibles(Concepts, Order))
    \/ answer = <<"meet_irreducibles", D>> /\ D = Irreducibles(Concepts, Dual(Order))
    \/ \E C \in Concepts : answer = <<"decompose", C, D>> /\ (IsLattice => Infima(D) = {C})

PropertyAnswer ==
  \E name \in PropertyNames, b \in BOOLEAN : answer = <<name, b>> /\ Says(name, b)

Answers ==
  \/ answer = << >> \/ answer[1] \in Plain
  \/ BoundAnswer \/ IrreducibleAnswer \/ PropertyAnswer

\* They stay right as long as the concepts stay.
LEMMA AnswersKept ==
  ASSUME concepts' = concepts
  PROVE  /\ \A name, b : Says(name, b)' <=> Says(name, b)
         /\ properties' = properties /\ KnownProperties => KnownProperties'
         /\ answer' = answer /\ Answers => Answers'
<1>1. /\ Concepts' = Concepts /\ Order' = Order /\ IsLattice' = IsLattice
      /\ \A S : Suprema(S)' = Suprema(S) /\ Infima(S)' = Infima(S)
      /\ \A i, j : Below(i, j)' = Below(i, j) /\ Covers(j, i)' = Covers(j, i)
  BY KeptOrder
<1>2. ASSUME NEW name, NEW b PROVE Says(name, b)' <=> Says(name, b)
  <2>1. \A x, y, z : SameBounds(x, y, z)' = SameBounds(x, y, z)
    BY <1>1 DEF SameBounds
  <2> QED BY <1>1, <2>1 DEF Says
<1>3. ASSUME properties' = properties, KnownProperties PROVE KnownProperties'
  BY <1>2, <1>3 DEF KnownProperties
<1>4. ASSUME answer' = answer, BoundAnswer PROVE BoundAnswer'
  BY <1>1, <1>4 DEF BoundAnswer
<1>5. ASSUME answer' = answer, IrreducibleAnswer PROVE IrreducibleAnswer'
  BY <1>1, <1>5 DEF IrreducibleAnswer
<1>6. ASSUME answer' = answer, PropertyAnswer PROVE PropertyAnswer'
  BY <1>2, <1>6 DEF PropertyAnswer
<1> QED BY <1>2, <1>3, <1>4, <1>5, <1>6 DEF Answers

\* Crisp concepts stay crisp, and their covering relation right.
LEMMA CoverStep ==
  ASSUME CallsOK, CachesOK, CoverOK, Keeps \/ Replaces \/ json
  PROVE  CoverOK'
<1> SUFFICES ASSUME CrispLists
             PROVE  /\ \A i \in Concepts', o \in Objects : concepts'[i][o] \in {0, K}
                    /\ covering_matrix' \in {Unset, Known(reduce_transitivity(Order))'}
  BY DEF CoverOK
<1>1. /\ \A i \in Concepts, o \in Objects : concepts[i][o] \in {0, K}
      /\ covering_matrix \in {Unset, Known(reduce_transitivity(Order))}
  BY DEF CoverOK
<1>2. CASE Keeps
  <2>1. Concepts' = Concepts /\ Order' = Order /\ concepts' = concepts
    BY <1>2, KeptOrder DEF Keeps
  <2> QED BY <1>1, <1>2, <2>1 DEF Keeps
<1>3. CASE Replaces
  <2> DEFINE E == {concepts[k] : k \in Concepts}
  <2>1. PICK list \in Seq(E) : Replace(list)
    BY <1>3 DEF Replaces
  <2>2. ASSUME NEW i \in Concepts' PROVE concepts'[i] \in E
    <3> HIDE DEF E
    <3>1. concepts' \in Seq(E) /\ i \in 1 .. Len(concepts')
      BY <2>1 DEF Replace, Concepts, n
    <3> QED BY <3>1, ElementOfSeq
  <2>3. \A i \in Concepts', o \in Objects : concepts'[i][o] \in {0, K}
    BY <1>1, <2>2
  <2> QED BY <2>1, <2>3 DEF Replace
<1>4. CASE json
  <2> DEFINE crisp == [i \in Concepts |->
                         [o \in Objects |-> IF concepts[i][o] > 0 THEN K ELSE 0]]
  <2>1. /\ concepts' = crisp
        /\ covering_matrix' \in {Unset, covering_matrix, Known(reduce_transitivity(Order))}
    BY <1>4, JsonStep
  <2>2. crisp = concepts
    <3>1. concepts \in [Concepts -> [Objects -> 0 .. K]]
      BY LenProperties DEF CallsOK, Concepts, n, Extents
    <3>2. ASSUME NEW i \in Concepts PROVE crisp[i] = concepts[i]
      <4>1. concepts[i] \in [Objects -> 0 .. K]
        BY <3>1
      <4>2. \A o \in Objects : concepts[i][o] = IF concepts[i][o] > 0 THEN K ELSE 0
        BY <1>1, LatticeAssumption
      <4>3. crisp[i] = [o \in Objects |-> IF concepts[i][o] > 0 THEN K ELSE 0]
        OBVIOUS
      <4> QED BY <4>1, <4>2, <4>3
    <3> HIDE DEF crisp
    <3>3. crisp = [i \in Concepts |-> crisp[i]]
      BY DEF crisp
    <3> QED BY <3>1, <3>2, <3>3
  <2>3. concepts' = concepts /\ Concepts' = Concepts /\ Order' = Order
    BY <2>1, <2>2, KeptOrder
  <2> QED BY <1>1, <2>1, <2>3
<1> QED BY <1>2, <1>3, <1>4

\* What the operations on bounds answer.
LEMMA BoundAnswered ==
  ASSUME CallsOK, CachesOK, supremum \/ infimum \/ top \/ bottom
  PROVE  BoundAnswer'
<1>0. /\ n \in Nat /\ Concepts \in SUBSET Nat /\ IsFiniteSet(Concepts) /\ Cardinality(Concepts) = n
      /\ Order \subseteq Concepts \X Concepts
      /\ \A S \in SUBSET Concepts : /\ Suprema(S) = Sups(Concepts, Order, S)
                                    /\ Infima(S) = Infs(Concepts, Order, S)
      /\ IsLattice => IsLatticeOrder(Concepts, Order) /\ IsOrder(Concepts, Order)
  BY OrderLaw DEF CallsOK, IsLatticeOrder
<1>1. concepts' = concepts /\ subconcept_matrix' = Known(Order) /\ subconcept_matrix'[1] = Order
  <2>1. concepts' = concepts /\ build_adjacency
    BY DEF supremum, infimum, top, bottom
  <2> QED BY <2>1, Builders
<1>2. /\ Concepts' = Concepts /\ IsLattice' = IsLattice
      /\ \A S : Suprema(S)' = Suprema(S) /\ Infima(S)' = Infima(S)
  BY <1>1, KeptOrder
<1>3. ASSUME NEW S \in SUBSET Concepts, S # {}
      PROVE  /\ join(Order, S) \in SUBSET Concepts /\ meet(Order, S) \in SUBSET Concepts
             /\ IsLattice => join(Order, S) = Suprema(S) /\ meet(Order, S) = Infima(S)
  <2>1. join(Order, S) \in SUBSET Concepts /\ meet(Order, S) \in SUBSET Concepts
    BY <1>0, SetBoundsType
  <2>2. ASSUME IsLattice PROVE join(Order, S) = Suprema(S) /\ meet(Order, S) = Infima(S)
    <3>1. Sups(Concepts, Order, S) # {} /\ Infs(Concepts, Order, S) # {}
      BY <1>0, <1>3, <2>2, FiniteSups, FiniteInfs
    <3> QED BY <1>0, <1>3, <2>2, <3>1, SetBoundsRight
  <2> QED BY <2>1, <2>2
<1>4. \A S : Cardinality(S) = 2 => S # {}
  BY FS_EmptySet
<1>5. CASE supremum
  <2>1. PICK S \in SUBSET Concepts : Cardinality(S) = 2 /\ answer' = <<"supremum", S, join(Order, S)>>
    BY <1>1, <1>5 DEF supremum
  <2> DEFINE D == join(Order, S)
  <2>2. D \in SUBSET Concepts /\ (IsLattice => D = Suprema(S)) /\ answer' = <<"supremum", S, D>>
    BY <1>3, <1>4, <2>1
  <2> HIDE DEF D
  <2> QED BY <1>2, <2>2 DEF BoundAnswer
<1>6. CASE infimum
  <2>1. PICK S \in SUBSET Concepts : Cardinality(S) = 2 /\ answer' = <<"infimum", S, meet(Order, S)>>
    BY <1>1, <1>6 DEF infimum
  <2> DEFINE D == meet(Order, S)
  <2>2. D \in SUBSET Concepts /\ (IsLattice => D = Infima(S)) /\ answer' = <<"infimum", S, D>>
    BY <1>3, <1>4, <2>1
  <2> HIDE DEF D
  <2> QED BY <1>2, <2>2 DEF BoundAnswer
<1>7. \A i, k : k \in Downset(Order, i) <=> k \in Concepts /\ <<k, i>> \in Order
  BY <1>0, DownUp
<1>8. CASE top
  <2> DEFINE D == {i \in Concepts : Size(Order, i) = n}
  <2>1. answer' = <<"top", D>>
    BY <1>1, <1>8 DEF top
  <2>2. ASSUME IsLattice PROVE D = Infima({})
    <3>1. \A i \in Concepts : Size(Order, i) = n <=> Downset(Order, i) = Concepts
      BY <1>0, <2>2, SizeStrict
    <3>2. Infima({}) = Infs(Concepts, Order, {})
      BY <1>0
    <3>3. \A i \in Concepts :
            Downset(Order, i) = Concepts <=> \A k \in Concepts : <<k, i>> \in Order
      BY <1>7
    <3> QED BY <3>1, <3>2, <3>3 DEF Infs
  <2>3. D \in SUBSET Concepts
    OBVIOUS
  <2> HIDE DEF D
  <2> QED BY <1>2, <2>1, <2>2, <2>3 DEF BoundAnswer
<1>9. CASE bottom
  <2> DEFINE D == {i \in Concepts : Size(Order, i) = 1}
  <2>1. answer' = <<"bottom", D>>
    BY <1>1, <1>9 DEF bottom
  <2>2. ASSUME IsLattice PROVE D = Suprema({})
    <3>1. \A i \in Concepts : Size(Order, i) = 1 <=> Downset(Order, i) = {i}
      BY <1>0, <2>2, SizeStrict
    <3>2. Suprema({}) = Sups(Concepts, Order, {})
      BY <1>0
    <3>3. ASSUME NEW i \in Concepts, Downset(Order, i) = {i}, NEW k \in Concepts
          PROVE  <<i, k>> \in Order
      <4>1. PICK l \in Concepts : l \in Infs(Concepts, Order, {i, k})
        <5>1. IsLatticeOrder(Concepts, Order)
          BY <1>0, <2>2
        <5> QED BY <5>1, PairBounds
      <4>2. <<l, i>> \in Order /\ <<l, k>> \in Order
        BY <4>1 DEF Infs
      <4>3. l \in Downset(Order, i)
        BY <1>7, <4>2
      <4>4. l = i
        BY <3>3, <4>3
      <4> QED BY <4>2, <4>4
    <3>4. ASSUME NEW i \in Concepts, \A k \in Concepts : <<i, k>> \in Order
          PROVE  Downset(Order, i) = {i}
      <4>1. <<i, i>> \in Order /\ \A k \in Concepts : <<k, i>> \in Order => k = i
        BY <1>0, <2>2, <3>4 DEF IsOrder
      <4>2. \A k : k \in Downset(Order, i) <=> k = i
        BY <1>7, <4>1
      <4> QED BY <4>2
    <3>5. \A u : u \in Sups(Concepts, Order, {}) <=>
                   u \in Concepts /\ \A k \in Concepts : <<u, k>> \in Order
      BY DEF Sups
    <3> QED BY <3>1, <3>2, <3>3, <3>4, <3>5
  <2>3. D \in SUBSET Concepts
    OBVIOUS
  <2> HIDE DEF D
  <2> QED BY <1>2, <2>1, <2>2, <2>3 DEF BoundAnswer
<1> QED BY <1>5, <1>6, <1>8, <1>9

\* What the operations on irreducible concepts answer.
LEMMA IrreducibleAnswered ==
  ASSUME CallsOK, CachesOK, CoverOK, join_irreducibles \/ meet_irreducibles \/ decompose
  PROVE  IrreducibleAnswer'
<1>0. /\ IsFiniteSet(Concepts) /\ Order \subseteq Concepts \X Concepts
      /\ \A S \in SUBSET Concepts : Infima(S) = Infs(Concepts, Order, S)
      /\ IsLattice => IsLatticeOrder(Concepts, Order) /\ IsOrder(Concepts, Order)
      /\ \A i, j \in Concepts : <<i, j>> \in Order <=> Below(i, j)
  BY OrderLaw DEF CallsOK, IsLatticeOrder
<1>1. concepts' = concepts /\ subconcept_matrix' = Known(Order) /\ subconcept_matrix'[1] = Order
  <2>1. concepts' = concepts /\ (build_adjacency \/ build_covering)
    BY DEF join_irreducibles, meet_irreducibles, decompose
  <2> QED BY <2>1, Builders
<1>2. /\ Concepts' = Concepts /\ Order' = Order /\ IsLattice' = IsLattice
      /\ \A S : Infima(S)' = Infima(S)
  BY <1>1, KeptOrder
<1>3. CASE join_irreducibles
  <2> DEFINE Cov == covering_matrix'[1]
             D == {j \in Concepts : Cardinality(Downset(Cov, j)) = 1}
  <2>1. answer' = <<"join_irreducibles", D>> /\ D \in SUBSET Concepts
    BY <1>3 DEF join_irreducibles
  <2>2. ASSUME CrispLists PROVE D = Irreducibles(Concepts, Order)
    <3>1. covering_matrix' = Known(reduce_transitivity(Order))
      BY <1>3, <2>2, Builders DEF join_irreducibles, CoverOK
    <3>2. Cov = reduce_transitivity(Order)
      BY <3>1, Builders
    <3> HIDE DEF Cov
    <3> QED BY <3>2 DEF Irreducibles
  <2> HIDE DEF D
  <2> QED BY <1>2, <2>1, <2>2 DEF IrreducibleAnswer
<1>4. meet_irreducible = Irreducibles(Concepts, Dual(Order))
  BY <1>1 DEF meet_irreducible, Irreducibles, Dual
<1>5. Irreducibles(Concepts, Dual(Order)) \in SUBSET Concepts
  BY DEF Irreducibles
<1>6. CASE meet_irreducibles
  <2>1. answer' = <<"meet_irreducibles", Irreducibles(Concepts, Dual(Order))>>
    BY <1>4, <1>6 DEF meet_irreducibles
  <2> QED BY <1>2, <1>5, <2>1 DEF IrreducibleAnswer
<1>7. CASE decompose
  <2> DEFINE lowest(C) == Lowest(Order, MeetIrreduciblesAbove(Concepts, Order, C))
  <2>1. PICK C \in Concepts :
          \E D \in {lowest(C)} \cup (IF \A o \in Objects : concepts[C][o] = K THEN {{C}} ELSE {}) :
            answer' = <<"decompose", C, D>>
    BY <1>1, <1>4, <1>7 DEF decompose, Lowest, MeetIrreduciblesAbove
  <2>2. lowest(C) \in SUBSET Concepts /\ {C} \in SUBSET Concepts
    BY <1>5 DEF Lowest, MeetIrreduciblesAbove
  <2>3. ASSUME IsLattice PROVE Infima(lowest(C)) = {C} /\ Infima({C}) = {C}
    <3>1. C \in Infs(Concepts, Order, lowest(C))
      <4>1. IsLatticeOrder(Concepts, Order)
        BY <1>0, <2>3
      <4> QED BY <1>0, <4>1, DecomposeLaw
    <3>2. C \in Infs(Concepts, Order, {C})
      BY <1>0, <2>3 DEF Infs, IsOrder
    <3> HIDE DEF lowest
    <3>3. Infs(Concepts, Order, lowest(C)) = {C} /\ Infs(Concepts, Order, {C}) = {C}
      BY <1>0, <2>3, <3>1, <3>2, BoundsUnique
    <3> QED BY <1>0, <2>2, <3>3
  <2> HIDE DEF lowest
  <2>4. PICK D \in {lowest(C), {C}} : answer' = <<"decompose", C, D>>
    BY <2>1
  <2>5. D \in SUBSET Concepts /\ (IsLattice => Infima(D) = {C})
    BY <2>2, <2>3, <2>4
  <2> QED BY <1>2, <2>4, <2>5 DEF IrreducibleAnswer
<1> QED BY <1>3, <1>6, <1>7

\* What is known of a property is right.
LEMMA PropertyAnswered ==
  ASSUME CallsOK, CachesOK, CoverOK, KnownProperties,
         is_distributive \/ is_modular \/ is_semimodular \/ is_atomic
  PROVE  KnownProperties' /\ PropertyAnswer'
<1> DEFINE T == compute_meet_join(n, Order)
           Cov == reduce_transitivity(Order)
<1>0. /\ n \in Nat \ {0} /\ Concepts = 1 .. n
      /\ \A S \in SUBSET Concepts : /\ Suprema(S) = Sups(Concepts, Order, S)
                                    /\ Infima(S) = Infs(Concepts, Order, S)
      /\ \A i, j \in Concepts : /\ <<i, j>> \in Order <=> Below(i, j)
                                /\ Covers(j, i) <=> CoversIn(Concepts, Order, j, i)
      /\ IsLattice => IsLatticeOrder(Concepts, Order)
  <2>1. n # 0
    BY EmptySeq DEF CallsOK, n
  <2> QED BY <2>1, OrderLaw DEF CallsOK, Concepts
<1>1. \A x, y, z \in Concepts :
        SameBounds(x, y, z) <=> /\ Infs(Concepts, Order, {x, y}) = Infs(Concepts, Order, {x, z})
                                /\ Sups(Concepts, Order, {x, y}) = Sups(Concepts, Order, {x, z})
  BY <1>0 DEF SameBounds
<1>2. ASSUME IsLattice
      PROVE  /\ ~ HasHoles(n, T)
             /\ Says("distributivity", check_distributivity(n, T))
             /\ Says("modularity", check_modularity(n, T))
             /\ Says("semimodularity", check_semimodularity(n, T, Cov))
             /\ Says("atomicity", check_atomicity(n, Order, Cov))
  <2>0. n \in Nat /\ IsLatticeOrder(1 .. n, Order)
    BY <1>0, <1>2
  <2>1. ~ HasHoles(n, T)
    BY <2>0, TablesMeetJoin DEF IsTables
  <2>2. check_atomicity(n, Order, Cov)
    BY <1>0, <2>0, AtomicLaw
  <2> DEFINE Same(x, y, z) == SameIn(Concepts, Order, x, y, z)
  <2>3. /\ check_distributivity(n, T) <=> \A x, y, z \in Concepts : Same(x, y, z) => y = z
        /\ check_modularity(n, T) <=>
             \A x, y, z \in Concepts : <<y, z>> \in Order /\ Same(x, y, z) => y = z
        /\ check_semimodularity(n, T, Cov) <=>
             \A x, y \in Concepts : x # y =>
               \A l \in Infs(Concepts, Order, {x, y}), u \in Sups(Concepts, Order, {x, y}) :
                 CoversIn(Concepts, Order, x, l) /\ CoversIn(Concepts, Order, y, l) =>
                   CoversIn(Concepts, Order, u, x) /\ CoversIn(Concepts, Order, u, y)
    <3>1. ChecksRight(1 .. n, Order, n, T)
      BY <2>0, ChecksLaw
    <3>2. ChecksRight(Concepts, Order, n, T)
      BY <1>0, <3>1
    <3> HIDE DEF T
    <3> QED BY <3>2, Zenon DEF ChecksRight, Cov
  <2> HIDE DEF T, Cov, Same
  <2>4. \A x, y, z \in Concepts : Same(x, y, z) <=> SameBounds(x, y, z)
    BY <1>1 DEF Same, SameIn
  <2>5. Says("distributivity", check_distributivity(n, T))
    <3>1. check_distributivity(n, T) <=>
            \A x, y, z \in Concepts : SameBounds(x, y, z) => y = z
      BY <2>3, <2>4
    <3> QED BY <3>1 DEF Says
  <2>6. Says("modularity", check_modularity(n, T))
    <3>1. check_modularity(n, T) <=>
            \A x, y, z \in Concepts : Below(y, z) /\ SameBounds(x, y, z) => y = z
      <4>1. \A y, z \in Concepts : <<y, z>> \in Order <=> Below(y, z)
        BY <1>0
      <4> QED BY <2>3, <2>4, <4>1
    <3> QED BY <3>1 DEF Says
  <2>7. Says("semimodularity", check_semimodularity(n, T, Cov))
    <3> DEFINE Covered(x, y, l, u) ==
                 Covers(x, l) /\ Covers(y, l) => Covers(u, x) /\ Covers(u, y)
               CoveredIn(x, y, l, u) ==
                 CoversIn(Concepts, Order, x, l) /\ CoversIn(Concepts, Order, y, l) =>
                   CoversIn(Concepts, Order, u, x) /\ CoversIn(Concepts, Order, u, y)
    <3>0. \A i, j \in Concepts : Covers(j, i) <=> CoversIn(Concepts, Order, j, i)
      BY <1>0
    <3>1. ASSUME NEW x \in Concepts, NEW y \in Concepts
          PROVE  (\A l \in Infima({x, y}), u \in Suprema({x, y}) : Covered(x, y, l, u))
                 <=> (\A l \in Infs(Concepts, Order, {x, y}), u \in Sups(Concepts, Order, {x, y}) :
                        CoveredIn(x, y, l, u))
      <4>1. \A l \in Concepts, u \in Concepts : Covered(x, y, l, u) <=> CoveredIn(x, y, l, u)
        BY <3>0
      <4>2. PICK S : S = {x, y}
        OBVIOUS
      <4>3. /\ Infima(S) = Infs(Concepts, Order, S) /\ Infima(S) \subseteq Concepts
            /\ Suprema(S) = Sups(Concepts, Order, S) /\ Suprema(S) \subseteq Concepts
        BY <1>0, <4>2 DEF Infima, Suprema
      <4> HIDE DEF Covered, CoveredIn
      <4> QED BY <4>1, <4>2, <4>3
    <3>2. check_semimodularity(n, T, Cov) <=>
             \A x, y \in Concepts : x # y =>
               \A l \in Infima({x, y}), u \in Suprema({x, y}) :
                 Covers(x, l) /\ Covers(y, l) => Covers(u, x) /\ Covers(u, y)
      BY <2>3, <3>1
    <3> QED BY <3>2 DEF Says
  <2>8. Says("atomicity", check_atomicity(n, Order, Cov))
    BY <2>2 DEF Says
  <2> QED BY <2>1, <2>5, <2>6, <2>7, <2>8
<1> HIDE DEF T, Cov
<1>3. ASSUME NEW name \in PropertyNames, NEW outcomes \in SUBSET BOOLEAN, Ask(name, outcomes),
             build_structure => \A b \in outcomes : Says(name, b)
      PROVE  KnownProperties' /\ PropertyAnswer'
  <2>1. /\ concepts' = concepts /\ answer' = <<name, properties'[name][1]>>
        /\ properties \in [PropertyNames -> {Unset, Known(TRUE), Known(FALSE)}]
    BY <1>3 DEF Ask, CachesOK
  <2>2. \A q, b : Says(q, b)' <=> Says(q, b)
    BY <2>1, AnswersKept
  <2>3. \E b \in BOOLEAN : properties'[name] = Known(b) /\ Says(name, b) /\ KnownProperties'
    <3>1. CASE properties[name] # Unset
      <4>1. properties' = properties
        BY <1>3, <3>1 DEF Ask, caches
      <4>2. PICK b \in BOOLEAN : properties[name] = Known(b)
        BY <2>1, <3>1
      <4> QED BY <2>1, <4>1, <4>2, AnswersKept DEF KnownProperties
    <3>2. CASE properties[name] = Unset
      <4>1. build_structure
        BY <1>3, <3>2 DEF Ask
      <4>2. PICK b \in outcomes : properties' = [properties EXCEPT ![name] = Known(b)]
        BY <1>3, <3>2 DEF Ask
      <4>3. b \in BOOLEAN /\ Says(name, b)
        BY <1>3, <4>1, <4>2
      <4>4. properties'[name] = Known(b)
        BY <2>1, <4>2
      <4>5. ASSUME NEW q \in PropertyNames, NEW d \in BOOLEAN, properties'[q] = Known(d)
            PROVE  Says(q, d)
        <5>1. CASE q = name
          <6>1. Known(d) = Known(b)
            BY <4>4, <4>5, <5>1
          <6>2. d = b
            BY <6>1, Builders
          <6> QED BY <4>3, <5>1, <6>2
        <5>2. CASE q # name
          <6>1. properties[q] = Known(d)
            BY <2>1, <4>2, <4>5, <5>2
          <6> QED BY <6>1 DEF KnownProperties
        <5> QED BY <5>1, <5>2
      <4>6. KnownProperties'
        BY <2>2, <4>5 DEF KnownProperties
      <4> QED BY <4>3, <4>4, <4>6
    <3> QED BY <3>1, <3>2
  <2>4. PICK b \in BOOLEAN : properties'[name] = Known(b) /\ Says(name, b) /\ KnownProperties'
    BY <2>3
  <2>5. answer' = <<name, b>>
    BY <2>1, <2>4, Builders
  <2> QED BY <2>2, <2>4, <2>5 DEF PropertyAnswer
<1>4. ASSUME build_structure
      PROVE  /\ tables'[1] = T /\ subconcept_matrix'[1] = Order
             /\ CrispLists => covering_matrix'[1] = Cov
  <2>1. build_covering /\ build_meet_join
    BY <1>4 DEF build_structure
  <2>2. tables' = Known(T) /\ subconcept_matrix' = Known(Order)
    BY <2>1, Builders DEF T
  <2>3. CrispLists => covering_matrix' = Known(Cov)
    BY <2>1, Builders DEF Cov, CoverOK
  <2> QED BY <2>2, <2>3, Builders
<1>5. \A name, b : ~ IsLattice => Says(name, b)
  BY DEF Says
<1>6. \A b : ~ CrispLists => Says("semimodularity", b) /\ Says("atomicity", b)
  BY DEF Says
<1>7. CASE is_distributive
  <2> DEFINE outcomes == ReadsTables(check_distributivity(n, tables'[1]))
  <2>1. ASSUME build_structure, NEW b \in outcomes PROVE Says("distributivity", b)
    BY <1>2, <1>4, <1>5, <2>1 DEF ReadsTables
  <2>2. Ask("distributivity", outcomes)
    BY <1>7 DEF is_distributive
  <2>3. outcomes \in SUBSET BOOLEAN
    BY Outcomes
  <2> HIDE DEF outcomes
  <2> QED BY <1>3, <2>1, <2>2, <2>3 DEF PropertyNames
<1>8. CASE is_modular
  <2> DEFINE outcomes == ReadsTables(check_modularity(n, tables'[1]))
  <2>1. ASSUME build_structure, NEW b \in outcomes PROVE Says("modularity", b)
    BY <1>2, <1>4, <1>5, <2>1 DEF ReadsTables
  <2>2. Ask("modularity", outcomes)
    BY <1>8 DEF is_modular
  <2>3. outcomes \in SUBSET BOOLEAN
    BY Outcomes
  <2> HIDE DEF outcomes
  <2> QED BY <1>3, <2>1, <2>2, <2>3 DEF PropertyNames
<1>9. CASE is_semimodular
  <2> DEFINE outcomes == ReadsTables(check_semimodularity(n, tables'[1], covering_matrix'[1]))
  <2>1. ASSUME build_structure, NEW b \in outcomes PROVE Says("semimodularity", b)
    BY <1>2, <1>4, <1>5, <1>6, <2>1 DEF ReadsTables
  <2>2. Ask("semimodularity", outcomes)
    BY <1>9 DEF is_semimodular
  <2>3. outcomes \in SUBSET BOOLEAN
    BY Outcomes
  <2> HIDE DEF outcomes
  <2> QED BY <1>3, <2>1, <2>2, <2>3 DEF PropertyNames
<1>10. CASE is_atomic
  <2> DEFINE outcomes == {check_atomicity(n, subconcept_matrix'[1], covering_matrix'[1])}
  <2>1. ASSUME build_structure, NEW b \in outcomes PROVE Says("atomicity", b)
    BY <1>2, <1>4, <1>5, <1>6, <2>1
  <2>2. Ask("atomicity", outcomes)
    BY <1>10 DEF is_atomic
  <2>3. outcomes \in SUBSET BOOLEAN
    BY Outcomes
  <2> HIDE DEF outcomes
  <2> QED BY <1>3, <2>1, <2>2, <2>3 DEF PropertyNames
<1> QED BY <1>7, <1>8, <1>9, <1>10

\* Every step keeps the answers and the properties right.
LEMMA AnswersStep ==
  ASSUME CallsOK, CachesOK, CoverOK, KnownProperties, Answers, [Next]_vars
  PROVE  KnownProperties' /\ Answers'
<1>1. CASE is_distributive \/ is_modular \/ is_semimodular \/ is_atomic
  BY <1>1, PropertyAnswered DEF Answers
<1>2. CASE supremum \/ infimum \/ top \/ bottom
  <2>1. concepts' = concepts /\ properties' = properties
    BY <1>2 DEF supremum, infimum, top, bottom
  <2>2. BoundAnswer'
    BY <1>2, BoundAnswered
  <2> QED BY <2>1, <2>2, AnswersKept DEF Answers
<1>3. CASE join_irreducibles \/ meet_irreducibles \/ decompose
  <2>1. concepts' = concepts /\ properties' = properties
    BY <1>3 DEF join_irreducibles, meet_irreducibles, decompose
  <2>2. IrreducibleAnswer'
    BY <1>3, IrreducibleAnswered
  <2> QED BY <2>1, <2>2, AnswersKept DEF Answers
<1>4. CASE plot \/ sublattice \/ TurnToMeets
  <2>1. concepts' = concepts /\ properties' = properties
    BY <1>4 DEF plot, sublattice, TurnToMeets, caches
  <2>2. answer'[1] \in Plain
    BY <1>4 DEF plot, sublattice, TurnToMeets, Plain
  <2> QED BY <2>1, <2>2, AnswersKept DEF Answers
<1>5. CASE plotting \/ JoinRound \/ MeetRound \/ UNCHANGED vars
  <2>1. concepts' = concepts /\ properties' = properties /\ answer' = answer
    BY <1>5 DEF plotting, JoinRound, MeetRound, vars, caches
  <2> QED BY <2>1, AnswersKept
<1>6. CASE subconcepts \/ superconcepts \/ Sublattice \/ json
  <2>1. properties' = NoProperties /\ answer'[1] \in Plain
    <3>1. CASE subconcepts
      BY <3>1 DEF subconcepts, Replace, Plain
    <3>2. CASE superconcepts
      BY <3>2 DEF superconcepts, Replace, Plain
    <3>3. CASE Sublattice
      BY <3>3 DEF Sublattice, Replace, Plain
    <3>4. CASE json
      BY <3>4 DEF json, Plain
    <3> QED BY <1>6, <3>1, <3>2, <3>3, <3>4
  <2>2. \A name \in PropertyNames, b \in BOOLEAN : properties'[name] # Known(b)
    <3>1. \A name \in PropertyNames : properties'[name] = Unset
      BY <2>1 DEF NoProperties, PropertyNames
    <3> QED BY <3>1, Builders
  <2> QED BY <2>1, <2>2 DEF KnownProperties, Answers
<1> QED BY <1>1, <1>2, <1>3, <1>4, <1>5, <1>6 DEF Next

-----------------------------------------------------------------------------
\* The theorems about the caches and the answers.

ReadInvariant == CallsOK /\ CachesOK /\ CoverOK /\ KnownProperties /\ Answers

LEMMA ReadInvariantKept == Spec => []ReadInvariant
<1>1. ASSUME Init PROVE ReadInvariant
  <2>1. CallsOK /\ CachesOK
    BY <1>1, CallsInit
  <2>2. CoverOK
    BY <1>1 DEF Init, CoverOK, CrispLists, Concepts, n
  <2>3. KnownProperties
    <3>1. \A name \in PropertyNames : properties[name] = Unset
      BY <1>1 DEF Init, NoProperties, PropertyNames
    <3> QED BY <2>1, <3>1, Builders DEF KnownProperties
  <2>4. Answers
    BY <1>1 DEF Init, Answers
  <2> QED BY <2>1, <2>2, <2>3, <2>4 DEF ReadInvariant
<1>2. ASSUME ReadInvariant, [Next]_vars PROVE ReadInvariant'
  <2>1. CallsOK /\ CachesOK /\ CoverOK /\ KnownProperties /\ Answers
    BY <1>2 DEF ReadInvariant
  <2>2. CallsOK' /\ CachesOK' /\ (Keeps \/ Replaces \/ json)
    BY <1>2, <2>1, EveryStep
  <2>3. CoverOK'
    BY <2>1, <2>2, CoverStep
  <2>4. KnownProperties' /\ Answers'
    BY <1>2, <2>1, AnswersStep
  <2> QED BY <2>2, <2>3, <2>4 DEF ReadInvariant
<1> QED BY <1>1, <1>2, PTL DEF Spec

\* Which of the answers it is.
LEMMA AnswerKinds ==
  ASSUME Answers, answer # << >>
  PROVE  /\ answer[1] \in {"supremum", "infimum", "top", "bottom"} => BoundAnswer
         /\ answer[1] \in {"join_irreducibles", "meet_irreducibles", "decompose"} =>
              IrreducibleAnswer
         /\ answer[1] \in PropertyNames => PropertyAnswer
<1>1. BoundAnswer => answer[1] \in {"supremum", "infimum", "top", "bottom"}
  <2>1. ASSUME NEW S, NEW D, \/ answer = <<"supremum", S, D>> \/ answer = <<"infimum", S, D>>
                             \/ answer = <<"top", D>> \/ answer = <<"bottom", D>>
        PROVE  answer[1] \in {"supremum", "infimum", "top", "bottom"}
    BY <2>1
  <2> QED BY <2>1 DEF BoundAnswer
<1>2. IrreducibleAnswer => answer[1] \in {"join_irreducibles", "meet_irreducibles", "decompose"}
  <2>1. ASSUME NEW C, NEW D, \/ answer = <<"join_irreducibles", D>> 
                             \/ answer = <<"meet_irreducibles", D>>
                             \/ answer = <<"decompose", C, D>>
        PROVE  answer[1] \in {"join_irreducibles", "meet_irreducibles", "decompose"}
    BY <2>1
  <2> QED BY <2>1 DEF IrreducibleAnswer
<1>3. PropertyAnswer => answer[1] \in PropertyNames
  BY DEF PropertyAnswer
<1> QED BY <1>1, <1>2, <1>3 DEF Answers, Plain, PropertyNames

\* The bounds in the tables and in the answers.
LEMMA BoundsFollow ==
  ASSUME ReadInvariant
  PROVE  BoundsRight
<1>0. CallsOK /\ CachesOK /\ Answers
  BY DEF ReadInvariant
<1>1. ASSUME tables # Unset, Distinct, NEW i \in Concepts, NEW j \in Concepts
      PROVE  /\ Infima({i, j}) # {} => tables[1].meet[i][j] \in Infima({i, j})
             /\ Suprema({i, j}) # {} => tables[1].join[i][j] \in Suprema({i, j})
  <2>1. /\ n \in Nat /\ Concepts = 1 .. n /\ IsOrder(1 .. n, Order)
        /\ \A S \in SUBSET Concepts : /\ Suprema(S) = Sups(1 .. n, Order, S)
                                      /\ Infima(S) = Infs(1 .. n, Order, S)
    BY <1>0, <1>1, OrderLaw DEF CallsOK, Concepts
  <2>2. tables[1] = compute_meet_join(n, Order)
    BY <1>0, <1>1, Builders DEF CachesOK
  <2>3. PICK S : S = {i, j}
    OBVIOUS
  <2>4. Suprema(S) = Sups(1 .. n, Order, S) /\ Infima(S) = Infs(1 .. n, Order, S)
    BY <2>1, <2>3
  <2>5. /\ Infs(1 .. n, Order, {i, j}) # {} =>
             tables[1].meet[i][j] \in Infs(1 .. n, Order, {i, j})
        /\ Sups(1 .. n, Order, {i, j}) # {} =>
             tables[1].join[i][j] \in Sups(1 .. n, Order, {i, j})
    <3>1. /\ tables[1].meet[i][j] = meet_val(Order, i, j)
          /\ tables[1].join[i][j] = join_val(Order, i, j)
      BY <2>1, <2>2 DEF compute_meet_join
    <3>2. 1 .. n \in SUBSET Nat /\ IsFiniteSet(1 .. n)
      BY <2>1, FS_Interval
    <3>3. /\ \A l \in Infs(1 .. n, Order, {i, j}) : meet_val(Order, i, j) = l
          /\ \A u \in Sups(1 .. n, Order, {i, j}) : join_val(Order, i, j) = u
      BY <2>1, <3>2, TablesRight
    <3> QED BY <3>1, <3>3
  <2> QED BY <2>3, <2>4, <2>5
<1>2. ASSUME answer # << >>, IsLattice
      PROVE  /\ answer[1] = "infimum" => answer[3] = Infima(answer[2])
             /\ answer[1] = "supremum" => answer[3] = Suprema(answer[2])
             /\ answer[1] = "top" => answer[2] = Infima({})
             /\ answer[1] = "bottom" => answer[2] = Suprema({})
  <2>1. CASE BoundAnswer
    <3>1. PICK S \in SUBSET Concepts, D \in SUBSET Concepts :
             \/ answer = <<"supremum", S, D>> /\ D = Suprema(S)
             \/ answer = <<"infimum", S, D>> /\ D = Infima(S)
             \/ answer = <<"top", D>> /\ D = Infima({})
             \/ answer = <<"bottom", D>> /\ D = Suprema({})
      BY <1>2, <2>1 DEF BoundAnswer
    <3> QED BY <3>1
  <2>2. CASE ~ BoundAnswer
    BY <1>0, <1>2, <2>2, AnswerKinds
  <2> QED BY <2>1, <2>2
<1> QED BY <1>1, <1>2 DEF BoundsRight, Answered

\* The covering relation kept is that of the concepts, if they are crisp.
LEMMA CoverFollows ==
  ASSUME ReadInvariant, CrispLists
  PROVE  CoverRight
<1>0. CallsOK /\ CoverOK
  BY DEF ReadInvariant
<1> SUFFICES ASSUME covering_matrix # Unset, Distinct
             PROVE  covering_matrix[1] = {p \in Concepts \X Concepts : Covers(p[2], p[1])}
  BY DEF CoverRight
<1>1. /\ IsFiniteSet(Concepts) /\ IsOrder(Concepts, Order)
      /\ \A i, j \in Concepts : Covers(j, i) <=> CoversIn(Concepts, Order, j, i)
  BY <1>0, OrderLaw DEF CallsOK
<1>2. covering_matrix[1] = reduce_transitivity(Order)
  BY <1>0 DEF CoverOK, Known, Unset
<1>3. reduce_transitivity(Order) = {p \in Concepts \X Concepts : CoversIn(Concepts, Order, p[2], p[1])}
  BY <1>1, ReductionRight
<1> QED BY <1>1, <1>2, <1>3

\* The properties said of the concepts, which are asked in the order of their
\* numbers only.
LEMMA PropertiesFollow ==
  ASSUME ReadInvariant, CrispLists
  PROVE  PropertiesRight
<1> DEFINE cancels == \A y, z \in Concepts : y < z => \A x \in Concepts : ~ SameBounds(x, y, z)
           cancelsBelow ==
             \A y, z \in Concepts : y # z /\ Below(y, z) => \A x \in Concepts : ~ SameBounds(x, y, z)
           Covered(x, y) == \A l \in Infima({x, y}), u \in Suprema({x, y}) :
                              Covers(x, l) /\ Covers(y, l) => Covers(u, x) /\ Covers(u, y)
           semimodular == \A x, y \in Concepts : x < y => Covered(x, y)
<1>0. Answers /\ Concepts \in SUBSET Nat
  BY OrderLaw DEF ReadInvariant, CallsOK
<1>1. cancels <=> \A x, y, z \in Concepts : SameBounds(x, y, z) => y = z
  <2>1. ASSUME cancels, NEW x \in Concepts, NEW y \in Concepts, NEW z \in Concepts,
               SameBounds(x, y, z)
        PROVE  y = z
    <3>1. SameBounds(x, z, y)
      BY <2>1 DEF SameBounds
    <3>2. ~ (y < z) /\ ~ (z < y)
      BY <2>1, <3>1
    <3> QED BY <1>0, <3>2
  <2>2. ASSUME \A x, y, z \in Concepts : SameBounds(x, y, z) => y = z PROVE cancels
    BY <1>0, <2>2
  <2> QED BY <2>1, <2>2
<1>2. cancelsBelow <=> \A x, y, z \in Concepts : Below(y, z) /\ SameBounds(x, y, z) => y = z
  OBVIOUS
<1>3. semimodular <=> \A x, y \in Concepts : x # y => Covered(x, y)
  <2>1. ASSUME NEW x \in Concepts, NEW y \in Concepts PROVE Covered(x, y) <=> Covered(y, x)
    <3>1. {x, y} = {y, x}
      OBVIOUS
    <3>2. Infima({x, y}) = Infima({y, x}) /\ Suprema({x, y}) = Suprema({y, x})
      BY <3>1
    <3> QED BY <3>2
  <2> HIDE DEF Covered
  <2>2. \A x, y \in Concepts : x # y => x < y \/ y < x
    BY <1>0
  <2>3. \A x, y \in Concepts : x < y => x # y
    BY <1>0
  <2> QED BY <2>1, <2>2, <2>3
<1>4. ASSUME answer # << >>, IsLattice
      PROVE  /\ answer[1] = "distributivity" => answer[2] = cancels
             /\ answer[1] = "modularity" => answer[2] = cancelsBelow
             /\ answer[1] = "semimodularity" => answer[2] = semimodular
             /\ answer[1] = "atomicity" => answer[2]
  <2> HIDE DEF cancels, cancelsBelow, semimodular
  <2>1. CASE PropertyAnswer
    <3>1. PICK name \in PropertyNames, b \in BOOLEAN : answer = <<name, b>> /\ Says(name, b)
      BY <2>1 DEF PropertyAnswer
    <3>2. answer[1] = name /\ answer[2] = b
      BY <3>1
    <3>3. cancels \in BOOLEAN /\ cancelsBelow \in BOOLEAN /\ semimodular \in BOOLEAN
      BY DEF cancels, cancelsBelow, semimodular
    <3>4. /\ name = "distributivity" => (b <=> cancels)
          /\ name = "modularity" => (b <=> cancelsBelow)
          /\ name = "semimodularity" => (b <=> semimodular)
          /\ name = "atomicity" => b
      BY <1>1, <1>2, <1>3, <1>4, <3>1 DEF Says
    <3> QED BY <3>1, <3>2, <3>3, <3>4
  <2>2. CASE ~ PropertyAnswer
    <3>1. answer[1] \notin PropertyNames
      BY <1>0, <1>4, <2>2, AnswerKinds
    <3> QED BY <3>1 DEF PropertyNames
  <2> QED BY <2>1, <2>2
<1> QED BY <1>4 DEF PropertiesRight, Answered, SameBounds

\* The irreducible concepts generate the lattice.
LEMMA IrreduciblesFollow ==
  ASSUME ReadInvariant, CrispLists
  PROVE  IrreduciblesGenerate
<1> DEFINE J(D, c) == {j \in D : Below(j, c)}
           M(D, c) == {m \in D : Below(c, m)}
           Joins(D) == /\ \A c \in Concepts : c \in Suprema(J(D, c))
                       /\ \A j \in D : j \notin Suprema(J(D, j) \ {j})
           Meets(D) == /\ \A c \in Concepts : c \in Infima(M(D, c))
                       /\ \A m \in D : m \notin Infima(M(D, m) \ {m})
           JI == Irreducibles(Concepts, Order)
           MI == Irreducibles(Concepts, Dual(Order))
<1>0. Answers
  BY DEF ReadInvariant
<1>1. ASSUME IsLattice PROVE Joins(JI) /\ Meets(MI)
  <2>1. /\ IsFiniteSet(Concepts) /\ IsLatticeOrder(Concepts, Order) /\ IsOrder(Concepts, Order)
        /\ \A i, j \in Concepts : <<i, j>> \in Order <=> Below(i, j)
        /\ \A S \in SUBSET Concepts : Suprema(S) = Sups(Concepts, Order, S)
        /\ \A S \in SUBSET Concepts : Infima(S) = Infs(Concepts, Order, S)
    BY <1>1, OrderLaw DEF ReadInvariant, CallsOK, IsLatticeOrder
  <2>2. /\ IsLatticeOrder(Concepts, Dual(Order))
        /\ \A i, j : <<i, j>> \in Dual(Order) <=> <<j, i>> \in Order
        /\ \A S : Sups(Concepts, Dual(Order), S) = Infs(Concepts, Order, S)
    BY <2>1, DualOrder
  <2>3. JI \in SUBSET Concepts /\ MI \in SUBSET Concepts
    BY DEF Irreducibles
  <2>4. /\ \A c \in Concepts : c \in Sups(Concepts, Order, {j \in JI : <<j, c>> \in Order})
        /\ \A j \in JI : j \notin Sups(Concepts, Order, {k \in JI : <<k, j>> \in Order} \ {j})
    BY <2>1, IrreduciblesLaw
  <2>5. /\ \A c \in Concepts :
             c \in Sups(Concepts, Dual(Order), {j \in MI : <<j, c>> \in Dual(Order)})
        /\ \A j \in MI :
             j \notin Sups(Concepts, Dual(Order), {k \in MI : <<k, j>> \in Dual(Order)} \ {j})
    BY <2>1, <2>2, IrreduciblesLaw
  <2> HIDE DEF JI, MI
  <2>6. ASSUME NEW c \in Concepts
        PROVE  /\ J(JI, c) = {j \in JI : <<j, c>> \in Order}
               /\ M(MI, c) = {j \in MI : <<j, c>> \in Dual(Order)}
               /\ J(JI, c) \in SUBSET Concepts /\ J(JI, c) \ {c} \in SUBSET Concepts
               /\ M(MI, c) \in SUBSET Concepts /\ M(MI, c) \ {c} \in SUBSET Concepts
    BY <2>1, <2>2, <2>3
  <2>7. Joins(JI)
    <3>1. ASSUME NEW c \in Concepts PROVE c \in Suprema(J(JI, c))
      BY <2>1, <2>4, <2>6
    <3>2. ASSUME NEW j \in JI PROVE j \notin Suprema(J(JI, j) \ {j})
      BY <2>1, <2>3, <2>4, <2>6
    <3> QED BY <3>1, <3>2
  <2>8. Meets(MI)
    <3>1. ASSUME NEW c \in Concepts PROVE c \in Infima(M(MI, c))
      <4>1. Infima(M(MI, c)) = Sups(Concepts, Dual(Order), M(MI, c))
        BY <2>1, <2>2, <2>6
      <4> QED BY <2>5, <2>6, <4>1
    <3>2. ASSUME NEW m \in MI PROVE m \notin Infima(M(MI, m) \ {m})
      <4>1. m \in Concepts
        BY <2>3
      <4>2. Infima(M(MI, m) \ {m}) = Sups(Concepts, Dual(Order), M(MI, m) \ {m})
        BY <2>1, <2>2, <2>6, <4>1
      <4> QED BY <2>5, <2>6, <4>1, <4>2
    <3> QED BY <3>1, <3>2
  <2> QED BY <2>7, <2>8
<1> HIDE DEF JI, MI, Joins, Meets
<1>2. ASSUME answer # << >>, IsLattice
      PROVE  /\ answer[1] = "join_irreducibles" => Joins(answer[2])
             /\ answer[1] = "meet_irreducibles" => Meets(answer[2])
             /\ answer[1] = "decompose" => Infima(answer[3]) = {answer[2]}
  <2>1. CASE IrreducibleAnswer
    <3>1. PICK D \in SUBSET Concepts :
             \/ answer = <<"join_irreducibles", D>> /\ D = JI
             \/ answer = <<"meet_irreducibles", D>> /\ D = MI
             \/ \E C \in Concepts : answer = <<"decompose", C, D>> /\ Infima(D) = {C}
      BY <1>2, <2>1 DEF IrreducibleAnswer, JI, MI
    <3>2. CASE answer = <<"join_irreducibles", D>> /\ D = JI
      <4>1. answer[1] = "join_irreducibles" /\ answer[2] = JI
        BY <3>2
      <4> QED BY <1>1, <1>2, <4>1
    <3>3. CASE answer = <<"meet_irreducibles", D>> /\ D = MI
      <4>1. answer[1] = "meet_irreducibles" /\ answer[2] = MI
        BY <3>3
      <4> QED BY <1>1, <1>2, <4>1
    <3>4. CASE \E C \in Concepts : answer = <<"decompose", C, D>> /\ Infima(D) = {C}
      <4>1. PICK C : answer = <<"decompose", C, D>> /\ Infima(D) = {C}
        BY <3>4
      <4>2. answer[1] = "decompose" /\ answer[2] = C /\ answer[3] = D
        BY <4>1
      <4> QED BY <4>1, <4>2
    <3> QED BY <3>1, <3>2, <3>3, <3>4
  <2>2. CASE ~ IrreducibleAnswer
    BY <1>0, <1>2, <2>2, AnswerKinds
  <2> QED BY <2>1, <2>2
<1> QED BY <1>2 DEF IrreduciblesGenerate, Answered, Joins, Meets

\* The tables of meets and joins hold the infima and suprema that exist, whether
\* the concepts listed are a lattice or not, and supremum(), infimum(), top()
\* and bottom() answer right about a lattice, whatever calls came before.
THEOREM BoundsAnswered == Spec => []BoundsRight
<1>1. ReadInvariant => BoundsRight
  BY BoundsFollow
<1> QED BY <1>1, ReadInvariantKept, PTL

\* The covering relation kept is that of the concepts, also when it was read
\* from a file with them.  The file has no degrees: a lattice of concepts with
\* others than 0.0 and 1.0 keeps the covering relation of what these were.
THEOREM CoverKept == ASSUME CrispLists PROVE Spec => []CoverRight
<1>1. ReadInvariant => CoverRight
  BY CoverFollows
<1> QED BY <1>1, ReadInvariantKept, PTL

\* is_distributive() and is_modular() decide the laws by elements with the same
\* meet and join, is_semimodular() the covering law, and is_atomic() is TRUE:
\* what is computed once stays right until another lattice is returned.
THEOREM PropertiesDecided == ASSUME CrispLists PROVE Spec => []PropertiesRight
<1>1. ReadInvariant => PropertiesRight
  BY PropertiesFollow
<1> QED BY <1>1, ReadInvariantKept, PTL

\* Every concept is the supremum of the join-irreducible ones below it and the
\* infimum of the meet-irreducible ones above it, none of which can be spared,
\* and the infimum of its decomposition.
THEOREM IrreduciblesSuffice == ASSUME CrispLists PROVE Spec => []IrreduciblesGenerate
<1>1. ReadInvariant => IrreduciblesGenerate
  BY IrreduciblesFollow
<1> QED BY <1>1, ReadInvariantKept, PTL

-----------------------------------------------------------------------------
\* The joins that sublattice() takes.

\* The joins of at most k concepts of G.
JoinsUpTo(N, Adj, G, k) ==
  {x \in N : \E S \in SUBSET G : S # {} /\ Cardinality(S) <= k /\ x \in Sups(N, Adj, S)}

\* Between two sets there is one of every size between theirs.
LEMMA SizeBetween ==
  ASSUME NEW S, IsFiniteSet(S), NEW T \in SUBSET S,
         NEW m \in Nat, Cardinality(T) <= m, m <= Cardinality(S)
  PROVE  \E A \in SUBSET S : T \subseteq A /\ Cardinality(A) = m
<1> DEFINE Large == {A \in SUBSET S : T \subseteq A /\ Cardinality(A) >= m}
           Sizes == {Cardinality(A) : A \in Large}
<1>1. \A A \in SUBSET S : IsFiniteSet(A) /\ Cardinality(A) \in Nat
  BY FS_Subset, FS_CardinalityType
<1>2. S \in Large
  BY <1>1
<1>3. PICK A \in Large : \A U \in Large : Cardinality(A) <= Cardinality(U)
  <2>1. Sizes \in SUBSET Nat /\ Sizes # {}
    BY <1>1, <1>2
  <2>2. Min(Sizes) \in Sizes /\ \A x \in Sizes : Min(Sizes) <= x
    <3> HIDE DEF Sizes
    <3> QED BY <2>1, NatMin
  <2> QED BY <2>2
<1>4. CASE Cardinality(A) = m
  BY <1>4
<1>5. CASE Cardinality(A) # m
  <2>1. Cardinality(A) > m /\ A # T
    BY <1>1, <1>5
  <2>2. PICK e \in A : e \notin T
    BY <2>1
  <2>3. Cardinality(A \ {e}) = Cardinality(A) - 1
    BY <1>1, FS_RemoveElement
  <2>4. A \ {e} \in Large
    BY <1>1, <2>1, <2>2, <2>3
  <2>5. Cardinality(A) <= Cardinality(A) - 1
    BY <1>3, <2>3, <2>4
  <2> QED BY <1>1, <2>5
<1> QED BY <1>4, <1>5

\* The join of two joins is that of all together.
LEMMA JoinOfJoins ==
  ASSUME NEW N, NEW Adj, IsOrder(N, Adj), NEW A \in SUBSET N, NEW B \in SUBSET N,
         NEW x \in Sups(N, Adj, A), NEW y \in Sups(N, Adj, B)
  PROVE  Sups(N, Adj, A \cup B) = Sups(N, Adj, {x, y})
<1>1. ASSUME NEW k \in N
      PROVE  (\A i \in A \cup B : <<i, k>> \in Adj) <=> (\A i \in {x, y} : <<i, k>> \in Adj)
  <2>1. x \in N /\ y \in N
    BY DEF Sups
  <2>2. (\A i \in A : <<i, k>> \in Adj) <=> <<x, k>> \in Adj
    BY <2>1 DEF Sups, IsOrder
  <2>3. (\A i \in B : <<i, k>> \in Adj) <=> <<y, k>> \in Adj
    BY <2>1 DEF Sups, IsOrder
  <2> QED BY <2>2, <2>3
<1> QED BY <1>1 DEF Sups

\* The joins of no concepts are none, those of one are the concepts, and more
\* concepts have more joins.
LEMMA FewJoins ==
  ASSUME NEW N, IsFiniteSet(N), NEW Adj, IsOrder(N, Adj), NEW G \in SUBSET N
  PROVE  /\ JoinsUpTo(N, Adj, G, 0) = {} /\ JoinsUpTo(N, Adj, G, 1) = G
         /\ \A h, k \in Nat : h <= k => JoinsUpTo(N, Adj, G, h) \subseteq JoinsUpTo(N, Adj, G, k)
<1>1. \A S \in SUBSET G : /\ IsFiniteSet(S) /\ Cardinality(S) \in Nat
                          /\ S # {} => Cardinality(S) # 0
  BY FS_Subset, FS_CardinalityType, FS_EmptySet
<1>2. JoinsUpTo(N, Adj, G, 0) = {}
  BY <1>1 DEF JoinsUpTo
<1>3. ASSUME NEW x \in G PROVE x \in JoinsUpTo(N, Adj, G, 1)
  <2>1. x \in Sups(N, Adj, {x})
    BY DEF Sups, IsOrder
  <2>2. Cardinality({x}) = 1
    BY FS_Singleton
  <2> QED BY <2>1, <2>2 DEF JoinsUpTo
<1>4. ASSUME NEW x \in JoinsUpTo(N, Adj, G, 1) PROVE x \in G
  <2>1. PICK S \in SUBSET G : S # {} /\ Cardinality(S) <= 1 /\ x \in Sups(N, Adj, S)
    BY DEF JoinsUpTo
  <2>2. Cardinality(S) = 1 /\ IsFiniteSet(S)
    BY <1>1, <2>1
  <2>3. PICK y : S = {y}
    BY <2>2, FS_Singleton
  <2>4. y \in N /\ y \in Sups(N, Adj, {y})
    BY <2>3 DEF Sups, IsOrder
  <2>5. x = y
    BY <2>1, <2>3, <2>4 DEF Sups, IsOrder
  <2> QED BY <2>3, <2>5
<1>5. ASSUME NEW h \in Nat, NEW k \in Nat, h <= k
      PROVE  JoinsUpTo(N, Adj, G, h) \subseteq JoinsUpTo(N, Adj, G, k)
  <2>1. \A S \in SUBSET G : Cardinality(S) <= h => Cardinality(S) <= k
    BY <1>1, <1>5
  <2> QED BY <2>1 DEF JoinsUpTo
<1> QED BY <1>2, <1>3, <1>4, <1>5

\* A join has a smallest set of concepts of which it is one; and the join of
\* some of these is not that of fewer concepts.
LEMMA SmallestJoin ==
  ASSUME NEW N, IsFiniteSet(N), NEW Adj, IsOrder(N, Adj), NEW G \in SUBSET N,
         NEW k \in Nat, NEW z \in JoinsUpTo(N, Adj, G, k)
  PROVE  \E S \in SUBSET G :
           /\ S # {} /\ Cardinality(S) <= k /\ z \in Sups(N, Adj, S)
           /\ \A A \in SUBSET S : \A x \in Sups(N, Adj, A), h \in Nat :
                h < Cardinality(A) => x \notin JoinsUpTo(N, Adj, G, h)
<1> DEFINE Of == {S \in SUBSET G : S # {} /\ Cardinality(S) <= k /\ z \in Sups(N, Adj, S)}
           Sizes == {Cardinality(S) : S \in Of}
<1>1. \A S \in SUBSET G : IsFiniteSet(S) /\ Cardinality(S) \in Nat
  BY FS_Subset, FS_CardinalityType
<1>2. Of # {}
  BY DEF JoinsUpTo
<1>3. PICK S \in Of : \A U \in Of : Cardinality(S) <= Cardinality(U)
  <2>1. Sizes \in SUBSET Nat /\ Sizes # {}
    BY <1>1, <1>2
  <2>2. Min(Sizes) \in Sizes /\ \A x \in Sizes : Min(Sizes) <= x
    <3> HIDE DEF Sizes
    <3> QED BY <2>1, NatMin
  <2> QED BY <2>2
<1>4. ASSUME NEW A \in SUBSET S, NEW x \in Sups(N, Adj, A), NEW h \in Nat, h < Cardinality(A),
             x \in JoinsUpTo(N, Adj, G, h)
      PROVE  FALSE
  <2>1. PICK B \in SUBSET G : B # {} /\ Cardinality(B) <= h /\ x \in Sups(N, Adj, B)
    BY <1>4 DEF JoinsUpTo
  <2> DEFINE R == S \ A
             U == B \cup R
  <2>2. R \in SUBSET S /\ U \in SUBSET G /\ U # {} /\ S \in SUBSET N /\ U \in SUBSET N
    BY <2>1
  <2>3. Cardinality(U) < Cardinality(S)
    <3>1. /\ IsFiniteSet(S) /\ IsFiniteSet(A) /\ IsFiniteSet(B) /\ IsFiniteSet(R)
          /\ Cardinality(S) \in Nat /\ Cardinality(A) \in Nat /\ Cardinality(B) \in Nat
          /\ Cardinality(R) \in Nat
      BY <1>1, <2>2
    <3>2. Cardinality(R) = Cardinality(S) - Cardinality(A)
      <4>1. S \cap A = A
        OBVIOUS
      <4>2. Cardinality(S \ A) = Cardinality(S) - Cardinality(S \cap A)
        BY <3>1, FS_Difference
      <4> QED BY <4>1, <4>2
    <3>3. Cardinality(U) <= Cardinality(B) + Cardinality(R)
      <4>1. Cardinality(U) = Cardinality(B) + Cardinality(R) - Cardinality(B \cap R)
        BY <3>1, FS_Union
      <4>2. Cardinality(B \cap R) \in Nat
        BY <3>1, FS_Intersection, FS_CardinalityType
      <4> HIDE DEF U, R
      <4> QED BY <3>1, <4>1, <4>2
    <3>4. Cardinality(U) \in Nat
      BY <1>1, <2>2
    <3> HIDE DEF U, R
    <3> QED BY <1>4, <2>1, <3>1, <3>2, <3>3, <3>4
  <2>4. z \in Sups(N, Adj, U)
    <3>1. \A c \in N : (\A i \in A : <<i, c>> \in Adj) <=> <<x, c>> \in Adj
      BY <1>4, <2>2 DEF Sups, IsOrder
    <3>2. \A c \in N : (\A i \in B : <<i, c>> \in Adj) <=> <<x, c>> \in Adj
      BY <2>1, <2>2 DEF Sups, IsOrder
    <3>3. \A c \in N : (\A i \in S : <<i, c>> \in Adj) <=> (\A i \in U : <<i, c>> \in Adj)
      BY <3>1, <3>2
    <3>4. z \in Sups(N, Adj, S)
      BY <1>3
    <3> HIDE DEF U
    <3> QED BY <3>3, <3>4 DEF Sups
  <2>5. U \in Of
    <3>1. Cardinality(U) \in Nat /\ Cardinality(S) \in Nat /\ Cardinality(S) <= k
      BY <1>1, <2>2
    <3>2. Cardinality(U) <= k
      BY <2>3, <3>1
    <3> HIDE DEF U
    <3> QED BY <2>2, <2>4, <3>2
  <2>6. Cardinality(S) <= Cardinality(U) /\ Cardinality(S) \in Nat /\ Cardinality(U) \in Nat
    <3> HIDE DEF U
    <3> QED BY <1>1, <1>3, <2>2, <2>5
  <2> HIDE DEF U, Of
  <2> QED BY <2>3, <2>6
<1> QED BY <1>3, <1>4

\* The joins of two concepts in T.
PairJoins(N, Adj, T) == {z \in N : \E x, y \in T : x # y /\ z \in Sups(N, Adj, {x, y})}

\* When no join of m concepts is not one of fewer, m concepts give all joins.
LEMMA NoMoreJoins ==
  ASSUME NEW N, IsFiniteSet(N), NEW Adj, IsLatticeOrder(N, Adj), NEW G \in SUBSET N,
         NEW m \in Nat, NEW h \in Nat, h < m,
         JoinsUpTo(N, Adj, G, m) \subseteq JoinsUpTo(N, Adj, G, h), NEW k \in Nat
  PROVE  JoinsUpTo(N, Adj, G, k) \subseteq JoinsUpTo(N, Adj, G, m)
<1> DEFINE J(c) == JoinsUpTo(N, Adj, G, c)
<1>1. SUFFICES ASSUME NEW z \in J(k), z \notin J(m) PROVE FALSE
  OBVIOUS
<1>2. IsOrder(N, Adj)
  BY DEF IsLatticeOrder
<1>3. PICK S \in SUBSET G :
        /\ S # {} /\ z \in Sups(N, Adj, S)
        /\ \A A \in SUBSET S : \A x \in Sups(N, Adj, A), d \in Nat :
             d < Cardinality(A) => x \notin JoinsUpTo(N, Adj, G, d)
  BY <1>2, SmallestJoin
<1>4. IsFiniteSet(S) /\ Cardinality(S) \in Nat /\ S \in SUBSET N
  BY FS_Subset, FS_CardinalityType
<1>5. z \in N /\ ~ (Cardinality(S) <= m)
  BY <1>1, <1>3 DEF JoinsUpTo
<1>6. PICK A \in SUBSET S : Cardinality(A) = m
  <2>1. {} \in SUBSET S /\ Cardinality({}) <= m
    BY FS_EmptySet
  <2> QED BY <1>4, <1>5, <2>1, SizeBetween
<1>7. A # {} /\ A \in SUBSET N /\ A \in SUBSET G
  BY <1>4, <1>6, FS_EmptySet
<1>8. PICK x : x \in Sups(N, Adj, A)
  BY <1>7, FiniteSups
<1>9. x \in J(m)
  BY <1>6, <1>7, <1>8 DEF JoinsUpTo, Sups
<1>10. x \notin J(h)
  BY <1>3, <1>6, <1>8
<1> QED BY <1>9, <1>10

\* The joins of two of what was new are all that is new when twice as many
\* concepts are joined: a join of more than m concepts is that of two joins of
\* m of them, neither of which is a join of fewer.
LEMMA RoundOfJoins ==
  ASSUME NEW N, IsFiniteSet(N), NEW Adj, IsLatticeOrder(N, Adj), NEW G \in SUBSET N,
         NEW m \in Nat, NEW h \in Nat, h < m
  PROVE  PairJoins(N, Adj, JoinsUpTo(N, Adj, G, m) \ JoinsUpTo(N, Adj, G, h))
           \ JoinsUpTo(N, Adj, G, m)
         = JoinsUpTo(N, Adj, G, 2 * m) \ JoinsUpTo(N, Adj, G, m)
<1> DEFINE J(c) == JoinsUpTo(N, Adj, G, c)
           Last == J(m) \ J(h)
<1>1. IsOrder(N, Adj)
  BY DEF IsLatticeOrder
<1>2. \A S \in SUBSET G : IsFiniteSet(S) /\ Cardinality(S) \in Nat /\ S \in SUBSET N
  BY FS_Subset, FS_CardinalityType
<1>3. ASSUME NEW z \in PairJoins(N, Adj, Last) PROVE z \in J(2 * m)
  <2>1. PICK x \in J(m), y \in J(m) : z \in N /\ z \in Sups(N, Adj, {x, y})
    BY DEF PairJoins
  <2>2. PICK A \in SUBSET G : A # {} /\ Cardinality(A) <= m /\ x \in Sups(N, Adj, A)
    BY DEF JoinsUpTo
  <2>3. PICK B \in SUBSET G : B # {} /\ Cardinality(B) <= m /\ y \in Sups(N, Adj, B)
    BY DEF JoinsUpTo
  <2>4. Sups(N, Adj, A \cup B) = Sups(N, Adj, {x, y})
    BY <1>1, <1>2, <2>2, <2>3, JoinOfJoins
  <2>5. Cardinality(A \cup B) <= 2 * m
    <3>1. Cardinality(A \cup B) = Cardinality(A) + Cardinality(B) - Cardinality(A \cap B)
      BY <1>2, FS_Union
    <3>2. Cardinality(A \cap B) \in Nat
      BY <1>2, FS_Intersection, FS_CardinalityType
    <3>3. Cardinality(A) \in Nat /\ Cardinality(B) \in Nat
      BY <1>2
    <3> QED BY <2>2, <2>3, <3>1, <3>2, <3>3
  <2>6. A \cup B \in SUBSET G /\ A \cup B # {} /\ z \in Sups(N, Adj, A \cup B)
    BY <2>1, <2>2, <2>4
  <2>7. PICK U : U = A \cup B
    OBVIOUS
  <2> QED BY <2>1, <2>5, <2>6, <2>7 DEF JoinsUpTo
<1>4. ASSUME NEW z \in J(2 * m), z \notin J(m) PROVE z \in PairJoins(N, Adj, Last)
  <2>1. PICK S \in SUBSET G :
          /\ S # {} /\ Cardinality(S) <= 2 * m /\ z \in Sups(N, Adj, S)
          /\ \A A \in SUBSET S : \A x \in Sups(N, Adj, A), d \in Nat :
               d < Cardinality(A) => x \notin JoinsUpTo(N, Adj, G, d)
    <3>1. 2 * m \in Nat
      OBVIOUS
    <3> QED BY <1>1, <3>1, SmallestJoin
  <2>2. IsFiniteSet(S) /\ Cardinality(S) \in Nat /\ S \in SUBSET N
    BY <1>2
  <2>3. z \in N /\ ~ (Cardinality(S) <= m)
    BY <1>4, <2>1 DEF JoinsUpTo
  <2>4. PICK A \in SUBSET S : Cardinality(A) = m
    <3>1. {} \in SUBSET S /\ Cardinality({}) <= m
      BY FS_EmptySet
    <3> QED BY <2>2, <2>3, <3>1, SizeBetween
  <2>5. PICK B \in SUBSET S : Cardinality(B) = m /\ S \ A \subseteq B
    <3>1. S \ A \in SUBSET S /\ Cardinality(S \ A) <= m
      <4>1. Cardinality(S \ A) = Cardinality(S) - Cardinality(S \cap A)
        BY <2>2, FS_Difference
      <4>2. S \cap A = A
        OBVIOUS
      <4>3. Cardinality(S \ A) = Cardinality(S) - m
        BY <2>4, <4>1, <4>2
      <4>4. Cardinality(S) <= 2 * m
        BY <2>1
      <4>5. PICK c : c = Cardinality(S \ A)
        OBVIOUS
      <4>6. c <= m
        BY <2>2, <4>3, <4>4, <4>5
      <4> QED BY <4>5, <4>6
    <3> QED BY <2>2, <2>3, <3>1, SizeBetween
  <2>6. A \cup B = S
    BY <2>5
  <2>7. A # {} /\ B # {} /\ A \in SUBSET N /\ B \in SUBSET N /\ A \in SUBSET G /\ B \in SUBSET G
    BY <2>2, <2>4, <2>5, FS_EmptySet
  <2>8. PICK x : x \in Sups(N, Adj, A)
    BY <2>7, FiniteSups
  <2>9. PICK y : y \in Sups(N, Adj, B)
    BY <2>7, FiniteSups
  <2>10. x \in J(m) /\ y \in J(m)
    BY <2>4, <2>5, <2>7, <2>8, <2>9 DEF JoinsUpTo, Sups
  <2>11. x \notin J(h) /\ y \notin J(h)
    BY <2>1, <2>4, <2>5, <2>8, <2>9
  <2>12. z \in Sups(N, Adj, {x, y})
    <3>1. Sups(N, Adj, A \cup B) = Sups(N, Adj, {x, y})
      BY <1>1, <2>7, <2>8, <2>9, JoinOfJoins
    <3> QED BY <2>1, <2>6, <3>1
  <2>13. x # y
    <3>1. ASSUME x = y PROVE z = x
      <4>1. x \in N /\ <<x, x>> \in Adj
        BY <1>1, <2>8 DEF Sups, IsOrder
      <4>2. <<x, z>> \in Adj /\ <<z, x>> \in Adj
        BY <2>12, <3>1, <4>1 DEF Sups
      <4> QED BY <1>1, <2>3, <4>1, <4>2 DEF IsOrder
    <3> QED BY <1>4, <2>10, <3>1
  <2> QED BY <2>3, <2>10, <2>11, <2>12, <2>13 DEF PairJoins
<1> HIDE DEF J, Last
<1>5. PairJoins(N, Adj, Last) \ J(m) = J(2 * m) \ J(m)
  BY <1>3, <1>4
<1> QED BY <1>5 DEF J, Last

\* The joins of at most k of the concepts that sublattice() starts from.
Joins(k) == JoinsUpTo(Concepts, Order, generators, k)

\* After so many rounds the joins of m concepts are in, and those which are not
\* joins of h will be combined next; at the end all are in.
JoinInv ==
  generators # {} /\ IsLattice =>
    /\ answer = <<"joins">> =>
         \E m \in Nat, h \in Nat : h < m /\ idx_final = Joins(m) /\ idx = Joins(m) \ Joins(h)
    /\ answer[1] = "meets" => \A S \in (SUBSET generators) \ {{}} : Suprema(S) \subseteq idx_final

\* What a round of joins adds.
LEMMA NewJoinsAre ==
  ASSUME CallsOK, generators # {}, IsLattice
  PROVE  NewJoins = PairJoins(Concepts, Order, idx) \ idx_final
<1>0. /\ Concepts \in SUBSET Nat /\ IsFiniteSet(Concepts)
      /\ IsOrder(Concepts, Order) /\ IsLatticeOrder(Concepts, Order)
      /\ subconcept_matrix[1] = Order /\ idx \in SUBSET Concepts
  <2>1. subconcept_matrix[1] = Order
    BY DEF CallsOK, Known
  <2> QED BY <2>1, OrderLaw DEF CallsOK, IsLatticeOrder
<1> DEFINE Added == UNION {join(subconcept_matrix[1], S) : S \in Pairs}
<1>9. \A z : z \in Added <=> \E S \in Pairs : z \in join(Order, S)
  BY <1>0
<1> HIDE DEF Added
<1>1. \A P \in SUBSET Concepts : P # {} => join(Order, P) = Sups(Concepts, Order, P)
  BY <1>0, FiniteSups, SetBoundsRight
<1>2. ASSUME NEW z \in Added
      PROVE  z \in PairJoins(Concepts, Order, idx)
  <2>1. PICK S \in Pairs : z \in join(Order, S)
    BY <1>9
  <2>2. S \in SUBSET Concepts /\ Cardinality(S) = 2 /\ S \in SUBSET idx
    BY <1>0 DEF Pairs, kSubset
  <2>3. PICK x \in idx, y \in idx : x # y /\ S = {x, y}
    <3>1. IsFiniteSet(S)
      BY <1>0, <2>2, FS_Subset
    <3>2. S # {}
      BY <2>2, FS_EmptySet
    <3>3. PICK x \in S : TRUE
      BY <3>2
    <3>4. Cardinality(S \ {x}) = 1 /\ IsFiniteSet(S \ {x})
      BY <2>2, <3>1, FS_RemoveElement
    <3>5. PICK y : S \ {x} = {y}
      BY <3>4, FS_Singleton
    <3> QED BY <2>2, <3>5
  <2>4. z \in Sups(Concepts, Order, S)
    <3>1. S # {}
      BY <2>3
    <3> QED BY <1>1, <2>1, <2>2, <3>1
  <2>5. z \in Concepts /\ z \in Sups(Concepts, Order, {x, y})
    BY <2>3, <2>4 DEF Sups
  <2> QED BY <2>3, <2>5 DEF PairJoins
<1>3. ASSUME NEW z \in PairJoins(Concepts, Order, idx)
      PROVE  z \in Added
  <2>1. PICK x \in idx, y \in idx : x # y /\ z \in Sups(Concepts, Order, {x, y})
    BY DEF PairJoins
  <2>2. PICK S : S = {x, y}
    OBVIOUS
  <2>3. Cardinality(S) = 2
    <3>1. IsFiniteSet({x}) /\ Cardinality({x}) = 1 /\ y \notin {x} /\ S = {x} \cup {y}
      BY <2>1, <2>2, FS_Singleton
    <3> QED BY <3>1, FS_AddElement
  <2>4. S \in Pairs /\ S \in SUBSET Concepts /\ S # {}
    BY <1>0, <2>2, <2>3 DEF Pairs, kSubset
  <2>5. z \in join(Order, S)
    BY <1>1, <2>1, <2>2, <2>4
  <2> QED BY <1>9, <2>4, <2>5
<1> QED BY <1>2, <1>3 DEF NewJoins, Added

\* Every step of sublattice() keeps it.
LEMMA JoinStep ==
  ASSUME CallsOK, CachesOK, JoinInv, [Next]_vars
  PROVE  JoinInv'
<1>0. CallsOK'
  BY EveryStep
<1>1. CASE sublattice
  <2>1. /\ concepts' = concepts /\ generators' = idx' /\ idx_final' = idx'
        /\ answer' = <<"joins">>
    BY <1>1 DEF sublattice
  <2>2. ASSUME IsLattice'
        PROVE  0 < 1 /\ idx_final' = Joins(1)' /\ idx' = Joins(1)' \ Joins(0)'
    <3>1. IsFiniteSet(Concepts') /\ IsOrder(Concepts', Order') /\ generators' \in SUBSET Concepts'
      <4>1. IsFiniteSet(Concepts) /\ (IsLattice => IsOrder(Concepts, Order))
        BY OrderLaw DEF CallsOK, IsLatticeOrder
      <4>2. Concepts' = Concepts /\ Order' = Order /\ IsLattice' = IsLattice
        BY <2>1, KeptOrder
      <4>3. generators' \in SUBSET Concepts'
        BY <1>0 DEF CallsOK
      <4> QED BY <2>2, <4>1, <4>2, <4>3
    <3>2. /\ JoinsUpTo(Concepts', Order', generators', 0) = {}
          /\ JoinsUpTo(Concepts', Order', generators', 1) = generators'
      BY <3>1, FewJoins
    <3> QED BY <2>1, <3>2 DEF Joins
  <2> QED BY <2>1, <2>2 DEF JoinInv
<1>2. ASSUME generators # {}, IsLattice, answer = <<"joins">>
      PROVE  \E m \in Nat, h \in Nat :
               /\ h < m /\ idx_final = Joins(m) /\ idx = Joins(m) \ Joins(h)
               /\ NewJoins = Joins(2 * m) \ Joins(m) /\ Joins(m) \subseteq Joins(2 * m)
               /\ Over => \A S \in (SUBSET generators) \ {{}} : Suprema(S) \subseteq idx_final
  <2>1. PICK m \in Nat, h \in Nat : h < m /\ idx_final = Joins(m) /\ idx = Joins(m) \ Joins(h)
    BY <1>2 DEF JoinInv
  <2>2. /\ IsFiniteSet(Concepts) /\ Cardinality(Concepts) = n /\ IsOrder(Concepts, Order)
        /\ IsLatticeOrder(Concepts, Order)
        /\ \A S \in SUBSET Concepts : /\ Suprema(S) = Sups(Concepts, Order, S)
                                      /\ Suprema(S) \subseteq Concepts
        /\ generators \in SUBSET Concepts /\ idx_final \in SUBSET Concepts
    BY <1>2, OrderLaw DEF CallsOK, IsLatticeOrder
  <2>3. NewJoins = Joins(2 * m) \ Joins(m)
    <3>1. NewJoins = PairJoins(Concepts, Order, Joins(m) \ Joins(h)) \ Joins(m)
      BY <1>2, <2>1, NewJoinsAre
    <3>2. PairJoins(Concepts, Order, Joins(m) \ Joins(h)) \ Joins(m) = Joins(2 * m) \ Joins(m)
      BY <2>1, <2>2, RoundOfJoins DEF Joins
    <3> QED BY <3>1, <3>2
  <2>4. Joins(m) \subseteq Joins(2 * m)
    <3>1. 2 * m \in Nat /\ m <= 2 * m
      OBVIOUS
    <3> QED BY <2>2, <3>1, FewJoins DEF Joins
  <2>5. ASSUME Over, NEW S \in SUBSET generators, S # {} PROVE Suprema(S) \subseteq idx_final
    <3>1. S \in SUBSET Concepts /\ IsFiniteSet(S) /\ Cardinality(S) \in Nat
      BY <2>2, FS_Subset, FS_CardinalityType
    <3>2. CASE Cardinality(idx_final) = n
      <4>1. idx_final = Concepts
        BY <2>2, <3>2, FS_Subset
      <4> QED BY <2>2, <3>1, <4>1
    <3>3. CASE idx = {}
      <4>1. Joins(m) \subseteq Joins(h)
        BY <2>1, <3>3
      <4>2. Joins(Cardinality(S)) \subseteq Joins(m)
        BY <2>1, <2>2, <3>1, <4>1, NoMoreJoins DEF Joins
      <4>3. \A x \in Suprema(S) : x \in Joins(Cardinality(S))
        BY <2>2, <2>5, <3>1 DEF Joins, JoinsUpTo
      <4> QED BY <2>1, <4>2, <4>3
    <3> QED BY <2>5, <3>2, <3>3 DEF Over
  <2> QED BY <2>1, <2>3, <2>4, <2>5
<1>3. ASSUME concepts' = concepts, generators' = generators
      PROVE  /\ IsLattice' = IsLattice
             /\ \A S : Suprema(S)' = Suprema(S)
             /\ \A k : Joins(k)' = Joins(k)
  <2>1. /\ IsLattice' = IsLattice /\ Concepts' = Concepts /\ Order' = Order
        /\ \A S : Suprema(S)' = Suprema(S)
    BY <1>3, KeptOrder
  <2>2. \A k : Joins(k)' = Joins(k)
    BY <1>3, <2>1 DEF Joins
  <2> QED BY <2>1, <2>2
<1>4. CASE JoinRound
  <2>1. /\ concepts' = concepts /\ generators' = generators /\ answer' = <<"joins">>
        /\ generators # {} /\ answer = <<"joins">>
        /\ idx' = NewJoins /\ idx_final' = idx_final \cup NewJoins
    BY <1>4 DEF JoinRound
  <2>2. ASSUME IsLattice
        PROVE  \E m \in Nat, h \in Nat :
                 h < m /\ idx_final' = Joins(m) /\ idx' = Joins(m) \ Joins(h)
    <3>1. PICK m \in Nat, h \in Nat :
            /\ h < m /\ idx_final = Joins(m)
            /\ NewJoins = Joins(2 * m) \ Joins(m) /\ Joins(m) \subseteq Joins(2 * m)
      BY <1>2, <2>1, <2>2
    <3>2. 2 * m \in Nat /\ m < 2 * m
      BY <3>1
    <3>3. idx_final' = Joins(2 * m) /\ idx' = Joins(2 * m) \ Joins(m)
      BY <2>1, <3>1
    <3> QED BY <3>2, <3>3
  <2>3. answer'[1] # "meets"
    BY <2>1
  <2> QED BY <1>3, <2>1, <2>2, <2>3 DEF JoinInv
<1>5. CASE TurnToMeets
  <2>1. /\ concepts' = concepts /\ generators' = generators /\ answer' = <<"meets", idx>>
        /\ generators # {} /\ answer = <<"joins">> /\ idx_final' = idx_final /\ Over
    BY <1>5 DEF TurnToMeets, caches
  <2>2. IsLattice => \A S \in (SUBSET generators) \ {{}} : Suprema(S) \subseteq idx_final
    BY <1>2, <2>1
  <2>3. answer' # <<"joins">>
    BY <2>1
  <2> QED BY <1>3, <2>1, <2>2, <2>3 DEF JoinInv
<1>6. CASE MeetRound
  <2>1. /\ concepts' = concepts /\ generators' = generators /\ answer' = answer
        /\ generators # {} /\ answer[1] = "meets" /\ idx_final' = idx_final \cup NewMeets
    BY <1>6 DEF MeetRound, caches
  <2>2. answer # <<"joins">>
    BY <2>1
  <2> QED BY <1>3, <2>1, <2>2 DEF JoinInv
<1>7. CASE plotting \/ UNCHANGED vars
  <2>1. UNCHANGED <<concepts, answer, sublattice_vars>>
    BY <1>7 DEF plotting, vars
  <2>2. /\ concepts' = concepts /\ generators' = generators /\ answer' = answer
        /\ idx' = idx /\ idx_final' = idx_final
    BY <2>1 DEF sublattice_vars
  <2> QED BY <1>3, <2>2 DEF JoinInv
<1>8. ASSUME generators' = {} PROVE JoinInv'
  BY <1>8 DEF JoinInv
<1>9. CASE subconcepts \/ superconcepts \/ Sublattice \/ json
  BY <1>8, <1>9, ReplacesStep, JsonStep
     DEF Replaces, subconcepts, superconcepts, Sublattice, json, sublattice_vars, Ready
<1>10. ASSUME Ready, UNCHANGED sublattice_vars PROVE JoinInv'
  BY <1>8, <1>10 DEF Ready, sublattice_vars
<1>11. CASE \/ supremum \/ infimum \/ join_irreducibles \/ meet_irreducibles \/ decompose
            \/ top \/ bottom \/ is_distributive \/ is_modular \/ is_semimodular \/ is_atomic
            \/ plot
  <2>1. Ready /\ UNCHANGED sublattice_vars
    BY <1>11 DEF supremum, infimum, join_irreducibles, meet_irreducibles, decompose, top, bottom,
                 is_distributive, is_modular, is_semimodular, is_atomic, Ask, plot
  <2> QED BY <1>10, <2>1
<1> QED BY <1>1, <1>4, <1>5, <1>6, <1>7, <1>9, <1>11 DEF Next

\* sublattice() takes all joins of the starting concepts, although a round only
\* combines what the round before has added: every round doubles the number of
\* concepts joined.
THEOREM AllJoinsTaken == Spec => []JoinsTaken
<1>1. Init => JoinInv
  BY DEF Init, JoinInv
<1>2. ReadInvariant /\ JoinInv /\ [Next]_vars => JoinInv'
  BY JoinStep DEF ReadInvariant
<1>3. JoinInv => JoinsTaken
  BY DEF JoinInv, JoinsTaken
<1> QED BY <1>1, <1>2, <1>3, ReadInvariantKept, PTL DEF Spec

-----------------------------------------------------------------------------
\* The drawing.

\* The nodes that have left the queue.
Done == {v \in Nodes : in_degree[v] = 0} \ Range(queue)

\* The grade of a node before any of its predecessors has left the queue.
FirstGrade(v) == IF predecessors[v] = {} THEN 0 ELSE -1

\* The queue has every node once, after all its predecessors.
QueueOK ==
  /\ queue \in Seq(Nodes)
  /\ \A i, j \in 1 .. Len(queue) : queue[i] = queue[j] => i = j
  /\ \A i \in 1 .. Len(queue) : in_degree[queue[i]] = 0
  /\ in_degree \in [Nodes -> 0 .. nodes]
  /\ \A v \in Nodes : in_degree[v] = Cardinality(predecessors[v] \ Done)

\* A grade is that of the longest path along the nodes that have left the queue.
GradesOK ==
  /\ grade \in [Nodes -> Int]
  /\ \A v \in Nodes :
       /\ FirstGrade(v) <= grade[v] /\ grade[v] <= Cardinality(Done)
       /\ \A u \in predecessors[v] \cap Done : grade[u] + 1 <= grade[v]
       /\ grade[v] # FirstGrade(v) => \E u \in predecessors[v] \cap Done : grade[v] = grade[u] + 1

\* The longest path to each node, without cycles.
GradesFinal ==
  Acyclic => \A v \in Nodes : grade[v] = Max({0} \cup {grade[u] + 1 : u \in predecessors[v]})

\* The sequence l has every element of S once.
Lists(l, S) ==
  \E c \in Nat : /\ l \in [1 .. c -> S]
                 /\ \A i, j \in 1 .. c : l[i] = l[j] => i = j
                 /\ \A x \in S : \E i \in 1 .. c : l[i] = x

OfGrade(g) == {v \in Nodes : grade[v] = g}

LayersOK ==
  /\ grade \in [Nodes -> 0 .. nodes]
  /\ DOMAIN layers = 0 .. max_grade
  /\ \A g \in 0 .. max_grade : Lists(layers[g], OfGrade(g))
  /\ layer \in -1 .. max_grade + 1
  /\ phase = "down" => 1 <= layer
  /\ phase = "up" => layer < max_grade
  /\ iter \in 1 .. Iterations

DrawingOK ==
  /\ phase \in {"idle", "grades", "down", "up", "placed"}
  /\ nodes \in Nat /\ edges \subseteq Nodes \X Nodes
  /\ phase # "idle" => QueueOK
  /\ phase = "grades" => GradesOK
  /\ phase \notin {"idle", "grades"} => GradesFinal /\ LayersOK

\* What the predecessors and successors of a node are.
LEMMA Neighbours ==
  ASSUME nodes \in Nat, edges \subseteq Nodes \X Nodes
  PROVE  /\ IsFiniteSet(Nodes) /\ Cardinality(Nodes) = nodes
         /\ \A v \in Nodes : predecessors[v] \in SUBSET Nodes /\ successors[v] \in SUBSET Nodes
         /\ \A u, v \in Nodes : /\ u \in predecessors[v] <=> <<u, v>> \in edges
                                /\ v \in successors[u] <=> <<u, v>> \in edges
<1>1. IsFiniteSet(Nodes) /\ Cardinality(Nodes) = nodes
  <2>1. IsFiniteSet(1 .. nodes) /\ Cardinality(1 .. nodes) = IF 1 > nodes THEN 0 ELSE nodes - 1 + 1
    BY FS_Interval
  <2> QED BY <2>1 DEF Nodes
<1>2. \A e \in edges : e = <<e[1], e[2]>> /\ e[1] \in Nodes /\ e[2] \in Nodes
  OBVIOUS
<1>3. ASSUME NEW v \in Nodes
      PROVE  /\ predecessors[v] = {e[1] : e \in {f \in edges : f[2] = v}}
             /\ successors[v] = {e[2] : e \in {f \in edges : f[1] = v}}
  BY DEF predecessors, successors
<1>4. \A v \in Nodes : predecessors[v] \in SUBSET Nodes /\ successors[v] \in SUBSET Nodes
  BY <1>2, <1>3
<1>5. ASSUME NEW u \in Nodes, NEW v \in Nodes
      PROVE  /\ u \in predecessors[v] <=> <<u, v>> \in edges
             /\ v \in successors[u] <=> <<u, v>> \in edges
  BY <1>2, <1>3
<1> QED BY <1>1, <1>4, <1>5

\* The greatest of a set, when it is known.
LEMMA MaxIs ==
  ASSUME NEW S \in SUBSET Int, NEW x \in S, \A y \in S : y <= x
  PROVE  Max(S) = x
<1>1. Max(S) = CHOOSE z \in S : \A y \in S : z >= y
  BY DEF Max
<1>2. \A z \in S : (\A y \in S : z >= y) => z = x
  OBVIOUS
<1> QED BY <1>1, <1>2

\* The grades when they are known.
LEMMA MaxGrade ==
  ASSUME nodes \in Nat, grade \in [Nodes -> -1 .. nodes]
  PROVE  /\ max_grade \in 0 .. nodes
         /\ \A v \in Nodes : grade[v] <= max_grade
         /\ max_grade = 0 \/ \E v \in Nodes : grade[v] = max_grade
<1> DEFINE S == {0} \cup {grade[v] : v \in Nodes}
<1>1. S \in SUBSET (-1 .. nodes)
  OBVIOUS
<1> DEFINE T == {x + 1 : x \in S}
           t == Max(T)
<1>2. T \in SUBSET (0 .. nodes + 1) /\ T # {} /\ nodes + 1 \in Nat
  OBVIOUS
<1>3. t \in T /\ \A x \in T : x <= t
  <2> HIDE DEF T
  <2> QED BY <1>2, NatMax
<1>4. t - 1 \in S /\ \A x \in S : x <= t - 1
  <2>1. \A x \in S : x + 1 \in T /\ x \in Int
    BY <1>1
  <2>2. PICK x \in S : t = x + 1
    BY <1>3
  <2>3. t - 1 = x
    BY <2>1, <2>2
  <2>4. ASSUME NEW y \in S PROVE y <= x
    <3>1. y + 1 \in T /\ y \in Int /\ x \in Int
      BY <2>1
    <3> HIDE DEF S, T, t
    <3> QED BY <1>3, <2>2, <3>1
  <2> HIDE DEF S, T, t
  <2> QED BY <2>2, <2>3, <2>4
<1>5. Max(S) = t - 1
  <2>1. S \in SUBSET Int
    BY <1>1
  <2> HIDE DEF S, t
  <2> QED BY <1>4, <2>1, MaxIs
<1>6. max_grade = t - 1
  BY <1>5 DEF max_grade
<1>7. /\ 0 \in S /\ \A v \in Nodes : grade[v] \in S
      /\ \A x \in S : x = 0 \/ \E v \in Nodes : grade[v] = x
  OBVIOUS
<1> HIDE DEF S, t
<1>8. t - 1 \in -1 .. nodes /\ 0 <= t - 1
  BY <1>1, <1>4, <1>7
<1>9. max_grade \in 0 .. nodes /\ max_grade \in S /\ \A x \in S : x <= max_grade
  BY <1>4, <1>6, <1>8
<1>10. \A v \in Nodes : grade[v] <= max_grade
  BY <1>7, <1>9
<1>11. max_grade = 0 \/ \E v \in Nodes : grade[v] = max_grade
  BY <1>7, <1>9
<1> QED BY <1>9, <1>10, <1>11

\* The edges to v, and where they come from.
EdgesTo(Cov, v) == {e \in Cov : e[2] = v}
Origins(Cov, v) == {e[1] : e \in {f \in Cov : f[2] = v}}

LEMMA EdgeCount ==
  ASSUME NEW m \in Nat, NEW Cov \in SUBSET ((1 .. m) \X (1 .. m)), NEW v
  PROVE  /\ Cardinality(EdgesTo(Cov, v)) = Cardinality(Origins(Cov, v))
         /\ Cardinality(EdgesTo(Cov, v)) \in 0 .. m
         /\ Origins(Cov, v) \in SUBSET (1 .. m) /\ IsFiniteSet(Origins(Cov, v))
<1> DEFINE E == {e \in Cov : e[2] = v}
           P == {e[1] : e \in E}
           first == [e \in E |-> e[1]]
<1>1. \A e \in E : e = <<e[1], e[2]>> /\ e[1] \in 1 .. m /\ e[2] = v
  OBVIOUS
<1>2. IsFiniteSet(1 .. m) /\ Cardinality(1 .. m) = m
  <2>1. IsFiniteSet(1 .. m) /\ Cardinality(1 .. m) = IF 1 > m THEN 0 ELSE m - 1 + 1
    BY FS_Interval
  <2> QED BY <2>1
<1>3. P \in SUBSET (1 .. m)
  BY <1>1
<1>4. IsFiniteSet(P) /\ Cardinality(P) \in 0 .. m
  <2> DEFINE R == 1 .. m
  <2>1. IsFiniteSet(R) /\ Cardinality(R) = m /\ P \in SUBSET R
    BY <1>2, <1>3
  <2> HIDE DEF P, R
  <2>2. IsFiniteSet(P) /\ Cardinality(P) <= m
    BY <2>1, FS_Subset
  <2> QED BY <2>2, FS_CardinalityType
<1>5. first \in Bijection(E, P)
  <2>1. \A a, b \in E : a[1] = b[1] => a = b
    BY <1>1
  <2>2. first \in [E -> P]
    OBVIOUS
  <2>3. \A a, b \in E : first[a] = first[b] => a = b
    BY <2>1
  <2>4. \A p \in P : \E e \in E : first[e] = p
    OBVIOUS
  <2> HIDE DEF E, P, first
  <2> QED BY <2>2, <2>3, <2>4 DEF Bijection, Injection, Surjection, IsInjective
<1>6. IsFiniteSet(E) /\ Cardinality(E) = Cardinality(P)
  <2> HIDE DEF E, P, first
  <2>1. first \in Injection(E, P) /\ first \in Surjection(E, P)
    BY <1>5 DEF Bijection
  <2> QED BY <1>4, <2>1, FS_Injection
<1> QED BY <1>3, <1>4, <1>6 DEF EdgesTo, Origins

\* The queue starts with the nodes without predecessors.
LEMMA DrawingStarts ==
  ASSUME NEW m \in Nat, NEW Cov \in SUBSET ((1 .. m) \X (1 .. m)), StartGrades(m, Cov)
  PROVE  DrawingOK'
<1> DEFINE degree == [v \in 1 .. m |-> Cardinality(EdgesTo(Cov, v))]
           P(v) == Origins(Cov, v)
           sources == {v \in 1 .. m : degree[v] = 0}
           c == Cardinality(sources)
<1>1. /\ phase' = "grades" /\ nodes' = m /\ edges' = Cov /\ in_degree' = degree
      /\ grade' = [v \in 1 .. m |-> IF v \in sources THEN 0 ELSE -1]
      /\ queue' = Ascending(sources)
  BY DEF StartGrades, EdgesTo
<1>2. Nodes' = 1 .. m /\ \A v \in 1 .. m : predecessors'[v] = P(v)
  BY <1>1 DEF Nodes, predecessors, Origins
<1>3. \A v \in 1 .. m : degree[v] = Cardinality(P(v)) /\ degree[v] \in 0 .. m
  BY EdgeCount
<1>4. /\ c \in Nat /\ queue' \in [1 .. c -> sources]
      /\ \A i, j \in 1 .. c : queue'[i] = queue'[j] => i = j
      /\ \A x \in sources : \E i \in 1 .. c : queue'[i] = x
  <2>1. sources \in SUBSET (0 .. m)
    OBVIOUS
  <2> HIDE DEF sources
  <2> QED BY <1>1, <2>1, AscendingLists
<1>5. \A v \in 1 .. m : IsFiniteSet(P(v)) /\ (v \in sources <=> P(v) = {})
  <2>1. \A v \in 1 .. m : IsFiniteSet(P(v))
    BY EdgeCount
  <2>2. \A v \in 1 .. m : v \in sources <=> Cardinality(P(v)) = 0
    BY <1>3
  <2> HIDE DEF P, sources
  <2> QED BY <2>1, <2>2, FS_EmptySet
<1> HIDE DEF P
<1>6. sources \in SUBSET (1 .. m) /\ \A v \in sources : degree[v] = 0
  OBVIOUS
<1>7. Len(queue') = c /\ queue' \in Seq(1 .. m)
  <2> HIDE DEF sources, c, degree
  <2>1. queue' \in [1 .. c -> 1 .. m]
    BY <1>4, <1>6
  <2> QED BY <1>4, <2>1
<1>8. Done' = {}
  <2>1. sources \subseteq Range(queue')
    <3> HIDE DEF sources, c
    <3> QED BY <1>4 DEF Range
  <2>2. Done' = sources \ Range(queue')
    BY <1>1, <1>2 DEF Done
  <2> QED BY <2>1, <2>2
<1>9. degree \in [1 .. m -> 0 .. m]
  BY <1>3
<1>10. QueueOK'
  <2>1. \A v \in 1 .. m : degree[v] = Cardinality(predecessors'[v] \ Done')
    BY <1>2, <1>3, <1>8
  <2> HIDE DEF sources, c, degree
  <2>2. \A i \in 1 .. c : in_degree'[queue'[i]] = 0
    BY <1>1, <1>4, <1>6
  <2> QED BY <1>1, <1>2, <1>4, <1>7, <1>9, <2>1, <2>2 DEF QueueOK
<1>11. GradesOK'
  <2>1. Cardinality(Done') = 0
    BY <1>8, FS_EmptySet
  <2>2. \A v \in 1 .. m : FirstGrade(v)' = grade'[v] /\ grade'[v] \in {0, -1}
    BY <1>1, <1>2, <1>5 DEF FirstGrade
  <2>3. grade' \in [1 .. m -> Int]
    BY <1>1
  <2> HIDE DEF sources
  <2> QED BY <1>2, <1>8, <2>1, <2>2, <2>3 DEF GradesOK
<1> QED BY <1>1, <1>2, <1>10, <1>11 DEF DrawingOK

\* One node leaves the queue, and those whose last predecessor it was enter it.
LEMMA QueueStep ==
  ASSUME DrawingOK, GradeSuccessors
  PROVE  /\ QueueOK' /\ Nodes' = Nodes /\ predecessors' = predecessors
         /\ Head(queue) \in Nodes \ Done /\ Done' = Done \cup {Head(queue)}
         /\ \A w \in Nodes : in_degree[w] = 0 => predecessors[w] \subseteq Done
         /\ in_degree[Head(queue)] = 0
         /\ IsFiniteSet(Done) /\ Cardinality(Done) \in Nat
         /\ Cardinality(Done') = Cardinality(Done) + 1
<1> DEFINE u == Head(queue)
           new == {v \in successors[u] : in_degree[v] = 1}
           a == Ascending(new)
           c == Cardinality(new)
           q == Tail(queue)
<1>1. /\ phase = "grades" /\ queue # << >> /\ nodes \in Nat /\ edges \subseteq Nodes \X Nodes
      /\ QueueOK /\ nodes' = nodes /\ edges' = edges
      /\ queue' = q \o a
      /\ in_degree' = [v \in Nodes |-> IF v \in successors[u] THEN in_degree[v] - 1 ELSE in_degree[v]]
  BY DEF DrawingOK, GradeSuccessors
<1>2. Nodes' = Nodes /\ predecessors' = predecessors
  BY <1>1 DEF Nodes, predecessors
<1>3. /\ IsFiniteSet(Nodes) /\ Cardinality(Nodes) = nodes
      /\ \A v \in Nodes : predecessors[v] \in SUBSET Nodes /\ successors[v] \in SUBSET Nodes
      /\ \A v, w \in Nodes : w \in successors[v] <=> v \in predecessors[w]
  BY <1>1, Neighbours
<1>4. /\ queue \in Seq(Nodes) /\ Len(queue) \in Nat /\ Len(queue) >= 1
      /\ \A i, j \in 1 .. Len(queue) : queue[i] = queue[j] => i = j
      /\ \A i \in 1 .. Len(queue) : queue[i] \in Nodes /\ in_degree[queue[i]] = 0
      /\ in_degree \in [Nodes -> 0 .. nodes]
      /\ \A v \in Nodes : in_degree[v] = Cardinality(predecessors[v] \ Done)
      /\ u = queue[1]
  <2>1. queue \in Seq(Nodes)
    BY <1>1 DEF QueueOK
  <2>2. Len(queue) \in Nat /\ Len(queue) # 0 /\ \A i \in 1 .. Len(queue) : queue[i] \in Nodes
    BY <1>1, <2>1, EmptySeq, LenProperties
  <2> QED BY <1>1, <2>1, <2>2 DEF QueueOK
<1>5. u \in Nodes /\ in_degree[u] = 0
  BY <1>4
<1>6. Range(queue) = {queue[i] : i \in 1 .. Len(queue)}
  BY <1>4, RangeEquality
<1>7. u \notin Done /\ Done \in SUBSET Nodes
  <2>1. u \in Range(queue)
    BY <1>4, <1>6
  <2> QED BY <2>1 DEF Done
<1>8. \A v \in Nodes : /\ IsFiniteSet(predecessors[v] \ Done)
                       /\ Cardinality(predecessors[v] \ Done) \in Nat
  <2>1. \A v \in Nodes : predecessors[v] \ Done \in SUBSET Nodes
    BY <1>3
  <2> QED BY <1>3, <2>1, FS_Subset, FS_CardinalityType
<1>9. ASSUME NEW w \in Nodes, in_degree[w] = 0 PROVE predecessors[w] \subseteq Done
  <2>1. Cardinality(predecessors[w] \ Done) = 0
    BY <1>4, <1>9
  <2>2. predecessors[w] \ Done = {}
    BY <1>8, <2>1, FS_EmptySet
  <2> QED BY <2>2
<1>10. \A v \in successors[u] : v \in Nodes /\ in_degree[v] # 0
  BY <1>3, <1>5, <1>7, <1>9
<1>11. /\ new \in SUBSET Nodes /\ c \in Nat /\ a \in [1 .. c -> new]
       /\ \A i, j \in 1 .. c : a[i] = a[j] => i = j
       /\ \A x \in new : \E i \in 1 .. c : a[i] = x
  <2>1. new \in SUBSET Nodes
    BY <1>10
  <2>2. new \in SUBSET (0 .. nodes)
    BY <1>1, <2>1 DEF Nodes
  <2> HIDE DEF new
  <2> QED BY <1>1, <2>1, <2>2, AscendingLists
<1>12. in_degree' \in [Nodes -> 0 .. nodes]
  BY <1>1, <1>4, <1>10
<1>13. \A v \in Nodes : in_degree'[v] = 0 <=> in_degree[v] = 0 \/ v \in new
  <2>1. \A v \in Nodes : in_degree[v] \in 0 .. nodes
    BY <1>4
  <2> QED BY <1>1, <1>10, <2>1
<1> HIDE DEF u, new, a, c, q
<1>14. /\ q \in Seq(Nodes) /\ Len(q) = Len(queue) - 1
       /\ \A i \in 1 .. Len(q) : q[i] = queue[i + 1]
  BY <1>1, <1>4, HeadTailProperties DEF q
<1>15. a \in Seq(Nodes) /\ Len(a) = c
  <2>1. a \in [1 .. c -> Nodes]
    BY <1>11
  <2> QED BY <1>11, <2>1
<1>16. /\ queue' \in Seq(Nodes) /\ Len(queue') = Len(q) + c
       /\ \A i \in 1 .. Len(q) + c : queue'[i] = IF i <= Len(q) THEN q[i] ELSE a[i - Len(q)]
  BY <1>1, <1>14, <1>15, ConcatProperties
<1>17. \A i \in 1 .. Len(queue') :
         \/ i <= Len(q) /\ queue'[i] = queue[i + 1] /\ i + 1 \in 2 .. Len(queue)
         \/ i > Len(q) /\ queue'[i] = a[i - Len(q)] /\ i - Len(q) \in 1 .. c
  BY <1>4, <1>11, <1>14, <1>16
<1>18. ASSUME NEW i \in 1 .. Len(queue'), NEW j \in 1 .. Len(queue'), queue'[i] = queue'[j]
       PROVE  i = j
  <2>1. \A k \in 2 .. Len(queue) : in_degree[queue[k]] = 0 /\ k \in 1 .. Len(queue)
    BY <1>4
  <2>2. \A k \in 1 .. c : in_degree[a[k]] = 1
    BY <1>11 DEF new
  <2>3. CASE i <= Len(q) /\ j <= Len(q)
    <3>1. queue[i + 1] = queue[j + 1] /\ i + 1 \in 1 .. Len(queue) /\ j + 1 \in 1 .. Len(queue)
      <4>1. /\ queue'[i] = queue[i + 1] /\ i + 1 \in 2 .. Len(queue)
            /\ queue'[j] = queue[j + 1] /\ j + 1 \in 2 .. Len(queue)
        <5>1. ~ (i > Len(q)) /\ ~ (j > Len(q))
          BY <1>4, <1>14, <1>16, <1>11, <2>3
        <5> QED BY <1>17, <5>1
      <4> QED BY <1>18, <2>1, <4>1
    <3>2. i + 1 = j + 1
      BY <1>4, <3>1
    <3> QED BY <3>2
  <2>4. CASE i > Len(q) /\ j > Len(q)
    <3>1. /\ a[i - Len(q)] = a[j - Len(q)]
          /\ i - Len(q) \in 1 .. c /\ j - Len(q) \in 1 .. c
      BY <1>4, <1>14, <1>17, <1>18, <2>4
    <3>2. i - Len(q) = j - Len(q)
      BY <1>11, <3>1
    <3> QED BY <1>4, <1>14, <3>2
  <2>5. CASE (i <= Len(q) /\ j > Len(q)) \/ (i > Len(q) /\ j <= Len(q))
    <3>1. in_degree[queue'[i]] # in_degree[queue'[j]]
      <4>1. ASSUME NEW k \in 1 .. Len(queue')
            PROVE  /\ k <= Len(q) => in_degree[queue'[k]] = 0
                   /\ k > Len(q) => in_degree[queue'[k]] = 1
        <5>1. ~ (k <= Len(q) /\ k > Len(q))
          BY <1>4, <1>14, <1>16, <1>11
        <5> QED BY <1>17, <2>1, <2>2, <5>1
      <4> QED BY <2>5, <4>1
    <3> QED BY <1>18, <3>1
  <2> QED BY <1>4, <1>14, <2>3, <2>4, <2>5
<1>19. \A i \in 1 .. Len(queue') : in_degree'[queue'[i]] = 0
  <2>1. \A k \in 2 .. Len(queue) : queue[k] \in Nodes /\ in_degree[queue[k]] = 0
    BY <1>4
  <2>2. \A k \in 1 .. c : a[k] \in Nodes /\ a[k] \in new
    BY <1>11
  <2> QED BY <1>13, <1>17, <2>1, <2>2
<1>20. \A v \in Nodes : v \in Range(queue') <=> (v \in Range(queue) /\ v # u) \/ v \in new
  <2>1. Range(queue') = {queue'[i] : i \in 1 .. Len(queue')}
    BY <1>16, RangeEquality
  <2>2. ASSUME NEW v \in Range(queue') PROVE (v \in Range(queue) /\ v # u) \/ v \in new
    <3>1. PICK i \in 1 .. Len(queue') : v = queue'[i]
      BY <2>1, <2>2
    <3>2. CASE i <= Len(q) /\ queue'[i] = queue[i + 1] /\ i + 1 \in 2 .. Len(queue)
      <4>1. i + 1 \in 1 .. Len(queue) /\ 1 \in 1 .. Len(queue) /\ i + 1 # 1
        BY <1>4, <3>2
      <4>2. v # u
        BY <1>4, <3>1, <3>2, <4>1
      <4> QED BY <1>6, <3>1, <3>2, <4>1, <4>2
    <3>3. CASE i > Len(q) /\ queue'[i] = a[i - Len(q)] /\ i - Len(q) \in 1 .. c
      BY <1>11, <3>1, <3>3
    <3> QED BY <1>17, <3>2, <3>3
  <2>3. ASSUME NEW v \in Range(queue), v # u PROVE v \in Range(queue')
    <3>1. PICK i \in 1 .. Len(queue) : v = queue[i]
      BY <1>6, <2>3
    <3>2. i # 1
      BY <1>4, <2>3, <3>1
    <3>3. i - 1 \in 1 .. Len(q) /\ i - 1 \in 1 .. Len(queue') /\ (i - 1) + 1 = i
      BY <1>4, <1>11, <1>14, <1>16, <3>2
    <3>4. queue'[i - 1] = queue[i]
      BY <1>14, <1>16, <1>11, <3>3
    <3> QED BY <2>1, <3>1, <3>3, <3>4
  <2>4. ASSUME NEW v \in new PROVE v \in Range(queue')
    <3>1. PICK i \in 1 .. c : a[i] = v
      BY <1>11, <2>4
    <3>2. i + Len(q) \in 1 .. Len(queue') /\ ~ (i + Len(q) <= Len(q)) /\ (i + Len(q)) - Len(q) = i
      BY <1>4, <1>11, <1>14, <1>16
    <3>3. queue'[i + Len(q)] = a[i]
      BY <1>16, <3>2
    <3> QED BY <2>1, <3>1, <3>2, <3>3
  <2> QED BY <2>2, <2>3, <2>4
<1>21. Done' = Done \cup {u}
  <2>1. \A v \in Nodes : v \in Done' <=> in_degree'[v] = 0 /\ v \notin Range(queue')
    BY <1>2 DEF Done
  <2>2. \A v \in Nodes : v \in Done <=> in_degree[v] = 0 /\ v \notin Range(queue)
    BY DEF Done
  <2>3. \A v \in new : in_degree[v] # 0
    BY DEF new
  <2>4. Done' \in SUBSET Nodes
    BY <1>2 DEF Done
  <2> QED BY <1>5, <1>7, <1>13, <1>20, <2>1, <2>2, <2>3, <2>4
<1>22. /\ IsFiniteSet(Done) /\ Cardinality(Done) \in Nat
       /\ Cardinality(Done') = Cardinality(Done) + 1
  <2>1. IsFiniteSet(Done)
    BY <1>3, <1>7, FS_Subset
  <2> QED BY <1>7, <1>21, <2>1, FS_CardinalityType, FS_AddElement
<1>23. ASSUME NEW v \in Nodes PROVE in_degree'[v] = Cardinality(predecessors'[v] \ Done')
  <2>1. predecessors'[v] \ Done' = (predecessors[v] \ Done) \ {u}
    BY <1>2, <1>21
  <2> DEFINE R == predecessors[v] \ Done
  <2>2. IsFiniteSet(R) /\ in_degree[v] = Cardinality(R)
    BY <1>4, <1>8
  <2>3. u \in R <=> v \in successors[u]
    BY <1>3, <1>5, <1>7
  <2>4. predecessors'[v] \ Done' = R \ {u}
    BY <2>1
  <2> HIDE DEF R
  <2>5. Cardinality(R \ {u}) = IF u \in R THEN Cardinality(R) - 1 ELSE Cardinality(R)
    BY <2>2, FS_RemoveElement
  <2>6. in_degree'[v] = IF v \in successors[u] THEN in_degree[v] - 1 ELSE in_degree[v]
    BY <1>1
  <2> QED BY <2>2, <2>3, <2>4, <2>5, <2>6
<1>24. QueueOK'
  BY <1>1, <1>2, <1>12, <1>16, <1>18, <1>19, <1>23 DEF QueueOK
<1> QED BY <1>2, <1>5, <1>7, <1>9, <1>21, <1>22, <1>24 DEF u

\* The grade of a node that leaves the queue is final.
LEMMA GradeStep ==
  ASSUME DrawingOK, GradeSuccessors
  PROVE  DrawingOK'
<1> DEFINE u == Head(queue)
           g == grade[u] + 1
           d == Cardinality(Done)
<1>1. /\ phase = "grades" /\ phase' = "grades" /\ nodes \in Nat /\ edges \subseteq Nodes \X Nodes
      /\ nodes' = nodes /\ edges' = edges /\ GradesOK
      /\ grade' = [v \in Nodes |-> IF v \in successors[u] /\ g > grade[v] THEN g ELSE grade[v]]
  BY DEF DrawingOK, GradeSuccessors
<1>2. /\ QueueOK' /\ Nodes' = Nodes /\ predecessors' = predecessors
      /\ u \in Nodes \ Done /\ Done' = Done \cup {u}
      /\ \A w \in Nodes : in_degree[w] = 0 => predecessors[w] \subseteq Done
      /\ in_degree[u] = 0 /\ d \in Nat /\ Cardinality(Done') = d + 1
  BY QueueStep
<1>3. \A v \in Nodes : v \in successors[u] <=> u \in predecessors[v]
  BY <1>1, <1>2, Neighbours
<1> HIDE DEF u, d
<1>4. /\ grade \in [Nodes -> Int]
      /\ \A v \in Nodes :
           /\ FirstGrade(v) <= grade[v] /\ grade[v] <= d
           /\ \A x \in predecessors[v] \cap Done : grade[x] + 1 <= grade[v]
           /\ grade[v] # FirstGrade(v) => \E x \in predecessors[v] \cap Done : grade[v] = grade[x] + 1
  BY <1>1 DEF GradesOK, d
<1>5. \A v \in Nodes : FirstGrade(v)' = FirstGrade(v) /\ FirstGrade(v) \in Int
  BY <1>2 DEF FirstGrade
<1>6. ASSUME NEW x \in Done' PROVE x \in Nodes /\ grade'[x] = grade[x]
  <2>1. x \in Nodes /\ in_degree[x] = 0
    BY <1>2, <1>6 DEF Done
  <2>2. x \notin successors[u]
    BY <1>2, <1>3, <2>1
  <2> QED BY <1>1, <2>1, <2>2
<1>7. g \in Int /\ g <= d + 1
  BY <1>2, <1>4
<1>8. ASSUME NEW v \in Nodes
      PROVE  /\ FirstGrade(v)' <= grade'[v] /\ grade'[v] <= Cardinality(Done')
             /\ \A x \in predecessors'[v] \cap Done' : grade'[x] + 1 <= grade'[v]
             /\ grade'[v] # FirstGrade(v)' =>
                  \E x \in predecessors'[v] \cap Done' : grade'[v] = grade'[x] + 1
  <2>1. /\ grade[v] \in Int /\ grade'[v] \in Int /\ grade[v] <= grade'[v]
        /\ grade'[v] \in {g, grade[v]} /\ (v \in successors[u] => g <= grade'[v])
        /\ (grade'[v] # grade[v] => grade'[v] = g /\ v \in successors[u])
    BY <1>1, <1>4, <1>7
  <2>2. FirstGrade(v)' <= grade'[v]
    BY <1>4, <1>5, <2>1
  <2>3. grade'[v] <= Cardinality(Done')
    <3>1. grade[v] <= d
      BY <1>4
    <3> QED BY <1>2, <1>7, <2>1, <3>1
  <2>4. ASSUME NEW x \in predecessors'[v] \cap Done' PROVE grade'[x] + 1 <= grade'[v]
    <3>1. x \in Nodes /\ grade'[x] = grade[x] /\ x \in predecessors[v] /\ grade[x] \in Int
      BY <1>2, <1>4, <1>6, <2>4
    <3>2. CASE x = u
      BY <1>3, <2>1, <3>1, <3>2
    <3>3. CASE x \in Done
      <4>1. grade[x] + 1 <= grade[v]
        BY <1>4, <3>1, <3>3
      <4> QED BY <2>1, <3>1, <4>1
    <3> QED BY <1>2, <2>4, <3>2, <3>3
  <2>5. ASSUME grade'[v] # FirstGrade(v)'
        PROVE  \E x \in predecessors'[v] \cap Done' : grade'[v] = grade'[x] + 1
    <3>1. CASE grade'[v] = grade[v]
      <4>1. PICK x \in predecessors[v] \cap Done : grade[v] = grade[x] + 1
        BY <1>4, <1>5, <2>5, <3>1
      <4>2. x \in predecessors'[v] \cap Done' /\ grade'[x] = grade[x]
        BY <1>2, <1>6
      <4> QED BY <3>1, <4>1, <4>2
    <3>2. CASE grade'[v] # grade[v]
      <4>1. u \in predecessors'[v] \cap Done' /\ grade'[v] = g
        BY <1>2, <1>3, <2>1, <3>2
      <4>2. grade'[u] = grade[u]
        BY <1>6, <4>1
      <4> QED BY <4>1, <4>2
    <3> QED BY <3>1, <3>2
  <2> QED BY <2>2, <2>3, <2>4, <2>5
<1>9. grade' \in [Nodes -> Int]
  BY <1>1, <1>4, <1>7
<1>10. GradesOK'
  BY <1>2, <1>8, <1>9 DEF GradesOK
<1> QED BY <1>1, <1>2, <1>10 DEF DrawingOK

\* The layers are filled when the queue is empty.
LEMMA FillStep ==
  ASSUME DrawingOK, FillLayers
  PROVE  DrawingOK'
<1>1. /\ phase = "grades" /\ queue = << >> /\ phase' = "down" /\ layer' = 1 /\ iter' = 1
      /\ nodes \in Nat /\ edges \subseteq Nodes \X Nodes
      /\ nodes' = nodes /\ edges' = edges /\ in_degree' = in_degree /\ queue' = queue
      /\ grade' = [v \in Nodes |-> IF grade[v] = -1 THEN 0 ELSE grade[v]]
      /\ layers' = [h \in 0 .. max_grade |-> Ascending({v \in Nodes : grade'[v] = h})]
      /\ QueueOK /\ GradesOK
  BY DEF DrawingOK, FillLayers
<1>2. Nodes' = Nodes /\ predecessors' = predecessors /\ Done' = Done
  <2>1. Nodes' = Nodes
    BY <1>1 DEF Nodes
  <2> QED BY <1>1, <2>1 DEF predecessors, Done
<1>3. /\ IsFiniteSet(Nodes) /\ Cardinality(Nodes) = nodes
      /\ \A v \in Nodes : predecessors[v] \in SUBSET Nodes
  BY <1>1, Neighbours
<1>4. QueueOK'
  BY <1>1, <1>2 DEF QueueOK
<1>5. grade \in [Nodes -> -1 .. nodes]
  <2>1. Cardinality(Done) \in Nat /\ Cardinality(Done) <= nodes
    <3>1. Done \in SUBSET Nodes
      BY DEF Done
    <3> QED BY <1>3, <3>1, FS_Subset, FS_CardinalityType
  <2>2. \A v \in Nodes : FirstGrade(v) \in {0, -1}
    BY DEF FirstGrade
  <2>3. \A v \in Nodes : grade[v] \in -1 .. nodes
    BY <1>1, <2>1, <2>2 DEF GradesOK
  <2> QED BY <1>1, <2>3 DEF GradesOK
<1>6. grade' \in [Nodes -> 0 .. nodes]
  BY <1>1, <1>5
<1>7. max_grade' = max_grade /\ max_grade \in 0 .. nodes
  <2> DEFINE S == {0} \cup {grade'[v] : v \in Nodes}
  <2>1. /\ max_grade \in 0 .. nodes /\ \A v \in Nodes : grade[v] <= max_grade
        /\ max_grade = 0 \/ \E v \in Nodes : grade[v] = max_grade
    BY <1>1, <1>5, MaxGrade
  <2>2. \A y \in S : y \in Int /\ y <= max_grade
    <3>1. \A v \in Nodes : grade'[v] \in Int /\ grade'[v] <= max_grade
      BY <1>1, <1>5, <2>1
    <3> QED BY <2>1, <3>1
  <2>3. max_grade \in S
    <3>1. CASE max_grade = 0
      BY <3>1
    <3>2. CASE max_grade # 0
      <4>1. PICK v \in Nodes : grade[v] = max_grade
        BY <2>1, <3>2
      <4>2. grade'[v] = max_grade
        BY <1>1, <2>1, <4>1
      <4> QED BY <4>2
    <3> QED BY <3>1, <3>2
  <2>4. max_grade' = Max(S)
    BY <1>2 DEF max_grade
  <2>5. Max(S) = max_grade
    <3> HIDE DEF S
    <3>1. S \in SUBSET Int
      BY <2>2
    <3> QED BY <2>2, <2>3, <3>1, MaxIs
  <2> QED BY <2>1, <2>4, <2>5
<1>8. LayersOK'
  <2>1. ASSUME NEW h \in 0 .. max_grade PROVE Lists(layers'[h], OfGrade(h)')
    <3> DEFINE S == {v \in Nodes : grade'[v] = h}
    <3>1. layers'[h] = Ascending(S) /\ OfGrade(h)' = S
      BY <1>1, <1>2 DEF OfGrade
    <3>2. S \in SUBSET (0 .. nodes)
      BY <1>1 DEF Nodes
    <3> HIDE DEF S
    <3>3. /\ Cardinality(S) \in Nat /\ Ascending(S) \in [1 .. Cardinality(S) -> S]
          /\ \A i, j \in 1 .. Cardinality(S) : Ascending(S)[i] = Ascending(S)[j] => i = j
          /\ \A x \in S : \E i \in 1 .. Cardinality(S) : Ascending(S)[i] = x
      BY <1>1, <3>2, AscendingLists
    <3> QED BY <3>1, <3>3 DEF Lists
  <2>2. DOMAIN layers' = 0 .. max_grade
    BY <1>1
  <2>3. layer' \in -1 .. max_grade + 1 /\ 1 <= layer' /\ iter' \in 1 .. Iterations
    BY <1>1, <1>7, IterationsAssumption
  <2> QED BY <1>1, <1>2, <1>6, <1>7, <2>1, <2>2, <2>3 DEF LayersOK
<1>9. ASSUME Acyclic', NEW v \in Nodes
      PROVE  grade'[v] = Max({0} \cup {grade'[x] + 1 : x \in predecessors'[v]})
  <2> DEFINE S == {0} \cup {grade'[x] + 1 : x \in predecessors'[v]}
  <2>1. Done = Nodes
    <3>1. Done = {w \in Nodes : in_degree[w] = 0}
      BY <1>1 DEF Done, Range
    <3>2. SUFFICES ASSUME Nodes \ Done # {} PROVE FALSE
      BY <3>1
    <3>3. PICK w \in Nodes \ Done : \A x \in Nodes \ Done : <<x, w>> \notin edges
      BY <1>1, <1>2, <1>9, <3>2 DEF Acyclic
    <3>4. predecessors[w] \ Done = {}
      BY <1>1, <1>3, <3>3, Neighbours
    <3>5. in_degree[w] = 0
      BY <1>1, <3>3, <3>4, FS_EmptySet DEF QueueOK
    <3> QED BY <3>1, <3>3, <3>5
  <2>2. \A w \in Nodes :
          /\ FirstGrade(w) <= grade[w]
          /\ \A x \in predecessors[w] : x \in Nodes /\ grade[x] + 1 <= grade[w]
          /\ grade[w] # FirstGrade(w) => \E x \in predecessors[w] : grade[w] = grade[x] + 1
    BY <1>1, <1>3, <2>1 DEF GradesOK
  <2>3. \A w \in Nodes : 0 <= grade[w]
    BY <1>5, <2>2 DEF FirstGrade
  <2>4. grade' = grade
    <3>1. \A w \in Nodes : grade'[w] = grade[w]
      BY <1>1, <1>5, <2>3
    <3> QED BY <1>5, <1>6, <3>1
  <2>5. S \in SUBSET Int /\ \A y \in S : y <= grade[v]
    BY <1>2, <1>3, <1>5, <2>2, <2>3, <2>4
  <2>6. grade[v] \in S
    <3>1. CASE grade[v] = FirstGrade(v)
      <4>1. grade[v] = 0
        BY <2>3, <3>1 DEF FirstGrade
      <4> QED BY <4>1
    <3>2. CASE grade[v] # FirstGrade(v)
      BY <1>2, <2>2, <2>4, <3>2
    <3> QED BY <3>1, <3>2
  <2> HIDE DEF S
  <2>7. Max(S) = grade[v]
    BY <2>5, <2>6, MaxIs
  <2> QED BY <2>4, <2>7 DEF S
<1>10. GradesFinal'
  BY <1>2, <1>9 DEF GradesFinal
<1> QED BY <1>1, <1>2, <1>4, <1>8, <1>10 DEF DrawingOK

\* Sorting keeps the elements of a layer.
LEMMA SortedList ==
  ASSUME NEW l, NEW S, Lists(l, S), NEW neighbours, NEW s \in Sortings(l, neighbours)
  PROVE  Lists(s, S)
<1>1. PICK c \in Nat : /\ l \in [1 .. c -> S]
                       /\ \A i, j \in 1 .. c : l[i] = l[j] => i = j
                       /\ \A x \in S : \E i \in 1 .. c : l[i] = x
  BY DEF Lists
<1>2. PICK p \in Bijection(1 .. c, 1 .. c) : s = [i \in 1 .. c |-> l[p[i]]]
  <2>1. DOMAIN l = 1 .. c
    BY <1>1
  <2> QED BY <2>1 DEF Sortings
<1>3. /\ p \in [1 .. c -> 1 .. c]
      /\ \A i, j \in 1 .. c : p[i] = p[j] => i = j
      /\ \A k \in 1 .. c : \E i \in 1 .. c : p[i] = k
  <2> DEFINE D == 1 .. c
  <2>1. p \in Bijection(D, D)
    OBVIOUS
  <2> HIDE DEF D
  <2>2. p \in [D -> D] /\ (\A i, j \in D : p[i] = p[j] => i = j) /\ \A k \in D : \E i \in D : p[i] = k
    BY <2>1 DEF Bijection, Injection, Surjection, IsInjective
  <2> QED BY <2>2 DEF D
<1>4. \A i \in 1 .. c : p[i] \in 1 .. c /\ s[i] = l[p[i]]
  BY <1>2, <1>3
<1>5. s \in [1 .. c -> S]
  BY <1>1, <1>2, <1>3
<1>6. \A i, j \in 1 .. c : s[i] = s[j] => i = j
  BY <1>1, <1>3, <1>4
<1>7. ASSUME NEW x \in S PROVE \E i \in 1 .. c : s[i] = x
  <2>1. PICK k \in 1 .. c : l[k] = x
    BY <1>1
  <2>2. PICK i \in 1 .. c : p[i] = k
    BY <1>3
  <2> QED BY <1>4, <2>1, <2>2
<1> QED BY <1>5, <1>6, <1>7 DEF Lists

\* The sweeps over the layers.
LEMMA SweepStep ==
  ASSUME DrawingOK, SortDown \/ TurnUp \/ SortUp \/ TurnDown
  PROVE  DrawingOK'
<1>1. /\ phase \in {"down", "up"} /\ phase' \in {"down", "up", "placed"}
      /\ UNCHANGED <<nodes, edges, grade, in_degree, queue>>
  BY DEF SortDown, TurnUp, SortUp, TurnDown
<1>2. nodes \in Nat /\ edges \subseteq Nodes \X Nodes /\ QueueOK /\ GradesFinal /\ LayersOK
  BY <1>1 DEF DrawingOK
<1>3. /\ Nodes' = Nodes /\ predecessors' = predecessors /\ Done' = Done
      /\ max_grade' = max_grade /\ \A g : OfGrade(g)' = OfGrade(g)
  <2>1. Nodes' = Nodes
    BY <1>1 DEF Nodes
  <2> QED BY <1>1, <2>1 DEF predecessors, Done, max_grade, OfGrade
<1>4. QueueOK'
  BY <1>1, <1>2, <1>3 DEF QueueOK
<1>5. GradesFinal'
  BY <1>1, <1>2, <1>3 DEF GradesFinal, Acyclic
<1>6. max_grade \in 0 .. nodes
  <2>1. grade \in [Nodes -> -1 .. nodes]
    BY <1>2 DEF LayersOK
  <2> QED BY <1>2, <2>1, MaxGrade
<1>7. /\ grade \in [Nodes -> 0 .. nodes] /\ DOMAIN layers = 0 .. max_grade
      /\ \A g \in 0 .. max_grade : Lists(layers[g], OfGrade(g))
      /\ layer \in -1 .. max_grade + 1 /\ iter \in 1 .. Iterations
      /\ phase = "down" => 1 <= layer
      /\ phase = "up" => layer < max_grade
  BY <1>2 DEF LayersOK
<1>8. ASSUME layer \in 0 .. max_grade, NEW neighbours,
             \E s \in Sortings(layers[layer], neighbours) : layers' = [layers EXCEPT ![layer] = s]
      PROVE  DOMAIN layers' = 0 .. max_grade /\ \A g \in 0 .. max_grade : Lists(layers'[g], OfGrade(g))
  <2>1. PICK s \in Sortings(layers[layer], neighbours) : layers' = [layers EXCEPT ![layer] = s]
    BY <1>8
  <2>2. Lists(s, OfGrade(layer))
    BY <1>7, <1>8, <2>1, SortedList
  <2>3. DOMAIN layers' = 0 .. max_grade
    BY <1>7, <2>1
  <2>4. \A g \in 0 .. max_grade : layers'[g] = IF g = layer THEN s ELSE layers[g]
    BY <1>7, <1>8, <2>1
  <2> QED BY <1>7, <2>2, <2>3, <2>4
<1>9. CASE SortDown
  <2>1. /\ phase = "down" /\ phase' = "down" /\ layer <= max_grade /\ layer' = layer + 1
        /\ iter' = iter
        /\ \E s \in Sortings(layers[layer], predecessors) : layers' = [layers EXCEPT ![layer] = s]
    BY <1>9 DEF SortDown
  <2>2. layer \in 0 .. max_grade
    BY <1>6, <1>7, <2>1
  <2>3. DOMAIN layers' = 0 .. max_grade /\ \A g \in 0 .. max_grade : Lists(layers'[g], OfGrade(g))
    BY <1>8, <2>1, <2>2
  <2>4. LayersOK'
    BY <1>1, <1>3, <1>6, <1>7, <2>1, <2>2, <2>3 DEF LayersOK
  <2> QED BY <1>1, <1>2, <1>3, <1>4, <1>5, <2>4, <2>1 DEF DrawingOK
<1>10. CASE SortUp
  <2>1. /\ phase = "up" /\ phase' = "up" /\ layer >= 0 /\ layer' = layer - 1 /\ iter' = iter
        /\ \E s \in Sortings(layers[layer], successors) : layers' = [layers EXCEPT ![layer] = s]
    BY <1>10 DEF SortUp
  <2>2. layer \in 0 .. max_grade
    BY <1>6, <1>7, <2>1
  <2>3. DOMAIN layers' = 0 .. max_grade /\ \A g \in 0 .. max_grade : Lists(layers'[g], OfGrade(g))
    BY <1>8, <2>1, <2>2
  <2>4. LayersOK'
    BY <1>1, <1>3, <1>6, <1>7, <2>1, <2>2, <2>3 DEF LayersOK
  <2> QED BY <1>1, <1>2, <1>3, <1>4, <1>5, <2>4, <2>1 DEF DrawingOK
<1>11. CASE TurnUp
  <2>1. phase' = "up" /\ layer' = max_grade - 1 /\ iter' = iter /\ layers' = layers
    BY <1>11 DEF TurnUp
  <2>2. LayersOK'
    BY <1>1, <1>3, <1>6, <1>7, <2>1 DEF LayersOK
  <2> QED BY <1>1, <1>2, <1>3, <1>4, <1>5, <2>1, <2>2 DEF DrawingOK
<1>12. CASE TurnDown
  <2>1. /\ layers' = layers /\ layer < 0
        /\ \/ phase' = "down" /\ layer' = 1 /\ iter' = iter + 1 /\ iter < Iterations
           \/ phase' = "placed" /\ layer' = layer /\ iter' = iter
    BY <1>12 DEF TurnDown
  <2>2. layer' \in -1 .. max_grade + 1 /\ iter' \in 1 .. Iterations
    BY <1>6, <1>7, <2>1, IterationsAssumption
  <2>3. phase' \in {"down", "placed"} /\ (phase' = "down" => 1 <= layer')
    BY <2>1
  <2>4. LayersOK'
    BY <1>1, <1>3, <1>7, <2>1, <2>2, <2>3 DEF LayersOK
  <2> QED BY <1>1, <1>2, <1>3, <1>4, <1>5, <2>3, <2>4 DEF DrawingOK
<1> QED BY <1>9, <1>10, <1>11, <1>12

\* What is known of the drawing gives the properties of the drawing.
LEMMA DrawingFollows ==
  ASSUME DrawingOK
  PROVE  LayoutTypeOK /\ Drawn
<1>1. nodes \in Nat /\ edges \subseteq Nodes \X Nodes
  BY DEF DrawingOK
<1>2. IsFiniteSet(Nodes) /\ Cardinality(Nodes) = nodes
  BY <1>1, Neighbours
<1>3. ASSUME phase # "idle"
      PROVE  /\ grade \in [Nodes -> -1 .. nodes] /\ in_degree \in [Nodes -> 0 .. nodes]
             /\ Range(queue) \subseteq Nodes
  <2>1. QueueOK
    BY <1>3 DEF DrawingOK
  <2>2. Range(queue) \subseteq Nodes
    BY <2>1, RangeOfSeq DEF QueueOK
  <2>3. CASE phase = "grades"
    <3>1. Cardinality(Done) \in Nat /\ Cardinality(Done) <= nodes
      <4>1. Done \in SUBSET Nodes
        BY DEF Done
      <4> QED BY <1>2, <4>1, FS_Subset, FS_CardinalityType
    <3>2. \A v \in Nodes : FirstGrade(v) \in {0, -1}
      BY DEF FirstGrade
    <3>3. GradesOK
      BY <2>3 DEF DrawingOK
    <3>4. \A v \in Nodes : grade[v] \in -1 .. nodes
      BY <1>1, <3>1, <3>2, <3>3 DEF GradesOK
    <3> QED BY <2>1, <2>2, <3>3, <3>4 DEF GradesOK, QueueOK
  <2>4. CASE phase # "grades"
    <3>1. LayersOK
      BY <1>3, <2>4 DEF DrawingOK
    <3> QED BY <1>1, <2>1, <2>2, <3>1 DEF LayersOK, QueueOK
  <2> QED BY <2>3, <2>4
<1>4. ASSUME phase \notin {"idle", "grades"}
      PROVE  /\ grade \in [Nodes -> 0 .. max_grade] /\ DOMAIN layers = 0 .. max_grade
             /\ \A g \in 0 .. max_grade : Lists(layers[g], OfGrade(g))
             /\ layer \in -1 .. max_grade + 1 /\ iter \in 1 .. Iterations
             /\ max_grade \in Nat /\ GradesFinal
  <2>1. LayersOK /\ GradesFinal
    BY <1>4 DEF DrawingOK
  <2>2. grade \in [Nodes -> -1 .. nodes] /\ grade \in [Nodes -> 0 .. nodes]
    BY <2>1 DEF LayersOK
  <2>3. max_grade \in 0 .. nodes /\ \A v \in Nodes : grade[v] <= max_grade
    BY <1>1, <2>2, MaxGrade
  <2>4. grade \in [Nodes -> 0 .. max_grade]
    BY <2>2, <2>3
  <2> QED BY <2>1, <2>3, <2>4 DEF LayersOK
<1>5. LayoutTypeOK
  <2>1. ASSUME phase \notin {"idle", "grades"}, NEW g \in DOMAIN layers
        PROVE  Range(layers[g]) \subseteq Nodes
    <3>1. PICK c \in Nat : layers[g] \in [1 .. c -> OfGrade(g)]
      BY <1>4, <2>1 DEF Lists
    <3>2. Range(layers[g]) \subseteq OfGrade(g)
      BY <3>1 DEF Range
    <3> QED BY <3>2 DEF OfGrade
  <2>2. phase \in {"idle", "grades", "down", "up", "placed"}
    BY DEF DrawingOK
  <2> QED BY <1>1, <1>3, <1>4, <2>1, <2>2 DEF LayoutTypeOK
<1>6. ASSUME phase \notin {"idle", "grades"}, NEW v \in Nodes
      PROVE  Cardinality({p \in (DOMAIN layers) \X Nodes :
                            p[2] \in DOMAIN layers[p[1]] /\ layers[p[1]][p[2]] = v}) = 1
  <2> DEFINE Places == {p \in (DOMAIN layers) \X Nodes :
                          p[2] \in DOMAIN layers[p[1]] /\ layers[p[1]][p[2]] = v}
             h == grade[v]
  <2>1. h \in 0 .. max_grade /\ v \in OfGrade(h)
    BY <1>4, <1>6 DEF OfGrade
  <2>2. PICK c \in Nat : /\ layers[h] \in [1 .. c -> OfGrade(h)]
                         /\ \A i, j \in 1 .. c : layers[h][i] = layers[h][j] => i = j
                         /\ \A x \in OfGrade(h) : \E i \in 1 .. c : layers[h][i] = x
    BY <1>4, <1>6, <2>1 DEF Lists
  <2>3. PICK k \in 1 .. c : layers[h][k] = v
    BY <2>1, <2>2
  <2>4. c <= nodes
    <3>1. layers[h] \in Injection(1 .. c, OfGrade(h))
      BY <2>2 DEF Injection, IsInjective
    <3>2. OfGrade(h) \in SUBSET Nodes
      BY DEF OfGrade
    <3>3. IsFiniteSet(OfGrade(h)) /\ Cardinality(OfGrade(h)) <= nodes /\ Cardinality(OfGrade(h)) \in Nat
      BY <1>2, <3>2, FS_Subset, FS_CardinalityType
    <3>4. Cardinality(1 .. c) <= Cardinality(OfGrade(h))
      BY <3>1, <3>3, FS_Injection
    <3>5. Cardinality(1 .. c) = c
      <4>1. Cardinality(1 .. c) = IF 1 > c THEN 0 ELSE c - 1 + 1
        BY FS_Interval
      <4> QED BY <4>1
    <3> QED BY <1>1, <3>3, <3>4, <3>5
  <2>5. k \in Nodes
    BY <1>1, <2>4 DEF Nodes
  <2>6. <<h, k>> \in Places
    BY <1>4, <1>6, <2>1, <2>2, <2>3, <2>5
  <2>7. ASSUME NEW p \in Places PROVE p = <<h, k>>
    <3>1. /\ p = <<p[1], p[2]>> /\ p[1] \in 0 .. max_grade
          /\ p[2] \in DOMAIN layers[p[1]] /\ layers[p[1]][p[2]] = v
      BY <1>4, <1>6, <2>7
    <3>2. PICK b \in Nat : layers[p[1]] \in [1 .. b -> OfGrade(p[1])]
      BY <1>4, <1>6, <3>1 DEF Lists
    <3>3. v \in OfGrade(p[1])
      BY <3>1, <3>2
    <3>4. p[1] = h
      BY <3>3 DEF OfGrade
    <3>5. p[2] = k
      BY <2>2, <2>3, <3>1, <3>4
    <3> QED BY <3>1, <3>4, <3>5
  <2>8. Places = {<<h, k>>}
    <3> HIDE DEF Places
    <3> QED BY <2>6, <2>7
  <2> HIDE DEF Places
  <2>9. Cardinality(Places) = 1
    BY <2>8, FS_Singleton
  <2> QED BY <2>9 DEF Places
<1>7. Drawn
  BY <1>4, <1>6 DEF Drawn, GradesFinal
<1> QED BY <1>5, <1>7

\* The drawing is left alone by what does not draw.
LEMMA DrawingKept ==
  ASSUME DrawingOK, UNCHANGED layout_vars
  PROVE  DrawingOK'
<1>1. /\ phase' = phase /\ nodes' = nodes /\ edges' = edges /\ grade' = grade
      /\ in_degree' = in_degree /\ queue' = queue /\ layers' = layers
      /\ layer' = layer /\ iter' = iter
  BY DEF layout_vars
<1>2. Nodes' = Nodes
  BY <1>1 DEF Nodes
<1>3. /\ predecessors' = predecessors /\ Done' = Done
      /\ max_grade' = max_grade /\ \A g : OfGrade(g)' = OfGrade(g)
  BY <1>1, <1>2 DEF predecessors, Done, max_grade, OfGrade
<1>4. \A v : FirstGrade(v)' = FirstGrade(v)
  BY <1>3 DEF FirstGrade
<1>5. QueueOK' = QueueOK
  BY <1>1, <1>2, <1>3 DEF QueueOK
<1>6. GradesOK' = GradesOK
  BY <1>1, <1>2, <1>3, <1>4 DEF GradesOK
<1>7. GradesFinal' = GradesFinal
  BY <1>1, <1>2, <1>3 DEF GradesFinal, Acyclic
<1>8. LayersOK' = LayersOK
  BY <1>1, <1>2, <1>3 DEF LayersOK
<1> QED BY <1>1, <1>2, <1>5, <1>6, <1>7, <1>8 DEF DrawingOK

\* Every step of the lattice keeps the drawing right.
LEMMA DrawingStep ==
  ASSUME CallsOK, CachesOK, DrawingOK, [Next]_vars
  PROVE  DrawingOK'
<1>1. CASE plot
  <2>1. build_covering /\ StartGrades(n, covering_matrix'[1]) /\ concepts' = concepts
    BY <1>1 DEF plot
  <2>2. covering_matrix' # Unset
    BY <2>1, Builders
  <2>3. CachesOK' /\ Concepts' = Concepts /\ n \in Nat
    BY <2>1, EveryStep, KeptOrder, OrderLaw DEF CallsOK
  <2>4. PICK Cov \in SUBSET (Concepts \X Concepts) : covering_matrix' = Known(Cov)
    BY <2>2, <2>3 DEF CachesOK
  <2>5. covering_matrix'[1] = Cov
    BY <2>4, Builders
  <2>6. Cov \in SUBSET ((1 .. n) \X (1 .. n))
    BY DEF Concepts
  <2> QED BY <2>1, <2>3, <2>5, <2>6, DrawingStarts
<1>2. CASE plotting
  <2>1. GradeSuccessors \/ FillLayers \/ SortDown \/ TurnUp \/ SortUp \/ TurnDown
    BY <1>2 DEF plotting, LayoutNext
  <2> QED BY <2>1, GradeStep, FillStep, SweepStep
<1>3. CASE UNCHANGED layout_vars
  BY <1>3, DrawingKept
<1>4. [Next]_vars => plot \/ plotting \/ UNCHANGED layout_vars
  <2>1. UNCHANGED vars => UNCHANGED layout_vars
    BY DEF vars
  <2>2. \/ supremum \/ infimum \/ join_irreducibles \/ meet_irreducibles \/ decompose
        \/ top \/ bottom \/ is_distributive \/ is_modular \/ is_semimodular \/ is_atomic
        => UNCHANGED layout_vars
    BY DEF supremum, infimum, join_irreducibles, meet_irreducibles, decompose, top, bottom,
           is_distributive, is_modular, is_semimodular, is_atomic, Ask
  <2>3. subconcepts \/ superconcepts \/ json \/ sublattice => UNCHANGED layout_vars
    BY DEF subconcepts, superconcepts, json, sublattice
  <2>4. JoinRound \/ TurnToMeets \/ MeetRound \/ Sublattice => UNCHANGED layout_vars
    BY DEF JoinRound, TurnToMeets, MeetRound, Sublattice
  <2> QED BY <2>1, <2>2, <2>3, <2>4 DEF Next
<1> QED BY <1>1, <1>2, <1>3, <1>4

LEMMA DrawingInvariant == Spec => []DrawingOK
<1>1. ASSUME Init PROVE DrawingOK
  BY <1>1 DEF Init, LayoutInit, DrawingOK
<1>2. ReadInvariant /\ DrawingOK /\ [Next]_vars => DrawingOK'
  BY DrawingStep DEF ReadInvariant
<1> QED BY <1>1, <1>2, ReadInvariantKept, PTL DEF Spec

\* The grade of a node is the length of the longest path to it, although nodes
\* are passed on by a queue while others are not graded yet; and the sweeps
\* leave every node one place, whatever order std::sort chooses.
THEOREM DrawingRight == Spec => []Drawn
<1>1. DrawingOK => Drawn
  BY DrawingFollows
<1> QED BY <1>1, DrawingInvariant, PTL

\* Types.
THEOREM TypesKept == Spec => []TypeOK
<1>1. ASSUME ReadInvariant, DrawingOK PROVE TypeOK
  <2>1. CallsOK /\ CachesOK
    BY <1>1 DEF ReadInvariant
  <2>2. concepts \in Seq(Extents) /\ n \in Nat /\ Order \subseteq Concepts \X Concepts
    BY <2>1, OrderLaw DEF CallsOK
  <2>3. subconcept_matrix # Unset => subconcept_matrix[1] \subseteq Concepts \X Concepts
    <3>1. subconcept_matrix # Unset => subconcept_matrix[1] = Order
      BY <2>1, Builders DEF CachesOK
    <3> QED BY <2>2, <3>1
  <2>4. covering_matrix # Unset => covering_matrix[1] \subseteq Concepts \X Concepts
    <3>1. ASSUME covering_matrix # Unset
          PROVE  \E Cov \in SUBSET (Concepts \X Concepts) : covering_matrix[1] = Cov
      <4>1. PICK Cov \in SUBSET (Concepts \X Concepts) : covering_matrix = Known(Cov)
        BY <2>1, <3>1 DEF CachesOK
      <4>2. covering_matrix[1] = Cov
        BY <2>1, <4>1, Builders
      <4> QED BY <4>2
    <3> QED BY <3>1
  <2>5. ASSUME tables # Unset, NEW i \in Concepts, NEW j \in Concepts
        PROVE  tables[1].meet[i][j] \in 0 .. n /\ tables[1].join[i][j] \in 0 .. n
    <3>1. tables[1] = compute_meet_join(n, Order)
      BY <2>1, <2>5, Builders DEF CachesOK
    <3>2. /\ tables[1].meet[i][j] = meet_val(Order, i, j)
          /\ tables[1].join[i][j] = join_val(Order, i, j)
      BY <2>5, <3>1 DEF compute_meet_join, Concepts
    <3>3. meet_val(Order, i, j) \in Concepts \cup {0} /\ join_val(Order, i, j) \in Concepts \cup {0}
      <4>1. Concepts \in SUBSET Nat
        BY DEF Concepts
      <4> QED BY <2>2, <4>1, TablesType
    <3> QED BY <2>2, <3>2, <3>3 DEF Concepts
  <2>6. \A p \in DOMAIN properties : properties[p] \in {Unset, Known(TRUE), Known(FALSE)}
    BY <2>1 DEF CachesOK
  <2>7. /\ calls \in 0 .. MaxCalls
        /\ idx \subseteq Concepts /\ idx_final \subseteq Concepts /\ generators \subseteq Concepts
    BY <2>1 DEF CallsOK
  <2>8. LayoutTypeOK
    BY <1>1, DrawingFollows
  <2> QED BY <2>2, <2>3, <2>4, <2>5, <2>6, <2>7, <2>8 DEF TypeOK
<1> QED BY <1>1, ReadInvariantKept, DrawingInvariant, PTL
=============================================================================
