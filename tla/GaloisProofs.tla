---------------------------- MODULE GaloisProofs ----------------------------
(***************************************************************************)
(* Facts about the degrees, the logics, the pointwise and the lectic order *)
(* of fuzzy sets, about the derivation operators, and about the steps of   *)
(* the lectic search, for every chain of degrees, every set of objects,    *)
(* every number of attributes and every context.                           *)
(***************************************************************************)
EXTENDS LecticSearch, OrderProofs

-----------------------------------------------------------------------------
\* The logics.

\* The residua and t-norms stay within the chain of degrees.
LEMMA LogicTypes ==
  ASSUME NEW name \in LogicNames, NEW x \in Grades, NEW y \in Grades
  PROVE  /\ implication(name, x, y) \in Grades
         /\ tnorm(name, x, y) \in Grades
BY KAssumption
   DEF LogicNames, Grades, implication, tnorm, implication_Zadeh,
       implication_Lukasiewicz, implication_Godel, implication_Product,
       tnorm_Godel, tnorm_Lukasiewicz

\* A residuum is antitone in its first argument, monotone in its second, and
\* x is below (x -> y) -> y.
LEMMA ImplicationLaws ==
  ASSUME NEW name \in LogicNames, NEW x \in Grades, NEW y \in Grades
  PROVE  /\ x <= implication(name, implication(name, x, y), y)
         /\ \A z \in Grades : x <= z =>
              implication(name, z, y) <= implication(name, x, y)
         /\ \A z \in Grades : x <= z =>
              implication(name, y, x) <= implication(name, y, z)
<1> USE KAssumption DEF Grades, implication
<1>1. CASE name = "Zadeh"
  BY <1>1 DEF implication_Zadeh
<1>2. CASE name = "Lukasiewicz"
  BY <1>2 DEF implication_Lukasiewicz
<1>3. CASE name = "Godel"
  BY <1>3 DEF implication_Godel
<1>4. CASE name = "Product"
  BY <1>4 DEF implication_Product
<1> QED BY <1>1, <1>2, <1>3, <1>4 DEF LogicNames

\* Where the t-norm is modelled it is adjoint to the residuum and monotone.
LEMMA TnormLaws ==
  ASSUME NEW name \in LogicNames, name # "Product",
         NEW x \in Grades, NEW y \in Grades
  PROVE  /\ y <= implication(name, x, tnorm(name, x, y))
         /\ tnorm(name, x, implication(name, x, y)) <= y
         /\ \A z \in Grades : y <= z => tnorm(name, x, y) <= tnorm(name, x, z)
<1> USE KAssumption DEF Grades, implication, tnorm, tnorm_Godel
<1>1. CASE name = "Zadeh"
  BY <1>1 DEF implication_Zadeh
<1>2. CASE name = "Lukasiewicz"
  BY <1>2 DEF implication_Lukasiewicz, tnorm_Lukasiewicz
<1>3. CASE name = "Godel"
  BY <1>3 DEF implication_Godel
<1> QED BY <1>1, <1>2, <1>3 DEF LogicNames

\* Where the t-norm is modelled its arguments may change places.
LEMMA TnormCommutes ==
  ASSUME NEW name \in LogicNames, NEW x \in Grades, NEW y \in Grades
  PROVE  tnorm(name, x, y) = tnorm(name, y, x)
BY KAssumption DEF Grades, tnorm, tnorm_Godel, tnorm_Lukasiewicz

-----------------------------------------------------------------------------
\* Bounds of families of degrees.

\* Inf is the greatest lower bound of a family of degrees, Sup the least upper
\* bound, also for an empty family.
LEMMA InfSup ==
  ASSUME NEW D, NEW f \in [D -> Grades]
  PROVE  /\ Inf(f) \in Grades
         /\ \A d \in D : Inf(f) <= f[d]
         /\ \A g \in Grades : (\A d \in D : g <= f[d]) => g <= Inf(f)
         /\ Sup(f) \in Grades
         /\ \A d \in D : f[d] <= Sup(f)
         /\ \A g \in Grades : (\A d \in D : f[d] <= g) => Sup(f) <= g
<1> DEFINE S == {K} \cup Range(f)
           T == {0} \cup Range(f)
<1>1. /\ S \in SUBSET Nat /\ S # {} /\ S \in SUBSET Grades
      /\ T \in SUBSET (0 .. K) /\ T # {} /\ T \in SUBSET Grades
      /\ \A x \in Range(f) : \E d \in D : x = f[d]
      /\ \A d \in D : f[d] \in S /\ f[d] \in T
  BY KAssumption DEF Grades, Range
<1>2. K \in Nat
  BY KAssumption
<1>3. /\ Min(S) \in S /\ \A x \in S : Min(S) <= x
      /\ Max(T) \in T /\ \A x \in T : x <= Max(T)
  <2> HIDE DEF S, T
  <2> QED BY <1>1, <1>2, NatMin, NatMax
<1>4. Inf(f) = Min(S) /\ Sup(f) = Max(T)
  BY DEF Inf, Sup
<1>5. \A g \in Grades : (\A d \in D : g <= f[d]) => g <= Inf(f)
  BY <1>1, <1>3, <1>4, KAssumption DEF Grades
<1>6. \A g \in Grades : (\A d \in D : f[d] <= g) => Sup(f) <= g
  BY <1>1, <1>3, <1>4, KAssumption DEF Grades
<1> QED BY <1>1, <1>3, <1>4, <1>5, <1>6, Zenon

\* Pointwise order of attribute sets.

LEMMA LeqOrder ==
  ASSUME NEW B \in AttrSets, NEW C \in AttrSets
  PROVE  /\ Leq(B, C) /\ Leq(C, B) => B = C
         /\ \A D \in AttrSets : Leq(B, C) /\ Leq(C, D) => Leq(B, D)
<1>1. \A c \in Attributes : B[c] \in Grades /\ C[c] \in Grades
  BY DEF AttrSets
<1>2. ASSUME Leq(B, C), Leq(C, B) PROVE B = C
  <2>1. \A c \in Attributes : B[c] = C[c]
    BY <1>1, <1>2, KAssumption DEF Leq, Grades
  <2> QED BY <2>1 DEF AttrSets
<1>3. ASSUME NEW D \in AttrSets, Leq(B, C), Leq(C, D) PROVE Leq(B, D)
  <2>1. \A c \in Attributes : D[c] \in Grades
    BY DEF AttrSets
  <2> QED BY <1>1, <1>3, <2>1, KAssumption DEF Leq, Grades
<1> QED BY <1>2, <1>3

-----------------------------------------------------------------------------
\* The lectic order.

\* Two different attribute sets differ first at some attribute.
LEMMA LecticTotal ==
  ASSUME NEW B \in AttrSets, NEW C \in AttrSets, B # C
  PROVE  LecticLess(B, C) \/ LecticLess(C, B)
<1> DEFINE S == {c \in Attributes : B[c] # C[c]}
           m == Min(S)
<1>1. S \in SUBSET Nat
  BY NAttrAssumption DEF Attributes
<1>2. S # {}
  BY DEF AttrSets
<1>3. m \in S /\ \A x \in S : m <= x
  <2> HIDE DEF S
  <2> QED BY <1>1, <1>2, NatMin
<1>4. /\ m \in Attributes /\ B[m] # C[m]
      /\ \A j \in Attributes : j < m => B[j] = C[j]
  <2>1. m \in Attributes /\ B[m] # C[m] /\ m \in Nat
    BY <1>1, <1>3
  <2>2. ASSUME NEW j \in Attributes, j < m PROVE B[j] = C[j]
    <3>1. j \in S => m <= j
      BY <1>3
    <3>2. j \in Int
      BY NAttrAssumption DEF Attributes
    <3>3. j \notin S
      <4> HIDE DEF S, m
      <4> QED BY <2>1, <2>2, <3>1, <3>2
    <3> QED BY <3>3
  <2> QED BY <2>1, <2>2
<1>5. B[m] \in Grades /\ C[m] \in Grades
  BY <1>4 DEF AttrSets
<1>6. B[m] < C[m] \/ C[m] < B[m]
  BY <1>4, <1>5, KAssumption DEF Grades
<1> HIDE DEF m
<1> QED BY <1>4, <1>6 DEF LecticLess, LecticAt

\* The lectic order is transitive and irreflexive, and extends Leq.
LEMMA LecticOrderLaws ==
  ASSUME NEW B \in AttrSets, NEW C \in AttrSets
  PROVE  /\ ~LecticLess(B, B)
         /\ \A D \in AttrSets :
              LecticLess(B, C) /\ LecticLess(C, D) => LecticLess(B, D)
         /\ Leq(B, C) /\ B # C => LecticLess(B, C)
<1>0. /\ \A c \in Attributes : B[c] \in Int /\ C[c] \in Int /\ c \in Int
  BY KAssumption, NAttrAssumption DEF AttrSets, Grades, Attributes
<1>1. ~LecticLess(B, B)
  BY <1>0 DEF LecticLess, LecticAt
<1>2. ASSUME NEW D \in AttrSets, LecticLess(B, C), LecticLess(C, D)
      PROVE  LecticLess(B, D)
  <2>1. PICK i \in Attributes : LecticAt(B, C, i)
    BY <1>2 DEF LecticLess
  <2>2. PICK k \in Attributes : LecticAt(C, D, k)
    BY <1>2 DEF LecticLess
  <2>3. \A c \in Attributes : D[c] \in Int
    BY KAssumption DEF AttrSets, Grades
  <2>4. CASE i <= k
    <3>1. LecticAt(B, D, i)
      BY <1>0, <2>1, <2>2, <2>3, <2>4 DEF LecticAt
    <3> QED BY <3>1 DEF LecticLess
  <2>5. CASE k < i
    <3>1. LecticAt(B, D, k)
      BY <1>0, <2>1, <2>2, <2>3, <2>5 DEF LecticAt
    <3> QED BY <3>1 DEF LecticLess
  <2> QED BY <1>0, <2>4, <2>5
<1>3. ASSUME Leq(B, C), B # C PROVE LecticLess(B, C)
  <2>1. ~LecticLess(C, B)
    BY <1>0, <1>3 DEF LecticLess, LecticAt, Leq
  <2> QED BY <1>3, <2>1, LecticTotal
<1> QED BY <1>1, <1>2, <1>3
-----------------------------------------------------------------------------
\* There is no endless descent in the pointwise order.
StrictlyBelow == {p \in AttrSets \X AttrSets : Leq(p[1], p[2]) /\ p[1] # p[2]}

LEMMA StrictlyBelowWellFounded == IsWellFoundedOn(StrictlyBelow, AttrSets)
<1> DEFINE Base == Attributes \X Grades
           Below(B) == {p \in Base : p[2] < B[p[1]]}
<1>1. IsWellFoundedOn(StrictSubsetOrdering(Base), FiniteSubsetsOf(Base))
  BY FS_StrictSubsetOrderingWellFounded
<1>2. IsFiniteSet(Base)
  <2>1. 0 \in Int /\ NAttr - 1 \in Int /\ K \in Int
    BY KAssumption, NAttrAssumption
  <2>2. IsFiniteSet(Attributes) /\ IsFiniteSet(Grades)
    BY <2>1, FS_Interval, Zenon DEF Attributes, Grades
  <2> QED BY <2>2, FS_Product
<1>3. \A B \in AttrSets : Below(B) \in FiniteSubsetsOf(Base)
  <2> SUFFICES ASSUME NEW B \in AttrSets PROVE Below(B) \in FiniteSubsetsOf(Base)
    OBVIOUS
  <2>1. Below(B) \subseteq Base
    OBVIOUS
  <2>2. IsFiniteSet(Below(B))
    <3> HIDE DEF Base, Below
    <3> QED BY <1>2, <2>1, FS_Subset
  <2> HIDE DEF Base, Below
  <2> QED BY <2>1, <2>2 DEF FiniteSubsetsOf
<1>4. ASSUME NEW B \in AttrSets, NEW C \in AttrSets, <<B, C>> \in StrictlyBelow
      PROVE  Below(B) \subseteq Below(C) /\ Below(B) # Below(C)
  <2>1. Leq(B, C) /\ B # C
    BY <1>4 DEF StrictlyBelow
  <2>2. \A c \in Attributes : B[c] \in Grades /\ C[c] \in Grades /\ B[c] <= C[c]
    BY <2>1 DEF AttrSets, Leq
  <2>3. PICK c \in Attributes : B[c] # C[c]
    BY <2>1 DEF AttrSets
  <2>4. Below(B) \subseteq Below(C)
    BY <2>2, KAssumption DEF Grades
  <2>5. <<c, B[c]>> \in Base /\ B[c] < C[c] /\ ~(B[c] < B[c])
    BY <2>2, <2>3, KAssumption DEF Grades
  <2>6. <<c, B[c]>> \in Below(C) /\ <<c, B[c]>> \notin Below(B)
    BY <2>5
  <2> QED BY <2>4, <2>6
<1>5. ASSUME NEW T, T \subseteq AttrSets, T # {}
      PROVE  \E x \in T : \A y \in T : ~(<<y, x>> \in StrictlyBelow)
  <2> DEFINE U == {Below(B) : B \in T}
  <2>1. U \subseteq FiniteSubsetsOf(Base) /\ U # {}
    <3> HIDE DEF Below, Base
    <3> QED BY <1>3, <1>5
  <2>2. PICK u \in U : \A v \in U : <<v, u>> \notin StrictSubsetOrdering(Base)
    <3> HIDE DEF U
    <3> QED BY <1>1, <2>1, WFMin, Zenon
  <2>3. PICK x \in T : u = Below(x)
    OBVIOUS
  <2>4. ASSUME NEW y \in T, <<y, x>> \in StrictlyBelow PROVE FALSE
    <3>1. <<Below(y), Below(x)>> \notin StrictSubsetOrdering(Base)
      BY <2>2, <2>3
    <3>2. Below(y) \in SUBSET Base /\ Below(x) \in SUBSET Base
      OBVIOUS
    <3>3. Below(y) \subseteq Below(x) /\ Below(y) # Below(x)
      BY <1>4, <1>5, <2>4
    <3> HIDE DEF Below, Base
    <3> QED BY <3>1, <3>2, <3>3 DEF StrictSubsetOrdering
  <2> QED BY <2>4
<1> HIDE DEF Base, Below
<1> QED BY <1>5, MinWF

-----------------------------------------------------------------------------
\* The derivation operators.

\* The types of the operators, whatever the connection and the logic.
LEMMA DerivationTypes ==
  ASSUME NEW I \in Contexts, NEW name \in LogicNames,
         NEW connection \in Connections
  PROVE  /\ \A U \in ObjectSets : intent_f(connection, name, I, U) \in AttrSets
         /\ \A V \in AttrSets : extent_f(connection, name, I, V) \in ObjectSets
         /\ \A V \in AttrSets :
              compute_closure(connection, name, I, V) \in AttrSets
<1>1. ASSUME NEW U \in ObjectSets
      PROVE  intent_f(connection, name, I, U) \in AttrSets
  <2>1. ASSUME NEW c \in Attributes
        PROVE  /\ Inf([r \in Objects |-> implication(name, U[r], I[r][c])]) \in Grades
               /\ Sup([r \in Objects |-> tnorm(name, U[r], I[r][c])]) \in Grades
               /\ Inf([r \in Objects |-> implication(name, I[r][c], U[r])]) \in Grades
    <3>1. /\ [r \in Objects |-> implication(name, U[r], I[r][c])] \in [Objects -> Grades]
          /\ [r \in Objects |-> tnorm(name, U[r], I[r][c])] \in [Objects -> Grades]
          /\ [r \in Objects |-> implication(name, I[r][c], U[r])] \in [Objects -> Grades]
      BY LogicTypes DEF Contexts, ObjectSets
    <3> QED BY <3>1, InfSup
  <2>2. /\ compute_intent(name, I, U) \in AttrSets
        /\ compute_upright_arrow(name, I, U) \in AttrSets
        /\ compute_upleft_arrow(name, I, U) \in AttrSets
    BY <2>1
       DEF compute_intent, compute_upright_arrow, compute_upleft_arrow, AttrSets
  <2> QED BY <2>2 DEF intent_f, Connections
<1>2. ASSUME NEW V \in AttrSets
      PROVE  extent_f(connection, name, I, V) \in ObjectSets
  <2>1. ASSUME NEW r \in Objects
        PROVE  /\ Inf([c \in Attributes |-> implication(name, V[c], I[r][c])]) \in Grades
               /\ Inf([c \in Attributes |-> implication(name, I[r][c], V[c])]) \in Grades
               /\ Sup([c \in Attributes |-> tnorm(name, I[r][c], V[c])]) \in Grades
    <3>1. /\ [c \in Attributes |-> implication(name, V[c], I[r][c])] \in [Attributes -> Grades]
          /\ [c \in Attributes |-> implication(name, I[r][c], V[c])] \in [Attributes -> Grades]
          /\ [c \in Attributes |-> tnorm(name, I[r][c], V[c])] \in [Attributes -> Grades]
      BY LogicTypes DEF Contexts, AttrSets
    <3> QED BY <3>1, InfSup
  <2>2. /\ compute_extent(name, I, V) \in ObjectSets
        /\ compute_downleft_arrow(name, I, V) \in ObjectSets
        /\ compute_downright_arrow(name, I, V) \in ObjectSets
    BY <2>1
       DEF compute_extent, compute_downleft_arrow, compute_downright_arrow, ObjectSets
  <2> QED BY <2>2 DEF extent_f, Connections
<1> QED BY <1>1, <1>2 DEF compute_closure

-----------------------------------------------------------------------------
\* The antitone pair is a Galois connection.

\* compute_extent and compute_intent reverse the order.
LEMMA StandardAntitone ==
  ASSUME NEW I \in Contexts, NEW name \in LogicNames
  PROVE  /\ \A V, W \in AttrSets : Leq(V, W) =>
              \A r \in Objects :
                compute_extent(name, I, W)[r] <= compute_extent(name, I, V)[r]
         /\ \A U, X \in ObjectSets : (\A r \in Objects : U[r] <= X[r]) =>
              Leq(compute_intent(name, I, X), compute_intent(name, I, U))
<1>1. ASSUME NEW V \in AttrSets, NEW W \in AttrSets, Leq(V, W), NEW r \in Objects
      PROVE  compute_extent(name, I, W)[r] <= compute_extent(name, I, V)[r]
  <2> DEFINE f == [c \in Attributes |-> implication(name, V[c], I[r][c])]
             g == [c \in Attributes |-> implication(name, W[c], I[r][c])]
  <2>1. f \in [Attributes -> Grades] /\ g \in [Attributes -> Grades]
    BY LogicTypes DEF Contexts, AttrSets
  <2>2. ASSUME NEW c \in Attributes PROVE g[c] <= f[c]
    BY <1>1, ImplicationLaws DEF Contexts, AttrSets, Leq
  <2>3. Inf(g) \in Grades /\ \A c \in Attributes : Inf(g) <= g[c]
    <3> HIDE DEF g
    <3> QED BY <2>1, InfSup
  <2>4. \A c \in Attributes : Inf(g) <= f[c]
    <3> HIDE DEF f, g
    <3> QED BY <2>1, <2>2, <2>3, KAssumption DEF Grades
  <2>5. Inf(g) <= Inf(f)
    <3> HIDE DEF f, g
    <3> QED BY <2>1, <2>3, <2>4, InfSup
  <2> QED BY <2>5 DEF compute_extent
<1>2. ASSUME NEW U \in ObjectSets, NEW X \in ObjectSets,
             \A r \in Objects : U[r] <= X[r], NEW c \in Attributes
      PROVE  compute_intent(name, I, X)[c] <= compute_intent(name, I, U)[c]
  <2> DEFINE f == [r \in Objects |-> implication(name, U[r], I[r][c])]
             g == [r \in Objects |-> implication(name, X[r], I[r][c])]
  <2>1. f \in [Objects -> Grades] /\ g \in [Objects -> Grades]
    BY LogicTypes DEF Contexts, ObjectSets
  <2>2. ASSUME NEW r \in Objects PROVE g[r] <= f[r]
    BY <1>2, ImplicationLaws DEF Contexts, ObjectSets
  <2>3. Inf(g) \in Grades /\ \A r \in Objects : Inf(g) <= g[r]
    <3> HIDE DEF g
    <3> QED BY <2>1, InfSup
  <2>4. \A r \in Objects : Inf(g) <= f[r]
    <3> HIDE DEF f, g
    <3> QED BY <2>1, <2>2, <2>3, KAssumption DEF Grades
  <2>5. Inf(g) <= Inf(f)
    <3> HIDE DEF f, g
    <3> QED BY <2>1, <2>3, <2>4, InfSup
  <2> QED BY <2>5 DEF compute_intent
<1> QED BY <1>1, <1>2 DEF Leq

\* A set is below its double derivative, on either side.
LEMMA StandardExtensive ==
  ASSUME NEW I \in Contexts, NEW name \in LogicNames
  PROVE  /\ \A V \in AttrSets :
              Leq(V, compute_intent(name, I, compute_extent(name, I, V)))
         /\ \A U \in ObjectSets : \A r \in Objects :
              U[r] <= compute_extent(name, I, compute_intent(name, I, U))[r]
<1>1. ASSUME NEW V \in AttrSets, NEW c \in Attributes
      PROVE  V[c] <= compute_intent(name, I, compute_extent(name, I, V))[c]
  <2> DEFINE E == compute_extent(name, I, V)
             f == [r \in Objects |-> implication(name, E[r], I[r][c])]
  <2>1. ASSUME NEW r \in Objects
        PROVE  E[r] \in Grades /\ E[r] <= implication(name, V[c], I[r][c])
    <3> DEFINE h == [d \in Attributes |-> implication(name, V[d], I[r][d])]
    <3>1. h \in [Attributes -> Grades]
      BY LogicTypes DEF Contexts, AttrSets
    <3>2. Inf(h) \in Grades /\ Inf(h) <= h[c]
      <4> HIDE DEF h
      <4> QED BY <3>1, InfSup
    <3> QED BY <3>2 DEF compute_extent
  <2> HIDE DEF E
  <2>2. ASSUME NEW r \in Objects
        PROVE  f[r] \in Grades /\ V[c] <= f[r]
    <3>1. /\ V[c] \in Grades /\ I[r][c] \in Grades
          /\ implication(name, V[c], I[r][c]) \in Grades
      BY LogicTypes DEF Contexts, AttrSets
    <3>2. V[c] <= implication(name, implication(name, V[c], I[r][c]), I[r][c])
      BY <3>1, ImplicationLaws
    <3>3. implication(name, implication(name, V[c], I[r][c]), I[r][c]) <= f[r]
      BY <2>1, <3>1, ImplicationLaws
    <3>4. f[r] \in Grades
          /\ implication(name, implication(name, V[c], I[r][c]), I[r][c]) \in Grades
      BY <2>1, <3>1, LogicTypes
    <3> HIDE DEF f
    <3> QED BY <3>1, <3>2, <3>3, <3>4, KAssumption DEF Grades
  <2>3. V[c] \in Grades /\ f \in [Objects -> Grades]
    BY <2>2 DEF AttrSets
  <2>4. V[c] <= Inf(f)
    <3> HIDE DEF f
    <3> QED BY <2>2, <2>3, InfSup
  <2> QED BY <2>4 DEF compute_intent, E
<1>2. ASSUME NEW U \in ObjectSets, NEW r \in Objects
      PROVE  U[r] <= compute_extent(name, I, compute_intent(name, I, U))[r]
  <2> DEFINE E == compute_intent(name, I, U)
             f == [c \in Attributes |-> implication(name, E[c], I[r][c])]
  <2>1. ASSUME NEW c \in Attributes
        PROVE  E[c] \in Grades /\ E[c] <= implication(name, U[r], I[r][c])
    <3> DEFINE h == [q \in Objects |-> implication(name, U[q], I[q][c])]
    <3>1. h \in [Objects -> Grades]
      BY LogicTypes DEF Contexts, ObjectSets
    <3>2. Inf(h) \in Grades /\ Inf(h) <= h[r]
      <4> HIDE DEF h
      <4> QED BY <3>1, InfSup
    <3> QED BY <3>2 DEF compute_intent
  <2> HIDE DEF E
  <2>2. ASSUME NEW c \in Attributes
        PROVE  f[c] \in Grades /\ U[r] <= f[c]
    <3>1. /\ U[r] \in Grades /\ I[r][c] \in Grades
          /\ implication(name, U[r], I[r][c]) \in Grades
      BY LogicTypes DEF Contexts, ObjectSets
    <3>2. U[r] <= implication(name, implication(name, U[r], I[r][c]), I[r][c])
      BY <3>1, ImplicationLaws
    <3>3. implication(name, implication(name, U[r], I[r][c]), I[r][c]) <= f[c]
      BY <2>1, <3>1, ImplicationLaws
    <3>4. f[c] \in Grades
          /\ implication(name, implication(name, U[r], I[r][c]), I[r][c]) \in Grades
      BY <2>1, <3>1, LogicTypes
    <3> HIDE DEF f
    <3> QED BY <3>1, <3>2, <3>3, <3>4, KAssumption DEF Grades
  <2>3. U[r] \in Grades /\ f \in [Attributes -> Grades]
    BY <2>2 DEF ObjectSets
  <2>4. U[r] <= Inf(f)
    <3> HIDE DEF f
    <3> QED BY <2>2, <2>3, InfSup
  <2> QED BY <2>4 DEF compute_extent, E
<1> QED BY <1>1, <1>2 DEF Leq

-----------------------------------------------------------------------------
\* The second isotone pair.

\* compute_downright_arrow and compute_upleft_arrow preserve the order.
LEMMA IsotoneMonotone ==
  ASSUME NEW I \in Contexts, NEW name \in LogicNames, name # "Product"
  PROVE  /\ \A V, W \in AttrSets : Leq(V, W) =>
              \A r \in Objects : compute_downright_arrow(name, I, V)[r]
                                   <= compute_downright_arrow(name, I, W)[r]
         /\ \A U, X \in ObjectSets : (\A r \in Objects : U[r] <= X[r]) =>
              Leq(compute_upleft_arrow(name, I, U),
                  compute_upleft_arrow(name, I, X))
<1>1. ASSUME NEW V \in AttrSets, NEW W \in AttrSets, Leq(V, W), NEW r \in Objects
      PROVE  compute_downright_arrow(name, I, V)[r]
               <= compute_downright_arrow(name, I, W)[r]
  <2> DEFINE f == [c \in Attributes |-> tnorm(name, I[r][c], V[c])]
             g == [c \in Attributes |-> tnorm(name, I[r][c], W[c])]
  <2>1. f \in [Attributes -> Grades] /\ g \in [Attributes -> Grades]
    BY LogicTypes DEF Contexts, AttrSets
  <2>2. ASSUME NEW c \in Attributes PROVE f[c] <= g[c]
    BY <1>1, TnormLaws DEF Contexts, AttrSets, Leq
  <2>3. Sup(g) \in Grades /\ \A c \in Attributes : g[c] <= Sup(g)
    <3> HIDE DEF g
    <3> QED BY <2>1, InfSup
  <2>4. \A c \in Attributes : f[c] <= Sup(g)
    <3> HIDE DEF f, g
    <3> QED BY <2>1, <2>2, <2>3, KAssumption DEF Grades
  <2>5. Sup(f) <= Sup(g)
    <3> HIDE DEF f, g
    <3> QED BY <2>1, <2>3, <2>4, InfSup
  <2> QED BY <2>5 DEF compute_downright_arrow
<1>2. ASSUME NEW U \in ObjectSets, NEW X \in ObjectSets,
             \A r \in Objects : U[r] <= X[r], NEW c \in Attributes
      PROVE  compute_upleft_arrow(name, I, U)[c]
               <= compute_upleft_arrow(name, I, X)[c]
  <2> DEFINE f == [r \in Objects |-> implication(name, I[r][c], U[r])]
             g == [r \in Objects |-> implication(name, I[r][c], X[r])]
  <2>1. f \in [Objects -> Grades] /\ g \in [Objects -> Grades]
    BY LogicTypes DEF Contexts, ObjectSets
  <2>2. ASSUME NEW r \in Objects PROVE f[r] <= g[r]
    BY <1>2, ImplicationLaws DEF Contexts, ObjectSets
  <2>3. Inf(f) \in Grades /\ \A r \in Objects : Inf(f) <= f[r]
    <3> HIDE DEF f
    <3> QED BY <2>1, InfSup
  <2>4. \A r \in Objects : Inf(f) <= g[r]
    <3> HIDE DEF f, g
    <3> QED BY <2>1, <2>2, <2>3, KAssumption DEF Grades
  <2>5. Inf(f) <= Inf(g)
    <3> HIDE DEF f, g
    <3> QED BY <2>1, <2>3, <2>4, InfSup
  <2> QED BY <2>5 DEF compute_upleft_arrow
<1> QED BY <1>1, <1>2 DEF Leq

\* An attribute set is below its double derivative; an object set is above.
LEMMA IsotoneAdjoint ==
  ASSUME NEW I \in Contexts, NEW name \in LogicNames, name # "Product"
  PROVE  /\ \A V \in AttrSets :
              Leq(V, compute_upleft_arrow(name, I,
                       compute_downright_arrow(name, I, V)))
         /\ \A U \in ObjectSets : \A r \in Objects :
              compute_downright_arrow(name, I,
                compute_upleft_arrow(name, I, U))[r] <= U[r]
<1>1. ASSUME NEW V \in AttrSets, NEW c \in Attributes
      PROVE  V[c] <= compute_upleft_arrow(name, I,
                       compute_downright_arrow(name, I, V))[c]
  <2> DEFINE E == compute_downright_arrow(name, I, V)
             f == [r \in Objects |-> implication(name, I[r][c], E[r])]
  <2>1. ASSUME NEW r \in Objects
        PROVE  E[r] \in Grades /\ tnorm(name, I[r][c], V[c]) <= E[r]
    <3> DEFINE h == [d \in Attributes |-> tnorm(name, I[r][d], V[d])]
    <3>1. h \in [Attributes -> Grades]
      BY LogicTypes DEF Contexts, AttrSets
    <3>2. Sup(h) \in Grades /\ h[c] <= Sup(h)
      <4> HIDE DEF h
      <4> QED BY <3>1, InfSup
    <3> QED BY <3>2 DEF compute_downright_arrow
  <2> HIDE DEF E
  <2>2. ASSUME NEW r \in Objects
        PROVE  f[r] \in Grades /\ V[c] <= f[r]
    <3>1. /\ V[c] \in Grades /\ I[r][c] \in Grades
          /\ tnorm(name, I[r][c], V[c]) \in Grades
      BY LogicTypes DEF Contexts, AttrSets
    <3>2. V[c] <= implication(name, I[r][c], tnorm(name, I[r][c], V[c]))
      BY <3>1, TnormLaws
    <3>3. implication(name, I[r][c], tnorm(name, I[r][c], V[c])) <= f[r]
      BY <2>1, <3>1, ImplicationLaws
    <3>4. f[r] \in Grades
          /\ implication(name, I[r][c], tnorm(name, I[r][c], V[c])) \in Grades
      BY <2>1, <3>1, LogicTypes
    <3> HIDE DEF f
    <3> QED BY <3>1, <3>2, <3>3, <3>4, KAssumption DEF Grades
  <2>3. V[c] \in Grades /\ f \in [Objects -> Grades]
    BY <2>2 DEF AttrSets
  <2>4. V[c] <= Inf(f)
    <3> HIDE DEF f
    <3> QED BY <2>2, <2>3, InfSup
  <2> QED BY <2>4 DEF compute_upleft_arrow, E
<1>2. ASSUME NEW U \in ObjectSets, NEW r \in Objects
      PROVE  compute_downright_arrow(name, I,
               compute_upleft_arrow(name, I, U))[r] <= U[r]
  <2> DEFINE E == compute_upleft_arrow(name, I, U)
             f == [c \in Attributes |-> tnorm(name, I[r][c], E[c])]
  <2>1. ASSUME NEW c \in Attributes
        PROVE  E[c] \in Grades /\ E[c] <= implication(name, I[r][c], U[r])
    <3> DEFINE h == [q \in Objects |-> implication(name, I[q][c], U[q])]
    <3>1. h \in [Objects -> Grades]
      BY LogicTypes DEF Contexts, ObjectSets
    <3>2. Inf(h) \in Grades /\ Inf(h) <= h[r]
      <4> HIDE DEF h
      <4> QED BY <3>1, InfSup
    <3> QED BY <3>2 DEF compute_upleft_arrow
  <2> HIDE DEF E
  <2>2. ASSUME NEW c \in Attributes
        PROVE  f[c] \in Grades /\ f[c] <= U[r]
    <3>1. /\ U[r] \in Grades /\ I[r][c] \in Grades
          /\ implication(name, I[r][c], U[r]) \in Grades
      BY LogicTypes DEF Contexts, ObjectSets
    <3>2. tnorm(name, I[r][c], implication(name, I[r][c], U[r])) <= U[r]
      BY <3>1, TnormLaws
    <3>3. f[c] <= tnorm(name, I[r][c], implication(name, I[r][c], U[r]))
      BY <2>1, <3>1, TnormLaws
    <3>4. f[c] \in Grades
          /\ tnorm(name, I[r][c], implication(name, I[r][c], U[r])) \in Grades
      BY <2>1, <3>1, LogicTypes
    <3> HIDE DEF f
    <3> QED BY <3>1, <3>2, <3>3, <3>4, KAssumption DEF Grades
  <2>3. U[r] \in Grades /\ f \in [Attributes -> Grades]
    BY <2>2 DEF ObjectSets
  <2>4. Sup(f) <= U[r]
    <3> HIDE DEF f
    <3> QED BY <2>2, <2>3, InfSup
  <2> QED BY <2>4 DEF compute_downright_arrow, E
<1> QED BY <1>1, <1>2 DEF Leq

-----------------------------------------------------------------------------
\* The first isotone pair.

\* compute_downleft_arrow and compute_upright_arrow preserve the order.
LEMMA BenevolentMonotone ==
  ASSUME NEW I \in Contexts, NEW name \in LogicNames, name # "Product"
  PROVE  /\ \A V, W \in AttrSets : Leq(V, W) =>
              \A r \in Objects : compute_downleft_arrow(name, I, V)[r]
                                   <= compute_downleft_arrow(name, I, W)[r]
         /\ \A U, X \in ObjectSets : (\A r \in Objects : U[r] <= X[r]) =>
              Leq(compute_upright_arrow(name, I, U),
                  compute_upright_arrow(name, I, X))
<1>1. ASSUME NEW V \in AttrSets, NEW W \in AttrSets, Leq(V, W), NEW r \in Objects
      PROVE  compute_downleft_arrow(name, I, V)[r]
               <= compute_downleft_arrow(name, I, W)[r]
  <2> DEFINE f == [c \in Attributes |-> implication(name, I[r][c], V[c])]
             g == [c \in Attributes |-> implication(name, I[r][c], W[c])]
  <2>1. f \in [Attributes -> Grades] /\ g \in [Attributes -> Grades]
    BY LogicTypes DEF Contexts, AttrSets
  <2>2. ASSUME NEW c \in Attributes PROVE f[c] <= g[c]
    BY <1>1, ImplicationLaws DEF Contexts, AttrSets, Leq
  <2>3. Inf(f) \in Grades /\ \A c \in Attributes : Inf(f) <= f[c]
    <3> HIDE DEF f
    <3> QED BY <2>1, InfSup
  <2>4. \A c \in Attributes : Inf(f) <= g[c]
    <3> HIDE DEF f, g
    <3> QED BY <2>1, <2>2, <2>3, KAssumption DEF Grades
  <2>5. Inf(f) <= Inf(g)
    <3> HIDE DEF f, g
    <3> QED BY <2>1, <2>3, <2>4, InfSup
  <2> QED BY <2>5 DEF compute_downleft_arrow
<1>2. ASSUME NEW U \in ObjectSets, NEW X \in ObjectSets,
             \A r \in Objects : U[r] <= X[r], NEW c \in Attributes
      PROVE  compute_upright_arrow(name, I, U)[c]
               <= compute_upright_arrow(name, I, X)[c]
  <2> DEFINE f == [r \in Objects |-> tnorm(name, U[r], I[r][c])]
             g == [r \in Objects |-> tnorm(name, X[r], I[r][c])]
  <2>1. f \in [Objects -> Grades] /\ g \in [Objects -> Grades]
    BY LogicTypes DEF Contexts, ObjectSets
  <2>2. ASSUME NEW r \in Objects PROVE f[r] <= g[r]
    <3>1. U[r] \in Grades /\ X[r] \in Grades /\ I[r][c] \in Grades /\ U[r] <= X[r]
      BY <1>2 DEF Contexts, ObjectSets
    <3>2. tnorm(name, I[r][c], U[r]) <= tnorm(name, I[r][c], X[r])
      BY <3>1, TnormLaws
    <3> QED BY <3>1, <3>2, TnormCommutes
  <2>3. Sup(g) \in Grades /\ \A r \in Objects : g[r] <= Sup(g)
    <3> HIDE DEF g
    <3> QED BY <2>1, InfSup
  <2>4. \A r \in Objects : f[r] <= Sup(g)
    <3> HIDE DEF f, g
    <3> QED BY <2>1, <2>2, <2>3, KAssumption DEF Grades
  <2>5. Sup(f) <= Sup(g)
    <3> HIDE DEF f, g
    <3> QED BY <2>1, <2>3, <2>4, InfSup
  <2> QED BY <2>5 DEF compute_upright_arrow
<1> QED BY <1>1, <1>2 DEF Leq

\* An attribute set is above its double derivative; an object set is below.
LEMMA BenevolentAdjoint ==
  ASSUME NEW I \in Contexts, NEW name \in LogicNames, name # "Product"
  PROVE  /\ \A V \in AttrSets :
              Leq(compute_upright_arrow(name, I,
                    compute_downleft_arrow(name, I, V)), V)
         /\ \A U \in ObjectSets : \A r \in Objects :
              U[r] <= compute_downleft_arrow(name, I,
                        compute_upright_arrow(name, I, U))[r]
<1>1. ASSUME NEW V \in AttrSets, NEW c \in Attributes
      PROVE  compute_upright_arrow(name, I,
               compute_downleft_arrow(name, I, V))[c] <= V[c]
  <2> DEFINE E == compute_downleft_arrow(name, I, V)
             f == [r \in Objects |-> tnorm(name, E[r], I[r][c])]
  <2>1. ASSUME NEW r \in Objects
        PROVE  E[r] \in Grades /\ E[r] <= implication(name, I[r][c], V[c])
    <3> DEFINE h == [d \in Attributes |-> implication(name, I[r][d], V[d])]
    <3>1. h \in [Attributes -> Grades]
      BY LogicTypes DEF Contexts, AttrSets
    <3>2. Inf(h) \in Grades /\ Inf(h) <= h[c]
      <4> HIDE DEF h
      <4> QED BY <3>1, InfSup
    <3> QED BY <3>2 DEF compute_downleft_arrow
  <2> HIDE DEF E
  <2>2. ASSUME NEW r \in Objects
        PROVE  f[r] \in Grades /\ f[r] <= V[c]
    <3>1. /\ V[c] \in Grades /\ I[r][c] \in Grades
          /\ implication(name, I[r][c], V[c]) \in Grades
      BY LogicTypes DEF Contexts, AttrSets
    <3>2. tnorm(name, I[r][c], implication(name, I[r][c], V[c])) <= V[c]
      BY <3>1, TnormLaws
    <3>3. tnorm(name, I[r][c], E[r])
            <= tnorm(name, I[r][c], implication(name, I[r][c], V[c]))
      BY <2>1, <3>1, TnormLaws
    <3>4. /\ tnorm(name, I[r][c], E[r]) \in Grades
          /\ tnorm(name, I[r][c], implication(name, I[r][c], V[c])) \in Grades
          /\ f[r] = tnorm(name, I[r][c], E[r])
      BY <2>1, <3>1, LogicTypes, TnormCommutes
    <3> HIDE DEF f
    <3> QED BY <3>1, <3>2, <3>3, <3>4, KAssumption DEF Grades
  <2>3. V[c] \in Grades /\ f \in [Objects -> Grades]
    BY <2>2 DEF AttrSets
  <2>4. Sup(f) <= V[c]
    <3> HIDE DEF f
    <3> QED BY <2>2, <2>3, InfSup
  <2> QED BY <2>4 DEF compute_upright_arrow, E
<1>2. ASSUME NEW U \in ObjectSets, NEW r \in Objects
      PROVE  U[r] <= compute_downleft_arrow(name, I,
                       compute_upright_arrow(name, I, U))[r]
  <2> DEFINE E == compute_upright_arrow(name, I, U)
             f == [c \in Attributes |-> implication(name, I[r][c], E[c])]
  <2>1. ASSUME NEW c \in Attributes
        PROVE  E[c] \in Grades /\ tnorm(name, U[r], I[r][c]) <= E[c]
    <3> DEFINE h == [q \in Objects |-> tnorm(name, U[q], I[q][c])]
    <3>1. h \in [Objects -> Grades]
      BY LogicTypes DEF Contexts, ObjectSets
    <3>2. Sup(h) \in Grades /\ h[r] <= Sup(h)
      <4> HIDE DEF h
      <4> QED BY <3>1, InfSup
    <3> QED BY <3>2 DEF compute_upright_arrow
  <2> HIDE DEF E
  <2>2. ASSUME NEW c \in Attributes
        PROVE  f[c] \in Grades /\ U[r] <= f[c]
    <3>1. U[r] \in Grades /\ I[r][c] \in Grades
      BY DEF Contexts, ObjectSets
    <3>2. /\ tnorm(name, I[r][c], U[r]) \in Grades
          /\ tnorm(name, I[r][c], U[r]) <= E[c]
      BY <2>1, <3>1, LogicTypes, TnormCommutes
    <3>3. U[r] <= implication(name, I[r][c], tnorm(name, I[r][c], U[r]))
      BY <3>1, TnormLaws
    <3>4. implication(name, I[r][c], tnorm(name, I[r][c], U[r])) <= f[c]
      BY <2>1, <3>1, <3>2, ImplicationLaws
    <3>5. f[c] \in Grades
          /\ implication(name, I[r][c], tnorm(name, I[r][c], U[r])) \in Grades
      BY <2>1, <3>1, <3>2, LogicTypes
    <3> HIDE DEF f
    <3> QED BY <3>1, <3>3, <3>4, <3>5, KAssumption DEF Grades
  <2>3. U[r] \in Grades /\ f \in [Attributes -> Grades]
    BY <2>2 DEF ObjectSets
  <2>4. U[r] <= Inf(f)
    <3> HIDE DEF f
    <3> QED BY <2>2, <2>3, InfSup
  <2> QED BY <2>4 DEF compute_downleft_arrow, E
<1> QED BY <1>1, <1>2 DEF Leq

-----------------------------------------------------------------------------
\* For the antitone and the second isotone connection, intent after extent is
\* a closure operator: extensive, monotone and idempotent.
THEOREM ClosureOperator ==
  ASSUME NEW I \in Contexts, NEW name \in LogicNames,
         NEW connection \in {"standard", "benevolent2"},
         Representable(connection, name)
  PROVE  LET cl(V) == compute_closure(connection, name, I, V)
         IN  \A V \in AttrSets :
               /\ cl(V) \in AttrSets
               /\ Leq(V, cl(V))
               /\ cl(cl(V)) = cl(V)
               /\ \A W \in AttrSets : Leq(V, W) => Leq(cl(V), cl(W))
<1> DEFINE cl(V) == compute_closure(connection, name, I, V)
           Ex(V) == extent_f(connection, name, I, V)
           In(U) == intent_f(connection, name, I, U)
<1>1. connection \in Connections
  BY DEF Connections
<1>2. /\ \A U \in ObjectSets : In(U) \in AttrSets
      /\ \A V \in AttrSets : Ex(V) \in ObjectSets
      /\ \A V \in AttrSets : cl(V) \in AttrSets
  BY <1>1, DerivationTypes
<1>3. \A V \in AttrSets : cl(V) = In(Ex(V))
  BY DEF compute_closure
<1>4. /\ \A V \in AttrSets : Leq(V, In(Ex(V)))
      /\ \A V, W \in AttrSets : Leq(V, W) => Leq(In(Ex(V)), In(Ex(W)))
      /\ \A U \in ObjectSets : Leq(In(Ex(In(U))), In(U))
  <2>1. CASE connection = "standard"
    <3>1. /\ \A V : Ex(V) = compute_extent(name, I, V)
          /\ \A U : In(U) = compute_intent(name, I, U)
      BY <2>1 DEF extent_f, intent_f
    <3> HIDE DEF Ex, In
    <3>2. \A V \in AttrSets : Leq(V, In(Ex(V)))
      BY <3>1, StandardExtensive
    <3>3. \A V, W \in AttrSets : Leq(V, W) => Leq(In(Ex(V)), In(Ex(W)))
      BY <1>2, <3>1, StandardAntitone
    <3>4. ASSUME NEW U \in ObjectSets PROVE Leq(In(Ex(In(U))), In(U))
      <4>1. \A r \in Objects : U[r] <= Ex(In(U))[r]
        BY <3>1, StandardExtensive
      <4> QED BY <1>2, <3>1, <4>1, StandardAntitone
    <3> QED BY <3>2, <3>3, <3>4
  <2>2. CASE connection = "benevolent2"
    <3>1. /\ \A V : Ex(V) = compute_downright_arrow(name, I, V)
          /\ \A U : In(U) = compute_upleft_arrow(name, I, U)
          /\ name # "Product"
      BY <2>2 DEF extent_f, intent_f, Representable
    <3> HIDE DEF Ex, In
    <3>2. \A V \in AttrSets : Leq(V, In(Ex(V)))
      BY <3>1, IsotoneAdjoint
    <3>3. \A V, W \in AttrSets : Leq(V, W) => Leq(In(Ex(V)), In(Ex(W)))
      BY <1>2, <3>1, IsotoneMonotone
    <3>4. ASSUME NEW U \in ObjectSets PROVE Leq(In(Ex(In(U))), In(U))
      <4>1. \A r \in Objects : Ex(In(U))[r] <= U[r]
        BY <3>1, IsotoneAdjoint
      <4> QED BY <1>2, <3>1, <4>1, IsotoneMonotone
    <3> QED BY <3>2, <3>3, <3>4
  <2> QED BY <2>1, <2>2
<1> HIDE DEF cl, Ex, In
<1>5. ASSUME NEW V \in AttrSets
      PROVE  /\ cl(V) \in AttrSets
             /\ Leq(V, cl(V))
             /\ cl(cl(V)) = cl(V)
             /\ \A W \in AttrSets : Leq(V, W) => Leq(cl(V), cl(W))
  <2>1. cl(V) \in AttrSets /\ cl(cl(V)) \in AttrSets
    BY <1>2
  <2>2. cl(V) = In(Ex(V)) /\ cl(cl(V)) = In(Ex(In(Ex(V))))
    BY <1>3, <2>1
  <2>3. Leq(cl(cl(V)), cl(V)) /\ Leq(cl(V), cl(cl(V)))
    BY <1>2, <1>3, <1>4, <2>1, <2>2
  <2>4. cl(cl(V)) = cl(V)
    BY <2>1, <2>3, LeqOrder
  <2> QED BY <1>3, <1>4, <2>1, <2>4
<1> QED BY <1>5 DEF cl

\* For the first isotone connection it is a kernel operator: it shrinks sets,
\* preserves the order and is idempotent.  NextClosure takes it for a closure.
THEOREM KernelOperator ==
  ASSUME NEW I \in Contexts, NEW name \in LogicNames,
         Representable("benevolent1", name)
  PROVE  LET cl(V) == compute_closure("benevolent1", name, I, V)
         IN  \A V \in AttrSets :
               /\ cl(V) \in AttrSets
               /\ Leq(cl(V), V)
               /\ cl(cl(V)) = cl(V)
               /\ \A W \in AttrSets : Leq(V, W) => Leq(cl(V), cl(W))
<1> DEFINE cl(V) == compute_closure("benevolent1", name, I, V)
           Ex(V) == extent_f("benevolent1", name, I, V)
           In(U) == intent_f("benevolent1", name, I, U)
<1>1. /\ \A U \in ObjectSets : In(U) \in AttrSets
      /\ \A V \in AttrSets : Ex(V) \in ObjectSets
      /\ \A V \in AttrSets : cl(V) \in AttrSets
  BY DerivationTypes DEF Connections
<1>2. \A V \in AttrSets : cl(V) = In(Ex(V))
  BY DEF compute_closure
<1>3. /\ \A V : Ex(V) = compute_downleft_arrow(name, I, V)
      /\ \A U : In(U) = compute_upright_arrow(name, I, U)
      /\ name # "Product"
  BY DEF extent_f, intent_f, Representable
<1> HIDE DEF cl, Ex, In
<1>4. \A V \in AttrSets : Leq(In(Ex(V)), V)
  BY <1>3, BenevolentAdjoint
<1>5. \A V, W \in AttrSets : Leq(V, W) => Leq(In(Ex(V)), In(Ex(W)))
  BY <1>1, <1>3, BenevolentMonotone
<1>6. ASSUME NEW U \in ObjectSets PROVE Leq(In(U), In(Ex(In(U))))
  <2>1. \A r \in Objects : U[r] <= Ex(In(U))[r]
    BY <1>3, BenevolentAdjoint
  <2> QED BY <1>1, <1>3, <2>1, BenevolentMonotone
<1>7. ASSUME NEW V \in AttrSets
      PROVE  /\ cl(V) \in AttrSets
             /\ Leq(cl(V), V)
             /\ cl(cl(V)) = cl(V)
             /\ \A W \in AttrSets : Leq(V, W) => Leq(cl(V), cl(W))
  <2>1. cl(V) \in AttrSets /\ cl(cl(V)) \in AttrSets
    BY <1>1
  <2>2. cl(V) = In(Ex(V)) /\ cl(cl(V)) = In(Ex(In(Ex(V))))
    BY <1>2, <2>1
  <2>3. Leq(cl(cl(V)), cl(V)) /\ Leq(cl(V), cl(cl(V)))
    BY <1>1, <1>2, <1>4, <1>6, <2>1, <2>2
  <2>4. cl(cl(V)) = cl(V)
    BY <2>1, <2>3, LeqOrder
  <2> QED BY <1>2, <1>4, <1>5, <2>1, <2>4
<1> QED BY <1>7 DEF cl

\* The set of all attributes is closed.
LEMMA FullSetClosed ==
  ASSUME NEW I \in Contexts, NEW name \in LogicNames,
         NEW connection \in {"standard", "benevolent2"},
         Representable(connection, name)
  PROVE  /\ FullSet \in AttrSets
         /\ Graded(I, FullSet)
         /\ Closed(connection, name, I, FullSet)
<1>1. FullSet \in AttrSets /\ \A c \in Attributes : FullSet[c] = K
  BY KAssumption DEF FullSet, AttrSets, Grades
<1>2. Graded(I, FullSet)
  BY <1>1, KAssumption DEF Graded, GradesSet, Grades
<1> DEFINE C == compute_closure(connection, name, I, FullSet)
<1>3. C \in AttrSets /\ Leq(FullSet, C)
  BY <1>1, ClosureOperator
<1>4. Leq(C, FullSet)
  <2> HIDE DEF C
  <2> QED BY <1>1, <1>3, KAssumption DEF Leq, AttrSets, Grades
<1>5. C = FullSet
  <2> HIDE DEF C
  <2> QED BY <1>1, <1>3, <1>4, LeqOrder
<1> QED BY <1>1, <1>2, <1>5 DEF Closed
-----------------------------------------------------------------------------
\* The steps of the searches of module LecticSearch.

\* The walk through the sorted degrees of the context.
LEMMA GradeSteps ==
  ASSUME NEW I \in Contexts
  PROVE  /\ GradesSet(I) \subseteq Grades /\ 0 \in GradesSet(I) /\ K \in GradesSet(I)
         /\ FirstGrade(I) \in GradesSet(I) \ {0}
         /\ \A h \in GradesSet(I) \ {0} : FirstGrade(I) <= h
         /\ \A g \in GradesSet(I) : g < K =>
              /\ NextGrade(I, g) \in GradesSet(I) \ {0}
              /\ g < NextGrade(I, g)
              /\ \A h \in GradesSet(I) : g < h => NextGrade(I, g) <= h
<1>1. GradesSet(I) \subseteq Grades /\ 0 \in GradesSet(I) /\ K \in GradesSet(I)
  BY KAssumption DEF GradesSet, Grades
<1>2. GradesSet(I) \ {0} \in SUBSET Nat /\ GradesSet(I) \ {0} # {}
  BY <1>1, KAssumption DEF Grades
<1>3. /\ FirstGrade(I) \in GradesSet(I) \ {0}
      /\ \A h \in GradesSet(I) \ {0} : FirstGrade(I) <= h
  BY <1>2, NatMin DEF FirstGrade
<1>4. ASSUME NEW g \in GradesSet(I), g < K
      PROVE  /\ NextGrade(I, g) \in GradesSet(I) \ {0}
             /\ g < NextGrade(I, g)
             /\ \A h \in GradesSet(I) : g < h => NextGrade(I, g) <= h
  <2> DEFINE S == {h \in GradesSet(I) : h > g}
  <2>1. S \in SUBSET Nat /\ S # {} /\ 0 \notin S
    BY <1>1, <1>4, KAssumption DEF Grades
  <2>2. Min(S) \in S /\ \A x \in S : Min(S) <= x
    <3> HIDE DEF S
    <3> QED BY <2>1, NatMin
  <2>3. NextGrade(I, g) = Min(S)
    BY DEF NextGrade
  <2> QED BY <1>1, <2>1, <2>2, <2>3, KAssumption DEF Grades
<1> QED BY <1>1, <1>3, <1>4

\* If B departs from A at i, where it has the degree g, then the sum of A with
\* i to the degree g is below B, and every set between them passes the test for
\* the next set.
LEMMA SumBelow ==
  ASSUME NEW A \in AttrSets, NEW B \in AttrSets, NEW i \in Attributes,
         LecticAt(A, B, i)
  PROVE  LET S == direct_sum(A, i, B[i])
         IN  /\ can_add(A, i, B[i])
             /\ S \in AttrSets
             /\ Leq(S, B)
             /\ \A C \in AttrSets :
                  Leq(S, C) /\ Leq(C, B) => is_set_preceding(A, C, i, B[i])
<1> DEFINE S == direct_sum(A, i, B[i])
<1>1. can_add(A, i, B[i])
  BY DEF LecticAt, can_add
<1>2. S \in AttrSets
  BY KAssumption DEF direct_sum, AttrSets, Grades
<1>3. /\ i \in Int /\ S[i] = B[i]
      /\ \A c \in Attributes :
           /\ c \in Int /\ A[c] \in Nat /\ B[c] \in Nat
           /\ S[c] = IF c < i THEN A[c] ELSE IF c = i THEN B[i] ELSE 0
  BY KAssumption, NAttrAssumption
     DEF AttrSets, Grades, Attributes, direct_sum
<1> HIDE DEF S
<1>4. Leq(S, B)
  BY <1>3 DEF LecticAt, Leq
<1>5. ASSUME NEW C \in AttrSets, Leq(S, C), Leq(C, B)
      PROVE  is_set_preceding(A, C, i, B[i])
  <2>1. \A c \in Attributes :
          S[c] <= C[c] /\ C[c] <= B[c] /\ C[c] \in Int /\ S[c] \in Int
    BY <1>2, <1>5, KAssumption DEF Leq, AttrSets, Grades
  <2>2. C[i] = B[i]
    BY <1>3, <2>1
  <2>3. ASSUME NEW c \in Attributes, c < i PROVE C[c] = A[c]
    BY <1>3, <2>1, <2>3 DEF LecticAt
  <2> QED BY <2>2, <2>3 DEF is_set_preceding, LecticAt
<1> QED BY <1>1, <1>2, <1>4, <1>5 DEF S

\* A set that passes the test comes after A, and before every set that departs
\* from A later in the search.
LEMMA PassedBy ==
  ASSUME NEW A \in AttrSets, NEW C \in AttrSets, NEW i \in Attributes, NEW g,
         is_set_preceding(A, C, i, g)
  PROVE  /\ LecticLess(A, C)
         /\ \A B \in AttrSets, d \in Attributes :
              LecticAt(A, B, d) /\ (d < i \/ (d = i /\ g < B[d]))
                => LecticLess(C, B)
<1>1. \A j \in Attributes : j \in Int
  BY NAttrAssumption DEF Attributes
<1>2. /\ C[i] = g /\ A[i] < C[i]
      /\ \A j \in Attributes : j < i => C[j] = A[j]
  BY DEF is_set_preceding
<1>3. LecticLess(A, C)
  BY <1>2 DEF LecticLess, LecticAt
<1>4. ASSUME NEW B \in AttrSets, NEW d \in Attributes, LecticAt(A, B, d),
             d < i \/ (d = i /\ g < B[d])
      PROVE  LecticLess(C, B)
  <2>1. LecticAt(C, B, d)
    BY <1>1, <1>2, <1>4 DEF LecticAt
  <2> QED BY <2>1 DEF LecticLess
<1> QED BY <1>3, <1>4

\* The loop increments leave no graded set behind when the try at hand is not
\* where it departs from A.
LEMMA AdvanceLeaves ==
  ASSUME NEW I \in Contexts, NEW A \in AttrSets, NEW B \in AttrSets,
         Graded(I, B), NEW i \in Attributes, NEW g \in GradesSet(I) \ {0},
         NEW d \in Attributes, LecticAt(A, B, d),
         d < i \/ (d = i /\ g <= B[d]),
         ~(d = i /\ B[d] = g)
  PROVE  IF g < K THEN d < i \/ (d = i /\ NextGrade(I, g) <= B[d])
         ELSE d < i - 1 \/ (d = i - 1 /\ FirstGrade(I) <= B[d])
<1>1. /\ A[d] \in Nat /\ A[d] < B[d] /\ B[d] \in GradesSet(I)
      /\ B[d] \in Nat /\ B[d] <= K /\ g \in Nat /\ K \in Nat
      /\ d \in Int /\ i \in Int
  BY GradeSteps, KAssumption, NAttrAssumption
     DEF AttrSets, Grades, Graded, LecticAt, Attributes
<1>2. B[d] \in GradesSet(I) \ {0}
  BY <1>1
<1>3. CASE g < K
  <2>1. g < B[d] => NextGrade(I, g) <= B[d]
    BY <1>1, <1>2, <1>3, GradeSteps
  <2> QED BY <1>1, <1>3, <2>1
<1>4. CASE ~(g < K)
  <2>1. FirstGrade(I) <= B[d] /\ d < i
    BY <1>1, <1>2, <1>4, GradeSteps
  <2> QED BY <1>1, <1>4, <2>1
<1> QED BY <1>3, <1>4
=============================================================================
