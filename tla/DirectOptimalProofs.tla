------------------------ MODULE DirectOptimalProofs -------------------------
(***************************************************************************)
(* Proofs about module DirectOptimal, for every chain of degrees, number   *)
(* of attributes and list of rules: the types are kept, every rule that    *)
(* any of the five methods derives follows from the rules given, and, but  *)
(* for the method priority, crisp rules lose nothing on the way, one pass  *)
(* over their result computes the closure, and the result is the canonical *)
(* direct basis.  Saturated systems of graded rules need one pass only as  *)
(* well, when all degrees occur in them.                                   *)
(***************************************************************************)
EXTENDS DirectOptimal, GaloisProofs

-----------------------------------------------------------------------------
\* The t-norms are commutative, associative, and adjoint to the residua.
LEMMA TnormAlgebra ==
  ASSUME NEW name \in LogicNames \ {"Product"},
         NEW x \in Grades, NEW y \in Grades, NEW z \in Grades
  PROVE  /\ tnorm(name, x, y) = tnorm(name, y, x)
         /\ tnorm(name, x, tnorm(name, y, z)) = tnorm(name, tnorm(name, x, y), z)
         /\ x <= implication(name, y, z) <=> tnorm(name, x, y) <= z
         /\ tnorm(name, x, 0) = 0
<1> USE KAssumption DEF Grades, implication, tnorm, tnorm_Godel
<1>1. CASE name = "Zadeh"
  BY <1>1 DEF implication_Zadeh
<1>2. CASE name = "Lukasiewicz"
  BY <1>2 DEF implication_Lukasiewicz, tnorm_Lukasiewicz
<1>3. CASE name = "Godel"
  BY <1>3 DEF implication_Godel
<1> QED BY <1>1, <1>2, <1>3 DEF LogicNames

\* Both arguments of a t-norm may grow.
LEMMA TnormMonotone ==
  ASSUME NEW name \in LogicNames \ {"Product"},
         NEW x \in Grades, NEW y \in Grades, NEW z \in Grades, y <= z
  PROVE  /\ tnorm(name, x, y) <= tnorm(name, x, z)
         /\ tnorm(name, y, x) <= tnorm(name, z, x)
<1>1. tnorm(name, x, y) <= tnorm(name, x, z)
  BY TnormLaws
<1>2. tnorm(name, x, y) = tnorm(name, y, x) /\ tnorm(name, x, z) = tnorm(name, z, x)
  BY TnormAlgebra
<1> QED BY <1>1, <1>2

\* The operations on fuzzy sets return fuzzy sets.
LEMMA OperationTypes ==
  ASSUME NEW A \in AttrSets, NEW B \in AttrSets, NEW alpha \in Grades,
         logic \in LogicNames \ {"Product"}
  PROVE  /\ set_union(A, B) \in AttrSets
         /\ \A D : set_setminus(A, D) \in AttrSets
         /\ otimes(alpha, A) \in AttrSets
<1>0. 0 \in Grades
  BY KAssumption DEF Grades
<1>1. \A c \in Attributes : A[c] \in Grades /\ B[c] \in Grades
  BY DEF AttrSets
<1>2. set_union(A, B) \in AttrSets
  BY <1>1 DEF set_union, AttrSets
<1>3. ASSUME NEW D PROVE set_setminus(A, D) \in AttrSets
  BY <1>0, <1>1 DEF set_setminus, AttrSets
<1>4. \A c \in Attributes : tnorm(logic, alpha, A[c]) \in Grades
  BY <1>1, LogicTypes
<1>5. otimes(alpha, A) \in AttrSets
  BY <1>4 DEF otimes, AttrSets
<1> QED BY <1>2, <1>3, <1>5

\* The degree of subsethood is a degree.
LEMMA SubsethoodType ==
  ASSUME NEW X \in AttrSets, NEW Y \in AttrSets, logic \in LogicNames \ {"Product"}
  PROVE  S(X, Y) \in Grades
<1>1. \A c \in Attributes : implication(logic, X[c], Y[c]) \in Grades
  <2>1. \A c \in Attributes : X[c] \in Grades /\ Y[c] \in Grades
    BY DEF AttrSets
  <2> QED BY <2>1, LogicTypes
<1>2. [c \in Attributes |-> implication(logic, X[c], Y[c])] \in [Attributes -> Grades]
  BY <1>1
<1> QED BY <1>2, InfSup DEF S

\* A degree is below S(X, Y) exactly when X taken to that degree is below Y.
LEMMA SubsethoodAdjoint ==
  ASSUME NEW X \in AttrSets, NEW Y \in AttrSets, NEW s \in Grades,
         logic \in LogicNames \ {"Product"}
  PROVE  s <= S(X, Y) <=> \A c \in Attributes : tnorm(logic, s, X[c]) <= Y[c]
<1> DEFINE f == [c \in Attributes |-> implication(logic, X[c], Y[c])]
<1>1. \A c \in Attributes : X[c] \in Grades /\ Y[c] \in Grades
  BY DEF AttrSets
<1>2. f \in [Attributes -> Grades]
  BY <1>1, LogicTypes
<1>3. S(X, Y) = Inf(f)
  BY DEF S
<1>4. /\ Inf(f) \in Grades
      /\ \A c \in Attributes : Inf(f) <= f[c]
      /\ (\A c \in Attributes : s <= f[c]) => s <= Inf(f)
  <2> HIDE DEF f
  <2> QED BY <1>2, InfSup
<1>5. s <= Inf(f) <=> \A c \in Attributes : s <= f[c]
  <2>1. \A c \in Attributes : f[c] \in Grades
    BY <1>2
  <2> HIDE DEF f
  <2> QED BY <1>4, <2>1, KAssumption DEF Grades
<1>6. \A c \in Attributes : s <= f[c] <=> tnorm(logic, s, X[c]) <= Y[c]
  <2>1. ASSUME NEW c \in Attributes PROVE s <= f[c] <=> tnorm(logic, s, X[c]) <= Y[c]
    <3>1. s <= implication(logic, X[c], Y[c]) <=> tnorm(logic, s, X[c]) <= Y[c]
      BY <1>1, TnormAlgebra
    <3> QED BY <3>1
  <2> QED BY <2>1
<1> HIDE DEF f
<1> QED BY <1>3, <1>5, <1>6

\* A rule is respected when every degree to which V has the premise is one to
\* which it has the conclusion.
LEMMA RespectsAll ==
  ASSUME NEW V \in AttrSets, NEW A \in AttrSets, NEW B \in AttrSets,
         logic \in LogicNames \ {"Product"}
  PROVE  Respects(V, A, B) <=>
           \A s \in Grades :
             (\A c \in Attributes : tnorm(logic, s, A[c]) <= V[c]) =>
               \A c \in Attributes : tnorm(logic, s, B[c]) <= V[c]
<1>1. S(A, V) \in Grades
  BY SubsethoodType
<1>2. \A c \in Attributes : A[c] \in Grades /\ B[c] \in Grades /\ V[c] \in Grades
  BY DEF AttrSets
<1>3. ASSUME Respects(V, A, B), NEW s \in Grades,
             \A c \in Attributes : tnorm(logic, s, A[c]) <= V[c],
             NEW c \in Attributes
      PROVE  tnorm(logic, s, B[c]) <= V[c]
  <2>1. s <= S(A, V)
    BY <1>3, SubsethoodAdjoint
  <2>2. tnorm(logic, s, B[c]) <= tnorm(logic, S(A, V), B[c])
    BY <1>1, <1>2, <2>1, TnormMonotone
  <2>3. tnorm(logic, S(A, V), B[c]) <= V[c]
    BY <1>3 DEF Respects
  <2>4. /\ tnorm(logic, s, B[c]) \in Grades
        /\ tnorm(logic, S(A, V), B[c]) \in Grades
    BY <1>1, <1>2, LogicTypes
  <2> QED BY <1>2, <2>2, <2>3, <2>4, KAssumption DEF Grades
<1>4. ASSUME \A s \in Grades :
               (\A c \in Attributes : tnorm(logic, s, A[c]) <= V[c]) =>
                 \A c \in Attributes : tnorm(logic, s, B[c]) <= V[c]
      PROVE  Respects(V, A, B)
  <2>1. S(A, V) <= S(A, V)
    BY <1>1, KAssumption DEF Grades
  <2>2. \A c \in Attributes : tnorm(logic, S(A, V), A[c]) <= V[c]
    BY <1>1, <2>1, SubsethoodAdjoint
  <2> QED BY <1>1, <1>4, <2>2 DEF Respects
<1> QED BY <1>3, <1>4
-----------------------------------------------------------------------------
\* What it takes for a rule to follow from the rules given, as a predicate of
\* the columns and the logic.
Entails(cols, name, A, B) ==
  LET degree(X, Y) == Inf([c \in Attributes |-> implication(name, X[c], Y[c])])
      respects(V, X, Y) == \A c \in Attributes : tnorm(name, degree(X, V), Y[c]) <= V[c]
  IN  \A V \in AttrSets :
        (\A i \in DOMAIN cols : respects(V, cols[i].lhs, cols[i].rhs)) => respects(V, A, B)

\* A -> B is a rule between fuzzy sets and follows from the rules given.
Good(cols, name, A, B) == A \in AttrSets /\ B \in AttrSets /\ Entails(cols, name, A, B)

GoodRules(cols, name, rules) == \A A \in DOMAIN rules : Good(cols, name, A, rules[A])

LEMMA EntailsModel ==
  ASSUME NEW A, NEW B
  PROVE  Entails(columns, logic, A, B) <=> \A V \in AttrSets : Model(V) => Respects(V, A, B)
BY DEF Entails, Model, Respects, S

\* A rule that concludes less than another one follows from it.
LEMMA GoodWeaker ==
  ASSUME NEW A, NEW B, Good(columns, logic, A, B), NEW C \in AttrSets, Leq(C, B),
         logic \in LogicNames \ {"Product"}
  PROVE  Good(columns, logic, A, C)
<1>1. A \in AttrSets /\ B \in AttrSets
  BY DEF Good
<1>2. SUFFICES ASSUME NEW V \in AttrSets, Model(V), NEW c \in Attributes
               PROVE  tnorm(logic, S(A, V), C[c]) <= V[c]
  BY <1>1, EntailsModel DEF Good, Respects
<1>3. tnorm(logic, S(A, V), B[c]) <= V[c]
  BY <1>2, EntailsModel DEF Good, Respects
<1>4. S(A, V) \in Grades
  BY <1>1, SubsethoodType
<1>5. B[c] \in Grades /\ C[c] \in Grades /\ V[c] \in Grades /\ C[c] <= B[c]
  BY <1>1 DEF AttrSets, Leq
<1>6. tnorm(logic, S(A, V), C[c]) <= tnorm(logic, S(A, V), B[c])
  BY <1>4, <1>5, TnormMonotone
<1>7. tnorm(logic, S(A, V), C[c]) \in Grades /\ tnorm(logic, S(A, V), B[c]) \in Grades
  BY <1>4, <1>5, LogicTypes
<1> QED BY <1>3, <1>5, <1>6, <1>7, KAssumption DEF Grades

\* Dropping elements makes a set smaller.
LEMMA SetminusBelow ==
  ASSUME NEW A \in AttrSets, NEW D
  PROVE  Leq(set_setminus(A, D), A)
<1>1. \A c \in Attributes : A[c] \in Grades
  BY DEF AttrSets
<1> QED BY <1>1, KAssumption DEF Leq, set_setminus, Grades

\* A reduced conclusion is still one.
LEMMA GoodReduced ==
  ASSUME NEW A, NEW B, Good(columns, logic, A, B), NEW D,
         logic \in LogicNames \ {"Product"}
  PROVE  Good(columns, logic, A, set_setminus(B, D))
<1>1. B \in AttrSets
  BY DEF Good
<1>2. set_setminus(B, D) \in AttrSets
  <2>1. K \in Grades
    BY KAssumption DEF Grades
  <2> QED BY <1>1, <2>1, OperationTypes
<1>3. Leq(set_setminus(B, D), B)
  BY <1>1, SetminusBelow
<1> QED BY <1>2, <1>3, GoodWeaker

\* Two conclusions of a premise can be merged.
LEMMA GoodUnion ==
  ASSUME NEW A, NEW B, NEW C, Good(columns, logic, A, B), Good(columns, logic, A, C),
         logic \in LogicNames \ {"Product"}
  PROVE  Good(columns, logic, A, set_union(B, C))
<1>1. A \in AttrSets /\ B \in AttrSets /\ C \in AttrSets
  BY DEF Good
<1>2. set_union(B, C) \in AttrSets
  <2>1. K \in Grades
    BY KAssumption DEF Grades
  <2> QED BY <1>1, <2>1, OperationTypes
<1>3. \A V \in AttrSets : Model(V) => Respects(V, A, B) /\ Respects(V, A, C)
  BY EntailsModel DEF Good
<1>4. \A c \in Attributes : set_union(B, C)[c] \in {B[c], C[c]}
  BY DEF set_union
<1>5. \A V \in AttrSets : Model(V) => Respects(V, A, set_union(B, C))
  BY <1>3, <1>4 DEF Respects
<1> QED BY <1>1, <1>2, <1>5, EntailsModel DEF Good

\* To respect a rule to the degree t of its premise, in terms of products.
LEMMA RespectsProduct ==
  ASSUME NEW V \in AttrSets, NEW A \in AttrSets, NEW B \in AttrSets,
         NEW s \in Grades, NEW t \in Grades, Respects(V, A, B),
         logic \in LogicNames \ {"Product"},
         \A c \in Attributes : tnorm(logic, s, otimes(t, A)[c]) <= V[c]
  PROVE  \A c \in Attributes : tnorm(logic, s, otimes(t, B)[c]) <= V[c]
<1>1. \A c \in Attributes : A[c] \in Grades /\ B[c] \in Grades
  BY DEF AttrSets
<1>2. \A c \in Attributes :
        /\ tnorm(logic, s, otimes(t, A)[c]) = tnorm(logic, tnorm(logic, s, t), A[c])
        /\ tnorm(logic, s, otimes(t, B)[c]) = tnorm(logic, tnorm(logic, s, t), B[c])
  BY <1>1, TnormAlgebra DEF otimes
<1>3. tnorm(logic, s, t) \in Grades
  BY LogicTypes
<1>4. \A c \in Attributes : tnorm(logic, tnorm(logic, s, t), A[c]) <= V[c]
  BY <1>2
<1>5. \A c \in Attributes : tnorm(logic, tnorm(logic, s, t), B[c]) <= V[c]
  BY <1>3, <1>4, RespectsAll
<1> QED BY <1>2, <1>5

\* A candidate follows from its parents.
LEMMA GoodCandidate ==
  ASSUME NEW alpha \in Grades, NEW beta \in Grades, NEW A, NEW B, NEW C, NEW D,
         Good(columns, logic, A, B), Good(columns, logic, C, D),
         logic \in LogicNames \ {"Product"}
  PROVE  LET d == Candidate(alpha, beta, A, B, C, D)
         IN  Good(columns, logic, d.lhs, d.rhs)
<1> DEFINE aA == otimes(alpha, A)
           aB == otimes(alpha, B)
           bC == otimes(beta, C)
           bD == otimes(beta, D)
           H == set_setminus(bD, aA)
           G == set_union(aA, set_setminus(bC, aB))
<1>1. A \in AttrSets /\ B \in AttrSets /\ C \in AttrSets /\ D \in AttrSets
  BY DEF Good
<1>2. aA \in AttrSets /\ aB \in AttrSets /\ bC \in AttrSets /\ bD \in AttrSets
  BY <1>1, OperationTypes
<1>3. /\ H \in AttrSets /\ G \in AttrSets
      /\ Leq(H, bD)
  <2> HIDE DEF aA, aB, bC, bD
  <2>1. H \in AttrSets /\ set_setminus(bC, aB) \in AttrSets
    BY <1>2, OperationTypes
  <2>2. G \in AttrSets
    BY <1>2, <2>1, OperationTypes
  <2> QED BY <1>2, <2>1, <2>2, SetminusBelow
<1>4. ASSUME NEW V \in AttrSets, Model(V) PROVE Respects(V, G, bD)
  <2>1. Respects(V, A, B) /\ Respects(V, C, D)
    BY <1>1, <1>4, EntailsModel DEF Good
  <2>2. SUFFICES ASSUME NEW s \in Grades,
                        \A c \in Attributes : tnorm(logic, s, G[c]) <= V[c]
                 PROVE  \A c \in Attributes : tnorm(logic, s, bD[c]) <= V[c]
    <3> HIDE DEF G, bD
    <3> QED BY <1>2, <1>3, RespectsAll
  <2>3. \A c \in Attributes : /\ aA[c] \in Grades /\ aB[c] \in Grades
                              /\ bC[c] \in Grades /\ G[c] \in Grades /\ V[c] \in Grades
    <3> HIDE DEF aA, aB, bC, G
    <3> QED BY <1>2, <1>3 DEF AttrSets
  <2>4. \A c \in Attributes : /\ tnorm(logic, s, aA[c]) \in Grades
                              /\ tnorm(logic, s, aB[c]) \in Grades
                              /\ tnorm(logic, s, bC[c]) \in Grades
                              /\ tnorm(logic, s, G[c]) \in Grades
    <3> HIDE DEF aA, aB, bC, G
    <3> QED BY <2>3, LogicTypes
  <2>5. \A c \in Attributes : /\ aA[c] <= G[c]
                              /\ bC[c] <= aB[c] \/ bC[c] <= G[c]
    <3> HIDE DEF aA, aB, bC
    <3> QED BY <2>3, KAssumption DEF G, set_union, set_setminus, Grades
  <2>6. \A c \in Attributes : tnorm(logic, s, aA[c]) <= V[c]
    <3>1. \A c \in Attributes : tnorm(logic, s, aA[c]) <= tnorm(logic, s, G[c])
      <4> HIDE DEF aA, G
      <4> QED BY <2>3, <2>5, TnormMonotone
    <3> HIDE DEF aA, G
    <3> QED BY <2>2, <2>3, <2>4, <3>1, KAssumption DEF Grades
  <2>7. \A c \in Attributes : tnorm(logic, s, aB[c]) <= V[c]
    BY <1>1, <2>1, <2>6, RespectsProduct
  <2>8. \A c \in Attributes : tnorm(logic, s, bC[c]) <= V[c]
    <3> SUFFICES ASSUME NEW c \in Attributes PROVE tnorm(logic, s, bC[c]) <= V[c]
      OBVIOUS
    <3> HIDE DEF aA, aB, bC, G
    <3>1. CASE bC[c] <= aB[c]
      <4>1. tnorm(logic, s, bC[c]) <= tnorm(logic, s, aB[c])
        BY <2>3, <3>1, TnormMonotone
      <4> QED BY <2>3, <2>4, <2>7, <4>1, KAssumption DEF Grades
    <3>2. CASE bC[c] <= G[c]
      <4>1. tnorm(logic, s, bC[c]) <= tnorm(logic, s, G[c])
        BY <2>3, <3>2, TnormMonotone
      <4> QED BY <2>2, <2>3, <2>4, <4>1, KAssumption DEF Grades
    <3> QED BY <2>5, <3>1, <3>2
  <2> QED BY <1>1, <2>1, <2>8, RespectsProduct
<1>5. Good(columns, logic, G, bD)
  <2> HIDE DEF G, bD
  <2> QED BY <1>2, <1>3, <1>4, EntailsModel DEF Good
<1>6. Good(columns, logic, G, H)
  <2> HIDE DEF G, bD, H
  <2> QED BY <1>3, <1>5, GoodWeaker
<1>7. \A X, Y : Good(columns, logic, G, set_setminus(set_setminus(H, X), Y))
  <2> TAKE X, Y
  <2> HIDE DEF G, H
  <2>1. Good(columns, logic, G, set_setminus(H, X))
    BY <1>6, GoodReduced
  <2> QED BY <2>1, GoodReduced
<1>8. LET d == Candidate(alpha, beta, A, B, C, D)
      IN  d.lhs = G /\ (d.rhs = H \/ \E X, Y : d.rhs = set_setminus(set_setminus(H, X), Y))
  BY DEF Candidate
<1> HIDE DEF G, H
<1> QED BY <1>6, <1>7, <1>8

-----------------------------------------------------------------------------
\* The degrees that are tried are degrees.
LEMMA LType ==
  ASSUME columns \in Seq(Rules)
  PROVE  L \subseteq Grades
<1>1. 0 \in Grades /\ K \in Grades
  BY KAssumption DEF Grades
<1>2. ASSUME NEW i \in DOMAIN columns, NEW c \in Attributes
      PROVE  columns[i].lhs[c] \in Grades /\ columns[i].rhs[c] \in Grades
  <2>1. columns[i] \in Rules
    BY <1>2
  <2> QED BY <2>1 DEF Rules, AttrSets
<1>3. \A l \in L :
        \/ l \in {0, K}
        \/ \E i \in DOMAIN columns, c \in Attributes :
             l = columns[i].lhs[c] \/ l = columns[i].rhs[c]
  BY DEF L
<1> QED BY <1>1, <1>2, <1>3

\* What add_derived_internal derives follows from the parents.
LEMMA GoodDerived ==
  ASSUME NEW A, NEW B, NEW C, NEW D,
         Good(columns, logic, A, B), Good(columns, logic, C, D),
         columns \in Seq(Rules), logic \in LogicNames \ {"Product"}
  PROVE  \A d \in add_derived(A, B, C, D) :
           /\ d.degrees \in Grades \X Grades
           /\ Good(columns, logic, d.rule.lhs, d.rule.rhs)
           /\ d.rule \in Rules
<1> SUFFICES ASSUME NEW d \in add_derived(A, B, C, D)
             PROVE  /\ d.degrees \in Grades \X Grades
                    /\ Good(columns, logic, d.rule.lhs, d.rule.rhs)
                    /\ d.rule \in Rules
  OBVIOUS
<1>1. PICK p \in L \X L : d = [degrees |-> p, rule |-> Candidate(p[1], p[2], A, B, C, D)]
  BY DEF add_derived
<1>2. p[1] \in Grades /\ p[2] \in Grades /\ p \in Grades \X Grades
  BY LType
<1>3. Good(columns, logic, d.rule.lhs, d.rule.rhs)
  BY <1>1, <1>2, GoodCandidate
<1>4. d.rule = [lhs |-> d.rule.lhs, rhs |-> d.rule.rhs]
  BY <1>1 DEF Candidate
<1>5. d.rule \in Rules
  BY <1>3, <1>4 DEF Rules, Good
<1> QED BY <1>1, <1>2, <1>3, <1>5

\* A system that the derived rules are merged into follows from the rules given.
LEMMA GoodMerged ==
  ASSUME NEW rules, NEW new, GoodRules(columns, logic, rules),
         \A r \in new : Good(columns, logic, r.lhs, r.rhs),
         logic \in LogicNames \ {"Product"}
  PROVE  GoodRules(columns, logic, Merged(rules, new))
<1> SUFFICES ASSUME NEW G \in DOMAIN Merged(rules, new)
             PROVE  Good(columns, logic, G, Merged(rules, new)[G])
  BY DEF GoodRules
<1> DEFINE T(c) == {IF G \in DOMAIN rules THEN rules[G][c] ELSE 0}
                     \cup {r.rhs[c] : r \in {x \in new : x.lhs = G}}
           M == [c \in Attributes |-> Max(T(c))]
<1>1. G \in DOMAIN rules \/ \E r \in new : r.lhs = G
  BY DEF Merged
<1>2. Merged(rules, new)[G] = M
  BY DEF Merged
<1>3. G \in AttrSets
  BY <1>1 DEF GoodRules, Good
<1>4. /\ G \in DOMAIN rules => Good(columns, logic, G, rules[G])
      /\ \A r \in new : r.lhs = G => Good(columns, logic, G, r.rhs)
  BY DEF GoodRules
<1>5. ASSUME NEW c \in Attributes, NEW t \in T(c)
      PROVE  \/ t = 0
             \/ \E B : t = B[c] /\ Good(columns, logic, G, B)
  BY <1>4, <1>5
<1>6. ASSUME NEW B, Good(columns, logic, G, B), NEW c \in Attributes PROVE B[c] \in Grades
  BY <1>6 DEF Good, AttrSets
<1>7. \A c \in Attributes : T(c) \subseteq Grades
  <2>1. 0 \in Grades
    BY KAssumption DEF Grades
  <2> HIDE DEF T
  <2> QED BY <1>5, <1>6, <2>1
<1>8. \A c \in Attributes : M[c] \in T(c)
  <2> SUFFICES ASSUME NEW c \in Attributes PROVE Max(T(c)) \in T(c)
    OBVIOUS
  <2>1. T(c) # {}
    OBVIOUS
  <2>2. T(c) \in SUBSET (0 .. K) /\ K \in Nat
    <3> HIDE DEF T
    <3> QED BY <1>7, KAssumption DEF Grades
  <2> HIDE DEF T
  <2> QED BY <2>1, <2>2, NatMax
<1>9. M \in AttrSets
  <2>1. \A c \in Attributes : Max(T(c)) \in Grades
    <3> HIDE DEF T
    <3> QED BY <1>7, <1>8
  <2> HIDE DEF T
  <2> QED BY <2>1 DEF AttrSets
<1>10. ASSUME NEW V \in AttrSets, Model(V), NEW c \in Attributes
       PROVE  tnorm(logic, S(G, V), M[c]) <= V[c]
  <2>1. S(G, V) \in Grades
    BY <1>3, SubsethoodType
  <2>2. V[c] \in Grades /\ 0 \in Grades
    BY KAssumption DEF AttrSets, Grades
  <2>3. CASE M[c] = 0
    <3>1. tnorm(logic, S(G, V), 0) = 0
      BY <2>1, <2>2, TnormAlgebra
    <3> HIDE DEF M
    <3> QED BY <2>2, <2>3, <3>1, KAssumption DEF Grades
  <2>4. ASSUME NEW B, M[c] = B[c], Good(columns, logic, G, B)
        PROVE  tnorm(logic, S(G, V), M[c]) <= V[c]
    <3>1. Respects(V, G, B)
      BY <1>10, <2>4, EntailsModel DEF Good
    <3> HIDE DEF M
    <3> QED BY <2>4, <3>1 DEF Respects
  <2>5. M[c] = 0 \/ \E B : M[c] = B[c] /\ Good(columns, logic, G, B)
    <3> HIDE DEF M, T
    <3> QED BY <1>5, <1>8
  <2> QED BY <2>3, <2>4, <2>5
<1>11. Entails(columns, logic, G, M)
  <2> HIDE DEF M
  <2> QED BY <1>10, EntailsModel DEF Respects
<1> HIDE DEF M
<1> QED BY <1>2, <1>3, <1>9, <1>11 DEF Good

\* The system read from the columns consists of some of them.
LEMMA SparseColumn ==
  ASSUME columns \in Seq(Rules), NEW A \in DOMAIN Sparse_to_Sigma(columns)
  PROVE  \E i \in DOMAIN columns :
           columns[i].lhs = A /\ Sparse_to_Sigma(columns)[A] = columns[i].rhs
<1> DEFINE used == {i \in DOMAIN columns : columns[i].rhs # EmptySet}
           Last(i) == /\ i \in used
                      /\ columns[i].lhs = A
                      /\ \A j \in used : columns[j].lhs = A => j <= i
<1>1. PICK k \in used : columns[k].lhs = A
  BY DEF Sparse_to_Sigma
<1>2. \E i : Last(i)
  <2> DEFINE T == {i \in used : columns[i].lhs = A}
  <2>1. T \in SUBSET (0 .. Len(columns)) /\ Len(columns) \in Nat /\ T # {}
    BY <1>1
  <2> DEFINE m == Max(T)
  <2>2. m \in T /\ \A j \in T : j <= m
    <3> HIDE DEF T
    <3> QED BY <2>1, NatMax
  <2> HIDE DEF m
  <2>3. Last(m)
    BY <2>2
  <2> QED BY <2>3
<1> DEFINE i0 == CHOOSE i \in used :
                   /\ columns[i].lhs = A
                   /\ \A j \in used : columns[j].lhs = A => j <= i
<1>3. Last(i0)
  BY <1>2
<1>4. Sparse_to_Sigma(columns)[A] = columns[i0].rhs
  BY DEF Sparse_to_Sigma
<1> HIDE DEF i0
<1> QED BY <1>3, <1>4

LEMMA GoodSparse ==
  ASSUME columns \in Seq(Rules)
  PROVE  GoodRules(columns, logic, Sparse_to_Sigma(columns))
<1> SUFFICES ASSUME NEW A \in DOMAIN Sparse_to_Sigma(columns)
             PROVE  Good(columns, logic, A, Sparse_to_Sigma(columns)[A])
  BY DEF GoodRules
<1>1. PICK i \in DOMAIN columns :
        columns[i].lhs = A /\ Sparse_to_Sigma(columns)[A] = columns[i].rhs
  BY SparseColumn
<1>2. columns[i] \in Rules
  OBVIOUS
<1>3. \A V \in AttrSets : Model(V) => Respects(V, A, columns[i].rhs)
  BY <1>1 DEF Model
<1>4. A \in AttrSets /\ columns[i].rhs \in AttrSets
  BY <1>1, <1>2 DEF Rules
<1> QED BY <1>1, <1>3, <1>4, EntailsModel DEF Good

\* Rules are added to a system, erased and pruned.
LEMMA GoodChanges ==
  ASSUME NEW rules, GoodRules(columns, logic, rules), logic \in LogicNames \ {"Product"}
  PROVE  /\ \A A, B : Good(columns, logic, A, B)
                        => GoodRules(columns, logic, With(rules, A, B))
         /\ \A A : GoodRules(columns, logic, Without(rules, A))
         /\ GoodRules(columns, logic, Pruned(rules))
<1>1. ASSUME NEW A, NEW B, Good(columns, logic, A, B)
      PROVE  GoodRules(columns, logic, With(rules, A, B))
  BY <1>1 DEF GoodRules, With
<1>2. ASSUME NEW A PROVE GoodRules(columns, logic, Without(rules, A))
  BY DEF GoodRules, Without
<1>3. ASSUME NEW A \in DOMAIN Pruned(rules)
      PROVE  Good(columns, logic, A, Pruned(rules)[A])
  <2>1. A \in DOMAIN rules /\ Pruned(rules)[A] = Reduced(A, rules[A], rules)
    BY DEF Pruned
  <2>2. Good(columns, logic, A, Reduced(A, rules[A], rules))
    <3>1. Good(columns, logic, A, rules[A])
      BY <2>1 DEF GoodRules
    <3> QED BY <3>1, GoodReduced DEF Reduced
  <2> QED BY <2>1, <2>2
<1>4. GoodRules(columns, logic, Pruned(rules))
  BY <1>3 DEF GoodRules
<1> QED BY <1>1, <1>2, <1>4

\* The entries of the worklist are typed, and their rules follow.
GoodEntries(cols, name, queue) ==
  queue \subseteq Entries /\ \A e \in queue : Good(cols, name, e.rule.lhs, e.rule.rhs)

\* What a changed rule sends to the worklist follows from the rules given.
LEMMA GoodPropagated ==
  ASSUME NEW A, NEW B, NEW news, NEW others,
         Good(columns, logic, A, B), GoodRules(columns, logic, others),
         columns \in Seq(Rules), logic \in LogicNames \ {"Product"}, iterations \in Nat
  PROVE  GoodEntries(columns, logic, Propagated(A, B, news, others))
<1> SUFFICES ASSUME NEW e \in Propagated(A, B, news, others)
             PROVE  e \in Entries /\ Good(columns, logic, e.rule.lhs, e.rule.rhs)
  BY DEF GoodEntries
<1> DEFINE Entry(C, place, rule) ==
             [turn |-> iterations + 1, of |-> C, place |-> place, rule |-> rule]
<1>1. \/ \E C \in DOMAIN others : e = Entry(C, 0, [lhs |-> C, rhs |-> others[C]])
      \/ \E C \in DOMAIN others : \E d \in add_derived(A, B, C, others[C]) :
           e = Entry(C, Place(0, d.degrees), d.rule)
      \/ \E C \in DOMAIN others : \E d \in add_derived(C, others[C], A, B) :
           e = Entry(C, Place(1, d.degrees), d.rule)
  BY DEF Propagated
<1>2. \A C \in DOMAIN others : C \in AttrSets /\ Good(columns, logic, C, others[C])
  BY DEF GoodRules, Good
<1>3. \A call \in {0, 1}, p \in Grades \X Grades : Place(call, p) \in Nat
  <2>1. \A call \in {0, 1}, p \in Grades \X Grades :
          call * (K + 1) \in Nat /\ p[1] \in Nat /\ p[2] \in Nat
    BY KAssumption DEF Grades
  <2>2. \A m, n \in Nat : (m + n) * (K + 1) \in Nat
    BY KAssumption
  <2>3. \A call \in {0, 1}, p \in Grades \X Grades :
          (call * (K + 1) + p[1]) * (K + 1) \in Nat
    BY <2>1, <2>2
  <2> QED BY <2>1, <2>3 DEF Place
<1>4. \A C \in AttrSets, place \in Nat, rule \in Rules : Entry(C, place, rule) \in Entries
  BY DEF Entries
<1>5. CASE \E C \in DOMAIN others : e = Entry(C, 0, [lhs |-> C, rhs |-> others[C]])
  <2>1. PICK C \in DOMAIN others : e = Entry(C, 0, [lhs |-> C, rhs |-> others[C]])
    BY <1>5
  <2>2. [lhs |-> C, rhs |-> others[C]] \in Rules
    BY <1>2 DEF Good, Rules
  <2>3. e.rule = [lhs |-> C, rhs |-> others[C]]
    BY <2>1
  <2> HIDE DEF Entry
  <2> QED BY <1>2, <1>4, <2>1, <2>2, <2>3
<1>6. CASE \E C \in DOMAIN others : \E d \in add_derived(A, B, C, others[C]) :
             e = Entry(C, Place(0, d.degrees), d.rule)
  <2>1. PICK C \in DOMAIN others : \E d \in add_derived(A, B, C, others[C]) :
          e = Entry(C, Place(0, d.degrees), d.rule)
    BY <1>6
  <2>2. PICK d \in add_derived(A, B, C, others[C]) : e = Entry(C, Place(0, d.degrees), d.rule)
    BY <2>1
  <2>3. /\ d.degrees \in Grades \X Grades
        /\ Good(columns, logic, d.rule.lhs, d.rule.rhs)
        /\ d.rule \in Rules
    BY <1>2, GoodDerived
  <2>4. e.rule = d.rule
    BY <2>2
  <2> HIDE DEF Entry
  <2> QED BY <1>2, <1>3, <1>4, <2>2, <2>3, <2>4
<1>7. CASE \E C \in DOMAIN others : \E d \in add_derived(C, others[C], A, B) :
             e = Entry(C, Place(1, d.degrees), d.rule)
  <2>1. PICK C \in DOMAIN others : \E d \in add_derived(C, others[C], A, B) :
          e = Entry(C, Place(1, d.degrees), d.rule)
    BY <1>7
  <2>2. PICK d \in add_derived(C, others[C], A, B) : e = Entry(C, Place(1, d.degrees), d.rule)
    BY <2>1
  <2>3. /\ d.degrees \in Grades \X Grades
        /\ Good(columns, logic, d.rule.lhs, d.rule.rhs)
        /\ d.rule \in Rules
    BY <1>2, GoodDerived
  <2>4. e.rule = d.rule
    BY <2>2
  <2> HIDE DEF Entry
  <2> QED BY <1>2, <1>3, <1>4, <2>2, <2>3, <2>4
<1> QED BY <1>1, <1>5, <1>6, <1>7

\* What the pairs of a system derive follows from the rules given.
LEMMA GoodPairs ==
  ASSUME NEW pairs, pairs \subseteq Premises \X Premises,
         GoodRules(columns, logic, sigma),
         columns \in Seq(Rules), logic \in LogicNames \ {"Product"}
  PROVE  GoodRules(columns, logic, Merged(sigma, Derived(pairs)))
<1>1. ASSUME NEW r \in Derived(pairs) PROVE Good(columns, logic, r.lhs, r.rhs)
  <2>1. PICK p \in pairs : \E d \in add_derived(p[1], sigma[p[1]], p[2], sigma[p[2]]) : r = d.rule
    BY DEF Derived
  <2>2. PICK d \in add_derived(p[1], sigma[p[1]], p[2], sigma[p[2]]) : r = d.rule
    BY <2>1
  <2>3. p[1] \in DOMAIN sigma /\ p[2] \in DOMAIN sigma
    BY DEF Premises
  <2>4. Good(columns, logic, p[1], sigma[p[1]]) /\ Good(columns, logic, p[2], sigma[p[2]])
    BY <2>3 DEF GoodRules
  <2> QED BY <2>2, <2>4, GoodDerived
<1> QED BY <1>1, GoodMerged

-----------------------------------------------------------------------------
\* The inductive invariant.  Types alone are not inductive: that a conclusion
\* stays a fuzzy set and that it follows from the rules given are kept together,
\* and a pass over unprocessed pairs needs them to be pairs of the system.
IInv ==
  /\ columns \in Seq(Rules)
  /\ logic \in LogicNames \ {"Product"}
  /\ method \in Methods
  /\ pc \in {"read", "saturate", "prune", "monotonic", "priority", "done"}
  /\ GoodRules(columns, logic, sigma)
  /\ GoodEntries(columns, logic, W)
  /\ unprocessed \subseteq Premises \X Premises
  /\ unprocessed # {} => pc = "saturate" /\ method # "do_sp"
  /\ redundant \subseteq AttrSets
  /\ iterations \in Nat

LEMMA InitInvariant == Init => IInv
<1> SUFFICES ASSUME Init PROVE IInv
  OBVIOUS
<1>1. /\ columns \in Seq(Rules)
      /\ logic \in LogicNames \ {"Product"}
  BY InputAssumption DEF Init
<1>2. GoodRules(columns, logic, sigma)
  BY DEF Init, GoodRules
<1>3. GoodEntries(columns, logic, W)
  BY DEF Init, GoodEntries
<1> QED BY <1>1, <1>2, <1>3 DEF Init, IInv

LEMMA ReadInvariant == IInv /\ Read => IInv'
<1> SUFFICES ASSUME IInv, Read PROVE IInv'
  OBVIOUS
<1> DEFINE s == Sparse_to_Sigma(columns)
<1>1. GoodRules(columns, logic, s)
  BY GoodSparse DEF IInv
<1>2. UNCHANGED <<columns, logic, method, redundant, iterations>>
  BY DEF Read, inputs
<1>3. CASE method \in {"monotonic", "priority"}
  <2>1. /\ pc' = method
        /\ W' = {[turn |-> 0, of |-> A, place |-> 0, rule |-> [lhs |-> A, rhs |-> s[A]]] :
                   A \in DOMAIN s}
        /\ UNCHANGED <<sigma, unprocessed>>
    BY <1>3 DEF Read
  <2>2. \A A \in DOMAIN s :
          /\ [lhs |-> A, rhs |-> s[A]] \in Rules
          /\ A \in AttrSets
          /\ Good(columns, logic, A, s[A])
    <3> HIDE DEF s
    <3> QED BY <1>1 DEF GoodRules, Good, Rules
  <2>3. GoodEntries(columns, logic, W')
    <3>1. ASSUME NEW e \in W'
          PROVE  e \in Entries /\ Good(columns, logic, e.rule.lhs, e.rule.rhs)
      <4> HIDE DEF s
      <4> QED BY <2>1, <2>2 DEF Entries
    <3> QED BY <3>1 DEF GoodEntries
  <2>4. unprocessed' = {}
    BY <2>1 DEF IInv, Read
  <2> HIDE DEF s
  <2> QED BY <1>2, <1>3, <2>1, <2>3, <2>4 DEF IInv, Premises
<1>4. CASE method \notin {"monotonic", "priority"}
  <2>1. /\ pc' = "saturate" /\ sigma' = s /\ W' = W
        /\ unprocessed' = IF method = "do_sp" THEN {} ELSE (DOMAIN s) \X (DOMAIN s)
    BY <1>4 DEF Read
  <2> HIDE DEF s
  <2> QED BY <1>1, <1>2, <2>1 DEF IInv, Premises
<1> QED BY <1>3, <1>4

LEMMA SaturateInvariant == IInv /\ (SaturatePass \/ SaturateOnce) => IInv'
<1> SUFFICES ASSUME IInv, SaturatePass \/ SaturateOnce PROVE IInv'
  OBVIOUS
<1>1. UNCHANGED <<columns, logic, method, W, redundant, iterations>>
  BY DEF SaturatePass, SaturateOnce, inputs
<1>2. CASE SaturatePass
  <2>1. PICK rules : /\ rules = Merged(sigma, Derived(unprocessed))
                     /\ pc' = IF rules = sigma THEN "prune" ELSE "saturate"
                     /\ sigma' = rules
                     /\ unprocessed' = {p \in (DOMAIN rules) \X (DOMAIN rules) :
                          p[1] \in Changed(rules) \/ p[2] \in Changed(rules)}
    BY <1>2 DEF SaturatePass
  <2>2. GoodRules(columns, logic, sigma')
    BY <2>1, GoodPairs DEF IInv
  <2>3. rules = sigma => unprocessed' = {}
    BY <2>1 DEF Changed, Premises
  <2>4. method # "do_sp"
    BY <1>2 DEF SaturatePass
  <2>5. unprocessed' \subseteq Premises' \X Premises'
    BY <2>1 DEF Premises
  <2>6. pc' \in {"prune", "saturate"} /\ (pc' = "prune" => unprocessed' = {})
    BY <2>1, <2>3
  <2> QED BY <1>1, <2>2, <2>4, <2>5, <2>6 DEF IInv
<1>3. CASE SaturateOnce
  <2>1. GoodRules(columns, logic, sigma')
    BY <1>3, GoodPairs DEF IInv, SaturateOnce
  <2>2. unprocessed' = {} /\ pc' = "prune"
    BY <1>3 DEF IInv, SaturateOnce
  <2> QED BY <1>1, <2>1, <2>2 DEF IInv
<1> QED BY <1>2, <1>3

LEMMA PruneInvariant ==
  IInv /\ (PrunePass \/ PruneOnce \/ MonotonicEnd \/ PriorityEnd) => IInv'
<1> SUFFICES ASSUME IInv, PrunePass \/ PruneOnce \/ MonotonicEnd \/ PriorityEnd
             PROVE  IInv'
  OBVIOUS
<1>1. UNCHANGED <<columns, logic, method, unprocessed, W, redundant, iterations>>
  BY DEF PrunePass, PruneOnce, MonotonicEnd, PriorityEnd, inputs
<1>2. unprocessed' = {}
  BY <1>1 DEF IInv, PrunePass, PruneOnce, MonotonicEnd, PriorityEnd
<1>3. pc' \in {"done", "prune", "saturate"}
  BY DEF PrunePass, PruneOnce, MonotonicEnd, PriorityEnd
<1>4. GoodRules(columns, logic, sigma')
  <2>1. CASE PrunePass \/ PruneOnce
    <3>1. sigma' = Pruned(sigma)
      BY <2>1 DEF PrunePass, PruneOnce
    <3> QED BY <3>1, GoodChanges DEF IInv
  <2>2. CASE MonotonicEnd
    <3>1. sigma' = [A \in Premises \ redundant |-> sigma[A]]
      BY <2>2 DEF MonotonicEnd
    <3> QED BY <3>1 DEF IInv, GoodRules, Premises
  <2>3. CASE PriorityEnd
    <3>1. sigma' = sigma
      BY <2>3 DEF PriorityEnd
    <3> QED BY <3>1 DEF IInv
  <2> QED BY <2>1, <2>2, <2>3
<1> QED BY <1>1, <1>2, <1>3, <1>4 DEF IInv

\* Entries are taken from the worklist and others put into it.
LEMMA WorklistChange ==
  ASSUME NEW cols, NEW name, NEW queue, NEW e, NEW more,
         GoodEntries(cols, name, queue), GoodEntries(cols, name, more)
  PROVE  /\ GoodEntries(cols, name, (queue \ {e}) \cup more)
         /\ GoodEntries(cols, name, queue \ {e})
BY DEF GoodEntries

LEMMA MonotonicInvariant == IInv /\ (MonotonicNew \/ MonotonicMerge) => IInv'
<1> SUFFICES ASSUME IInv, MonotonicNew \/ MonotonicMerge PROVE IInv'
  OBVIOUS
<1>1. /\ UNCHANGED <<columns, logic, method, pc, unprocessed>>
      /\ iterations' = iterations + 1
      /\ unprocessed = {}
  BY DEF IInv, MonotonicNew, MonotonicMerge, inputs
<1>2. /\ columns \in Seq(Rules) /\ logic \in LogicNames \ {"Product"}
      /\ iterations \in Nat /\ GoodRules(columns, logic, sigma)
      /\ GoodEntries(columns, logic, W)
  BY DEF IInv
<1>3. CASE MonotonicNew
  <2>1. PICK e \in W :
          LET A == e.rule.lhs
              B_new == set_setminus(e.rule.rhs, pi(A, sigma))
          IN  IF B_new # EmptySet
              THEN /\ sigma' = With(sigma, A, B_new)
                   /\ W' = (W \ {e}) \cup Propagated(A, B_new, B_new, sigma')
              ELSE W' = W \ {e} /\ sigma' = sigma
    BY <1>3 DEF MonotonicNew
  <2> DEFINE A == e.rule.lhs
             B_new == set_setminus(e.rule.rhs, pi(A, sigma))
  <2>2. Good(columns, logic, A, B_new)
    BY <1>2, GoodReduced DEF GoodEntries
  <2>3. redundant' = redundant
    BY <1>3 DEF MonotonicNew
  <2>4. GoodRules(columns, logic, sigma') /\ GoodEntries(columns, logic, W')
    <3> HIDE DEF A, B_new
    <3>1. CASE B_new # EmptySet
      <4>1. /\ sigma' = With(sigma, A, B_new)
            /\ W' = (W \ {e}) \cup Propagated(A, B_new, B_new, With(sigma, A, B_new))
        BY <2>1, <3>1 DEF A, B_new
      <4>2. GoodRules(columns, logic, With(sigma, A, B_new))
        BY <1>2, <2>2, GoodChanges
      <4>3. GoodEntries(columns, logic, Propagated(A, B_new, B_new, With(sigma, A, B_new)))
        BY <1>2, <2>2, <4>2, GoodPropagated
      <4> QED BY <1>2, <4>1, <4>2, <4>3, WorklistChange
    <3>2. CASE B_new = EmptySet
      <4>1. W' = W \ {e} /\ sigma' = sigma
        BY <2>1, <3>2 DEF A, B_new
      <4> QED BY <1>2, <4>1, WorklistChange
    <3> QED BY <3>1, <3>2
  <2> QED BY <1>1, <2>3, <2>4 DEF IInv
<1>4. CASE MonotonicMerge
  <2>1. PICK e \in W :
          /\ e.rule.lhs \in Premises
          /\ LET A == e.rule.lhs
                 B_new == set_setminus(e.rule.rhs, pi(A, sigma))
                 B_merged == set_union(sigma[A], B_new)
             IN  \/ /\ sigma' = With(sigma, A, B_merged)
                    /\ redundant' \in {redundant \cup {A}, redundant \ {A}}
                    /\ W' = (W \ {e}) \cup Propagated(A, B_merged, B_new, sigma')
                 \/ W' = W \ {e} /\ UNCHANGED <<sigma, redundant>>
    BY <1>4, Zenon DEF MonotonicMerge
  <2> DEFINE A == e.rule.lhs
             B_new == set_setminus(e.rule.rhs, pi(A, sigma))
             B_merged == set_union(sigma[A], B_new)
  <2>2. Good(columns, logic, A, B_new)
    BY <1>2, GoodReduced DEF GoodEntries
  <2>3. Good(columns, logic, A, B_merged)
    <3>1. Good(columns, logic, A, sigma[A])
      BY <1>2, <2>1 DEF GoodRules, Premises
    <3> HIDE DEF A, B_new
    <3> QED BY <1>2, <2>2, <3>1, GoodUnion
  <2>4. A \in AttrSets
    BY <2>2 DEF Good
  <2>5. CASE /\ sigma' = With(sigma, A, B_merged)
             /\ redundant' \in {redundant \cup {A}, redundant \ {A}}
             /\ W' = (W \ {e}) \cup Propagated(A, B_merged, B_new, sigma')
    <3> HIDE DEF A, B_new, B_merged
    <3>1. W' = (W \ {e}) \cup Propagated(A, B_merged, B_new, With(sigma, A, B_merged))
      BY <2>5
    <3>2. GoodRules(columns, logic, With(sigma, A, B_merged))
      BY <1>2, <2>3, GoodChanges
    <3>3. GoodEntries(columns, logic, Propagated(A, B_merged, B_new, With(sigma, A, B_merged)))
      BY <1>2, <2>3, <3>2, GoodPropagated
    <3>4. GoodEntries(columns, logic, W')
      BY <1>2, <3>1, <3>3, WorklistChange
    <3>5. redundant' \subseteq AttrSets
      BY <2>4, <2>5 DEF IInv
    <3> QED BY <1>1, <2>5, <3>2, <3>4, <3>5 DEF IInv
  <2>6. CASE W' = W \ {e} /\ UNCHANGED <<sigma, redundant>>
    <3>1. GoodEntries(columns, logic, W')
      BY <1>2, <2>6, WorklistChange
    <3> QED BY <1>1, <2>6, <3>1 DEF IInv
  <2> QED BY <2>1, <2>5, <2>6
<1> QED BY <1>3, <1>4

LEMMA PriorityInvariant == IInv /\ (PriorityPurge \/ PriorityAdd) => IInv'
<1> SUFFICES ASSUME IInv, PriorityPurge \/ PriorityAdd PROVE IInv'
  OBVIOUS
<1>1. /\ UNCHANGED <<columns, logic, method, pc, unprocessed, redundant>>
      /\ iterations' = iterations + 1
      /\ unprocessed = {}
  BY DEF IInv, PriorityPurge, PriorityAdd, inputs
<1>2. /\ columns \in Seq(Rules) /\ logic \in LogicNames \ {"Product"}
      /\ iterations \in Nat /\ GoodRules(columns, logic, sigma)
      /\ GoodEntries(columns, logic, W)
  BY DEF IInv
<1>3. CASE PriorityPurge
  <2>1. PICK e \in W : sigma' = Without(sigma, e.rule.lhs) /\ W' = W \ {e}
    BY <1>3 DEF PriorityPurge
  <2>2. GoodRules(columns, logic, sigma')
    BY <1>2, <2>1, GoodChanges
  <2>3. GoodEntries(columns, logic, W')
    BY <1>2, <2>1, WorklistChange
  <2> QED BY <1>1, <2>2, <2>3 DEF IInv
<1>4. CASE PriorityAdd
  <2>1. PICK e \in W :
          LET A == e.rule.lhs
              B_new == Reduced(A, e.rule.rhs, sigma)
              B_merged == IF A \in Premises THEN set_union(sigma[A], B_new) ELSE B_new
          IN  IF A \notin Premises \/ B_merged # sigma[A]
              THEN /\ sigma' = With(sigma, A, B_merged)
                   /\ W' = (W \ {e})
                             \cup Propagated(A, B_merged, B_new, Without(sigma, A))
              ELSE W' = W \ {e} /\ sigma' = sigma
    BY <1>4, Zenon DEF PriorityAdd
  <2> DEFINE A == e.rule.lhs
             B_new == Reduced(A, e.rule.rhs, sigma)
             B_merged == IF A \in Premises THEN set_union(sigma[A], B_new) ELSE B_new
  <2>2. Good(columns, logic, A, B_new)
    BY <1>2, GoodReduced DEF GoodEntries, Reduced
  <2>3. Good(columns, logic, A, B_merged)
    <3>1. A \in Premises => Good(columns, logic, A, sigma[A])
      BY <1>2 DEF GoodRules, Premises
    <3> HIDE DEF A, B_new
    <3> QED BY <1>2, <2>2, <3>1, GoodUnion
  <2>4. \/ /\ sigma' = With(sigma, A, B_merged)
           /\ W' = (W \ {e}) \cup Propagated(A, B_merged, B_new, Without(sigma, A))
        \/ W' = W \ {e} /\ sigma' = sigma
    BY <2>1
  <2> HIDE DEF A, B_new, B_merged
  <2>5. GoodRules(columns, logic, With(sigma, A, B_merged))
    BY <1>2, <2>3, GoodChanges
  <2>6. GoodRules(columns, logic, Without(sigma, A))
    BY <1>2, GoodChanges
  <2>7. GoodEntries(columns, logic, Propagated(A, B_merged, B_new, Without(sigma, A)))
    BY <1>2, <2>3, <2>6, GoodPropagated
  <2>8. GoodEntries(columns, logic, W')
    <3>1. /\ GoodEntries(columns, logic,
                           (W \ {e}) \cup Propagated(A, B_merged, B_new, Without(sigma, A)))
          /\ GoodEntries(columns, logic, W \ {e})
      BY <1>2, <2>7, WorklistChange
    <3> QED BY <2>4, <3>1
  <2>9. GoodRules(columns, logic, sigma')
    BY <1>2, <2>4, <2>5
  <2> QED BY <1>1, <2>8, <2>9 DEF IInv
<1> QED BY <1>3, <1>4

-----------------------------------------------------------------------------
\* Every method keeps the inductive invariant.
THEOREM Invariance == Spec => []IInv
<1>1. Init => IInv
  BY InitInvariant
<1>2. IInv /\ [Next]_vars => IInv'
  <2> SUFFICES ASSUME IInv, [Next]_vars PROVE IInv'
    OBVIOUS
  <2>1. CASE Next
    BY <2>1, ReadInvariant, SaturateInvariant, PruneInvariant, MonotonicInvariant,
       PriorityInvariant, Zenon
       DEF Next, Returned, vars, inputs, IInv, Premises
  <2>2. CASE UNCHANGED vars
    BY <2>2 DEF vars, inputs, IInv, Premises
  <2> QED BY <2>1, <2>2
<1> QED BY <1>1, <1>2, PTL DEF Spec

\* Types are kept, for every input and method.
THEOREM TypeCorrect == Spec => []TypeOK
<1>1. IInv => TypeOK
  BY DEF IInv, TypeOK, GoodRules, GoodEntries, Good, Premises
<1> QED BY <1>1, Invariance, PTL

\* In every logic, whatever the rules and their degrees, every rule that a
\* method ever holds in its system or in its worklist follows from the rules
\* given: pruning, merging and the products of the candidates never conclude
\* too much.
THEOREM Soundness == Spec => []Sound
<1>1. IInv => Sound
  <2> SUFFICES ASSUME IInv, NEW V \in AttrSets, Model(V) PROVE SystemModel(V)
    BY DEF Sound
  <2>1. \A A \in DOMAIN sigma : Respects(V, A, sigma[A])
    BY EntailsModel DEF IInv, GoodRules, Good
  <2>2. \A e \in W : Respects(V, e.rule.lhs, e.rule.rhs)
    BY EntailsModel DEF IInv, GoodEntries, Good
  <2> QED BY <2>1, <2>2 DEF SystemModel, ModelOf
<1> QED BY <1>1, Invariance, PTL
-----------------------------------------------------------------------------
\* What is lost and what is not.

\* Every degree of A -> pi(A, rules) is one of A, or the conclusion of a rule to
\* the degree to which A has its premise; and none of these is missing.
LEMMA PiDegrees ==
  ASSUME NEW A \in AttrSets, NEW rules, NEW c \in Attributes,
         \A X \in DOMAIN rules : X \in AttrSets /\ rules[X] \in AttrSets,
         logic \in LogicNames \ {"Product"}
  PROVE  /\ pi(A, rules)[c] \in Grades
         /\ A[c] <= pi(A, rules)[c]
         /\ \A X \in DOMAIN rules : tnorm(logic, S(X, A), rules[X][c]) <= pi(A, rules)[c]
         /\ \/ pi(A, rules)[c] = A[c]
            \/ \E X \in DOMAIN rules :
                 pi(A, rules)[c] = tnorm(logic, S(X, A), rules[X][c])
<1> DEFINE T == {A[c]} \cup {tnorm(logic, S(X, A), rules[X][c]) : X \in DOMAIN rules}
<1>1. pi(A, rules)[c] = Max(T)
  BY DEF pi
<1>2. A[c] \in Grades
  BY DEF AttrSets
<1>3. \A X \in DOMAIN rules : tnorm(logic, S(X, A), rules[X][c]) \in Grades
  <2> SUFFICES ASSUME NEW X \in DOMAIN rules
               PROVE  tnorm(logic, S(X, A), rules[X][c]) \in Grades
    OBVIOUS
  <2>1. S(X, A) \in Grades
    BY SubsethoodType
  <2>2. rules[X][c] \in Grades
    BY DEF AttrSets
  <2> QED BY <2>1, <2>2, LogicTypes
<1>4. T \in SUBSET (0 .. K) /\ T # {}
  BY <1>2, <1>3 DEF Grades
<1>5. Max(T) \in T /\ \A x \in T : x <= Max(T)
  <2> HIDE DEF T
  <2> QED BY <1>4, NatMax, KAssumption
<1>6. Max(T) \in Grades
  <2> HIDE DEF T
  <2> QED BY <1>4, <1>5 DEF Grades
<1> QED BY <1>1, <1>5, <1>6

\* A set that respects a system respects what one pass over it derives.
LEMMA PiFollows ==
  ASSUME NEW V \in AttrSets, NEW A \in AttrSets, NEW rules,
         \A X \in DOMAIN rules : X \in AttrSets /\ rules[X] \in AttrSets,
         ModelOf(V, rules), logic \in LogicNames \ {"Product"}
  PROVE  Respects(V, A, pi(A, rules))
<1> SUFFICES ASSUME NEW c \in Attributes
             PROVE  tnorm(logic, S(A, V), pi(A, rules)[c]) <= V[c]
  BY DEF Respects
<1>1. S(A, V) \in Grades /\ S(A, V) <= S(A, V)
  <2>1. S(A, V) \in Grades
    BY SubsethoodType
  <2> QED BY <2>1, KAssumption DEF Grades
<1>2. \A d \in Attributes : tnorm(logic, S(A, V), A[d]) <= V[d]
  BY <1>1, SubsethoodAdjoint
<1>3. ASSUME NEW X \in DOMAIN rules
      PROVE  tnorm(logic, S(A, V), tnorm(logic, S(X, A), rules[X][c])) <= V[c]
  <2> DEFINE s == S(A, V)
             t == S(X, A)
  <2>1. X \in AttrSets /\ rules[X] \in AttrSets
    BY <1>3
  <2>2. s \in Grades /\ t \in Grades
    BY <1>1, <2>1, SubsethoodType
  <2>3. t <= t
    <3> HIDE DEF s, t
    <3> QED BY <2>2, KAssumption DEF Grades
  <2>4. \A d \in Attributes : tnorm(logic, t, X[d]) <= A[d]
    BY <2>1, <2>2, <2>3, SubsethoodAdjoint
  <2>5. ASSUME NEW d \in Attributes PROVE tnorm(logic, s, otimes(t, X)[d]) <= V[d]
    <3>1. otimes(t, X)[d] = tnorm(logic, t, X[d])
      BY DEF otimes
    <3>2. X[d] \in Grades /\ A[d] \in Grades /\ V[d] \in Grades
      BY <2>1 DEF AttrSets
    <3>3. tnorm(logic, t, X[d]) <= A[d]
      BY <2>4
    <3>4. tnorm(logic, s, A[d]) <= V[d]
      BY <1>2
    <3> HIDE DEF s, t
    <3>5. tnorm(logic, t, X[d]) \in Grades
      BY <2>2, <3>2, LogicTypes
    <3>6. tnorm(logic, s, tnorm(logic, t, X[d])) <= tnorm(logic, s, A[d])
      BY <2>2, <3>2, <3>3, <3>5, TnormMonotone
    <3>7. tnorm(logic, s, tnorm(logic, t, X[d])) \in Grades /\ tnorm(logic, s, A[d]) \in Grades
      BY <2>2, <3>2, <3>5, LogicTypes
    <3> QED BY <3>1, <3>2, <3>4, <3>6, <3>7, KAssumption DEF Grades
  <2>6. Respects(V, X, rules[X])
    BY DEF ModelOf
  <2> HIDE DEF s, t
  <2>7. tnorm(logic, s, otimes(t, rules[X])[c]) <= V[c]
    BY <2>1, <2>2, <2>5, <2>6, RespectsProduct
  <2>8. tnorm(logic, s, tnorm(logic, t, rules[X][c])) <= V[c]
    BY <2>7 DEF otimes
  <2> QED BY <2>8 DEF s, t
<1>4. \/ pi(A, rules)[c] = A[c]
      \/ \E X \in DOMAIN rules : pi(A, rules)[c] = tnorm(logic, S(X, A), rules[X][c])
  BY PiDegrees
<1> QED BY <1>2, <1>3, <1>4

\* A rule that concludes less asks for less.
LEMMA RespectsWeaker ==
  ASSUME NEW V \in AttrSets, NEW A \in AttrSets, NEW B \in AttrSets, NEW C \in AttrSets,
         Respects(V, A, B), Leq(C, B), logic \in LogicNames \ {"Product"}
  PROVE  Respects(V, A, C)
<1> SUFFICES ASSUME NEW c \in Attributes PROVE tnorm(logic, S(A, V), C[c]) <= V[c]
  BY DEF Respects
<1>1. S(A, V) \in Grades
  BY SubsethoodType
<1>2. B[c] \in Grades /\ C[c] \in Grades /\ V[c] \in Grades /\ C[c] <= B[c]
  BY DEF AttrSets, Leq
<1>3. tnorm(logic, S(A, V), B[c]) <= V[c]
  BY DEF Respects
<1>4. tnorm(logic, S(A, V), C[c]) <= tnorm(logic, S(A, V), B[c])
  BY <1>1, <1>2, TnormMonotone
<1>5. tnorm(logic, S(A, V), B[c]) \in Grades /\ tnorm(logic, S(A, V), C[c]) \in Grades
  BY <1>1, <1>2, LogicTypes
<1> QED BY <1>2, <1>3, <1>4, <1>5, KAssumption DEF Grades

\* What a system derives can be dropped from a conclusion.
LEMMA RespectsReduced ==
  ASSUME NEW V \in AttrSets, NEW A \in AttrSets, NEW B \in AttrSets, NEW rules,
         \A X \in DOMAIN rules : X \in AttrSets /\ rules[X] \in AttrSets,
         ModelOf(V, rules), Respects(V, A, set_setminus(B, pi(A, rules))),
         logic \in LogicNames \ {"Product"}
  PROVE  Respects(V, A, B)
<1> SUFFICES ASSUME NEW c \in Attributes PROVE tnorm(logic, S(A, V), B[c]) <= V[c]
  BY DEF Respects
<1> DEFINE p == pi(A, rules)[c]
<1>1. S(A, V) \in Grades
  BY SubsethoodType
<1>2. B[c] \in Grades /\ V[c] \in Grades
  BY DEF AttrSets
<1>3. p \in Grades
  BY PiDegrees
<1>4. tnorm(logic, S(A, V), p) <= V[c]
  BY PiFollows DEF Respects
<1>5. set_setminus(B, pi(A, rules))[c] = IF p >= B[c] THEN 0 ELSE B[c]
  BY DEF set_setminus
<1>6. tnorm(logic, S(A, V), set_setminus(B, pi(A, rules))[c]) <= V[c]
  BY DEF Respects
<1> HIDE DEF p
<1>7. CASE B[c] <= p
  <2>1. tnorm(logic, S(A, V), B[c]) <= tnorm(logic, S(A, V), p)
    BY <1>1, <1>2, <1>3, <1>7, TnormMonotone
  <2>2. tnorm(logic, S(A, V), B[c]) \in Grades /\ tnorm(logic, S(A, V), p) \in Grades
    BY <1>1, <1>2, <1>3, LogicTypes
  <2> QED BY <1>2, <1>4, <2>1, <2>2, KAssumption DEF Grades
<1>8. CASE ~(B[c] <= p)
  <2>1. ~(p >= B[c])
    BY <1>2, <1>3, <1>8, KAssumption DEF Grades
  <2> QED BY <1>5, <1>6, <2>1
<1> QED BY <1>7, <1>8

\* A system has no less than another one.
Within(rules, more) ==
  /\ DOMAIN rules \subseteq DOMAIN more
  /\ \A A \in DOMAIN rules : Leq(rules[A], more[A])

\* The rules of a system are rules between fuzzy sets.
SystemType(rules) == \A A \in DOMAIN rules : A \in AttrSets /\ rules[A] \in AttrSets

LEMMA WithinModel ==
  ASSUME NEW V \in AttrSets, NEW rules, NEW more, SystemType(rules), SystemType(more),
         Within(rules, more), ModelOf(V, more), logic \in LogicNames \ {"Product"}
  PROVE  ModelOf(V, rules)
<1> SUFFICES ASSUME NEW A \in DOMAIN rules PROVE Respects(V, A, rules[A])
  BY DEF ModelOf
<1>1. /\ A \in AttrSets /\ rules[A] \in AttrSets /\ more[A] \in AttrSets
      /\ Leq(rules[A], more[A])
      /\ Respects(V, A, more[A])
  BY DEF SystemType, Within, ModelOf
<1> QED BY <1>1, RespectsWeaker

\* A pass over more rules derives more.
LEMMA PiMonotone ==
  ASSUME NEW A \in AttrSets, NEW rules, NEW more, SystemType(rules), SystemType(more),
         Within(rules, more), logic \in LogicNames \ {"Product"}
  PROVE  Leq(pi(A, rules), pi(A, more))
<1> SUFFICES ASSUME NEW c \in Attributes PROVE pi(A, rules)[c] <= pi(A, more)[c]
  BY DEF Leq
<1> DEFINE p == pi(A, rules)[c]
           q == pi(A, more)[c]
<1>1. /\ q \in Grades
      /\ A[c] <= q
      /\ \A X \in DOMAIN more : tnorm(logic, S(X, A), more[X][c]) <= q
  BY PiDegrees DEF SystemType
<1>2. p = A[c] \/ \E X \in DOMAIN rules : p = tnorm(logic, S(X, A), rules[X][c])
  BY PiDegrees DEF SystemType
<1> HIDE DEF p, q
<1>3. ASSUME NEW X \in DOMAIN rules, p = tnorm(logic, S(X, A), rules[X][c]) PROVE p <= q
  <2>1. /\ X \in AttrSets /\ rules[X] \in AttrSets /\ more[X] \in AttrSets
        /\ X \in DOMAIN more /\ Leq(rules[X], more[X])
    BY DEF SystemType, Within
  <2>2. rules[X][c] \in Grades /\ more[X][c] \in Grades /\ rules[X][c] <= more[X][c]
    BY <2>1 DEF AttrSets, Leq
  <2>3. S(X, A) \in Grades
    BY <2>1, SubsethoodType
  <2>4. tnorm(logic, S(X, A), rules[X][c]) <= tnorm(logic, S(X, A), more[X][c])
    BY <2>2, <2>3, TnormMonotone
  <2>5. tnorm(logic, S(X, A), rules[X][c]) \in Grades /\ tnorm(logic, S(X, A), more[X][c]) \in Grades
    BY <2>2, <2>3, LogicTypes
  <2>6. tnorm(logic, S(X, A), more[X][c]) <= q
    BY <1>1, <2>1
  <2> QED BY <1>1, <1>3, <2>4, <2>5, <2>6, KAssumption DEF Grades
<1>4. p <= q
  BY <1>1, <1>2, <1>3
<1> QED BY <1>4 DEF p, q

\* Merging and adding rules leaves no less.
LEMMA WithinMerged ==
  ASSUME NEW rules, NEW new, SystemType(rules), \A r \in new : r.rhs \in AttrSets
  PROVE  Within(rules, Merged(rules, new))
<1> SUFFICES ASSUME NEW G \in DOMAIN rules, NEW c \in Attributes
             PROVE  G \in DOMAIN Merged(rules, new) /\ rules[G][c] <= Merged(rules, new)[G][c]
  BY DEF Within, Leq, Merged
<1> DEFINE T == {IF G \in DOMAIN rules THEN rules[G][c] ELSE 0}
                  \cup {r.rhs[c] : r \in {x \in new : x.lhs = G}}
<1>1. G \in DOMAIN Merged(rules, new) /\ Merged(rules, new)[G][c] = Max(T)
  BY DEF Merged
<1>2. T \in SUBSET (0 .. K) /\ T # {} /\ rules[G][c] \in T
  BY DEF SystemType, AttrSets, Grades
<1>3. \A x \in T : x <= Max(T)
  <2> HIDE DEF T
  <2> QED BY <1>2, NatMax, KAssumption
<1> HIDE DEF T
<1> QED BY <1>1, <1>2, <1>3

LEMMA WithinWith ==
  ASSUME NEW rules, SystemType(rules), NEW A, NEW B,
         A \in DOMAIN rules => Leq(rules[A], B)
  PROVE  /\ Within(rules, With(rules, A, B))
         /\ Within(Without(rules, A), Without(With(rules, A, B), A))
<1>1. \A X \in DOMAIN rules : Leq(rules[X], rules[X])
  BY KAssumption DEF SystemType, AttrSets, Grades, Leq
<1> QED BY <1>1 DEF Within, With, Without

LEMMA LeqReflexive ==
  ASSUME NEW A \in AttrSets
  PROVE  Leq(A, A)
BY KAssumption DEF Leq, AttrSets, Grades

\* A union has no less than its parts.
LEMMA UnionAbove ==
  ASSUME NEW A \in AttrSets, NEW B \in AttrSets
  PROVE  Leq(A, set_union(A, B)) /\ Leq(B, set_union(A, B))
BY KAssumption DEF Leq, set_union, AttrSets, Grades

\* In every logic, what a crisp rule concludes it concludes to the degree to
\* which there is its premise, and to the degree 1 only from what has it all.
LEMMA UnitLaws ==
  ASSUME NEW name \in LogicNames \ {"Product"}, NEW x \in Grades, NEW y \in Grades
  PROVE  /\ tnorm(name, x, K) = x
         /\ tnorm(name, K, x) = x
         /\ tnorm(name, x, 0) = 0
         /\ tnorm(name, x, y) <= x
         /\ tnorm(name, x, y) <= y
<1> USE KAssumption DEF Grades, tnorm, tnorm_Godel
<1>1. CASE name = "Lukasiewicz"
  BY <1>1 DEF tnorm_Lukasiewicz
<1>2. CASE name # "Lukasiewicz"
  BY <1>2
<1> QED BY <1>1, <1>2

\* The argument why rules with crisp conclusions may be pruned at once:
\* what A does not conclude any more is derived in one pass by a rule with a
\* smaller premise, and there is no endless descent.
LEMMA PruningKeeps ==
  ASSUME NEW V \in AttrSets, NEW rules, NEW kept, SystemType(rules), SystemType(kept),
         \A A \in DOMAIN rules : Crisp(rules[A]),
         \A A \in DOMAIN rules : \A c \in Attributes :
           \/ A \in DOMAIN kept /\ rules[A][c] <= kept[A][c]
           \/ rules[A][c] <= pi(A, Without(rules, A))[c],
         ModelOf(V, kept), logic \in LogicNames \ {"Product"}
  PROVE  ModelOf(V, rules)
<1> DEFINE T == {A \in DOMAIN rules : ~Respects(V, A, rules[A])}
<1> SUFFICES ASSUME T # {} PROVE FALSE
  BY DEF ModelOf
<1>1. T \subseteq AttrSets
  BY DEF SystemType
<1>2. PICK A \in T : \A X \in T : <<X, A>> \notin StrictlyBelow
  <2> HIDE DEF T
  <2> QED BY <1>1, StrictlyBelowWellFounded, WFMin, Zenon
<1>3. A \in DOMAIN rules /\ A \in AttrSets /\ rules[A] \in AttrSets
  BY DEF SystemType
<1>4. PICK c \in Attributes : ~(tnorm(logic, S(A, V), rules[A][c]) <= V[c])
  BY DEF Respects
<1> DEFINE s == S(A, V)
<1>5. s \in Grades /\ s <= s
  <2>1. s \in Grades
    BY <1>3, SubsethoodType
  <2> HIDE DEF s
  <2> QED BY <2>1, KAssumption DEF Grades
<1>6. \A d \in Attributes : tnorm(logic, s, A[d]) <= V[d]
  BY <1>3, <1>5, SubsethoodAdjoint
<1>7. V[c] \in Grades /\ A[c] \in Grades
  BY <1>3 DEF AttrSets
<1>8. rules[A][c] = K /\ ~(s <= V[c])
  <2>1. rules[A][c] \in {0, K}
    BY <1>3 DEF Crisp
  <2>2. tnorm(logic, s, K) = s /\ tnorm(logic, s, 0) = 0
    BY <1>5, UnitLaws
  <2>3. 0 <= V[c]
    BY <1>7, KAssumption DEF Grades
  <2>4. ~(tnorm(logic, s, rules[A][c]) <= V[c])
    BY <1>4
  <2> HIDE DEF s
  <2> QED BY <2>1, <2>2, <2>3, <2>4
<1>9. ~(A \in DOMAIN kept /\ rules[A][c] <= kept[A][c])
  <2> SUFFICES ASSUME A \in DOMAIN kept, rules[A][c] <= kept[A][c] PROVE FALSE
    OBVIOUS
  <2>1. kept[A][c] \in Grades
    BY <1>3 DEF SystemType, AttrSets
  <2>2. kept[A][c] = K
    BY <1>8, <2>1, KAssumption DEF Grades
  <2>3. tnorm(logic, s, kept[A][c]) <= V[c]
    BY DEF ModelOf, Respects
  <2>4. tnorm(logic, s, K) = s
    BY <1>5, UnitLaws
  <2> HIDE DEF s
  <2> QED BY <1>8, <2>2, <2>3, <2>4
<1> DEFINE others == Without(rules, A)
           p == pi(A, others)[c]
<1>10. K <= p
  BY <1>3, <1>8, <1>9
<1>11. \A X \in DOMAIN others : /\ X \in DOMAIN rules /\ X # A /\ others[X] = rules[X]
                                /\ X \in AttrSets /\ rules[X] \in AttrSets
  BY DEF Without, SystemType
<1>12. p = A[c] \/ \E X \in DOMAIN others : p = tnorm(logic, S(X, A), rules[X][c])
  <2> HIDE DEF others
  <2> QED BY <1>3, <1>11, PiDegrees
<1>13. CASE p = A[c]
  <2>1. A[c] = K
    BY <1>7, <1>10, <1>13, KAssumption DEF Grades
  <2>2. tnorm(logic, s, K) = s
    BY <1>5, UnitLaws
  <2>3. tnorm(logic, s, A[c]) <= V[c]
    BY <1>6
  <2> HIDE DEF s
  <2> QED BY <1>8, <2>1, <2>2, <2>3
<1>14. ASSUME NEW X \in DOMAIN others, p = tnorm(logic, S(X, A), rules[X][c]) PROVE FALSE
  <2> DEFINE t == S(X, A)
  <2>1. X \in DOMAIN rules /\ X \in AttrSets /\ rules[X] \in AttrSets /\ X # A
    BY <1>11
  <2>2. t \in Grades /\ rules[X][c] \in Grades
    BY <1>3, <2>1, SubsethoodType DEF AttrSets
  <2>3. t = K /\ rules[X][c] = K
    <3>1. p <= t /\ p <= rules[X][c]
      BY <1>14, <2>2, UnitLaws
    <3>2. p \in Int
      <4>1. p \in Grades
        <5> HIDE DEF others
        <5> QED BY <1>3, <1>11, PiDegrees
      <4> HIDE DEF p
      <4> QED BY <4>1, KAssumption DEF Grades
    <3> HIDE DEF t, p
    <3> QED BY <1>10, <2>2, <3>1, <3>2, KAssumption DEF Grades
  <2>4. Leq(X, A)
    <3>1. K \in Grades /\ K <= t
      <4> HIDE DEF t
      <4> QED BY <2>3, KAssumption DEF Grades
    <3>2. \A d \in Attributes : tnorm(logic, K, X[d]) <= A[d]
      BY <1>3, <2>1, <3>1, SubsethoodAdjoint
    <3>3. \A d \in Attributes : X[d] \in Grades
      BY <2>1 DEF AttrSets
    <3>4. \A d \in Attributes : tnorm(logic, K, X[d]) = X[d]
      BY <3>1, <3>3, UnitLaws
    <3> QED BY <3>2, <3>4 DEF Leq
  <2>5. Respects(V, X, rules[X])
    BY <1>2, <1>3, <2>1, <2>4 DEF StrictlyBelow
  <2>6. S(X, V) \in Grades
    BY <2>1, SubsethoodType
  <2>7. S(X, V) <= V[c]
    <3>1. tnorm(logic, S(X, V), K) <= V[c]
      BY <2>3, <2>5 DEF Respects
    <3> QED BY <2>6, <3>1, UnitLaws
  <2>8. \A d \in Attributes : tnorm(logic, s, X[d]) <= V[d]
    <3> SUFFICES ASSUME NEW d \in Attributes PROVE tnorm(logic, s, X[d]) <= V[d]
      OBVIOUS
    <3>1. X[d] \in Grades /\ A[d] \in Grades /\ V[d] \in Grades /\ X[d] <= A[d]
      BY <1>3, <2>1, <2>4 DEF AttrSets, Leq
    <3>2. tnorm(logic, s, A[d]) <= V[d]
      BY <1>6
    <3> HIDE DEF s
    <3>3. tnorm(logic, s, X[d]) <= tnorm(logic, s, A[d])
      BY <1>5, <3>1, TnormMonotone
    <3>4. tnorm(logic, s, X[d]) \in Grades /\ tnorm(logic, s, A[d]) \in Grades
      BY <1>5, <3>1, LogicTypes
    <3> QED BY <3>1, <3>2, <3>3, <3>4, KAssumption DEF Grades
  <2>9. s <= S(X, V)
    BY <1>5, <2>1, <2>8, SubsethoodAdjoint
  <2> HIDE DEF s
  <2> QED BY <1>5, <1>7, <1>8, <2>6, <2>7, <2>9, KAssumption DEF Grades
<1> QED BY <1>12, <1>13, <1>14
-----------------------------------------------------------------------------
\* Crisp rules derive crisp rules.

LEMMA CrispParts ==
  ASSUME NEW A, NEW B, Crisp(A)
  PROVE  /\ Crisp(set_setminus(A, B))
         /\ Crisp(B) => Crisp(set_union(A, B))
BY DEF Crisp, set_setminus, set_union

LEMMA CrispDegrees ==
  ASSUME CrispInput
  PROVE  L \subseteq {0, K}
BY DEF CrispInput, Crisp, L

LEMMA CrispCandidate ==
  ASSUME NEW alpha, NEW beta \in {0, K}, NEW A, NEW B, NEW C, NEW D \in AttrSets, Crisp(D),
         logic \in LogicNames \ {"Product"}
  PROVE  Crisp(Candidate(alpha, beta, A, B, C, D).rhs)
<1> DEFINE bD == otimes(beta, D)
           H == set_setminus(bD, otimes(alpha, A))
<1>1. Crisp(bD)
  <2> SUFFICES ASSUME NEW c \in Attributes PROVE tnorm(logic, beta, D[c]) \in {0, K}
    BY DEF Crisp, otimes
  <2>1. D[c] \in {0, K} /\ D[c] \in Grades /\ 0 \in Grades /\ K \in Grades
    BY KAssumption DEF Crisp, AttrSets, Grades
  <2>2. tnorm(logic, K, D[c]) = D[c]
    BY <2>1, UnitLaws
  <2>3. tnorm(logic, 0, D[c]) = 0
    <3>1. tnorm(logic, 0, D[c]) <= 0
      BY <2>1, UnitLaws
    <3>2. tnorm(logic, 0, D[c]) \in Grades
      BY <2>1, LogicTypes
    <3> QED BY <3>1, <3>2, KAssumption DEF Grades
  <2> QED BY <2>1, <2>2, <2>3
<1>2. Crisp(H)
  <2> HIDE DEF bD
  <2> QED BY <1>1, CrispParts
<1>3. \A X, Y : Crisp(set_setminus(set_setminus(H, X), Y))
  <2> HIDE DEF H
  <2> QED BY <1>2, CrispParts
<1>4. LET d == Candidate(alpha, beta, A, B, C, D)
      IN  d.rhs = H \/ \E X, Y : d.rhs = set_setminus(set_setminus(H, X), Y)
  BY DEF Candidate
<1> HIDE DEF H
<1> QED BY <1>2, <1>3, <1>4

LEMMA CrispDerived ==
  ASSUME NEW A, NEW B, NEW C, NEW D \in AttrSets, Crisp(D), CrispInput,
         logic \in LogicNames \ {"Product"}
  PROVE  \A d \in add_derived(A, B, C, D) : Crisp(d.rule.rhs)
<1> SUFFICES ASSUME NEW d \in add_derived(A, B, C, D) PROVE Crisp(d.rule.rhs)
  OBVIOUS
<1>1. PICK p \in L \X L : d = [degrees |-> p, rule |-> Candidate(p[1], p[2], A, B, C, D)]
  BY DEF add_derived
<1>2. p[2] \in {0, K}
  BY CrispDegrees
<1>3. Crisp(Candidate(p[1], p[2], A, B, C, D).rhs)
  BY <1>2, CrispCandidate
<1> QED BY <1>1, <1>3

\* A system of crisp conclusions, and a worklist of rules with such.
CrispRules(rules) == \A A \in DOMAIN rules : Crisp(rules[A])
CrispEntries(queue) == \A e \in queue : Crisp(e.rule.rhs)

LEMMA CrispMerged ==
  ASSUME NEW rules, NEW new, CrispRules(rules), \A r \in new : Crisp(r.rhs)
  PROVE  CrispRules(Merged(rules, new))
<1> SUFFICES ASSUME NEW G \in DOMAIN Merged(rules, new), NEW c \in Attributes
             PROVE  Merged(rules, new)[G][c] \in {0, K}
  BY DEF CrispRules, Crisp
<1> DEFINE T == {IF G \in DOMAIN rules THEN rules[G][c] ELSE 0}
                  \cup {r.rhs[c] : r \in {x \in new : x.lhs = G}}
<1>1. Merged(rules, new)[G][c] = Max(T)
  BY DEF Merged
<1>2. T \subseteq {0, K} /\ T # {}
  BY DEF CrispRules, Crisp
<1>3. Max(T) \in T
  <2> HIDE DEF T
  <2>1. T \in SUBSET (0 .. K)
    BY <1>2, KAssumption
  <2> QED BY <1>2, <2>1, NatMax, KAssumption
<1> HIDE DEF T
<1> QED BY <1>1, <1>2, <1>3

LEMMA CrispPropagated ==
  ASSUME NEW A, NEW B \in AttrSets, NEW news, NEW others, SystemType(others),
         Crisp(B), CrispRules(others), CrispInput, logic \in LogicNames \ {"Product"}
  PROVE  CrispEntries(Propagated(A, B, news, others))
<1> SUFFICES ASSUME NEW e \in Propagated(A, B, news, others) PROVE Crisp(e.rule.rhs)
  BY DEF CrispEntries
<1> DEFINE Entry(C, place, rule) ==
             [turn |-> iterations + 1, of |-> C, place |-> place, rule |-> rule]
<1>1. \/ \E C \in DOMAIN others : e = Entry(C, 0, [lhs |-> C, rhs |-> others[C]])
      \/ \E C \in DOMAIN others : \E d \in add_derived(A, B, C, others[C]) :
           e = Entry(C, Place(0, d.degrees), d.rule)
      \/ \E C \in DOMAIN others : \E d \in add_derived(C, others[C], A, B) :
           e = Entry(C, Place(1, d.degrees), d.rule)
  BY DEF Propagated
<1>2. \E C \in DOMAIN others :
        \/ e.rule.rhs = others[C]
        \/ \E d \in add_derived(A, B, C, others[C]) : e.rule.rhs = d.rule.rhs
        \/ \E d \in add_derived(C, others[C], A, B) : e.rule.rhs = d.rule.rhs
  BY <1>1
<1>3. \A C \in DOMAIN others : others[C] \in AttrSets /\ Crisp(others[C])
  BY DEF SystemType, CrispRules
<1>4. \A C \in DOMAIN others :
        /\ \A d \in add_derived(A, B, C, others[C]) : Crisp(d.rule.rhs)
        /\ \A d \in add_derived(C, others[C], A, B) : Crisp(d.rule.rhs)
  BY <1>3, CrispDerived
<1> QED BY <1>2, <1>3, <1>4

LEMMA CrispPairs ==
  ASSUME NEW pairs, pairs \subseteq Premises \X Premises, SystemType(sigma),
         CrispRules(sigma), CrispInput, logic \in LogicNames \ {"Product"}
  PROVE  CrispRules(Merged(sigma, Derived(pairs)))
<1>1. ASSUME NEW r \in Derived(pairs) PROVE Crisp(r.rhs)
  <2>1. PICK p \in pairs : \E d \in add_derived(p[1], sigma[p[1]], p[2], sigma[p[2]]) : r = d.rule
    BY DEF Derived
  <2>2. p[2] \in DOMAIN sigma
    BY DEF Premises
  <2>3. sigma[p[2]] \in AttrSets /\ Crisp(sigma[p[2]])
    BY <2>2 DEF SystemType, CrispRules
  <2> QED BY <2>1, <2>3, CrispDerived
<1> QED BY <1>1, CrispMerged

LEMMA CrispChanges ==
  ASSUME NEW rules, CrispRules(rules)
  PROVE  /\ \A A, B : Crisp(B) => CrispRules(With(rules, A, B))
         /\ \A A : CrispRules(Without(rules, A))
         /\ CrispRules(Pruned(rules))
<1>1. /\ \A A, B : Crisp(B) => CrispRules(With(rules, A, B))
      /\ \A A : CrispRules(Without(rules, A))
  BY DEF CrispRules, With, Without
<1>2. CrispRules(Pruned(rules))
  <2> SUFFICES ASSUME NEW A \in DOMAIN Pruned(rules) PROVE Crisp(Pruned(rules)[A])
    BY DEF CrispRules
  <2>1. A \in DOMAIN rules /\ Pruned(rules)[A] = set_setminus(rules[A], pi(A, Without(rules, A)))
    BY DEF Pruned, Reduced
  <2>2. Crisp(rules[A])
    BY <2>1 DEF CrispRules
  <2> QED BY <2>1, <2>2, CrispParts
<1> QED BY <1>1, <1>2

\* The system read from the columns: it is crisp when they are, and with
\* different premises it has all of them.
LEMMA SparseKeeps ==
  ASSUME DistinctPremises, columns \in Seq(Rules), logic \in LogicNames \ {"Product"}
  PROVE  /\ CrispInput => CrispRules(Sparse_to_Sigma(columns))
         /\ \A V \in AttrSets : ModelOf(V, Sparse_to_Sigma(columns)) => Model(V)
<1> DEFINE s == Sparse_to_Sigma(columns)
           used == {i \in DOMAIN columns : columns[i].rhs # EmptySet}
<1>1. \A i \in used : columns[i].lhs \in DOMAIN s /\ s[columns[i].lhs] = columns[i].rhs
  <2> SUFFICES ASSUME NEW i \in used
               PROVE  columns[i].lhs \in DOMAIN s /\ s[columns[i].lhs] = columns[i].rhs
    OBVIOUS
  <2> DEFINE Last(k) == /\ k \in used
                        /\ columns[k].lhs = columns[i].lhs
                        /\ \A j \in used : columns[j].lhs = columns[i].lhs => j <= k
             i0 == CHOOSE k \in used :
                     /\ columns[k].lhs = columns[i].lhs
                     /\ \A j \in used : columns[j].lhs = columns[i].lhs => j <= k
  <2>1. columns[i].lhs \in DOMAIN s /\ s[columns[i].lhs] = columns[i0].rhs
    BY DEF Sparse_to_Sigma
  <2>2. i \in Int
    OBVIOUS
  <2>3. \A j \in used : columns[j].lhs = columns[i].lhs => j = i
    BY DEF DistinctPremises
  <2>4. Last(i)
    BY <2>2, <2>3
  <2>5. Last(i0)
    BY <2>4
  <2>6. i0 = i
    <3> HIDE DEF i0
    <3> QED BY <2>3, <2>5
  <2> QED BY <2>1, <2>6
<1>2. \A A \in DOMAIN s : \E i \in used : columns[i].lhs = A
  BY DEF Sparse_to_Sigma
<1>3. CrispInput => CrispRules(s)
  <2> HIDE DEF s
  <2> QED BY <1>1, <1>2 DEF CrispInput, CrispRules
<1>4. ASSUME NEW V \in AttrSets, ModelOf(V, s), NEW i \in DOMAIN columns
      PROVE  Respects(V, columns[i].lhs, columns[i].rhs)
  <2>1. CASE i \in used
    <3> HIDE DEF s
    <3> QED BY <1>1, <1>4, <2>1 DEF ModelOf
  <2>2. CASE i \notin used
    <3>1. columns[i].rhs = EmptySet /\ columns[i].lhs \in AttrSets
      <4>1. columns[i] \in Rules
        BY <1>4
      <4> QED BY <1>4, <2>2, <4>1 DEF Rules
    <3>2. S(columns[i].lhs, V) \in Grades
      BY <3>1, SubsethoodType
    <3>3. \A c \in Attributes : tnorm(logic, S(columns[i].lhs, V), 0) = 0 /\ 0 <= V[c]
      BY <3>2, UnitLaws, KAssumption DEF AttrSets, Grades
    <3> QED BY <3>1, <3>3 DEF Respects, EmptySet
  <2> QED BY <2>1, <2>2
<1> HIDE DEF s
<1> QED BY <1>3, <1>4 DEF Model, s
-----------------------------------------------------------------------------
\* Nothing is lost: the inductive invariant LossInv, on top of IInv.

\* What IInv says about types.
LEMMA InvTypes ==
  ASSUME IInv
  PROVE  /\ columns \in Seq(Rules) /\ logic \in LogicNames \ {"Product"}
         /\ SystemType(sigma)
         /\ \A e \in W : e.rule.lhs \in AttrSets /\ e.rule.rhs \in AttrSets
         /\ GoodRules(columns, logic, sigma)
BY DEF IInv, GoodRules, GoodEntries, Good, SystemType

\* The pairs of a system derive conclusions that are fuzzy sets.
LEMMA DerivedSets ==
  ASSUME NEW pairs, pairs \subseteq Premises \X Premises, IInv
  PROVE  \A r \in Derived(pairs) : r.rhs \in AttrSets
<1> SUFFICES ASSUME NEW r \in Derived(pairs) PROVE r.rhs \in AttrSets
  OBVIOUS
<1>1. PICK p \in pairs : \E d \in add_derived(p[1], sigma[p[1]], p[2], sigma[p[2]]) : r = d.rule
  BY DEF Derived
<1>2. p[1] \in DOMAIN sigma /\ p[2] \in DOMAIN sigma
  BY DEF Premises
<1>3. /\ columns \in Seq(Rules) /\ logic \in LogicNames \ {"Product"}
      /\ Good(columns, logic, p[1], sigma[p[1]]) /\ Good(columns, logic, p[2], sigma[p[2]])
  BY <1>2, InvTypes DEF GoodRules
<1> QED BY <1>1, <1>3, GoodDerived DEF Rules

\* The arguments do not change, and with them what a model is.
LEMMA SameModels ==
  ASSUME UNCHANGED <<columns, logic, method>>
  PROVE  /\ CrispInput' = CrispInput
         /\ DistinctPremises' = DistinctPremises
         /\ \A V : Model(V)' = Model(V)
         /\ \A V : SystemModel(V)' = /\ ModelOf(V, sigma')
                                     /\ \A e \in W' : Respects(V, e.rule.lhs, e.rule.rhs)
<1>1. CrispInput' = CrispInput
  BY DEF CrispInput, Crisp
<1>2. DistinctPremises' = DistinctPremises
  BY DEF DistinctPremises
<1>3. ASSUME NEW V PROVE Model(V)' = Model(V)
  BY DEF Model, Respects, S
<1>4. ASSUME NEW V
      PROVE  SystemModel(V)' = /\ ModelOf(V, sigma')
                               /\ \A e \in W' : Respects(V, e.rule.lhs, e.rule.rhs)
  BY DEF SystemModel, ModelOf, Respects, S
<1> QED BY <1>1, <1>2, <1>3, <1>4, Zenon

\* When a step leaves every model of the system a model of the old system, and
\* NothingLost said something before, it loses nothing.
LEMMA StepKeeps ==
  ASSUME NothingLost, UNCHANGED <<columns, logic, method>>, pc # "read",
         CrispInput \/ (pc' \in {"saturate", "monotonic"} /\ method # "do_sp") =>
           /\ CrispInput \/ (pc \in {"saturate", "monotonic"} /\ method # "do_sp")
           /\ DistinctPremises =>
                \A V \in AttrSets :
                  ModelOf(V, sigma') /\ (\A e \in W' : Respects(V, e.rule.lhs, e.rule.rhs))
                    => SystemModel(V)
  PROVE  NothingLost'
<1> SUFFICES ASSUME DistinctPremises', method' # "priority", pc' # "read",
                    CrispInput' \/ (pc' \in {"saturate", "monotonic"} /\ method' # "do_sp"),
                    NEW V \in AttrSets, SystemModel(V)'
             PROVE  Model(V)'
  <2>1. AttrSets' = AttrSets
    BY DEF AttrSets
  <2> QED BY <2>1, Zenon DEF NothingLost
<1>1. DistinctPremises /\ method # "priority"
  BY SameModels
<1>2. CrispInput \/ (pc' \in {"saturate", "monotonic"} /\ method # "do_sp")
  BY SameModels
<1>3. ModelOf(V, sigma') /\ \A e \in W' : Respects(V, e.rule.lhs, e.rule.rhs)
  BY SameModels
<1>4. SystemModel(V)
  BY <1>1, <1>2, <1>3
<1>5. Model(V)
  BY <1>1, <1>2, <1>4 DEF NothingLost
<1> QED BY <1>5, SameModels

\* Where the reduction leaves nothing of a degree, one pass derives it.
LEMMA ReducedAway ==
  ASSUME NEW A \in AttrSets, NEW B \in AttrSets, NEW rules, SystemType(rules),
         NEW c \in Attributes, logic \in LogicNames \ {"Product"},
         Reduced(A, B, rules)[c] = 0
  PROVE  B[c] <= pi(A, Without(rules, A))[c]
<1> DEFINE p == pi(A, Without(rules, A))[c]
<1>1. p \in Grades
  <2>1. \A X \in DOMAIN Without(rules, A) :
          X \in AttrSets /\ Without(rules, A)[X] \in AttrSets
    BY DEF Without, SystemType
  <2> QED BY <2>1, PiDegrees
<1>2. Reduced(A, B, rules)[c] = IF p >= B[c] THEN 0 ELSE B[c]
  BY DEF Reduced, set_setminus
<1>3. B[c] \in Grades
  BY DEF AttrSets
<1> HIDE DEF p
<1>4. B[c] <= p
  BY <1>1, <1>2, <1>3, KAssumption DEF Grades
<1> QED BY <1>4 DEF p

LEMMA ReadKeeps == IInv /\ LossInv /\ Read => LossInv'
<1> SUFFICES ASSUME IInv, LossInv, Read PROVE LossInv'
  OBVIOUS
<1> DEFINE s == Sparse_to_Sigma(columns)
<1>1. UNCHANGED <<columns, logic, method, redundant>> /\ pc = "read"
  BY DEF Read, inputs
<1>2. columns \in Seq(Rules) /\ logic \in LogicNames \ {"Product"}
  BY InvTypes
<1>3. DistinctPremises => /\ CrispInput => CrispRules(s)
                          /\ \A V \in AttrSets : ModelOf(V, s) => Model(V)
  BY <1>2, SparseKeeps
<1>4. CASE method \in {"monotonic", "priority"}
  <2>1. /\ pc' = method
        /\ W' = {[turn |-> 0, of |-> A, place |-> 0, rule |-> [lhs |-> A, rhs |-> s[A]]] :
                   A \in DOMAIN s}
        /\ sigma' = sigma
    BY <1>4 DEF Read
  <2>2. \A e \in W' : e.rule.lhs \in DOMAIN s /\ e.rule.rhs = s[e.rule.lhs]
    <3> HIDE DEF s
    <3> QED BY <2>1
  <2>3. \A A \in DOMAIN s : \E e \in W' : e.rule.lhs = A /\ e.rule.rhs = s[A]
    <3> HIDE DEF s
    <3> SUFFICES ASSUME NEW A \in DOMAIN s
                 PROVE  \E e \in W' : e.rule.lhs = A /\ e.rule.rhs = s[A]
      OBVIOUS
    <3> DEFINE e == [turn |-> 0, of |-> A, place |-> 0, rule |-> [lhs |-> A, rhs |-> s[A]]]
    <3>1. e \in W' /\ e.rule.lhs = A /\ e.rule.rhs = s[A]
      BY <2>1
    <3> QED BY <3>1
  <2> HIDE DEF s
  <2>4. CrispInput' /\ DistinctPremises' =>
          /\ \A A \in Premises' : Crisp(sigma'[A])
          /\ \A e \in W' : Crisp(e.rule.rhs)
    <3>1. SUFFICES ASSUME CrispInput, DistinctPremises
                   PROVE  /\ \A A \in Premises' : Crisp(sigma'[A])
                          /\ \A e \in W' : Crisp(e.rule.rhs)
      BY <1>1, SameModels
    <3>2. \A A \in Premises' : Crisp(sigma'[A])
      BY <2>1, <3>1 DEF LossInv, Premises
    <3>3. \A e \in W' : Crisp(e.rule.rhs)
      BY <1>3, <2>2, <3>1 DEF CrispRules
    <3> QED BY <3>2, <3>3
  <2>5. \A A \in redundant' : A \in Premises' /\ Reduced(A, sigma[A], sigma)' = EmptySet
    <3>1. \A A \in redundant : A \in Premises /\ Reduced(A, sigma[A], sigma) = EmptySet
      BY <1>1 DEF LossInv
    <3>2. \A A : Reduced(A, sigma[A], sigma)' = Reduced(A, sigma[A], sigma)
      BY <1>1, <2>1 DEF Reduced, set_setminus, pi, Without, S
    <3> QED BY <1>1, <2>1, <3>1, <3>2 DEF Premises
  <2>6. NothingLost'
    <3> SUFFICES ASSUME DistinctPremises', NEW V \in AttrSets, SystemModel(V)'
                 PROVE  Model(V)'
      BY DEF NothingLost, AttrSets
    <3>1. \A e \in W' : Respects(V, e.rule.lhs, e.rule.rhs)
      BY <1>1, SameModels
    <3>2. ModelOf(V, s)
      BY <2>3, <3>1 DEF ModelOf
    <3>3. DistinctPremises
      BY <1>1, SameModels
    <3>4. Model(V)
      BY <1>3, <3>2, <3>3
    <3> QED BY <1>1, <3>4, SameModels
  <2>7. pc' = "priority" => method' = "priority"
    BY <1>1, <2>1
  <2> QED BY <2>4, <2>5, <2>6, <2>7 DEF LossInv, Crisp, EmptySet
<1>5. CASE method \notin {"monotonic", "priority"}
  <2>1. pc' = "saturate" /\ sigma' = s /\ W' = W
    BY <1>5 DEF Read
  <2> HIDE DEF s
  <2>2. CrispInput' /\ DistinctPremises' =>
          /\ \A A \in Premises' : Crisp(sigma'[A])
          /\ \A e \in W' : Crisp(e.rule.rhs)
    <3>1. SUFFICES ASSUME CrispInput, DistinctPremises
                   PROVE  /\ \A A \in Premises' : Crisp(sigma'[A])
                          /\ \A e \in W' : Crisp(e.rule.rhs)
      BY <1>1, SameModels
    <3> QED BY <1>3, <2>1, <3>1 DEF LossInv, Premises, CrispRules
  <2>3. NothingLost'
    <3> SUFFICES ASSUME DistinctPremises', NEW V \in AttrSets, SystemModel(V)'
                 PROVE  Model(V)'
      BY DEF NothingLost, AttrSets
    <3>1. ModelOf(V, s)
      BY <1>1, <2>1, SameModels
    <3>2. DistinctPremises
      BY <1>1, SameModels
    <3>3. Model(V)
      BY <1>3, <3>1, <3>2
    <3> QED BY <1>1, <3>3, SameModels
  <2> QED BY <2>1, <2>2, <2>3 DEF LossInv, Crisp
<1> QED BY <1>4, <1>5

LEMMA SaturateKeeps == IInv /\ IInv' /\ LossInv /\ (SaturatePass \/ SaturateOnce) => LossInv'
<1> SUFFICES ASSUME IInv, IInv', LossInv, SaturatePass \/ SaturateOnce PROVE LossInv'
  OBVIOUS
<1>1. /\ UNCHANGED <<columns, logic, method, W>>
      /\ pc = "saturate" /\ pc' \in {"saturate", "prune"}
      /\ method = "do_sp" => pc' = "prune"
  BY DEF SaturatePass, SaturateOnce, inputs
<1>2. /\ columns \in Seq(Rules) /\ logic \in LogicNames \ {"Product"}
      /\ SystemType(sigma) /\ GoodRules(columns, logic, sigma)
  BY InvTypes
<1>3. SystemType(sigma')
  BY DEF IInv, GoodRules, Good, SystemType
<1>4. PICK pairs : /\ pairs \subseteq Premises \X Premises
                   /\ sigma' = Merged(sigma, Derived(pairs))
  BY DEF SaturatePass, SaturateOnce, IInv
<1>5. \A r \in Derived(pairs) : r.rhs \in AttrSets
  BY <1>4, DerivedSets
<1>6. Within(sigma, sigma')
  BY <1>2, <1>4, <1>5, WithinMerged
<1>7. NothingLost'
  <2>1. \A V \in AttrSets :
          ModelOf(V, sigma') /\ (\A e \in W' : Respects(V, e.rule.lhs, e.rule.rhs))
            => SystemModel(V)
    BY <1>1, <1>2, <1>3, <1>6, WithinModel DEF SystemModel
  <2> QED BY <1>1, <2>1, StepKeeps DEF LossInv
<1>8. CrispInput' /\ DistinctPremises' =>
        /\ \A A \in Premises' : Crisp(sigma'[A])
        /\ \A e \in W' : Crisp(e.rule.rhs)
  <2>1. SUFFICES ASSUME CrispInput, DistinctPremises
                 PROVE  /\ \A A \in Premises' : Crisp(sigma'[A])
                        /\ \A e \in W' : Crisp(e.rule.rhs)
    BY <1>1, SameModels
  <2>2. CrispRules(sigma)
    BY <2>1 DEF LossInv, CrispRules, Premises
  <2>3. CrispRules(sigma')
    BY <1>2, <1>4, <2>1, <2>2, CrispPairs
  <2> QED BY <1>1, <2>1, <2>3 DEF LossInv, CrispRules, Premises
<1> QED BY <1>1, <1>7, <1>8 DEF LossInv, Crisp

LEMMA PruneKeeps == IInv /\ IInv' /\ LossInv /\ (PrunePass \/ PruneOnce) => LossInv'
<1> SUFFICES ASSUME IInv, IInv', LossInv, PrunePass \/ PruneOnce PROVE LossInv'
  OBVIOUS
<1>1. /\ UNCHANGED <<columns, logic, method, W>>
      /\ pc = "prune" /\ pc' \in {"prune", "done", "saturate"}
      /\ pc' = "saturate" => method = "do_sp"
      /\ sigma' = Pruned(sigma)
  BY DEF PrunePass, PruneOnce, inputs
<1>2. /\ logic \in LogicNames \ {"Product"} /\ SystemType(sigma)
  BY InvTypes
<1>3. SystemType(sigma')
  BY DEF IInv, GoodRules, Good, SystemType
<1>4. ASSUME NEW A \in DOMAIN sigma, NEW c \in Attributes
      PROVE  \/ A \in DOMAIN sigma' /\ sigma[A][c] <= sigma'[A][c]
             \/ sigma[A][c] <= pi(A, Without(sigma, A))[c]
  <2>1. A \in AttrSets /\ sigma[A] \in AttrSets
    BY <1>2 DEF SystemType
  <2>2. CASE Reduced(A, sigma[A], sigma)[c] = 0
    BY <1>2, <2>1, <2>2, ReducedAway
  <2>3. CASE Reduced(A, sigma[A], sigma)[c] # 0
    <3>1. Reduced(A, sigma[A], sigma) # EmptySet
      BY <2>3 DEF EmptySet
    <3>2. A \in DOMAIN sigma' /\ sigma'[A] = Reduced(A, sigma[A], sigma)
      BY <1>1, <3>1 DEF Pruned
    <3>3. Reduced(A, sigma[A], sigma)[c] = sigma[A][c]
      BY <2>3 DEF Reduced, set_setminus
    <3>4. sigma[A][c] <= sigma[A][c]
      BY <2>1, KAssumption DEF AttrSets, Grades
    <3> QED BY <3>2, <3>3, <3>4
  <2> QED BY <2>2, <2>3
<1>5. CrispInput /\ DistinctPremises => CrispRules(sigma)
  BY DEF LossInv, CrispRules, Premises
<1>6. NothingLost'
  <2>1. CrispInput /\ DistinctPremises =>
          \A V \in AttrSets : ModelOf(V, sigma') => ModelOf(V, sigma)
    BY <1>2, <1>3, <1>4, <1>5, PruningKeeps DEF CrispRules
  <2>2. CrispInput /\ DistinctPremises =>
          \A V \in AttrSets :
            ModelOf(V, sigma') /\ (\A e \in W' : Respects(V, e.rule.lhs, e.rule.rhs))
              => SystemModel(V)
    BY <1>1, <2>1 DEF SystemModel
  <2> QED BY <1>1, <2>2, StepKeeps DEF LossInv
<1>7. CrispInput' /\ DistinctPremises' =>
        /\ \A A \in Premises' : Crisp(sigma'[A])
        /\ \A e \in W' : Crisp(e.rule.rhs)
  <2>1. SUFFICES ASSUME CrispInput, DistinctPremises
                 PROVE  /\ \A A \in Premises' : Crisp(sigma'[A])
                        /\ \A e \in W' : Crisp(e.rule.rhs)
    BY <1>1, SameModels
  <2>2. CrispRules(sigma')
    BY <1>1, <1>5, <2>1, CrispChanges
  <2> QED BY <1>1, <2>1, <2>2 DEF LossInv, CrispRules, Premises
<1> QED BY <1>1, <1>6, <1>7 DEF LossInv, Crisp

\* A rule of the worklist that is added to the system, reduced by it.
LEMMA AddedKeeps ==
  ASSUME NEW V \in AttrSets, NEW e \in W, NEW B, IInv, SystemType(sigma'),
         LET A == e.rule.lhs
         IN  /\ sigma' = With(sigma, A, B)
             /\ A \in Premises => Leq(sigma[A], B)
             /\ Leq(set_setminus(e.rule.rhs, pi(A, sigma)), B),
         W \ {e} \subseteq W',
         ModelOf(V, sigma'), \A d \in W' : Respects(V, d.rule.lhs, d.rule.rhs)
  PROVE  SystemModel(V)
<1> DEFINE A == e.rule.lhs
           B_new == set_setminus(e.rule.rhs, pi(A, sigma))
<1>1. /\ logic \in LogicNames \ {"Product"} /\ SystemType(sigma)
      /\ A \in AttrSets /\ e.rule.rhs \in AttrSets
  BY InvTypes
<1>2. Within(sigma, sigma')
  <2>1. A \in DOMAIN sigma => Leq(sigma[A], B)
    BY DEF Premises
  <2> HIDE DEF A
  <2>2. Within(sigma, With(sigma, A, B))
    BY <1>1, <2>1, WithinWith
  <2> QED BY <2>2 DEF A
<1>3. ModelOf(V, sigma)
  BY <1>1, <1>2, WithinModel
<1>4. Respects(V, A, B)
  <2>1. A \in DOMAIN sigma' /\ sigma'[A] = B
    BY DEF With
  <2> QED BY <2>1 DEF ModelOf
<1>5. B \in AttrSets /\ B_new \in AttrSets
  <2>1. A \in DOMAIN sigma' /\ sigma'[A] = B
    BY DEF With
  <2>2. K \in Grades
    BY KAssumption DEF Grades
  <2> QED BY <1>1, <2>1, <2>2, OperationTypes DEF SystemType
<1>6. Respects(V, A, B_new)
  <2> HIDE DEF A, B_new
  <2>1. Leq(B_new, B)
    BY DEF A, B_new
  <2> QED BY <1>1, <1>4, <1>5, <2>1, RespectsWeaker
<1>7. Respects(V, A, e.rule.rhs)
  BY <1>1, <1>3, <1>6, RespectsReduced DEF SystemType
<1>8. \A d \in W : Respects(V, d.rule.lhs, d.rule.rhs)
  BY <1>7
<1> QED BY <1>3, <1>8 DEF SystemModel

\* The same when nothing of the rule is left, or nothing of it is new.
LEMMA DroppedKeeps ==
  ASSUME NEW V \in AttrSets, NEW e \in W, IInv, sigma' = sigma, W' = W \ {e},
         LET A == e.rule.lhs
             B_new == set_setminus(e.rule.rhs, pi(A, sigma))
         IN  B_new = EmptySet \/ (A \in Premises /\ Leq(B_new, sigma[A])),
         ModelOf(V, sigma'), \A d \in W' : Respects(V, d.rule.lhs, d.rule.rhs)
  PROVE  SystemModel(V)
<1> DEFINE A == e.rule.lhs
           B_new == set_setminus(e.rule.rhs, pi(A, sigma))
<1>1. /\ logic \in LogicNames \ {"Product"} /\ SystemType(sigma)
      /\ A \in AttrSets /\ e.rule.rhs \in AttrSets
  BY InvTypes
<1>2. B_new \in AttrSets
  <2>1. K \in Grades
    BY KAssumption DEF Grades
  <2> QED BY <1>1, <2>1, OperationTypes
<1>3. Respects(V, A, B_new)
  <2>1. CASE B_new = EmptySet
    <3>1. S(A, V) \in Grades
      BY <1>1, SubsethoodType
    <3>2. \A c \in Attributes : tnorm(logic, S(A, V), 0) = 0 /\ 0 <= V[c]
      BY <1>1, <3>1, UnitLaws, KAssumption DEF AttrSets, Grades
    <3> HIDE DEF B_new, A
    <3> QED BY <2>1, <3>2 DEF Respects, EmptySet
  <2>2. CASE A \in Premises /\ Leq(B_new, sigma[A])
    <3>1. Respects(V, A, sigma[A]) /\ sigma[A] \in AttrSets
      BY <1>1, <2>2 DEF ModelOf, Premises, SystemType
    <3> HIDE DEF B_new, A
    <3> QED BY <1>1, <1>2, <2>2, <3>1, RespectsWeaker
  <2> QED BY <2>1, <2>2
<1>4. Respects(V, A, e.rule.rhs)
  BY <1>1, <1>3, RespectsReduced DEF SystemType
<1>5. \A d \in W : Respects(V, d.rule.lhs, d.rule.rhs)
  BY <1>4
<1> QED BY <1>5 DEF SystemModel

\* When a rule grows, those marked redundant still follow from the others.
LEMMA RedundantStays ==
  ASSUME NEW rules, NEW A, NEW B, NEW R, SystemType(rules), SystemType(With(rules, A, B)),
         A \in DOMAIN rules => Leq(rules[A], B),
         R \in DOMAIN rules, R # A, Reduced(R, rules[R], rules) = EmptySet,
         logic \in LogicNames \ {"Product"}
  PROVE  /\ R \in DOMAIN With(rules, A, B)
         /\ Reduced(R, With(rules, A, B)[R], With(rules, A, B)) = EmptySet
<1> DEFINE more == With(rules, A, B)
           p == pi(R, Without(rules, R))
           q == pi(R, Without(more, R))
<1>1. R \in DOMAIN more /\ more[R] = rules[R] /\ R \in AttrSets /\ rules[R] \in AttrSets
  BY DEF With, SystemType
<1>2. SystemType(Without(rules, R)) /\ SystemType(Without(more, R))
  BY DEF SystemType, Without
<1>3. Within(Without(rules, R), Without(more, R))
  <2>1. Within(rules, more)
    BY WithinWith
  <2> HIDE DEF more
  <2> QED BY <2>1 DEF Within, Without
<1>4. Leq(p, q)
  <2> HIDE DEF more
  <2> QED BY <1>1, <1>2, <1>3, PiMonotone
<1>5. ASSUME NEW c \in Attributes PROVE set_setminus(rules[R], q)[c] = 0
  <2>1. Reduced(R, rules[R], rules)[c] = 0
    BY DEF EmptySet
  <2>2. rules[R][c] <= p[c]
    BY <1>1, <2>1, ReducedAway
  <2>3. p[c] \in Grades /\ q[c] \in Grades
    <3> HIDE DEF more
    <3> QED BY <1>1, <1>2, PiDegrees DEF SystemType
  <2>4. rules[R][c] \in Grades /\ p[c] <= q[c]
    BY <1>1, <1>4 DEF AttrSets, Leq
  <2> HIDE DEF p, q
  <2> QED BY <2>2, <2>3, <2>4, KAssumption DEF Grades, set_setminus
<1>6. set_setminus(rules[R], q) = EmptySet
  <2> HIDE DEF q
  <2> QED BY <1>5 DEF set_setminus, EmptySet
<1> QED BY <1>1, <1>6 DEF Reduced

\* Whether a rule is redundant does not depend on its own conclusion.
LEMMA RedundantItself ==
  ASSUME NEW rules, NEW A, NEW B, NEW C
  PROVE  Reduced(A, C, With(rules, A, B)) = Reduced(A, C, rules)
<1>1. Without(With(rules, A, B), A) = Without(rules, A)
  BY DEF Without, With
<1> QED BY <1>1 DEF Reduced

\* The premises marked redundant, in the state after a step.
LEMMA SameReduced ==
  ASSUME logic' = logic
  PROVE  \A A : Reduced(A, sigma[A], sigma)' = Reduced(A, sigma'[A], sigma')
BY DEF Reduced, set_setminus, pi, Without, S

LEMMA MonotonicNewKeeps == IInv /\ IInv' /\ LossInv /\ MonotonicNew => LossInv'
<1> SUFFICES ASSUME IInv, IInv', LossInv, MonotonicNew PROVE LossInv'
  OBVIOUS
<1>1. UNCHANGED <<columns, logic, method, redundant>> /\ pc = "monotonic" /\ pc' = pc
  BY DEF MonotonicNew, inputs
<1>2. /\ columns \in Seq(Rules) /\ logic \in LogicNames \ {"Product"}
      /\ SystemType(sigma)
      /\ \A e \in W : e.rule.lhs \in AttrSets /\ e.rule.rhs \in AttrSets
  BY InvTypes
<1>3. SystemType(sigma')
  BY DEF IInv, GoodRules, Good, SystemType
<1>4. PICK e \in W :
        /\ e.rule.lhs \notin Premises
        /\ LET A == e.rule.lhs
               B_new == set_setminus(e.rule.rhs, pi(A, sigma))
           IN  IF B_new # EmptySet
               THEN /\ sigma' = With(sigma, A, B_new)
                    /\ W' = (W \ {e}) \cup Propagated(A, B_new, B_new, sigma')
               ELSE W' = W \ {e} /\ sigma' = sigma
  BY Zenon DEF MonotonicNew
<1> DEFINE A == e.rule.lhs
           B_new == set_setminus(e.rule.rhs, pi(A, sigma))
<1>5. /\ A \in AttrSets /\ A \notin Premises
      /\ B_new \in AttrSets /\ Leq(B_new, B_new)
  <2>1. K \in Grades
    BY KAssumption DEF Grades
  <2>2. B_new \in AttrSets
    BY <1>2, <2>1, OperationTypes
  <2> HIDE DEF B_new
  <2> QED BY <1>2, <1>4, <2>2, LeqReflexive
<1>6. \/ /\ sigma' = With(sigma, A, B_new)
         /\ W' = (W \ {e}) \cup Propagated(A, B_new, B_new, sigma')
      \/ B_new = EmptySet /\ W' = W \ {e} /\ sigma' = sigma
  BY <1>4
<1>7. ASSUME NEW V \in AttrSets, ModelOf(V, sigma'),
             \A d \in W' : Respects(V, d.rule.lhs, d.rule.rhs)
      PROVE  SystemModel(V)
  <2>1. CASE /\ sigma' = With(sigma, A, B_new)
             /\ W' = (W \ {e}) \cup Propagated(A, B_new, B_new, sigma')
    <3>1. W \ {e} \subseteq W'
      BY <2>1
    <3> QED BY <1>3, <1>5, <1>7, <2>1, <3>1, AddedKeeps
  <2>2. CASE B_new = EmptySet /\ W' = W \ {e} /\ sigma' = sigma
    BY <1>7, <2>2, DroppedKeeps
  <2> QED BY <1>6, <2>1, <2>2
<1>8. NothingLost'
  BY <1>1, <1>7, StepKeeps DEF LossInv
<1>9. ASSUME NEW R \in redundant'
      PROVE  R \in Premises' /\ Reduced(R, sigma[R], sigma)' = EmptySet
  <2>1. R \in Premises /\ Reduced(R, sigma[R], sigma) = EmptySet
    BY <1>1, <1>9 DEF LossInv
  <2>2. R \in DOMAIN sigma' /\ Reduced(R, sigma'[R], sigma') = EmptySet
    <3> HIDE DEF A, B_new
    <3>1. CASE sigma' = sigma
      BY <2>1, <3>1 DEF Premises
    <3>2. CASE sigma' = With(sigma, A, B_new)
      BY <1>2, <1>3, <1>5, <2>1, <3>2, RedundantStays DEF Premises
    <3> QED BY <1>6, <3>1, <3>2
  <2> QED BY <1>1, <2>2, SameReduced DEF Premises
<1>10. CrispInput' /\ DistinctPremises' =>
        /\ \A X \in Premises' : Crisp(sigma'[X])
        /\ \A d \in W' : Crisp(d.rule.rhs)
  <2>1. SUFFICES ASSUME CrispInput, DistinctPremises
                 PROVE  /\ \A X \in Premises' : Crisp(sigma'[X])
                        /\ \A d \in W' : Crisp(d.rule.rhs)
    BY <1>1, SameModels
  <2>2. CrispRules(sigma) /\ CrispEntries(W)
    BY <2>1 DEF LossInv, CrispRules, CrispEntries, Premises
  <2>3. Crisp(B_new)
    BY <2>2, CrispParts DEF CrispEntries
  <2> HIDE DEF A, B_new
  <2>4. CrispRules(With(sigma, A, B_new))
    BY <2>2, <2>3, CrispChanges
  <2>5. CrispRules(sigma')
    BY <1>6, <2>2, <2>4
  <2>6. CrispEntries(Propagated(A, B_new, B_new, sigma'))
    BY <1>2, <1>3, <1>5, <2>1, <2>3, <2>5, CrispPropagated
  <2>7. CrispEntries(W')
    BY <1>6, <2>2, <2>6 DEF CrispEntries
  <2> QED BY <2>5, <2>7 DEF CrispRules, CrispEntries, Premises
<1> QED BY <1>1, <1>8, <1>9, <1>10 DEF LossInv, Crisp, EmptySet

LEMMA MonotonicMergeKeeps == IInv /\ IInv' /\ LossInv /\ MonotonicMerge => LossInv'
<1> SUFFICES ASSUME IInv, IInv', LossInv, MonotonicMerge PROVE LossInv'
  OBVIOUS
<1>1. UNCHANGED <<columns, logic, method>> /\ pc = "monotonic" /\ pc' = pc
  BY DEF MonotonicMerge, inputs
<1>2. /\ columns \in Seq(Rules) /\ logic \in LogicNames \ {"Product"}
      /\ SystemType(sigma)
      /\ \A e \in W : e.rule.lhs \in AttrSets /\ e.rule.rhs \in AttrSets
  BY InvTypes
<1>3. SystemType(sigma')
  BY DEF IInv, GoodRules, Good, SystemType
<1>4. PICK e \in W :
        /\ e.rule.lhs \in Premises
        /\ LET A == e.rule.lhs
               B_new == set_setminus(e.rule.rhs, pi(A, sigma))
               B_merged == set_union(sigma[A], B_new)
               is_redundant == Reduced(A, B_merged, sigma) = EmptySet
           IN  IF B_merged # sigma[A] \/ is_redundant # (A \in redundant)
               THEN /\ sigma' = With(sigma, A, B_merged)
                    /\ redundant' = IF is_redundant THEN redundant \cup {A} ELSE redundant \ {A}
                    /\ W' = (W \ {e}) \cup Propagated(A, B_merged, B_new, sigma')
               ELSE W' = W \ {e} /\ UNCHANGED <<sigma, redundant>>
  BY Zenon DEF MonotonicMerge
<1> DEFINE A == e.rule.lhs
           B_new == set_setminus(e.rule.rhs, pi(A, sigma))
           B_merged == set_union(sigma[A], B_new)
<1>5. /\ A \in AttrSets /\ A \in DOMAIN sigma /\ A \in Premises
      /\ sigma[A] \in AttrSets /\ B_new \in AttrSets
  <2>1. K \in Grades
    BY KAssumption DEF Grades
  <2>2. B_new \in AttrSets
    BY <1>2, <2>1, OperationTypes
  <2> HIDE DEF B_new
  <2> QED BY <1>2, <1>4, <2>2 DEF Premises, SystemType
<1>6. Leq(sigma[A], B_merged) /\ Leq(B_new, B_merged) /\ B_merged \in AttrSets
  <2>1. K \in Grades
    BY KAssumption DEF Grades
  <2> HIDE DEF A, B_new
  <2> QED BY <1>2, <1>5, <2>1, UnionAbove, OperationTypes
<1>7. \/ /\ sigma' = With(sigma, A, B_merged)
         /\ redundant' = IF Reduced(A, B_merged, sigma) = EmptySet
                         THEN redundant \cup {A} ELSE redundant \ {A}
         /\ W' = (W \ {e}) \cup Propagated(A, B_merged, B_new, sigma')
      \/ /\ B_merged = sigma[A]
         /\ W' = W \ {e} /\ sigma' = sigma /\ redundant' = redundant
  BY <1>4
<1>8. ASSUME NEW V \in AttrSets, ModelOf(V, sigma'),
             \A d \in W' : Respects(V, d.rule.lhs, d.rule.rhs)
      PROVE  SystemModel(V)
  <2>1. CASE /\ sigma' = With(sigma, A, B_merged)
             /\ W' = (W \ {e}) \cup Propagated(A, B_merged, B_new, sigma')
    <3>1. W \ {e} \subseteq W'
      BY <2>1
    <3>2. /\ Leq(sigma[e.rule.lhs], B_merged)
          /\ Leq(set_setminus(e.rule.rhs, pi(e.rule.lhs, sigma)), B_merged)
          /\ sigma' = With(sigma, e.rule.lhs, B_merged)
      BY <1>6, <2>1
    <3> HIDE DEF A, B_new, B_merged
    <3> QED BY <1>3, <1>8, <3>1, <3>2, AddedKeeps
  <2>2. CASE B_merged = sigma[A] /\ W' = W \ {e} /\ sigma' = sigma
    <3>1. /\ Leq(set_setminus(e.rule.rhs, pi(e.rule.lhs, sigma)), sigma[e.rule.lhs])
          /\ e.rule.lhs \in Premises
      <4>1. Leq(B_new, sigma[A])
        <5> HIDE DEF A, B_new, B_merged
        <5> QED BY <1>6, <2>2
      <4> QED BY <1>5, <4>1
    <3> HIDE DEF A, B_new, B_merged
    <3> QED BY <1>8, <2>2, <3>1, DroppedKeeps
  <2> QED BY <1>7, <2>1, <2>2
<1>9. NothingLost'
  BY <1>1, <1>8, StepKeeps DEF LossInv
<1> HIDE DEF A, B_new, B_merged
<1>10. ASSUME NEW R \in redundant'
       PROVE  R \in Premises' /\ Reduced(R, sigma[R], sigma)' = EmptySet
  <2>1. R \in redundant => R \in Premises /\ Reduced(R, sigma[R], sigma) = EmptySet
    BY <1>1 DEF LossInv
  <2>2. R \in DOMAIN sigma' /\ Reduced(R, sigma'[R], sigma') = EmptySet
    <3>1. CASE sigma' = sigma /\ redundant' = redundant
      BY <1>10, <2>1, <3>1 DEF Premises
    <3>2. CASE /\ sigma' = With(sigma, A, B_merged)
               /\ redundant' = IF Reduced(A, B_merged, sigma) = EmptySet
                               THEN redundant \cup {A} ELSE redundant \ {A}
      <4>1. CASE R = A
        <5>1. Reduced(A, B_merged, sigma) = EmptySet
          BY <1>10, <3>2, <4>1
        <5>2. A \in DOMAIN sigma' /\ sigma'[A] = B_merged
          BY <3>2 DEF With
        <5> QED BY <3>2, <4>1, <5>1, <5>2, RedundantItself
      <4>2. CASE R # A
        <5>1. R \in DOMAIN sigma /\ Reduced(R, sigma[R], sigma) = EmptySet
          BY <1>10, <2>1, <3>2, <4>2 DEF Premises
        <5> QED BY <1>2, <1>3, <1>6, <3>2, <4>2, <5>1, RedundantStays
      <4> QED BY <4>1, <4>2
    <3> QED BY <1>7, <3>1, <3>2
  <2> QED BY <1>1, <2>2, SameReduced DEF Premises
<1>11. CrispInput' /\ DistinctPremises' =>
         /\ \A X \in Premises' : Crisp(sigma'[X])
         /\ \A d \in W' : Crisp(d.rule.rhs)
  <2>1. SUFFICES ASSUME CrispInput, DistinctPremises
                 PROVE  /\ \A X \in Premises' : Crisp(sigma'[X])
                        /\ \A d \in W' : Crisp(d.rule.rhs)
    BY <1>1, SameModels
  <2>2. CrispRules(sigma) /\ CrispEntries(W)
    BY <2>1 DEF LossInv, CrispRules, CrispEntries, Premises
  <2>3. Crisp(B_new) /\ Crisp(sigma[A])
    BY <1>5, <2>2, CrispParts DEF CrispEntries, CrispRules, B_new
  <2>4. Crisp(B_merged)
    BY <2>3, CrispParts DEF B_merged
  <2>5. CrispRules(With(sigma, A, B_merged))
    BY <2>2, <2>4, CrispChanges
  <2>6. CrispRules(sigma')
    BY <1>7, <2>2, <2>5
  <2>7. CrispEntries(Propagated(A, B_merged, B_new, sigma'))
    BY <1>2, <1>3, <1>6, <2>1, <2>4, <2>6, CrispPropagated
  <2>8. CrispEntries(W')
    BY <1>7, <2>2, <2>7 DEF CrispEntries
  <2> QED BY <2>6, <2>8 DEF CrispRules, CrispEntries, Premises
<1> QED BY <1>1, <1>9, <1>10, <1>11 DEF LossInv, Crisp, EmptySet

LEMMA MonotonicEndKeeps == IInv /\ IInv' /\ LossInv /\ MonotonicEnd => LossInv'
<1> SUFFICES ASSUME IInv, IInv', LossInv, MonotonicEnd PROVE LossInv'
  OBVIOUS
<1>1. /\ UNCHANGED <<columns, logic, method, W>>
      /\ pc = "monotonic" /\ pc' = "prune"
      /\ sigma' = [A \in Premises \ redundant |-> sigma[A]]
  BY DEF MonotonicEnd, inputs
<1>2. /\ logic \in LogicNames \ {"Product"} /\ SystemType(sigma)
  BY InvTypes
<1>3. SystemType(sigma')
  BY <1>1, <1>2 DEF SystemType, Premises
<1>4. ASSUME NEW A \in DOMAIN sigma, NEW c \in Attributes
      PROVE  \/ A \in DOMAIN sigma' /\ sigma[A][c] <= sigma'[A][c]
             \/ sigma[A][c] <= pi(A, Without(sigma, A))[c]
  <2>1. A \in AttrSets /\ sigma[A] \in AttrSets
    BY <1>2 DEF SystemType
  <2>2. CASE A \in redundant
    <3>1. Reduced(A, sigma[A], sigma)[c] = 0
      BY <1>1, <2>2 DEF LossInv, EmptySet
    <3> QED BY <1>2, <2>1, <3>1, ReducedAway
  <2>3. CASE A \notin redundant
    <3>1. A \in DOMAIN sigma' /\ sigma'[A] = sigma[A]
      BY <1>1, <2>3 DEF Premises
    <3>2. Leq(sigma[A], sigma[A])
      BY <2>1, LeqReflexive
    <3> QED BY <3>1, <3>2 DEF Leq
  <2> QED BY <2>2, <2>3
<1>5. CrispInput /\ DistinctPremises => CrispRules(sigma)
  BY DEF LossInv, CrispRules, Premises
<1>6. NothingLost'
  <2>1. CrispInput /\ DistinctPremises =>
          \A V \in AttrSets : ModelOf(V, sigma') => ModelOf(V, sigma)
    BY <1>2, <1>3, <1>4, <1>5, PruningKeeps DEF CrispRules
  <2>2. CrispInput /\ DistinctPremises =>
          \A V \in AttrSets :
            ModelOf(V, sigma') /\ (\A e \in W' : Respects(V, e.rule.lhs, e.rule.rhs))
              => SystemModel(V)
    BY <1>1, <2>1 DEF SystemModel
  <2> QED BY <1>1, <2>2, StepKeeps DEF LossInv
<1>7. CrispInput' /\ DistinctPremises' =>
        /\ \A A \in Premises' : Crisp(sigma'[A])
        /\ \A e \in W' : Crisp(e.rule.rhs)
  <2>1. SUFFICES ASSUME CrispInput, DistinctPremises
                 PROVE  /\ \A A \in Premises' : Crisp(sigma'[A])
                        /\ \A e \in W' : Crisp(e.rule.rhs)
    BY <1>1, SameModels
  <2> QED BY <1>1, <2>1 DEF LossInv, Premises
<1> QED BY <1>1, <1>6, <1>7 DEF LossInv, Crisp

\* The priority method is only asked to keep crisp rules crisp.
LEMMA PriorityKeeps ==
  IInv /\ IInv' /\ LossInv /\ (PriorityPurge \/ PriorityAdd \/ PriorityEnd) => LossInv'
<1> SUFFICES ASSUME IInv, IInv', LossInv, PriorityPurge \/ PriorityAdd \/ PriorityEnd
             PROVE  LossInv'
  OBVIOUS
<1>1. /\ UNCHANGED <<columns, logic, method>>
      /\ pc = "priority" /\ method' = "priority" /\ pc' \in {"priority", "prune"}
  BY DEF PriorityPurge, PriorityAdd, PriorityEnd, inputs, LossInv
<1>2. /\ columns \in Seq(Rules) /\ logic \in LogicNames \ {"Product"}
      /\ SystemType(sigma)
      /\ \A e \in W : e.rule.lhs \in AttrSets /\ e.rule.rhs \in AttrSets
  BY InvTypes
<1>3. NothingLost'
  BY <1>1 DEF NothingLost
<1>4. ASSUME CrispInput, DistinctPremises
      PROVE  CrispRules(sigma') /\ CrispEntries(W')
  <2>1. CrispRules(sigma) /\ CrispEntries(W)
    BY <1>4 DEF LossInv, CrispRules, CrispEntries, Premises
  <2>2. CASE PriorityPurge
    <3>1. PICK e \in W : sigma' = Without(sigma, e.rule.lhs) /\ W' = W \ {e}
      BY <2>2 DEF PriorityPurge
    <3> QED BY <2>1, <3>1, CrispChanges DEF CrispEntries
  <2>3. CASE PriorityAdd
    <3>1. PICK e \in W :
            LET A == e.rule.lhs
                B_new == Reduced(A, e.rule.rhs, sigma)
                B_merged == IF A \in Premises THEN set_union(sigma[A], B_new) ELSE B_new
            IN  IF A \notin Premises \/ B_merged # sigma[A]
                THEN /\ sigma' = With(sigma, A, B_merged)
                     /\ W' = (W \ {e})
                               \cup Propagated(A, B_merged, B_new, Without(sigma, A))
                ELSE W' = W \ {e} /\ sigma' = sigma
      BY <2>3, Zenon DEF PriorityAdd
    <3> DEFINE A == e.rule.lhs
               B_new == Reduced(A, e.rule.rhs, sigma)
               B_merged == IF A \in Premises THEN set_union(sigma[A], B_new) ELSE B_new
    <3>2. \/ /\ sigma' = With(sigma, A, B_merged)
             /\ W' = (W \ {e}) \cup Propagated(A, B_merged, B_new, Without(sigma, A))
          \/ W' = W \ {e} /\ sigma' = sigma
      BY <3>1
    <3>3. B_new \in AttrSets /\ Crisp(B_new)
      <4>1. K \in Grades
        BY KAssumption DEF Grades
      <4>2. Crisp(e.rule.rhs) /\ e.rule.rhs \in AttrSets
        BY <1>2, <2>1 DEF CrispEntries
      <4> QED BY <1>2, <4>1, <4>2, OperationTypes, CrispParts DEF Reduced
    <3>4. B_merged \in AttrSets /\ Crisp(B_merged)
      <4>1. K \in Grades
        BY KAssumption DEF Grades
      <4>2. A \in Premises => sigma[A] \in AttrSets /\ Crisp(sigma[A])
        BY <1>2, <2>1 DEF SystemType, CrispRules, Premises
      <4> HIDE DEF A, B_new
      <4> QED BY <1>2, <3>3, <4>1, <4>2, OperationTypes, CrispParts
    <3> HIDE DEF A, B_new, B_merged
    <3>5. CrispRules(With(sigma, A, B_merged)) /\ CrispRules(Without(sigma, A))
      BY <2>1, <3>4, CrispChanges
    <3>6. SystemType(Without(sigma, A))
      BY <1>2 DEF SystemType, Without
    <3>7. CrispEntries(Propagated(A, B_merged, B_new, Without(sigma, A)))
      BY <1>2, <1>4, <3>4, <3>5, <3>6, CrispPropagated
    <3>8. CrispEntries(W')
      BY <2>1, <3>2, <3>7 DEF CrispEntries
    <3>9. CrispRules(sigma')
      BY <2>1, <3>2, <3>5
    <3> QED BY <3>8, <3>9
  <2>4. CASE PriorityEnd
    BY <2>1, <2>4 DEF PriorityEnd
  <2> QED BY <2>2, <2>3, <2>4
<1>5. CrispInput' /\ DistinctPremises' =>
        /\ \A X \in Premises' : Crisp(sigma'[X])
        /\ \A d \in W' : Crisp(d.rule.rhs)
  <2>1. SUFFICES ASSUME CrispInput, DistinctPremises
                 PROVE  /\ \A X \in Premises' : Crisp(sigma'[X])
                        /\ \A d \in W' : Crisp(d.rule.rhs)
    BY <1>1, SameModels
  <2> QED BY <1>4, <2>1 DEF CrispRules, CrispEntries, Premises
<1> QED BY <1>1, <1>3, <1>5 DEF LossInv, Crisp
-----------------------------------------------------------------------------
\* LossInv is inductive on top of IInv.
THEOREM LossInvariance == Spec => []LossInv
<1>1. Init => LossInv
  <2> SUFFICES ASSUME Init PROVE LossInv
    OBVIOUS
  <2>1. pc = "read" /\ sigma = << >> /\ W = {} /\ redundant = {}
    BY DEF Init
  <2>2. DOMAIN sigma = {}
    BY <2>1
  <2> QED BY <2>1, <2>2 DEF LossInv, NothingLost, Premises
<1>2. IInv /\ IInv' /\ LossInv /\ [Next]_vars => LossInv'
  <2> SUFFICES ASSUME IInv, IInv', LossInv, [Next]_vars PROVE LossInv'
    OBVIOUS
  <2>1. CASE UNCHANGED vars
    <3>1. /\ UNCHANGED <<columns, logic, method, pc, sigma, W, redundant>>
      BY <2>1 DEF vars, inputs
    <3>2. NothingLost'
      <4>1. \A V \in AttrSets :
              ModelOf(V, sigma') /\ (\A e \in W' : Respects(V, e.rule.lhs, e.rule.rhs))
                => SystemModel(V)
        BY <3>1 DEF SystemModel
      <4>2. CASE pc = "read"
        BY <3>1, <4>2 DEF NothingLost
      <4>3. CASE pc # "read"
        BY <3>1, <4>1, <4>3, StepKeeps DEF LossInv
      <4> QED BY <4>2, <4>3
    <3>3. CrispInput' = CrispInput /\ DistinctPremises' = DistinctPremises
      BY <3>1, SameModels
    <3>4. \A A : Reduced(A, sigma[A], sigma)' = Reduced(A, sigma[A], sigma)
      BY <3>1, SameReduced
    <3> QED BY <3>1, <3>2, <3>3, <3>4 DEF LossInv, Premises, Crisp, EmptySet
  <2>2. CASE Returned
    BY <2>1, <2>2 DEF Returned
  <2>3. CASE Next /\ ~Returned
    BY <2>3, ReadKeeps, SaturateKeeps, PruneKeeps, MonotonicNewKeeps, MonotonicMergeKeeps,
       MonotonicEndKeeps, PriorityKeeps, Zenon
       DEF Next
  <2> QED BY <2>1, <2>2, <2>3
<1> QED BY <1>1, <1>2, Invariance, PTL DEF Spec

\* For crisp rules with different premises, every method but priority keeps in
\* its system and worklist what the rules given prove, at every step: whatever
\* the merging and the simultaneous pruning drop still follows.  For graded
\* rules that is so until the first pruning.
THEOREM KeepsAll == Spec => []NothingLost
<1>1. LossInv => NothingLost
  BY DEF LossInv
<1> QED BY <1>1, LossInvariance, PTL

-----------------------------------------------------------------------------
\* Directness and optimality of what crisp rules end in.  Sets of attributes
\* stand for the crisp fuzzy sets, and for the cuts of the others.

\* The attributes that A has to the degree 1.
Parts(A) == {c \in Attributes : A[c] = K}

\* What one pass over crisp rules concludes from T.
One(rules, T) == T \cup {c \in Attributes : \E X \in DOMAIN rules : Parts(X) \subseteq T /\ rules[X][c] = K}

\* Premises and conclusions are crisp.
CrispSystem(rules) == \A A \in DOMAIN rules : Crisp(A) /\ Crisp(rules[A])
CrispQueue(queue) == \A e \in queue : Crisp(e.rule.lhs) /\ Crisp(e.rule.rhs)

\* A second pass concludes nothing that the first has not.
DirectSets(rules) ==
  \A T \in SUBSET Attributes, X \in DOMAIN rules :
    Parts(X) \subseteq One(rules, T) => Parts(rules[X]) \subseteq One(rules, T)

\* The premise of what A -> B and C -> D give together.
Joined(A, B, C) == Parts(A) \cup (Parts(C) \ Parts(B))

\* All of D is concluded from T in one pass, or will be with a rule of the worklist.
Answered(rules, queue, T, D) ==
  \A c \in Parts(D) :
    \/ c \in One(rules, T)
    \/ \E e \in queue : Parts(e.rule.lhs) \subseteq T /\ e.rule.rhs[c] = K

\* What two rules give together.
Promised(rules, queue, A, C) == Answered(rules, queue, Joined(A, rules[A], C), rules[C])

\* Every rule concludes something, and nothing that it presupposes or that
\* another rule concludes from a part of its premise.
Irredundant(rules) ==
  \A A \in DOMAIN rules :
    /\ \E c \in Attributes : rules[A][c] = K
    /\ \A c \in Parts(rules[A]) :
         /\ c \notin Parts(A)
         /\ \A X \in DOMAIN rules \ {A} : Parts(X) \subseteq Parts(A) => rules[X][c] # K

\* The inductive invariant, on top of IInv and LossInv: which pairs of rules
\* have been combined by the time each method has come to each place.
DirectInv ==
  CrispInput =>
    /\ CrispSystem(sigma) /\ CrispQueue(W)
    /\ pc = "read" => sigma = << >>
    /\ pc = "monotonic" => method = "monotonic"
    /\ pc \notin {"monotonic", "priority"} => W = {}
    /\ pc = "monotonic" => \A A, C \in Premises : Promised(sigma, W, A, C)
    /\ pc = "saturate" /\ method # "do_sp" =>
         \A p \in (Premises \X Premises) \ unprocessed : Promised(sigma, {}, p[1], p[2])
    /\ pc = "prune" /\ method = "do_sp" =>
         \A A, C \in DOMAIN sigma_old :
           Parts(sigma_old[C]) \subseteq One(sigma, Joined(A, sigma_old[A], C))
    /\ pc = "prune" /\ method \notin {"do_sp", "priority"} => DirectSets(sigma)
    /\ pc = "done" /\ method # "priority" => DirectSets(sigma) /\ Irredundant(sigma)

-----------------------------------------------------------------------------
LEMMA PartsLeq ==
  ASSUME NEW X \in AttrSets, NEW Y \in AttrSets, Crisp(X)
  PROVE  Leq(X, Y) <=> Parts(X) \subseteq Parts(Y)
<1>1. \A c \in Attributes : X[c] \in {0, K} /\ X[c] \in Grades /\ Y[c] \in Grades
  BY DEF Crisp, AttrSets
<1> QED BY <1>1, KAssumption DEF Leq, Parts, Grades

\* Crisp sets are equal when they have the same parts.
LEMMA PartsEqual ==
  ASSUME NEW X \in AttrSets, NEW Y \in AttrSets, Crisp(X), Crisp(Y), Parts(X) = Parts(Y)
  PROVE  X = Y
<1>1. \A c \in Attributes : X[c] = Y[c]
  BY KAssumption DEF Crisp, Parts
<1> QED BY <1>1 DEF AttrSets

\* The degree to which V has a crisp set is the least of its degrees there.
LEMMA CrispSubsethood ==
  ASSUME NEW X \in AttrSets, NEW V \in AttrSets, NEW s \in Grades, Crisp(X),
         logic \in LogicNames \ {"Product"}
  PROVE  s <= S(X, V) <=> \A c \in Parts(X) : s <= V[c]
<1>1. s <= S(X, V) <=> \A c \in Attributes : tnorm(logic, s, X[c]) <= V[c]
  BY SubsethoodAdjoint
<1>2. ASSUME NEW c \in Attributes
      PROVE  tnorm(logic, s, X[c]) <= V[c] <=> (c \in Parts(X) => s <= V[c])
  <2>1. tnorm(logic, s, K) = s /\ tnorm(logic, s, 0) = 0
    BY UnitLaws
  <2>2. X[c] \in {0, K} /\ 0 <= V[c]
    BY KAssumption DEF Crisp, AttrSets, Grades
  <2> QED BY <2>1, <2>2, KAssumption DEF Parts
<1> QED BY <1>1, <1>2 DEF Parts

\* One pass of the operator, cut at a degree, is one pass over the cut.
LEMMA PiCut ==
  ASSUME NEW V \in AttrSets, NEW rules, SystemType(rules), CrispSystem(rules),
         NEW s \in Grades, NEW c \in Attributes, logic \in LogicNames \ {"Product"}
  PROVE  s <= pi(V, rules)[c] <=> c \in One(rules, {d \in Attributes : s <= V[d]})
<1> DEFINE p == pi(V, rules)[c]
           T == {d \in Attributes : s <= V[d]}
<1>1. /\ p \in Grades
      /\ V[c] <= p
      /\ \A X \in DOMAIN rules : tnorm(logic, S(X, V), rules[X][c]) <= p
      /\ \/ p = V[c]
         \/ \E X \in DOMAIN rules : p = tnorm(logic, S(X, V), rules[X][c])
  BY PiDegrees DEF SystemType
<1>2. V[c] \in Grades
  BY DEF AttrSets
<1>3. ASSUME NEW X \in DOMAIN rules
      PROVE  /\ s <= S(X, V) <=> Parts(X) \subseteq T
             /\ S(X, V) \in Grades
             /\ tnorm(logic, S(X, V), K) = S(X, V)
             /\ tnorm(logic, S(X, V), 0) = 0
             /\ rules[X][c] \in {0, K}
  <2>1. X \in AttrSets /\ Crisp(X) /\ Crisp(rules[X])
    BY DEF SystemType, CrispSystem
  <2>2. S(X, V) \in Grades
    BY <2>1, SubsethoodType
  <2>3. s <= S(X, V) <=> Parts(X) \subseteq T
    BY <2>1, CrispSubsethood DEF Parts
  <2> QED BY <2>1, <2>2, <2>3, UnitLaws DEF Crisp
<1> HIDE DEF p
<1>4. ASSUME s <= p PROVE c \in One(rules, T)
  <2>1. CASE p = V[c]
    BY <1>4, <2>1 DEF One
  <2>2. ASSUME NEW X \in DOMAIN rules, p = tnorm(logic, S(X, V), rules[X][c])
        PROVE  c \in One(rules, T)
    <3>1. CASE rules[X][c] = K
      <4>1. Parts(X) \subseteq T
        BY <1>3, <1>4, <2>2, <3>1
      <4> QED BY <3>1, <4>1 DEF One
    <3>2. CASE rules[X][c] = 0
      <4>1. p = 0
        BY <1>3, <2>2, <3>2
      <4>2. s <= V[c]
        BY <1>2, <1>4, <4>1, KAssumption DEF Grades
      <4> QED BY <4>2 DEF One
    <3> QED BY <1>3, <3>1, <3>2
  <2> QED BY <1>1, <2>1, <2>2
<1>5. ASSUME c \in One(rules, T) PROVE s <= p
  <2>1. CASE s <= V[c]
    BY <1>1, <1>2, <2>1, KAssumption DEF Grades
  <2>2. ASSUME NEW X \in DOMAIN rules, Parts(X) \subseteq T, rules[X][c] = K PROVE s <= p
    <3>1. s <= S(X, V) /\ S(X, V) <= p
      BY <1>1, <1>3, <2>2
    <3>2. S(X, V) \in Grades
      BY <1>3
    <3> QED BY <1>1, <3>1, <3>2, KAssumption DEF Grades
  <2> QED BY <1>5, <2>1, <2>2 DEF One
<1> QED BY <1>4, <1>5 DEF p

\* A rule of the others concludes c from A in one pass.
LEMMA PiOne ==
  ASSUME NEW A \in AttrSets, Crisp(A), NEW rules, SystemType(rules), CrispSystem(rules),
         NEW c \in Attributes, logic \in LogicNames \ {"Product"}
  PROVE  K <= pi(A, rules)[c] <=> c \in One(rules, Parts(A))
<1>1. K \in Grades
  BY KAssumption DEF Grades
<1>2. {d \in Attributes : K <= A[d]} = Parts(A)
  BY KAssumption DEF Parts, AttrSets, Grades
<1> QED BY <1>1, <1>2, PiCut

\* A pass over no less concludes no less.
LEMMA OneGrows ==
  ASSUME NEW rules, NEW more, SystemType(more), Within(rules, more),
         NEW T, NEW U, T \subseteq U
  PROVE  One(rules, T) \subseteq One(more, U)
<1> SUFFICES ASSUME NEW c \in Attributes, NEW X \in DOMAIN rules,
                    Parts(X) \subseteq T, rules[X][c] = K
             PROVE  c \in One(more, U)
  BY DEF One
<1>1. X \in DOMAIN more /\ more[X][c] \in Grades /\ K <= more[X][c]
  BY DEF Within, Leq, SystemType, AttrSets
<1>2. more[X][c] = K
  BY <1>1, KAssumption DEF Grades
<1> QED BY <1>1, <1>2 DEF One

\* The result respects its rules after one pass, whatever degrees it starts from.
LEMMA DirectModel ==
  ASSUME NEW V \in AttrSets, NEW rules, SystemType(rules), CrispSystem(rules),
         DirectSets(rules), logic \in LogicNames \ {"Product"}
  PROVE  ModelOf(pi(V, rules), rules)
<1> DEFINE P == pi(V, rules)
<1>1. P \in AttrSets
  <2>1. \A c \in Attributes : P[c] \in Grades
    BY PiDegrees DEF SystemType
  <2> QED BY <2>1 DEF pi, AttrSets
<1> SUFFICES ASSUME NEW X \in DOMAIN rules, NEW c \in Attributes
             PROVE  tnorm(logic, S(X, P), rules[X][c]) <= P[c]
  BY DEF ModelOf, Respects
<1> DEFINE s == S(X, P)
           T == {d \in Attributes : s <= V[d]}
<1>2. X \in AttrSets /\ Crisp(X) /\ Crisp(rules[X])
  BY DEF SystemType, CrispSystem
<1>3. s \in Grades /\ s <= s
  <2>1. s \in Grades
    BY <1>1, <1>2, SubsethoodType
  <2> HIDE DEF s
  <2> QED BY <2>1, KAssumption DEF Grades
<1>4. \A d \in Attributes : s <= P[d] <=> d \in One(rules, T)
  <2> HIDE DEF s
  <2> QED BY <1>3, PiCut
<1>5. \A d \in Parts(X) : s <= P[d]
  BY <1>1, <1>2, <1>3, CrispSubsethood
<1>6. T \in SUBSET Attributes
  OBVIOUS
<1> HIDE DEF s, T
<1>7. Parts(rules[X]) \subseteq One(rules, T)
  <2>1. Parts(X) \subseteq One(rules, T)
    BY <1>4, <1>5 DEF Parts
  <2> QED BY <1>6, <2>1 DEF DirectSets
<1>8. CASE rules[X][c] = K
  <2>1. s <= P[c]
    BY <1>4, <1>7, <1>8 DEF Parts
  <2> QED BY <1>3, <1>8, <2>1, UnitLaws DEF s
<1>9. CASE rules[X][c] = 0
  <2>1. P[c] \in Grades
    BY <1>1 DEF AttrSets
  <2>2. tnorm(logic, s, 0) = 0
    BY <1>3, UnitLaws
  <2> QED BY <1>9, <2>1, <2>2, KAssumption DEF s, Grades
<1> QED BY <1>2, <1>8, <1>9 DEF Crisp

\* What is left when conclusions are dropped that other rules give in one pass.
Thinned(rules, kept) ==
  /\ Within(kept, rules)
  /\ \A A \in DOMAIN rules : \A c \in Attributes :
       \/ A \in DOMAIN kept /\ rules[A][c] <= kept[A][c]
       \/ rules[A][c] <= pi(A, Without(rules, A))[c]

\* Thinning takes nothing from what one pass concludes, for the reason given at
\* PruningKeeps.
LEMMA KeptOne ==
  ASSUME NEW rules, NEW kept, SystemType(rules), SystemType(kept), CrispSystem(rules),
         Thinned(rules, kept), logic \in LogicNames \ {"Product"},
         NEW T \in SUBSET Attributes
  PROVE  One(kept, T) = One(rules, T)
<1>1. One(kept, T) \subseteq One(rules, T)
  BY OneGrows DEF Thinned
<1>2. ASSUME NEW c \in Attributes, c \in One(rules, T), c \notin One(kept, T) PROVE FALSE
  <2> DEFINE U == {A \in DOMAIN rules : Parts(A) \subseteq T /\ rules[A][c] = K}
  <2>1. U # {} /\ U \subseteq AttrSets /\ c \notin T
    BY <1>2 DEF One, SystemType
  <2>2. PICK A \in U : \A X \in U : <<X, A>> \notin StrictlyBelow
    <3> HIDE DEF U
    <3> QED BY <2>1, StrictlyBelowWellFounded, WFMin, Zenon
  <2>3. /\ A \in DOMAIN rules /\ A \in AttrSets /\ Crisp(A)
        /\ Parts(A) \subseteq T /\ rules[A][c] = K
    BY DEF SystemType, CrispSystem
  <2>4. ~(A \in DOMAIN kept /\ rules[A][c] <= kept[A][c])
    <3> SUFFICES ASSUME A \in DOMAIN kept, K <= kept[A][c] PROVE FALSE
      BY <2>3
    <3>1. kept[A][c] \in Grades
      BY DEF SystemType, AttrSets
    <3>2. kept[A][c] = K
      BY <3>1, KAssumption DEF Grades
    <3> QED BY <1>2, <2>3, <3>2 DEF One
  <2> DEFINE others == Without(rules, A)
  <2>5. SystemType(others) /\ CrispSystem(others)
    BY DEF Without, SystemType, CrispSystem
  <2>6. K <= pi(A, others)[c]
    BY <2>3, <2>4 DEF Thinned
  <2>7. c \in One(others, Parts(A))
    <3> HIDE DEF others
    <3> QED BY <2>3, <2>5, <2>6, PiOne
  <2>8. PICK X \in DOMAIN others : Parts(X) \subseteq Parts(A) /\ others[X][c] = K
    BY <2>1, <2>3, <2>7 DEF One
  <2>9. X \in DOMAIN rules /\ X # A /\ rules[X][c] = K /\ X \in AttrSets /\ Crisp(X)
    BY <2>8 DEF Without, SystemType, CrispSystem
  <2>10. X \in U
    BY <2>3, <2>8, <2>9
  <2>11. Leq(X, A)
    BY <2>3, <2>8, <2>9, PartsLeq
  <2> QED BY <2>2, <2>3, <2>9, <2>10, <2>11 DEF StrictlyBelow
<1>3. One(rules, T) \subseteq Attributes
  BY DEF One
<1> QED BY <1>1, <1>2, <1>3

\* When every two rules are combined, one pass is enough: of the premises that
\* lead to c within what one pass concludes from T, one with the fewest
\* attributes outside T has none there.
LEMMA OnePass ==
  ASSUME NEW rules, SystemType(rules), CrispSystem(rules),
         \A A, C \in DOMAIN rules : Promised(rules, {}, A, C)
  PROVE  DirectSets(rules)
<1> SUFFICES ASSUME NEW T \in SUBSET Attributes, NEW X \in DOMAIN rules,
                    Parts(X) \subseteq One(rules, T), NEW c \in Parts(rules[X]),
                    c \notin One(rules, T)
             PROVE  FALSE
  BY DEF DirectSets
<1> DEFINE Outside(Y) == [d \in Attributes |-> IF d \in T THEN 0 ELSE Y[d]]
           U == {Y \in DOMAIN rules : Parts(Y) \subseteq One(rules, T) /\ rules[Y][c] = K}
           M == {Outside(Y) : Y \in U}
<1>1. X \in U /\ c \in Attributes
  BY DEF Parts
<1>2. \A Y \in U : Outside(Y) \in AttrSets
  <2>1. \A Y \in U : Y \in AttrSets
    BY DEF SystemType
  <2> QED BY <2>1, KAssumption DEF AttrSets, Grades
<1>3. M \subseteq AttrSets /\ M # {}
  <2> HIDE DEF Outside, U
  <2> QED BY <1>1, <1>2
<1>4. PICK m \in M : \A n \in M : <<n, m>> \notin StrictlyBelow
  <2> HIDE DEF M
  <2> QED BY <1>3, StrictlyBelowWellFounded, WFMin, Zenon
<1>5. PICK Y \in U : m = Outside(Y)
  OBVIOUS
<1>6. ~(Parts(Y) \subseteq T)
  BY <1>1 DEF One
<1>7. PICK d \in Parts(Y) : d \notin T
  BY <1>6
<1>8. PICK A \in DOMAIN rules : Parts(A) \subseteq T /\ rules[A][d] = K
  BY <1>7 DEF One
<1> DEFINE J == Joined(A, rules[A], Y)
<1>9. J \subseteq One(rules, T) /\ d \notin J /\ d \in Attributes
  BY <1>7, <1>8 DEF Joined, One, Parts
<1>10. c \in One(rules, J)
  BY <1>1 DEF Promised, Answered, Parts
<1>11. PICK Z \in DOMAIN rules : Parts(Z) \subseteq J /\ rules[Z][c] = K
  BY <1>9, <1>10 DEF One
<1>12. Z \in U
  BY <1>9, <1>11
<1>13. Parts(Z) \subseteq Parts(A) \cup Parts(Y) /\ d \notin Parts(Z)
  BY <1>9, <1>11 DEF Joined
<1>14. Leq(Outside(Z), Outside(Y))
  <2> SUFFICES ASSUME NEW e \in Attributes, e \notin T PROVE Z[e] <= Y[e]
    BY KAssumption DEF Leq
  <2>1. Z[e] \in {0, K} /\ Y[e] \in Grades
    BY <1>5 DEF CrispSystem, Crisp, SystemType, AttrSets
  <2>2. Z[e] = K => Y[e] = K
    BY <1>8, <1>13 DEF Parts
  <2> QED BY <2>1, <2>2, KAssumption DEF Grades
<1>15. Outside(Z) # Outside(Y)
  <2>1. Outside(Z)[d] # K /\ Outside(Y)[d] = K
    BY <1>7, <1>9, <1>13 DEF Parts
  <2> HIDE DEF Outside
  <2> QED BY <2>1
<1>16. Outside(Z) \in M
  BY <1>12
<1>17. <<Outside(Z), Outside(Y)>> \in StrictlyBelow
  <2> HIDE DEF Outside, U
  <2> QED BY <1>2, <1>12, <1>14, <1>15 DEF StrictlyBelow
<1> HIDE DEF Outside, M
<1> QED BY <1>4, <1>5, <1>16, <1>17

-----------------------------------------------------------------------------
\* What add_derived_internal derives from crisp rules.

LEMMA OtimesCrisp ==
  ASSUME NEW A \in AttrSets, logic \in LogicNames \ {"Product"}
  PROVE  /\ otimes(K, A) = A
         /\ otimes(0, A) = EmptySet
<1>1. \A c \in Attributes : A[c] \in Grades /\ 0 \in Grades
  BY KAssumption DEF AttrSets, Grades
<1>2. \A c \in Attributes : tnorm(logic, K, A[c]) = A[c]
  BY <1>1, UnitLaws
<1>3. \A c \in Attributes : tnorm(logic, 0, A[c]) = 0
  BY <1>1, TnormAlgebra
<1>4. otimes(K, A) = A
  BY <1>2 DEF otimes, AttrSets
<1>5. otimes(0, A) = EmptySet
  BY <1>3 DEF otimes, EmptySet
<1> QED BY <1>4, <1>5

\* The candidates of crisp rules are crisp.
LEMMA CrispRulesDerived ==
  ASSUME NEW A \in AttrSets, NEW B \in AttrSets, NEW C \in AttrSets, NEW D \in AttrSets,
         Crisp(A), Crisp(B), Crisp(C), Crisp(D), CrispInput,
         logic \in LogicNames \ {"Product"}
  PROVE  \A d \in add_derived(A, B, C, D) : Crisp(d.rule.lhs) /\ Crisp(d.rule.rhs)
<1> SUFFICES ASSUME NEW d \in add_derived(A, B, C, D)
             PROVE  Crisp(d.rule.lhs)
  BY CrispDerived
<1>1. PICK p \in L \X L : d = [degrees |-> p, rule |-> Candidate(p[1], p[2], A, B, C, D)]
  BY DEF add_derived
<1>2. p[1] \in {0, K} /\ p[2] \in {0, K}
  BY CrispDegrees
<1>3. Crisp(EmptySet)
  BY DEF Crisp, EmptySet
<1>4. Crisp(otimes(p[1], A)) /\ Crisp(otimes(p[2], C))
  BY <1>2, <1>3, OtimesCrisp
<1>5. d.rule.lhs = set_union(otimes(p[1], A), set_setminus(otimes(p[2], C), otimes(p[1], B)))
  BY <1>1 DEF Candidate
<1>6. Crisp(set_setminus(otimes(p[2], C), otimes(p[1], B)))
  BY <1>4, CrispParts
<1> QED BY <1>4, <1>5, <1>6, CrispParts

\* What C -> D adds to what A -> B concludes is concluded from the joined
\* premise: by the premise itself, by one of the two, or by a derived rule.
LEMMA DerivedGives ==
  ASSUME NEW A \in AttrSets, NEW B \in AttrSets, NEW C \in AttrSets, NEW D \in AttrSets,
         Crisp(A), Crisp(B), Crisp(C), Crisp(D), A = C => B = D,
         logic \in LogicNames \ {"Product"}, NEW c \in Parts(D)
  PROVE  LET J == Joined(A, B, C)
         IN  \/ c \in J
             \/ Parts(A) \subseteq J /\ B[c] = K
             \/ Parts(C) \subseteq J /\ D[c] = K
             \/ \E d \in add_derived(A, B, C, D) :
                  Parts(d.rule.lhs) = J /\ d.rule.rhs[c] = K
<1> DEFINE J == Joined(A, B, C)
           G == set_union(A, set_setminus(C, B))
           H == set_setminus(D, A)
           both == parents(A, B, C, D)
           R == Candidate(K, K, A, B, C, D)
<1>1. /\ H \in AttrSets /\ G \in AttrSets
  <2>1. K \in Grades
    BY KAssumption DEF Grades
  <2>2. H \in AttrSets /\ set_setminus(C, B) \in AttrSets
    BY <2>1, OperationTypes
  <2> QED BY <2>1, <2>2, OperationTypes
<1>2. Crisp(G)
  <2>1. Crisp(set_setminus(C, B))
    BY CrispParts
  <2> QED BY <2>1, CrispParts
<1>3. Parts(G) = J
  <2> SUFFICES ASSUME NEW e \in Attributes
               PROVE  G[e] = K <=> A[e] = K \/ (C[e] = K /\ B[e] # K)
    BY DEF Parts, Joined
  <2>1. A[e] \in {0, K} /\ B[e] \in {0, K} /\ C[e] \in {0, K} /\ K \in Nat \ {0}
    BY KAssumption DEF Crisp
  <2> QED BY <2>1 DEF set_union, set_setminus
<1>4. /\ R.lhs = G
      /\ R.rhs = IF H = EmptySet THEN H ELSE set_setminus(set_setminus(H, pi(G, both)), G)
  BY OtimesCrisp DEF Candidate
<1>5. c \in Attributes /\ D[c] = K
  BY DEF Parts
<1>6. SystemType(both) /\ CrispSystem(both)
  BY DEF parents, SystemType, CrispSystem
<1>7. K <= pi(G, both)[c] <=> c \in One(both, Parts(G))
  <2> HIDE DEF both, G
  <2> QED BY <1>1, <1>2, <1>5, <1>6, PiOne
<1>8. pi(G, both)[c] \in Grades /\ A[c] \in Grades /\ G[c] \in Grades
  <2> HIDE DEF both, G
  <2> QED BY <1>1, <1>5, <1>6, PiDegrees DEF SystemType, AttrSets
<1>9. CASE A[c] = K
  BY <1>5, <1>9 DEF Joined, Parts
<1>10. CASE K <= pi(G, both)[c]
  <2>1. c \in One(both, J)
    BY <1>3, <1>7, <1>10
  <2>2. c \in J \/ \E X \in {A, C} : Parts(X) \subseteq J /\ both[X][c] = K
    <3> HIDE DEF J
    <3> QED BY <2>1 DEF One, parents
  <2>3. both[A] = B /\ both[C] = D
    BY DEF parents
  <2> HIDE DEF both, J
  <2> QED BY <2>2, <2>3 DEF J
<1>11. CASE G[c] = K
  BY <1>3, <1>5, <1>11 DEF Parts
<1>12. CASE A[c] # K /\ ~(K <= pi(G, both)[c]) /\ G[c] # K
  <2> HIDE DEF both, G, J
  <2>1. H[c] = K
    BY <1>5, <1>8, <1>12, KAssumption DEF set_setminus, Grades
  <2>2. H # EmptySet
    BY <1>5, <2>1, KAssumption DEF EmptySet
  <2>3. R.rhs = set_setminus(set_setminus(H, pi(G, both)), G)
    BY <1>4, <2>2
  <2> HIDE DEF H, R
  <2>4. R.rhs[c] = K
    BY <1>5, <1>8, <1>12, <2>1, <2>3, KAssumption DEF set_setminus, Grades
  <2>5. R.rhs # EmptySet
    BY <1>5, <2>4, KAssumption DEF EmptySet
  <2> DEFINE d == [degrees |-> <<K, K>>, rule |-> R]
  <2>6. <<K, K>> \in L \X L
    BY DEF L
  <2>7. d \in add_derived(A, B, C, D)
    BY <2>5, <2>6 DEF add_derived, R
  <2>8. Parts(d.rule.lhs) = J /\ d.rule.rhs[c] = K
    BY <1>3, <1>4, <2>4
  <2> QED BY <2>7, <2>8 DEF J
<1> QED BY <1>9, <1>10, <1>11, <1>12

-----------------------------------------------------------------------------
\* What pruning leaves.

LEMMA KeptDirect ==
  ASSUME NEW rules, NEW kept, SystemType(rules), SystemType(kept), CrispSystem(rules),
         Thinned(rules, kept), DirectSets(rules), logic \in LogicNames \ {"Product"}
  PROVE  DirectSets(kept)
<1> SUFFICES ASSUME NEW T \in SUBSET Attributes, NEW X \in DOMAIN kept,
                    Parts(X) \subseteq One(kept, T)
             PROVE  Parts(kept[X]) \subseteq One(kept, T)
  BY DEF DirectSets
<1>1. One(kept, T) = One(rules, T)
  BY KeptOne
<1>2. X \in DOMAIN rules /\ rules[X] \in AttrSets /\ Leq(kept[X], rules[X])
  BY DEF Thinned, Within, SystemType
<1>3. Parts(kept[X]) \subseteq Parts(rules[X])
  BY <1>2, KAssumption DEF Parts, Leq, AttrSets, Grades
<1>4. Parts(rules[X]) \subseteq One(rules, T)
  BY <1>1, <1>2 DEF DirectSets
<1> QED BY <1>1, <1>3, <1>4

\* One pass of pruning.
LEMMA PrunedThinned ==
  ASSUME NEW rules, SystemType(rules), logic \in LogicNames \ {"Product"}
  PROVE  /\ SystemType(Pruned(rules))
         /\ Thinned(rules, Pruned(rules))
<1> DEFINE kept == Pruned(rules)
<1>1. \A A \in DOMAIN kept : /\ A \in DOMAIN rules
                             /\ kept[A] = Reduced(A, rules[A], rules)
                             /\ kept[A] # EmptySet
  BY DEF Pruned
<1>2. \A A \in DOMAIN rules : Reduced(A, rules[A], rules) # EmptySet => A \in DOMAIN kept
  BY DEF Pruned
<1> HIDE DEF kept
<1>3. \A A \in DOMAIN rules :
        /\ Reduced(A, rules[A], rules) \in AttrSets
        /\ Leq(Reduced(A, rules[A], rules), rules[A])
  <2>1. K \in Grades
    BY KAssumption DEF Grades
  <2> QED BY <2>1, OperationTypes, SetminusBelow DEF Reduced, SystemType
<1>4. SystemType(kept) /\ Within(kept, rules)
  BY <1>1, <1>3 DEF SystemType, Within
<1>5. ASSUME NEW A \in DOMAIN rules, NEW c \in Attributes
      PROVE  \/ A \in DOMAIN kept /\ rules[A][c] <= kept[A][c]
             \/ rules[A][c] <= pi(A, Without(rules, A))[c]
  <2>1. A \in AttrSets /\ rules[A] \in AttrSets
    BY DEF SystemType
  <2>2. CASE Reduced(A, rules[A], rules)[c] = 0
    BY <2>1, <2>2, ReducedAway
  <2>3. CASE Reduced(A, rules[A], rules)[c] # 0
    <3>1. Reduced(A, rules[A], rules) # EmptySet
      BY <2>3 DEF EmptySet
    <3>2. A \in DOMAIN kept /\ kept[A] = Reduced(A, rules[A], rules)
      BY <1>1, <1>2, <3>1
    <3>3. Reduced(A, rules[A], rules)[c] = rules[A][c]
      BY <2>3 DEF Reduced, set_setminus
    <3>4. rules[A][c] <= rules[A][c]
      BY <2>1, KAssumption DEF AttrSets, Grades
    <3> QED BY <3>2, <3>3, <3>4
  <2> QED BY <2>2, <2>3
<1> QED BY <1>4, <1>5 DEF Thinned, kept

\* Pruning once is enough for every rule to say something of its own.
LEMMA PrunedIrredundant ==
  ASSUME NEW rules, SystemType(rules), CrispSystem(rules), logic \in LogicNames \ {"Product"}
  PROVE  CrispSystem(Pruned(rules)) /\ Irredundant(Pruned(rules))
<1> DEFINE kept == Pruned(rules)
<1>1. \A A \in DOMAIN kept : /\ A \in DOMAIN rules
                             /\ kept[A] = set_setminus(rules[A], pi(A, Without(rules, A)))
                             /\ kept[A] # EmptySet
  BY DEF Pruned, Reduced
<1> HIDE DEF kept
<1>2. CrispSystem(kept)
  BY <1>1, CrispParts DEF CrispSystem
<1>3. ASSUME NEW A \in DOMAIN kept PROVE \E c \in Attributes : kept[A][c] = K
  <2>1. kept[A] = [c \in Attributes |-> kept[A][c]]
    BY <1>1 DEF set_setminus
  <2>2. PICK c \in Attributes : kept[A][c] # 0
    BY <1>1, <2>1 DEF EmptySet
  <2> QED BY <1>2, <2>2 DEF CrispSystem, Crisp
<1>4. ASSUME NEW A \in DOMAIN kept, NEW c \in Parts(kept[A])
      PROVE  /\ rules[A][c] = K
             /\ c \notin One(Without(rules, A), Parts(A))
  <2> DEFINE others == Without(rules, A)
  <2>1. A \in DOMAIN rules /\ A \in AttrSets /\ Crisp(A) /\ rules[A][c] \in {0, K} /\ c \in Attributes
    BY <1>1 DEF SystemType, CrispSystem, Crisp, Parts
  <2>2. SystemType(others) /\ CrispSystem(others)
    BY DEF Without, SystemType, CrispSystem
  <2>3. kept[A][c] = IF pi(A, others)[c] >= rules[A][c] THEN 0 ELSE rules[A][c]
    BY <1>1, <2>1 DEF set_setminus
  <2> HIDE DEF others
  <2>4. pi(A, others)[c] \in Grades
    BY <2>1, <2>2, PiDegrees DEF SystemType
  <2>5. rules[A][c] = K /\ ~(K <= pi(A, others)[c])
    BY <2>1, <2>3, <2>4, KAssumption DEF Parts, Grades
  <2>6. c \notin One(others, Parts(A))
    BY <2>1, <2>2, <2>5, PiOne
  <2> QED BY <2>5, <2>6 DEF others
<1>5. ASSUME NEW A \in DOMAIN kept, NEW c \in Parts(kept[A])
      PROVE  /\ c \notin Parts(A)
             /\ \A X \in DOMAIN kept \ {A} : Parts(X) \subseteq Parts(A) => kept[X][c] # K
  <2>1. c \notin Parts(A)
    BY <1>4 DEF One
  <2>2. ASSUME NEW X \in DOMAIN kept \ {A}, Parts(X) \subseteq Parts(A), kept[X][c] = K
        PROVE  FALSE
    <3>1. c \in Parts(kept[X]) /\ c \in Attributes
      BY <2>2 DEF Parts
    <3>2. rules[X][c] = K /\ X \in DOMAIN Without(rules, A)
      BY <1>1, <1>4, <3>1 DEF Without
    <3>3. Without(rules, A)[X] = rules[X]
      BY <3>2 DEF Without
    <3>4. c \in One(Without(rules, A), Parts(A))
      BY <2>2, <3>1, <3>2, <3>3 DEF One
    <3> QED BY <1>4, <3>4
  <2> QED BY <2>1, <2>2
<1> QED BY <1>2, <1>3, <1>5 DEF Irredundant, kept

-----------------------------------------------------------------------------
\* The rules stay crisp.

LEMMA CrispSystemSparse ==
  ASSUME columns \in Seq(Rules), CrispInput
  PROVE  CrispSystem(Sparse_to_Sigma(columns))
BY SparseColumn, Zenon DEF CrispSystem, CrispInput

LEMMA CrispSystemMerged ==
  ASSUME NEW rules, NEW new, CrispSystem(rules),
         \A r \in new : Crisp(r.lhs) /\ Crisp(r.rhs)
  PROVE  CrispSystem(Merged(rules, new))
<1>1. \A G \in DOMAIN Merged(rules, new) : G \in DOMAIN rules \/ \E r \in new : G = r.lhs
  BY DEF Merged
<1>2. CrispRules(rules)
  BY DEF CrispSystem, CrispRules
<1>3. CrispRules(Merged(rules, new))
  BY <1>2, CrispMerged
<1> QED BY <1>1, <1>3 DEF CrispSystem, CrispRules

LEMMA CrispSystemWith ==
  ASSUME NEW rules, CrispSystem(rules), NEW A, NEW B, Crisp(A), Crisp(B)
  PROVE  CrispSystem(With(rules, A, B)) /\ CrispSystem(Without(rules, A))
BY DEF CrispSystem, With, Without

LEMMA CrispQueuePropagated ==
  ASSUME NEW A \in AttrSets, NEW B \in AttrSets, NEW news, NEW others, SystemType(others),
         Crisp(A), Crisp(B), CrispSystem(others), CrispInput,
         logic \in LogicNames \ {"Product"}
  PROVE  CrispQueue(Propagated(A, B, news, others))
<1> SUFFICES ASSUME NEW e \in Propagated(A, B, news, others)
             PROVE  Crisp(e.rule.lhs) /\ Crisp(e.rule.rhs)
  BY DEF CrispQueue
<1> DEFINE Entry(C, place, rule) ==
             [turn |-> iterations + 1, of |-> C, place |-> place, rule |-> rule]
<1>1. \/ \E C \in DOMAIN others : e = Entry(C, 0, [lhs |-> C, rhs |-> others[C]])
      \/ \E C \in DOMAIN others : \E d \in add_derived(A, B, C, others[C]) :
           e = Entry(C, Place(0, d.degrees), d.rule)
      \/ \E C \in DOMAIN others : \E d \in add_derived(C, others[C], A, B) :
           e = Entry(C, Place(1, d.degrees), d.rule)
  BY DEF Propagated
<1>2. \E C \in DOMAIN others :
        \/ e.rule = [lhs |-> C, rhs |-> others[C]]
        \/ \E d \in add_derived(A, B, C, others[C]) : e.rule = d.rule
        \/ \E d \in add_derived(C, others[C], A, B) : e.rule = d.rule
  BY <1>1
<1>3. \A C \in DOMAIN others :
        C \in AttrSets /\ others[C] \in AttrSets /\ Crisp(C) /\ Crisp(others[C])
  BY DEF SystemType, CrispSystem
<1>4. \A C \in DOMAIN others :
        /\ \A d \in add_derived(A, B, C, others[C]) : Crisp(d.rule.lhs) /\ Crisp(d.rule.rhs)
        /\ \A d \in add_derived(C, others[C], A, B) : Crisp(d.rule.lhs) /\ Crisp(d.rule.rhs)
  BY <1>3, CrispRulesDerived
<1> QED BY <1>2, <1>3, <1>4

\* What is derived from pairs of the system.
LEMMA DerivedCrisp ==
  ASSUME NEW pairs, pairs \subseteq Premises \X Premises, IInv, CrispSystem(sigma), CrispInput
  PROVE  \A r \in Derived(pairs) : r.rhs \in AttrSets /\ Crisp(r.lhs) /\ Crisp(r.rhs)
<1> SUFFICES ASSUME NEW r \in Derived(pairs)
             PROVE  r.rhs \in AttrSets /\ Crisp(r.lhs) /\ Crisp(r.rhs)
  OBVIOUS
<1>1. PICK p \in pairs : \E d \in add_derived(p[1], sigma[p[1]], p[2], sigma[p[2]]) : r = d.rule
  BY DEF Derived
<1>2. /\ columns \in Seq(Rules) /\ logic \in LogicNames \ {"Product"}
      /\ GoodRules(columns, logic, sigma)
  BY InvTypes
<1>3. p[1] \in DOMAIN sigma /\ p[2] \in DOMAIN sigma
  BY DEF Premises
<1>4. /\ Good(columns, logic, p[1], sigma[p[1]]) /\ Good(columns, logic, p[2], sigma[p[2]])
      /\ Crisp(p[1]) /\ Crisp(sigma[p[1]]) /\ Crisp(p[2]) /\ Crisp(sigma[p[2]])
  BY <1>2, <1>3 DEF GoodRules, CrispSystem
<1>5. /\ p[1] \in AttrSets /\ sigma[p[1]] \in AttrSets
      /\ p[2] \in AttrSets /\ sigma[p[2]] \in AttrSets
  BY <1>4 DEF Good
<1>6. r.rhs \in AttrSets
  BY DerivedSets
<1>7. Crisp(r.lhs) /\ Crisp(r.rhs)
  BY <1>1, <1>2, <1>4, <1>5, CrispRulesDerived
<1> QED BY <1>6, <1>7

\* A merged rule is in the system.
LEMMA MergedAbove ==
  ASSUME NEW rules, NEW new, SystemType(rules), \A r \in new : r.rhs \in AttrSets,
         NEW r \in new
  PROVE  /\ r.lhs \in DOMAIN Merged(rules, new)
         /\ Leq(r.rhs, Merged(rules, new)[r.lhs])
         /\ \A c \in Attributes : Merged(rules, new)[r.lhs][c] \in Grades
<1> SUFFICES ASSUME NEW c \in Attributes
             PROVE  /\ r.lhs \in DOMAIN Merged(rules, new)
                    /\ r.rhs[c] <= Merged(rules, new)[r.lhs][c]
                    /\ Merged(rules, new)[r.lhs][c] \in Grades
  <2>1. r.lhs \in DOMAIN Merged(rules, new)
    BY DEF Merged
  <2> QED BY <2>1 DEF Leq
<1> DEFINE G == r.lhs
           T == {IF G \in DOMAIN rules THEN rules[G][c] ELSE 0}
                  \cup {x.rhs[c] : x \in {y \in new : y.lhs = G}}
<1>1. G \in DOMAIN Merged(rules, new) /\ Merged(rules, new)[G][c] = Max(T)
  BY DEF Merged
<1>2. T \in SUBSET (0 .. K) /\ T # {} /\ r.rhs[c] \in T
  <2>1. \A x \in new : x.rhs[c] \in 0 .. K
    BY DEF AttrSets, Grades
  <2>2. (IF G \in DOMAIN rules THEN rules[G][c] ELSE 0) \in 0 .. K
    BY KAssumption DEF SystemType, AttrSets, Grades
  <2> QED BY <2>1, <2>2
<1>3. Max(T) \in 0 .. K /\ r.rhs[c] <= Max(T)
  <2> HIDE DEF T
  <2> QED BY <1>2, NatMax, KAssumption
<1> QED
  <2> HIDE DEF T
  <2> QED BY <1>1, <1>3 DEF Grades

\* A merged attribute has the degree K.
LEMMA MergedHas ==
  ASSUME NEW rules, NEW new, SystemType(rules), \A r \in new : r.rhs \in AttrSets,
         NEW r \in new, NEW c \in Attributes, r.rhs[c] = K
  PROVE  r.lhs \in DOMAIN Merged(rules, new) /\ Merged(rules, new)[r.lhs][c] = K
BY MergedAbove, KAssumption DEF Leq, Grades

-----------------------------------------------------------------------------
\* The steps.

\* DirectInv after a step that leaves the arguments alone.
LEMMA DirectNext ==
  ASSUME UNCHANGED <<columns, logic, method>>,
         CrispInput =>
           /\ CrispSystem(sigma') /\ CrispQueue(W')
           /\ pc' = "read" => sigma' = << >>
           /\ pc' = "monotonic" => method = "monotonic"
           /\ pc' \notin {"monotonic", "priority"} => W' = {}
           /\ pc' = "monotonic" =>
                \A A \in DOMAIN sigma', C \in DOMAIN sigma' : Promised(sigma', W', A, C)
           /\ pc' = "saturate" /\ method # "do_sp" =>
                \A p \in ((DOMAIN sigma') \X (DOMAIN sigma')) \ unprocessed' :
                  Promised(sigma', {}, p[1], p[2])
           /\ pc' = "prune" /\ method = "do_sp" =>
                \A A \in DOMAIN sigma_old', C \in DOMAIN sigma_old' :
                  Parts(sigma_old'[C]) \subseteq One(sigma', Joined(A, sigma_old'[A], C))
           /\ pc' = "prune" /\ method \notin {"do_sp", "priority"} => DirectSets(sigma')
           /\ pc' = "done" /\ method # "priority" => DirectSets(sigma') /\ Irredundant(sigma')
  PROVE  DirectInv'
<1> SUFFICES ASSUME CrispInput' PROVE DirectInv'
  BY DEF DirectInv
<1>1. CrispInput
  BY SameModels
<1> QED
  BY <1>1 DEF DirectInv, Premises, CrispSystem, CrispQueue, Crisp, Promised, DirectSets,
     Irredundant, Answered, Joined, One, Parts

\* A system lies within itself.
LEMMA WithinItself ==
  ASSUME NEW rules, SystemType(rules)
  PROVE  Within(rules, rules)
BY LeqReflexive DEF Within, SystemType

\* A promise is kept while the system grows and the worklist gives its rules to it.
LEMMA PromisedGrows ==
  ASSUME NEW rules, NEW more, NEW queue, NEW rest, SystemType(more), Within(rules, more),
         NEW A \in DOMAIN rules, NEW C \in DOMAIN rules,
         more[A] = rules[A], more[C] = rules[C], Promised(rules, queue, A, C),
         \A e \in queue : \/ e \in rest
                          \/ \A c \in Attributes :
                               e.rule.rhs[c] = K => c \in One(more, Parts(e.rule.lhs))
  PROVE  Promised(more, rest, A, C)
<1> DEFINE J == Joined(A, rules[A], C)
<1> SUFFICES ASSUME NEW c \in Parts(rules[C])
             PROVE  \/ c \in One(more, J)
                    \/ \E e \in rest : Parts(e.rule.lhs) \subseteq J /\ e.rule.rhs[c] = K
  BY DEF Promised, Answered
<1>1. CASE c \in One(rules, J)
  BY <1>1, OneGrows
<1>2. ASSUME NEW e \in queue, Parts(e.rule.lhs) \subseteq J, e.rule.rhs[c] = K
      PROVE  \/ c \in One(more, J)
             \/ e \in rest
  <2> SUFFICES ASSUME e \notin rest PROVE c \in One(more, J)
    OBVIOUS
  <2>1. c \in One(more, Parts(e.rule.lhs))
    BY <1>2 DEF Parts
  <2> HIDE DEF J
  <2> QED BY <1>2, <2>1, WithinItself, OneGrows
<1> QED BY <1>1, <1>2 DEF Promised, Answered

\* Derived rules are followed by the system or stand in the worklist.
Followed(rules, queue, derived) ==
  \A d \in derived : \A c \in Attributes :
    d.rule.rhs[c] = K =>
      \/ c \in One(rules, Parts(d.rule.lhs))
      \/ \E e \in queue : e.rule = d.rule

\* What two rules of a system give together, when the rules derived from them
\* are followed or in the worklist.
LEMMA PairPromised ==
  ASSUME NEW rules, NEW more, NEW queue, SystemType(rules), CrispSystem(rules),
         SystemType(more), Within(rules, more), logic \in LogicNames \ {"Product"},
         NEW A \in DOMAIN rules, NEW C \in DOMAIN rules,
         Followed(more, queue, add_derived(A, rules[A], C, rules[C]))
  PROVE  Answered(more, queue, Joined(A, rules[A], C), rules[C])
<1> DEFINE J == Joined(A, rules[A], C)
<1> SUFFICES ASSUME NEW c \in Parts(rules[C])
             PROVE  \/ c \in One(more, J)
                    \/ \E e \in queue : Parts(e.rule.lhs) \subseteq J /\ e.rule.rhs[c] = K
  BY DEF Answered
<1>1. /\ A \in AttrSets /\ rules[A] \in AttrSets /\ C \in AttrSets /\ rules[C] \in AttrSets
      /\ Crisp(A) /\ Crisp(rules[A]) /\ Crisp(C) /\ Crisp(rules[C])
      /\ A = C => rules[A] = rules[C]
      /\ c \in Attributes
  BY DEF SystemType, CrispSystem, Parts
<1>2. \/ c \in J
      \/ Parts(A) \subseteq J /\ rules[A][c] = K
      \/ Parts(C) \subseteq J /\ rules[C][c] = K
      \/ \E d \in add_derived(A, rules[A], C, rules[C]) :
           Parts(d.rule.lhs) = J /\ d.rule.rhs[c] = K
  BY <1>1, DerivedGives
<1> HIDE DEF J
<1>3. One(rules, J) \subseteq One(more, J)
  BY OneGrows
<1>4. CASE c \in J
  BY <1>4 DEF One
<1>5. ASSUME NEW X \in DOMAIN rules, Parts(X) \subseteq J, rules[X][c] = K PROVE c \in One(more, J)
  BY <1>1, <1>3, <1>5 DEF One
<1>6. ASSUME NEW d \in add_derived(A, rules[A], C, rules[C]),
             Parts(d.rule.lhs) = J, d.rule.rhs[c] = K
      PROVE  \/ c \in One(more, J)
             \/ \E e \in queue : Parts(e.rule.lhs) \subseteq J /\ e.rule.rhs[c] = K
  <2>1. \/ c \in One(more, Parts(d.rule.lhs))
        \/ \E e \in queue : e.rule = d.rule
    BY <1>1, <1>6 DEF Followed
  <2> QED BY <1>6, <2>1
<1> QED BY <1>2, <1>4, <1>5, <1>6

LEMMA ReadDirect == IInv /\ DirectInv /\ Read => DirectInv'
<1> SUFFICES ASSUME IInv, DirectInv, Read PROVE DirectInv'
  OBVIOUS
<1> DEFINE s == Sparse_to_Sigma(columns)
<1>1. /\ UNCHANGED <<columns, logic, method>>
      /\ pc = "read"
      /\ columns \in Seq(Rules)
  BY DEF Read, inputs, IInv
<1> SUFFICES ASSUME CrispInput
             PROVE  /\ CrispSystem(sigma') /\ CrispQueue(W')
                    /\ pc' \in {"monotonic", "priority", "saturate"}
                    /\ pc' = "monotonic" => method = "monotonic" /\ sigma' = << >>
                    /\ pc' = "saturate" => W' = {}
                    /\ pc' = "saturate" /\ method # "do_sp" =>
                         unprocessed' = (DOMAIN sigma') \X (DOMAIN sigma')
  <2>1. DOMAIN << >> = {}
    OBVIOUS
  <2> QED BY <1>1, <2>1, DirectNext
<1>2. CrispSystem(s)
  BY <1>1, CrispSystemSparse
<1>3. sigma = << >> /\ W = {}
  BY <1>1 DEF DirectInv
<1>4. CASE method \in {"monotonic", "priority"}
  <2>1. /\ pc' = method
        /\ W' = {[turn |-> 0, of |-> A, place |-> 0, rule |-> [lhs |-> A, rhs |-> s[A]]] :
                   A \in DOMAIN s}
        /\ sigma' = sigma
    BY <1>4 DEF Read
  <2> HIDE DEF s
  <2>2. CrispQueue(W')
    BY <1>2, <2>1 DEF CrispQueue, CrispSystem
  <2>3. CrispSystem(sigma')
    BY <1>3, <2>1 DEF CrispSystem
  <2> QED BY <1>3, <1>4, <2>1, <2>2, <2>3
<1>5. CASE method \notin {"monotonic", "priority"}
  <2>1. /\ pc' = "saturate" /\ sigma' = s /\ W' = W
        /\ unprocessed' = IF method = "do_sp" THEN {} ELSE (DOMAIN s) \X (DOMAIN s)
    BY <1>5 DEF Read
  <2> HIDE DEF s
  <2> QED BY <1>2, <1>3, <2>1 DEF CrispQueue
<1> QED BY <1>4, <1>5

\* A pass of saturate_system combines the pairs it was to combine.
LEMMA SaturatePassDirect == IInv /\ IInv' /\ DirectInv /\ SaturatePass => DirectInv'
<1> SUFFICES ASSUME IInv, IInv', DirectInv, SaturatePass PROVE DirectInv'
  OBVIOUS
<1>1. /\ UNCHANGED <<columns, logic, method, W>>
      /\ pc = "saturate" /\ method # "do_sp"
  BY DEF SaturatePass, inputs
<1>2. /\ pc' = IF sigma' = sigma THEN "prune" ELSE "saturate"
      /\ sigma' = Merged(sigma, Derived(unprocessed))
      /\ unprocessed' = {p \in (DOMAIN sigma') \X (DOMAIN sigma') :
                           p[1] \in Changed(sigma') \/ p[2] \in Changed(sigma')}
  BY DEF SaturatePass
<1>3. /\ logic \in LogicNames \ {"Product"} /\ SystemType(sigma)
      /\ unprocessed \subseteq Premises \X Premises
  BY InvTypes DEF IInv
<1>4. SystemType(sigma')
  BY DEF IInv, GoodRules, Good, SystemType
<1> SUFFICES ASSUME CrispInput
             PROVE  /\ CrispSystem(sigma')
                    /\ \A p \in ((DOMAIN sigma') \X (DOMAIN sigma')) \ unprocessed' :
                         Promised(sigma', {}, p[1], p[2])
                    /\ pc' = "prune" => DirectSets(sigma')
  <2>1. CrispInput => CrispQueue(W') /\ W' = {}
    BY <1>1 DEF DirectInv
  <2>2. pc' \in {"prune", "saturate"}
    BY <1>2
  <2> QED BY <1>1, <2>1, <2>2, DirectNext
<1>5. /\ CrispSystem(sigma)
      /\ \A p \in (Premises \X Premises) \ unprocessed : Promised(sigma, {}, p[1], p[2])
  BY <1>1 DEF DirectInv
<1>6. \A r \in Derived(unprocessed) : r.rhs \in AttrSets /\ Crisp(r.lhs) /\ Crisp(r.rhs)
  BY <1>3, <1>5, DerivedCrisp
<1>7. CrispSystem(sigma') /\ Within(sigma, sigma')
  BY <1>2, <1>3, <1>5, <1>6, CrispSystemMerged, WithinMerged
<1>8. ASSUME NEW p \in ((DOMAIN sigma') \X (DOMAIN sigma')) \ unprocessed'
      PROVE  Promised(sigma', {}, p[1], p[2])
  <2>1. /\ p[1] \in DOMAIN sigma /\ sigma'[p[1]] = sigma[p[1]]
        /\ p[2] \in DOMAIN sigma /\ sigma'[p[2]] = sigma[p[2]]
        /\ p \in Premises \X Premises
    BY <1>2 DEF Changed, Premises
  <2>2. CASE p \notin unprocessed
    <3>1. Promised(sigma, {}, p[1], p[2])
      BY <1>5, <2>1, <2>2
    <3> QED BY <1>4, <1>7, <2>1, <3>1, PromisedGrows
  <2>3. CASE p \in unprocessed
    <3>1. ASSUME NEW d \in add_derived(p[1], sigma[p[1]], p[2], sigma[p[2]]),
                 NEW c \in Attributes, d.rule.rhs[c] = K
          PROVE  c \in One(sigma', Parts(d.rule.lhs))
      <4>1. d.rule \in Derived(unprocessed)
        BY <2>3 DEF Derived
      <4>2. d.rule.lhs \in DOMAIN sigma' /\ sigma'[d.rule.lhs][c] = K
        BY <1>2, <1>3, <1>6, <3>1, <4>1, MergedHas
      <4> QED BY <4>2 DEF One
    <3>2. Followed(sigma', {}, add_derived(p[1], sigma[p[1]], p[2], sigma[p[2]]))
      BY <3>1 DEF Followed
    <3>3. Answered(sigma', {}, Joined(p[1], sigma[p[1]], p[2]), sigma[p[2]])
      BY <1>3, <1>4, <1>5, <1>7, <2>1, <3>2, PairPromised
    <3> QED BY <2>1, <3>3 DEF Promised
  <2> QED BY <2>2, <2>3
<1>9. ASSUME pc' = "prune" PROVE DirectSets(sigma')
  <2>1. sigma' = sigma
    BY <1>2, <1>9
  <2>2. unprocessed' = {}
    BY <1>2, <2>1 DEF Changed, Premises
  <2>3. \A A, C \in DOMAIN sigma' : Promised(sigma', {}, A, C)
    <3> TAKE A, C \in DOMAIN sigma'
    <3>1. <<A, C>> \in ((DOMAIN sigma') \X (DOMAIN sigma')) \ unprocessed'
      BY <2>2
    <3> QED BY <1>8, <3>1
  <2> QED BY <1>4, <1>7, <2>3, OnePass
<1> QED BY <1>7, <1>8, <1>9

\* A round of do_sp begins: all pairs of the old system are combined.
LEMMA SaturateOnceDirect == IInv /\ IInv' /\ DirectInv /\ SaturateOnce => DirectInv'
<1> SUFFICES ASSUME IInv, IInv', DirectInv, SaturateOnce PROVE DirectInv'
  OBVIOUS
<1> DEFINE all == Premises \X Premises
<1>1. /\ UNCHANGED <<columns, logic, method, W>>
      /\ pc = "saturate" /\ method = "do_sp" /\ pc' = "prune"
      /\ sigma_old' = sigma /\ sigma' = Merged(sigma, Derived(all))
  BY DEF SaturateOnce, inputs
<1>2. /\ logic \in LogicNames \ {"Product"} /\ SystemType(sigma)
  BY InvTypes
<1>3. SystemType(sigma')
  BY DEF IInv, GoodRules, Good, SystemType
<1> SUFFICES ASSUME CrispInput
             PROVE  /\ CrispSystem(sigma')
                    /\ \A A, C \in DOMAIN sigma :
                         Parts(sigma[C]) \subseteq One(sigma', Joined(A, sigma[A], C))
  <2>1. CrispInput => CrispQueue(W') /\ W' = {}
    BY <1>1 DEF DirectInv
  <2> QED BY <1>1, <2>1, DirectNext
<1>4. CrispSystem(sigma)
  BY DEF DirectInv
<1>5. \A r \in Derived(all) : r.rhs \in AttrSets /\ Crisp(r.lhs) /\ Crisp(r.rhs)
  BY <1>4, DerivedCrisp
<1>6. CrispSystem(sigma') /\ Within(sigma, sigma')
  BY <1>1, <1>2, <1>4, <1>5, CrispSystemMerged, WithinMerged
<1>7. ASSUME NEW A \in DOMAIN sigma, NEW C \in DOMAIN sigma
      PROVE  Parts(sigma[C]) \subseteq One(sigma', Joined(A, sigma[A], C))
  <2>1. ASSUME NEW d \in add_derived(A, sigma[A], C, sigma[C]),
               NEW c \in Attributes, d.rule.rhs[c] = K
        PROVE  c \in One(sigma', Parts(d.rule.lhs))
    <3>1. d.rule \in Derived(all)
      <4>1. <<A, C>> \in all
        BY DEF Premises
      <4> QED BY <4>1 DEF Derived
    <3> HIDE DEF all
    <3>2. d.rule.lhs \in DOMAIN sigma' /\ sigma'[d.rule.lhs][c] = K
      BY <1>1, <1>2, <1>5, <2>1, <3>1, MergedHas
    <3> QED BY <3>2 DEF One
  <2>2. Followed(sigma', {}, add_derived(A, sigma[A], C, sigma[C]))
    BY <2>1 DEF Followed
  <2>3. Answered(sigma', {}, Joined(A, sigma[A], C), sigma[C])
    BY <1>2, <1>3, <1>4, <1>6, <2>2, PairPromised
  <2> QED BY <2>3 DEF Answered
<1> QED BY <1>6, <1>7

\* Pruning: what is left when nothing changes any more is direct.
LEMMA PruneDirect == IInv /\ IInv' /\ DirectInv /\ (PrunePass \/ PruneOnce) => DirectInv'
<1> SUFFICES ASSUME IInv, IInv', DirectInv, PrunePass \/ PruneOnce PROVE DirectInv'
  OBVIOUS
<1>1. /\ UNCHANGED <<columns, logic, method, sigma_old, W>>
      /\ pc = "prune" /\ sigma' = Pruned(sigma)
      /\ \/ method # "do_sp" /\ pc' \in {"prune", "done"}
         \/ /\ method = "do_sp" /\ pc' \in {"saturate", "done"}
            /\ pc' = "done" => sigma' = sigma_old
  BY DEF PrunePass, PruneOnce, inputs
<1>2. /\ logic \in LogicNames \ {"Product"} /\ SystemType(sigma)
  BY InvTypes
<1> SUFFICES ASSUME CrispInput
             PROVE  /\ CrispSystem(sigma') /\ Irredundant(sigma')
                    /\ method \notin {"do_sp", "priority"} => DirectSets(sigma')
                    /\ pc' = "done" /\ method = "do_sp" => DirectSets(sigma')
  <2>1. CrispInput => CrispQueue(W') /\ W' = {}
    BY <1>1 DEF DirectInv
  <2> QED BY <1>1, <2>1, DirectNext
<1>3. CrispSystem(sigma)
  BY DEF DirectInv
<1>4. /\ SystemType(sigma') /\ Thinned(sigma, sigma')
      /\ CrispSystem(sigma') /\ Irredundant(sigma')
  BY <1>1, <1>2, <1>3, PrunedThinned, PrunedIrredundant
<1>5. ASSUME method \notin {"do_sp", "priority"} PROVE DirectSets(sigma')
  <2>1. DirectSets(sigma)
    BY <1>1, <1>5 DEF DirectInv
  <2> QED BY <1>2, <1>3, <1>4, <2>1, KeptDirect
<1>6. ASSUME pc' = "done", method = "do_sp" PROVE DirectSets(sigma')
  <2>1. sigma' = sigma_old
    BY <1>1, <1>6
  <2>2. \A A, C \in DOMAIN sigma_old :
          Parts(sigma_old[C]) \subseteq One(sigma, Joined(A, sigma_old[A], C))
    BY <1>1, <1>6 DEF DirectInv
  <2>3. \A A, C \in DOMAIN sigma' : Promised(sigma', {}, A, C)
    <3> TAKE A, C \in DOMAIN sigma'
    <3> DEFINE J == Joined(A, sigma'[A], C)
    <3>1. J \in SUBSET Attributes
      BY DEF Joined, Parts
    <3>2. Parts(sigma'[C]) \subseteq One(sigma, J)
      BY <2>1, <2>2
    <3> HIDE DEF J
    <3>3. One(sigma', J) = One(sigma, J)
      BY <1>2, <1>3, <1>4, <3>1, KeptOne
    <3> QED BY <3>2, <3>3 DEF Promised, Answered, J
  <2> QED BY <1>4, <2>3, OnePass
<1> QED BY <1>4, <1>5, <1>6

\* What the system derives from a premise need not be added to it.
LEMMA NewFollows ==
  ASSUME NEW A \in AttrSets, Crisp(A), NEW B \in AttrSets, NEW rules, NEW more,
         SystemType(rules), CrispSystem(rules), SystemType(more), Within(rules, more),
         \A c \in Attributes :
           set_setminus(B, pi(A, rules))[c] = K => c \in One(more, Parts(A)),
         NEW c \in Attributes, B[c] = K, logic \in LogicNames \ {"Product"}
  PROVE  c \in One(more, Parts(A))
<1>1. CASE K <= pi(A, rules)[c]
  <2>1. c \in One(rules, Parts(A))
    BY <1>1, PiOne
  <2> QED BY <2>1, OneGrows
<1>2. CASE ~(K <= pi(A, rules)[c])
  <2>1. pi(A, rules)[c] \in Grades
    BY PiDegrees DEF SystemType
  <2>2. set_setminus(B, pi(A, rules))[c] = K
    BY <1>2, <2>1, KAssumption DEF set_setminus, Grades
  <2> QED BY <2>2
<1> QED BY <1>1, <1>2

\* A changed rule is combined with every rule of the system and with itself.
LEMMA PropagatedFollowed ==
  ASSUME NEW rules, NEW A \in DOMAIN rules, NEW news, NEW queue,
         Propagated(A, rules[A], news, rules) \subseteq queue, NEW X \in DOMAIN rules
  PROVE  /\ Followed(rules, queue, add_derived(A, rules[A], X, rules[X]))
         /\ Followed(rules, queue, add_derived(X, rules[X], A, rules[A]))
<1> DEFINE Entry(C, place, rule) ==
             [turn |-> iterations + 1, of |-> C, place |-> place, rule |-> rule]
<1>1. ASSUME NEW d \in add_derived(A, rules[A], X, rules[X])
      PROVE  \E e \in queue : e.rule = d.rule
  <2>1. Entry(X, Place(0, d.degrees), d.rule) \in queue
    BY DEF Propagated
  <2>2. Entry(X, Place(0, d.degrees), d.rule).rule = d.rule
    OBVIOUS
  <2> HIDE DEF Entry
  <2> QED BY <2>1, <2>2
<1>2. ASSUME NEW d \in add_derived(X, rules[X], A, rules[A])
      PROVE  \E e \in queue : e.rule = d.rule
  <2>1. Entry(X, Place(1, d.degrees), d.rule) \in queue
    BY DEF Propagated
  <2>2. Entry(X, Place(1, d.degrees), d.rule).rule = d.rule
    OBVIOUS
  <2> HIDE DEF Entry
  <2> QED BY <2>1, <2>2
<1> HIDE DEF Entry
<1> QED BY <1>1, <1>2 DEF Followed

\* A rule of the worklist goes into the system.
LEMMA AddedPromised ==
  ASSUME IInv, IInv', DirectInv, CrispInput, pc = "monotonic",
         NEW e \in W, NEW B, NEW news, Crisp(B),
         LET A == e.rule.lhs
         IN  /\ sigma' = With(sigma, A, B)
             /\ W' = (W \ {e}) \cup Propagated(A, B, news, sigma')
             /\ A \in DOMAIN sigma => Leq(sigma[A], B)
             /\ Leq(set_setminus(e.rule.rhs, pi(A, sigma)), B)
  PROVE  /\ CrispSystem(sigma') /\ CrispQueue(W')
         /\ \A X \in DOMAIN sigma', Y \in DOMAIN sigma' : Promised(sigma', W', X, Y)
<1> DEFINE A == e.rule.lhs
           fresh == Propagated(A, B, news, sigma')
<1>1. /\ logic \in LogicNames \ {"Product"} /\ SystemType(sigma)
      /\ A \in AttrSets /\ e.rule.rhs \in AttrSets
  BY InvTypes
<1>2. SystemType(sigma')
  BY DEF IInv, GoodRules, Good, SystemType
<1>3. /\ CrispSystem(sigma) /\ CrispQueue(W) /\ Crisp(A)
      /\ \A X, Y \in DOMAIN sigma : Promised(sigma, W, X, Y)
  BY DEF DirectInv, CrispQueue, Premises
<1>4. A \in DOMAIN sigma' /\ sigma'[A] = B /\ B \in AttrSets
  <2>1. A \in DOMAIN sigma' /\ sigma'[A] = B
    BY DEF With
  <2> QED BY <1>2, <2>1 DEF SystemType
<1>5. \A X \in DOMAIN sigma' \ {A} : X \in DOMAIN sigma /\ sigma'[X] = sigma[X]
  BY DEF With
<1>6. Within(sigma, sigma')
  <2> HIDE DEF A
  <2>1. Within(sigma, With(sigma, A, B))
    BY <1>1, WithinWith DEF A
  <2> QED BY <2>1 DEF A
<1>7. CrispSystem(sigma')
  BY <1>3, CrispSystemWith
<1>8. CrispQueue(W')
  <2> HIDE DEF A
  <2>1. CrispQueue(fresh)
    BY <1>1, <1>2, <1>3, <1>4, <1>7, CrispQueuePropagated
  <2>2. W' = (W \ {e}) \cup fresh
    BY DEF A
  <2> HIDE DEF fresh
  <2> QED BY <1>3, <2>1, <2>2 DEF CrispQueue
<1>9. ASSUME NEW c \in Attributes, e.rule.rhs[c] = K PROVE c \in One(sigma', Parts(A))
  <2> DEFINE B_new == set_setminus(e.rule.rhs, pi(A, sigma))
  <2>1. ASSUME NEW d \in Attributes, B_new[d] = K PROVE d \in One(sigma', Parts(A))
    <3>1. K <= B[d] /\ B[d] \in Grades
      <4>1. B_new[d] <= B[d]
        BY DEF Leq
      <4> HIDE DEF B_new
      <4> QED BY <1>4, <2>1, <4>1 DEF AttrSets
    <3>2. sigma'[A][d] = K
      BY <1>4, <3>1, KAssumption DEF Grades
    <3> HIDE DEF A
    <3> QED BY <1>4, <3>2 DEF One
  <2> HIDE DEF A
  <2> QED BY <1>1, <1>2, <1>3, <1>6, <1>9, <2>1, NewFollows
<1>10. ASSUME NEW X \in DOMAIN sigma', NEW Y \in DOMAIN sigma', X = A \/ Y = A
       PROVE  Promised(sigma', W', X, Y)
  <2>1. Propagated(A, sigma'[A], news, sigma') \subseteq W'
    BY <1>4
  <2> HIDE DEF A
  <2>2. Followed(sigma', W', add_derived(X, sigma'[X], Y, sigma'[Y]))
    BY <1>4, <1>10, <2>1, PropagatedFollowed
  <2>3. Within(sigma', sigma')
    BY <1>2, WithinItself
  <2>4. Answered(sigma', W', Joined(X, sigma'[X], Y), sigma'[Y])
    BY <1>1, <1>2, <1>7, <2>2, <2>3, PairPromised
  <2> QED BY <2>4 DEF Promised
<1>11. ASSUME NEW X \in DOMAIN sigma', NEW Y \in DOMAIN sigma', X # A, Y # A
       PROVE  Promised(sigma', W', X, Y)
  <2>1. /\ X \in DOMAIN sigma /\ sigma'[X] = sigma[X]
        /\ Y \in DOMAIN sigma /\ sigma'[Y] = sigma[Y]
    BY <1>5, <1>11
  <2>2. Promised(sigma, W, X, Y)
    BY <1>3, <2>1
  <2>3. \A d \in W : d \in W' \/ d = e
    OBVIOUS
  <2>4. \A d \in W : \/ d \in W'
                     \/ \A c \in Attributes : d.rule.rhs[c] = K => c \in One(sigma', Parts(d.rule.lhs))
    BY <1>9, <2>3
  <2> QED BY <1>2, <1>6, <2>1, <2>2, <2>4, PromisedGrows
<1> QED BY <1>7, <1>8, <1>10, <1>11

\* A rule of the worklist is dropped, as the system has what is new of it.
LEMMA DroppedPromised ==
  ASSUME IInv, DirectInv, CrispInput, pc = "monotonic",
         NEW e \in W, sigma' = sigma, W' = W \ {e},
         LET A == e.rule.lhs
         IN  \A c \in Attributes :
               set_setminus(e.rule.rhs, pi(A, sigma))[c] = K
                 => A \in DOMAIN sigma /\ sigma[A][c] = K
  PROVE  /\ CrispSystem(sigma') /\ CrispQueue(W')
         /\ \A X \in DOMAIN sigma', Y \in DOMAIN sigma' : Promised(sigma', W', X, Y)
<1> DEFINE A == e.rule.lhs
<1>1. /\ logic \in LogicNames \ {"Product"} /\ SystemType(sigma)
      /\ A \in AttrSets /\ e.rule.rhs \in AttrSets
  BY InvTypes
<1>2. /\ CrispSystem(sigma) /\ CrispQueue(W) /\ Crisp(A)
      /\ \A X, Y \in DOMAIN sigma : Promised(sigma, W, X, Y)
  BY DEF DirectInv, CrispQueue, Premises
<1>3. Within(sigma, sigma)
  BY <1>1, WithinItself
<1>4. \A d \in Attributes :
        set_setminus(e.rule.rhs, pi(A, sigma))[d] = K => d \in One(sigma, Parts(A))
  BY DEF One
<1>5. ASSUME NEW c \in Attributes, e.rule.rhs[c] = K PROVE c \in One(sigma, Parts(A))
  <2> HIDE DEF A
  <2> QED BY <1>1, <1>2, <1>3, <1>4, <1>5, NewFollows
<1>6. \A d \in W : \/ d \in W'
                   \/ \A c \in Attributes : d.rule.rhs[c] = K => c \in One(sigma, Parts(d.rule.lhs))
  BY <1>5
<1>7. \A X \in DOMAIN sigma, Y \in DOMAIN sigma : Promised(sigma, W', X, Y)
  BY <1>1, <1>2, <1>3, <1>6, PromisedGrows
<1> QED BY <1>2, <1>7 DEF CrispQueue

LEMMA MonotonicNewDirect == IInv /\ IInv' /\ DirectInv /\ MonotonicNew => DirectInv'
<1> SUFFICES ASSUME IInv, IInv', DirectInv, MonotonicNew PROVE DirectInv'
  OBVIOUS
<1>1. UNCHANGED <<columns, logic, method, pc>> /\ pc = "monotonic"
  BY DEF MonotonicNew, inputs
<1> SUFFICES ASSUME CrispInput
             PROVE  /\ CrispSystem(sigma') /\ CrispQueue(W')
                    /\ \A X \in DOMAIN sigma', Y \in DOMAIN sigma' : Promised(sigma', W', X, Y)
  <2>1. CrispInput => method = "monotonic"
    BY <1>1 DEF DirectInv
  <2> QED BY <1>1, <2>1, DirectNext
<1>2. PICK e \in W :
        /\ e.rule.lhs \notin Premises
        /\ LET A == e.rule.lhs
               B_new == set_setminus(e.rule.rhs, pi(A, sigma))
           IN  IF B_new # EmptySet
               THEN /\ sigma' = With(sigma, A, B_new)
                    /\ W' = (W \ {e}) \cup Propagated(A, B_new, B_new, sigma')
               ELSE W' = W \ {e} /\ sigma' = sigma
  BY Zenon DEF MonotonicNew
<1> DEFINE A == e.rule.lhs
           B_new == set_setminus(e.rule.rhs, pi(A, sigma))
<1>3. B_new \in AttrSets /\ Leq(B_new, B_new) /\ Crisp(B_new) /\ A \notin DOMAIN sigma
  <2>1. K \in Grades
    BY KAssumption DEF Grades
  <2>2. /\ logic \in LogicNames \ {"Product"} /\ e.rule.rhs \in AttrSets /\ Crisp(e.rule.rhs)
    BY InvTypes DEF DirectInv, CrispQueue
  <2>3. B_new \in AttrSets /\ Crisp(B_new)
    BY <2>1, <2>2, OperationTypes, CrispParts
  <2> HIDE DEF B_new
  <2> QED BY <1>2, <2>3, LeqReflexive DEF Premises
<1>4. CASE B_new # EmptySet
  <2>1. /\ sigma' = With(sigma, A, B_new)
        /\ W' = (W \ {e}) \cup Propagated(A, B_new, B_new, sigma')
    BY <1>2, <1>4
  <2> QED BY <1>1, <1>3, <2>1, AddedPromised
<1>5. CASE B_new = EmptySet
  <2>1. W' = W \ {e} /\ sigma' = sigma
    BY <1>2, <1>5
  <2>2. \A c \in Attributes : B_new[c] # K
    BY <1>5, KAssumption DEF EmptySet
  <2> QED BY <1>1, <2>1, <2>2, DroppedPromised
<1> QED BY <1>4, <1>5

LEMMA MonotonicMergeDirect == IInv /\ IInv' /\ DirectInv /\ MonotonicMerge => DirectInv'
<1> SUFFICES ASSUME IInv, IInv', DirectInv, MonotonicMerge PROVE DirectInv'
  OBVIOUS
<1>1. UNCHANGED <<columns, logic, method, pc>> /\ pc = "monotonic"
  BY DEF MonotonicMerge, inputs
<1> SUFFICES ASSUME CrispInput
             PROVE  /\ CrispSystem(sigma') /\ CrispQueue(W')
                    /\ \A X \in DOMAIN sigma', Y \in DOMAIN sigma' : Promised(sigma', W', X, Y)
  <2>1. CrispInput => method = "monotonic"
    BY <1>1 DEF DirectInv
  <2> QED BY <1>1, <2>1, DirectNext
<1>2. PICK e \in W :
        /\ e.rule.lhs \in Premises
        /\ LET A == e.rule.lhs
               B_new == set_setminus(e.rule.rhs, pi(A, sigma))
               B_merged == set_union(sigma[A], B_new)
               is_redundant == Reduced(A, B_merged, sigma) = EmptySet
           IN  IF B_merged # sigma[A] \/ is_redundant # (A \in redundant)
               THEN /\ sigma' = With(sigma, A, B_merged)
                    /\ redundant' = IF is_redundant THEN redundant \cup {A} ELSE redundant \ {A}
                    /\ W' = (W \ {e}) \cup Propagated(A, B_merged, B_new, sigma')
               ELSE W' = W \ {e} /\ UNCHANGED <<sigma, redundant>>
  BY Zenon DEF MonotonicMerge
<1> DEFINE A == e.rule.lhs
           B_new == set_setminus(e.rule.rhs, pi(A, sigma))
           B_merged == set_union(sigma[A], B_new)
<1>3. \/ /\ sigma' = With(sigma, A, B_merged)
         /\ W' = (W \ {e}) \cup Propagated(A, B_merged, B_new, sigma')
      \/ B_merged = sigma[A] /\ W' = W \ {e} /\ sigma' = sigma
  BY <1>2
<1>4. /\ A \in DOMAIN sigma /\ sigma[A] \in AttrSets /\ Crisp(sigma[A])
      /\ B_new \in AttrSets /\ Crisp(B_new)
  <2>1. K \in Grades
    BY KAssumption DEF Grades
  <2>2. /\ logic \in LogicNames \ {"Product"} /\ SystemType(sigma)
        /\ e.rule.rhs \in AttrSets /\ Crisp(e.rule.rhs) /\ CrispSystem(sigma)
    BY InvTypes DEF DirectInv, CrispQueue
  <2>3. B_new \in AttrSets /\ Crisp(B_new)
    BY <2>1, <2>2, OperationTypes, CrispParts
  <2> HIDE DEF B_new
  <2> QED BY <1>2, <2>2, <2>3 DEF Premises, SystemType, CrispSystem
<1>5. /\ Leq(sigma[A], B_merged) /\ Leq(B_new, B_merged)
      /\ B_merged \in AttrSets /\ Crisp(B_merged)
  <2>1. K \in Grades /\ logic \in LogicNames \ {"Product"}
    BY KAssumption, InvTypes DEF Grades
  <2> HIDE DEF A, B_new
  <2> QED BY <1>4, <2>1, UnionAbove, OperationTypes, CrispParts
<1>6. CASE /\ sigma' = With(sigma, A, B_merged)
           /\ W' = (W \ {e}) \cup Propagated(A, B_merged, B_new, sigma')
  <2>1. /\ sigma' = With(sigma, e.rule.lhs, B_merged)
        /\ W' = (W \ {e}) \cup Propagated(e.rule.lhs, B_merged, B_new, sigma')
        /\ Leq(sigma[e.rule.lhs], B_merged)
        /\ Leq(set_setminus(e.rule.rhs, pi(e.rule.lhs, sigma)), B_merged)
    BY <1>5, <1>6
  <2> HIDE DEF A, B_new, B_merged
  <2> QED BY <1>1, <1>5, <2>1, AddedPromised
<1>7. CASE B_merged = sigma[A] /\ W' = W \ {e} /\ sigma' = sigma
  <2>1. \A c \in Attributes : B_new[c] = K => sigma[A][c] = K
    <3>1. Leq(B_new, sigma[A])
      <4> HIDE DEF A, B_new, B_merged
      <4> QED BY <1>5, <1>7
    <3> HIDE DEF A, B_new, B_merged
    <3> QED BY <1>4, <3>1, KAssumption DEF Leq, AttrSets, Grades
  <2> QED BY <1>1, <1>4, <1>7, <2>1, DroppedPromised
<1> QED BY <1>3, <1>6, <1>7

\* With an empty worklist every promise is kept, and the redundant rules can go.
LEMMA MonotonicEndDirect == IInv /\ LossInv /\ DirectInv /\ MonotonicEnd => DirectInv'
<1> SUFFICES ASSUME IInv, LossInv, DirectInv, MonotonicEnd PROVE DirectInv'
  OBVIOUS
<1>1. /\ UNCHANGED <<columns, logic, method, W>>
      /\ pc = "monotonic" /\ pc' = "prune" /\ W = {}
      /\ sigma' = [A \in Premises \ redundant |-> sigma[A]]
  BY DEF MonotonicEnd, inputs
<1>2. /\ logic \in LogicNames \ {"Product"} /\ SystemType(sigma)
  BY InvTypes
<1> SUFFICES ASSUME CrispInput
             PROVE  CrispSystem(sigma') /\ DirectSets(sigma')
  <2>1. CrispInput => CrispQueue(W') /\ method = "monotonic"
    BY <1>1 DEF DirectInv
  <2> QED BY <1>1, <2>1, DirectNext
<1>3. /\ CrispSystem(sigma)
      /\ \A A, C \in DOMAIN sigma : Promised(sigma, {}, A, C)
  BY <1>1 DEF DirectInv, Premises
<1>4. DirectSets(sigma)
  BY <1>2, <1>3, OnePass
<1>5. \A A \in DOMAIN sigma' : A \in DOMAIN sigma /\ sigma'[A] = sigma[A]
  BY <1>1 DEF Premises
<1>6. SystemType(sigma') /\ CrispSystem(sigma') /\ Within(sigma', sigma)
  BY <1>2, <1>3, <1>5, LeqReflexive DEF SystemType, CrispSystem, Within
<1>7. ASSUME NEW A \in DOMAIN sigma, NEW c \in Attributes
      PROVE  \/ A \in DOMAIN sigma' /\ sigma[A][c] <= sigma'[A][c]
             \/ sigma[A][c] <= pi(A, Without(sigma, A))[c]
  <2>1. A \in AttrSets /\ sigma[A] \in AttrSets
    BY <1>2 DEF SystemType
  <2>2. CASE A \in redundant
    <3>1. Reduced(A, sigma[A], sigma)[c] = 0
      BY <1>1, <2>2 DEF LossInv, EmptySet
    <3> QED BY <1>2, <2>1, <3>1, ReducedAway
  <2>3. CASE A \notin redundant
    <3>1. A \in DOMAIN sigma' /\ sigma'[A] = sigma[A]
      BY <1>1, <2>3 DEF Premises
    <3>2. Leq(sigma[A], sigma[A])
      BY <2>1, LeqReflexive
    <3> QED BY <3>1, <3>2 DEF Leq
  <2> QED BY <2>2, <2>3
<1>8. Thinned(sigma, sigma')
  BY <1>6, <1>7 DEF Thinned
<1> QED BY <1>2, <1>3, <1>4, <1>6, <1>8, KeptDirect

\* The method priority, of which only crispness is claimed.
LEMMA PriorityDirect ==
  IInv /\ IInv' /\ LossInv /\ DirectInv /\ (PriorityPurge \/ PriorityAdd \/ PriorityEnd)
    => DirectInv'
<1> SUFFICES ASSUME IInv, IInv', LossInv, DirectInv, PriorityPurge \/ PriorityAdd \/ PriorityEnd
             PROVE  DirectInv'
  OBVIOUS
<1>1. /\ UNCHANGED <<columns, logic, method>>
      /\ pc = "priority" /\ method = "priority"
      /\ pc' = pc \/ (pc' = "prune" /\ W' = {})
  <2>1. pc = "priority" => method = "priority"
    BY DEF LossInv
  <2>2. CASE PriorityPurge
    BY <2>1, <2>2 DEF PriorityPurge, inputs
  <2>3. CASE PriorityAdd
    BY <2>1, <2>3 DEF PriorityAdd, inputs
  <2>4. CASE PriorityEnd
    BY <2>1, <2>4 DEF PriorityEnd, inputs
  <2> QED BY <2>2, <2>3, <2>4
<1> SUFFICES ASSUME CrispInput PROVE CrispSystem(sigma') /\ CrispQueue(W')
  BY <1>1, DirectNext
<1>2. /\ columns \in Seq(Rules) /\ logic \in LogicNames \ {"Product"} /\ SystemType(sigma)
      /\ \A e \in W : e.rule.lhs \in AttrSets /\ e.rule.rhs \in AttrSets
  BY InvTypes
<1>3. CrispSystem(sigma) /\ CrispQueue(W)
  BY DEF DirectInv
<1>4. \A X : SystemType(Without(sigma, X)) /\ CrispSystem(Without(sigma, X))
  BY <1>2, <1>3 DEF SystemType, CrispSystem, Without
<1>5. CASE PriorityPurge
  <2>1. PICK e \in W : sigma' = Without(sigma, e.rule.lhs) /\ W' = W \ {e}
    BY <1>5, Zenon DEF PriorityPurge
  <2> QED BY <1>3, <1>4, <2>1 DEF CrispQueue
<1>6. CASE PriorityAdd
  <2>1. PICK e \in W :
          LET A == e.rule.lhs
              B_new == Reduced(A, e.rule.rhs, sigma)
              B_merged == IF A \in Premises THEN set_union(sigma[A], B_new) ELSE B_new
          IN  IF A \notin Premises \/ B_merged # sigma[A]
              THEN /\ sigma' = With(sigma, A, B_merged)
                   /\ W' = (W \ {e}) \cup Propagated(A, B_merged, B_new, Without(sigma, A))
              ELSE W' = W \ {e} /\ sigma' = sigma
    BY <1>6, Zenon DEF PriorityAdd
  <2> DEFINE A == e.rule.lhs
             B_new == Reduced(A, e.rule.rhs, sigma)
             B_merged == IF A \in Premises THEN set_union(sigma[A], B_new) ELSE B_new
  <2>2. A \in AttrSets /\ Crisp(A) /\ B_new \in AttrSets /\ Crisp(B_new)
    <3>1. K \in Grades
      BY KAssumption DEF Grades
    <3>2. /\ A \in AttrSets /\ e.rule.rhs \in AttrSets
          /\ Crisp(A) /\ Crisp(e.rule.rhs)
      BY <1>2, <1>3 DEF CrispQueue
    <3> HIDE DEF A
    <3> QED BY <1>2, <3>1, <3>2, OperationTypes, CrispParts DEF Reduced
  <2>3. A \in Premises => sigma[A] \in AttrSets /\ Crisp(sigma[A])
    BY <1>2, <1>3 DEF Premises, SystemType, CrispSystem
  <2>4. B_merged \in AttrSets /\ Crisp(B_merged)
    <3>1. K \in Grades
      BY KAssumption DEF Grades
    <3> HIDE DEF A, B_new
    <3> QED BY <1>2, <2>2, <2>3, <3>1, OperationTypes, CrispParts
  <2>5. \/ /\ sigma' = With(sigma, A, B_merged)
           /\ W' = (W \ {e}) \cup Propagated(A, B_merged, B_new, Without(sigma, A))
        \/ W' = W \ {e} /\ sigma' = sigma
    BY <2>1
  <2> HIDE DEF A, B_new, B_merged
  <2>6. CrispSystem(With(sigma, A, B_merged))
    BY <1>3, <2>2, <2>4, CrispSystemWith
  <2>7. CrispQueue(Propagated(A, B_merged, B_new, Without(sigma, A)))
    BY <1>2, <1>4, <2>2, <2>4, CrispQueuePropagated
  <2> QED BY <1>3, <2>5, <2>6, <2>7 DEF CrispQueue
<1>7. CASE PriorityEnd
  BY <1>3, <1>7 DEF PriorityEnd
<1> QED BY <1>5, <1>6, <1>7
-----------------------------------------------------------------------------
\* DirectInv is inductive on top of IInv and LossInv.
THEOREM DirectInvariance == Spec => []DirectInv
<1>1. Init => DirectInv
  <2> SUFFICES ASSUME Init PROVE DirectInv
    OBVIOUS
  <2>1. pc = "read" /\ sigma = << >> /\ W = {}
    BY DEF Init
  <2>2. DOMAIN sigma = {}
    BY <2>1
  <2> QED BY <2>1, <2>2 DEF DirectInv, CrispSystem, CrispQueue
<1>2. IInv /\ IInv' /\ LossInv /\ DirectInv /\ [Next]_vars => DirectInv'
  <2> SUFFICES ASSUME IInv, IInv', LossInv, DirectInv, [Next]_vars PROVE DirectInv'
    OBVIOUS
  <2>1. CASE UNCHANGED vars
    <3>1. UNCHANGED <<columns, logic, method, pc, sigma, sigma_old, unprocessed, W>>
      BY <2>1 DEF vars, inputs
    <3> QED BY <3>1, DirectNext DEF DirectInv, Premises
  <2>2. CASE Returned
    BY <2>1, <2>2 DEF Returned
  <2>3. CASE Next /\ ~Returned
    BY <2>3, ReadDirect, SaturatePassDirect, SaturateOnceDirect, PruneDirect,
       MonotonicNewDirect, MonotonicMergeDirect, MonotonicEndDirect, PriorityDirect, Zenon
       DEF Next
  <2> QED BY <2>1, <2>2, <2>3
<1> QED BY <1>1, <1>2, Invariance, LossInvariance, PTL DEF Spec

-----------------------------------------------------------------------------
\* Saturated systems of graded rules.

\* The premise of what A -> B to the degree alpha and C -> D to the degree beta
\* give together.
JoinedTo(alpha, beta, A, B, C) ==
  set_union(otimes(alpha, A), set_setminus(otimes(beta, C), otimes(alpha, B)))

\* What two rules give together is concluded from that premise in one pass.
Combined(rules, A, C) ==
  \A alpha, beta \in L, c \in Attributes :
    tnorm(logic, beta, rules[C][c]) <= pi(JoinedTo(alpha, beta, A, rules[A], C), rules)[c]

\* Pairs that need not be combined again have been.
CombinedInv ==
  pc = "saturate" /\ method # "do_sp" =>
    \A p \in (Premises \X Premises) \ unprocessed : Combined(sigma, p[1], p[2])

\* A rule concludes from its own premise what it says.
LEMMA RuleGives ==
  ASSUME NEW rules, SystemType(rules), NEW G \in DOMAIN rules, NEW c \in Attributes,
         logic \in LogicNames \ {"Product"}
  PROVE  rules[G][c] <= pi(G, rules)[c]
<1>1. G \in AttrSets /\ rules[G] \in AttrSets
  BY DEF SystemType
<1>2. K \in Grades /\ rules[G][c] \in Grades
  BY <1>1, KAssumption DEF AttrSets, Grades
<1>3. \A d \in Attributes : tnorm(logic, K, G[d]) <= G[d]
  <2> SUFFICES ASSUME NEW d \in Attributes PROVE tnorm(logic, K, G[d]) <= G[d]
    OBVIOUS
  <2>1. G[d] \in Grades
    BY <1>1 DEF AttrSets
  <2>2. tnorm(logic, K, G[d]) = G[d]
    BY <2>1, UnitLaws
  <2> QED BY <2>1, <2>2, KAssumption DEF Grades
<1>4. K <= S(G, G) /\ S(G, G) \in Grades
  BY <1>1, <1>2, <1>3, SubsethoodAdjoint, SubsethoodType
<1>5. S(G, G) = K
  BY <1>4, KAssumption DEF Grades
<1>6. tnorm(logic, S(G, G), rules[G][c]) <= pi(G, rules)[c]
  BY <1>1, PiDegrees DEF SystemType
<1> QED BY <1>2, <1>5, <1>6, UnitLaws

\* What two rules give together, when the system has the rules derived from them.
LEMMA PairCombined ==
  ASSUME NEW rules, NEW more, SystemType(rules), SystemType(more), Within(rules, more),
         NEW A \in DOMAIN rules, NEW C \in DOMAIN rules,
         more[A] = rules[A], more[C] = rules[C],
         \A d \in add_derived(A, rules[A], C, rules[C]) :
           d.rule.lhs \in DOMAIN more /\ Leq(d.rule.rhs, more[d.rule.lhs]),
         columns \in Seq(Rules), logic \in LogicNames \ {"Product"}
  PROVE  Combined(more, A, C)
<1> SUFFICES ASSUME NEW alpha \in L, NEW beta \in L, NEW c \in Attributes
             PROVE  tnorm(logic, beta, rules[C][c])
                      <= pi(JoinedTo(alpha, beta, A, rules[A], C), more)[c]
  BY DEF Combined
<1> DEFINE B == rules[A]
           D == rules[C]
           x == tnorm(logic, beta, D[c])
           H == set_setminus(otimes(beta, D), otimes(alpha, A))
           G == JoinedTo(alpha, beta, A, B, C)
           both == parents(A, B, C, D)
           R == Candidate(alpha, beta, A, B, C, D)
           p == pi(G, more)[c]
           q == pi(G, both)[c]
<1>1. /\ A \in AttrSets /\ B \in AttrSets /\ C \in AttrSets /\ D \in AttrSets
      /\ alpha \in Grades /\ beta \in Grades
  BY LType DEF SystemType
<1>2. /\ otimes(alpha, A) \in AttrSets /\ otimes(beta, D) \in AttrSets
      /\ otimes(alpha, B) \in AttrSets /\ otimes(beta, C) \in AttrSets
  BY <1>1, OperationTypes
<1>3. H \in AttrSets /\ G \in AttrSets
  <2>1. set_setminus(otimes(beta, C), otimes(alpha, B)) \in AttrSets
    BY <1>1, <1>2, OperationTypes
  <2> QED BY <1>1, <1>2, <2>1, OperationTypes DEF JoinedTo
<1>4. /\ R.lhs = G
      /\ R.rhs = IF H = EmptySet THEN H ELSE set_setminus(set_setminus(H, pi(G, both)), G)
  BY DEF Candidate, JoinedTo
<1>5. SystemType(both) /\ Within(both, more)
  <2>1. DOMAIN both = {A, C} /\ both[C] = D /\ (A # C => both[A] = B) /\ (A = C => B = D)
    BY DEF parents
  <2>2. A \in DOMAIN more /\ C \in DOMAIN more /\ more[A] = B /\ more[C] = D
    BY DEF Within
  <2>3. Leq(B, B) /\ Leq(D, D)
    BY <1>1, LeqReflexive
  <2> HIDE DEF both, B, D
  <2> QED BY <1>1, <2>1, <2>2, <2>3 DEF SystemType, Within
<1>6. otimes(beta, D)[c] = x /\ x \in Grades
  <2>1. otimes(beta, D)[c] = x
    BY DEF otimes
  <2> QED BY <1>2, <2>1 DEF AttrSets
<1>7. G[c] \in Grades /\ otimes(alpha, A)[c] \in Grades /\ otimes(alpha, A)[c] <= G[c]
  <2>1. /\ otimes(alpha, A)[c] \in Grades
        /\ set_setminus(otimes(beta, C), otimes(alpha, B))[c] \in Grades
    <3>1. set_setminus(otimes(beta, C), otimes(alpha, B)) \in AttrSets
      BY <1>1, <1>2, OperationTypes
    <3> QED BY <1>2, <3>1 DEF AttrSets
  <2>2. otimes(alpha, A)[c] <= G[c]
    BY <2>1, KAssumption DEF JoinedTo, set_union, Grades
  <2>3. G[c] \in Grades
    <3> HIDE DEF G
    <3> QED BY <1>3 DEF AttrSets
  <2> QED BY <2>1, <2>2, <2>3
<1>8. p \in Grades /\ G[c] <= p /\ q \in Grades /\ q <= p
  <2> HIDE DEF G, both
  <2>1. p \in Grades /\ G[c] <= p /\ q \in Grades
    BY <1>3, <1>5, PiDegrees DEF SystemType
  <2>2. q <= p
    BY <1>3, <1>5, PiMonotone DEF Leq
  <2> QED BY <2>1, <2>2
<1>9. H[c] = IF otimes(alpha, A)[c] >= x THEN 0 ELSE x
  BY <1>6 DEF set_setminus
<1> SUFFICES ASSUME ~(x <= otimes(alpha, A)[c]), ~(x <= q), ~(x <= G[c]) PROVE x <= p
  <2> HIDE DEF x, p, q, G
  <2>1. x <= otimes(alpha, A)[c] => x <= p
    BY <1>6, <1>7, <1>8, KAssumption DEF Grades
  <2>2. x <= q => x <= p
    BY <1>6, <1>8, KAssumption DEF Grades
  <2>3. x <= G[c] => x <= p
    BY <1>6, <1>7, <1>8, KAssumption DEF Grades
  <2> QED BY <2>1, <2>2, <2>3 DEF x, p, G, B, D
<1> HIDE DEF x, p, q, G, both, B, D
<1>10. H[c] = x /\ x # 0
  BY <1>6, <1>7, <1>9, KAssumption DEF Grades
<1>11. H # EmptySet
  BY <1>10 DEF EmptySet
<1>12. R.rhs = set_setminus(set_setminus(H, pi(G, both)), G)
  BY <1>4, <1>11
<1> HIDE DEF H, R
<1>13. R.rhs[c] = x
  BY <1>6, <1>7, <1>8, <1>10, <1>12, KAssumption DEF set_setminus, Grades, q
<1>14. R.rhs # EmptySet
  BY <1>10, <1>13 DEF EmptySet
<1> DEFINE d == [degrees |-> <<alpha, beta>>, rule |-> R]
<1>15. d \in add_derived(A, B, C, D)
  BY <1>14 DEF add_derived, R
<1>16. G \in DOMAIN more /\ Leq(R.rhs, more[G])
  BY <1>4, <1>15 DEF B, D
<1>17. x <= more[G][c]
  BY <1>13, <1>16 DEF Leq
<1>18. more[G][c] <= p /\ more[G][c] \in Grades
  BY <1>16, RuleGives DEF p, SystemType, AttrSets
<1> QED BY <1>6, <1>8, <1>17, <1>18, KAssumption DEF Grades

\* What has been combined stays so when the system grows elsewhere.
LEMMA CombinedGrows ==
  ASSUME NEW rules, NEW more, SystemType(rules), SystemType(more), Within(rules, more),
         NEW A \in DOMAIN rules, NEW C \in DOMAIN rules,
         more[A] = rules[A], more[C] = rules[C], Combined(rules, A, C),
         columns \in Seq(Rules), logic \in LogicNames \ {"Product"}
  PROVE  Combined(more, A, C)
<1> SUFFICES ASSUME NEW alpha \in L, NEW beta \in L, NEW c \in Attributes
             PROVE  tnorm(logic, beta, rules[C][c])
                      <= pi(JoinedTo(alpha, beta, A, rules[A], C), more)[c]
  BY DEF Combined
<1> DEFINE G == JoinedTo(alpha, beta, A, rules[A], C)
<1>1. tnorm(logic, beta, rules[C][c]) <= pi(G, rules)[c]
  BY DEF Combined
<1>2. /\ A \in AttrSets /\ rules[A] \in AttrSets /\ C \in AttrSets /\ rules[C] \in AttrSets
      /\ alpha \in Grades /\ beta \in Grades
  BY LType DEF SystemType
<1>3. G \in AttrSets
  <2>1. /\ otimes(alpha, A) \in AttrSets /\ otimes(alpha, rules[A]) \in AttrSets
        /\ otimes(beta, C) \in AttrSets
    BY <1>2, OperationTypes
  <2>2. set_setminus(otimes(beta, C), otimes(alpha, rules[A])) \in AttrSets
    BY <1>2, <2>1, OperationTypes
  <2> QED BY <1>2, <2>1, <2>2, OperationTypes DEF JoinedTo
<1> HIDE DEF G
<1>4. pi(G, rules)[c] <= pi(G, more)[c]
  BY <1>3, PiMonotone DEF Leq
<1>5. /\ tnorm(logic, beta, rules[C][c]) \in Grades
      /\ pi(G, rules)[c] \in Grades /\ pi(G, more)[c] \in Grades
  BY <1>2, <1>3, LogicTypes, PiDegrees DEF SystemType, AttrSets
<1>6. tnorm(logic, beta, rules[C][c]) <= pi(G, more)[c]
  BY <1>1, <1>4, <1>5, KAssumption DEF Grades
<1> QED BY <1>6 DEF G

\* When all pairs are combined, one pass is enough.  Of the premises that make
\* one pass too few one with the least outside of V leads to one with less.
LEMMA GradedOnePass ==
  ASSUME NEW rules, SystemType(rules), NEW V \in AttrSets, L = Grades,
         \A A, C \in DOMAIN rules : Combined(rules, A, C),
         logic \in LogicNames \ {"Product"}
  PROVE  ModelOf(pi(V, rules), rules)
<1> DEFINE P == pi(V, rules)
<1>1. P \in AttrSets /\ \A e \in Attributes : P[e] \in Grades /\ V[e] \in Grades /\ V[e] <= P[e]
  <2>1. \A e \in Attributes : P[e] \in Grades /\ V[e] <= P[e]
    BY PiDegrees DEF SystemType
  <2> QED BY <2>1 DEF pi, AttrSets
<1> SUFFICES ASSUME NEW X \in DOMAIN rules, NEW c \in Attributes,
                    ~(tnorm(logic, S(X, P), rules[X][c]) <= P[c])
             PROVE  FALSE
  BY DEF ModelOf, Respects
<1> DEFINE TooFew(Y, beta) ==
             /\ \A e \in Attributes : tnorm(logic, beta, Y[e]) <= P[e]
             /\ ~(tnorm(logic, beta, rules[Y][c]) <= P[c])
           Outside(Y, beta) ==
             [e \in Attributes |-> IF tnorm(logic, beta, Y[e]) <= V[e] THEN 0 ELSE K]
           M == {m \in AttrSets :
                   \E Y \in DOMAIN rules, beta \in Grades : TooFew(Y, beta) /\ m = Outside(Y, beta)}
<1>2. \A Y \in DOMAIN rules : Y \in AttrSets /\ rules[Y] \in AttrSets
  BY DEF SystemType
<1>3. \A Y, beta : Outside(Y, beta) \in AttrSets
  BY KAssumption DEF AttrSets, Grades
<1>4. M # {}
  <2>1. S(X, P) \in Grades /\ S(X, P) <= S(X, P)
    <3>1. S(X, P) \in Grades
      BY <1>1, <1>2, SubsethoodType
    <3> QED BY <3>1, KAssumption DEF Grades
  <2> HIDE DEF P
  <2>2. \A e \in Attributes : tnorm(logic, S(X, P), X[e]) <= P[e]
    BY <1>1, <1>2, <2>1, SubsethoodAdjoint
  <2>3. TooFew(X, S(X, P))
    BY <2>2
  <2> HIDE DEF TooFew, Outside
  <2> QED BY <1>3, <2>1, <2>3
<1>5. PICK m \in M : \A n \in M : <<n, m>> \notin StrictlyBelow
  <2> HIDE DEF TooFew, Outside
  <2>1. M \subseteq AttrSets
    OBVIOUS
  <2> HIDE DEF M
  <2> QED BY <1>4, <2>1, StrictlyBelowWellFounded, WFMin, Zenon
<1>6. PICK Y \in DOMAIN rules, beta \in Grades : TooFew(Y, beta) /\ m = Outside(Y, beta)
  <2> HIDE DEF TooFew, Outside
  <2> QED OBVIOUS
<1> HIDE DEF P
<1>7. \A e \in Attributes : tnorm(logic, beta, Y[e]) \in Grades
  BY <1>2, LogicTypes DEF AttrSets
<1>8. tnorm(logic, beta, rules[Y][c]) \in Grades /\ ~(tnorm(logic, beta, rules[Y][c]) <= P[c])
  BY <1>2, <1>6, LogicTypes DEF AttrSets
<1>9. PICK d \in Attributes : ~(tnorm(logic, beta, Y[d]) <= V[d])
  <2> SUFFICES ASSUME \A e \in Attributes : tnorm(logic, beta, Y[e]) <= V[e] PROVE FALSE
    OBVIOUS
  <2>1. beta <= S(Y, V) /\ S(Y, V) \in Grades
    BY <1>2, SubsethoodAdjoint, SubsethoodType
  <2>2. tnorm(logic, S(Y, V), rules[Y][c]) <= P[c]
    BY PiDegrees DEF SystemType, P
  <2>3. rules[Y][c] \in Grades
    BY <1>2 DEF AttrSets
  <2>4. tnorm(logic, beta, rules[Y][c]) <= tnorm(logic, S(Y, V), rules[Y][c])
    BY <2>1, <2>3, TnormMonotone
  <2>5. tnorm(logic, S(Y, V), rules[Y][c]) \in Grades
    BY <2>1, <2>3, LogicTypes
  <2>6. tnorm(logic, beta, rules[Y][c]) <= P[c]
    BY <1>1, <1>8, <2>2, <2>4, <2>5, KAssumption DEF Grades
  <2> QED BY <1>6, <2>6
<1>10. PICK A \in DOMAIN rules : P[d] = tnorm(logic, S(A, V), rules[A][d])
  <2>1. P[d] # V[d]
    BY <1>6, <1>9
  <2> QED BY <2>1, PiDegrees DEF SystemType, P
<1> DEFINE alpha == S(A, V)
           G == JoinedTo(alpha, beta, A, rules[A], Y)
<1>11. alpha \in Grades /\ \A e \in Attributes : tnorm(logic, alpha, A[e]) <= V[e]
  <2>1. alpha \in Grades
    BY <1>2, SubsethoodType
  <2>2. alpha <= alpha
    <3> HIDE DEF alpha
    <3> QED BY <2>1, KAssumption DEF Grades
  <2> QED BY <1>2, <2>1, <2>2, SubsethoodAdjoint
<1>12. /\ G \in AttrSets
       /\ \A e \in Attributes :
            G[e] = LET a == tnorm(logic, alpha, A[e])
                       b == tnorm(logic, beta, Y[e])
                       y == IF tnorm(logic, alpha, rules[A][e]) >= b THEN 0 ELSE b
                   IN  IF a <= y THEN y ELSE a
  <2> HIDE DEF alpha
  <2>1. /\ otimes(alpha, A) \in AttrSets /\ otimes(alpha, rules[A]) \in AttrSets
        /\ otimes(beta, Y) \in AttrSets
    BY <1>2, <1>11, OperationTypes
  <2>2. set_setminus(otimes(beta, Y), otimes(alpha, rules[A])) \in AttrSets
    BY <1>11, <2>1, OperationTypes
  <2>3. G \in AttrSets
    BY <1>11, <2>1, <2>2, OperationTypes DEF JoinedTo
  <2> QED BY <2>3 DEF JoinedTo, set_union, set_setminus, otimes
<1>13. P[d] = tnorm(logic, alpha, rules[A][d])
  BY <1>10
<1> HIDE DEF alpha, G
<1>14. \A e \in Attributes :
         /\ G[e] \in Grades /\ tnorm(logic, alpha, A[e]) \in Grades
         /\ tnorm(logic, alpha, rules[A][e]) \in Grades
  BY <1>2, <1>11, <1>12, LogicTypes DEF AttrSets
<1>15. ASSUME NEW e \in Attributes
       PROVE  G[e] <= P[e] /\ (tnorm(logic, beta, Y[e]) <= V[e] => G[e] <= V[e])
  <2>1. tnorm(logic, beta, Y[e]) <= P[e] /\ tnorm(logic, alpha, A[e]) <= V[e]
    BY <1>6, <1>11
  <2> QED BY <1>1, <1>7, <1>12, <1>14, <2>1, KAssumption DEF Grades
<1>16. G[d] <= V[d]
  <2>1. tnorm(logic, beta, Y[d]) <= tnorm(logic, alpha, rules[A][d])
    BY <1>6, <1>13
  <2>2. tnorm(logic, alpha, A[d]) <= V[d]
    BY <1>11
  <2> QED BY <1>1, <1>7, <1>12, <1>14, <2>1, <2>2, KAssumption DEF Grades
<1>17. tnorm(logic, beta, rules[Y][c]) <= pi(G, rules)[c]
  BY <1>11 DEF Combined, G
<1>18. PICK Z \in DOMAIN rules : pi(G, rules)[c] = tnorm(logic, S(Z, G), rules[Z][c])
  <2>1. pi(G, rules)[c] # G[c]
    <3>1. G[c] <= P[c] /\ G[c] \in Grades /\ P[c] \in Grades
      BY <1>1, <1>14, <1>15
    <3> SUFFICES ASSUME pi(G, rules)[c] = G[c] PROVE FALSE
      OBVIOUS
    <3>2. tnorm(logic, beta, rules[Y][c]) <= G[c]
      BY <1>17
    <3> HIDE DEF M, TooFew, Outside
    <3> QED BY <1>8, <3>1, <3>2, KAssumption DEF Grades
  <2> QED BY <1>12, <2>1, PiDegrees DEF SystemType
<1> DEFINE gamma == S(Z, G)
<1>19. gamma \in Grades /\ \A e \in Attributes : tnorm(logic, gamma, Z[e]) <= G[e]
  <2>1. gamma \in Grades
    BY <1>2, <1>12, SubsethoodType
  <2>2. gamma <= gamma
    <3> HIDE DEF gamma
    <3> QED BY <2>1, KAssumption DEF Grades
  <2> QED BY <1>2, <1>12, <2>1, <2>2, SubsethoodAdjoint
<1>20. tnorm(logic, beta, rules[Y][c]) <= tnorm(logic, gamma, rules[Z][c])
  BY <1>17, <1>18
<1> HIDE DEF gamma
<1>21. \A e \in Attributes : tnorm(logic, gamma, Z[e]) \in Grades
  BY <1>2, <1>19, LogicTypes DEF AttrSets
<1>22. TooFew(Z, gamma)
  <2>1. tnorm(logic, gamma, rules[Z][c]) \in Grades
    BY <1>2, <1>19, LogicTypes DEF AttrSets
  <2>2. ~(tnorm(logic, gamma, rules[Z][c]) <= P[c])
    <3> HIDE DEF M, TooFew, Outside
    <3> QED BY <1>1, <1>8, <1>20, <2>1, KAssumption DEF Grades
  <2>3. ASSUME NEW e \in Attributes PROVE tnorm(logic, gamma, Z[e]) <= P[e]
    <3>1. tnorm(logic, gamma, Z[e]) <= G[e] /\ G[e] <= P[e]
      BY <1>15, <1>19
    <3> QED BY <1>1, <1>14, <1>21, <3>1, KAssumption DEF Grades
  <2> QED BY <2>2, <2>3
<1>23. Leq(Outside(Z, gamma), Outside(Y, beta))
  <2> SUFFICES ASSUME NEW e \in Attributes, tnorm(logic, beta, Y[e]) <= V[e]
               PROVE  tnorm(logic, gamma, Z[e]) <= V[e]
    <3>1. \A e \in Attributes :
            /\ Outside(Z, gamma)[e] = (IF tnorm(logic, gamma, Z[e]) <= V[e] THEN 0 ELSE K)
            /\ Outside(Y, beta)[e] = (IF tnorm(logic, beta, Y[e]) <= V[e] THEN 0 ELSE K)
      OBVIOUS
    <3> HIDE DEF Outside, TooFew, M
    <3> QED BY <3>1, KAssumption DEF Leq
  <2>1. tnorm(logic, gamma, Z[e]) <= G[e] /\ G[e] <= V[e]
    BY <1>15, <1>19
  <2> QED BY <1>1, <1>14, <1>21, <2>1, KAssumption DEF Grades
<1>24. Outside(Z, gamma) # Outside(Y, beta)
  <2>1. tnorm(logic, gamma, Z[d]) <= V[d]
    <3>1. tnorm(logic, gamma, Z[d]) <= G[d]
      BY <1>19
    <3> QED BY <1>1, <1>14, <1>16, <1>21, <3>1, KAssumption DEF Grades
  <2>2. Outside(Z, gamma)[d] = 0 /\ Outside(Y, beta)[d] = K
    BY <1>9, <2>1
  <2> HIDE DEF Outside
  <2> QED BY <2>2, KAssumption
<1> HIDE DEF TooFew, Outside
<1>25. Outside(Z, gamma) \in M
  BY <1>3, <1>19, <1>22
<1>26. <<Outside(Z, gamma), Outside(Y, beta)>> \in StrictlyBelow
  BY <1>3, <1>23, <1>24 DEF StrictlyBelow
<1> HIDE DEF M
<1> QED BY <1>5, <1>6, <1>25, <1>26

\* A pass of saturate_system combines the pairs it was to combine; those of a
\* rule that has changed are not to be relied on.
LEMMA SaturatePassCombines ==
  ASSUME IInv, IInv', CombinedInv, SaturatePass
  PROVE  \A p \in ((DOMAIN sigma') \X (DOMAIN sigma')) \ unprocessed' :
           Combined(sigma', p[1], p[2])
<1>1. /\ pc = "saturate" /\ method # "do_sp"
      /\ sigma' = Merged(sigma, Derived(unprocessed))
      /\ unprocessed' = {p \in (DOMAIN sigma') \X (DOMAIN sigma') :
                           p[1] \in Changed(sigma') \/ p[2] \in Changed(sigma')}
  BY DEF SaturatePass
<1>2. /\ columns \in Seq(Rules) /\ logic \in LogicNames \ {"Product"}
      /\ SystemType(sigma) /\ unprocessed \subseteq Premises \X Premises
  BY InvTypes DEF IInv
<1>3. SystemType(sigma')
  BY DEF IInv, GoodRules, Good, SystemType
<1>4. \A r \in Derived(unprocessed) : r.rhs \in AttrSets
  BY <1>2, DerivedSets
<1>5. Within(sigma, sigma')
  BY <1>1, <1>2, <1>4, WithinMerged
<1> SUFFICES ASSUME NEW p \in ((DOMAIN sigma') \X (DOMAIN sigma')) \ unprocessed'
             PROVE  Combined(sigma', p[1], p[2])
  OBVIOUS
<1>6. /\ p[1] \in DOMAIN sigma /\ sigma'[p[1]] = sigma[p[1]]
      /\ p[2] \in DOMAIN sigma /\ sigma'[p[2]] = sigma[p[2]]
      /\ p \in Premises \X Premises
  BY <1>1 DEF Changed, Premises
<1>7. CASE p \notin unprocessed
  <2>1. Combined(sigma, p[1], p[2])
    BY <1>1, <1>6, <1>7 DEF CombinedInv
  <2> QED BY <1>2, <1>3, <1>5, <1>6, <2>1, CombinedGrows
<1>8. CASE p \in unprocessed
  <2>1. ASSUME NEW d \in add_derived(p[1], sigma[p[1]], p[2], sigma[p[2]])
        PROVE  d.rule.lhs \in DOMAIN sigma' /\ Leq(d.rule.rhs, sigma'[d.rule.lhs])
    <3>1. d.rule \in Derived(unprocessed)
      BY <1>8 DEF Derived
    <3> QED BY <1>1, <1>2, <1>4, <3>1, MergedAbove
  <2> QED BY <1>2, <1>3, <1>5, <1>6, <2>1, PairCombined
<1> QED BY <1>7, <1>8

\* CombinedInv after a step that leaves the arguments alone.
LEMMA CombinedNext ==
  ASSUME UNCHANGED <<columns, logic, method>>,
         pc' = "saturate" /\ method # "do_sp" =>
           \A p \in ((DOMAIN sigma') \X (DOMAIN sigma')) \ unprocessed' :
             Combined(sigma', p[1], p[2])
  PROVE  CombinedInv'
<1>1. L' = L
  BY DEF L
<1>2. \A alpha, A : otimes(alpha, A)' = otimes(alpha, A)
  BY DEF otimes
<1>3. \A alpha, beta, A, B, C : JoinedTo(alpha, beta, A, B, C)' = JoinedTo(alpha, beta, A, B, C)
  BY <1>2 DEF JoinedTo
<1>4. \A V : pi(V, sigma)' = pi(V, sigma')
  BY DEF pi, S
<1>5. \A p \in (Premises' \X Premises') \ unprocessed' :
        Combined(sigma', p[1], p[2]) => Combined(sigma, p[1], p[2])'
  BY <1>1, <1>3, <1>4 DEF Combined
<1> QED BY <1>5 DEF CombinedInv, Premises

\* Whatever the rules, while saturate_system runs only the marked pairs remain
\* to be combined.
THEOREM CombinedInvariance == Spec => []CombinedInv
<1>1. Init => CombinedInv
  BY DEF Init, CombinedInv
<1>2. IInv /\ IInv' /\ CombinedInv /\ [Next]_vars => CombinedInv'
  <2> SUFFICES ASSUME IInv, IInv', CombinedInv, [Next]_vars PROVE CombinedInv'
    OBVIOUS
  <2>1. CASE UNCHANGED vars
    <3>1. UNCHANGED <<columns, logic, method, pc, sigma, unprocessed>>
      BY <2>1 DEF vars, inputs
    <3> QED BY <3>1, CombinedNext DEF CombinedInv, Premises
  <2>2. CASE Read
    <3>1. /\ UNCHANGED <<columns, logic, method>>
          /\ pc' = "saturate" /\ method # "do_sp" =>
               unprocessed' = (DOMAIN sigma') \X (DOMAIN sigma')
      BY <2>2 DEF Read, inputs
    <3> QED BY <3>1, CombinedNext
  <2>3. CASE SaturatePass
    <3>1. UNCHANGED <<columns, logic, method>>
      BY <2>3 DEF SaturatePass, inputs
    <3> QED BY <2>3, <3>1, SaturatePassCombines, CombinedNext
  <2>4. CASE Next /\ ~Read /\ ~SaturatePass
    <3>1. /\ UNCHANGED <<columns, logic, method>>
          /\ ~(pc' = "saturate" /\ method # "do_sp")
      BY <2>4 DEF Next, SaturateOnce, PrunePass, PruneOnce, MonotonicNew, MonotonicMerge,
         MonotonicEnd, PriorityPurge, PriorityAdd, PriorityEnd, Returned, vars, inputs
    <3> QED BY <3>1, CombinedNext
  <2> QED BY <2>1, <2>2, <2>3, <2>4
<1> QED BY <1>1, <1>2, Invariance, PTL DEF Spec

\* One pass computes the closure: over the result of every method but priority
\* for crisp rules, and over every saturated system of graded rules in which
\* all degrees occur.
THEOREM ResultDirect == Spec => Direct
<1> DEFINE Step == \/ pc' = "done" /\ method # "priority" /\ CrispInput
                   \/ pc = "saturate" /\ pc' = "prune" /\ method # "do_sp" /\ L = Grades
                   => \A V \in AttrSets : ModelOf(pi(V, sigma'), sigma')
<1>1. IInv /\ IInv' /\ DirectInv' /\ CombinedInv /\ [Next]_vars => [Step]_vars
  <2> SUFFICES ASSUME IInv, IInv', DirectInv', CombinedInv, Next, NEW V \in AttrSets,
                      \/ pc' = "done" /\ method # "priority" /\ CrispInput
                      \/ pc = "saturate" /\ pc' = "prune" /\ method # "do_sp" /\ L = Grades
               PROVE  ModelOf(pi(V, sigma'), sigma')
    BY Zenon
  <2>1. /\ logic \in LogicNames \ {"Product"}
        /\ UNCHANGED <<columns, logic, method>>
        /\ SystemType(sigma')
    <3>1. UNCHANGED <<columns, logic, method>>
      BY DEF Next, Read, SaturatePass, SaturateOnce, PrunePass, PruneOnce, MonotonicNew,
         MonotonicMerge, MonotonicEnd, PriorityPurge, PriorityAdd, PriorityEnd, Returned,
         vars, inputs
    <3> QED BY <3>1 DEF IInv, GoodRules, Good, SystemType
  <2>2. CASE pc' = "done" /\ method # "priority" /\ CrispInput
    <3>1. CrispInput'
      BY <2>1, <2>2, SameModels
    <3>2. CrispSystem(sigma') /\ DirectSets(sigma')
      BY <2>1, <2>2, <3>1 DEF DirectInv, CrispSystem, Crisp, DirectSets, Joined, One, Parts
    <3> QED BY <2>1, <3>2, DirectModel
  <2>3. CASE pc = "saturate" /\ pc' = "prune" /\ method # "do_sp" /\ L = Grades
    <3>1. SaturatePass
      BY <2>3 DEF Next, Read, SaturateOnce, PrunePass, PruneOnce, MonotonicNew, MonotonicMerge,
         MonotonicEnd, PriorityPurge, PriorityAdd, PriorityEnd, Returned
    <3>2. sigma' = sigma
      BY <2>3, <3>1 DEF SaturatePass
    <3>3. unprocessed' = {}
      BY <3>1, <3>2 DEF SaturatePass, Changed, Premises
    <3>4. \A A, C \in DOMAIN sigma' : Combined(sigma', A, C)
      <4> TAKE A, C \in DOMAIN sigma'
      <4>1. <<A, C>> \in ((DOMAIN sigma') \X (DOMAIN sigma')) \ unprocessed'
        BY <3>3
      <4> QED BY <3>1, <4>1, SaturatePassCombines
    <3> QED BY <2>1, <2>3, <3>4, GradedOnePass
  <2> QED BY <2>2, <2>3
<1>2. Spec => [][Step]_vars
  <2> HIDE DEF Step
  <2> QED BY <1>1, Invariance, DirectInvariance, CombinedInvariance, PTL DEF Spec
<1> QED BY <1>2 DEF Direct

-----------------------------------------------------------------------------
\* The canonical direct basis.

\* One pass over the result is the closure under the rules given.
LEMMA ClosureByPass ==
  ASSUME IInv, NothingLost, Sound, DirectInv, pc = "done", method # "priority",
         CrispInput, DistinctPremises, NEW V \in AttrSets
  PROVE  Closure(V) = pi(V, sigma)
<1> DEFINE P == pi(V, sigma)
<1>1. logic \in LogicNames \ {"Product"} /\ SystemType(sigma)
  BY InvTypes
<1>2. CrispSystem(sigma) /\ DirectSets(sigma) /\ W = {}
  BY DEF DirectInv
<1>3. \A X \in AttrSets : Model(X) <=> ModelOf(X, sigma)
  BY <1>2 DEF NothingLost, Sound, SystemModel
<1>4. P \in AttrSets /\ Leq(V, P)
  <2>1. \A c \in Attributes : P[c] \in Grades /\ V[c] <= P[c]
    BY <1>1, PiDegrees DEF SystemType
  <2>2. P = [c \in Attributes |-> P[c]]
    BY DEF pi
  <2> HIDE DEF P
  <2> QED BY <2>1, <2>2 DEF AttrSets, Leq
<1>5. Model(P)
  BY <1>1, <1>2, <1>3, <1>4, DirectModel
<1>6. ASSUME NEW X \in AttrSets, Leq(V, X), Model(X) PROVE Leq(P, X)
  <2>1. K \in Grades
    BY KAssumption DEF Grades
  <2>2. \A c \in Attributes : tnorm(logic, K, V[c]) <= X[c]
    <3>1. \A c \in Attributes : V[c] \in Grades
      BY DEF AttrSets
    <3> QED BY <1>1, <1>6, <2>1, <3>1, UnitLaws DEF Leq
  <2>3. K <= S(V, X)
    BY <1>1, <2>1, <2>2, SubsethoodAdjoint
  <2>4. S(V, X) = K
    <3>1. S(V, X) \in Grades
      BY <1>1, SubsethoodType
    <3> QED BY <2>3, <3>1, KAssumption DEF Grades
  <2>5. Respects(X, V, P)
    BY <1>1, <1>3, <1>6, PiFollows DEF SystemType
  <2>6. \A c \in Attributes : tnorm(logic, K, P[c]) <= X[c]
    BY <2>4, <2>5 DEF Respects
  <2>7. \A c \in Attributes : P[c] \in Grades
    <3> HIDE DEF P
    <3> QED BY <1>4 DEF AttrSets
  <2> HIDE DEF P
  <2> QED BY <1>1, <2>6, <2>7, UnitLaws DEF Leq
<1>7. ASSUME NEW c \in Attributes PROVE Closure(V)[c] = P[c]
  <2> DEFINE Q == {X[c] : X \in {X \in AttrSets : Leq(V, X) /\ Model(X)}}
  <2>1. Closure(V)[c] = Min(Q)
    BY DEF Closure
  <2>2. P[c] \in Q /\ \A q \in Q : P[c] <= q
    <3> HIDE DEF P
    <3>1. P[c] \in Q
      BY <1>4, <1>5
    <3>2. \A q \in Q : P[c] <= q
      BY <1>6 DEF Leq
    <3> QED BY <3>1, <3>2
  <2>3. Q \in SUBSET (0 .. K) /\ Q # {}
    <3>1. \A q \in Q : q \in 0 .. K
      BY DEF AttrSets, Grades
    <3> HIDE DEF Q
    <3> QED BY <2>2, <3>1
  <2> HIDE DEF Q, P
  <2>4. Q \in SUBSET Nat
    BY <2>3, KAssumption
  <2>5. Min(Q) \in Q /\ \A q \in Q : Min(Q) <= q
    BY <2>3, <2>4, NatMin
  <2>6. Min(Q) \in Nat /\ P[c] \in Nat /\ P[c] <= Min(Q) /\ Min(Q) <= P[c]
    BY <2>2, <2>4, <2>5
  <2> QED BY <2>1, <2>6
<1>8. Closure(V) = [c \in Attributes |-> Closure(V)[c]] /\ P = [c \in Attributes |-> P[c]]
  BY DEF Closure, pi
<1> HIDE DEF P
<1>9. Closure(V) = P
  BY <1>7, <1>8
<1> QED BY <1>9 DEF P

\* The minimal premises of c are those from which the result concludes c.
LEMMA MinimalOnes ==
  ASSUME IInv, NothingLost, Sound, DirectInv, pc = "done", method # "priority",
         CrispInput, DistinctPremises, NEW c \in Attributes
  PROVE  MinimalPremises(c) = {A \in Premises : sigma[A][c] = K}
<1> DEFINE gives == {V \in AttrSets : Crisp(V) /\ V[c] = 0 /\ Closure(V)[c] = K}
<1>1. logic \in LogicNames \ {"Product"} /\ SystemType(sigma)
  BY InvTypes
<1>2. CrispSystem(sigma) /\ Irredundant(sigma)
  BY DEF DirectInv
<1>3. ASSUME NEW V \in AttrSets, Crisp(V)
      PROVE  V \in gives <=> /\ c \notin Parts(V)
                             /\ \E X \in DOMAIN sigma : Parts(X) \subseteq Parts(V) /\ sigma[X][c] = K
  <2>1. Closure(V) = pi(V, sigma)
    BY ClosureByPass
  <2>2. K <= pi(V, sigma)[c] <=> c \in One(sigma, Parts(V))
    BY <1>1, <1>2, <1>3, PiOne
  <2>3. pi(V, sigma)[c] \in Grades
    BY <1>1, PiDegrees DEF SystemType
  <2>4. Closure(V)[c] = K <=> c \in One(sigma, Parts(V))
    BY <2>1, <2>2, <2>3, KAssumption DEF Grades
  <2>5. V[c] = 0 <=> c \notin Parts(V)
    BY <1>3, KAssumption DEF Crisp, Parts
  <2> QED BY <1>3, <2>4, <2>5 DEF One
<1>4. \A V \in gives : V \in AttrSets /\ Crisp(V)
  OBVIOUS
<1>5. MinimalPremises(c) = {A \in gives : \A V \in gives : Leq(V, A) => V = A}
  BY DEF MinimalPremises
<1> HIDE DEF gives
<1>6. ASSUME NEW A \in Premises, sigma[A][c] = K PROVE A \in MinimalPremises(c)
  <2>1. /\ A \in DOMAIN sigma /\ A \in AttrSets /\ Crisp(A) /\ c \in Parts(sigma[A])
    <3>1. c \in Parts(sigma[A])
      BY <1>6 DEF Parts
    <3> QED BY <1>1, <1>2, <3>1 DEF Premises, SystemType, CrispSystem
  <2>2. /\ c \notin Parts(A)
        /\ \A X \in DOMAIN sigma \ {A} : Parts(X) \subseteq Parts(A) => sigma[X][c] # K
    BY <1>2, <2>1 DEF Irredundant
  <2>3. A \in gives
    BY <1>3, <1>6, <2>1, <2>2
  <2>4. ASSUME NEW V \in gives, Leq(V, A) PROVE V = A
    <3>1. V \in AttrSets /\ Crisp(V)
      BY <1>4
    <3>2. Parts(V) \subseteq Parts(A)
      BY <2>1, <2>4, <3>1, PartsLeq
    <3>3. PICK X \in DOMAIN sigma : Parts(X) \subseteq Parts(V) /\ sigma[X][c] = K
      BY <1>3, <3>1
    <3>4. X = A
      BY <2>2, <3>2, <3>3
    <3>5. Parts(V) = Parts(A)
      BY <3>2, <3>3, <3>4
    <3> QED BY <2>1, <3>1, <3>5, PartsEqual
  <2> QED BY <1>5, <2>3, <2>4
<1>7. ASSUME NEW A \in MinimalPremises(c) PROVE A \in Premises /\ sigma[A][c] = K
  <2>1. A \in gives /\ A \in AttrSets /\ Crisp(A)
    BY <1>4, <1>5
  <2>2. PICK X \in DOMAIN sigma : Parts(X) \subseteq Parts(A) /\ sigma[X][c] = K
    BY <1>3, <2>1
  <2>3. X \in Premises /\ X \in AttrSets /\ Crisp(X)
    BY <1>1, <1>2 DEF Premises, SystemType, CrispSystem
  <2>4. X \in gives
    BY <1>5, <1>6, <2>2, <2>3
  <2>5. Leq(X, A)
    BY <2>1, <2>2, <2>3, PartsLeq
  <2>6. X = A
    BY <1>5, <2>4, <2>5
  <2> QED BY <2>2, <2>3, <2>6
<1> QED BY <1>6, <1>7

\* On crisp rules with different premises every method but priority ends in
\* the canonical direct basis, for every logic and any number of attributes.
THEOREM ResultOptimal == Spec => []Optimal
<1>1. IInv /\ NothingLost /\ Sound /\ DirectInv => Optimal
  <2> SUFFICES ASSUME IInv, NothingLost, Sound, DirectInv,
                      pc = "done", CrispInput, DistinctPremises, method # "priority"
               PROVE  /\ Premises = UNION {MinimalPremises(c) : c \in Attributes}
                      /\ \A A \in Premises, c \in Attributes :
                           sigma[A][c] = IF A \in MinimalPremises(c) THEN K ELSE 0
    BY DEF Optimal
  <2>1. \A c \in Attributes : MinimalPremises(c) = {A \in Premises : sigma[A][c] = K}
    BY MinimalOnes
  <2>2. \A A \in Premises : \E c \in Attributes : sigma[A][c] = K
    BY DEF DirectInv, Irredundant, Premises
  <2>3. \A A \in Premises : \A c \in Attributes : sigma[A][c] \in {0, K}
    BY DEF DirectInv, CrispSystem, Crisp, Premises
  <2>4. Premises = UNION {MinimalPremises(c) : c \in Attributes}
    BY <2>1, <2>2
  <2> QED BY <2>1, <2>3, <2>4
<1> QED BY <1>1, Invariance, KeepsAll, Soundness, DirectInvariance, PTL
=============================================================================
