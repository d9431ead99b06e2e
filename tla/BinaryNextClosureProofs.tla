---------------------- MODULE BinaryNextClosureProofs ----------------------
(***************************************************************************)
(* Proofs about BinaryNextClosure, for every matrix, number of attributes  *)
(* and length of a word: lin_closure computes the least set that respects  *)
(* the basis, and the lists of concepts and of implications are what       *)
(* ConceptMiner and ImplicationMiner promise.                              *)
(***************************************************************************)
EXTENDS BinaryNextClosure, OrderProofs

-----------------------------------------------------------------------------
\* Types.

\* The entries of the basis, and what an implication added to it changes.
LEMMA BasisTypes ==
  ASSUME basis \in Seq(Implications)
  PROVE  /\ Len(basis) \in Nat /\ DOMAIN basis = 1 .. Len(basis)
         /\ \A n \in DOMAIN basis : /\ basis[n].lhs \in SUBSET Attributes
                                    /\ basis[n].rhs \in SUBSET Attributes
         /\ \A imp \in Basis : /\ imp \in Implications
                              /\ imp.lhs \in SUBSET Attributes
                              /\ imp.rhs \in SUBSET Attributes
         /\ \A imp \in Implications :
              basis' = Append(basis, imp) =>
                /\ Basis' = Basis \cup {imp}
                /\ basis' \in Seq(Implications)
                /\ Len(basis') = Len(basis) + 1
<1>1. Len(basis) \in Nat /\ DOMAIN basis = 1 .. Len(basis)
  OBVIOUS
<1>2. \A n \in DOMAIN basis : basis[n] \in Implications
  OBVIOUS
<1>3. \A n \in DOMAIN basis : /\ basis[n].lhs \in SUBSET Attributes
                              /\ basis[n].rhs \in SUBSET Attributes
  BY <1>2 DEF Implications
<1>4. ASSUME NEW imp \in Implications, basis' = Append(basis, imp)
      PROVE  /\ Basis' = Basis \cup {imp}
             /\ basis' \in Seq(Implications)
             /\ Len(basis') = Len(basis) + 1
  <2>1. /\ DOMAIN basis' = DOMAIN basis \cup {Len(basis) + 1}
        /\ \A n \in DOMAIN basis : basis'[n] = basis[n]
        /\ basis'[Len(basis) + 1] = imp
        /\ basis' \in Seq(Implications)
        /\ Len(basis') = Len(basis) + 1
    BY <1>4
  <2> QED BY <2>1 DEF Basis
<1> QED BY <1>1, <1>2, <1>3, <1>4 DEF Basis

\* The intents that are listed, and what a concept added to the list changes.
LEMMA ConceptTypes ==
  ASSUME concepts \in Seq(ConceptRecords)
  PROVE  /\ Intents \subseteq SUBSET Attributes
         /\ \A con \in ConceptRecords :
              concepts' = Append(concepts, con) =>
                /\ Intents' = Intents \cup {con.intent}
                /\ concepts' \in Seq(ConceptRecords)
<1>1. \A n \in DOMAIN concepts : concepts[n].intent \in SUBSET Attributes
  <2>1. \A n \in DOMAIN concepts : concepts[n] \in ConceptRecords
    OBVIOUS
  <2> QED BY <2>1 DEF ConceptRecords
<1>2. ASSUME NEW con \in ConceptRecords, concepts' = Append(concepts, con)
      PROVE  /\ Intents' = Intents \cup {con.intent}
             /\ concepts' \in Seq(ConceptRecords)
  <2>1. /\ DOMAIN concepts' = DOMAIN concepts \cup {Len(concepts) + 1}
        /\ \A n \in DOMAIN concepts : concepts'[n] = concepts[n]
        /\ concepts'[Len(concepts) + 1] = con
        /\ concepts' \in Seq(ConceptRecords)
    BY <1>2
  <2> QED BY <2>1 DEF Intents
<1> QED BY <1>1, <1>2 DEF Intents

\* The sets that compute_context_closure returns.
LEMMA ClosureTypes ==
  \A B : context_closure(B) \in SUBSET Attributes /\ temp_extent(B) \in SUBSET Objects
BY DEF context_closure, temp_extent

\* What the search writes has the types of TypeOK.
THEOREM TypeCorrect == Spec => []TypeOK
<1>1. Init => TypeOK
  <2> SUFFICES ASSUME Init PROVE TypeOK
    OBVIOUS
  <2>1. I \in [Objects -> SUBSET Attributes]
    BY BinaryAssumption DEF Init
  <2>2. /\ basis \in Seq(Implications) /\ concepts \in Seq(ConceptRecords)
        /\ 1 \in 1 .. Len(basis) + 1
    BY DEF Init
  <2> QED BY <2>1, <2>2 DEF Init, TypeOK, NoAttribute
<1>2. TypeOK /\ [Next]_vars => TypeOK'
  <2> SUFFICES ASSUME TypeOK, [Next]_vars PROVE TypeOK'
    OBVIOUS
  <2>0. /\ Len(basis) \in Nat /\ DOMAIN basis = 1 .. Len(basis)
        /\ \A c \in Attributes : c \in Nat /\ c - 1 \in Attributes \cup {NoAttribute}
        /\ NAttr - 1 \in Attributes
        /\ 1 \in 1 .. Len(basis) + 1
        /\ k \in DOMAIN basis => k + 1 \in 1 .. Len(basis) + 1
    BY BasisTypes, BinaryAssumption DEF TypeOK, Attributes, NoAttribute
  <2>1. CASE Interrupt
    BY <2>1 DEF Interrupt, TypeOK
  <2>2. CASE AddConcept
    <3> DEFINE con == [intent |-> A, extent |-> temp_extent(A)]
    <3>1. con \in ConceptRecords
      BY ClosureTypes DEF TypeOK, ConceptRecords
    <3>2. concepts' = Append(concepts, con)
      BY <2>2 DEF AddConcept
    <3> HIDE DEF con
    <3>3. concepts' \in Seq(ConceptRecords)
      BY <3>1, <3>2, ConceptTypes DEF TypeOK
    <3> QED BY <2>0, <2>2, <3>3 DEF AddConcept, TypeOK
  <2>3. CASE AddImplication
    <3> DEFINE imp == [lhs |-> A, rhs |-> context_closure(A) \ A]
    <3>1. imp \in Implications
      BY ClosureTypes DEF TypeOK, Implications
    <3>2. basis' = Append(basis, imp)
      BY <2>3 DEF AddImplication
    <3> HIDE DEF imp
    <3>3. basis' \in Seq(Implications) /\ Len(basis') = Len(basis) + 1
      BY <3>1, <3>2, BasisTypes DEF TypeOK
    <3> QED BY <2>0, <2>3, <3>3 DEF AddImplication, TypeOK
  <2>4. CASE Unset
    <3>1. i \in Attributes
      BY <2>4 DEF Unset, TypeOK
    <3> QED BY <2>0, <2>4, <3>1 DEF Unset, TypeOK
  <2>5. CASE EnterClosure
    BY <2>0, <2>5 DEF EnterClosure, TypeOK
  <2>6. CASE Fire
    <3>1. basis[k].rhs \in SUBSET Attributes
      BY <2>6, BasisTypes DEF Fire, TypeOK
    <3> QED BY <2>0, <2>6, <3>1 DEF Fire, TypeOK
  <2>7. CASE PassOver
    BY <2>0, <2>7 DEF PassOver, TypeOK
  <2>8. CASE NextPass
    BY <2>0, <2>8 DEF NextPass, TypeOK
  <2>9. CASE Reject
    <3>1. i \in Attributes => i - 1 \in Attributes \cup {NoAttribute}
      BY <2>0
    <3> QED BY <2>9, <3>1 DEF Reject, TypeOK
  <2>10. CASE Accept
    BY <2>10 DEF Accept, TypeOK
  <2>11. CASE Finish
    BY <2>11 DEF Finish, TypeOK
  <2>12. CASE UNCHANGED vars
    BY <2>12 DEF vars, TypeOK
  <2> QED BY <2>1, <2>2, <2>3, <2>4, <2>5, <2>6, <2>7, <2>8, <2>9, <2>10,
             <2>11, <2>12 DEF Next
<1> QED BY <1>1, <1>2, PTL DEF Spec
-----------------------------------------------------------------------------
\* lin_closure.

\* A set respects the basis when it respects each of its entries.
LEMMA ModelByEntry ==
  \A B : Model(B) <=> \A n \in DOMAIN basis : Respects(B, basis[n])
BY DEF Model, Basis

\* What the loop of lin_closure keeps, and why.
LEMMA ClosingStep ==
  ASSUME TypeOK, ClosingInv, [Next]_vars
  PROVE  ClosingInv'
<1> SUFFICES ASSUME pc' = "closing" PROVE ClosingInv'
  BY DEF ClosingInv
<1>1. /\ Len(basis) \in Nat /\ DOMAIN basis = 1 .. Len(basis)
      /\ k \in 1 .. Len(basis) + 1
  BY BasisTypes DEF TypeOK
<1>2. CASE EnterClosure
  BY <1>1, <1>2 DEF EnterClosure, ClosingInv
<1>3. CASE Fire
  <2>1. /\ pc = "closing" /\ k \in DOMAIN basis /\ changed' = TRUE
        /\ basis[k].lhs \subseteq candidate
        /\ candidate' = candidate \cup basis[k].rhs
        /\ A' = A /\ i' = i /\ basis' = basis
    BY <1>3 DEF Fire, Applies
  <2>2. ASSUME NEW B \in SUBSET Attributes, A \cup {i} \subseteq B, Model(B)
        PROVE  candidate' \subseteq B
    <3>1. candidate \subseteq B
      BY <2>1, <2>2 DEF ClosingInv
    <3>2. Respects(B, basis[k])
      BY <2>1, <2>2, ModelByEntry
    <3> QED BY <2>1, <3>1, <3>2 DEF Respects
  <2>3. \A B : Model(B)' = Model(B)
    BY <2>1 DEF Model, Basis
  <2>4. i \notin A /\ A \cup {i} \subseteq candidate
    BY <2>1 DEF ClosingInv
  <2> QED BY <2>1, <2>2, <2>3, <2>4 DEF ClosingInv
<1>4. CASE PassOver
  <2>1. /\ pc = "closing" /\ k \in DOMAIN basis /\ k' = k + 1
        /\ Respects(candidate, basis[k])
        /\ UNCHANGED <<A, i, candidate, changed, basis>>
    BY <1>4 DEF PassOver, Applies, Respects
  <2>2. \A B : Model(B)' = Model(B)
    BY <2>1 DEF Model, Basis
  <2>3. \A n \in DOMAIN basis : n < k + 1 => n < k \/ n = k
    BY <1>1
  <2>4. ~changed => \A n \in DOMAIN basis :
                      n < k + 1 => Respects(candidate, basis[n])
    BY <2>1, <2>3 DEF ClosingInv
  <2>5. (~changed => \A n \in DOMAIN basis : n < k => Respects(candidate, basis[n]))'
    BY <2>1, <2>4 DEF Respects
  <2> QED BY <2>1, <2>2, <2>5 DEF ClosingInv
<1>5. CASE NextPass
  <2>1. /\ pc = "closing" /\ k' = 1
        /\ UNCHANGED <<A, i, candidate, basis>>
    BY <1>5 DEF NextPass
  <2>2. \A B : Model(B)' = Model(B)
    BY <2>1 DEF Model, Basis
  <2> QED BY <1>1, <2>1, <2>2 DEF ClosingInv
<1>6. CASE UNCHANGED vars
  <2>1. UNCHANGED <<pc, A, i, candidate, k, changed, basis>>
    BY <1>6 DEF vars
  <2> QED BY <2>1 DEF ClosingInv, Model, Basis, Respects
<1>7. pc' = "closing" =>
        EnterClosure \/ Fire \/ PassOver \/ NextPass \/ UNCHANGED vars
  BY DEF Next, Interrupt, AddConcept, AddImplication, Unset, Reject, Accept,
         Finish
<1> QED BY <1>2, <1>3, <1>4, <1>5, <1>6, <1>7

\* When a pass has come to the end of the basis and changed nothing, the
\* candidate respects all of it.
LEMMA ClosedAtTheEnd ==
  ASSUME TypeOK, ClosingInv, pc = "closing", k \notin DOMAIN basis, ~changed
  PROVE  Model(candidate)
<1>1. \A n \in DOMAIN basis : n < k
  BY BasisTypes DEF TypeOK
<1> QED BY <1>1, ModelByEntry DEF ClosingInv

\* lin_closure ends with the least set that contains A and i and respects the
\* basis, for every basis and whatever the order of its implications.
THEOREM LeastClosure == Spec => []LinClosureLeast
<1>1. Init => ClosingInv
  BY DEF Init, ClosingInv
<1>2. TypeOK /\ ClosingInv /\ [Next]_vars => ClosingInv'
  BY ClosingStep
<1>3. TypeOK /\ ClosingInv => LinClosureLeast
  BY ClosedAtTheEnd DEF LinClosureLeast, ClosingInv
<1> QED BY <1>1, <1>2, <1>3, TypeCorrect, PTL DEF Spec
-----------------------------------------------------------------------------
\* equal_prefix.

\* The order of the attributes is that of their words and, within a word, that
\* of their places.
LEMMA WordOrder ==
  ASSUME NEW W \in Nat \ {0}, NEW m \in Nat, NEW n \in Nat
  PROVE  /\ m \div W \in Nat /\ m % W \in Nat
         /\ m < n <=> \/ m \div W < n \div W
                      \/ m \div W = n \div W /\ m % W < n % W
<1> DEFINE p == m \div W
           q == n \div W
           r == m % W
           s == n % W
<1>1. /\ p \in Nat /\ r \in Nat /\ r < W /\ m = W * p + r
      /\ q \in Nat /\ s \in Nat /\ s < W /\ n = W * q + s
  OBVIOUS
<1> HIDE DEF p, q, r, s
<1>2. CASE p < q
  <2>1. W * p + W <= W * q
    <3>1. q - p - 1 \in Nat
      BY <1>1, <1>2
    <3>2. W * (q - p - 1) \in Nat
      BY <3>1
    <3> QED BY <1>1, <3>2
  <2>2. m < n
    BY <1>1, <2>1
  <2> QED BY <1>1, <1>2, <2>2
<1>3. CASE q < p
  <2>1. W * q + W <= W * p
    <3>1. p - q - 1 \in Nat
      BY <1>1, <1>3
    <3>2. W * (p - q - 1) \in Nat
      BY <3>1
    <3> QED BY <1>1, <3>2
  <2>2. n < m
    BY <1>1, <2>1
  <2> QED BY <1>1, <1>3, <2>2
<1>4. CASE p = q
  BY <1>1, <1>4
<1> QED BY <1>1, <1>2, <1>3, <1>4 DEF p, q, r, s

\* Comparing whole words and the bits below the place of n in its own word
\* compares the attributes below n, whatever the length of a word.
LEMMA EqualPrefix ==
  ASSUME NEW B \in SUBSET Attributes, NEW C \in SUBSET Attributes,
         NEW n \in Attributes
  PROVE  equal_prefix(B, C, n) <=>
           \A c \in Attributes : c < n => (c \in B <=> c \in C)
<1> DEFINE W == WordLength
           block == n \div W
           masked(S) == {c \in Block(S, block) : c % W < n % W}
<1>1. /\ W \in Nat \ {0} /\ n \in Nat
      /\ \A c \in Attributes : c \in Nat
  BY BinaryAssumption DEF Attributes
<1>2. /\ block \in Nat /\ n % W \in Nat
      /\ \A c \in Attributes :
           /\ c \div W \in Nat /\ c % W \in Nat
           /\ c < n <=> \/ c \div W < block
                        \/ c \div W = block /\ c % W < n % W
  BY <1>1, WordOrder
<1>3. equal_prefix(B, C, n) <=>
        /\ \A b \in 0 .. block - 1 : Block(B, b) = Block(C, b)
        /\ n % W > 0 => masked(B) = masked(C)
  BY DEF equal_prefix
<1>4. ASSUME equal_prefix(B, C, n), NEW c \in Attributes, c < n
      PROVE  c \in B <=> c \in C
  <2>1. CASE c \div W < block
    <3>1. c \div W \in 0 .. block - 1
      BY <1>2, <2>1
    <3>2. Block(B, c \div W) = Block(C, c \div W)
      BY <1>3, <1>4, <3>1
    <3> QED BY <3>2 DEF Block
  <2>2. CASE c \div W = block /\ c % W < n % W
    <3>1. n % W > 0
      BY <1>2, <2>2
    <3>2. masked(B) = masked(C)
      BY <1>3, <1>4, <3>1
    <3> QED BY <2>2, <3>2 DEF Block
  <2> QED BY <1>2, <1>4, <2>1, <2>2
<1>5. ASSUME \A c \in Attributes : c < n => (c \in B <=> c \in C)
      PROVE  equal_prefix(B, C, n)
  <2>1. ASSUME NEW b \in 0 .. block - 1 PROVE Block(B, b) = Block(C, b)
    <3>1. \A c \in Attributes : c \div W = b => c < n
      BY <1>2
    <3> HIDE DEF W
    <3>2. ASSUME NEW c PROVE c \in Block(B, b) <=> c \in Block(C, b)
      BY <1>5, <3>1 DEF Block, W
    <3> QED BY <3>2 DEF Block
  <2>2. masked(B) = masked(C)
    <3>1. \A c \in Attributes : c \div W = block /\ c % W < n % W => c < n
      BY <1>2
    <3>2. ASSUME NEW c PROVE c \in masked(B) <=> c \in masked(C)
      BY <1>5, <3>1 DEF Block
    <3> HIDE DEF masked
    <3>3. masked(B) \subseteq masked(C) /\ masked(C) \subseteq masked(B)
      BY <3>2
    <3> QED BY <3>3
  <2> QED BY <1>3, <2>1, <2>2
<1> QED BY <1>4, <1>5
-----------------------------------------------------------------------------
\* The closure of a bit set and the lectic order.

\* compute_context_closure is a closure operator.
LEMMA ContextClosure ==
  ASSUME NEW B \in SUBSET Attributes
  PROVE  /\ context_closure(B) \in SUBSET Attributes
         /\ B \subseteq context_closure(B)
         /\ context_closure(context_closure(B)) = context_closure(B)
         /\ \A C \in SUBSET Attributes :
              B \subseteq C => context_closure(B) \subseteq context_closure(C)
BY DEF context_closure, temp_extent

\* The lectic order is irreflexive and asymmetric, and a proper subset comes
\* before the set.
LEMMA LecticLaws ==
  ASSUME NEW B \in SUBSET Attributes, NEW C \in SUBSET Attributes
  PROVE  /\ ~LecticLess(B, B)
         /\ LecticLess(B, C) => ~LecticLess(C, B)
         /\ B \subseteq C /\ B # C => LecticLess(B, C)
<1>0. \A c \in Attributes : c \in Nat
  BY BinaryAssumption DEF Attributes
<1>1. ~LecticLess(B, B)
  BY DEF LecticLess, LecticAt
<1>2. ASSUME LecticLess(B, C), LecticLess(C, B) PROVE FALSE
  <2>1. PICK d \in Attributes : LecticAt(B, C, d)
    BY <1>2 DEF LecticLess
  <2>2. PICK e \in Attributes : LecticAt(C, B, e)
    BY <1>2 DEF LecticLess
  <2>3. d < e \/ e < d \/ d = e
    BY <1>0
  <2> QED BY <2>1, <2>2, <2>3 DEF LecticAt
<1>3. ASSUME B \subseteq C, B # C PROVE LecticLess(B, C)
  <2> DEFINE S == C \ B
             d == Min(S)
  <2>1. S \in SUBSET Nat /\ S # {}
    BY <1>0, <1>3
  <2>2. d \in S /\ \A x \in S : d <= x
    <3> HIDE DEF S
    <3> QED BY <2>1, NatMin
  <2>3. LecticAt(B, C, d)
    <3>1. d \in Attributes /\ d \in C /\ d \notin B
      BY <2>2
    <3>2. ASSUME NEW j \in Attributes, j < d PROVE j \in B <=> j \in C
      <4>1. j \notin S
        BY <1>0, <2>2, <3>1, <3>2
      <4> QED BY <1>3, <4>1
    <3> QED BY <3>1, <3>2 DEF LecticAt
  <2> QED BY <2>2, <2>3 DEF LecticLess
<1> QED BY <1>1, <1>2, <1>3

-----------------------------------------------------------------------------
\* A binary context as a graded one with the degrees 0 and 1: the operators of
\* ImplicationMiner and ConceptMiner say of graded sets what those of this
\* module say of bit sets.

Matrix == [r \in Objects |-> Degrees(I[r])]

\* The least of a family of the degrees 0 and 1.
LEMMA LeastDegree ==
  ASSUME NEW D, NEW f \in [D -> {0, 1}]
  PROVE  BasisOf!Inf(f) = IF \A d \in D : f[d] = 1 THEN 1 ELSE 0
<1> DEFINE S == {1} \cup {f[d] : d \in D}
<1>1. BasisOf!Inf(f) = CHOOSE x \in S : \A y \in S : x <= y
  BY DEF BasisOf!Inf, BasisOf!Min, BasisOf!Range
<1>2. CASE \A d \in D : f[d] = 1
  <2>1. S = {1}
    BY <1>2
  <2> QED BY <1>1, <1>2, <2>1
<1>3. CASE ~(\A d \in D : f[d] = 1)
  <2>1. S = {0, 1}
    BY <1>3
  <2> QED BY <1>1, <1>3, <2>1
<1> QED BY <1>2, <1>3

\* The closure of a graded set with the degrees 0 and 1.
LEMMA BinaryClosure ==
  ASSUME I \in [Objects -> SUBSET Attributes], NEW B \in SUBSET Attributes
  PROVE  BasisOf!compute_closure("standard", "Zadeh", Matrix, Degrees(B))
           = Degrees(context_closure(B))
<1> DEFINE E == BasisOf!compute_extent("Zadeh", Matrix, Degrees(B))
           imp(x, y) == IF x <= y THEN 1 ELSE y
<1>1. \A x, y : BasisOf!implication("Zadeh", x, y) = imp(x, y)
  BY DEF BasisOf!implication, BasisOf!implication_Zadeh
<1>2. BasisOf!Attributes = Attributes
  BY DEF BasisOf!Attributes, Attributes
<1>3. \A r \in Objects, c \in Attributes :
        Matrix[r][c] = IF c \in I[r] THEN 1 ELSE 0
  BY DEF Matrix, Degrees
<1>4. \A c \in Attributes : Degrees(B)[c] = IF c \in B THEN 1 ELSE 0
  BY DEF Degrees
<1>5. E = [r \in Objects |-> IF r \in temp_extent(B) THEN 1 ELSE 0]
  <2>1. E = [r \in Objects |-> BasisOf!Inf([c \in Attributes |->
                                 imp(Degrees(B)[c], Matrix[r][c])])]
    BY <1>1, <1>2 DEF BasisOf!compute_extent
  <2>2. ASSUME NEW r \in Objects
        PROVE  BasisOf!Inf([c \in Attributes |-> imp(Degrees(B)[c], Matrix[r][c])])
                 = IF r \in temp_extent(B) THEN 1 ELSE 0
    <3> DEFINE f == [c \in Attributes |-> imp(Degrees(B)[c], Matrix[r][c])]
    <3>1. f \in [Attributes -> {0, 1}]
      BY <1>3, <1>4
    <3>2. (\A c \in Attributes : f[c] = 1) <=> r \in temp_extent(B)
      BY <1>3, <1>4 DEF temp_extent
    <3> HIDE DEF f
    <3>3. BasisOf!Inf(f) = IF \A c \in Attributes : f[c] = 1 THEN 1 ELSE 0
      BY <3>1, LeastDegree
    <3> QED BY <3>2, <3>3 DEF f
  <2> HIDE DEF E, imp
  <2> QED BY <2>1, <2>2
<1>6. BasisOf!compute_intent("Zadeh", Matrix, E) = Degrees(context_closure(B))
  <2>1. BasisOf!compute_intent("Zadeh", Matrix, E)
          = [c \in Attributes |-> BasisOf!Inf([r \in Objects |->
                                    imp(E[r], Matrix[r][c])])]
    BY <1>1, <1>2 DEF BasisOf!compute_intent
  <2>2. ASSUME NEW c \in Attributes
        PROVE  BasisOf!Inf([r \in Objects |-> imp(E[r], Matrix[r][c])])
                 = IF c \in context_closure(B) THEN 1 ELSE 0
    <3> DEFINE f == [r \in Objects |-> imp(E[r], Matrix[r][c])]
    <3>0. \A r \in Objects : E[r] = IF r \in temp_extent(B) THEN 1 ELSE 0
      BY <1>5
    <3> HIDE DEF E
    <3>1. f \in [Objects -> {0, 1}]
      BY <1>3, <3>0
    <3>2. (\A r \in Objects : f[r] = 1) <=> c \in context_closure(B)
      BY <1>3, <3>0 DEF context_closure, temp_extent
    <3> HIDE DEF f
    <3>3. BasisOf!Inf(f) = IF \A r \in Objects : f[r] = 1 THEN 1 ELSE 0
      BY <3>1, LeastDegree
    <3> QED BY <3>2, <3>3 DEF f
  <2> HIDE DEF E, imp
  <2> QED BY <2>1, <2>2 DEF Degrees
<1> QED BY <1>6 DEF BasisOf!compute_closure, BasisOf!intent_f, BasisOf!extent_f
\* The sets of the degrees 0 and 1 are the bit sets.
LEMMA BinarySets ==
  /\ BasisOf!Attributes = Attributes
  /\ BasisOf!AttrSets = [Attributes -> {0, 1}]
  /\ \A B : Degrees(B) \in BasisOf!AttrSets
  /\ \A V \in BasisOf!AttrSets : \E B \in SUBSET Attributes : V = Degrees(B)
  /\ \A B, C \in SUBSET Attributes :
       /\ Degrees(B) = Degrees(C) <=> B = C
       /\ BasisOf!Leq(Degrees(B), Degrees(C)) <=> B \subseteq C
  /\ \A V \in BasisOf!AttrSets : BasisOf!Graded(Matrix, V)
<1>1. BasisOf!Attributes = Attributes
  BY DEF BasisOf!Attributes, Attributes
<1>2. BasisOf!AttrSets = [Attributes -> {0, 1}]
  <2>1. BasisOf!Grades = {0, 1}
    BY DEF BasisOf!Grades
  <2> QED BY <1>1, <2>1 DEF BasisOf!AttrSets
<1>3. \A B : Degrees(B) \in BasisOf!AttrSets
  BY <1>2 DEF Degrees
<1>4. ASSUME NEW V \in BasisOf!AttrSets
      PROVE  \E B \in SUBSET Attributes : V = Degrees(B)
  <2> DEFINE B == {c \in Attributes : V[c] = 1}
  <2>1. B \in SUBSET Attributes
    OBVIOUS
  <2>2. \A c \in Attributes : V[c] = IF c \in B THEN 1 ELSE 0
    BY <1>2
  <2>3. V = [c \in Attributes |-> V[c]]
    BY <1>2
  <2> HIDE DEF B
  <2>4. V = Degrees(B)
    BY <2>2, <2>3 DEF Degrees
  <2> QED BY <2>1, <2>4
<1>5. ASSUME NEW B \in SUBSET Attributes, NEW C \in SUBSET Attributes
      PROVE  /\ Degrees(B) = Degrees(C) <=> B = C
             /\ BasisOf!Leq(Degrees(B), Degrees(C)) <=> B \subseteq C
  <2>1. \A c \in Attributes : /\ Degrees(B)[c] = IF c \in B THEN 1 ELSE 0
                              /\ Degrees(C)[c] = IF c \in C THEN 1 ELSE 0
    BY DEF Degrees
  <2>2. BasisOf!Leq(Degrees(B), Degrees(C)) <=> B \subseteq C
    BY <1>1, <2>1 DEF BasisOf!Leq
  <2>3. Degrees(B) = Degrees(C) => B = C
    <3> SUFFICES ASSUME Degrees(B) = Degrees(C) PROVE B = C
      OBVIOUS
    <3>1. \A c \in Attributes : c \in B <=> c \in C
      BY <2>1
    <3> QED BY <3>1
  <2> QED BY <2>2, <2>3
<1>6. ASSUME NEW V \in BasisOf!AttrSets PROVE BasisOf!Graded(Matrix, V)
  <2>1. {0, 1} \subseteq BasisOf!GradesSet(Matrix)
    BY DEF BasisOf!GradesSet, BasisOf!Grades
  <2> QED BY <1>1, <1>2, <2>1 DEF BasisOf!Graded
<1> QED BY <1>1, <1>2, <1>3, <1>4, <1>5, <1>6

\* What the two abstract miners say of the matrix.
LEMMA BinaryMiners ==
  ASSUME I \in [Objects -> SUBSET Attributes]
  PROVE  /\ Matrix \in BasisOf!Contexts
         /\ \A B \in SUBSET Attributes :
              BasisOf!Closed("standard", "Zadeh", Matrix, Degrees(B))
                <=> context_closure(B) = B
         /\ BasisOf!SelfGraded
         /\ \A B \in SUBSET Attributes :
              BasisOf!CanonicalImplication(Degrees(B))
                = [lhs |-> Degrees(B), rhs |-> Degrees(context_closure(B) \ B)]
<1>0. [r \in Objects |-> Degrees(I[r])] = Matrix
  BY DEF Matrix
<1>1. Matrix \in BasisOf!Contexts
  <2>1. BasisOf!Contexts = [Objects -> BasisOf!AttrSets]
    BY DEF BasisOf!Contexts, BasisOf!AttrSets
  <2> QED BY <2>1, BinarySets DEF Matrix
<1>2. ASSUME NEW B \in SUBSET Attributes
      PROVE  BasisOf!Closed("standard", "Zadeh", Matrix, Degrees(B))
               <=> context_closure(B) = B
  BY BinaryClosure, BinarySets, ContextClosure DEF BasisOf!Closed
<1>3. ASSUME NEW V \in BasisOf!AttrSets
      PROVE  BasisOf!compute_closure("standard", "Zadeh", Matrix, V) \in BasisOf!AttrSets
  <2>1. PICK B \in SUBSET Attributes : V = Degrees(B)
    BY BinarySets
  <2> QED BY <2>1, BinaryClosure, BinarySets
<1>4. BasisOf!SelfGraded
  BY <1>0, <1>3, BinarySets DEF BasisOf!SelfGraded
<1>5. ASSUME NEW B \in SUBSET Attributes
      PROVE  BasisOf!CanonicalImplication(Degrees(B))
               = [lhs |-> Degrees(B), rhs |-> Degrees(context_closure(B) \ B)]
  <2> DEFINE C == Degrees(context_closure(B))
  <2>1. BasisOf!CanonicalImplication(Degrees(B))
          = [lhs |-> Degrees(B),
             rhs |-> [c \in Attributes |-> IF C[c] > Degrees(B)[c] THEN C[c] ELSE 0]]
    <3> DEFINE V == Degrees(B)
               D == BasisOf!compute_closure("standard", "Zadeh", Matrix, V)
    <3>1. D = C /\ BasisOf!Attributes = Attributes
      BY BinaryClosure, BinarySets
    <3> HIDE DEF C, V
    <3>2. BasisOf!CanonicalImplication(V)
            = [lhs |-> V,
               rhs |-> [c \in BasisOf!Attributes |-> IF D[c] > V[c] THEN D[c] ELSE 0]]
      BY <1>0, Zenon DEF BasisOf!CanonicalImplication
    <3> HIDE DEF D
    <3> QED BY <3>1, <3>2, Zenon DEF V
  <2>2. ASSUME NEW c \in Attributes
        PROVE  (IF C[c] > Degrees(B)[c] THEN C[c] ELSE 0)
                 = IF c \in context_closure(B) \ B THEN 1 ELSE 0
    BY DEF Degrees
  <2>3. [c \in Attributes |-> IF C[c] > Degrees(B)[c] THEN C[c] ELSE 0]
          = Degrees(context_closure(B) \ B)
    <3> HIDE DEF C
    <3> QED BY <2>2 DEF Degrees
  <2> QED BY <2>1, <2>3
<1> QED BY <1>1, <1>2, <1>4, <1>5
\* The bit sets that ImplicationMiner calls pseudo-closed.
Pseudo == {B \in SUBSET Attributes : Degrees(B) \in BasisOf!PseudoClosed}

\* Inclusion of bit sets is well-founded, as there are finitely many.
LEMMA InclusionWellFounded ==
  IsWellFoundedOn(StrictSubsetOrdering(Attributes), SUBSET Attributes)
<1>1. IsFiniteSet(Attributes)
  <2>1. 0 \in Int /\ NAttr - 1 \in Int
    BY BinaryAssumption
  <2> QED BY <2>1, FS_Interval, Zenon DEF Attributes
<1>2. SUBSET Attributes = FiniteSubsetsOf(Attributes)
  BY <1>1, FS_Subset DEF FiniteSubsetsOf
<1> QED BY <1>2, FS_StrictSubsetOrderingWellFounded

\* The recursive definition of the pseudo-closed sets has a solution: a bit
\* set is pseudo-closed when it is not closed and holds the closure of every
\* pseudo-closed set it contains.
LEMMA PseudoLaw ==
  ASSUME I \in [Objects -> SUBSET Attributes]
  PROVE  /\ BasisOf!PseudoClosed = {Degrees(B) : B \in Pseudo}
         /\ \A B \in SUBSET Attributes :
              B \in Pseudo <=>
                /\ context_closure(B) # B
                /\ \A Q \in Pseudo : Q \subseteq B /\ Q # B
                                       => context_closure(Q) \subseteq B
<1> DEFINE Open == {B \in SUBSET Attributes : context_closure(B) # B}
           Ok == {p \in (SUBSET Attributes) \X (SUBSET Attributes) :
                    context_closure(p[1]) \subseteq p[2]}
           M == [r \in Objects |-> Degrees(I[r])]
           closureOf == [V \in BasisOf!AttrSets |->
                           BasisOf!compute_closure("standard", "Zadeh", M, V)]
           Rule(V, f) ==
             /\ BasisOf!Graded(M, V)
             /\ closureOf[V] # V
             /\ \A Q \in BasisOf!AttrSets :
                  BasisOf!Leq(Q, V) /\ Q # V /\ BasisOf!Graded(M, Q)
                      /\ closureOf[Q] # Q /\ f[Q]
                    => BasisOf!Leq(closureOf[Q], V)
           pseudo == CHOOSE f : f = [V \in BasisOf!AttrSets |-> Rule(V, f)]
<1>1. PICK P \in SUBSET (SUBSET Attributes) :
        IsRecursive(P, SUBSET Attributes, StrictSubsetOrdering(Attributes), Open, Ok)
  <2> HIDE DEF Open, Ok
  <2> QED BY InclusionWellFounded, RecursiveSet
<1>2. \A B \in SUBSET Attributes :
        B \in P <=>
          /\ context_closure(B) # B
          /\ \A Q \in P : Q \subseteq B /\ Q # B => context_closure(Q) \subseteq B
  BY <1>1 DEF IsRecursive, StrictSubsetOrdering
<1>3. M = Matrix
  BY DEF Matrix
<1>4. \A B \in SUBSET Attributes : closureOf[Degrees(B)] = Degrees(context_closure(B))
  BY <1>3, BinarySets, BinaryClosure
<1> HIDE DEF M, closureOf
\* The body of the definition, in terms of bit sets.
<1>5. ASSUME NEW B \in SUBSET Attributes, NEW f
      PROVE  Rule(Degrees(B), f) <=>
               /\ context_closure(B) # B
               /\ \A Q \in SUBSET Attributes :
                    Q \subseteq B /\ Q # B /\ context_closure(Q) # Q /\ f[Degrees(Q)]
                      => context_closure(Q) \subseteq B
  <2>1. closureOf[Degrees(B)] # Degrees(B) <=> context_closure(B) # B
    BY <1>4, BinarySets, ContextClosure
  <2>2. ASSUME NEW Q \in SUBSET Attributes
        PROVE  /\ closureOf[Degrees(Q)] # Degrees(Q) <=> context_closure(Q) # Q
               /\ BasisOf!Leq(closureOf[Degrees(Q)], Degrees(B))
                    <=> context_closure(Q) \subseteq B
               /\ BasisOf!Leq(Degrees(Q), Degrees(B)) <=> Q \subseteq B
               /\ Degrees(Q) # Degrees(B) <=> Q # B
    BY <1>4, BinarySets, ContextClosure
  <2>3. (\A V \in BasisOf!AttrSets :
           BasisOf!Leq(V, Degrees(B)) /\ V # Degrees(B) /\ BasisOf!Graded(M, V)
               /\ closureOf[V] # V /\ f[V]
             => BasisOf!Leq(closureOf[V], Degrees(B)))
        <=> \A Q \in SUBSET Attributes :
              Q \subseteq B /\ Q # B /\ context_closure(Q) # Q /\ f[Degrees(Q)]
                => context_closure(Q) \subseteq B
    BY <1>3, <2>2, BinarySets
  <2> QED BY <1>3, <2>1, <2>3, BinarySets
<1>6. BasisOf!PseudoClosed = {V \in BasisOf!AttrSets : pseudo[V]}
  BY DEF BasisOf!PseudoClosed, closureOf, M
\* The set P makes the definition true.
<1>7. \E f : f = [V \in BasisOf!AttrSets |-> Rule(V, f)]
  <2> DEFINE D == {Degrees(B) : B \in P}
             f == [V \in BasisOf!AttrSets |-> V \in D]
  <2>1. \A Q \in SUBSET Attributes : f[Degrees(Q)] <=> Q \in P
    <3>1. \A Q \in SUBSET Attributes : Degrees(Q) \in D <=> Q \in P
      BY BinarySets
    <3> HIDE DEF D
    <3> QED BY <3>1, BinarySets
  <2>2. \A V \in BasisOf!AttrSets : f[V] = (V \in D)
    OBVIOUS
  <2> HIDE DEF f
  <2>3. ASSUME NEW V \in BasisOf!AttrSets PROVE V \in D <=> Rule(V, f)
    <3>1. PICK B \in SUBSET Attributes : V = Degrees(B)
      BY BinarySets
    <3>2. Rule(V, f) <=>
            /\ context_closure(B) # B
            /\ \A Q \in P : Q \subseteq B /\ Q # B => context_closure(Q) \subseteq B
      <4> HIDE DEF Rule
      <4>1. \A Q \in P : context_closure(Q) # Q
        BY <1>2
      <4> QED BY <1>5, <2>1, <3>1, <4>1
    <3>3. V \in D <=> B \in P
      BY <2>1, <2>2, <3>1
    <3> HIDE DEF Rule, D
    <3> QED BY <1>2, <3>2, <3>3
  <2>4. ASSUME NEW V \in BasisOf!AttrSets PROVE (V \in D) = Rule(V, f)
    <3>1. (V \in D) \in BOOLEAN
      OBVIOUS
    <3>2. Rule(V, f) \in BOOLEAN
      BY DEF Rule
    <3>3. \A p, q \in BOOLEAN : (p <=> q) => p = q
      OBVIOUS
    <3>4. V \in D <=> Rule(V, f)
      BY <2>3
    <3> HIDE DEF Rule, D
    <3> QED BY <3>1, <3>2, <3>3, <3>4, Zenon
  <2>5. f = [V \in BasisOf!AttrSets |-> Rule(V, f)]
    <3> HIDE DEF Rule, D
    <3> QED BY <2>4 DEF f
  <2> QED BY <2>5
<1>8. pseudo = [V \in BasisOf!AttrSets |-> Rule(V, pseudo)]
  <2> HIDE DEF Rule
  <2> QED BY <1>7
<1> HIDE DEF pseudo, Rule
\* So its solution, of which P is but one, obeys the law.
<1>9. \A B \in SUBSET Attributes : B \in Pseudo <=> pseudo[Degrees(B)]
  BY <1>6, BinarySets DEF Pseudo
<1>10. ASSUME NEW B \in SUBSET Attributes
       PROVE  pseudo[Degrees(B)] <=>
         /\ context_closure(B) # B
         /\ \A Q \in SUBSET Attributes :
              Q \subseteq B /\ Q # B /\ pseudo[Degrees(Q)]
                => context_closure(Q) \subseteq B
  <2>1. \A V \in BasisOf!AttrSets : pseudo[V] = Rule(V, pseudo)
    BY <1>8
  <2>2. \A Q \in SUBSET Attributes : pseudo[Degrees(Q)] = Rule(Degrees(Q), pseudo)
    BY <2>1, BinarySets
  <2>3. \A Q \in SUBSET Attributes : pseudo[Degrees(Q)] => context_closure(Q) # Q
    BY <1>5, <2>2
  <2> QED BY <1>5, <2>2, <2>3
<1>11. BasisOf!PseudoClosed = {Degrees(B) : B \in Pseudo}
  <2>1. ASSUME NEW V \in BasisOf!PseudoClosed PROVE \E B \in Pseudo : V = Degrees(B)
    <3>1. V \in BasisOf!AttrSets
      BY <1>6
    <3>2. PICK B \in SUBSET Attributes : V = Degrees(B)
      BY <3>1, BinarySets
    <3> QED BY <3>2 DEF Pseudo
  <2> QED BY <2>1 DEF Pseudo
<1>12. Pseudo \subseteq SUBSET Attributes
  BY DEF Pseudo
<1> QED BY <1>9, <1>10, <1>11, <1>12
-----------------------------------------------------------------------------
\* The search.

\* The matrix stays, and with it all that is said of it.
LEMMA MatrixFixed ==
  ASSUME [Next]_vars
  PROVE  /\ I' = I /\ Matrix' = Matrix
         /\ \A B : context_closure(B)' = context_closure(B)
         /\ BasisOf!PseudoClosed' = BasisOf!PseudoClosed
         /\ Pseudo' = Pseudo
<1>1. I' = I
  BY DEF Next, Interrupt, AddConcept, AddImplication, Unset, EnterClosure, Fire,
         PassOver, NextPass, Reject, Accept, Finish, vars
<1> QED BY <1>1 DEF Matrix, context_closure, temp_extent, BasisOf!PseudoClosed, Pseudo

\* What the two steps that list A add to the lists.
LEMMA ListStep ==
  ASSUME TypeOK, AddConcept \/ AddImplication
  PROVE  /\ pc = "loop" /\ pc' = "search" /\ i' = NAttr - 1 /\ A' = A
         /\ AddConcept => /\ A = context_closure(A)
                         /\ Intents' = Intents \cup {A}
                         /\ Basis' = Basis /\ Premises' = Premises
         /\ AddImplication =>
              LET imp == [lhs |-> A, rhs |-> context_closure(A) \ A]
              IN  /\ A # context_closure(A)
                  /\ Intents' = Intents
                  /\ Basis' = Basis \cup {imp} /\ Premises' = Premises \cup {A}
         /\ Intents' \cup Premises' = Intents \cup Premises \cup {A}
<1>1. CASE AddConcept
  <2> DEFINE con == [intent |-> A, extent |-> temp_extent(A)]
  <2>1. con \in ConceptRecords /\ con.intent = A
    BY ClosureTypes DEF TypeOK, ConceptRecords
  <2>2. concepts' = Append(concepts, con) /\ A = context_closure(A) /\ basis' = basis
    BY <1>1 DEF AddConcept
  <2> HIDE DEF con
  <2>3. Intents' = Intents \cup {A}
    BY <2>1, <2>2, ConceptTypes DEF TypeOK
  <2>4. Basis' = Basis /\ Premises' = Premises
    BY <2>2 DEF Basis, Premises
  <2>5. ~AddImplication
    BY <2>2 DEF AddImplication
  <2> QED BY <1>1, <2>2, <2>3, <2>4, <2>5 DEF AddConcept
<1>2. CASE AddImplication
  <2> DEFINE imp == [lhs |-> A, rhs |-> context_closure(A) \ A]
  <2>1. imp \in Implications /\ imp.lhs = A
    BY ClosureTypes DEF TypeOK, Implications
  <2>2. /\ basis' = Append(basis, imp) /\ A # context_closure(A)
        /\ concepts' = concepts
    BY <1>2 DEF AddImplication
  <2> HIDE DEF imp
  <2>3. Basis' = Basis \cup {imp} /\ Intents' = Intents
    BY <2>1, <2>2, BasisTypes DEF TypeOK, Intents
  <2>4. Premises' = Premises \cup {A}
    BY <2>1, <2>3 DEF Premises
  <2>5. ~AddConcept
    BY <2>2 DEF AddConcept
  <2> QED BY <1>2, <2>2, <2>3, <2>4, <2>5 DEF AddImplication, imp
<1> QED BY <1>1, <1>2

\* The other steps leave the lists alone.
LEMMA ListsKept ==
  ASSUME UNCHANGED <<basis, concepts>>
  PROVE  /\ Basis' = Basis /\ Intents' = Intents /\ Premises' = Premises
         /\ \A B : Model(B)' = Model(B)
BY DEF Basis, Intents, Premises, Model

\* A pseudo-closed set that is no premise respects the basis, and so does
\* every closed set.
LEMMA UnlistedRespect ==
  ASSUME TypeOK, ListedInv, NEW B \in SUBSET Attributes
  PROVE  /\ B \in Pseudo /\ B \notin Premises => Model(B)
         /\ context_closure(B) = B => Model(B)
<1>1. ASSUME NEW imp \in Basis
      PROVE  /\ imp.lhs \in Pseudo
             /\ imp.rhs \subseteq context_closure(imp.lhs)
             /\ imp.lhs \in Premises
  BY BasisTypes DEF TypeOK, ListedInv, Pseudo, Premises
<1>2. ASSUME B \in Pseudo, B \notin Premises, NEW imp \in Basis, imp.lhs \subseteq B
      PROVE  imp.rhs \subseteq B
  BY <1>1, <1>2, PseudoLaw DEF TypeOK
<1>3. ASSUME context_closure(B) = B, NEW imp \in Basis, imp.lhs \subseteq B
      PROVE  imp.rhs \subseteq B
  <2>1. imp.lhs \in SUBSET Attributes
    BY BasisTypes DEF TypeOK
  <2> QED BY <1>1, <1>3, <2>1, ContextClosure
<1> QED BY <1>2, <1>3 DEF Model, Respects

\* A set that the search has found and that is not closed is pseudo-closed:
\* the pseudo-closed sets below it are premises already, and it respects them.
LEMMA FoundPseudo ==
  ASSUME TypeOK, ListedInv, SearchInv, pc = "loop", A # context_closure(A)
  PROVE  A \in Pseudo
<1>1. A \in SUBSET Attributes /\ I \in [Objects -> SUBSET Attributes]
  BY DEF TypeOK
<1>2. ASSUME NEW Q \in Pseudo, Q \subseteq A, Q # A
      PROVE  context_closure(Q) \subseteq A
  <2>0. Q \in SUBSET Attributes /\ context_closure(Q) # Q
    BY <1>1, PseudoLaw DEF Pseudo
  <2>1. Q \in Premises
    <3> SUFFICES ASSUME Q \notin Premises PROVE FALSE
      OBVIOUS
    <3>1. Model(Q)
      BY <2>0, UnlistedRespect
    <3>2. Q \notin Intents
      BY <2>0 DEF ListedInv
    <3>3. LecticLess(A, Q)
      BY <1>2, <2>0, <3>1, <3>2 DEF SearchInv
    <3> QED BY <1>1, <1>2, <2>0, <3>3, LecticLaws
  <2>2. PICK imp \in Basis : imp.lhs = Q
    BY <2>1 DEF Premises
  <2>3. imp.rhs \subseteq A
    BY <1>2, <2>2 DEF SearchInv, Model, Respects
  <2>4. imp.rhs = context_closure(Q) \ Q
    BY <2>2 DEF ListedInv
  <2> QED BY <1>2, <2>3, <2>4
<1> QED BY <1>1, <1>2, PseudoLaw

\* Both lists stay right.
LEMMA ListedStep ==
  ASSUME TypeOK, ListedInv, SearchInv, [Next]_vars
  PROVE  ListedInv'
<1>1. CASE AddConcept
  BY <1>1, ListStep, MatrixFixed DEF ListedInv
<1>2. CASE AddImplication
  <2> DEFINE imp == [lhs |-> A, rhs |-> context_closure(A) \ A]
  <2>1. /\ Basis' = Basis \cup {imp} /\ Intents' = Intents
        /\ A # context_closure(A) /\ pc = "loop"
    BY <1>2, ListStep
  <2>2. Degrees(imp.lhs) \in BasisOf!PseudoClosed
    BY <2>1, FoundPseudo DEF Pseudo
  <2>3. imp.rhs = context_closure(imp.lhs) \ imp.lhs
    OBVIOUS
  <2> HIDE DEF imp
  <2> QED BY <2>1, <2>2, <2>3, MatrixFixed DEF ListedInv
<1>3. CASE UNCHANGED <<basis, concepts>>
  BY <1>3, ListsKept, MatrixFixed DEF ListedInv
<1>4. AddConcept \/ AddImplication \/ UNCHANGED <<basis, concepts>>
  BY DEF Next, Interrupt, Unset, EnterClosure, Fire, PassOver, NextPass, Reject,
         Accept, Finish, vars
<1> QED BY <1>1, <1>2, <1>3, <1>4

\* The lists stay in order.
LEMMA OrderStep ==
  ASSUME TypeOK, ClosingInv, OrderInv, [Next]_vars
  PROVE  OrderInv'
<1> DEFINE Listed == Intents \cup Premises
<1>0. /\ \A c \in Attributes : c \in Nat
      /\ Attributes = 0 .. NAttr - 1 /\ NAttr \in Nat
      /\ A \in SUBSET Attributes /\ candidate \in SUBSET Attributes
      /\ i \in Attributes \cup {NoAttribute}
      /\ pc = "closing" => i \in Attributes
  BY BinaryAssumption DEF TypeOK, Attributes
<1>1. CASE AddConcept \/ AddImplication
  <2>1. /\ pc = "loop" /\ pc' = "search" /\ i' = NAttr - 1 /\ A' = A
        /\ Listed' = Listed \cup {A}
    BY <1>1, ListStep
  <2>2. \A B \in Listed : LecticLess(B, A)
    BY <2>1 DEF OrderInv
  <2> HIDE DEF Listed
  <2>3. A \subseteq 0 .. NAttr - 1
    BY <1>0
  <2>4. \A B \in Listed' : LecticLess(B, A) \/ B = A
    BY <2>1, <2>2
  <2>5. \A B : LecticLess(B, A') = LecticLess(B, A)
    BY <2>1
  <2> QED BY <2>1, <2>3, <2>4, <2>5 DEF OrderInv, Listed
<1>2. ASSUME UNCHANGED <<basis, concepts>> PROVE Listed' = Listed
  BY <1>2, ListsKept
<1>3. CASE Unset
  <2>1. /\ pc = "search" /\ pc' = "search" /\ i \in A /\ A' = A \ {i} /\ i' = i - 1
        /\ UNCHANGED <<basis, concepts>>
    BY <1>3 DEF Unset
  <2>2. i \in Attributes /\ A \subseteq 0 .. i
    BY <1>0, <2>1 DEF OrderInv
  <2>3. A' \subseteq 0 .. i'
    BY <1>0, <2>1, <2>2
  <2>4. ASSUME NEW B \in Listed
        PROVE  LecticLess(B, A') \/ (\A j \in 0 .. i' : j \in B <=> j \in A')
    <3>1. CASE \A j \in 0 .. i : j \in B <=> j \in A
      BY <1>0, <2>1, <2>2, <3>1
    <3>2. CASE LecticLess(B, A)
      <4>1. PICK d \in Attributes : LecticAt(B, A, d)
        BY <3>2 DEF LecticLess
      <4>2. d \in 0 .. i
        BY <2>2, <4>1 DEF LecticAt
      <4>3. CASE d = i
        <5>1. \A j \in 0 .. i - 1 : j \in Attributes /\ j < d
          BY <1>0, <2>2, <4>3
        <5> QED BY <1>0, <2>1, <2>2, <4>1, <4>3, <5>1 DEF LecticAt
      <4>4. CASE d # i
        <5>1. LecticAt(B, A', d)
          BY <1>0, <2>1, <2>2, <4>1, <4>2, <4>4 DEF LecticAt
        <5> QED BY <5>1 DEF LecticLess
      <4> QED BY <4>3, <4>4
    <3>3. LecticLess(B, A) \/ (\A j \in 0 .. i : j \in B <=> j \in A)
      BY <2>1, <2>4 DEF OrderInv
    <3> QED BY <3>1, <3>2, <3>3
  <2> QED BY <1>2, <2>1, <2>3, <2>4 DEF OrderInv
<1>4. CASE EnterClosure \/ Fire \/ PassOver \/ NextPass
  <2>1. /\ pc \in {"search", "closing"} /\ pc' = "closing"
        /\ UNCHANGED <<A, i, basis, concepts>>
    BY <1>4 DEF EnterClosure, Fire, PassOver, NextPass
  <2> QED BY <1>2, <2>1 DEF OrderInv, LecticLess, LecticAt
<1>5. CASE Reject
  <2>1. /\ pc = "closing" /\ pc' = "search" /\ i' = i - 1
        /\ UNCHANGED <<A, basis, concepts>>
    BY <1>5 DEF Reject
  <2>2. A \subseteq 0 .. i /\ i \notin A /\ i \in Attributes
    BY <1>0, <2>1 DEF OrderInv, ClosingInv
  <2>3. A \subseteq 0 .. i - 1
    BY <1>0, <2>2
  <2>4. \A j \in 0 .. i - 1 : j \in 0 .. i
    BY <1>0, <2>2
  <2>5. \A B \in Listed :
          LecticLess(B, A) \/ (\A j \in 0 .. i - 1 : j \in B <=> j \in A)
    BY <2>1, <2>4 DEF OrderInv
  <2>6. \A B : LecticLess(B, A)' = LecticLess(B, A)
    BY <2>1 DEF LecticLess, LecticAt
  <2> QED BY <1>2, <2>1, <2>3, <2>5, <2>6 DEF OrderInv
<1>6. CASE Accept
  <2>1. /\ pc = "closing" /\ pc' = "loop" /\ A' = candidate
        /\ equal_prefix(candidate, A, i)
        /\ UNCHANGED <<basis, concepts>>
    BY <1>6 DEF Accept
  <2>2. /\ A \subseteq 0 .. i /\ i \notin A /\ i \in Attributes
        /\ i \in candidate
    BY <1>0, <2>1 DEF OrderInv, ClosingInv
  <2>3. \A c \in Attributes : c < i => (c \in candidate <=> c \in A)
    BY <1>0, <2>1, <2>2, EqualPrefix
  <2>4. ASSUME NEW B \in Listed PROVE LecticLess(B, candidate)
    <3>1. CASE \A j \in 0 .. i : j \in B <=> j \in A
      <4>1. \A j \in Attributes : j < i => j \in 0 .. i
        BY <1>0, <2>2
      <4>2. i \in 0 .. i
        BY <1>0, <2>2
      <4>3. LecticAt(B, candidate, i)
        BY <2>2, <2>3, <3>1, <4>1, <4>2 DEF LecticAt
      <4> QED BY <2>2, <4>3 DEF LecticLess
    <3>2. CASE LecticLess(B, A)
      <4>1. PICK d \in Attributes : LecticAt(B, A, d)
        BY <3>2 DEF LecticLess
      <4>2. d \in 0 .. i /\ d # i
        BY <2>2, <4>1 DEF LecticAt
      <4>3. d < i /\ \A j \in Attributes : j < d => j < i
        BY <1>0, <2>2, <4>2
      <4>4. LecticAt(B, candidate, d)
        BY <2>3, <4>1, <4>3 DEF LecticAt
      <4> QED BY <4>4 DEF LecticLess
    <3>3. LecticLess(B, A) \/ (\A j \in 0 .. i : j \in B <=> j \in A)
      BY <2>1, <2>4 DEF OrderInv
    <3> QED BY <3>1, <3>2, <3>3
  <2>5. \A B : LecticLess(B, A') = LecticLess(B, candidate)
    BY <2>1
  <2> QED BY <1>2, <2>1, <2>4, <2>5 DEF OrderInv
<1>7. CASE Finish \/ Interrupt
  <2>1. pc' \in {"done", "interrupted"}
    BY <1>7 DEF Finish, Interrupt
  <2> QED BY <2>1 DEF OrderInv
<1>8. CASE UNCHANGED vars
  <2>1. UNCHANGED <<pc, A, i, basis, concepts>>
    BY <1>8 DEF vars
  <2> QED BY <1>2, <2>1 DEF OrderInv, LecticLess, LecticAt
<1> QED BY <1>1, <1>3, <1>4, <1>5, <1>6, <1>7, <1>8 DEF Next
\* No set that respects the basis is passed over.
LEMMA SearchStep ==
  ASSUME TypeOK, ClosingInv, OrderInv, SearchInv, [Next]_vars
  PROVE  SearchInv'
<1> DEFINE Open == {B \in (SUBSET Attributes) \ Intents : Model(B)}
<1>0. /\ \A c \in Attributes : c \in Nat
      /\ Attributes = 0 .. NAttr - 1 /\ NAttr \in Nat
      /\ A \in SUBSET Attributes /\ candidate \in SUBSET Attributes
      /\ i \in Attributes \cup {NoAttribute}
      /\ pc = "closing" => i \in Attributes
  BY BinaryAssumption DEF TypeOK, Attributes
<1>1. ASSUME UNCHANGED <<basis, concepts>> PROVE Open' = Open
  BY <1>1, ListsKept
<1>2. /\ pc = "loop" => \A B \in Open : B = A \/ LecticLess(A, B)
      /\ pc \in {"search", "closing"} =>
           \A B \in Open : \E d \in 0 .. i : LecticAt(A, B, d)
  BY DEF SearchInv
<1>3. /\ pc' = "loop" => /\ Model(A)'
                        /\ \A B \in Open' : B = A' \/ LecticLess(A', B)
      /\ pc' \in {"search", "closing"} =>
           \A B \in Open' : \E d \in 0 .. i' : LecticAt(A', B, d)
      => SearchInv'
  BY DEF SearchInv
\* The set that is listed is closed, or does not respect the implication that
\* it gives.
<1>4. CASE AddConcept \/ AddImplication
  <2>1. /\ pc = "loop" /\ pc' = "search" /\ i' = NAttr - 1 /\ A' = A
    BY <1>4, ListStep
  <2>2. Open' \subseteq Open \ {A}
    <3>1. CASE AddConcept
      <4>1. Intents' = Intents \cup {A} /\ Basis' = Basis
        BY <3>1, ListStep
      <4> QED BY <4>1 DEF Model
    <3>2. CASE AddImplication
      <4> DEFINE imp == [lhs |-> A, rhs |-> context_closure(A) \ A]
      <4>1. Intents' = Intents /\ Basis' = Basis \cup {imp} /\ A # context_closure(A)
        BY <3>2, ListStep
      <4>2. ~(imp.rhs \subseteq A) /\ imp.lhs = A
        BY <1>0, <4>1, ContextClosure
      <4> HIDE DEF imp
      <4>3. ASSUME NEW B \in SUBSET Attributes, Model(B)' PROVE Model(B) /\ B # A
        BY <4>1, <4>2, <4>3 DEF Model, Respects
      <4> QED BY <4>1, <4>3
    <3> QED BY <1>4, <3>1, <3>2
  <2> HIDE DEF Open
  <2>3. \A B \in Open' : \E d \in 0 .. NAttr - 1 : LecticAt(A, B, d)
    BY <1>0, <1>2, <2>1, <2>2 DEF LecticLess
  <2>4. \A B, d : LecticAt(A', B, d) = LecticAt(A, B, d)
    BY <2>1
  <2> QED BY <1>3, <2>1, <2>3, <2>4
<1> HIDE DEF Open
<1>5. CASE Unset
  <2>1. /\ pc = "search" /\ pc' = "search" /\ i \in A /\ A' = A \ {i} /\ i' = i - 1
        /\ UNCHANGED <<basis, concepts>>
    BY <1>5 DEF Unset
  <2>2. i \in Nat
    BY <1>0, <2>1
  <2>3. ASSUME NEW B \in Open PROVE \E d \in 0 .. i' : LecticAt(A', B, d)
    <3>1. PICK d \in 0 .. i : LecticAt(A, B, d)
      BY <1>2, <2>1
    <3>2. d # i
      BY <2>1, <3>1 DEF LecticAt
    <3>3. LecticAt(A', B, d) /\ d \in 0 .. i'
      BY <1>0, <2>1, <2>2, <3>1, <3>2 DEF LecticAt
    <3> QED BY <3>3
  <2> QED BY <1>1, <1>3, <2>1, <2>3
<1>6. CASE EnterClosure \/ Fire \/ PassOver \/ NextPass
  <2>1. /\ pc \in {"search", "closing"} /\ pc' = "closing"
        /\ UNCHANGED <<A, i, basis, concepts>>
    BY <1>6 DEF EnterClosure, Fire, PassOver, NextPass
  <2> QED BY <1>1, <1>2, <1>3, <2>1 DEF LecticAt
\* A set that departs from A at i contains the candidate.
<1>7. ASSUME pc = "closing", k \notin DOMAIN basis, ~changed, NEW B \in Open,
             LecticAt(A, B, i)
      PROVE  /\ candidate \subseteq B
             /\ \A c \in Attributes : c < i => (c \in candidate <=> c \in A)
  <2>1. A \subseteq 0 .. i /\ i \notin A /\ i \in Attributes /\ A \subseteq candidate
    BY <1>0, <1>7 DEF OrderInv, ClosingInv
  <2>2. \A c \in A : c < i
    BY <1>0, <2>1
  <2>3. A \cup {i} \subseteq B
    BY <1>0, <1>7, <2>2 DEF LecticAt
  <2>4. candidate \subseteq B
    BY <1>7, <2>3 DEF ClosingInv, Open
  <2> QED BY <1>7, <2>1, <2>4 DEF LecticAt
<1>8. CASE Reject
  <2>1. /\ pc = "closing" /\ k \notin DOMAIN basis /\ ~changed
        /\ ~equal_prefix(candidate, A, i) /\ pc' = "search" /\ i' = i - 1
        /\ UNCHANGED <<A, basis, concepts>>
    BY <1>8 DEF Reject
  <2>2. i \in Attributes
    BY <1>0, <2>1
  <2>3. ASSUME NEW B \in Open PROVE \E d \in 0 .. i - 1 : LecticAt(A, B, d)
    <3>1. PICK d \in 0 .. i : LecticAt(A, B, d)
      BY <1>2, <2>1
    <3>2. d # i
      BY <1>0, <1>7, <2>1, <2>2, <3>1, EqualPrefix
    <3>3. d \in 0 .. i - 1
      BY <1>0, <2>2, <3>2
    <3> QED BY <3>1, <3>3
  <2>4. \A B, d : LecticAt(A', B, d) = LecticAt(A, B, d)
    BY <2>1
  <2> QED BY <1>1, <1>3, <2>1, <2>3, <2>4
<1>9. CASE Accept
  <2>1. /\ pc = "closing" /\ k \notin DOMAIN basis /\ ~changed
        /\ equal_prefix(candidate, A, i) /\ pc' = "loop" /\ A' = candidate
        /\ UNCHANGED <<basis, concepts>>
    BY <1>9 DEF Accept
  <2>2. i \in Attributes
    BY <1>0, <2>1
  <2>3. \A c \in Attributes : c < i => (c \in candidate <=> c \in A)
    BY <1>0, <2>1, <2>2, EqualPrefix
  <2>4. ASSUME NEW B \in Open PROVE B = candidate \/ LecticLess(candidate, B)
    <3>0. B \in SUBSET Attributes
      BY DEF Open
    <3>1. PICK d \in 0 .. i : LecticAt(A, B, d)
      BY <1>2, <2>1
    <3>2. CASE d = i
      <4>1. candidate \subseteq B
        BY <1>7, <2>1, <3>1, <3>2
      <4> QED BY <1>0, <3>0, <4>1, LecticLaws
    <3>3. CASE d # i
      <4>1. d < i /\ \A j \in Attributes : j < d => j < i
        BY <1>0, <2>2, <3>3
      <4>2. LecticAt(candidate, B, d)
        BY <2>3, <3>1, <4>1 DEF LecticAt
      <4> QED BY <4>2 DEF LecticLess, LecticAt
    <3> QED BY <3>2, <3>3
  <2>5. Model(candidate)
    BY <2>1, ClosedAtTheEnd
  <2>6. Model(A)'
    BY <2>1, <2>5 DEF Model, Basis
  <2>7. \A B : LecticLess(A', B) = LecticLess(candidate, B)
    BY <2>1
  <2> QED BY <1>1, <1>3, <2>1, <2>4, <2>6, <2>7
<1>10. CASE Finish \/ Interrupt
  <2>1. pc' \in {"done", "interrupted"}
    BY <1>10 DEF Finish, Interrupt
  <2> QED BY <1>3, <2>1
<1>11. CASE UNCHANGED vars
  <2>1. UNCHANGED <<pc, A, i, basis, concepts>>
    BY <1>11 DEF vars
  <2>2. Model(A)' = Model(A)
    BY <2>1 DEF Model, Basis
  <2>3. /\ \A B : LecticLess(A, B)' = LecticLess(A, B)
        /\ \A B, d : LecticAt(A, B, d)' = LecticAt(A, B, d)
    BY <2>1 DEF LecticLess, LecticAt
  <2> QED BY <1>1, <1>2, <1>3, <2>1, <2>2, <2>3 DEF SearchInv
<1> QED BY <1>4, <1>5, <1>6, <1>8, <1>9, <1>10, <1>11 DEF Next

\* The strengthening is an invariant.
THEOREM Invariance == Spec => []Inv
<1>1. Init => Inv
  <2> SUFFICES ASSUME Init PROVE Inv
    OBVIOUS
  <2>1. Intents = {} /\ Basis = {} /\ Premises = {} /\ A = {} /\ pc = "loop"
    BY DEF Init, Intents, Basis, Premises
  <2>2. \A B \in SUBSET Attributes : B = A \/ LecticLess(A, B)
    BY <2>1, LecticLaws
  <2>3. ClosingInv /\ ListedInv /\ OrderInv
    BY <2>1 DEF ClosingInv, ListedInv, OrderInv
  <2>4. SearchInv
    BY <2>1, <2>2 DEF SearchInv, Model
  <2> QED BY <2>3, <2>4 DEF Inv
<1>2. TypeOK /\ Inv /\ [Next]_vars => Inv'
  <2> SUFFICES ASSUME TypeOK, ClosingInv, ListedInv, OrderInv, SearchInv, [Next]_vars
               PROVE  Inv'
    BY DEF Inv
  <2> QED BY ClosingStep, ListedStep, OrderStep, SearchStep DEF Inv
<1> QED BY <1>1, <1>2, TypeCorrect, PTL DEF Spec
-----------------------------------------------------------------------------
\* The algorithm implements what find_implications and find_concepts promise.

\* A finished search has listed every set that respects the basis.
LEMMA AllListed ==
  ASSUME SearchInv, Finish
  PROVE  \A B \in SUBSET Attributes : Model(B) => B \in Intents
<1>1. pc = "search" /\ i = -1
  BY DEF Finish, NoAttribute
<1>2. 0 .. i = {}
  BY <1>1
<1> QED BY <1>1, <1>2 DEF SearchInv

\* The step that lists a pseudo-closed set reports its canonical implication,
\* and reports it for the first time.
LEMMA ReportImplication ==
  ASSUME TypeOK, Inv, AddImplication
  PROVE  BasisOf!Report
<1> DEFINE rep == {[lhs |-> Degrees(imp.lhs), rhs |-> Degrees(imp.rhs)] : imp \in Basis}
           new == [lhs |-> A, rhs |-> context_closure(A) \ A]
           imp0 == [lhs |-> Degrees(A), rhs |-> Degrees(context_closure(A) \ A)]
<1>1. /\ pc = "loop" /\ pc' = "search" /\ Basis' = Basis \cup {new}
      /\ A # context_closure(A) /\ A \in SUBSET Attributes /\ I' = I
      /\ I \in [Objects -> SUBSET Attributes]
  BY ListStep DEF AddImplication, TypeOK
<1>2. rep' = rep \cup {imp0}
  <2> DEFINE view(imp) == [lhs |-> Degrees(imp.lhs), rhs |-> Degrees(imp.rhs)]
  <2>1. imp0 = view(new)
    OBVIOUS
  <2>2. rep = {view(imp) : imp \in Basis} /\ rep' = {view(imp) : imp \in Basis'}
    OBVIOUS
  <2> HIDE DEF view, rep, imp0, new
  <2> QED BY <1>1, <2>1, <2>2
<1>3. imp0 \notin rep
  <2> SUFFICES ASSUME NEW imp \in Basis, Degrees(imp.lhs) = Degrees(A) PROVE FALSE
    OBVIOUS
  <2>1. imp.lhs \in SUBSET Attributes /\ imp.lhs \in Premises
    BY BasisTypes DEF TypeOK, Premises
  <2>2. imp.lhs = A
    BY <1>1, <2>1, BinarySets
  <2>3. LecticLess(A, A)
    BY <1>1, <2>1, <2>2 DEF Inv, OrderInv
  <2> QED BY <1>1, <2>3, LecticLaws
<1>4. imp0 \in BasisOf!CanonicalBasis
  <2>1. Degrees(A) \in BasisOf!PseudoClosed
    BY <1>1, FoundPseudo DEF Pseudo, Inv
  <2>2. BasisOf!CanonicalImplication(Degrees(A)) = imp0
    BY <1>1, BinaryMiners
  <2> QED BY <2>1, <2>2 DEF BasisOf!CanonicalBasis
<1>5. status = "running" /\ status' = "running"
  BY <1>1 DEF status
<1>6. BasisOf!SelfGraded
  BY <1>1, BinaryMiners
<1>7. [r \in Objects |-> Degrees(I[r])]' = [r \in Objects |-> Degrees(I[r])]
  BY <1>1
<1> HIDE DEF rep, imp0
<1> QED BY <1>2, <1>3, <1>4, <1>5, <1>6, <1>7 DEF BasisOf!Report, rep

\* When the search is over every pseudo-closed set is a premise.
LEMMA FinishBasis ==
  ASSUME TypeOK, Inv, Finish
  PROVE  BasisOf!Finish
<1> DEFINE rep == {[lhs |-> Degrees(imp.lhs), rhs |-> Degrees(imp.rhs)] : imp \in Basis}
           M == [r \in Objects |-> Degrees(I[r])]
<1>1. /\ UNCHANGED <<I, basis>> /\ pc = "search" /\ pc' = "done"
      /\ I \in [Objects -> SUBSET Attributes]
  BY DEF Finish, TypeOK
<1>2. \A B \in SUBSET Attributes : B \in Pseudo => B \in Premises
  <2> SUFFICES ASSUME NEW B \in SUBSET Attributes, B \in Pseudo, B \notin Premises
               PROVE  FALSE
    OBVIOUS
  <2>1. Model(B) /\ context_closure(B) # B
    BY <1>1, UnlistedRespect, PseudoLaw DEF Inv
  <2>2. B \in Intents
    BY <2>1, AllListed DEF Inv
  <2> QED BY <2>1, <2>2 DEF Inv, ListedInv
<1>3. ASSUME NEW imp \in Basis
      PROVE  /\ imp.lhs \in Pseudo
             /\ [lhs |-> Degrees(imp.lhs), rhs |-> Degrees(imp.rhs)]
                  = BasisOf!CanonicalImplication(Degrees(imp.lhs))
  <2>1. imp.lhs \in SUBSET Attributes
    BY BasisTypes DEF TypeOK
  <2>2. imp.lhs \in Pseudo /\ imp.rhs = context_closure(imp.lhs) \ imp.lhs
    BY <2>1 DEF Inv, ListedInv, Pseudo
  <2> QED BY <1>1, <2>1, <2>2, BinaryMiners
<1>4. rep = BasisOf!CanonicalBasis
  <2>1. \A B \in Pseudo : \E imp \in Basis : imp.lhs = B
    BY <1>2 DEF Premises, Pseudo
  <2>2. BasisOf!CanonicalBasis
          = {BasisOf!CanonicalImplication(Degrees(B)) : B \in Pseudo}
    <3>1. BasisOf!PseudoClosed = {Degrees(B) : B \in Pseudo}
      BY <1>1, PseudoLaw
    <3> QED BY <3>1 DEF BasisOf!CanonicalBasis
  <2>3. rep \subseteq BasisOf!CanonicalBasis
    BY <1>3, <2>2
  <2>4. BasisOf!CanonicalBasis \subseteq rep
    BY <1>3, <2>1, <2>2
  <2> QED BY <2>3, <2>4
<1>5. rep' = rep /\ M' = M
  BY <1>1 DEF Basis
<1>6. status = "running" /\ status' = "finished" /\ BasisOf!SelfGraded
  BY <1>1, BinaryMiners DEF status
<1> HIDE DEF rep
<1> QED BY <1>4, <1>5, <1>6 DEF BasisOf!Finish, rep

\* Every run is a run of ImplicationMiner: it reports the implications of the
\* canonical basis, each once, and finishes when it has reported all of them.
THEOREM ImplementsImplications == Spec => ImplementsImplicationMiner
<1>1. Init => BasisOf!Init
  <2> SUFFICES ASSUME Init PROVE BasisOf!Init
    OBVIOUS
  <2>1. I \in [Objects -> SUBSET Attributes] /\ Basis = {} /\ status = "running"
    BY BinaryAssumption DEF Init, Basis, status
  <2>2. [r \in Objects |-> Degrees(I[r])] \in BasisOf!Contexts
    BY <2>1, BinaryMiners DEF Matrix
  <2> QED BY <2>1, <2>2 DEF BasisOf!Init, BasisOf!LogicNames, BasisOf!Connections
<1>2. TypeOK /\ Inv /\ [Next]_vars => [BasisOf!Next]_(BasisOf!vars)
  <2> SUFFICES ASSUME TypeOK, Inv, [Next]_vars PROVE [BasisOf!Next]_(BasisOf!vars)
    OBVIOUS
  <2>1. I' = I
    BY MatrixFixed
  <2>2. CASE AddImplication
    BY <2>2, ReportImplication DEF BasisOf!Next
  <2>3. CASE Finish
    BY <2>3, FinishBasis DEF BasisOf!Next
  <2>4. CASE Interrupt
    <3>1. basis' = basis /\ status = "running" /\ status' = "interrupted"
      BY <2>4 DEF Interrupt, status
    <3>2. BasisOf!Interrupt
      BY <2>1, <3>1 DEF BasisOf!Interrupt, Basis
    <3> QED BY <3>2 DEF BasisOf!Next
  <2>5. CASE \/ AddConcept \/ Unset \/ EnterClosure \/ Fire \/ PassOver \/ NextPass
             \/ Reject \/ Accept \/ UNCHANGED vars
    <3>1. basis' = basis /\ status' = status
      BY <2>5 DEF AddConcept, Unset, EnterClosure, Fire, PassOver, NextPass, Reject,
                  Accept, vars, status
    <3> QED BY <2>1, <3>1 DEF BasisOf!vars, Basis
  <2> QED BY <2>2, <2>3, <2>4, <2>5 DEF Next
<1> QED BY <1>1, <1>2, TypeCorrect, Invariance, PTL
        DEF Spec, ImplementsImplicationMiner, BasisOf!Spec
\* ConceptMiner reads the matrix as ImplicationMiner does.
LEMMA ConceptDefinitions ==
  /\ ConceptsOf!Contexts = BasisOf!Contexts
  /\ ConceptsOf!LogicNames = BasisOf!LogicNames
  /\ ConceptsOf!Connections = BasisOf!Connections
  /\ ConceptsOf!AttrSets = BasisOf!AttrSets
  /\ \A M, V : ConceptsOf!Closed("standard", "Zadeh", M, V)
                 = BasisOf!Closed("standard", "Zadeh", M, V)
<1>1. /\ ConceptsOf!Contexts = BasisOf!Contexts
      /\ ConceptsOf!LogicNames = BasisOf!LogicNames
      /\ ConceptsOf!Connections = BasisOf!Connections
      /\ ConceptsOf!AttrSets = BasisOf!AttrSets
  BY DEF ConceptsOf!Contexts, ConceptsOf!LogicNames, ConceptsOf!Connections,
         ConceptsOf!AttrSets, ConceptsOf!Attributes, ConceptsOf!Grades,
         BasisOf!Contexts, BasisOf!LogicNames, BasisOf!Connections,
         BasisOf!AttrSets, BasisOf!Attributes, BasisOf!Grades
<1>2. \A M, V :
        /\ ConceptsOf!compute_intent("Zadeh", M, V) = BasisOf!compute_intent("Zadeh", M, V)
        /\ ConceptsOf!compute_extent("Zadeh", M, V) = BasisOf!compute_extent("Zadeh", M, V)
  BY DEF ConceptsOf!compute_intent, ConceptsOf!compute_extent,
         ConceptsOf!implication, ConceptsOf!implication_Zadeh,
         ConceptsOf!Attributes, ConceptsOf!Inf, ConceptsOf!Min, ConceptsOf!Range,
         BasisOf!compute_intent, BasisOf!compute_extent,
         BasisOf!implication, BasisOf!implication_Zadeh,
         BasisOf!Attributes, BasisOf!Inf, BasisOf!Min, BasisOf!Range
<1>3. \A M, V : ConceptsOf!Closed("standard", "Zadeh", M, V)
                  = BasisOf!Closed("standard", "Zadeh", M, V)
  BY <1>2 DEF ConceptsOf!Closed, ConceptsOf!compute_closure, ConceptsOf!intent_f,
              ConceptsOf!extent_f, BasisOf!Closed, BasisOf!compute_closure,
              BasisOf!intent_f, BasisOf!extent_f
<1> QED BY <1>1, <1>3

\* What ConceptMiner calls reported.
ReportedIntents == {Degrees(concepts[n].intent) : n \in DOMAIN concepts}

LEMMA ReportedView == ReportedIntents = {Degrees(B) : B \in Intents}
BY DEF ReportedIntents, Intents

\* The step that lists a closed set reports it for the first time.
LEMMA ReportConcept ==
  ASSUME TypeOK, Inv, AddConcept
  PROVE  ConceptsOf!Report
<1>1. /\ pc = "loop" /\ pc' = "search" /\ Intents' = Intents \cup {A}
      /\ A = context_closure(A) /\ A \in SUBSET Attributes /\ I' = I
      /\ I \in [Objects -> SUBSET Attributes]
  BY ListStep DEF AddConcept, TypeOK
<1>2. ReportedIntents' = ReportedIntents \cup {Degrees(A)}
  <2>1. ReportedIntents' = {Degrees(B) : B \in Intents'}
    BY DEF ReportedIntents, Intents
  <2> QED BY <1>1, <2>1, ReportedView
<1>3. Degrees(A) \notin ReportedIntents
  <2> SUFFICES ASSUME NEW B \in Intents, Degrees(B) = Degrees(A) PROVE FALSE
    BY ReportedView
  <2>1. B \in SUBSET Attributes
    BY ConceptTypes DEF TypeOK
  <2>2. B = A
    BY <1>1, <2>1, BinarySets
  <2>3. LecticLess(A, A)
    BY <1>1, <2>2 DEF Inv, OrderInv
  <2> QED BY <1>1, <2>3, LecticLaws
<1>4. [r \in Objects |-> Degrees(I[r])] = Matrix
  BY DEF Matrix
<1>5. ConceptsOf!Closed("standard", "Zadeh", Matrix, Degrees(A))
  BY <1>1, BinaryMiners, ConceptDefinitions
<1>6. Degrees(A) \in ConceptsOf!AttrSets
  BY BinarySets, ConceptDefinitions
<1>7. status = "running" /\ status' = "running"
  BY <1>1 DEF status
<1>8. [r \in Objects |-> Degrees(I[r])]' = [r \in Objects |-> Degrees(I[r])]
  BY <1>1
<1> QED BY <1>2, <1>3, <1>4, <1>5, <1>6, <1>7, <1>8
        DEF ConceptsOf!Report, ReportedIntents

\* When the search is over every closed set is listed.
LEMMA FinishConcepts ==
  ASSUME TypeOK, Inv, Finish
  PROVE  ConceptsOf!Finish
<1>1. /\ UNCHANGED <<I, concepts>> /\ pc = "search" /\ pc' = "done"
      /\ I \in [Objects -> SUBSET Attributes]
  BY DEF Finish, TypeOK
<1>2. [r \in Objects |-> Degrees(I[r])] = Matrix
  BY DEF Matrix
<1>3. ASSUME NEW V \in ConceptsOf!AttrSets,
             ConceptsOf!Closed("standard", "Zadeh", Matrix, V)
      PROVE  V \in ReportedIntents
  <2>1. PICK B \in SUBSET Attributes : V = Degrees(B)
    BY BinarySets, ConceptDefinitions
  <2>2. context_closure(B) = B
    BY <1>1, <1>3, <2>1, BinaryMiners, ConceptDefinitions
  <2>3. B \in Intents
    BY <2>2, UnlistedRespect, AllListed DEF Inv
  <2> QED BY <2>1, <2>3, ReportedView
<1>4. ConceptsOf!AllReported
  BY <1>2, <1>3 DEF ConceptsOf!AllReported, ReportedIntents
<1>5. status = "running" /\ status' = "finished"
  BY <1>1 DEF status
<1> QED BY <1>1, <1>4, <1>5 DEF ConceptsOf!Finish

\* Every run is a run of ConceptMiner: the search for pseudo-closed sets finds
\* every concept of the matrix, once.
THEOREM ImplementsConcepts == Spec => ImplementsConceptMiner
<1>1. Init => ConceptsOf!Init
  <2> SUFFICES ASSUME Init PROVE ConceptsOf!Init
    OBVIOUS
  <2>1. I \in [Objects -> SUBSET Attributes] /\ status = "running"
        /\ ReportedIntents = {}
    BY BinaryAssumption DEF Init, ReportedIntents, status
  <2>2. [r \in Objects |-> Degrees(I[r])] \in ConceptsOf!Contexts
    BY <2>1, BinaryMiners, ConceptDefinitions DEF Matrix
  <2> QED BY <2>1, <2>2
      DEF ConceptsOf!Init, ConceptsOf!LogicNames, ConceptsOf!Connections, ReportedIntents
<1>2. TypeOK /\ Inv /\ [Next]_vars => [ConceptsOf!Next]_(ConceptsOf!vars)
  <2> SUFFICES ASSUME TypeOK, Inv, [Next]_vars
               PROVE  [ConceptsOf!Next]_(ConceptsOf!vars)
    OBVIOUS
  <2>1. I' = I
    BY MatrixFixed
  <2>2. CASE AddConcept
    BY <2>2, ReportConcept DEF ConceptsOf!Next
  <2>3. CASE Finish
    BY <2>3, FinishConcepts DEF ConceptsOf!Next
  <2>4. CASE Interrupt
    <3>1. concepts' = concepts /\ status = "running" /\ status' = "interrupted"
      BY <2>4 DEF Interrupt, status
    <3>2. ConceptsOf!Interrupt
      BY <2>1, <3>1 DEF ConceptsOf!Interrupt
    <3> QED BY <3>2 DEF ConceptsOf!Next
  <2>5. CASE \/ AddImplication \/ Unset \/ EnterClosure \/ Fire \/ PassOver
             \/ NextPass \/ Reject \/ Accept \/ UNCHANGED vars
    <3>1. concepts' = concepts /\ status' = status
      BY <2>5 DEF AddImplication, Unset, EnterClosure, Fire, PassOver, NextPass,
                  Reject, Accept, vars, status
    <3> QED BY <2>1, <3>1 DEF ConceptsOf!vars
  <2> QED BY <2>2, <2>3, <2>4, <2>5 DEF Next
<1> QED BY <1>1, <1>2, TypeCorrect, Invariance, PTL
        DEF Spec, ImplementsConceptMiner, ConceptsOf!Spec
=============================================================================
