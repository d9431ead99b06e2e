-------------------- MODULE NextClosureImplicationProofs --------------------
(***************************************************************************)
(* NextClosure over pseudo-closed sets is correct for every chain of       *)
(* degrees, every logic, every set of objects and every number of          *)
(* attributes: what it lists never repeats itself, and under a connection  *)
(* whose intent-of-extent is a closure operator it lists the concepts and  *)
(* a basis, the canonical one when closures are graded.                    *)
(***************************************************************************)
EXTENDS NextClosureImplications, GaloisProofs

\* The arguments never change.
LEMMA InputsFixed == Next => UNCHANGED inputs
BY DEF Next, Start, EnterSearch, Finish, Skip, EnterClosure, Fire, Reject,
       Accept, AddConcept, AddImplication, Continue, Interrupt, inputs

\* Types of the values the steps compute.
LEMMA ValueTypes ==
  ASSUME TypeOK
  PROVE  /\ EmptySet \in AttrSets
         /\ \A V \in AttrSets : /\ closure(V) \in AttrSets
                                /\ Concept(V) \in ConceptRecords
         /\ \A V, W \in AttrSets : setdifference(V, W) \in AttrSets
         /\ a_i \in Attributes => direct_sum(A, a_i, grade) \in AttrSets
<1>1. EmptySet \in AttrSets
  BY KAssumption DEF EmptySet, AttrSets, Grades
<1>2. I \in Contexts /\ logic \in LogicNames /\ connection \in Connections
  BY DEF TypeOK
<1>3. ASSUME NEW V \in AttrSets
      PROVE  /\ closure(V) \in AttrSets
             /\ Concept(V) \in ConceptRecords
  <2>1. closure(V) \in AttrSets /\ extent(V) \in ObjectSets
    BY <1>2, DerivationTypes DEF closure, extent
  <2> QED BY <2>1 DEF Concept, ConceptRecords
<1>4. a_i \in Attributes => direct_sum(A, a_i, grade) \in AttrSets
  BY KAssumption DEF TypeOK, direct_sum, AttrSets, Grades
<1>5. \A V, W \in AttrSets : setdifference(V, W) \in AttrSets
  BY KAssumption DEF setdifference, AttrSets, Grades
<1> QED BY <1>1, <1>3, <1>4, <1>5

\* The columns of the basis.
LEMMA BasisTypes ==
  ASSUME TypeOK
  PROVE  /\ Len(basis) \in Nat /\ DOMAIN basis = 1 .. Len(basis)
         /\ \A n \in DOMAIN basis : /\ basis[n] \in Implications
                                    /\ basis[n].lhs \in AttrSets
                                    /\ basis[n].rhs \in AttrSets
<1>1. basis \in Seq(Implications)
  BY DEF TypeOK
<1>2. \A n \in DOMAIN basis : basis[n] \in Implications
  BY <1>1
<1>3. \A n \in DOMAIN basis :
        basis[n].lhs \in AttrSets /\ basis[n].rhs \in AttrSets
  BY <1>2 DEF Implications
<1> QED BY <1>1, <1>2, <1>3

\* What an appended column does to the basis.
LEMMA BasisAppend ==
  ASSUME TypeOK, NEW imp \in Implications, basis' = Append(basis, imp)
  PROVE  /\ Len(basis) \in Nat
         /\ DOMAIN basis' = DOMAIN basis \cup {Len(basis) + 1}
         /\ \A n \in DOMAIN basis : basis'[n] = basis[n] /\ n < Len(basis) + 1
         /\ basis'[Len(basis) + 1] = imp
         /\ basis' \in Seq(Implications)
BY DEF TypeOK

\* The union that a round of semantic_closure makes is the least one.
LEMMA SetUnion ==
  ASSUME TypeOK, NEW V \in AttrSets, NEW S \in SUBSET DOMAIN basis
  PROVE  /\ setunion(V, S) \in AttrSets
         /\ Leq(V, setunion(V, S))
         /\ \A n \in S : Leq(basis[n].rhs, setunion(V, S))
         /\ \A B \in AttrSets :
              Leq(V, B) /\ (\A n \in S : Leq(basis[n].rhs, B))
                => Leq(setunion(V, S), B)
         /\ \A c \in Attributes :
              \/ setunion(V, S)[c] = V[c]
              \/ \E n \in S : setunion(V, S)[c] = basis[n].rhs[c]
<1> DEFINE Values(c) == {V[c]} \cup {basis[n].rhs[c] : n \in S}
           U == setunion(V, S)
<1>1. ASSUME NEW c \in Attributes
      PROVE  /\ U[c] \in Values(c) /\ Values(c) \subseteq Grades
             /\ \A x \in Values(c) : x <= U[c]
  <2>1. V[c] \in 0 .. K /\ \A n \in S : basis[n].rhs[c] \in 0 .. K
    BY BasisTypes DEF AttrSets, Grades
  <2>2. K \in Nat /\ Values(c) \in SUBSET (0 .. K) /\ Values(c) # {}
    BY <2>1, KAssumption
  <2>3. U[c] = Max(Values(c))
    BY DEF setunion
  <2> HIDE DEF Values, U
  <2> QED BY <2>2, <2>3, NatMax DEF Grades
<1>2. U \in AttrSets
  <2>1. U = [c \in Attributes |-> Max(Values(c))]
    BY DEF setunion
  <2>2. \A c \in Attributes : U[c] \in Grades
    BY <1>1
  <2> HIDE DEF Values
  <2> QED BY <2>1, <2>2 DEF AttrSets
<1>3. \A c \in Attributes : /\ V[c] <= U[c]
                            /\ \A n \in S : basis[n].rhs[c] <= U[c]
  BY <1>1
<1>4. \A c \in Attributes : U[c] = V[c] \/ \E n \in S : U[c] = basis[n].rhs[c]
  BY <1>1
<1> HIDE DEF U, Values
<1>5. Leq(V, U) /\ \A n \in S : Leq(basis[n].rhs, U)
  BY <1>3 DEF Leq
<1>6. ASSUME NEW B \in AttrSets, Leq(V, B), \A n \in S : Leq(basis[n].rhs, B)
      PROVE  Leq(U, B)
  BY <1>4, <1>6 DEF Leq
<1> QED BY <1>2, <1>4, <1>5, <1>6 DEF U

\* A step of the loops that stays at A.
LEMMA AdvanceTypes ==
  ASSUME TypeOK, pc \in {"search", "closing"}, a_i # NoAttribute, Advance
  PROVE  /\ a_i' \in Attributes \cup {NoAttribute}
         /\ grade' \in GradesSet(I) \ {0}
         /\ grade' \in Grades
<1>1. a_i \in Attributes /\ grade \in GradesSet(I) \ {0} /\ I \in Contexts
  BY DEF TypeOK
<1>2. a_i - 1 \in Attributes \cup {NoAttribute}
  BY <1>1, NAttrAssumption DEF Attributes, NoAttribute
<1> QED BY <1>1, <1>2, GradeSteps DEF Advance

-----------------------------------------------------------------------------
\* The types are inductive together with two facts about the ends of the
\* search: nothing is listed at first, and semantic_closure has an attribute.
TypeInv ==
  /\ TypeOK
  /\ pc = "start" => basis = <<>>
  /\ pc = "closing" => a_i \in Attributes

LEMMA TypeInvariance == Spec => []TypeInv
<1>1. Init => TypeInv
  <2> SUFFICES ASSUME Init PROVE TypeInv
    BY DEF TypeInv
  <2>1. EmptySet \in AttrSets /\ 0 \in Grades
    BY KAssumption DEF EmptySet, AttrSets, Grades
  <2> QED BY <2>1, InputAssumption DEF Init, TypeInv, TypeOK, NoAttribute
<1>2. TypeInv /\ [Next]_vars => TypeInv'
  <2> SUFFICES ASSUME TypeInv, [Next]_vars PROVE TypeInv'
    OBVIOUS
  <2> USE DEF TypeInv
  <2>0. CASE UNCHANGED vars
    BY <2>0 DEF TypeOK, vars, inputs, search, closing, results,
                ConceptRecords, Implications, GradesSet
  <2>i. /\ I' = I /\ logic' = logic /\ connection' = connection
        /\ GradesSet(I)' = GradesSet(I)
        /\ Representable(connection, logic)' = Representable(connection, logic)
    BY InputsFixed DEF vars, inputs
  <2> USE <2>i
  <2>s. ASSUME NEW B \in AttrSets, Save(B) PROVE concepts' \in Seq(ConceptRecords)
    BY <2>s, ValueTypes DEF Save, TypeOK
  <2>1. CASE Start
    <3> DEFINE E == closure(EmptySet)
    <3>1. E \in AttrSets /\ EmptySet \in AttrSets
      BY ValueTypes
    <3>2. A' = E /\ Save(E)
      BY <2>1 DEF Start
    <3>3. basis' \in Seq(Implications)
      <4>1. [lhs |-> EmptySet, rhs |-> A'] \in Implications
        BY <3>1, <3>2 DEF Implications
      <4>2. basis' = <<>> \/ basis' = <<[lhs |-> EmptySet, rhs |-> A']>>
        BY <2>1 DEF Start
      <4>3. ASSUME NEW imp \in Implications
            PROVE  <<>> \in Seq(Implications) /\ <<imp>> \in Seq(Implications)
        OBVIOUS
      <4> QED BY <4>1, <4>2, <4>3, Zenon
    <3>4. fired' = fired /\ fired = {}
      BY <2>1 DEF Start, closing, TypeOK
    <3> QED BY <2>1, <2>s, <3>1, <3>2, <3>3, <3>4
            DEF Start, TypeOK, search, closing, ConceptRecords
  <2>2. CASE EnterSearch
    BY <2>2, GradeSteps, NAttrAssumption
       DEF EnterSearch, TypeOK, closing, results, Attributes
  <2>3. CASE Finish
    BY <2>3 DEF Finish, TypeOK, search, closing, results
  <2>4. CASE Skip
    <3>1. candB' \in AttrSets
      BY <2>4, ValueTypes DEF Skip, TypeOK
    <3> QED BY <2>4, <3>1, AdvanceTypes DEF Skip, TypeOK, closing, results
  <2>5. CASE EnterClosure
    <3>1. candB' \in AttrSets /\ a_i \in Attributes
      BY <2>5, ValueTypes DEF EnterClosure, TypeOK
    <3> QED BY <2>5, <3>1 DEF EnterClosure, TypeOK, results
  <2>6. CASE Fire
    <3>1. candB2' \in AttrSets
      BY <2>6, SetUnion DEF Fire, is_subset, TypeOK
    <3> QED BY <2>6, <3>1 DEF Fire, TypeOK, is_subset, search, results
  <2>7. CASE Reject
    <3>1. a_i # NoAttribute
      BY <2>7, NAttrAssumption DEF Reject, Attributes, NoAttribute
    <3> QED BY <2>7, <3>1, AdvanceTypes DEF Reject, TypeOK, closing, results
  <2>8. CASE Accept
    BY <2>8 DEF Accept, TypeOK, closing, results
  <2>9. CASE AddConcept
    <3>1. candB' \in AttrSets /\ concepts' \in Seq(ConceptRecords)
      BY <2>9, <2>s, ValueTypes DEF AddConcept, TypeOK
    <3> QED BY <2>9, <3>1 DEF AddConcept, TypeOK, closing
  <2>10. CASE AddImplication
    <3> DEFINE imp == [lhs |-> A, rhs |-> setdifference(closure(A), A)]
    <3>1. candB' \in AttrSets /\ imp \in Implications
      BY <2>10, ValueTypes DEF AddImplication, TypeOK, Implications
    <3>2. basis' = Append(basis, imp)
      BY <2>10 DEF AddImplication
    <3> HIDE DEF imp
    <3>3. basis' \in Seq(Implications) /\ DOMAIN basis \subseteq DOMAIN basis'
      BY <3>1, <3>2, BasisAppend
    <3> QED BY <2>10, <3>1, <3>3 DEF AddImplication, TypeOK, closing
  <2>11. CASE Continue
    BY <2>11 DEF Continue, TypeOK, search, closing, results
  <2>12. CASE Interrupt
    BY <2>12 DEF Interrupt, TypeOK, search, closing, results
  <2> QED BY <2>0, <2>1, <2>2, <2>3, <2>4, <2>5, <2>6, <2>7, <2>8, <2>9, <2>10,
             <2>11, <2>12 DEF Next
<1> QED BY <1>1, <1>2, PTL DEF Spec

\* Type correctness, for every connection.  semantic_closure only looks at
\* implications of the basis, and only degrees of the context are tried.
THEOREM TypeCorrect == Spec => []TypeOK
BY TypeInvariance, PTL DEF TypeInv

-----------------------------------------------------------------------------
\* The part of the invariant that holds under every connection.

\* When no implication is left to fire, the set respects all of them: those
\* that were fired have their conclusion in it.
LEMMA ClosedUnderBasis ==
  ASSUME TypeInv, ClosingInv, pc = "closing", is_subset(candB2) = {}
  PROVE  Model(candB2)
<1> SUFFICES ASSUME NEW n \in DOMAIN basis, Leq(basis[n].lhs, candB2)
             PROVE  Leq(basis[n].rhs, candB2)
  BY DEF Model, Basis, Respects
<1>1. n \in fired
  BY DEF is_subset
<1> QED BY <1>1 DEF ClosingInv

\* The steps that touch neither A nor the basis.
LEMMA BasisKept ==
  ASSUME BasisInv, UNCHANGED <<inputs, A, basis>>,
         pc \notin {"start", "classify"}, pc' \notin {"start", "classify"}
  PROVE  BasisInv'
BY DEF BasisInv, closure, inputs, Respects

LEMMA StartBasis ==
  ASSUME TypeInv, Start
  PROVE  BasisInv'
<1> DEFINE E == closure(EmptySet)
           imp == [lhs |-> EmptySet, rhs |-> E]
<1>1. /\ EmptySet \in AttrSets /\ E \in AttrSets
      /\ \A c \in Attributes : EmptySet[c] = 0 /\ E[c] \in Nat
  BY ValueTypes, KAssumption DEF TypeInv, EmptySet, AttrSets, Grades
<1>2. /\ A' = E /\ pc' = "loop"
      /\ I' = I /\ logic' = logic /\ connection' = connection
  BY DEF Start, inputs
<1>3. basis' = IF NonEmpty(E) THEN <<imp>> ELSE <<>>
  BY <1>2 DEF Start
<1>4. setdifference(E, EmptySet) = E
  <2> HIDE DEF E
  <2> QED BY <1>1 DEF setdifference, AttrSets
<1>5. LecticLess(EmptySet, E) \/ EmptySet = E
  <2> HIDE DEF E
  <2>1. Leq(EmptySet, E)
    BY <1>1 DEF Leq
  <2> QED BY <1>1, <2>1, LecticOrderLaws
<1>6. closure(EmptySet)' = E
  BY <1>2 DEF closure
<1>7. CASE ~NonEmpty(E)
  <2>1. DOMAIN basis' = {}
    BY <1>3, <1>7
  <2> QED BY <1>2, <2>1 DEF BasisInv
<1>8. CASE NonEmpty(E)
  <2>1. DOMAIN basis' = {1} /\ basis'[1].lhs = EmptySet /\ basis'[1].rhs = E
    <3> HIDE DEF E
    <3> QED BY <1>3, <1>8
  <2> HIDE DEF E
  <2>2. \A n \in DOMAIN basis' :
          /\ basis'[n].rhs = setdifference(closure(basis[n].lhs), basis[n].lhs)'
          /\ NonEmpty(basis'[n].rhs)
          /\ LecticLess(basis'[n].lhs, A') \/ basis'[n].lhs = A'
    BY <1>2, <1>4, <1>5, <1>6, <1>8, <2>1 DEF setdifference, closure
  <2>3. \A m, n \in DOMAIN basis' : ~(m < n)
    BY <2>1
  <2> QED BY <1>2, <2>2, <2>3 DEF BasisInv
<1> QED BY <1>7, <1>8

LEMMA AcceptBasis ==
  ASSUME TypeInv, BasisInv, ClosingInv, Accept
  PROVE  BasisInv'
<1>1. /\ A' = candB2 /\ basis' = basis /\ pc' = "classify" /\ pc = "closing"
      /\ I' = I /\ logic' = logic /\ connection' = connection
      /\ is_set_preceding(A, candB2, a_i, grade)
  BY DEF Accept, inputs, results
<1>2. /\ candB2 \in AttrSets /\ A \in AttrSets /\ a_i \in Attributes
      /\ \A n \in DOMAIN basis : basis[n].lhs \in AttrSets
  BY <1>1, BasisTypes DEF TypeInv, TypeOK
<1>3. LecticLess(A, candB2)
  BY <1>1, <1>2, PassedBy
<1>4. Model(candB2)
  BY <1>1, ClosedUnderBasis DEF Accept
<1>5. \A n \in DOMAIN basis : LecticLess(basis[n].lhs, candB2)
  BY <1>1, <1>2, <1>3, LecticOrderLaws DEF BasisInv
<1> QED BY <1>1, <1>4, <1>5 DEF BasisInv, Model, Basis, Respects, closure

LEMMA AddImplicationBasis ==
  ASSUME TypeInv, BasisInv, AddImplication
  PROVE  BasisInv'
<1> DEFINE imp == [lhs |-> A, rhs |-> setdifference(closure(A), A)]
           last == Len(basis) + 1
<1>1. /\ A' = A /\ pc' = "check" /\ pc = "classify"
      /\ I' = I /\ logic' = logic /\ connection' = connection
      /\ basis' = Append(basis, imp) /\ NonEmpty(imp.rhs)
  BY DEF AddImplication, inputs
<1>2. imp \in Implications /\ A \in AttrSets
  BY ValueTypes DEF TypeInv, TypeOK, Implications
<1>3. imp.lhs = A /\ imp.rhs = setdifference(closure(A), A)
  OBVIOUS
<1> HIDE DEF imp
<1>4. /\ Len(basis) \in Nat
      /\ DOMAIN basis' = DOMAIN basis \cup {last}
      /\ \A n \in DOMAIN basis : basis'[n] = basis[n] /\ n < last /\ n \in Nat
      /\ basis'[last] = imp
  BY <1>1, <1>2, BasisAppend, BasisTypes DEF TypeInv
<1> HIDE DEF last
<1>5. ASSUME NEW n \in DOMAIN basis'
      PROVE  /\ basis'[n].rhs = setdifference(closure(basis'[n].lhs), basis'[n].lhs)
             /\ NonEmpty(basis'[n].rhs)
             /\ LecticLess(basis'[n].lhs, A) \/ basis'[n].lhs = A
  <2>1. CASE n = last
    BY <1>1, <1>3, <1>4, <2>1
  <2>2. CASE n \in DOMAIN basis
    BY <1>4, <2>2 DEF BasisInv
  <2> QED BY <1>4, <2>1, <2>2
<1>6. last \in Nat
  BY <1>4 DEF last
<1>7. ASSUME NEW m \in DOMAIN basis', NEW n \in DOMAIN basis', m < n
      PROVE  /\ LecticLess(basis'[m].lhs, basis'[n].lhs)
             /\ Respects(basis'[n].lhs, basis'[m])
  <2>1. CASE n = last
    <3>1. m \in DOMAIN basis
      BY <1>4, <1>6, <1>7, <2>1
    <3>2. LecticLess(basis[m].lhs, A) /\ Respects(A, basis[m])
      BY <1>1, <3>1 DEF BasisInv, Model, Basis
    <3> QED BY <1>3, <1>4, <2>1, <3>1, <3>2
  <2>2. CASE n \in DOMAIN basis
    <3>1. m \in DOMAIN basis
      BY <1>4, <1>6, <1>7, <2>2
    <3> QED BY <1>4, <1>7, <2>2, <3>1 DEF BasisInv
  <2> QED BY <1>4, <2>1, <2>2
<1> QED BY <1>1, <1>5, <1>7 DEF BasisInv, closure, Respects, setdifference

LEMMA FireClosing ==
  ASSUME TypeInv, ClosingInv, Fire
  PROVE  ClosingInv'
<1> DEFINE S == is_subset(candB2)
           U == setunion(candB2, S)
<1>1. /\ pc = "closing" /\ candB2' = U /\ fired' = fired \cup S
      /\ UNCHANGED <<pc, A, candB, a_i, grade, basis>>
  BY DEF Fire, search, results
<1>2. S \in SUBSET DOMAIN basis /\ \A n \in S : Leq(basis[n].lhs, candB2)
  BY DEF is_subset
<1>3. candB2 \in AttrSets /\ candB \in AttrSets /\ fired \subseteq DOMAIN basis
      /\ \A n \in DOMAIN basis : /\ basis[n].lhs \in AttrSets
                                 /\ basis[n].rhs \in AttrSets
  BY BasisTypes DEF TypeInv, TypeOK
<1> HIDE DEF S
<1>4. /\ U \in AttrSets /\ Leq(candB2, U) /\ \A n \in S : Leq(basis[n].rhs, U)
      /\ \A B \in AttrSets :
           Leq(candB2, B) /\ (\A n \in S : Leq(basis[n].rhs, B)) => Leq(U, B)
  BY <1>2, <1>3, SetUnion DEF TypeInv
<1> HIDE DEF U
<1>5. Leq(candB, U) /\ \A n \in fired : Leq(basis[n].rhs, U)
  <2>1. Leq(candB, candB2) /\ \A n \in fired : Leq(basis[n].rhs, candB2)
    BY <1>1 DEF ClosingInv
  <2> QED BY <1>3, <1>4, <2>1, LeqOrder
<1>6. ASSUME NEW B \in AttrSets, Leq(candB, B), Model(B) PROVE Leq(U, B)
  <2>1. Leq(candB2, B)
    BY <1>1, <1>6 DEF ClosingInv
  <2>2. ASSUME NEW n \in S PROVE Leq(basis[n].rhs, B)
    <3>1. Leq(basis[n].lhs, B)
      BY <1>2, <1>3, <2>1, LeqOrder
    <3> QED BY <1>2, <1>6, <3>1 DEF Model, Basis, Respects
  <2> QED BY <1>4, <2>1, <2>2
<1>7. \A B \in AttrSets : Model(B)' <=> Model(B)
  BY <1>1 DEF Model, Basis, Respects
<1> QED BY <1>1, <1>4, <1>5, <1>6, <1>7 DEF ClosingInv

LEMMA EnterClosureClosing ==
  ASSUME TypeInv, EnterClosure
  PROVE  ClosingInv'
<1>1. /\ can_add(A, a_i, grade) /\ candB' = direct_sum(A, a_i, grade)
      /\ candB2' = candB' /\ fired' = {} /\ a_i \in Attributes
      /\ UNCHANGED <<A, a_i, grade, basis>>
  BY DEF EnterClosure, TypeInv, TypeOK, results
<1>2. candB' \in AttrSets
  BY <1>1, ValueTypes DEF TypeInv
<1>3. Leq(candB', candB')
  BY <1>2, KAssumption DEF Leq, AttrSets, Grades
<1> QED BY <1>1, <1>3 DEF ClosingInv

LEMMA BasisInvariance == Spec => [](BasisInv /\ ClosingInv)
<1>1. Init => BasisInv /\ ClosingInv
  BY DEF Init, BasisInv, ClosingInv
<1>2. TypeInv /\ BasisInv /\ ClosingInv /\ [Next]_vars
        => BasisInv' /\ ClosingInv'
  <2> SUFFICES ASSUME TypeInv, BasisInv, ClosingInv, [Next]_vars
               PROVE  BasisInv' /\ ClosingInv'
    OBVIOUS
  <2>i. UNCHANGED inputs
    BY InputsFixed DEF vars
  <2>0. CASE UNCHANGED vars
    BY <2>0 DEF vars, inputs, search, closing, results, BasisInv, ClosingInv,
                Model, Basis, Respects, closure
  <2>1. CASE Start
    BY <2>1, StartBasis DEF Start, ClosingInv
  <2>2. CASE EnterSearch \/ Finish \/ Skip \/ Reject \/ Continue \/ Interrupt
    <3>1. /\ UNCHANGED <<A, basis>> /\ pc' # "closing"
          /\ pc \notin {"start", "classify"} /\ pc' \notin {"start", "classify"}
      BY <2>2 DEF EnterSearch, Finish, Skip, Reject, Continue, Interrupt, results
    <3> QED BY <2>i, <3>1, BasisKept DEF ClosingInv
  <2>3. CASE EnterClosure
    <3>1. UNCHANGED <<A, basis>> /\ pc = "search" /\ pc' = "closing"
      BY <2>3 DEF EnterClosure, results
    <3> QED BY <2>i, <2>3, <3>1, BasisKept, EnterClosureClosing
  <2>4. CASE Fire
    <3>1. UNCHANGED <<A, basis>> /\ pc = "closing" /\ pc' = "closing"
      BY <2>4 DEF Fire, results
    <3> QED BY <2>i, <2>4, <3>1, BasisKept, FireClosing
  <2>5. CASE Accept
    BY <2>5, AcceptBasis DEF Accept, ClosingInv
  <2>6. CASE AddConcept
    BY <2>6, <2>i DEF AddConcept, BasisInv, ClosingInv, inputs, closure, Respects
  <2>7. CASE AddImplication
    BY <2>7, AddImplicationBasis DEF AddImplication, ClosingInv
  <2> QED BY <2>0, <2>1, <2>2, <2>3, <2>4, <2>5, <2>6, <2>7 DEF Next
<1> QED BY <1>1, <1>2, TypeInvariance, PTL DEF Spec

-----------------------------------------------------------------------------
\* semantic_closure looks at no implication twice, and still its result
\* respects all of them: under every connection.
THEOREM ClosureRespects == Spec => []ClosureRespectsBasis
<1>1. TypeInv /\ ClosingInv => ClosureRespectsBasis
  BY ClosedUnderBasis DEF ClosureRespectsBasis
<1> QED BY <1>1, TypeInvariance, BasisInvariance, PTL

\* No implication of the basis follows from the others, under every connection
\* and at every moment: its premise respects all but itself.
THEOREM BasisNonRedundant == Spec => []NonRedundant
<1>1. TypeInv /\ BasisInv => NonRedundant
  <2> SUFFICES ASSUME TypeInv, BasisInv, NEW n \in DOMAIN basis
               PROVE  \E B \in AttrSets :
                        /\ ~Respects(B, basis[n])
                        /\ \A m \in DOMAIN basis \ {n} : Respects(B, basis[m])
    BY DEF NonRedundant
  <2> DEFINE B == basis[n].lhs
             C == closure(B)
             D == basis[n].rhs
  <2>1. /\ B \in AttrSets /\ C \in AttrSets /\ n \in Nat
        /\ \A m \in DOMAIN basis : basis[m].lhs \in AttrSets /\ m \in Nat
    BY BasisTypes, ValueTypes DEF TypeInv
  <2>2. D = setdifference(C, B) /\ NonEmpty(D)
    BY DEF BasisInv
  <2> HIDE DEF B, C, D
  <2>3. ~Leq(D, B) /\ Leq(B, B)
    <3>1. \A c \in Attributes : B[c] \in Nat /\ C[c] \in Nat
      BY <2>1, KAssumption DEF AttrSets, Grades
    <3>2. PICK c \in Attributes : D[c] > 0
      BY <2>2 DEF NonEmpty
    <3>3. D[c] = IF C[c] > B[c] THEN C[c] ELSE 0
      BY <2>2 DEF setdifference
    <3> QED BY <3>1, <3>2, <3>3 DEF Leq
  <2>4. ASSUME NEW m \in DOMAIN basis \ {n} PROVE Respects(B, basis[m])
    <3>1. CASE m < n
      BY <3>1 DEF BasisInv, B
    <3>2. CASE n < m
      <4>1. LecticLess(B, basis[m].lhs) /\ basis[m].lhs \in AttrSets
        BY <2>1, <3>2 DEF BasisInv, B
      <4>2. ~Leq(basis[m].lhs, B)
        <5>1. basis[m].lhs # B
          BY <2>1, <4>1, LecticOrderLaws
        <5>2. ~LecticLess(basis[m].lhs, B)
          BY <2>1, <4>1, LecticOrderLaws
        <5> QED BY <2>1, <4>1, <5>1, <5>2, LecticOrderLaws
      <4> QED BY <4>2 DEF Respects
    <3> QED BY <2>1, <3>1, <3>2
  <2> QED BY <2>1, <2>3, <2>4 DEF Respects, B, D
<1> QED BY <1>1, TypeInvariance, BasisInvariance, PTL

-----------------------------------------------------------------------------
\* What find_implications and find_concepts promise.

\* The definitions that the abstract specifications take from module Galois
\* are those of this module.
LEMMA BasisDefinitions ==
  /\ BasisOf!Contexts = Contexts
  /\ BasisOf!LogicNames = LogicNames
  /\ BasisOf!Connections = Connections
  /\ BasisOf!AttrSets = AttrSets
  /\ \A cn, nm, M, V : BasisOf!Closed(cn, nm, M, V) = Closed(cn, nm, M, V)
  /\ \A M, V : BasisOf!Graded(M, V) = Graded(M, V)
  /\ \A V : BasisOf!compute_closure(connection, logic, I, V) = closure(V)
  /\ \A V, W : BasisOf!Leq(V, W) = Leq(V, W)
<1>1. /\ BasisOf!Contexts = Contexts
      /\ BasisOf!LogicNames = LogicNames
      /\ BasisOf!Connections = Connections
      /\ BasisOf!AttrSets = AttrSets
  BY DEF BasisOf!Contexts, BasisOf!LogicNames, BasisOf!Connections, BasisOf!AttrSets,
         BasisOf!Attributes, BasisOf!Grades, Contexts, LogicNames, Connections,
         AttrSets, Attributes, Grades
<1>2. \A M, V : BasisOf!Graded(M, V) = Graded(M, V)
  BY DEF BasisOf!Graded, BasisOf!GradesSet, BasisOf!Attributes, BasisOf!Grades,
         Graded, GradesSet, Attributes, Grades
<1>3. \A nm, M, V :
        /\ BasisOf!compute_intent(nm, M, V) = compute_intent(nm, M, V)
        /\ BasisOf!compute_extent(nm, M, V) = compute_extent(nm, M, V)
  BY DEF BasisOf!compute_intent, BasisOf!compute_extent,
         BasisOf!implication, BasisOf!implication_Zadeh, BasisOf!implication_Godel,
         BasisOf!implication_Lukasiewicz, BasisOf!implication_Product,
         BasisOf!Attributes, BasisOf!Inf, BasisOf!Min, BasisOf!Range,
         compute_intent, compute_extent,
         implication, implication_Zadeh, implication_Godel,
         implication_Lukasiewicz, implication_Product,
         Attributes, Inf, Min, Range
<1>4. \A nm, M, V :
        /\ BasisOf!compute_upright_arrow(nm, M, V)
             = compute_upright_arrow(nm, M, V)
        /\ BasisOf!compute_downright_arrow(nm, M, V)
             = compute_downright_arrow(nm, M, V)
  BY DEF BasisOf!compute_upright_arrow, BasisOf!compute_downright_arrow,
         BasisOf!tnorm, BasisOf!tnorm_Godel, BasisOf!tnorm_Lukasiewicz,
         BasisOf!Attributes, BasisOf!Sup, BasisOf!Max, BasisOf!Range,
         compute_upright_arrow, compute_downright_arrow,
         tnorm, tnorm_Godel, tnorm_Lukasiewicz,
         Attributes, Sup, Max, Range
<1>5. \A nm, M, V :
        /\ BasisOf!compute_downleft_arrow(nm, M, V)
             = compute_downleft_arrow(nm, M, V)
        /\ BasisOf!compute_upleft_arrow(nm, M, V)
             = compute_upleft_arrow(nm, M, V)
  BY DEF BasisOf!compute_downleft_arrow, BasisOf!compute_upleft_arrow,
         BasisOf!implication, BasisOf!implication_Zadeh, BasisOf!implication_Godel,
         BasisOf!implication_Lukasiewicz, BasisOf!implication_Product,
         BasisOf!Attributes, BasisOf!Inf, BasisOf!Min, BasisOf!Range,
         compute_downleft_arrow, compute_upleft_arrow,
         implication, implication_Zadeh, implication_Godel,
         implication_Lukasiewicz, implication_Product,
         Attributes, Inf, Min, Range
<1>6. \A cn, nm, M, V : /\ BasisOf!intent_f(cn, nm, M, V) = intent_f(cn, nm, M, V)
                        /\ BasisOf!extent_f(cn, nm, M, V) = extent_f(cn, nm, M, V)
  BY <1>3, <1>4, <1>5 DEF BasisOf!intent_f, BasisOf!extent_f, intent_f, extent_f
<1>7. \A cn, nm, M, V : BasisOf!Closed(cn, nm, M, V) = Closed(cn, nm, M, V)
  BY <1>6 DEF BasisOf!Closed, Closed, BasisOf!compute_closure, compute_closure
<1>8. \A V : BasisOf!compute_closure(connection, logic, I, V) = closure(V)
  BY <1>6 DEF BasisOf!compute_closure, compute_closure, closure
<1>9. \A V, W : BasisOf!Leq(V, W) = Leq(V, W)
  BY DEF BasisOf!Leq, BasisOf!Attributes, Leq, Attributes
<1> QED BY <1>1, <1>2, <1>7, <1>8, <1>9

LEMMA ConceptDefinitions ==
  /\ ConceptsOf!Contexts = Contexts
  /\ ConceptsOf!LogicNames = LogicNames
  /\ ConceptsOf!Connections = Connections
  /\ ConceptsOf!AttrSets = AttrSets
  /\ \A cn, nm, M, V : ConceptsOf!Closed(cn, nm, M, V) = Closed(cn, nm, M, V)
  /\ \A M, V : ConceptsOf!Graded(M, V) = Graded(M, V)
<1>1. /\ ConceptsOf!Contexts = Contexts
      /\ ConceptsOf!LogicNames = LogicNames
      /\ ConceptsOf!Connections = Connections
      /\ ConceptsOf!AttrSets = AttrSets
  BY DEF ConceptsOf!Contexts, ConceptsOf!LogicNames, ConceptsOf!Connections, ConceptsOf!AttrSets,
         ConceptsOf!Attributes, ConceptsOf!Grades, Contexts, LogicNames, Connections,
         AttrSets, Attributes, Grades
<1>2. \A M, V : ConceptsOf!Graded(M, V) = Graded(M, V)
  BY DEF ConceptsOf!Graded, ConceptsOf!GradesSet, ConceptsOf!Attributes, ConceptsOf!Grades,
         Graded, GradesSet, Attributes, Grades
<1>3. \A nm, M, V :
        /\ ConceptsOf!compute_intent(nm, M, V) = compute_intent(nm, M, V)
        /\ ConceptsOf!compute_extent(nm, M, V) = compute_extent(nm, M, V)
  BY DEF ConceptsOf!compute_intent, ConceptsOf!compute_extent,
         ConceptsOf!implication, ConceptsOf!implication_Zadeh, ConceptsOf!implication_Godel,
         ConceptsOf!implication_Lukasiewicz, ConceptsOf!implication_Product,
         ConceptsOf!Attributes, ConceptsOf!Inf, ConceptsOf!Min, ConceptsOf!Range,
         compute_intent, compute_extent,
         implication, implication_Zadeh, implication_Godel,
         implication_Lukasiewicz, implication_Product,
         Attributes, Inf, Min, Range
<1>4. \A nm, M, V :
        /\ ConceptsOf!compute_upright_arrow(nm, M, V)
             = compute_upright_arrow(nm, M, V)
        /\ ConceptsOf!compute_downright_arrow(nm, M, V)
             = compute_downright_arrow(nm, M, V)
  BY DEF ConceptsOf!compute_upright_arrow, ConceptsOf!compute_downright_arrow,
         ConceptsOf!tnorm, ConceptsOf!tnorm_Godel, ConceptsOf!tnorm_Lukasiewicz,
         ConceptsOf!Attributes, ConceptsOf!Sup, ConceptsOf!Max, ConceptsOf!Range,
         compute_upright_arrow, compute_downright_arrow,
         tnorm, tnorm_Godel, tnorm_Lukasiewicz,
         Attributes, Sup, Max, Range
<1>5. \A nm, M, V :
        /\ ConceptsOf!compute_downleft_arrow(nm, M, V)
             = compute_downleft_arrow(nm, M, V)
        /\ ConceptsOf!compute_upleft_arrow(nm, M, V)
             = compute_upleft_arrow(nm, M, V)
  BY DEF ConceptsOf!compute_downleft_arrow, ConceptsOf!compute_upleft_arrow,
         ConceptsOf!implication, ConceptsOf!implication_Zadeh, ConceptsOf!implication_Godel,
         ConceptsOf!implication_Lukasiewicz, ConceptsOf!implication_Product,
         ConceptsOf!Attributes, ConceptsOf!Inf, ConceptsOf!Min, ConceptsOf!Range,
         compute_downleft_arrow, compute_upleft_arrow,
         implication, implication_Zadeh, implication_Godel,
         implication_Lukasiewicz, implication_Product,
         Attributes, Inf, Min, Range
<1>6. \A cn, nm, M, V : /\ ConceptsOf!intent_f(cn, nm, M, V) = intent_f(cn, nm, M, V)
                        /\ ConceptsOf!extent_f(cn, nm, M, V) = extent_f(cn, nm, M, V)
  BY <1>3, <1>4, <1>5 DEF ConceptsOf!intent_f, ConceptsOf!extent_f, intent_f, extent_f
<1>7. \A cn, nm, M, V : ConceptsOf!Closed(cn, nm, M, V) = Closed(cn, nm, M, V)
  BY <1>6 DEF ConceptsOf!Closed, Closed, ConceptsOf!compute_closure, compute_closure
<1> QED BY <1>1, <1>2, <1>7

\* The recursive definition of the pseudo-closed sets has a solution, so that
\* it says of them what it seems to say.
LEMMA PseudoClosedLaw ==
  /\ BasisOf!PseudoClosed \subseteq AttrSets
  /\ \A B \in AttrSets :
       B \in BasisOf!PseudoClosed <=>
         /\ Graded(I, B)
         /\ closure(B) # B
         /\ \A Q \in BasisOf!PseudoClosed :
              Leq(Q, B) /\ Q # B => Leq(closure(Q), B)
<1> DEFINE Open == {B \in AttrSets : Graded(I, B) /\ closure(B) # B}
           Ok == {p \in AttrSets \X AttrSets : Leq(closure(p[1]), p[2])}
           closureOf == [B \in BasisOf!AttrSets |->
                           BasisOf!compute_closure(connection, logic, I, B)]
           Rule(B, f) ==
             /\ BasisOf!Graded(I, B)
             /\ closureOf[B] # B
             /\ \A Q \in BasisOf!AttrSets :
                  BasisOf!Leq(Q, B) /\ Q # B /\ BasisOf!Graded(I, Q)
                      /\ closureOf[Q] # Q /\ f[Q]
                    => BasisOf!Leq(closureOf[Q], B)
           pseudo == CHOOSE f : f = [B \in BasisOf!AttrSets |-> Rule(B, f)]
<1>1. PICK P \in SUBSET AttrSets :
        IsRecursive(P, AttrSets, StrictlyBelow, Open, Ok)
  <2> HIDE DEF Open, Ok
  <2> QED BY StrictlyBelowWellFounded, RecursiveSet
<1>2. \A B \in AttrSets :
        B \in P <=> /\ Graded(I, B) /\ closure(B) # B
                   /\ \A Q \in P : Leq(Q, B) /\ Q # B => Leq(closure(Q), B)
  BY <1>1 DEF IsRecursive, StrictlyBelow
<1>3. ASSUME NEW B \in AttrSets, NEW f
      PROVE  Rule(B, f) <=>
               /\ Graded(I, B) /\ closure(B) # B
               /\ \A Q \in AttrSets :
                    Leq(Q, B) /\ Q # B /\ Graded(I, Q) /\ closure(Q) # Q /\ f[Q]
                      => Leq(closure(Q), B)
  <2>1. \A Q \in AttrSets : closureOf[Q] = closure(Q)
    BY BasisDefinitions
  <2> HIDE DEF closureOf
  <2> QED BY <2>1, BasisDefinitions
<1>4. BasisOf!PseudoClosed = {B \in AttrSets : pseudo[B]}
  BY BasisDefinitions DEF BasisOf!PseudoClosed
<1>5. \E f : f = [B \in BasisOf!AttrSets |-> Rule(B, f)]
  <2> HIDE DEF Rule
  <2> DEFINE f == [B \in AttrSets |-> B \in P]
  <2>1. ASSUME NEW B \in AttrSets PROVE B \in P <=> Rule(B, f)
    <3>1. \A Q \in AttrSets : f[Q] <=> Q \in P
      OBVIOUS
    <3>2. \A Q \in P : Graded(I, Q) /\ closure(Q) # Q
      BY <1>2
    <3> HIDE DEF f
    <3>3. Rule(B, f) <=>
            /\ Graded(I, B) /\ closure(B) # B
            /\ \A Q \in P : Leq(Q, B) /\ Q # B => Leq(closure(Q), B)
      BY <1>3, <3>1, <3>2
    <3> QED BY <1>2, <3>3
  <2>2. ASSUME NEW B \in AttrSets PROVE (B \in P) = Rule(B, f)
    <3>1. (B \in P) \in BOOLEAN /\ Rule(B, f) \in BOOLEAN
      <4>1. (B \in P) \in BOOLEAN
        OBVIOUS
      <4> HIDE DEF f, closureOf
      <4>2. Rule(B, f) \in BOOLEAN
        BY DEF Rule
      <4> QED BY <4>1, <4>2
    <3>2. \A p, q \in BOOLEAN : (p <=> q) => p = q
      OBVIOUS
    <3>3. B \in P <=> Rule(B, f)
      BY <2>1
    <3> HIDE DEF f
    <3> QED BY <3>1, <3>2, <3>3, Zenon
  <2>3. f = [B \in BasisOf!AttrSets |-> Rule(B, f)]
    BY <2>2, BasisDefinitions
  <2> QED BY <2>3
<1>6. pseudo = [B \in BasisOf!AttrSets |-> Rule(B, pseudo)]
  <2> HIDE DEF Rule
  <2> QED BY <1>5
<1> HIDE DEF pseudo, Rule
<1>7. ASSUME NEW B \in AttrSets
      PROVE  pseudo[B] <=>
        /\ Graded(I, B) /\ closure(B) # B
        /\ \A Q \in AttrSets : Leq(Q, B) /\ Q # B /\ pseudo[Q] => Leq(closure(Q), B)
  <2>1. \A Q \in AttrSets : pseudo[Q] = Rule(Q, pseudo)
    BY <1>6, BasisDefinitions
  <2>2. \A Q \in AttrSets : pseudo[Q] => Graded(I, Q) /\ closure(Q) # Q
    BY <1>3, <2>1
  <2> QED BY <1>3, <2>1, <2>2
<1> QED BY <1>4, <1>7

\* Both are the same in the next state, as the arguments are.
LEMMA PromisesFixed ==
  ASSUME UNCHANGED inputs
  PROVE  /\ BasisOf!SelfGraded' = BasisOf!SelfGraded
         /\ BasisOf!PseudoClosed' = BasisOf!PseudoClosed
         /\ \A V : /\ closure(V)' = closure(V)
                  /\ Graded(I, V)' = Graded(I, V)
                  /\ Closed(connection, logic, I, V)' = Closed(connection, logic, I, V)
<1>1. I' = I /\ logic' = logic /\ connection' = connection
  BY DEF inputs
<1> QED BY <1>1 DEF BasisOf!SelfGraded, BasisOf!PseudoClosed, closure

-----------------------------------------------------------------------------
\* What holds of the sets of a run under a closure connection.

\* The closure operator of the run, as the facts of ClosureOperator.
LEMMA RunClosure ==
  ASSUME TypeOK, ClosureConnection
  PROVE  \A V \in AttrSets :
           /\ closure(V) \in AttrSets
           /\ Leq(V, closure(V))
           /\ closure(closure(V)) = closure(V)
           /\ Closed(connection, logic, I, V) <=> closure(V) = V
           /\ \A W \in AttrSets : Leq(V, W) => Leq(closure(V), closure(W))
<1>1. /\ I \in Contexts /\ logic \in LogicNames
      /\ connection \in {"standard", "benevolent2"}
      /\ Representable(connection, logic)
  BY DEF TypeOK, ClosureConnection
<1> QED BY <1>1, ClosureOperator DEF closure, Closed

\* A difference is what is missing.
LEMMA Difference ==
  ASSUME NEW V \in AttrSets, NEW W \in AttrSets
  PROVE  /\ Leq(setdifference(V, W), V)
         /\ NonEmpty(setdifference(V, W)) <=> ~Leq(V, W)
         /\ ~Leq(V, W) => ~Leq(setdifference(V, W), W)
         /\ \A B \in AttrSets :
              Leq(W, B) /\ Leq(setdifference(V, W), B) => Leq(V, B)
<1>1. \A c \in Attributes :
        /\ V[c] \in Nat /\ W[c] \in Nat
        /\ setdifference(V, W)[c] = IF V[c] > W[c] THEN V[c] ELSE 0
  BY KAssumption DEF AttrSets, Grades, setdifference
<1>2. ASSUME NEW B \in AttrSets, Leq(W, B), Leq(setdifference(V, W), B)
      PROVE  Leq(V, B)
  <2>1. \A c \in Attributes : B[c] \in Nat
    BY KAssumption DEF AttrSets, Grades
  <2> QED BY <1>1, <1>2, <2>1 DEF Leq
<1> QED BY <1>1, <1>2 DEF Leq, NonEmpty

\* What an implication of the basis adds is what the context adds.
LEMMA ColumnLaws ==
  ASSUME TypeOK, BasisInv, ClosureConnection, NEW n \in DOMAIN basis
  PROVE  /\ basis[n].lhs \in AttrSets
         /\ basis[n].rhs \in AttrSets
         /\ Leq(basis[n].rhs, closure(basis[n].lhs))
         /\ ~Leq(closure(basis[n].lhs), basis[n].lhs)
         /\ \A B \in AttrSets : Leq(closure(basis[n].lhs), B) => Leq(basis[n].rhs, B)
         /\ \A B \in AttrSets :
              Leq(basis[n].lhs, B) /\ Leq(basis[n].rhs, B)
                => Leq(closure(basis[n].lhs), B)
<1> DEFINE L == basis[n].lhs
           R == basis[n].rhs
           C == closure(L)
<1>1. L \in AttrSets /\ R \in AttrSets /\ C \in AttrSets
  BY BasisTypes, RunClosure
<1>2. R = setdifference(C, L) /\ NonEmpty(R)
  BY DEF BasisInv
<1> HIDE DEF L, R, C
<1>3. Leq(R, C) /\ ~Leq(C, L)
      /\ \A B \in AttrSets : Leq(L, B) /\ Leq(R, B) => Leq(C, B)
  BY <1>1, <1>2, Difference
<1>4. \A B \in AttrSets : Leq(C, B) => Leq(R, B)
  BY <1>1, <1>3, LeqOrder
<1> QED BY <1>1, <1>3, <1>4 DEF L, R, C

\* The basis is sound: the intents of the context respect it.
LEMMA ClosedRespect ==
  ASSUME TypeOK, BasisInv, ClosureConnection,
         NEW B \in AttrSets, Closed(connection, logic, I, B)
  PROVE  Model(B)
<1> SUFFICES ASSUME NEW n \in DOMAIN basis, Leq(basis[n].lhs, B)
             PROVE  Leq(basis[n].rhs, B)
  BY DEF Model, Basis, Respects
<1>1. Leq(closure(basis[n].lhs), closure(B)) /\ closure(B) = B
  BY ColumnLaws, RunClosure
<1> QED BY <1>1, ColumnLaws

\* A pseudo-closed set that is not a premise yet respects the basis.
LEMMA PseudoClosedRespect ==
  ASSUME TypeOK, BasisInv, CanonicalInv, ClosureConnection, BasisOf!SelfGraded,
         NEW Q \in BasisOf!PseudoClosed, \A n \in DOMAIN basis : basis[n].lhs # Q
  PROVE  Model(Q)
<1> SUFFICES ASSUME NEW n \in DOMAIN basis, Leq(basis[n].lhs, Q)
             PROVE  Leq(basis[n].rhs, Q)
  BY DEF Model, Basis, Respects
<1>1. Q \in AttrSets /\ basis[n].lhs \in BasisOf!PseudoClosed
  BY PseudoClosedLaw DEF CanonicalInv
<1>2. Leq(closure(basis[n].lhs), Q)
  BY <1>1, PseudoClosedLaw
<1> QED BY <1>1, <1>2, ColumnLaws

\* When closures are graded, the columns of the basis are.
LEMMA ColumnsGraded ==
  ASSUME TypeOK, BasisInv, CanonicalInv, BasisOf!SelfGraded,
         NEW n \in DOMAIN basis
  PROVE  Graded(I, basis[n].lhs) /\ Graded(I, basis[n].rhs)
<1> DEFINE L == basis[n].lhs
           C == closure(L)
<1>1. /\ L \in AttrSets /\ L \in BasisOf!PseudoClosed
      /\ basis[n].rhs = setdifference(C, L)
  BY BasisTypes DEF BasisInv, CanonicalInv
<1> HIDE DEF L
<1>2. Graded(I, L)
  BY <1>1, PseudoClosedLaw
<1>3. Graded(I, C)
  BY <1>1, <1>2, BasisDefinitions DEF BasisOf!SelfGraded
<1> HIDE DEF C
<1>4. 0 \in GradesSet(I)
  BY GradeSteps DEF TypeOK
<1> QED BY <1>1, <1>2, <1>3, <1>4 DEF Graded, setdifference, L

-----------------------------------------------------------------------------
\* The invariant under a closure connection, one step per action.

\* If a graded set departs from A at the pair under test and respects the
\* basis, the try is accepted and finds nothing above it.
LEMMA TryBelow ==
  ASSUME TypeInv, pc = "closing", ClosingInv,
         NEW B \in AttrSets, Model(B), LecticAt(A, B, a_i), B[a_i] = grade
  PROVE  Leq(candB2, B) /\ is_set_preceding(A, candB2, a_i, grade)
<1>1. /\ A \in AttrSets /\ candB2 \in AttrSets /\ a_i \in Attributes
      /\ candB = direct_sum(A, a_i, grade) /\ Leq(candB, candB2)
  BY DEF TypeInv, TypeOK, ClosingInv
<1>2. Leq(candB, B)
  BY <1>1, SumBelow
<1>3. Leq(candB2, B)
  BY <1>2 DEF ClosingInv
<1> QED BY <1>1, <1>3, SumBelow

LEMMA StartSearch ==
  ASSUME TypeInv, BasisInv, ClosureConnection, Start
  PROVE  ConceptInv' /\ SearchInv' /\ CanonicalInv'
<1> DEFINE E == closure(EmptySet)
<1>0. UNCHANGED inputs
  BY DEF Start
<1>1. /\ A' = E /\ pc' = "loop" /\ concepts = <<>> /\ Save(E)
      /\ basis' = IF NonEmpty(E) THEN <<[lhs |-> EmptySet, rhs |-> E]>> ELSE <<>>
  BY DEF Start, BasisInv
<1>2. EmptySet \in AttrSets /\ E \in AttrSets /\ closure(E) = E
  BY ValueTypes, RunClosure DEF TypeInv
<1>3. Closed(connection, logic, I, E)
  BY <1>2, RunClosure DEF TypeInv
<1> HIDE DEF E
<1>4. \A c \in Attributes : EmptySet[c] = 0 /\ E[c] \in Nat
  BY <1>2, KAssumption DEF EmptySet, AttrSets, Grades
<1>5. Intents' = {E} \/ (~save_concepts /\ Intents' = {})
  <2>1. concepts' = <<Concept(E)>> \/ (~save_concepts /\ concepts' = <<>>)
    BY <1>1 DEF Save
  <2>2. Concept(E).intent = E
    BY DEF Concept
  <2>3. CASE concepts' = <<Concept(E)>>
    <3>1. DOMAIN concepts' = {1} /\ concepts'[1] = Concept(E)
      BY <2>3
    <3> QED BY <2>2, <3>1 DEF Intents
  <2>4. CASE ~save_concepts /\ concepts' = <<>>
    BY <2>4 DEF Intents
  <2> QED BY <2>1, <2>3, <2>4
<1>6. ASSUME NEW B \in AttrSets, Model(B)' PROVE Leq(E, B)
  <2>1. \A c \in Attributes : B[c] \in Nat
    BY KAssumption DEF AttrSets, Grades
  <2>2. CASE NonEmpty(E)
    <3>1. 1 \in DOMAIN basis' /\ basis'[1].lhs = EmptySet /\ basis'[1].rhs = E
      BY <1>1, <2>2
    <3>2. Respects(B, basis'[1])
      BY <1>6, <3>1 DEF Model, Basis, Respects
    <3> QED BY <1>4, <2>1, <3>1, <3>2 DEF Respects, Leq
  <2>3. CASE ~NonEmpty(E)
    BY <1>4, <2>1, <2>3 DEF NonEmpty, Leq
  <2> QED BY <2>2, <2>3
<1>7. ConceptInv'
  BY <1>0, <1>1, <1>3, <1>5, PromisesFixed DEF ConceptInv
<1>8. SearchInv'
  <2> SUFFICES ASSUME NEW B \in AttrSets, Model(B)'
               PROVE  Handled(B)' \/ LecticLess(E, B)
    BY <1>1 DEF SearchInv
  <2>1. B = E \/ LecticLess(E, B)
    BY <1>2, <1>6, LecticOrderLaws
  <2> QED BY <1>0, <1>3, <1>5, <2>1, PromisesFixed DEF Handled
<1>9. ASSUME BasisOf!SelfGraded
      PROVE  /\ Graded(I, E)
             /\ \A n \in DOMAIN basis' : basis'[n].lhs \in BasisOf!PseudoClosed
  <2>1. Graded(I, EmptySet)
    BY GradeSteps DEF Graded, EmptySet, TypeInv, TypeOK
  <2>2. Graded(I, E)
    BY <1>2, <1>9, <2>1, BasisDefinitions DEF BasisOf!SelfGraded, E
  <2>3. ASSUME NonEmpty(E) PROVE EmptySet \in BasisOf!PseudoClosed
    <3>1. closure(EmptySet) # EmptySet
      BY <1>4, <2>3 DEF NonEmpty, E
    <3>2. ASSUME NEW Q \in BasisOf!PseudoClosed, Leq(Q, EmptySet) PROVE Q = EmptySet
      <4>1. Q \in AttrSets
        BY PseudoClosedLaw
      <4>2. Leq(EmptySet, Q)
        BY <1>4, <4>1, KAssumption DEF Leq, AttrSets, Grades
      <4> QED BY <1>2, <3>2, <4>1, <4>2, LeqOrder
    <3> QED BY <1>2, <2>1, <3>1, <3>2, PseudoClosedLaw
  <2>4. \A n \in DOMAIN basis' : NonEmpty(E) /\ basis'[n].lhs = EmptySet
    BY <1>1
  <2> QED BY <2>2, <2>3, <2>4
<1>10. CanonicalInv'
  BY <1>0, <1>1, <1>9, PromisesFixed DEF CanonicalInv
<1> QED BY <1>7, <1>8, <1>10

\* Steps that leave A and what is listed alone keep what is known of the lists.
LEMMA ListsKept ==
  ASSUME UNCHANGED <<inputs, A, results>>, pc \notin {"start", "classify"},
         pc' \notin {"start", "classify"}, ConceptInv, SearchInv
  PROVE  /\ ConceptInv'
         /\ \A B \in AttrSets : Graded(I, B)' /\ Model(B)' =>
              Handled(B)' \/ LecticLess(A', B)
         /\ \A B : Model(B)' = Model(B)
<1>1. A' = A /\ Intents' = Intents /\ \A B : Model(B)' = Model(B)
  BY DEF results, Intents, Model, Basis, Respects
<1>2. \A B : Handled(B)' = Handled(B)
  BY <1>1, PromisesFixed DEF Handled
<1> QED BY <1>1, <1>2, PromisesFixed DEF ConceptInv, SearchInv

LEMMA EnterSearchSearch ==
  ASSUME TypeInv, ConceptInv, SearchInv, EnterSearch
  PROVE  ConceptInv' /\ SearchInv'
<1>1. /\ UNCHANGED <<inputs, A, results>> /\ pc = "loop" /\ pc' = "search"
      /\ BelowFull(A) /\ a_i' = NAttr - 1 /\ grade' = FirstGrade(I)
  BY DEF EnterSearch
<1>2. /\ ConceptInv'
      /\ \A B \in AttrSets : Graded(I, B)' /\ Model(B)' =>
           Handled(B)' \/ LecticLess(A', B)
  BY <1>1, ListsKept
<1>3. ASSUME NEW B \in AttrSets, NEW d \in Attributes, Graded(I, B),
             LecticAt(A, B, d)
      PROVE  d < a_i' \/ (d = a_i' /\ grade' <= B[d])
  <2>1. /\ I \in Contexts /\ A[d] \in Nat /\ A[d] < B[d] /\ B[d] \in GradesSet(I)
        /\ B[d] \in Nat
    BY <1>3, KAssumption DEF TypeInv, TypeOK, AttrSets, Grades, LecticAt, Graded
  <2>2. grade' <= B[d]
    BY <1>1, <2>1, GradeSteps
  <2> QED BY <1>1, <2>2, NAttrAssumption DEF Attributes
<1> QED BY <1>1, <1>2, <1>3, PromisesFixed DEF SearchInv

LEMMA PassOnSearch ==
  ASSUME TypeInv, ClosingInv, ConceptInv, SearchInv, Skip \/ Reject
  PROVE  ConceptInv' /\ SearchInv'
<1>1. /\ UNCHANGED <<inputs, A, results>> /\ pc \in {"search", "closing"}
      /\ pc' = "search" /\ Advance /\ a_i \in Attributes
  BY DEF Skip, Reject, TypeInv, TypeOK
<1>2. /\ ConceptInv'
      /\ \A B \in AttrSets : Graded(I, B)' /\ Model(B)' =>
           Handled(B)' \/ LecticLess(A', B)
      /\ \A B : Model(B)' = Model(B)
  BY <1>1, ListsKept
<1>3. ASSUME NEW B \in AttrSets, Model(B), LecticAt(A, B, a_i), B[a_i] = grade
      PROVE  FALSE
  <2>1. CASE Skip
    BY <1>3, <2>1 DEF Skip, can_add, LecticAt
  <2>2. CASE Reject
    BY <1>3, <2>2, TryBelow DEF Reject
  <2> QED BY <2>1, <2>2
<1>4. ASSUME NEW B \in AttrSets, NEW d \in Attributes, Graded(I, B), Model(B),
             LecticAt(A, B, d)
      PROVE  d < a_i' \/ (d = a_i' /\ grade' <= B[d])
  <2>1. /\ I \in Contexts /\ A \in AttrSets /\ grade \in GradesSet(I) \ {0}
    BY <1>1 DEF TypeInv, TypeOK
  <2>2. d < a_i \/ (d = a_i /\ grade <= B[d])
    BY <1>1, <1>4 DEF SearchInv
  <2>3. ~(d = a_i /\ B[d] = grade)
    BY <1>3, <1>4
  <2> QED BY <1>1, <1>4, <2>1, <2>2, <2>3, AdvanceLeaves DEF Advance
<1> QED BY <1>1, <1>2, <1>4, PromisesFixed DEF SearchInv

LEMMA AcceptSearch ==
  ASSUME TypeInv, ClosingInv, ConceptInv, SearchInv, Accept
  PROVE  ConceptInv' /\ SearchInv'
<1>1. /\ UNCHANGED <<inputs, results>> /\ A' = candB2 /\ pc = "closing"
      /\ pc' = "classify" /\ is_set_preceding(A, candB2, a_i, grade)
  BY DEF Accept
<1>2. candB2 \in AttrSets /\ A \in AttrSets /\ a_i \in Attributes
      /\ grade \in Nat /\ a_i \in Int
  BY <1>1, KAssumption, NAttrAssumption DEF TypeInv, TypeOK, Grades, Attributes
<1>3. /\ LecticLess(A, candB2)
      /\ \A B \in AttrSets, d \in Attributes :
           LecticAt(A, B, d) /\ (d < a_i \/ (d = a_i /\ grade < B[d]))
             => LecticLess(candB2, B)
  BY <1>1, <1>2, PassedBy
<1>4. /\ Intents' = Intents
      /\ \A B : Model(B)' = Model(B) /\ Handled(B)' = Handled(B)
  BY <1>1, PromisesFixed DEF results, Intents, Model, Basis, Respects, Handled
<1>5. \A B \in Intents : B \in AttrSets
  <2>1. \A n \in DOMAIN concepts : concepts[n] \in ConceptRecords
    BY DEF TypeInv, TypeOK
  <2> QED BY <2>1 DEF Intents, ConceptRecords
<1>6. \A B \in Intents : LecticLess(B, candB2)
  BY <1>1, <1>2, <1>3, <1>5, LecticOrderLaws DEF ConceptInv
<1>7. ConceptInv'
  BY <1>1, <1>4, <1>6, PromisesFixed DEF ConceptInv
<1>8. ASSUME NEW B \in AttrSets, Graded(I, B), Model(B), LecticLess(A, B)
      PROVE  B = candB2 \/ LecticLess(candB2, B)
  <2>1. PICK d \in Attributes : LecticAt(A, B, d)
    BY <1>8 DEF LecticLess
  <2>2. d < a_i \/ (d = a_i /\ grade <= B[d])
    BY <1>1, <1>8, <2>1 DEF SearchInv
  <2>3. CASE d = a_i /\ B[d] = grade
    <3>1. Leq(candB2, B)
      BY <1>1, <1>8, <2>1, <2>3, TryBelow
    <3> QED BY <1>2, <3>1, LecticOrderLaws
  <2>4. B[d] \in Nat
    BY KAssumption DEF AttrSets, Grades
  <2>5. CASE d < a_i \/ (d = a_i /\ grade < B[d])
    BY <1>3, <2>1, <2>5
  <2> QED BY <1>2, <2>2, <2>3, <2>4, <2>5
<1>9. SearchInv'
  <2> SUFFICES ASSUME NEW B \in AttrSets, Graded(I, B), Model(B)
               PROVE  Handled(B) \/ LecticLess(candB2, B) \/ B = candB2
    BY <1>1, <1>4, PromisesFixed DEF SearchInv
  <2>1. Handled(B) \/ LecticLess(A, B)
    BY <1>1 DEF SearchInv
  <2> QED BY <1>8, <2>1
<1> QED BY <1>7, <1>9

LEMMA AddConceptSearch ==
  ASSUME TypeInv, ClosureConnection, ConceptInv, SearchInv, AddConcept
  PROVE  ConceptInv' /\ SearchInv'
<1>1. /\ UNCHANGED <<inputs, A, basis>> /\ pc = "classify" /\ pc' = "check"
      /\ Save(A) /\ ~NonEmpty(setdifference(closure(A), A))
  BY DEF AddConcept
<1>2. A \in AttrSets /\ closure(A) \in AttrSets /\ concepts \in Seq(ConceptRecords)
  BY ValueTypes DEF TypeInv, TypeOK
<1>3. Closed(connection, logic, I, A)
  <2>1. Leq(closure(A), A) /\ Leq(A, closure(A))
    BY <1>1, <1>2, Difference, RunClosure DEF TypeInv
  <2> QED BY <1>2, <2>1, LeqOrder, RunClosure DEF TypeInv
<1>4. Intents' = Intents \cup (IF save_concepts THEN {A} ELSE {})
  <2>1. CASE save_concepts
    <3>1. concepts' = Append(concepts, Concept(A)) /\ Concept(A).intent = A
      BY <1>1, <2>1 DEF Save, Concept
    <3>2. /\ DOMAIN concepts' = DOMAIN concepts \cup {Len(concepts) + 1}
          /\ \A n \in DOMAIN concepts : concepts'[n] = concepts[n]
          /\ concepts'[Len(concepts) + 1] = Concept(A)
      BY <1>2, <3>1
    <3> QED BY <2>1, <3>1, <3>2 DEF Intents
  <2>2. CASE ~save_concepts
    BY <1>1, <2>2 DEF Save, Intents
  <2> QED BY <2>1, <2>2
<1>5. ConceptInv'
  BY <1>1, <1>3, <1>4, PromisesFixed DEF ConceptInv
<1>6. \A B : Model(B)' = Model(B)
  BY <1>1 DEF Model, Basis, Respects
<1>7. SearchInv'
  BY <1>1, <1>3, <1>4, <1>6, PromisesFixed DEF SearchInv, Handled
<1> QED BY <1>5, <1>7

LEMMA AddImplicationSearch ==
  ASSUME TypeInv, ClosureConnection, ConceptInv, SearchInv, AddImplication
  PROVE  ConceptInv' /\ SearchInv'
<1> DEFINE imp == [lhs |-> A, rhs |-> setdifference(closure(A), A)]
<1>1. /\ UNCHANGED <<inputs, A, concepts>> /\ pc = "classify" /\ pc' = "check"
      /\ basis' = Append(basis, imp) /\ NonEmpty(imp.rhs)
  BY DEF AddImplication
<1>2. A \in AttrSets /\ closure(A) \in AttrSets /\ imp \in Implications
  BY ValueTypes DEF TypeInv, TypeOK, Implications
<1>3. ~Respects(A, imp)
  <2>1. ~Leq(imp.rhs, A) /\ Leq(A, A)
    BY <1>1, <1>2, Difference, LecticOrderLaws, KAssumption
       DEF Leq, AttrSets, Grades
  <2> QED BY <2>1 DEF Respects
<1> HIDE DEF imp
<1>4. \A B : Model(B)' => Model(B) /\ Respects(B, imp)
  <2>1. /\ DOMAIN basis' = DOMAIN basis \cup {Len(basis) + 1}
        /\ \A n \in DOMAIN basis : basis'[n] = basis[n]
        /\ basis'[Len(basis) + 1] = imp
    BY <1>1, <1>2, BasisAppend DEF TypeInv
  <2>2. Basis' = Basis \cup {imp}
    BY <2>1 DEF Basis
  <2> QED BY <2>2 DEF Model, Respects
<1>5. Intents' = Intents
  BY <1>1 DEF Intents
<1>6. ConceptInv'
  BY <1>1, <1>5, PromisesFixed DEF ConceptInv
<1>7. SearchInv'
  BY <1>1, <1>3, <1>4, <1>5, PromisesFixed DEF SearchInv, Handled
<1> QED BY <1>6, <1>7

\* The premise that is listed is pseudo-closed: the smaller ones are listed
\* already, as they would respect the basis otherwise and come before it.
LEMMA AddImplicationCanonical ==
  ASSUME TypeInv, ClosureConnection, BasisInv, SearchInv, CanonicalInv,
         AddImplication
  PROVE  CanonicalInv'
<1> DEFINE imp == [lhs |-> A, rhs |-> setdifference(closure(A), A)]
<1>1. /\ UNCHANGED <<inputs, A>> /\ pc = "classify" /\ pc' = "check"
      /\ basis' = Append(basis, imp) /\ NonEmpty(setdifference(closure(A), A))
  BY DEF AddImplication
<1>2. /\ A \in AttrSets /\ closure(A) \in AttrSets /\ imp \in Implications
      /\ imp.lhs = A
  BY ValueTypes DEF TypeInv, TypeOK, Implications
<1> HIDE DEF imp
<1>3. ASSUME BasisOf!SelfGraded PROVE A \in BasisOf!PseudoClosed
  <2>1. Graded(I, A) /\ Model(A)
    BY <1>1, <1>3 DEF CanonicalInv, BasisInv
  <2>2. closure(A) # A
    <3>1. ~Leq(closure(A), A) /\ Leq(A, closure(A))
      BY <1>1, <1>2, Difference, RunClosure DEF TypeInv
    <3> QED BY <3>1
  <2>3. ASSUME NEW Q \in BasisOf!PseudoClosed, Leq(Q, A), Q # A
        PROVE  Leq(closure(Q), A)
    <3>1. Q \in AttrSets /\ Graded(I, Q) /\ closure(Q) # Q
      BY PseudoClosedLaw
    <3>2. LecticLess(Q, A) /\ ~LecticLess(A, Q)
      BY <1>2, <2>3, <3>1, LecticOrderLaws
    <3>3. ~Model(Q)
      BY <1>1, <2>3, <3>1, <3>2, RunClosure DEF SearchInv, Handled, TypeInv
    <3>4. PICK n \in DOMAIN basis : basis[n].lhs = Q
      BY <1>3, <3>3, PseudoClosedRespect DEF TypeInv
    <3>5. Leq(basis[n].rhs, A)
      BY <2>1, <2>3, <3>4 DEF Model, Basis, Respects
    <3> QED BY <1>2, <2>3, <3>4, <3>5, ColumnLaws DEF TypeInv
  <2> QED BY <1>2, <2>1, <2>2, <2>3, PseudoClosedLaw
<1>4. /\ DOMAIN basis' = DOMAIN basis \cup {Len(basis) + 1}
      /\ \A n \in DOMAIN basis : basis'[n] = basis[n]
      /\ basis'[Len(basis) + 1] = imp
  BY <1>1, <1>2, BasisAppend DEF TypeInv
<1> QED BY <1>1, <1>2, <1>3, <1>4, PromisesFixed DEF CanonicalInv

\* The candidates of the search are graded when closures are.
LEMMA CandidatesGraded ==
  ASSUME TypeInv, BasisInv, CanonicalInv, EnterClosure \/ Fire \/ Accept
  PROVE  CanonicalInv'
<1>1. UNCHANGED <<inputs, basis>>
  BY DEF EnterClosure, Fire, Accept, results
<1> SUFFICES ASSUME BasisOf!SelfGraded
             PROVE  /\ Graded(I, A')
                    /\ pc' = "closing" => Graded(I, candB2')
  BY <1>1, PromisesFixed DEF CanonicalInv
<1>2. Graded(I, A) /\ 0 \in GradesSet(I)
  BY GradeSteps DEF CanonicalInv, TypeInv, TypeOK
<1>3. CASE EnterClosure
  <2>1. A' = A /\ candB2' = direct_sum(A, a_i, grade) /\ grade \in GradesSet(I)
    BY <1>3 DEF EnterClosure, TypeInv, TypeOK
  <2> QED BY <1>2, <2>1 DEF direct_sum, Graded
<1>4. CASE Fire
  <2> DEFINE S == is_subset(candB2)
             U == setunion(candB2, S)
  <2>1. A' = A /\ candB2' = U /\ Graded(I, candB2)
    BY <1>4 DEF Fire, CanonicalInv
  <2>2. S \in SUBSET DOMAIN basis /\ candB2 \in AttrSets
    BY DEF is_subset, TypeInv, TypeOK
  <2>3. \A c \in Attributes :
          U[c] = candB2[c] \/ \E n \in S : U[c] = basis[n].rhs[c]
    <3> HIDE DEF S
    <3> QED BY <2>2, SetUnion DEF TypeInv
  <2>4. \A n \in S : Graded(I, basis[n].rhs)
    BY <2>2, ColumnsGraded DEF TypeInv
  <2> HIDE DEF S, U
  <2> QED BY <1>2, <2>1, <2>3, <2>4 DEF Graded
<1>5. CASE Accept
  BY <1>5 DEF Accept, CanonicalInv
<1> QED BY <1>3, <1>4, <1>5

\* The steps that leave A, the lists and the candidate alone.
LEMMA MoveOnInv ==
  ASSUME ConceptInv, SearchInv, Finish \/ Continue \/ Interrupt
  PROVE  ConceptInv' /\ SearchInv'
<1>1. /\ UNCHANGED <<inputs, A, results>> /\ pc \notin {"start", "classify"}
      /\ pc' \in {"loop", "done", "interrupted"}
  BY DEF Finish, Continue, Interrupt
<1> QED BY <1>1, ListsKept DEF SearchInv

LEMMA ClosingSearch ==
  ASSUME ConceptInv, SearchInv, EnterClosure \/ Fire
  PROVE  ConceptInv' /\ SearchInv'
<1>1. /\ UNCHANGED <<inputs, A, results, a_i, grade>> /\ pc \in {"search", "closing"}
      /\ pc' = "closing"
  BY DEF EnterClosure, Fire, search
<1> QED BY <1>1, ListsKept, PromisesFixed DEF SearchInv

\* The strengthening is an invariant, for every connection.
THEOREM Invariance == Spec => []Inv
<1>1. Init => Inv
  <2> SUFFICES ASSUME Init PROVE Inv
    OBVIOUS
  <2>1. BasisInv /\ ClosingInv
    BY DEF Init, BasisInv, ClosingInv
  <2>2. ConceptInv /\ SearchInv
    BY DEF Init, ConceptInv, SearchInv, Intents
  <2>3. CanonicalInv
    BY GradeSteps, InputAssumption DEF Init, CanonicalInv, Graded, EmptySet
  <2> QED BY <2>1, <2>2, <2>3 DEF Inv
<1>2. /\ TypeInv /\ BasisInv /\ ClosingInv
      /\ ClosureConnection => ConceptInv /\ SearchInv /\ CanonicalInv
      /\ [Next]_vars
      => (ClosureConnection => ConceptInv /\ SearchInv /\ CanonicalInv)'
  <2> SUFFICES ASSUME TypeInv, BasisInv, ClosingInv, [Next]_vars,
                      ClosureConnection => ConceptInv /\ SearchInv /\ CanonicalInv,
                      ClosureConnection'
               PROVE  ConceptInv' /\ SearchInv' /\ CanonicalInv'
    OBVIOUS
  <2>1. UNCHANGED inputs
    BY InputsFixed DEF vars
  <2>2. ClosureConnection /\ ConceptInv /\ SearchInv /\ CanonicalInv
    BY <2>1 DEF ClosureConnection, inputs
  <2>3. CASE UNCHANGED vars
    <3>1. UNCHANGED <<inputs, pc, A, a_i, grade, candB2, basis, concepts>>
      BY <2>3 DEF vars, search, closing, results
    <3>2. Intents' = Intents /\ \A B : Model(B)' = Model(B)
      BY <3>1 DEF Intents, Model, Basis, Respects
    <3> QED BY <2>2, <3>1, <3>2, PromisesFixed
            DEF ConceptInv, SearchInv, CanonicalInv, Handled
  <2>4. CASE Start
    BY <2>2, <2>4, StartSearch
  <2>5. CASE EnterSearch \/ Skip \/ Reject \/ Finish \/ Continue \/ Interrupt
    <3>1. ConceptInv' /\ SearchInv'
      BY <2>2, <2>5, EnterSearchSearch, PassOnSearch, MoveOnInv
    <3>2. UNCHANGED <<A, basis>> /\ pc' # "closing"
      BY <2>5 DEF EnterSearch, Skip, Reject, Finish, Continue, Interrupt, results
    <3>3. CanonicalInv'
      BY <2>1, <2>2, <3>2, PromisesFixed DEF CanonicalInv
    <3> QED BY <3>1, <3>3
  <2>6. CASE EnterClosure \/ Fire
    BY <2>2, <2>6, ClosingSearch, CandidatesGraded
  <2>7. CASE Accept
    BY <2>2, <2>7, AcceptSearch, CandidatesGraded
  <2>8. CASE AddConcept
    <3>1. UNCHANGED <<A, basis>> /\ pc' # "closing"
      BY <2>8 DEF AddConcept
    <3>2. CanonicalInv'
      BY <2>1, <2>2, <3>1, PromisesFixed DEF CanonicalInv
    <3> QED BY <2>2, <2>8, <3>2, AddConceptSearch
  <2>9. CASE AddImplication
    BY <2>2, <2>9, AddImplicationSearch, AddImplicationCanonical
  <2> QED BY <2>3, <2>4, <2>5, <2>6, <2>7, <2>8, <2>9 DEF Next
<1>3. Init => (ClosureConnection => ConceptInv /\ SearchInv /\ CanonicalInv)
  BY <1>1 DEF Inv
<1>4. Spec => [](ClosureConnection => ConceptInv /\ SearchInv /\ CanonicalInv)
  BY <1>2, <1>3, TypeInvariance, BasisInvariance, PTL DEF Spec
<1> QED BY <1>4, BasisInvariance, PTL DEF Inv

-----------------------------------------------------------------------------
\* The algorithm implements what find_implications and find_concepts promise.

\* The connection is one of those the run was given.
LEMMA GivenConnection == Spec => [](connection \in InitConnections)
<1>1. Init => connection \in InitConnections
  BY DEF Init
<1>2. connection \in InitConnections /\ [Next]_vars
        => (connection \in InitConnections)'
  BY InputsFixed DEF vars, inputs
<1> QED BY <1>1, <1>2, PTL DEF Spec

\* The step that adds a column to the basis reports an implication that is
\* new, holds and, when closures are graded, is canonical.
LEMMA ReportImplication ==
  ASSUME TypeInv, TypeInv', Inv, Inv', ClosureConnection,
         (Start /\ NonEmpty(A')) \/ AddImplication
  PROVE  BasisOf!Report
<1> DEFINE L == IF pc = "start" THEN EmptySet ELSE A
           imp == basis'[Len(basis')]
<1>1. /\ UNCHANGED inputs /\ status = "running" /\ status' = "running"
      /\ basis = <<>> \/ pc # "start"
  BY DEF Start, AddImplication, status, TypeInv
<1>2. /\ Len(basis') \in DOMAIN basis' /\ imp.lhs = L /\ imp \in Implications
      /\ Basis' = Basis \cup {imp}
      /\ \A n \in DOMAIN basis : n \in DOMAIN basis' /\ basis'[n] = basis[n]
                                 /\ n < Len(basis') /\ n \in DOMAIN basis'
  <2>1. CASE Start
    <3>1. basis = <<>> /\ basis' = <<[lhs |-> EmptySet, rhs |-> A']>>
      BY <2>1 DEF Start, TypeInv, AddImplication
    <3>2. EmptySet \in AttrSets /\ A' \in AttrSets
      BY ValueTypes DEF TypeInv, TypeOK
    <3>3. DOMAIN basis' = {1} /\ Len(basis') = 1 /\ DOMAIN basis = {}
          /\ imp = [lhs |-> EmptySet, rhs |-> A'] /\ pc = "start"
      BY <2>1, <3>1 DEF Start
    <3> QED BY <3>2, <3>3 DEF Basis, Implications
  <2>2. CASE AddImplication
    <3> DEFINE new == [lhs |-> A, rhs |-> setdifference(closure(A), A)]
    <3>1. basis' = Append(basis, new) /\ pc # "start"
      BY <2>2 DEF AddImplication
    <3>2. new \in Implications /\ new.lhs = A
      BY ValueTypes DEF TypeInv, TypeOK, Implications
    <3> HIDE DEF new
    <3>3. /\ Len(basis) \in Nat
          /\ DOMAIN basis' = DOMAIN basis \cup {Len(basis) + 1}
          /\ \A n \in DOMAIN basis : basis'[n] = basis[n] /\ n < Len(basis) + 1
          /\ basis'[Len(basis) + 1] = new /\ Len(basis') = Len(basis) + 1
      BY <3>1, <3>2, BasisAppend DEF TypeInv, TypeOK
    <3> QED BY <3>1, <3>2, <3>3 DEF Basis
  <2> QED BY <2>1, <2>2
<1> HIDE DEF imp, L
<1>3. imp \notin Basis
  <2> SUFFICES ASSUME NEW n \in DOMAIN basis, basis[n] = imp PROVE FALSE
    BY DEF Basis
  <2>1. LecticLess(basis'[n].lhs, basis'[Len(basis')].lhs)
    BY <1>2 DEF Inv, BasisInv
  <2>2. imp.lhs \in AttrSets
    BY <1>2 DEF Implications
  <2> QED BY <1>2, <2>1, <2>2, LecticOrderLaws DEF imp
<1>4. imp.rhs = setdifference(closure(L), L) /\ L \in AttrSets
      /\ imp = [lhs |-> L, rhs |-> imp.rhs]
  <2>1. imp.rhs = setdifference(closure(L), L)
    BY <1>1, <1>2, PromisesFixed DEF Inv, BasisInv, imp, setdifference
  <2> QED BY <1>2, <2>1 DEF Implications
<1>5. CASE BasisOf!SelfGraded
  <2>1. L \in BasisOf!PseudoClosed
    BY <1>1, <1>2, <1>5, PromisesFixed
       DEF Inv, CanonicalInv, imp, ClosureConnection, inputs
  <2>2. BasisOf!CanonicalImplication(L) = imp
    BY <1>4, BasisDefinitions
       DEF BasisOf!CanonicalImplication, setdifference, BasisOf!Attributes, Attributes
  <2>3. imp \in BasisOf!CanonicalBasis
    BY <2>1, <2>2 DEF BasisOf!CanonicalBasis
  <2> QED BY <1>1, <1>2, <1>3, <1>5, <2>3 DEF BasisOf!Report, inputs
<1>6. CASE ~BasisOf!SelfGraded
  <2>1. ASSUME NEW B \in AttrSets, Closed(connection, logic, I, B), Leq(L, B)
        PROVE  Leq(imp.rhs, B)
    <3>1. Leq(closure(L), B) /\ closure(L) \in AttrSets
      BY <1>4, <2>1, RunClosure DEF TypeInv
    <3>2. Leq(imp.rhs, closure(L)) /\ imp.rhs \in AttrSets
      BY <1>2, <1>4, <3>1, Difference DEF Implications
    <3> QED BY <3>1, <3>2, LeqOrder
  <2>2. BasisOf!Holds(imp)
    BY <1>2, <2>1, BasisDefinitions DEF BasisOf!Holds, BasisOf!Respects
  <2> QED BY <1>1, <1>2, <1>3, <1>6, <2>2 DEF BasisOf!Report, inputs
<1> QED BY <1>5, <1>6

\* When the loop ends every pseudo-closed set is a premise, and every graded
\* set that respects the basis is closed.
LEMMA FinishBasis ==
  ASSUME TypeInv, Inv, ClosureConnection, Finish
  PROVE  BasisOf!Finish
<1>1. /\ UNCHANGED <<inputs, results>> /\ pc = "loop" /\ pc' = "done"
      /\ ~BelowFull(A) /\ A \in AttrSets
  BY DEF Finish, TypeInv, TypeOK
<1>2. \A B \in AttrSets : ~LecticLess(A, B)
  BY <1>1, KAssumption DEF LecticLess, LecticAt, BelowFull, AttrSets, Grades
<1>3. \A B \in AttrSets : Graded(I, B) /\ Model(B) => Closed(connection, logic, I, B)
  BY <1>1, <1>2 DEF Inv, SearchInv, Handled
<1>4. CASE BasisOf!SelfGraded
  <2>1. ASSUME NEW n \in DOMAIN basis
        PROVE  basis[n] = BasisOf!CanonicalImplication(basis[n].lhs)
    <3>1. basis[n] = [lhs |-> basis[n].lhs, rhs |-> basis[n].rhs]
      BY BasisTypes DEF TypeInv, Implications
    <3>2. basis[n].rhs = setdifference(closure(basis[n].lhs), basis[n].lhs)
      BY DEF Inv, BasisInv
    <3> QED BY <3>1, <3>2, BasisDefinitions
        DEF BasisOf!CanonicalImplication, setdifference, BasisOf!Attributes, Attributes
  <2>2. \A n \in DOMAIN basis : basis[n].lhs \in BasisOf!PseudoClosed
    BY <1>4 DEF Inv, CanonicalInv
  <2>3. ASSUME NEW Q \in BasisOf!PseudoClosed
        PROVE  \E n \in DOMAIN basis : basis[n].lhs = Q
    <3>1. Q \in AttrSets /\ Graded(I, Q) /\ closure(Q) # Q
      BY PseudoClosedLaw
    <3>2. ~Model(Q)
      BY <1>3, <3>1, RunClosure DEF TypeInv
    <3> QED BY <1>4, <3>2, PseudoClosedRespect DEF Inv, TypeInv
  <2>4. Basis = BasisOf!CanonicalBasis
    BY <2>1, <2>2, <2>3 DEF Basis, BasisOf!CanonicalBasis
  <2>5. Basis' = Basis
    BY <1>1 DEF Basis, results
  <2> QED BY <1>1, <1>4, <2>4, <2>5 DEF BasisOf!Finish, status, inputs
<1>5. CASE ~BasisOf!SelfGraded
  <2>1. \A B \in AttrSets :
          (\A imp \in Basis : BasisOf!Respects(B, imp)) => Model(B)
    BY BasisDefinitions DEF BasisOf!Respects, Model, Respects
  <2>2. BasisOf!Complete
    BY <1>3, <2>1, BasisDefinitions DEF BasisOf!Complete
  <2>3. Basis' = Basis
    BY <1>1 DEF Basis, results
  <2> QED BY <1>1, <1>5, <2>2, <2>3 DEF BasisOf!Finish, status, inputs
<1> QED BY <1>4, <1>5

\* Every run is a run of ImplicationMiner: it reports implications that hold,
\* none twice, and when it finishes they entail all that hold; with graded
\* closures they are the canonical basis.
THEOREM ImplementsImplications ==
  ASSUME InitConnections \subseteq {"standard", "benevolent2"}
  PROVE  Spec => ImplementsImplicationMiner
<1>1. Init => BasisOf!Init
  <2> SUFFICES ASSUME Init PROVE BasisOf!Init
    OBVIOUS
  <2>1. Basis = {} /\ status = "running"
    BY DEF Init, Basis, status
  <2> QED BY <2>1, InputAssumption, BasisDefinitions DEF Init, BasisOf!Init
<1>2. /\ TypeInv /\ TypeInv' /\ Inv /\ Inv' /\ connection \in InitConnections
      /\ [Next]_vars
      => [BasisOf!Next]_(BasisOf!vars)
  <2> SUFFICES ASSUME TypeInv, TypeInv', Inv, Inv', ClosureConnection, [Next]_vars
               PROVE  [BasisOf!Next]_(BasisOf!vars)
    BY DEF ClosureConnection
  <2>1. UNCHANGED inputs
    BY InputsFixed DEF vars
  <2>2. CASE UNCHANGED vars
    BY <2>1, <2>2 DEF vars, results, inputs, BasisOf!vars, Basis, status
  <2>3. CASE (Start /\ NonEmpty(A')) \/ AddImplication
    BY <2>3, ReportImplication DEF BasisOf!Next
  <2>4. CASE Start /\ ~NonEmpty(A')
    <3>1. basis = <<>> /\ basis' = <<>> /\ pc = "start" /\ pc' = "loop"
      BY <2>4 DEF Start, TypeInv
    <3> QED BY <2>1, <3>1 DEF BasisOf!vars, Basis, status, inputs
  <2>5. CASE Finish
    BY <2>5, FinishBasis DEF BasisOf!Next
  <2>6. CASE Interrupt
    <3>1. basis' = basis /\ pc = "check" /\ pc' = "interrupted"
      BY <2>6 DEF Interrupt, results
    <3>2. BasisOf!Interrupt
      BY <2>1, <3>1 DEF BasisOf!Interrupt, status, Basis, inputs
    <3> QED BY <3>2 DEF BasisOf!Next
  <2>7. CASE \/ EnterSearch \/ Skip \/ EnterClosure \/ Fire \/ Reject \/ Accept
             \/ AddConcept \/ Continue
    <3>1. /\ basis' = basis /\ pc \notin {"done", "interrupted"}
          /\ pc' \notin {"done", "interrupted"}
      BY <2>7 DEF EnterSearch, Skip, EnterClosure, Fire, Reject, Accept,
                  AddConcept, Continue, results
    <3> QED BY <2>1, <3>1 DEF BasisOf!vars, Basis, status, inputs
  <2> QED BY <2>2, <2>3, <2>4, <2>5, <2>6, <2>7 DEF Next
<1> QED BY <1>1, <1>2, TypeInvariance, Invariance, GivenConnection, PTL
        DEF Spec, ImplementsImplicationMiner, BasisOf!Spec

\* The step that lists a concept lists a new one.
LEMMA ReportConcept ==
  ASSUME TypeInv, Inv, ClosureConnection, save_concepts, Start \/ AddConcept
  PROVE  ConceptsOf!Report
<1> DEFINE B == IF pc = "start" THEN closure(EmptySet) ELSE A
<1>1. /\ UNCHANGED inputs /\ status = "running" /\ status' = "running"
      /\ pc \in {"start", "classify"}
      /\ concepts' = Append(concepts, Concept(B)) /\ concepts \in Seq(ConceptRecords)
  BY DEF Start, AddConcept, status, Save, TypeInv, TypeOK
<1>2. B \in AttrSets /\ Concept(B).intent = B
  BY ValueTypes DEF TypeInv, TypeOK, Concept
<1>3. B \notin Intents
  <2>1. CASE Start
    <3>1. concepts = <<>>
      BY <2>1 DEF Inv, BasisInv, Start
    <3> QED BY <3>1 DEF Intents
  <2>2. CASE AddConcept
    <3>1. B = A /\ pc = "classify"
      BY <2>2 DEF AddConcept
    <3> QED BY <1>2, <3>1, LecticOrderLaws DEF Inv, ConceptInv
  <2> QED BY <2>1, <2>2
<1>4. Closed(connection, logic, I, B)
  <2>1. CASE pc = "start"
    BY <2>1, ValueTypes, RunClosure DEF TypeInv
  <2>2. CASE AddConcept
    <3>1. ~NonEmpty(setdifference(closure(A), A)) /\ B = A /\ A \in AttrSets
      BY <2>2 DEF AddConcept, TypeInv, TypeOK
    <3>2. Leq(closure(A), A) /\ Leq(A, closure(A)) /\ closure(A) \in AttrSets
      BY <3>1, Difference, RunClosure DEF TypeInv
    <3> QED BY <3>1, <3>2, LeqOrder, RunClosure DEF TypeInv
  <2> QED BY <2>1, <2>2 DEF Start
<1> HIDE DEF B
<1>5. Intents' = Intents \cup {B}
  <2>1. /\ DOMAIN concepts' = DOMAIN concepts \cup {Len(concepts) + 1}
        /\ \A n \in DOMAIN concepts : concepts'[n] = concepts[n]
        /\ concepts'[Len(concepts) + 1] = Concept(B)
    BY <1>1
  <2> QED BY <1>2, <2>1 DEF Intents
<1> QED BY <1>1, <1>2, <1>3, <1>4, <1>5, ConceptDefinitions
        DEF ConceptsOf!Report, inputs

\* When concepts are kept, every run is a run of ConceptMiner: the search for
\* pseudo-closed sets finds every concept with degrees of the context, once.
THEOREM ImplementsConcepts ==
  ASSUME InitConnections \subseteq {"standard", "benevolent2"}, save_concepts
  PROVE  Spec => ImplementsConceptMiner
<1>1. Init => ConceptsOf!Init
  <2> SUFFICES ASSUME Init PROVE ConceptsOf!Init
    OBVIOUS
  <2>1. Intents = {} /\ status = "running"
    BY DEF Init, Intents, status
  <2> QED BY <2>1, InputAssumption, ConceptDefinitions DEF Init, ConceptsOf!Init
<1>2. /\ TypeInv /\ TypeInv' /\ Inv /\ Inv' /\ connection \in InitConnections
      /\ [Next]_vars
      => [ConceptsOf!Next]_(ConceptsOf!vars)
  <2> SUFFICES ASSUME TypeInv, TypeInv', Inv, Inv', ClosureConnection, [Next]_vars
               PROVE  [ConceptsOf!Next]_(ConceptsOf!vars)
    BY DEF ClosureConnection
  <2>1. UNCHANGED inputs
    BY InputsFixed DEF vars
  <2>2. CASE UNCHANGED vars
    BY <2>1, <2>2 DEF vars, results, inputs, ConceptsOf!vars, Intents, status
  <2>3. CASE Start \/ AddConcept
    BY <2>3, ReportConcept DEF ConceptsOf!Next
  <2>4. CASE Finish
    <3>1. /\ concepts' = concepts /\ pc = "loop" /\ pc' = "done"
          /\ ~BelowFull(A) /\ A \in AttrSets
      BY <2>4 DEF Finish, results, TypeInv, TypeOK
    <3>2. \A B \in AttrSets : ~LecticLess(A, B)
      BY <3>1, KAssumption DEF LecticLess, LecticAt, BelowFull, AttrSets, Grades
    <3>3. ASSUME NEW B \in AttrSets, Graded(I, B), Closed(connection, logic, I, B)
          PROVE  B \in Intents
      <4>1. Model(B)
        BY <3>3, ClosedRespect DEF Inv, TypeInv
      <4> QED BY <3>1, <3>2, <3>3, <4>1 DEF Inv, SearchInv, Handled
    <3>4. ConceptsOf!AllReported
      BY <3>3, ConceptDefinitions DEF ConceptsOf!AllReported
    <3>5. ConceptsOf!Finish
      BY <2>1, <3>1, <3>4 DEF ConceptsOf!Finish, Intents, status, inputs
    <3> QED BY <3>5 DEF ConceptsOf!Next
  <2>5. CASE Interrupt
    <3>1. concepts' = concepts /\ pc = "check" /\ pc' = "interrupted"
      BY <2>5 DEF Interrupt, results
    <3>2. ConceptsOf!Interrupt
      BY <2>1, <3>1 DEF ConceptsOf!Interrupt, status, Intents, inputs
    <3> QED BY <3>2 DEF ConceptsOf!Next
  <2>6. CASE \/ EnterSearch \/ Skip \/ EnterClosure \/ Fire \/ Reject \/ Accept
             \/ AddImplication \/ Continue
    <3>1. /\ concepts' = concepts /\ pc \notin {"done", "interrupted"}
          /\ pc' \notin {"done", "interrupted"}
      BY <2>6 DEF EnterSearch, Skip, EnterClosure, Fire, Reject, Accept,
                  AddImplication, Continue, results
    <3> QED BY <2>1, <3>1 DEF ConceptsOf!vars, Intents, status, inputs
  <2> QED BY <2>2, <2>3, <2>4, <2>5, <2>6 DEF Next
<1> QED BY <1>1, <1>2, TypeInvariance, Invariance, GivenConnection, PTL
        DEF Spec, ImplementsConceptMiner, ConceptsOf!Spec
=============================================================================
