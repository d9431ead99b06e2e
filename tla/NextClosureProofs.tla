------------------------- MODULE NextClosureProofs --------------------------
(***************************************************************************)
(* NextClosure is correct for every chain of degrees, every logic, every   *)
(* finite or infinite set of objects and every number of attributes, under *)
(* the connections whose intent-of-extent is a closure operator.           *)
(***************************************************************************)
EXTENDS NextClosureConcepts, GaloisProofs

\* The arguments never change.
LEMMA InputsFixed == Next => UNCHANGED inputs
BY DEF Next, Start, EnterSearch, Finish, Skip, Reject, Accept, FallThrough,
       AddConcept, Continue, Interrupt, inputs

\* Types of the values the steps compute.
LEMMA ValueTypes ==
  ASSUME TypeOK
  PROVE  /\ EmptySet \in AttrSets
         /\ \A V \in AttrSets : /\ closure(V) \in AttrSets
                                /\ Concept(V) \in ConceptRecords
         /\ a_i \in Attributes => direct_sum(A, a_i, grade) \in AttrSets
<1>1. EmptySet \in AttrSets
  BY KAssumption DEF EmptySet, AttrSets, Grades
<1>2. I \in Contexts /\ logic \in LogicNames /\ connection \in Connections
  BY DEF TypeOK
<1>3. ASSUME NEW V \in AttrSets
      PROVE  /\ closure(V) \in AttrSets
             /\ Concept(V) \in ConceptRecords
  <2>1. closure(V) \in AttrSets /\ extent(V) \in ObjectSets
    BY <1>2, DerivationTypes DEF closure, extent
  <2> QED BY <2>1 DEF Concept, ConceptRecords
<1>4. a_i \in Attributes => direct_sum(A, a_i, grade) \in AttrSets
  BY KAssumption DEF TypeOK, direct_sum, AttrSets, Grades
<1> QED BY <1>1, <1>3, <1>4

\* The types of the search position survive the loop increments.
LEMMA AdvanceTypes ==
  ASSUME TypeOK, pc = "search", a_i # NoAttribute, Advance
  PROVE  /\ a_i' \in Attributes \cup {NoAttribute}
         /\ grade' \in GradesSet(I) \ {0}
         /\ grade' \in Grades
<1>1. a_i \in Attributes /\ grade \in GradesSet(I) \ {0} /\ I \in Contexts
  BY DEF TypeOK
<1>2. a_i \in Attributes \cup {NoAttribute} /\ a_i - 1 \in Attributes \cup {NoAttribute}
  BY <1>1, NAttrAssumption DEF Attributes, NoAttribute
<1> QED BY <1>1, <1>2, GradeSteps DEF Advance

-----------------------------------------------------------------------------
\* Type correctness, for every connection: NextClosure's columns always hold
\* degrees of the chain, and the degree under test is one of the context's.
THEOREM TypeCorrect == Spec => []TypeOK
<1>1. Init => TypeOK
  <2> SUFFICES ASSUME Init PROVE TypeOK
    OBVIOUS
  <2>1. EmptySet \in AttrSets /\ 0 \in Grades
    BY KAssumption DEF EmptySet, AttrSets, Grades
  <2> QED BY <2>1, InputAssumption DEF Init, TypeOK
<1>2. TypeOK /\ [Next]_vars => TypeOK'
  <2> SUFFICES ASSUME TypeOK, [Next]_vars PROVE TypeOK'
    OBVIOUS
  <2>0. CASE UNCHANGED vars
    BY <2>0 DEF TypeOK, vars, ConceptRecords, GradesSet
  <2>i. /\ I' = I /\ logic' = logic /\ connection' = connection
    BY InputsFixed DEF vars, inputs
  <2>g. GradesSet(I)' = GradesSet(I)
    BY <2>i
  <2> USE <2>i, <2>g
  <2>1. CASE Start
    BY <2>1, ValueTypes DEF Start, TypeOK, inputs, ConceptRecords
  <2>2. CASE EnterSearch
    BY <2>2, ValueTypes, GradeSteps, NAttrAssumption
       DEF EnterSearch, TypeOK, inputs, Attributes
  <2>3. CASE Finish
    BY <2>3 DEF Finish, TypeOK, inputs
  <2>4. CASE Skip
    <3>1. candB' \in AttrSets
      BY <2>4, ValueTypes DEF Skip, TypeOK
    <3> QED BY <2>4, <3>1, AdvanceTypes DEF Skip, TypeOK, inputs
  <2>5. CASE Reject
    <3>1. candB' \in AttrSets
      BY <2>5, ValueTypes DEF Reject, TypeOK
    <3> QED BY <2>5, <3>1, AdvanceTypes DEF Reject, TypeOK, inputs
  <2>6. CASE Accept
    <3>1. candB' \in AttrSets
      BY <2>6, ValueTypes DEF Accept, TypeOK
    <3> QED BY <2>6, <3>1 DEF Accept, TypeOK, inputs
  <2>7. CASE FallThrough
    BY <2>7 DEF FallThrough, TypeOK, inputs
  <2>8. CASE AddConcept
    <3>1. concepts' \in Seq(ConceptRecords)
      BY <2>8, ValueTypes DEF AddConcept, TypeOK
    <3> QED BY <2>8, <3>1 DEF AddConcept, TypeOK, inputs
  <2>9. CASE Continue
    BY <2>9 DEF Continue, TypeOK, inputs
  <2>10. CASE Interrupt
    BY <2>10 DEF Interrupt, TypeOK, inputs
  <2> QED BY <2>0, <2>1, <2>2, <2>3, <2>4, <2>5, <2>6, <2>7, <2>8, <2>9, <2>10
          DEF Next
<1> QED BY <1>1, <1>2, PTL DEF Spec

-----------------------------------------------------------------------------
\* What one try of the search decides.  B is any intent with the degrees of
\* the context that departs from A upwards, first at attribute d.

\* The closure operator of the run, as the facts of ClosureOperator.
LEMMA RunClosure ==
  ASSUME TypeOK, ClosureConnection
  PROVE  \A V \in AttrSets :
           /\ closure(V) \in AttrSets
           /\ Leq(V, closure(V))
           /\ closure(closure(V)) = closure(V)
           /\ \A W \in AttrSets : Leq(V, W) => Leq(closure(V), closure(W))
<1>1. /\ I \in Contexts /\ logic \in LogicNames
      /\ connection \in {"standard", "benevolent2"}
      /\ Representable(connection, logic)
  BY DEF TypeOK, ClosureConnection
<1> QED BY <1>1, ClosureOperator DEF closure

\* If B departs from A at the attribute and to the degree under test, the try
\* is accepted and finds nothing above B.
LEMMA TryBelow ==
  ASSUME TypeOK, ClosureConnection, a_i \in Attributes,
         NEW B \in AttrSets, Target(B), LecticAt(A, B, a_i), B[a_i] = grade
  PROVE  /\ can_add(A, a_i, grade)
         /\ Leq(closure(direct_sum(A, a_i, grade)), B)
         /\ is_set_preceding(A, closure(direct_sum(A, a_i, grade)), a_i, grade)
<1> DEFINE S == direct_sum(A, a_i, grade)
           C == closure(S)
<1>1. A \in AttrSets
  BY DEF TypeOK
<1>2. /\ can_add(A, a_i, grade) /\ S \in AttrSets /\ Leq(S, B)
      /\ \A D \in AttrSets : Leq(S, D) /\ Leq(D, B) =>
           is_set_preceding(A, D, a_i, grade)
  BY <1>1, SumBelow
<1>3. closure(B) = B
  BY DEF Target, Closed, closure
<1>4. C \in AttrSets /\ Leq(S, C) /\ Leq(C, B)
  <2> HIDE DEF S
  <2> QED BY <1>2, <1>3, RunClosure
<1> QED BY <1>2, <1>4

\* The loop increments leave no intent behind when the try at hand is not
\* where B departs from A.
LEMMA AdvanceKeeps ==
  ASSUME TypeOK, pc = "search", a_i \in Attributes, Advance,
         NEW B \in AttrSets, Graded(I, B), NEW d \in Attributes,
         LecticAt(A, B, d),
         d < a_i \/ (d = a_i /\ grade <= B[d]),
         ~(d = a_i /\ B[d] = grade)
  PROVE  d < a_i' \/ (d = a_i' /\ grade' <= B[d])
<1>1. I \in Contexts /\ A \in AttrSets /\ grade \in GradesSet(I) \ {0}
  BY DEF TypeOK
<1> QED BY <1>1, AdvanceLeaves DEF Advance

\* A search that runs out of attributes would leave the full set behind.
LEMMA SearchEndless ==
  ASSUME TypeOK, ClosureConnection, SearchInv, pc = "search"
  PROVE  a_i \in Attributes
<1>1. /\ FullSet \in AttrSets /\ Target(FullSet) /\ A \in AttrSets
      /\ a_i \in Attributes \cup {NoAttribute}
  BY FullSetClosed DEF TypeOK, ClosureConnection, Target
<1>2. Leq(A, FullSet) /\ A # FullSet
  <2>1. BelowFull(A)
    BY DEF SearchInv
  <2> QED BY <1>1, <2>1, KAssumption DEF BelowFull, FullSet, Leq, AttrSets, Grades
<1>3. PICK d \in Attributes : LecticAt(A, FullSet, d)
  BY <1>1, <1>2, LecticOrderLaws DEF LecticLess
<1>4. d < a_i \/ (d = a_i /\ grade <= FullSet[d])
  BY <1>1, <1>3 DEF SearchInv
<1> QED BY <1>1, <1>4, NAttrAssumption DEF Attributes, NoAttribute

-----------------------------------------------------------------------------
\* The inductive invariant, one step per action.

\* The columns listed so far are not touched by the steps of the search.
LEMMA ListedKept ==
  ASSUME ListedInv, UNCHANGED <<inputs, concepts>>, pc # "start", pc' # "start"
  PROVE  ListedInv'
BY DEF ListedInv, Target, Graded, GradesSet, Closed, Intents, Last, extent,
       inputs

LEMMA StartInv ==
  ASSUME TypeOK, Inv, Start, ClosureConnection
  PROVE  ListedInv' /\ SearchInv'
<1> DEFINE E == closure(EmptySet)
<1>1. EmptySet \in AttrSets /\ E \in AttrSets /\ closure(E) = E
  BY ValueTypes, RunClosure
<1>2. /\ concepts' = <<Concept(E)>> /\ A' = E /\ pc' = "loop"
      /\ I' = I /\ logic' = logic /\ connection' = connection
  BY DEF Start, inputs
<1> HIDE DEF E
<1>3. /\ DOMAIN concepts' = {1} /\ Len(concepts') = 1 /\ concepts' # <<>>
      /\ concepts'[1].intent = E /\ concepts'[1].extent = extent(E)
  BY <1>2 DEF Concept
<1>4. ASSUME NEW B \in AttrSets, Target(B), B # E PROVE LecticLess(E, B)
  <2>1. closure(B) = B
    BY <1>4 DEF Target, Closed, closure
  <2>2. Leq(EmptySet, B)
    BY KAssumption DEF Leq, EmptySet, AttrSets, Grades
  <2>3. Leq(E, B)
    BY <1>1, <2>1, <2>2, RunClosure DEF E
  <2> QED BY <1>1, <1>4, <2>3, LecticOrderLaws
<1>5. Last' = E /\ Intents' = {E}
  BY <1>3 DEF Last, Intents
<1>6. \A B \in AttrSets : Target(B)' => Target(B)
  BY <1>2 DEF Target, Graded, GradesSet, Closed
<1>7. Closed(connection, logic, I, E)
  BY <1>1 DEF Closed, closure
<1>8. ListedInv'
  <2>1. \A k \in DOMAIN concepts' :
          /\ Closed(connection', logic', I', concepts'[k].intent)
          /\ concepts'[k].extent
               = extent_f(connection', logic', I', concepts'[k].intent)
    BY <1>2, <1>3, <1>7 DEF extent
  <2>2. \A j, k \in DOMAIN concepts' :
          j < k => LecticLess(concepts'[j].intent, concepts'[k].intent)
    BY <1>3
  <2>3. \A B \in AttrSets : Target(B)' => B \in Intents' \/ LecticLess(Last', B)
    BY <1>4, <1>5, <1>6
  <2>4. pc' = "start" <=> concepts' = <<>>
    BY <1>2, <1>3
  <2> QED BY <2>1, <2>2, <2>3, <2>4 DEF ListedInv, extent
<1> QED BY <1>2, <1>5, <1>8 DEF SearchInv

LEMMA EnterSearchInv ==
  ASSUME TypeOK, Inv, EnterSearch, ClosureConnection
  PROVE  ListedInv' /\ SearchInv'
<1>1. /\ I' = I /\ logic' = logic /\ connection' = connection /\ A' = A
      /\ concepts' = concepts /\ pc' = "search" /\ a_i' = NAttr - 1
      /\ grade' = FirstGrade(I) /\ pc = "loop" /\ BelowFull(A)
  BY DEF EnterSearch, inputs
<1>2. ListedInv'
  BY <1>1, ListedKept DEF Inv, inputs
<1>3. ASSUME NEW B \in AttrSets, NEW d \in Attributes,
             Target(B)', LecticAt(A, B, d)
      PROVE  d < a_i' \/ (d = a_i' /\ grade' <= B[d])
  <2>1. I \in Contexts /\ A[d] \in Nat /\ A[d] < B[d] /\ B[d] \in GradesSet(I)
    BY <1>1, <1>3, KAssumption
       DEF TypeOK, AttrSets, Grades, LecticAt, Target, Graded
  <2>2. B[d] \in GradesSet(I) \ {0}
    BY <2>1, KAssumption DEF GradesSet, Grades
  <2>3. grade' <= B[d]
    BY <1>1, <2>1, <2>2, GradeSteps
  <2> QED BY <1>1, <2>3, NAttrAssumption DEF Attributes
<1> QED BY <1>1, <1>2, <1>3 DEF SearchInv, Inv, Last

LEMMA PassOnInv ==
  ASSUME TypeOK, Inv, Skip \/ Reject, ClosureConnection
  PROVE  ListedInv' /\ SearchInv'
<1>1. /\ I' = I /\ logic' = logic /\ connection' = connection /\ A' = A
      /\ concepts' = concepts /\ pc' = "search" /\ pc = "search" /\ Advance
  BY DEF Skip, Reject, inputs
<1>2. ListedInv'
  BY <1>1, ListedKept DEF Inv, inputs
<1>3. a_i \in Attributes
  BY <1>1, SearchEndless DEF Inv
<1>4. ASSUME NEW B \in AttrSets, NEW d \in Attributes,
             Target(B), LecticAt(A, B, d)
      PROVE  ~(d = a_i /\ B[d] = grade)
  <2> SUFFICES ASSUME d = a_i, B[d] = grade PROVE FALSE
    OBVIOUS
  <2>1. /\ can_add(A, a_i, grade)
        /\ is_set_preceding(A, closure(direct_sum(A, a_i, grade)), a_i, grade)
    BY <1>3, <1>4, TryBelow
  <2> QED BY <2>1 DEF Skip, Reject
<1>5. ASSUME NEW B \in AttrSets, NEW d \in Attributes,
             Target(B)', LecticAt(A, B, d)
      PROVE  d < a_i' \/ (d = a_i' /\ grade' <= B[d])
  <2>1. Target(B) /\ Graded(I, B)
    BY <1>1, <1>5 DEF Target, Graded, GradesSet, Closed
  <2>2. d < a_i \/ (d = a_i /\ grade <= B[d])
    BY <1>1, <1>5, <2>1 DEF Inv, SearchInv
  <2> QED BY <1>1, <1>3, <1>4, <1>5, <2>1, <2>2, AdvanceKeeps
<1> QED BY <1>1, <1>2, <1>5 DEF SearchInv, Inv, Last

LEMMA AcceptInv ==
  ASSUME TypeOK, Inv, Accept, ClosureConnection
  PROVE  ListedInv' /\ SearchInv'
<1> DEFINE S == direct_sum(A, a_i, grade)
           C == closure(S)
<1>1. /\ I' = I /\ logic' = logic /\ connection' = connection /\ A' = A
      /\ concepts' = concepts /\ pc' = "add" /\ pc = "search"
      /\ candB' = C /\ is_set_preceding(A, C, a_i, grade)
  BY DEF Accept, inputs
<1>2. ListedInv'
  BY <1>1, ListedKept DEF Inv, inputs
<1>3. a_i \in Attributes
  BY <1>1, SearchEndless DEF Inv
<1>4. C \in AttrSets /\ closure(C) = C
  BY <1>3, ValueTypes, RunClosure
<1>5. Closed(connection, logic, I, C)
  BY <1>4 DEF Closed, closure
<1>6. LecticAt(A, C, a_i)
  <2> HIDE DEF C
  <2> QED BY <1>1, <1>3 DEF is_set_preceding, LecticAt
<1>7. ASSUME NEW B \in AttrSets, Target(B), LecticLess(A, B)
      PROVE  B = C \/ LecticLess(C, B)
  <2>1. PICK d \in Attributes : LecticAt(A, B, d)
    BY <1>7 DEF LecticLess
  <2>2. d < a_i \/ (d = a_i /\ grade <= B[d])
    BY <1>1, <1>7, <2>1 DEF Inv, SearchInv
  <2>3. CASE d = a_i /\ B[d] = grade
    <3>1. Leq(C, B)
      BY <1>3, <1>7, <2>1, <2>3, TryBelow
    <3> HIDE DEF C
    <3> QED BY <1>4, <3>1, LecticOrderLaws
  <2>4. CASE d < a_i \/ (d = a_i /\ grade < B[d])
    <3> HIDE DEF C
    <3>1. LecticLess(C, B)
      BY <1>1, <1>3, <1>4, <2>1, <2>4, PassedBy DEF TypeOK
    <3> QED BY <3>1
  <2> QED BY <1>3, <2>2, <2>3, <2>4, KAssumption
          DEF TypeOK, Grades, AttrSets
<1>8. \A B \in AttrSets : Target(B)' => Target(B)
  BY <1>1 DEF Target, Graded, GradesSet, Closed
<1> HIDE DEF C
<1>9. LecticLess(A, C)
  BY <1>3, <1>6 DEF LecticLess
<1>10. A' = Last'
  BY <1>1 DEF Inv, SearchInv, Last
<1>11. Closed(connection', logic', I', candB')
  BY <1>1, <1>5
<1> QED BY <1>1, <1>2, <1>7, <1>8, <1>9, <1>10, <1>11 DEF SearchInv

LEMMA AddConceptInv ==
  ASSUME TypeOK, Inv, AddConcept, ClosureConnection
  PROVE  ListedInv' /\ SearchInv'
<1> DEFINE n == Len(concepts)
<1>1. /\ I' = I /\ logic' = logic /\ connection' = connection /\ A' = A
      /\ candB' = candB /\ pc' = "check" /\ pc = "add"
      /\ concepts' = Append(concepts, Concept(candB))
  BY DEF AddConcept, inputs
<1>2. /\ concepts \in Seq(ConceptRecords) /\ candB \in AttrSets /\ A \in AttrSets
      /\ concepts # <<>>
      /\ n \in Nat /\ n >= 1
  BY <1>1 DEF TypeOK, Inv, ListedInv
<1>3. /\ Len(concepts') = n + 1
      /\ DOMAIN concepts = 1 .. n /\ DOMAIN concepts' = 1 .. (n + 1)
      /\ \A k \in 1 .. n : concepts'[k] = concepts[k]
      /\ concepts'[n + 1].intent = candB
      /\ concepts'[n + 1].extent = extent(candB)
  BY <1>1, <1>2 DEF Concept
<1>4. \A k \in 1 .. n : concepts[k].intent \in AttrSets
  <2>1. \A k \in 1 .. n : concepts[k] \in ConceptRecords
    BY <1>2
  <2> QED BY <2>1 DEF ConceptRecords
<1> HIDE DEF n
<1>5. Last = concepts[n].intent /\ A = Last /\ Last \in AttrSets /\ n \in 1 .. n
  BY <1>1, <1>2, <1>4 DEF n, Last, Inv, SearchInv
<1>6. Last' = candB
  BY <1>3 DEF Last
<1>7. LecticLess(A, candB) /\ Closed(connection, logic, I, candB)
  BY <1>1 DEF Inv, SearchInv
<1>8. ASSUME NEW k \in 1 .. n
      PROVE  LecticLess(concepts[k].intent, candB)
  <2>1. CASE k = n
    BY <1>5, <1>7, <2>1
  <2>2. CASE k < n
    <3>1. LecticLess(concepts[k].intent, Last)
      BY <1>2, <1>3, <1>5, <2>2 DEF Inv, ListedInv
    <3> QED BY <1>2, <1>4, <1>5, <1>7, <3>1, LecticOrderLaws
  <2> QED BY <1>2, <2>1, <2>2
<1>9. ASSUME NEW j \in 1 .. (n + 1), NEW k \in 1 .. (n + 1), j < k
      PROVE  LecticLess(concepts'[j].intent, concepts'[k].intent)
  <2>1. CASE k = n + 1
    BY <1>2, <1>3, <1>8, <1>9, <2>1
  <2>2. CASE k # n + 1
    <3>1. j \in 1 .. n /\ k \in 1 .. n
      BY <1>2, <1>9, <2>2
    <3> QED BY <1>3, <1>9, <3>1 DEF Inv, ListedInv
  <2> QED BY <2>1, <2>2
<1>10. \A k \in 1 .. (n + 1) :
         /\ Closed(connection, logic, I, concepts'[k].intent)
         /\ concepts'[k].extent = extent_f(connection, logic, I, concepts'[k].intent)
  <2>1. \A k \in 1 .. n :
          /\ Closed(connection, logic, I, concepts[k].intent)
          /\ concepts[k].extent = extent_f(connection, logic, I, concepts[k].intent)
    BY <1>3 DEF Inv, ListedInv, extent
  <2> QED BY <1>2, <1>3, <1>7, <2>1 DEF extent
<1>11. /\ \A k \in 1 .. n : concepts[k].intent \in Intents'
       /\ candB \in Intents'
  <2>1. /\ \A k \in 1 .. n : k \in 1 .. (n + 1)
        /\ n + 1 \in 1 .. (n + 1)
    BY <1>2
  <2> QED BY <1>3, <2>1 DEF Intents
<1>12. ASSUME NEW B \in AttrSets, Target(B)
       PROVE  B \in Intents' \/ LecticLess(candB, B)
  <2>1. B \in Intents \/ LecticLess(Last, B)
    BY <1>1, <1>12 DEF Inv, ListedInv
  <2>2. CASE B \in Intents
    <3>1. \E k \in 1 .. n : B = concepts[k].intent
      BY <1>3, <2>2 DEF Intents
    <3> QED BY <1>11, <3>1
  <2>3. CASE LecticLess(Last, B)
    <3>1. B = candB \/ LecticLess(candB, B)
      BY <1>1, <1>5, <1>12, <2>3 DEF Inv, SearchInv
    <3> QED BY <1>11, <3>1
  <2> QED BY <2>1, <2>2, <2>3
<1>13. \A B \in AttrSets : Target(B)' => Target(B)
  BY <1>1 DEF Target, Graded, GradesSet, Closed
<1>14. ListedInv'
  <2>1. concepts' # <<>>
    BY <1>2, <1>3
  <2> QED BY <1>1, <1>3, <1>6, <1>9, <1>10, <1>12, <1>13, <2>1
          DEF ListedInv, extent
<1> QED BY <1>1, <1>6, <1>14 DEF SearchInv

\* The steps that only move on: the search buffer and the list stay.
LEMMA MoveOnInv ==
  ASSUME TypeOK, Inv, Finish \/ Continue \/ Interrupt \/ FallThrough,
         ClosureConnection
  PROVE  ListedInv' /\ SearchInv'
<1>1. ~FallThrough
  BY SearchEndless, NAttrAssumption
     DEF FallThrough, NoAttribute, Attributes, Inv
<1>2. /\ I' = I /\ logic' = logic /\ connection' = connection
      /\ concepts' = concepts /\ candB' = candB
      /\ pc # "start" /\ pc' # "start"
  BY <1>1 DEF Finish, Continue, Interrupt, inputs
<1>3. ListedInv'
  BY <1>2, ListedKept DEF Inv, inputs
<1>4. Last' = Last
  BY <1>2 DEF Last
<1>5. CASE Finish
  BY <1>3, <1>4, <1>5 DEF Finish, SearchInv, Inv
<1>6. CASE Continue
  BY <1>3, <1>4, <1>6 DEF Continue, SearchInv, Inv
<1>7. CASE Interrupt
  BY <1>3, <1>4, <1>7 DEF Interrupt, SearchInv, Inv
<1> QED BY <1>1, <1>5, <1>6, <1>7

\* The strengthening is an invariant of the algorithm.
THEOREM Invariance == Spec => []Inv
<1>1. Init => Inv
  <2> SUFFICES ASSUME Init PROVE Inv
    OBVIOUS
  <2>1. pc = "start" /\ concepts = <<>>
    BY DEF Init
  <2> QED BY <2>1 DEF Inv, ListedInv, SearchInv
<1>2. TypeOK /\ Inv /\ [Next]_vars => Inv'
  <2> SUFFICES ASSUME TypeOK, Inv, [Next]_vars, ClosureConnection'
               PROVE  ListedInv' /\ SearchInv'
    BY DEF Inv
  <2>1. ClosureConnection
    BY InputsFixed DEF ClosureConnection, vars, inputs
  <2>2. CASE UNCHANGED vars
    <3>1. ListedInv' = ListedInv /\ SearchInv' = SearchInv
      BY <2>2 DEF vars, ListedInv, SearchInv, Target, Graded, GradesSet, Closed,
                  Intents, Last, extent, BelowFull
    <3> QED BY <2>1, <3>1 DEF Inv
  <2>3. CASE Start
    BY <2>1, <2>3, StartInv
  <2>4. CASE EnterSearch
    BY <2>1, <2>4, EnterSearchInv
  <2>5. CASE Skip \/ Reject
    BY <2>1, <2>5, PassOnInv
  <2>6. CASE Accept
    BY <2>1, <2>6, AcceptInv
  <2>7. CASE AddConcept
    BY <2>1, <2>7, AddConceptInv
  <2>8. CASE Finish \/ Continue \/ Interrupt \/ FallThrough
    BY <2>1, <2>8, MoveOnInv
  <2> QED BY <2>2, <2>3, <2>4, <2>5, <2>6, <2>7, <2>8 DEF Next
<1> QED BY <1>1, <1>2, TypeCorrect, PTL DEF Spec

-----------------------------------------------------------------------------
\* What follows for a caller of next_closure_concepts.

\* Every listed intent is an attribute set.
LEMMA ListedTypes ==
  ASSUME TypeOK
  PROVE  /\ \A k \in DOMAIN concepts : /\ concepts[k].intent \in AttrSets
                                       /\ k \in 1 .. Len(concepts)
         /\ Len(concepts) \in Nat
         /\ concepts # <<>> => Len(concepts) \in DOMAIN concepts
<1>1. concepts \in Seq(ConceptRecords)
  BY DEF TypeOK
<1>2. \A k \in DOMAIN concepts : concepts[k] \in ConceptRecords
  BY <1>1
<1>3. \A k \in DOMAIN concepts : concepts[k].intent \in AttrSets
  BY <1>2 DEF ConceptRecords
<1> QED BY <1>1, <1>3

\* Every listed pair is a concept of the context.
THEOREM ListsOnlyConcepts == Spec => []OnlyConcepts
<1>1. Inv => OnlyConcepts
  BY DEF Inv, ListedInv, OnlyConcepts, PairsAreConcepts,
         Closed, compute_closure, extent
<1> QED BY <1>1, Invariance, PTL

\* The intents are listed in strictly increasing lectic order.
THEOREM ListsInLecticOrder == Spec => []LecticOrder
<1>1. Inv => LecticOrder
  BY DEF Inv, ListedInv, LecticOrder
<1> QED BY <1>1, Invariance, PTL

\* No intent with the degrees of the context is passed over.
THEOREM SkipsNone == Spec => []NoneSkipped
<1>1. TypeOK /\ Inv => NoneSkipped
  <2> SUFFICES ASSUME TypeOK, Inv, ClosureConnection, pc # "start",
                      NEW B \in AttrSets, Target(B), B \notin Intents,
                      NEW C \in Intents
               PROVE  LecticLess(C, B)
    BY DEF NoneSkipped, Target
  <2>1. LecticLess(Last, B) /\ concepts # <<>>
    BY DEF Inv, ListedInv
  <2>2. PICK k \in DOMAIN concepts : C = concepts[k].intent
    BY DEF Intents
  <2>3. /\ k \in 1 .. Len(concepts) /\ Len(concepts) \in Nat
        /\ Len(concepts) \in DOMAIN concepts
        /\ C \in AttrSets /\ Last \in AttrSets
    BY <2>1, <2>2, ListedTypes DEF Last
  <2>4. CASE k = Len(concepts)
    BY <2>1, <2>2, <2>4 DEF Last
  <2>5. CASE k < Len(concepts)
    <3>1. LecticLess(C, Last)
      BY <2>2, <2>3, <2>5 DEF Inv, ListedInv, Last
    <3> QED BY <2>1, <2>3, <3>1, LecticOrderLaws
  <2> QED BY <2>3, <2>4, <2>5
<1> QED BY <1>1, TypeCorrect, Invariance, PTL

\* compute_next_intent always finds an intent.
THEOREM SearchNeverFails == Spec => []SearchSucceeds
<1>1. TypeOK /\ Inv => SearchSucceeds
  BY SearchEndless, NAttrAssumption
     DEF SearchSucceeds, Inv, NoAttribute, Attributes
<1> QED BY <1>1, TypeCorrect, Invariance, PTL

-----------------------------------------------------------------------------
\* The algorithm implements what find_concepts promises.

\* The definitions that the abstract specification takes from module Galois
\* are those of this module.
LEMMA SameDefinitions ==
  /\ Miner!Contexts = Contexts
  /\ Miner!LogicNames = LogicNames
  /\ Miner!Connections = Connections
  /\ Miner!AttrSets = AttrSets
  /\ \A cn, nm, M, V : Miner!Closed(cn, nm, M, V) = Closed(cn, nm, M, V)
  /\ \A M, V : Miner!Graded(M, V) = Graded(M, V)
<1>1. /\ Miner!Contexts = Contexts
      /\ Miner!LogicNames = LogicNames
      /\ Miner!Connections = Connections
      /\ Miner!AttrSets = AttrSets
  BY DEF Miner!Contexts, Miner!LogicNames, Miner!Connections, Miner!AttrSets,
         Miner!Attributes, Miner!Grades, Contexts, LogicNames, Connections,
         AttrSets, Attributes, Grades
<1>2. \A M, V : Miner!Graded(M, V) = Graded(M, V)
  BY DEF Miner!Graded, Miner!GradesSet, Miner!Attributes, Miner!Grades,
         Graded, GradesSet, Attributes, Grades
<1>3. \A nm, M, V :
        /\ Miner!compute_intent(nm, M, V) = compute_intent(nm, M, V)
        /\ Miner!compute_extent(nm, M, V) = compute_extent(nm, M, V)
  BY DEF Miner!compute_intent, Miner!compute_extent,
         Miner!implication, Miner!implication_Zadeh, Miner!implication_Godel,
         Miner!implication_Lukasiewicz, Miner!implication_Product,
         Miner!Attributes, Miner!Inf, Miner!Min, Miner!Range,
         compute_intent, compute_extent,
         implication, implication_Zadeh, implication_Godel,
         implication_Lukasiewicz, implication_Product,
         Attributes, Inf, Min, Range
<1>4. \A nm, M, V :
        /\ Miner!compute_upright_arrow(nm, M, V)
             = compute_upright_arrow(nm, M, V)
        /\ Miner!compute_downright_arrow(nm, M, V)
             = compute_downright_arrow(nm, M, V)
  BY DEF Miner!compute_upright_arrow, Miner!compute_downright_arrow,
         Miner!tnorm, Miner!tnorm_Godel, Miner!tnorm_Lukasiewicz,
         Miner!Attributes, Miner!Sup, Miner!Max, Miner!Range,
         compute_upright_arrow, compute_downright_arrow,
         tnorm, tnorm_Godel, tnorm_Lukasiewicz,
         Attributes, Sup, Max, Range
<1>5. \A nm, M, V :
        /\ Miner!compute_downleft_arrow(nm, M, V)
             = compute_downleft_arrow(nm, M, V)
        /\ Miner!compute_upleft_arrow(nm, M, V)
             = compute_upleft_arrow(nm, M, V)
  BY DEF Miner!compute_downleft_arrow, Miner!compute_upleft_arrow,
         Miner!implication, Miner!implication_Zadeh, Miner!implication_Godel,
         Miner!implication_Lukasiewicz, Miner!implication_Product,
         Miner!Attributes, Miner!Inf, Miner!Min, Miner!Range,
         compute_downleft_arrow, compute_upleft_arrow,
         implication, implication_Zadeh, implication_Godel,
         implication_Lukasiewicz, implication_Product,
         Attributes, Inf, Min, Range
<1>6. \A cn, nm, M, V : /\ Miner!intent_f(cn, nm, M, V) = intent_f(cn, nm, M, V)
                        /\ Miner!extent_f(cn, nm, M, V) = extent_f(cn, nm, M, V)
  BY <1>3, <1>4, <1>5 DEF Miner!intent_f, Miner!extent_f, intent_f, extent_f
<1>7. \A cn, nm, M, V : Miner!Closed(cn, nm, M, V) = Closed(cn, nm, M, V)
  BY <1>6 DEF Miner!Closed, Closed, Miner!compute_closure, compute_closure
<1> QED BY <1>1, <1>2, <1>7

\* The step that lists an intent lists a new one.
LEMMA ReportStep ==
  ASSUME TypeOK, Inv, Inv', TypeOK', ClosureConnection, Start \/ AddConcept
  PROVE  Miner!Report
<1> DEFINE B == IF pc = "start" THEN closure(EmptySet) ELSE candB
<1>1. /\ I' = I /\ logic' = logic /\ connection' = connection
      /\ pc \in {"start", "add"} /\ pc' \in {"loop", "check"}
  BY DEF Start, AddConcept, inputs
<1>2. B \in AttrSets
  BY ValueTypes DEF TypeOK
<1>3. Closed(connection, logic, I, B)
  <2>1. CASE pc = "start"
    BY <2>1, ValueTypes, RunClosure DEF Closed, closure
  <2>2. CASE pc = "add"
    BY <2>2 DEF Inv, SearchInv
  <2> QED BY <1>1, <2>1, <2>2
<1>4. B \notin Intents /\ Intents' = Intents \cup {B}
  <2>1. CASE Start
    <3>1. concepts = <<>> /\ concepts' = <<Concept(B)>>
      BY <2>1 DEF Inv, ListedInv, Start
    <3>2. Intents = {} /\ Intents' = {Concept(B).intent}
      BY <3>1 DEF Intents
    <3> QED BY <3>2 DEF Concept
  <2>2. CASE AddConcept
    <3> DEFINE n == Len(concepts)
    <3>1. /\ concepts' = Append(concepts, Concept(candB))
          /\ concepts \in Seq(ConceptRecords) /\ n \in Nat
          /\ B = candB /\ pc = "add"
      BY <2>2 DEF AddConcept, TypeOK
    <3>2. /\ DOMAIN concepts = 1 .. n /\ DOMAIN concepts' = 1 .. (n + 1)
          /\ \A k \in 1 .. n : concepts'[k] = concepts[k]
          /\ concepts'[n + 1].intent = candB
      BY <3>1 DEF Concept
    <3> HIDE DEF n
    <3>3. 1 .. (n + 1) = (1 .. n) \cup {n + 1}
      BY <3>1
    <3>4. Intents' = Intents \cup {candB}
      BY <3>2, <3>3 DEF Intents
    <3>5. ASSUME NEW k \in 1 .. n PROVE concepts[k].intent # candB
      <4>1. k \in DOMAIN concepts' /\ n + 1 \in DOMAIN concepts' /\ k < n + 1
        BY <3>1, <3>2
      <4>2. LecticLess(concepts'[k].intent, concepts'[n + 1].intent)
        BY <1>1, <4>1 DEF Inv, ListedInv, ClosureConnection
      <4> QED BY <1>2, <3>1, <3>2, <4>2, LecticOrderLaws
    <3> QED BY <3>1, <3>2, <3>4, <3>5 DEF Intents
  <2> QED BY <2>1, <2>2
<1> HIDE DEF B
<1>5. /\ Promised = Intents /\ Promised' = Intents'
      /\ MinerStatus = "running" /\ MinerStatus' = "running"
  BY <1>1 DEF Promised, MinerStatus, ClosureConnection
<1> QED BY <1>1, <1>2, <1>3, <1>4, <1>5, SameDefinitions DEF Miner!Report

\* When the loop ends nothing is missing.
LEMMA FinishStep ==
  ASSUME TypeOK, Inv, ClosureConnection, Finish
  PROVE  Miner!Finish
<1>1. /\ I' = I /\ logic' = logic /\ connection' = connection
      /\ concepts' = concepts /\ pc = "loop" /\ pc' = "done"
      /\ A = Last /\ ~BelowFull(A) /\ A \in AttrSets
  BY DEF Finish, inputs, Inv, SearchInv, TypeOK
<1>2. ASSUME NEW B \in AttrSets, Target(B) PROVE B \in Intents
  <2>1. ~LecticLess(Last, B)
    BY <1>1, KAssumption DEF LecticLess, LecticAt, BelowFull, AttrSets, Grades
  <2> QED BY <1>1, <1>2, <2>1 DEF Inv, ListedInv
<1>3. /\ Promised = Intents /\ Promised' = Intents
      /\ MinerStatus = "running" /\ MinerStatus' = "finished"
  BY <1>1 DEF Promised, MinerStatus, ClosureConnection, Intents
<1>4. Miner!AllReported
  BY <1>2, <1>3, SameDefinitions DEF Miner!AllReported, Target
<1> QED BY <1>1, <1>3, <1>4 DEF Miner!Finish

\* Every run of NextClosure is a run of ConceptMiner: under a closure
\* connection it reports concepts only, none twice, and all of them with the
\* degrees of the context when it finishes.
THEOREM Implementation == Spec => ImplementsMiner
<1>1. Init => Miner!Init
  <2> SUFFICES ASSUME Init PROVE Miner!Init
    OBVIOUS
  <2>1. Promised = {} /\ MinerStatus = "running"
    BY DEF Init, Intents, Promised, MinerStatus
  <2> QED BY <2>1, InputAssumption, SameDefinitions DEF Init, Miner!Init
<1>2. TypeOK /\ TypeOK' /\ Inv /\ Inv' /\ [Next]_vars
      => [Miner!Next]_(Miner!vars)
  <2> SUFFICES ASSUME TypeOK, TypeOK', Inv, Inv', [Next]_vars
               PROVE  [Miner!Next]_(Miner!vars)
    OBVIOUS
  <2>1. /\ I' = I /\ logic' = logic /\ connection' = connection
        /\ ClosureConnection' = ClosureConnection
    BY InputsFixed DEF inputs, vars, ClosureConnection
  <2>2. CASE ~ClosureConnection
    BY <2>1, <2>2 DEF Miner!vars, Promised, MinerStatus
  <2>3. CASE UNCHANGED vars
    BY <2>1, <2>3 DEF vars, Miner!vars, Promised, MinerStatus, Intents
  <2>4. CASE ClosureConnection /\ (Start \/ AddConcept)
    BY <2>4, ReportStep DEF Miner!Next
  <2>5. CASE ClosureConnection /\ Finish
    BY <2>5, FinishStep DEF Miner!Next
  <2>6. CASE EnterSearch \/ Skip \/ Reject \/ Accept \/ FallThrough \/ Continue
    <3>1. /\ concepts' = concepts
          /\ pc \notin {"done", "interrupted"}
          /\ pc' \notin {"done", "interrupted"}
      BY <2>6 DEF EnterSearch, Skip, Reject, Accept, FallThrough, Continue
    <3> QED BY <2>1, <3>1 DEF Miner!vars, Promised, MinerStatus, Intents
  <2>7. CASE ClosureConnection /\ Interrupt
    <3>1. concepts' = concepts /\ pc = "check" /\ pc' = "interrupted"
      BY <2>7 DEF Interrupt
    <3>2. Miner!Interrupt
      BY <2>1, <2>7, <3>1
      DEF Miner!Interrupt, Promised, MinerStatus, Intents
    <3> QED BY <3>2 DEF Miner!Next
  <2> QED BY <2>2, <2>3, <2>4, <2>5, <2>6, <2>7 DEF Next
<1> QED BY <1>1, <1>2, TypeCorrect, Invariance, PTL
        DEF Spec, ImplementsMiner, Miner!Spec
=============================================================================
