---------------------- MODULE NextClosureImplications -----------------------
(***************************************************************************)
(* NextClosure over pseudo-closed sets of graded attributes:               *)
(* next_closure_implications, the search compute_next_closure it calls and *)
(* the semantic_closure the search calls (src/nextclosure.cpp), the engine *)
(* behind FormalContext$find_implications on a graded context.             *)
(*                                                                         *)
(* One step of the specification is one round of semantic_closure, or one  *)
(* candidate attribute and degree that is skipped, rejected or accepted.   *)
(***************************************************************************)
EXTENDS LecticSearch, Sequences

CONSTANTS
  InitContexts,      \* the matrices a run of the algorithm may be given
  InitLogics,        \* the logic names it may be given
  InitConnections,   \* the connection names it may be given
  save_concepts      \* the argument of that name

ASSUME InputAssumption ==
  /\ InitContexts \subseteq Contexts
  /\ InitLogics \subseteq LogicNames
  /\ InitConnections \subseteq Connections
  /\ save_concepts \in BOOLEAN

VARIABLES
  I, logic, connection,  \* the arguments: matrix, name and connection
  pc,                    \* where the code is
  A,                     \* the last closed or pseudo-closed set found
  candB,                 \* the candidate of the search (B in the caller)
  a_i, grade,            \* the attribute and the degree under test
  candB2,                \* the result of semantic_closure so far
  fired,                 \* the entries black_list has set to FALSE
  basis,                 \* the columns of LHS and RHS, and the tree of LHS
  concepts               \* the columns of concepts and extents

inputs == <<I, logic, connection>>
search == <<candB, a_i, grade>>
closing == <<candB2, fired>>
results == <<basis, concepts>>
vars == <<inputs, pc, A, search, closing, results>>

closure(V) == compute_closure(connection, logic, I, V)
extent(V) == extent_f(connection, logic, I, V)

Concept(B) == [intent |-> B, extent |-> extent(B)]

\* The elements of B that have a smaller degree in C, with their degree in B.
setdifference(B, C) == [c \in Attributes |-> IF B[c] > C[c] THEN B[c] ELSE 0]

\* The union of V and of the conclusions of the implications in S.
setunion(V, S) ==
  [c \in Attributes |-> Max({V[c]} \cup {basis[k].rhs[c] : k \in S})]

\* Mutant: there is one round only.
is_subset_Once(V) ==
  {k \in DOMAIN basis : fired = {} /\ Leq(basis[k].lhs, V)}

\* The implications whose premise is a subset of V and that black_list still
\* lets through.
is_subset(V) == {k \in DOMAIN basis \ fired : Leq(basis[k].lhs, V)}
-----------------------------------------------------------------------------
Init ==
  /\ I \in InitContexts
  /\ logic \in InitLogics
  /\ connection \in InitConnections
  /\ Representable(connection, logic)
  /\ pc = "start"
  /\ A = EmptySet
  /\ candB = EmptySet
  /\ a_i = NoAttribute
  /\ grade = 0
  /\ candB2 = EmptySet
  /\ fired = {}
  /\ basis = <<>>
  /\ concepts = <<>>

Save(B) == concepts' = IF save_concepts THEN Append(concepts, Concept(B))
                       ELSE concepts

\* Mutant: the implication with an empty premise is left out.
Start_NoImplication ==
  /\ pc = "start"
  /\ A' = closure(EmptySet)
  /\ Save(A')
  /\ pc' = "loop"
  /\ UNCHANGED <<inputs, search, closing, basis>>

\* The closure of the empty set is the first concept, and the conclusion of
\* an implication with an empty premise.
Start ==
  /\ pc = "start"
  /\ A' = closure(EmptySet)
  /\ basis' = IF NonEmpty(A') THEN <<[lhs |-> EmptySet, rhs |-> A']>> ELSE <<>>
  /\ Save(A')
  /\ pc' = "loop"
  /\ UNCHANGED <<inputs, search, closing>>

\* while (cardinal(A) < n_attributes): call compute_next_closure.
EnterSearch ==
  /\ pc = "loop"
  /\ BelowFull(A)
  /\ a_i' = NAttr - 1
  /\ grade' = FirstGrade(I)
  /\ pc' = "search"
  /\ UNCHANGED <<inputs, A, candB, closing, results>>

Finish ==
  /\ pc = "loop"
  /\ ~BelowFull(A)
  /\ pc' = "done"
  /\ UNCHANGED <<inputs, A, search, closing, results>>

\* Mutant: the inner loop starts with the degree 0.
Advance_FromZero ==
  IF grade < K
  THEN /\ grade' = NextGrade(I, grade)
       /\ a_i' = a_i
  ELSE /\ grade' = 0
       /\ a_i' = a_i - 1

\* The increments of the two nested loops.
Advance ==
  IF grade < K
  THEN /\ grade' = NextGrade(I, grade)
       /\ a_i' = a_i
  ELSE /\ grade' = FirstGrade(I)
       /\ a_i' = a_i - 1

\* A already has a_i to the degree under test: continue with the next one.
Skip ==
  /\ pc = "search"
  /\ a_i # NoAttribute
  /\ ~can_add(A, a_i, grade)
  /\ candB' = direct_sum(A, a_i, grade)
  /\ Advance
  /\ UNCHANGED <<inputs, pc, A, closing, results>>

\* Mutant: the first implication is black-listed from the start.
EnterClosure_SkipsFirst ==
  /\ pc = "search"
  /\ a_i # NoAttribute
  /\ can_add(A, a_i, grade)
  /\ candB' = direct_sum(A, a_i, grade)
  /\ candB2' = candB'
  /\ fired' = {1} \cap DOMAIN basis
  /\ pc' = "closing"
  /\ UNCHANGED <<inputs, A, a_i, grade, results>>

\* Call semantic_closure on the direct sum.
EnterClosure ==
  /\ pc = "search"
  /\ a_i # NoAttribute
  /\ can_add(A, a_i, grade)
  /\ candB' = direct_sum(A, a_i, grade)
  /\ candB2' = candB'
  /\ fired' = {}
  /\ pc' = "closing"
  /\ UNCHANGED <<inputs, A, a_i, grade, results>>

\* Mutant: black_list is not written.
Fire_Again ==
  /\ pc = "closing"
  /\ is_subset(candB2) # {}
  /\ candB2' = setunion(candB2, is_subset(candB2))
  /\ UNCHANGED <<inputs, pc, A, search, fired, results>>

\* One round of semantic_closure: every implication that applies is fired, and
\* none of them will be looked at again.
Fire ==
  /\ pc = "closing"
  /\ is_subset(candB2) # {}
  /\ candB2' = setunion(candB2, is_subset(candB2))
  /\ fired' = fired \cup is_subset(candB2)
  /\ UNCHANGED <<inputs, pc, A, search, results>>

\* No implication applies.  The closure changes A below a_i, or the degree of
\* a_i: try the next candidate.
Reject ==
  /\ pc = "closing"
  /\ is_subset(candB2) = {}
  /\ ~is_set_preceding(A, candB2, a_i, grade)
  /\ Advance
  /\ pc' = "search"
  /\ UNCHANGED <<inputs, A, candB, closing, results>>

\* No implication applies, and the closure is the next set.
Accept ==
  /\ pc = "closing"
  /\ is_subset(candB2) = {}
  /\ is_set_preceding(A, candB2, a_i, grade)
  /\ candB' = candB2
  /\ A' = candB2
  /\ pc' = "classify"
  /\ UNCHANGED <<inputs, a_i, grade, closing, results>>

\* The context adds nothing to A: a concept.
AddConcept ==
  /\ pc = "classify"
  /\ ~NonEmpty(setdifference(closure(A), A))
  /\ candB' = closure(A)
  /\ Save(A)
  /\ pc' = "check"
  /\ UNCHANGED <<inputs, A, a_i, grade, closing, basis>>

\* The context adds something to A: an implication.
AddImplication ==
  /\ pc = "classify"
  /\ LET rhs == setdifference(closure(A), A)
     IN  /\ NonEmpty(rhs)
         /\ basis' = Append(basis, [lhs |-> A, rhs |-> rhs])
  /\ candB' = closure(A)
  /\ pc' = "check"
  /\ UNCHANGED <<inputs, A, a_i, grade, closing, concepts>>

\* checkInterrupt() is false.
Continue ==
  /\ pc = "check"
  /\ pc' = "loop"
  /\ UNCHANGED <<inputs, A, search, closing, results>>

\* checkInterrupt() is true: what was found so far is returned.
Interrupt ==
  /\ pc = "check"
  /\ pc' = "interrupted"
  /\ UNCHANGED <<inputs, A, search, closing, results>>

Next ==
  \/ Start
  \/ EnterSearch
  \/ Finish
  \/ Skip
  \/ EnterClosure
  \/ Fire
  \/ Reject
  \/ Accept
  \/ AddConcept
  \/ AddImplication
  \/ Continue
  \/ Interrupt

Spec == Init /\ [][Next]_vars

\* The algorithm runs in one thread and never waits.
FairSpec == Spec /\ WF_vars(Next)
-----------------------------------------------------------------------------
ConceptRecords == [intent : AttrSets, extent : ObjectSets]
Implications == [lhs : AttrSets, rhs : AttrSets]

\* Types.  A candidate degree of the context is under test during a search.
TypeOK ==
  /\ I \in Contexts
  /\ logic \in LogicNames
  /\ connection \in Connections
  /\ Representable(connection, logic)
  /\ pc \in {"start", "loop", "search", "closing", "classify", "check", "done",
             "interrupted"}
  /\ A \in AttrSets
  /\ candB \in AttrSets
  /\ a_i \in Attributes \cup {NoAttribute}
  /\ grade \in Grades
  /\ pc \in {"search", "closing"} => grade \in GradesSet(I) \ {0}
  /\ candB2 \in AttrSets
  /\ fired \subseteq DOMAIN basis
  /\ basis \in Seq(Implications)
  /\ concepts \in Seq(ConceptRecords)

Intents == {concepts[k].intent : k \in DOMAIN concepts}
Basis == {basis[k] : k \in DOMAIN basis}

\* B respects an implication when it holds the conclusion or not the premise.
Respects(B, imp) == Leq(imp.lhs, B) => Leq(imp.rhs, B)
Model(B) == \A imp \in Basis : Respects(B, imp)

\* No implication follows from the others.
NonRedundant ==
  \A k \in DOMAIN basis : \E B \in AttrSets :
    /\ ~Respects(B, basis[k])
    /\ \A j \in DOMAIN basis \ {k} : Respects(B, basis[j])

\* semantic_closure looks at no implication twice, and still its result
\* respects all of them.
ClosureRespectsBasis == pc = "closing" /\ is_subset(candB2) = {} => Model(candB2)

status == CASE pc = "done"        -> "finished"
            [] pc = "interrupted" -> "interrupted"
            [] OTHER              -> "running"

\* The list of concepts grows towards what find_concepts promises.
ConceptsOf == INSTANCE ConceptMiner WITH reported <- Intents, status <- status
ImplementsConceptMiner == ConceptsOf!Spec

\* The basis grows towards what find_implications promises.
BasisOf == INSTANCE ImplicationMiner WITH reported <- Basis, status <- status
ImplementsImplicationMiner == BasisOf!Spec

\* The strengthening that makes the properties above inductive.

\* The operator intent-of-extent is a closure operator for these connections.
ClosureConnection == connection \in {"standard", "benevolent2"}

\* The premises are listed in lectic order up to A, and each respects the
\* implications found before it.
BasisInv ==
  /\ pc = "start" => basis = <<>> /\ concepts = <<>>
  /\ pc = "classify" => Model(A)
  /\ \A n \in DOMAIN basis :
       /\ basis[n].rhs = setdifference(closure(basis[n].lhs), basis[n].lhs)
       /\ NonEmpty(basis[n].rhs)
       /\ LecticLess(basis[n].lhs, A) \/ (pc # "classify" /\ basis[n].lhs = A)
  /\ \A m, n \in DOMAIN basis :
       m < n => /\ LecticLess(basis[m].lhs, basis[n].lhs)
                /\ Respects(basis[n].lhs, basis[m])

\* semantic_closure stays below every set that contains the direct sum and
\* respects the basis, and holds what it has fired.
ClosingInv ==
  pc = "closing" =>
    /\ a_i \in Attributes
    /\ can_add(A, a_i, grade)
    /\ candB = direct_sum(A, a_i, grade)
    /\ Leq(candB, candB2)
    /\ \A n \in fired : Leq(basis[n].rhs, candB2)
    /\ \A B \in AttrSets : Leq(candB, B) /\ Model(B) => Leq(candB2, B)

\* The intents are listed in lectic order up to A.
ConceptInv ==
  \A B \in Intents :
    /\ Closed(connection, logic, I, B)
    /\ LecticLess(B, A) \/ (pc # "classify" /\ B = A)

\* The sets the search still has to find respect the basis.  None of them is
\* passed over: they come after A, and depart from A at a pair of an attribute
\* and a degree that the search has not left behind.
Handled(B) ==
  Closed(connection, logic, I, B) /\ (save_concepts => B \in Intents)

SearchInv ==
  /\ pc \in {"search", "closing"} => BelowFull(A)
  /\ pc # "start" =>
       \A B \in AttrSets : Graded(I, B) /\ Model(B) =>
         Handled(B) \/ LecticLess(A, B) \/ (pc = "classify" /\ B = A)
  /\ pc \in {"search", "closing"} =>
       \A B \in AttrSets, d \in Attributes :
         Graded(I, B) /\ Model(B) /\ LecticAt(A, B, d) =>
           d < a_i \/ (d = a_i /\ grade <= B[d])

\* When closures are graded, so are the sets the search deals with, and the
\* premises are pseudo-closed.
CanonicalInv ==
  BasisOf!SelfGraded =>
    /\ Graded(I, A)
    /\ pc = "closing" => Graded(I, candB2)
    /\ \A n \in DOMAIN basis : basis[n].lhs \in BasisOf!PseudoClosed

Inv ==
  /\ BasisInv
  /\ ClosingInv
  /\ ClosureConnection => ConceptInv /\ SearchInv /\ CanonicalInv

\* The enumeration ends: the search of compute_next_closure never runs out of
\* attributes either, for which the model has no step.
Termination == <>(pc \in {"done", "interrupted"})
=============================================================================
