------------------------ MODULE NextClosureConcepts -------------------------
(***************************************************************************)
(* Ganter's NextClosure over graded attributes: next_closure_concepts and  *)
(* the search compute_next_intent it calls (src/nextclosure.cpp), the      *)
(* engine behind FormalContext$find_concepts(method = "NextClosure").      *)
(*                                                                         *)
(* One step of the specification is one step of the search: a candidate    *)
(* attribute and degree that is skipped, rejected or accepted.             *)
(***************************************************************************)
EXTENDS LecticSearch, Sequences

CONSTANTS
  InitContexts,      \* the matrices a run of the algorithm may be given
  InitLogics,        \* the logic names it may be given
  InitConnections,   \* the connection names it may be given
  MaxConcepts        \* bound: a run stops before it lists more concepts

ASSUME InputAssumption ==
  /\ InitContexts \subseteq Contexts
  /\ InitLogics \subseteq LogicNames
  /\ InitConnections \subseteq Connections
  /\ MaxConcepts \in Nat

VARIABLES
  I, logic, connection,  \* the arguments: matrix, name and connection
  pc,                    \* where the code is
  A,                     \* the last intent found
  candB,                 \* the candidate of the search (A2 in the caller)
  a_i, grade,            \* the attribute and the degree under test
  concepts               \* the columns of concepts and extents

inputs == <<I, logic, connection>>
vars == <<I, logic, connection, pc, A, candB, a_i, grade, concepts>>

closure(V) == compute_closure(connection, logic, I, V)
extent(V) == extent_f(connection, logic, I, V)

\* Mutant: the extent is computed from the intent found before.
Concept_StaleExtent(B) == [intent |-> B, extent |-> extent(A)]

Concept(B) == [intent |-> B, extent |-> extent(B)]
-----------------------------------------------------------------------------
Init ==
  /\ I \in InitContexts
  /\ logic \in InitLogics
  /\ connection \in InitConnections
  /\ Representable(connection, logic)
  /\ pc = "start"
  /\ A = EmptySet
  /\ candB = EmptySet
  /\ a_i = NoAttribute
  /\ grade = 0
  /\ concepts = <<>>

\* The first concept: the closure of the empty set.
Start ==
  /\ pc = "start"
  /\ A' = closure(EmptySet)
  /\ concepts' = <<Concept(closure(EmptySet))>>
  /\ pc' = "loop"
  /\ UNCHANGED <<inputs, candB, a_i, grade>>

\* while (cardinal(A) < n_attributes): call compute_next_intent.
EnterSearch ==
  /\ pc = "loop"
  /\ BelowFull(A)
  /\ candB' = EmptySet
  /\ a_i' = NAttr - 1
  /\ grade' = FirstGrade(I)
  /\ pc' = "search"
  /\ UNCHANGED <<inputs, A, concepts>>

Finish ==
  /\ pc = "loop"
  /\ ~BelowFull(A)
  /\ pc' = "done"
  /\ UNCHANGED <<inputs, A, candB, a_i, grade, concepts>>

\* Mutant: the inner loop starts with the degree 0.
Advance_FromZero ==
  IF grade < K
  THEN /\ grade' = NextGrade(I, grade)
       /\ a_i' = a_i
  ELSE /\ grade' = 0
       /\ a_i' = a_i - 1

\* Mutant: the outer loop does not move on.
Advance_Stuck ==
  /\ grade' = IF grade < K THEN NextGrade(I, grade) ELSE FirstGrade(I)
  /\ a_i' = a_i

\* The increments of the two nested loops.
Advance ==
  IF grade < K
  THEN /\ grade' = NextGrade(I, grade)
       /\ a_i' = a_i
  ELSE /\ grade' = FirstGrade(I)
       /\ a_i' = a_i - 1

\* A already has a_i to the degree under test: continue with the next one.
\* The buffer holds the sum all the same.
Skip ==
  /\ pc = "search"
  /\ a_i # NoAttribute
  /\ ~can_add(A, a_i, grade)
  /\ candB' = direct_sum(A, a_i, grade)
  /\ Advance
  /\ UNCHANGED <<inputs, pc, A, concepts>>

\* The closure of the sum changes A below a_i, or the degree of a_i.
Reject ==
  /\ pc = "search"
  /\ a_i # NoAttribute
  /\ can_add(A, a_i, grade)
  /\ LET S == direct_sum(A, a_i, grade)
     IN  /\ ~is_set_preceding(A, closure(S), a_i, grade)
         /\ candB' = S
  /\ Advance
  /\ UNCHANGED <<inputs, pc, A, concepts>>

\* The closure of the sum is the next intent.
Accept ==
  /\ pc = "search"
  /\ a_i # NoAttribute
  /\ can_add(A, a_i, grade)
  /\ LET C == closure(direct_sum(A, a_i, grade))
     IN  /\ is_set_preceding(A, C, a_i, grade)
         /\ candB' = C
  /\ pc' = "add"
  /\ UNCHANGED <<inputs, A, a_i, grade, concepts>>

\* Both loops run out.  The message "Something went wrong..." is commented
\* out, so the caller goes on with the last sum that was tried.
FallThrough ==
  /\ pc = "search"
  /\ a_i = NoAttribute
  /\ pc' = "add"
  /\ UNCHANGED <<inputs, A, candB, a_i, grade, concepts>>

AddConcept ==
  /\ pc = "add"
  /\ Len(concepts) < MaxConcepts
  /\ concepts' = Append(concepts, Concept(candB))
  /\ pc' = "check"
  /\ UNCHANGED <<inputs, A, candB, a_i, grade>>

\* Mutant: the current intent is not replaced.
Continue_Forgets ==
  /\ pc = "check"
  /\ pc' = "loop"
  /\ UNCHANGED <<inputs, A, candB, a_i, grade, concepts>>

\* checkInterrupt() is false: the candidate becomes the current intent.
Continue ==
  /\ pc = "check"
  /\ A' = candB
  /\ pc' = "loop"
  /\ UNCHANGED <<inputs, candB, a_i, grade, concepts>>

\* checkInterrupt() is true: what was found so far is returned.
Interrupt ==
  /\ pc = "check"
  /\ pc' = "interrupted"
  /\ UNCHANGED <<inputs, A, candB, a_i, grade, concepts>>

Next ==
  \/ Start
  \/ EnterSearch
  \/ Finish
  \/ Skip
  \/ Reject
  \/ Accept
  \/ FallThrough
  \/ AddConcept
  \/ Continue
  \/ Interrupt

Spec == Init /\ [][Next]_vars

\* The algorithm runs in one thread and never waits.
FairSpec == Spec /\ WF_vars(Next)
-----------------------------------------------------------------------------
ConceptRecords == [intent : AttrSets, extent : ObjectSets]

\* Types.  A search is under way exactly when a candidate degree of the
\* context is under test; outside the initial state A is a listed intent.
TypeOK ==
  /\ I \in Contexts
  /\ logic \in LogicNames
  /\ connection \in Connections
  /\ Representable(connection, logic)
  /\ pc \in {"start", "loop", "search", "add", "check", "done", "interrupted"}
  /\ A \in AttrSets
  /\ candB \in AttrSets
  /\ a_i \in Attributes \cup {NoAttribute}
  /\ grade \in Grades
  /\ pc = "search" => grade \in GradesSet(I) \ {0}
  /\ concepts \in Seq(ConceptRecords)

Intents == {concepts[k].intent : k \in DOMAIN concepts}

\* The operator intent-of-extent is a closure operator for these connections.
ClosureConnection == connection \in {"standard", "benevolent2"}

\* Every pair of columns the algorithm lists is a concept: its extent is the
\* extent of its intent and its intent the intent of its extent.
PairsAreConcepts ==
  \A k \in DOMAIN concepts :
    /\ intent_f(connection, logic, I, concepts[k].extent) = concepts[k].intent
    /\ extent_f(connection, logic, I, concepts[k].intent) = concepts[k].extent

\* Under a closure connection it does so; "benevolent1" is another matter.
OnlyConcepts == ClosureConnection => PairsAreConcepts

\* The intents are listed in strictly increasing lectic order, so that no
\* concept is listed twice although the code keeps no record to compare with.
LecticOrder ==
  ClosureConnection =>
    \A j, k \in DOMAIN concepts :
      j < k => LecticLess(concepts[j].intent, concepts[k].intent)

\* Moving from one intent to the next passes over none: at any time an intent
\* with the degrees of the context that is not listed is lectically greater
\* than all that are.
NoneSkipped ==
  ClosureConnection /\ pc # "start" =>
    \A B \in AttrSets :
      Graded(I, B) /\ Closed(connection, logic, I, B) /\ B \notin Intents
        => \A C \in Intents : LecticLess(C, B)

\* The search of compute_next_intent never runs out of attributes, so the
\* caller never lists the half-made candidate that is left in the buffer.
SearchSucceeds ==
  ClosureConnection => ~(pc = "search" /\ a_i = NoAttribute)

\* The strengthening that makes the properties above inductive.  The column
\* listed last is where the search starts; the search has left behind only
\* pairs of an attribute and a degree at which no intent with the degrees of
\* the context departs from A; an accepted candidate has none of these intents
\* between A and itself.
Target(B) == Graded(I, B) /\ Closed(connection, logic, I, B)

Last == concepts[Len(concepts)].intent

ListedInv ==
  /\ pc = "start" <=> concepts = <<>>
  /\ \A k \in DOMAIN concepts :
       /\ Closed(connection, logic, I, concepts[k].intent)
       /\ concepts[k].extent = extent(concepts[k].intent)
  /\ \A j, k \in DOMAIN concepts :
       j < k => LecticLess(concepts[j].intent, concepts[k].intent)
  /\ pc # "start" =>
       \A B \in AttrSets : Target(B) => B \in Intents \/ LecticLess(Last, B)

SearchInv ==
  /\ pc \in {"loop", "search", "add", "done"} => A = Last
  /\ pc = "search" =>
       /\ BelowFull(A)
       /\ \A B \in AttrSets, d \in Attributes : Target(B) /\ LecticAt(A, B, d) =>
            d < a_i \/ (d = a_i /\ grade <= B[d])
  /\ pc = "add" =>
       /\ Closed(connection, logic, I, candB)
       /\ LecticLess(A, candB)
       /\ \A B \in AttrSets : Target(B) /\ LecticLess(A, B) =>
            B = candB \/ LecticLess(candB, B)
  /\ pc = "check" => candB = Last

Inv == ClosureConnection => ListedInv /\ SearchInv

\* When the algorithm has finished, the closure of every set with degrees of
\* the context is the intent of a listed concept.
ClosuresListed ==
  pc = "done" => \A B \in AttrSets : Graded(I, B) => closure(B) \in Intents

\* The list grows towards what find_concepts promises (module ConceptMiner).
\* Nothing is promised of a connection whose operator is not a closure.
Promised == IF ClosureConnection THEN Intents ELSE {}

MinerStatus ==
  CASE ClosureConnection /\ pc = "done"        -> "finished"
    [] ClosureConnection /\ pc = "interrupted" -> "interrupted"
    [] OTHER                                   -> "running"

Miner == INSTANCE ConceptMiner WITH reported <- Promised, status <- MinerStatus

ImplementsMiner == Miner!Spec

\* Under a closure connection the enumeration ends.
Termination == ClosureConnection ~> pc \in {"done", "interrupted"}
=============================================================================
