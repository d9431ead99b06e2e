------------------------- MODULE BinaryNextClosure --------------------------
(***************************************************************************)
(* NextClosure over pseudo-closed sets on bit sets:                        *)
(* binary_next_closure_implications and its solver                         *)
(* (src/binary_next_closure.cpp), the engine behind                        *)
(* FormalContext$find_implications on a binary context.                    *)
(*                                                                         *)
(* A bit set is the set of the positions of its ones.  One step of the     *)
(* specification is one implication looked at by lin_closure, or one       *)
(* candidate attribute that is cleared, rejected or accepted.              *)
(***************************************************************************)
EXTENDS Integers, Sequences

CONSTANTS
  Objects,        \* the rows of the matrix
  NAttr,          \* n_attr, its number of columns
  InitContexts,   \* the matrices a run of the algorithm may be given
  WordLength,     \* 64 in the code: the attributes in a word of a bit set
  CheckEvery      \* 100 in the code: how rarely it looks for an interrupt

Attributes == 0 .. NAttr - 1

ASSUME BinaryAssumption ==
  /\ NAttr \in Nat \ {0}
  /\ InitContexts \subseteq [Objects -> SUBSET Attributes]
  /\ WordLength \in Nat \ {0}
  /\ CheckEvery \in Nat \ {0}

VARIABLES
  I,          \* the matrix: attributes_by_obj
  pc,         \* where the code is
  A,          \* the current set; the search takes it apart
  i,          \* the attribute under test
  candidate,  \* the set lin_closure works on
  k, changed, \* the loop variables of lin_closure
  basis,      \* basis, and the columns of LHS and RHS
  concepts    \* the columns of Intents and Extents

vars == <<I, pc, A, i, candidate, k, changed, basis, concepts>>

NoAttribute == -1

\* objects_by_attr, and the two steps of compute_context_closure.
temp_extent(B) == {r \in Objects : B \subseteq I[r]}
context_closure(B) == {c \in Attributes : \A r \in temp_extent(B) : c \in I[r]}

\* The ones of B in its b-th word.
Block(B, b) == {c \in B : c \div WordLength = b}

\* Mutant: the words before that of n are not compared.
equal_prefix_LastWord(B, C, n) ==
  LET block == n \div WordLength
      masked(S) == {c \in Block(S, block) : c % WordLength < n % WordLength}
  IN  n % WordLength > 0 => masked(B) = masked(C)

\* The words before that of n are compared whole, and of its word the bits
\* below n, if there are any.
equal_prefix(B, C, n) ==
  LET block == n \div WordLength
      masked(S) == {c \in Block(S, block) : c % WordLength < n % WordLength}
  IN  /\ \A b \in 0 .. block - 1 : Block(B, b) = Block(C, b)
      /\ n % WordLength > 0 => masked(B) = masked(C)
-----------------------------------------------------------------------------
Init ==
  /\ I \in InitContexts
  /\ pc = "loop"
  /\ A = {}
  /\ i = NoAttribute
  /\ candidate = {}
  /\ k = 1
  /\ changed = FALSE
  /\ basis = <<>>
  /\ concepts = <<>>

\* checkUserInterrupt raises an R error: the caller gets no result.
Interrupt ==
  /\ pc = "loop"
  /\ Len(concepts) % CheckEvery = 0
  /\ pc' = "interrupted"
  /\ UNCHANGED <<I, A, i, candidate, k, changed, basis, concepts>>

\* A is closed: it is saved with the extent the closure was computed from.
AddConcept ==
  /\ pc = "loop"
  /\ A = context_closure(A)
  /\ concepts' = Append(concepts, [intent |-> A, extent |-> temp_extent(A)])
  /\ i' = NAttr - 1
  /\ pc' = "search"
  /\ UNCHANGED <<I, A, candidate, k, changed, basis>>

\* Mutant: the conclusion repeats the premise.
AddImplication_Whole ==
  /\ pc = "loop"
  /\ A # context_closure(A)
  /\ basis' = Append(basis, [lhs |-> A, rhs |-> context_closure(A)])
  /\ i' = NAttr - 1
  /\ pc' = "search"
  /\ UNCHANGED <<I, A, candidate, k, changed, concepts>>

\* A is pseudo-closed.
AddImplication ==
  /\ pc = "loop"
  /\ A # context_closure(A)
  /\ basis' = Append(basis, [lhs |-> A, rhs |-> context_closure(A) \ A])
  /\ i' = NAttr - 1
  /\ pc' = "search"
  /\ UNCHANGED <<I, A, candidate, k, changed, concepts>>

Unset ==
  /\ pc = "search"
  /\ i \in A
  /\ A' = A \ {i}
  /\ i' = i - 1
  /\ UNCHANGED <<I, pc, candidate, k, changed, basis, concepts>>

\* Mutant: the first index is 0.
EnterClosure_FromZero ==
  /\ pc = "search"
  /\ i # NoAttribute
  /\ i \notin A
  /\ candidate' = A \cup {i}
  /\ k' = 0
  /\ changed' = FALSE
  /\ pc' = "closing"
  /\ UNCHANGED <<I, A, i, basis, concepts>>

\* Call lin_closure on A with i.
EnterClosure ==
  /\ pc = "search"
  /\ i # NoAttribute
  /\ i \notin A
  /\ candidate' = A \cup {i}
  /\ k' = 1
  /\ changed' = FALSE
  /\ pc' = "closing"
  /\ UNCHANGED <<I, A, i, basis, concepts>>

Applies(imp) == imp.lhs \subseteq candidate /\ ~(imp.rhs \subseteq candidate)

\* Mutant: the flag that asks for another pass is not set.
Fire_NoFlag ==
  /\ pc = "closing"
  /\ k \in DOMAIN basis
  /\ Applies(basis[k])
  /\ candidate' = candidate \cup basis[k].rhs
  /\ k' = k + 1
  /\ UNCHANGED <<I, pc, A, i, changed, basis, concepts>>

Fire ==
  /\ pc = "closing"
  /\ k \in DOMAIN basis
  /\ Applies(basis[k])
  /\ candidate' = candidate \cup basis[k].rhs
  /\ changed' = TRUE
  /\ k' = k + 1
  /\ UNCHANGED <<I, pc, A, i, basis, concepts>>

PassOver ==
  /\ pc = "closing"
  /\ k \in DOMAIN basis
  /\ ~Applies(basis[k])
  /\ k' = k + 1
  /\ UNCHANGED <<I, pc, A, i, candidate, changed, basis, concepts>>

\* Mutant: the flag is not cleared.
NextPass_Endless ==
  /\ pc = "closing"
  /\ k \notin DOMAIN basis
  /\ changed
  /\ k' = 1
  /\ UNCHANGED <<I, pc, A, i, candidate, changed, basis, concepts>>

\* A pass over the basis has changed the candidate: another one.
NextPass ==
  /\ pc = "closing"
  /\ k \notin DOMAIN basis
  /\ changed
  /\ k' = 1
  /\ changed' = FALSE
  /\ UNCHANGED <<I, pc, A, i, candidate, basis, concepts>>

Reject ==
  /\ pc = "closing"
  /\ k \notin DOMAIN basis
  /\ ~changed
  /\ ~equal_prefix(candidate, A, i)
  /\ i' = i - 1
  /\ pc' = "search"
  /\ UNCHANGED <<I, A, candidate, k, changed, basis, concepts>>

Accept ==
  /\ pc = "closing"
  /\ k \notin DOMAIN basis
  /\ ~changed
  /\ equal_prefix(candidate, A, i)
  /\ A' = candidate
  /\ pc' = "loop"
  /\ UNCHANGED <<I, i, candidate, k, changed, basis, concepts>>

\* No success: the matrices are built and returned.
Finish ==
  /\ pc = "search"
  /\ i = NoAttribute
  /\ pc' = "done"
  /\ UNCHANGED <<I, A, i, candidate, k, changed, basis, concepts>>

Next ==
  \/ Interrupt
  \/ AddConcept
  \/ AddImplication
  \/ Unset
  \/ EnterClosure
  \/ Fire
  \/ PassOver
  \/ NextPass
  \/ Reject
  \/ Accept
  \/ Finish

Spec == Init /\ [][Next]_vars

\* The algorithm runs in one thread and never waits.
FairSpec == Spec /\ WF_vars(Next)
-----------------------------------------------------------------------------
ConceptRecords == [intent : SUBSET Attributes, extent : SUBSET Objects]
Implications == [lhs : SUBSET Attributes, rhs : SUBSET Attributes]

\* Types.  lin_closure looks at one implication of the basis at a time, and is
\* called on an attribute.
TypeOK ==
  /\ I \in [Objects -> SUBSET Attributes]
  /\ pc \in {"loop", "search", "closing", "done", "interrupted"}
  /\ A \in SUBSET Attributes
  /\ i \in Attributes \cup {NoAttribute}
  /\ pc = "closing" => i \in Attributes
  /\ candidate \in SUBSET Attributes
  /\ k \in 1 .. Len(basis) + 1
  /\ changed \in BOOLEAN
  /\ basis \in Seq(Implications)
  /\ concepts \in Seq(ConceptRecords)

Basis == {basis[n] : n \in DOMAIN basis}

Respects(B, imp) == imp.lhs \subseteq B => imp.rhs \subseteq B
Model(B) == \A imp \in Basis : Respects(B, imp)

\* lin_closure ends with the least set that contains A and i and respects the
\* basis, whatever the order in which the implications were found.
LinClosureLeast ==
  pc = "closing" /\ k \notin DOMAIN basis /\ ~changed =>
    /\ Model(candidate)
    /\ \A B \in SUBSET Attributes :
         A \cup {i} \subseteq B /\ Model(B) => candidate \subseteq B

status == CASE pc = "done"        -> "finished"
            [] pc = "interrupted" -> "interrupted"
            [] OTHER              -> "running"

\* A binary context is a graded one with the degrees 0 and 1.
Degrees(S) == [c \in Attributes |-> IF c \in S THEN 1 ELSE 0]

\* The list of concepts grows towards what find_concepts promises.
ConceptsOf == INSTANCE ConceptMiner WITH
  K          <- 1,
  I          <- [r \in Objects |-> Degrees(I[r])],
  logic      <- "Zadeh",
  connection <- "standard",
  reported   <- {Degrees(concepts[n].intent) : n \in DOMAIN concepts},
  status     <- status

ImplementsConceptMiner == ConceptsOf!Spec

\* The basis grows towards what find_implications promises.
BasisOf == INSTANCE ImplicationMiner WITH
  K          <- 1,
  I          <- [r \in Objects |-> Degrees(I[r])],
  logic      <- "Zadeh",
  connection <- "standard",
  reported   <- {[lhs |-> Degrees(imp.lhs), rhs |-> Degrees(imp.rhs)] :
                  imp \in Basis},
  status     <- status

ImplementsImplicationMiner == BasisOf!Spec

\* The strengthening that makes the properties above inductive.

Intents == {concepts[n].intent : n \in DOMAIN concepts}
Premises == {imp.lhs : imp \in Basis}

\* The lectic order of bit sets: d is the first position where B and C differ,
\* and C has it.
LecticAt(B, C, d) ==
  /\ d \in Attributes
  /\ d \notin B
  /\ d \in C
  /\ \A j \in Attributes : j < d => (j \in B <=> j \in C)

LecticLess(B, C) == \E d \in Attributes : LecticAt(B, C, d)

\* lin_closure stays below every set that contains A and i and respects the
\* basis; a pass that has changed nothing leaves no implication behind.
ClosingInv ==
  pc = "closing" =>
    /\ i \notin A
    /\ A \cup {i} \subseteq candidate
    /\ \A B \in SUBSET Attributes :
         A \cup {i} \subseteq B /\ Model(B) => candidate \subseteq B
    /\ ~changed => \A n \in DOMAIN basis :
                     n < k => Respects(candidate, basis[n])

\* What is listed is right.
ListedInv ==
  /\ \A B \in Intents : B = context_closure(B)
  /\ \A imp \in Basis : /\ Degrees(imp.lhs) \in BasisOf!PseudoClosed
                        /\ imp.rhs = context_closure(imp.lhs) \ imp.lhs

\* What is listed comes before A, of which the search has cut off the
\* attributes after i.
OrderInv ==
  /\ pc = "loop" => \A B \in Intents \cup Premises : LecticLess(B, A)
  /\ pc \in {"search", "closing"} =>
       /\ A \subseteq 0 .. i
       /\ \A B \in Intents \cup Premises :
            LecticLess(B, A) \/ (\A j \in 0 .. i : j \in B <=> j \in A)

\* A set that respects the basis is listed, or A itself, or comes after A and
\* departs from it at an attribute that the search has not left behind.
SearchInv ==
  /\ pc = "loop" =>
       /\ Model(A)
       /\ \A B \in (SUBSET Attributes) \ Intents :
            Model(B) => B = A \/ LecticLess(A, B)
  /\ pc \in {"search", "closing"} =>
       \A B \in (SUBSET Attributes) \ Intents :
         Model(B) => \E d \in 0 .. i : LecticAt(A, B, d)

Inv == ClosingInv /\ ListedInv /\ OrderInv /\ SearchInv

\* The enumeration ends.
Termination == <>(pc \in {"done", "interrupted"})
=============================================================================
