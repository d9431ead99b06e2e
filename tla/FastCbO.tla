------------------------------ MODULE FastCbO -------------------------------
(***************************************************************************)
(* Fast Close-by-One over graded attributes: FuzzyFCbO and                 *)
(* FuzzyFastGenerateFrom4 (src/fastcbo.cpp), the method "FastCbO" of       *)
(* FormalContext$find_concepts.                                            *)
(*                                                                         *)
(* A call lists its concept, tries all later attributes and degrees, and   *)
(* keeps the closures that fail the canonicity test in a matrix, so that   *)
(* the calls below need not compute them again.  The recursion is an       *)
(* explicit stack; one step is one pair tried, or one call or return.      *)
(* The arguments connection and name are not used by the code.             *)
(***************************************************************************)
EXTENDS Galois, Sequences

VARIABLES
  I,         \* the matrix
  pc,        \* where the code is
  stack,     \* the calls of FuzzyFastGenerateFrom4
  columns    \* the columns of intents and extents

state == <<pc, stack, columns>>

\* Mutant: the attribute of the call is tried again.
Call_Again(A, B, y, Ny) ==
  [A |-> A, B |-> B, y |-> y, Ny |-> Ny, Mj |-> Ny, queue |-> <<>>,
   j |-> IF BelowFull(B) THEN Max({y, 0}) ELSE NAttr, g |-> 0]

\* A call with the concept (A, B), the attribute y and the parent's matrix Ny;
\* Mj is its own copy.  The loops are at <<j, g>>.  The code does not enter
\* them when B is full.
Call(A, B, y, Ny) ==
  [A |-> A, B |-> B, y |-> y, Ny |-> Ny, Mj |-> Ny, queue |-> <<>>,
   j |-> IF BelowFull(B) THEN y + 1 ELSE NAttr, g |-> 0]

NoFailures == [h \in Grades |-> [c \in Attributes |-> EmptySet]]

Column(A, B) == [intent |-> B, extent |-> A]

Top == stack[Len(stack)]
ReplaceTop(f) == [stack EXCEPT ![Len(stack)] = f]

NextAttribute(f) == [f EXCEPT !.j = @ + 1, !.g = 0]
NextGradeAfter(f, g) ==
  IF g < K THEN [f EXCEPT !.g = Min({h \in GradesSet(I) : h > g})]
  ELSE NextAttribute(f)

\* The first degree from g on that is above the degree of j in B.
FirstAbove(f) == Min({h \in GradesSet(I) : h >= f.g /\ h > f.B[f.j]})

\* foo, the objects of A that have j to the degree g.
Narrow(f, g) ==
  [o \in Objects |->
     IF I[o][f.j] < g /\ I[o][f.j] < f.A[o] THEN I[o][f.j] ELSE f.A[o]]

\* Mutant: the whole row is compared.
FailedAbove_All(f, g) == \E s \in Attributes : f.Ny[g][f.j][s] > f.B[s]

\* The closure of j to the degree g failed above, for an attribute that B has
\* not got to that degree either.
FailedAbove(f, g) ==
  \E s \in Attributes : s < f.j /\ f.Ny[g][f.j][s] > f.B[s]

Canonical(f, D) == \A s \in Attributes : s < f.j => D[s] <= f.B[s]

\* The positive degrees of D are written to row <<g, j>> of the matrix.
Record(f, g, D) ==
  [f EXCEPT !.Mj[g][f.j] = [s \in Attributes |-> IF D[s] > 0 THEN D[s] ELSE @[s]]]

Running == pc = "core" /\ stack # <<>> /\ Top.j < NAttr
-----------------------------------------------------------------------------
Start ==
  /\ pc = "start"
  /\ LET A == compute_extent("Godel", I, EmptySet)
         C == compute_intent("Godel", I, A)
     IN  /\ columns' = <<Column(A, C)>>
         /\ stack' = <<Call(A, C, -1, NoFailures)>>
  /\ pc' = "core"

SkipAttribute ==
  /\ Running
  /\ Top.B[Top.j] = K
  /\ stack' = ReplaceTop(NextAttribute(Top))
  /\ UNCHANGED <<pc, columns>>

SkipFailed ==
  /\ Running
  /\ Top.B[Top.j] < K
  /\ LET g == FirstAbove(Top)
     IN  /\ FailedAbove(Top, g)
         /\ stack' = ReplaceTop(NextGradeAfter(Top, g))
  /\ UNCHANGED <<pc, columns>>

\* A child to be called when the loops are over.
Enqueue ==
  /\ Running
  /\ Top.B[Top.j] < K
  /\ LET g == FirstAbove(Top)
         E == Narrow(Top, g)
         D == compute_intent("Godel", I, E)
     IN  /\ ~FailedAbove(Top, g)
         /\ Canonical(Top, D)
         /\ stack' = ReplaceTop(NextGradeAfter(
              [Top EXCEPT !.queue = Append(@, [A |-> E, B |-> D, y |-> Top.j])],
              D[Top.j]))
  /\ UNCHANGED <<pc, columns>>

\* Mutant: the grade is not advanced to the one the closure reaches.
Reject_Repeats ==
  /\ Running
  /\ Top.B[Top.j] < K
  /\ LET g == FirstAbove(Top)
         D == compute_intent("Godel", I, Narrow(Top, g))
     IN  /\ ~FailedAbove(Top, g)
         /\ ~Canonical(Top, D)
         /\ stack' = ReplaceTop([Record(Top, g, D) EXCEPT !.g = g])
  /\ UNCHANGED <<pc, columns>>

Reject ==
  /\ Running
  /\ Top.B[Top.j] < K
  /\ LET g == FirstAbove(Top)
         D == compute_intent("Godel", I, Narrow(Top, g))
     IN  /\ ~FailedAbove(Top, g)
         /\ ~Canonical(Top, D)
         /\ stack' = ReplaceTop(NextGradeAfter(Record(Top, D[Top.j], D), D[Top.j]))
  /\ UNCHANGED <<pc, columns>>

\* Call the function on the next child: it lists its concept first.
Recurse ==
  /\ pc = "core"
  /\ stack # <<>>
  /\ Top.j = NAttr
  /\ Top.queue # <<>>
  /\ LET child == Head(Top.queue)
     IN  /\ columns' = Append(columns, Column(child.A, child.B))
         /\ stack' = Append(ReplaceTop([Top EXCEPT !.queue = Tail(@)]),
                            Call(child.A, child.B, child.y, Top.Mj))
  /\ UNCHANGED pc

Return ==
  /\ pc = "core"
  /\ stack # <<>>
  /\ Top.j = NAttr
  /\ Top.queue = <<>>
  /\ stack' = SubSeq(stack, 1, Len(stack) - 1)
  /\ UNCHANGED <<pc, columns>>

Finish ==
  /\ pc = "core"
  /\ stack = <<>>
  /\ pc' = "done"
  /\ UNCHANGED <<stack, columns>>

Next ==
  \/ Start
  \/ SkipAttribute
  \/ SkipFailed
  \/ Enqueue
  \/ Reject
  \/ Recurse
  \/ Return
  \/ Finish
-----------------------------------------------------------------------------
\* A closure that failed the test above would fail it here as well: skipping
\* the pair without computing its closure misses no concept.
PruningSound ==
  Running /\ Top.B[Top.j] < K =>
    LET g == FirstAbove(Top)
    IN  FailedAbove(Top, g) =>
          ~Canonical(Top, compute_intent("Godel", I, Narrow(Top, g)))
=============================================================================
