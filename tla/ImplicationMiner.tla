-------------------------- MODULE ImplicationMiner --------------------------
(***************************************************************************)
(* What FormalContext$find_implications promises: a basis of the context.  *)
(* It reports implications that hold, none twice, and when it says that it *)
(* has finished they entail all that hold.  When closures have no degrees  *)
(* but those of the context, the basis is the canonical one, with one      *)
(* implication for every pseudo-closed set.  A user interrupt leaves a     *)
(* part of it.                                                             *)
(***************************************************************************)
EXTENDS Galois

VARIABLES
  I, logic, connection,   \* the context, its logic and its Galois connection
  reported,               \* the implications reported so far
  status                  \* "running", "finished" or "interrupted"

vars == <<I, logic, connection, reported, status>>

\* The graded sets of the context that are not closed and contain the closure
\* of every smaller set of their kind: the premises of the canonical basis.
PseudoClosed ==
  LET closureOf == [B \in AttrSets |-> compute_closure(connection, logic, I, B)]
      pseudo[B \in AttrSets] ==
        /\ Graded(I, B)
        /\ closureOf[B] # B
        /\ \A Q \in AttrSets :
             Leq(Q, B) /\ Q # B /\ Graded(I, Q) /\ closureOf[Q] # Q /\ pseudo[Q]
               => Leq(closureOf[Q], B)
  IN  {B \in AttrSets : pseudo[B]}

\* The conclusion holds the degrees that the closure adds.
CanonicalImplication(B) ==
  LET C == compute_closure(connection, logic, I, B)
  IN  [lhs |-> B, rhs |-> [c \in Attributes |-> IF C[c] > B[c] THEN C[c] ELSE 0]]

CanonicalBasis == {CanonicalImplication(B) : B \in PseudoClosed}

\* Closures of graded sets are graded.
SelfGraded ==
  \A B \in AttrSets :
    Graded(I, B) => Graded(I, compute_closure(connection, logic, I, B))

Respects(B, imp) == Leq(imp.lhs, B) => Leq(imp.rhs, B)

\* An implication holds when the intents respect it.
Holds(imp) ==
  \A B \in AttrSets : Closed(connection, logic, I, B) => Respects(B, imp)

\* The graded sets that respect what is reported are intents.
Complete ==
  \A B \in AttrSets :
    Graded(I, B) /\ (\A imp \in reported : Respects(B, imp))
      => Closed(connection, logic, I, B)

Init ==
  /\ I \in Contexts
  /\ logic \in LogicNames
  /\ connection \in Connections
  /\ reported = {}
  /\ status = "running"

Report ==
  /\ status = "running"
  /\ \E imp \in reported' \ reported :
       /\ reported' = reported \cup {imp}
       /\ IF SelfGraded THEN imp \in CanonicalBasis ELSE Holds(imp)
  /\ UNCHANGED <<I, logic, connection, status>>

Finish ==
  /\ status = "running"
  /\ status' = "finished"
  /\ IF SelfGraded THEN reported = CanonicalBasis ELSE Complete
  /\ UNCHANGED <<I, logic, connection, reported>>

Interrupt ==
  /\ status = "running"
  /\ status' = "interrupted"
  /\ UNCHANGED <<I, logic, connection, reported>>

Next == Report \/ Finish \/ Interrupt

Spec == Init /\ [][Next]_vars
=============================================================================
