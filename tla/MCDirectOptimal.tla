-------------------------- MODULE MCDirectOptimal ---------------------------
(***************************************************************************)
(* Instances of DirectOptimal for TLC.                                     *)
(***************************************************************************)
EXTENDS DirectOptimal

\* Systems of two rules with different premises, in the order of the map.
Pairs(R) == {q \in R \X R : LecticLess(q[1].lhs, q[2].lhs)}

\* Crisp ones over the first three attributes, with nothing concluded that is in the premise.
CrispSets == {V \in [Attributes -> {0, K}] : \A c \in Attributes : c > 2 => V[c] = 0}
CrispRules ==
  {r \in [lhs : CrispSets, rhs : CrispSets] :
     NonEmpty(r.rhs) /\ \A c \in Attributes : r.lhs[c] = 0 \/ r.rhs[c] = 0}
CrispColumns == Pairs(CrispRules)

\* Graded ones over the first two attributes, with one attribute concluded.
GradedSets == {V \in AttrSets : \A c \in Attributes : c > 1 => V[c] = 0}
GradedRules ==
  {r \in [lhs : GradedSets, rhs : GradedSets] :
     Cardinality({c \in Attributes : r.rhs[c] > 0}) = 1}
GradedColumns == Pairs(GradedRules)

\* A chain, a cycle and a fork of three rules, and two rules with one premise.
Only(c) == [x \in Attributes |-> IF x = c THEN K ELSE 0]
Both(c, d) == [x \in Attributes |-> IF x \in {c, d} THEN K ELSE 0]
Rule(A, B) == [lhs |-> A, rhs |-> B]
Chain == <<Rule(Only(0), Only(1)), Rule(Only(1), Only(2)), Rule(EmptySet, Only(0))>>
Cycle == <<Rule(Only(0), Only(1)), Rule(Only(1), Only(2)), Rule(Only(2), Only(0))>>
Fork == <<Rule(Only(0), Only(1)), Rule(Only(0), Only(2))>>
Purged == <<Rule(Only(3), Only(2)), Rule(Only(2), Only(1)), Rule(Both(0, 2), Only(3))>>
OnlyPurged == {Purged}

MixedColumns == CrispColumns \cup GradedColumns \cup {Chain, Cycle, Fork, Purged}

BothLogics == {"Godel", "Lukasiewicz"}
OnlyGodel == {"Godel"}
=============================================================================
