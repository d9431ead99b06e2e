---------------------------- MODULE LecticSearch ----------------------------
(***************************************************************************)
(* The parts that the two searches of src/nextclosure.cpp share: the       *)
(* degrees they try, the direct sum they try them with and the test that   *)
(* recognises the next set in the lectic order.                            *)
(***************************************************************************)
EXTENDS Galois

\* The value of a_i when the search is over: no attribute is left.
NoAttribute == -1

\* Mutant: the search starts with the last degree.
FirstGrade_Top(I) == K

\* grades_set[a_i][1] and the entry after g: the degrees are sorted.
FirstGrade(I) == Min(GradesSet(I) \ {0})

NextGrade(I, g) == Min({h \in GradesSet(I) : h > g})

\* Mutant: the attributes after i are kept.
direct_sum_Untruncated(B, i, g) ==
  [c \in Attributes |-> IF c = i THEN g ELSE B[c]]

\* The value compute_direct_sum leaves in its result: A below i, and i to the
\* degree g.
direct_sum(B, i, g) ==
  [c \in Attributes |-> IF c < i THEN B[c] ELSE IF c = i THEN g ELSE 0]

\* The value it returns: may the degree of i in B grow to g?
can_add(B, i, g) == B[i] < g

\* Mutant: the attributes before i are not compared.
is_set_preceding_NoPrefix(B, C, i, g) ==
  /\ C[i] = g
  /\ B[i] < C[i]

is_set_preceding(B, C, i, g) ==
  /\ C[i] = g
  /\ B[i] < C[i]
  /\ \A c \in Attributes : c < i => C[c] = B[c]
=============================================================================
