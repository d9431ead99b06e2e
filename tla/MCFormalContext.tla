--------------------------- MODULE MCFormalContext ---------------------------
(***************************************************************************)
(* Instances of FormalContext for TLC.                                     *)
(***************************************************************************)
EXTENDS FormalContext
LOCAL INSTANCE TLC

Matrices(n, m, degrees) == [0 .. n - 1 -> [0 .. m - 1 -> degrees]]

Weight(M) ==
  LET row[i \in DOMAIN M, j \in 0 .. Width(M)] ==
        IF j = 0 THEN 0 ELSE row[i, j - 1] * (K + 1) + M[i][j - 1]
      all[i \in 0 .. Height(M)] ==
        IF i = 0 THEN 0 ELSE all[i - 1] * (K + 1) ^ Width(M) + row[i - 1, Width(M)]
  IN  all[Height(M)]

\* One of the matrices that differ in the order of the objects and attributes.
UpToOrder(Ms) ==
  {M \in Ms :
     \A p \in Permutations(DOMAIN M), q \in Permutations(DOMAIN M[0]) :
       Weight(M) <= Weight([o \in DOMAIN M |-> [a \in DOMAIN M[0] |-> M[p[o]][q[a]]]])}

CrispContexts == UpToOrder(Matrices(3, 3, {0, K}))
GradedContexts == UpToOrder(Matrices(2, 2, 0 .. K))

AllContexts == CrispContexts \cup GradedContexts

\* Files of earlier sessions, of contexts that concepts were not computed for.
\* In the graded one the first attribute is the meet of the others.
Saved(M) == [I |-> M, concepts |-> Unset, implications |-> Unset]

GradedFile ==
  Saved([i \in 0 .. 1 |-> [j \in 0 .. 2 |-> IF j = i + 1 THEN K ELSE 1]])
CrispFile ==
  Saved([i \in 0 .. 1 |-> [j \in 0 .. 1 |-> IF j = i THEN K ELSE 0]])

EarlierFiles == {GradedFile, CrispFile}
=============================================================================
