--------------------------- MODULE MCFindConcepts ---------------------------
(***************************************************************************)
(* Instances of FindConcepts for TLC.                                      *)
(***************************************************************************)
EXTENDS FindConcepts

CONSTANTS o1, o2, o3

\* The miners do not tell the objects apart: matrices that differ by the order
\* of the rows are not needed twice.
Weight(row, base) ==
  LET w[c \in 0 .. NAttr] == IF c = 0 THEN 0 ELSE w[c-1] * base + row[c-1]
  IN  w[NAttr]

SortedRows(rows) ==
  {M \in [{o1, o2, o3} -> rows] :
     /\ Weight(M[o1], K + 1) >= Weight(M[o2], K + 1)
     /\ Weight(M[o2], K + 1) >= Weight(M[o3], K + 1)}

BinaryContexts == SortedRows([Attributes -> {0, K}])

\* Two objects with all degrees for the first three attributes.
GradedRows == {row \in [Attributes -> Grades] : \A c \in Attributes : c > 2 => row[c] = 0}
GradedContexts == {M \in SortedRows(GradedRows) : M[o3] = [c \in Attributes |-> 0]}

BinaryAndGraded == BinaryContexts \cup GradedContexts

ZadehOnly == {"Zadeh"}
LukasiewiczOnly == {"Lukasiewicz"}
=============================================================================
