------------------------ MODULE MCBinaryNextClosure -------------------------
(***************************************************************************)
(* Instances of BinaryNextClosure for TLC.                                 *)
(***************************************************************************)
EXTENDS BinaryNextClosure

CONSTANTS o1, o2, o3

\* The rows of a context as numbers.
Code(row) ==
  (IF 0 \in row THEN 1 ELSE 0) + (IF 1 \in row THEN 2 ELSE 0)
    + (IF 2 \in row THEN 4 ELSE 0) + (IF 3 \in row THEN 8 ELSE 0)

\* All contexts of three objects, up to the order of the objects: it plays no
\* part in the algorithm.
SortedContexts ==
  {M \in [{o1, o2, o3} -> SUBSET Attributes] :
     Code(M[o1]) <= Code(M[o2]) /\ Code(M[o2]) <= Code(M[o3])}
=============================================================================
