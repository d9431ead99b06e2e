------------------------------ MODULE FuzzySets ------------------------------
(***************************************************************************)
(* Fuzzy sets of attributes: the FuzzySet of src/fuzzy_do.cpp and the      *)
(* SparseVector of src/vector_operations.h, as the function that gives     *)
(* every attribute its degree, absent entries having degree 0.             *)
(***************************************************************************)
EXTENDS Logics, FiniteSetsExt

CONSTANT NAttr   \* n_attributes, the number of columns of the context

ASSUME NAttrAssumption == NAttr \in Nat \ {0}

Attributes == 0 .. NAttr - 1

AttrSets == [Attributes -> Grades]

EmptySet == [c \in Attributes |-> 0]
FullSet  == [c \in Attributes |-> K]

Leq(B, C) == \A c \in Attributes : B[c] <= C[c]

\* cardinal(A) < n_attributes: the sum of n degrees, none above 1, is less
\* than n exactly when one of them is less than 1.
BelowFull(B) == \E c \in Attributes : B[c] < K

\* cardinal(A) > 0
NonEmpty(B) == \E c \in Attributes : B[c] > 0

\* The running minimum ms, which starts at 1, and the running maximum, which
\* starts at 0.  Breaking off at 0 or at 1 does not change them.
Inf(f) == Min({K} \cup Range(f))
Sup(f) == Max({0} \cup Range(f))
-----------------------------------------------------------------------------
\* The lectic order: at the first attribute where B and C differ, C has the
\* larger degree.
LecticAt(B, C, i) ==
  /\ i \in Attributes
  /\ B[i] < C[i]
  /\ \A j \in Attributes : j < i => B[j] = C[j]

LecticLess(B, C) == \E i \in Attributes : LecticAt(B, C, i)
=============================================================================
