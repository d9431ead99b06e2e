------------------------------- MODULE Galois -------------------------------
(***************************************************************************)
(* Derivation operators of a fuzzy formal context                          *)
(* (src/set_operations_galois.cpp).                                        *)
(*                                                                         *)
(* A context is a function I from objects and attributes to degrees; a     *)
(* (sparse) set of objects or attributes is the function that gives every  *)
(* member its degree, absent entries having degree 0.                      *)
(***************************************************************************)
EXTENDS FuzzySets

CONSTANT Objects   \* the rows of the matrix handed to the C++ core

Contexts   == [Objects -> [Attributes -> Grades]]
ObjectSets == [Objects -> Grades]

Connections == {"standard", "benevolent1", "benevolent2"}

\* The pairs this model can represent: the isotone connections need the
\* t-norm, which is not closed on the chain that stands for Product logic.
Representable(connection, name) ==
  name = "Product" => connection = "standard"
-----------------------------------------------------------------------------
\* The antitone pair ("standard").
compute_intent(name, I, U) ==
  [c \in Attributes |->
     Inf([r \in Objects |-> implication(name, U[r], I[r][c])])]

compute_extent(name, I, V) ==
  [r \in Objects |->
     Inf([c \in Attributes |-> implication(name, V[c], I[r][c])])]

\* The first isotone pair ("benevolent1").
compute_upright_arrow(name, I, U) ==
  [c \in Attributes |->
     Sup([r \in Objects |-> tnorm(name, U[r], I[r][c])])]

compute_downleft_arrow(name, I, V) ==
  [r \in Objects |->
     Inf([c \in Attributes |-> implication(name, I[r][c], V[c])])]

\* The second isotone pair ("benevolent2").
compute_upleft_arrow(name, I, U) ==
  [c \in Attributes |->
     Inf([r \in Objects |-> implication(name, I[r][c], U[r])])]

compute_downright_arrow(name, I, V) ==
  [r \in Objects |->
     Sup([c \in Attributes |-> tnorm(name, I[r][c], V[c])])]

\* Mutant: both isotone connections use the arrow of the first.
intent_f_Mixed(connection, name, I, U) ==
  IF connection = "standard" THEN compute_intent(name, I, U)
  ELSE compute_upright_arrow(name, I, U)

intent_f(connection, name, I, U) ==
  CASE connection = "standard"    -> compute_intent(name, I, U)
    [] connection = "benevolent1" -> compute_upright_arrow(name, I, U)
    [] connection = "benevolent2" -> compute_upleft_arrow(name, I, U)

extent_f(connection, name, I, V) ==
  CASE connection = "standard"    -> compute_extent(name, I, V)
    [] connection = "benevolent1" -> compute_downleft_arrow(name, I, V)
    [] connection = "benevolent2" -> compute_downright_arrow(name, I, V)

compute_closure(connection, name, I, V) ==
  intent_f(connection, name, I, extent_f(connection, name, I, V))

\* The attribute sets that are the intent of a concept.
Closed(connection, name, I, V) == compute_closure(connection, name, I, V) = V
-----------------------------------------------------------------------------
\* self$grades_set: the degrees of the incidence matrix together with 0 and 1
\* (FormalContext$initialize, R/compute_grades.R).
GradesSet(I) ==
  {g \in Grades : \/ g \in {0, K}
                  \/ \E r \in Objects, c \in Attributes : I[r][c] = g}

\* The attribute sets whose degrees all occur in the context.
Graded(I, V) == \A c \in Attributes : V[c] \in GradesSet(I)
=============================================================================
