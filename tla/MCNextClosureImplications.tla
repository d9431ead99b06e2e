--------------------- MODULE MCNextClosureImplications ----------------------
(***************************************************************************)
(* Instances of NextClosureImplications for TLC.                           *)
(***************************************************************************)
EXTENDS NextClosureImplications

\* find_implications takes this path when a degree lies between 0 and 1.
GradedContexts ==
  {M \in Contexts : \E r \in Objects, c \in Attributes : M[r][c] \in 1 .. K - 1}

\* Zadeh logic is Godel logic under another name.
DistinctLogics == LogicNames \ {"Zadeh"}

ClosureConnections == {"standard", "benevolent2"}
=============================================================================
