----------------------- MODULE MCNextClosureConcepts ------------------------
(***************************************************************************)
(* Instances of NextClosureConcepts for TLC.                               *)
(***************************************************************************)
EXTENDS NextClosureConcepts

\* Every matrix with degrees 0 .. K.
AllContexts == Contexts

\* Matrices without one degree of the chain: Lukasiewicz implications produce
\* it all the same.
GappedContexts == [Objects -> [Attributes -> {0, 1, K}]]

AllLogics == LogicNames
LukasiewiczOnly == {"Lukasiewicz"}
AllConnections == Connections
StandardOnly == {"standard"}
=============================================================================
