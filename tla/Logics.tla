------------------------------- MODULE Logics -------------------------------
(***************************************************************************)
(* The truth degrees of fcaR and the residuated implications and t-norms   *)
(* the C++ core selects by name (src/Logics.cpp).                          *)
(*                                                                         *)
(* The degrees are the chain 0 .. K, with K standing for 1.0.  For Zadeh,  *)
(* Godel and Lukasiewicz logic, g stands for the degree g/K.  For Product  *)
(* logic, 0 stands for 0.0 and g > 0 for q^(K-g) with a fixed 0 < q < 1:   *)
(* on that chain the quotient y/x is a difference of exponents.  The       *)
(* product of two such degrees may leave the chain, so the t-norm of       *)
(* Product logic is not modelled (see Representable in module Galois).     *)
(***************************************************************************)
EXTENDS Integers

CONSTANT K    \* the number of steps between the degrees 0.0 and 1.0

ASSUME KAssumption == K \in Nat \ {0}

Grades == 0 .. K

LogicNames == {"Zadeh", "Lukasiewicz", "Godel", "Product"}

implication_Godel(x, y) == IF x <= y THEN K ELSE y

\* The function named after Zadeh computes the Godel residuum.
implication_Zadeh(x, y) == IF x <= y THEN K ELSE y

implication_Lukasiewicz(x, y) == IF K - x + y <= K THEN K - x + y ELSE K

implication_Product(x, y) ==
  IF x <= y THEN K
  ELSE IF y = 0 THEN 0 ELSE K - x + y

tnorm_Godel(x, y) == IF x <= y THEN x ELSE y

tnorm_Lukasiewicz(x, y) == IF 0 <= x + y - K THEN x + y - K ELSE 0

implication(name, x, y) ==
  CASE name = "Zadeh"       -> implication_Zadeh(x, y)
    [] name = "Lukasiewicz" -> implication_Lukasiewicz(x, y)
    [] name = "Godel"       -> implication_Godel(x, y)
    [] name = "Product"     -> implication_Product(x, y)

tnorm(name, x, y) ==
  IF name = "Lukasiewicz" THEN tnorm_Lukasiewicz(x, y) ELSE tnorm_Godel(x, y)
=============================================================================
