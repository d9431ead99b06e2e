---------------------------- MODULE LatticeTables ----------------------------
(***************************************************************************)
(* Order relations of concepts and what the code computes from them: the   *)
(* covering relation (src/Transitivity.cpp), the tables of meets and joins *)
(* (src/LatticeMeetJoin.cpp), the checks of lattice properties             *)
(* (src/LatticeProperties.cpp), and meet and join of several concepts      *)
(* (R/meet_join.R).                                                        *)
(*                                                                         *)
(* Concepts are the numbers 1 .. n.  Adj is the subconcept matrix: the set *)
(* of pairs <<i, j>> such that concept i is below concept j.               *)
(***************************************************************************)
EXTENDS Integers, Sequences, FiniteSetsExt

Downset(Adj, j) == {p[1] : p \in {q \in Adj : q[2] = j}}
Upset(Adj, i) == {p[2] : p \in {q \in Adj : q[1] = i}}
Size(Adj, k) == Cardinality(Downset(Adj, k))

\* Mutant: a later lower bound replaces one with a larger downset.
meet_val_Last(Adj, i, j) ==
  LET lower_bounds == Downset(Adj, i) \cap Downset(Adj, j)
  IN  IF lower_bounds = {} THEN 0 ELSE Max(lower_bounds)

\* meet_val: the first of the common lower bounds with the largest downset, and
\* 0 when there is no common lower bound (-1 in the code, which adds 1).
meet_val(Adj, i, j) ==
  LET lower_bounds == Downset(Adj, i) \cap Downset(Adj, j)
      largest == {k \in lower_bounds :
                    \A l \in lower_bounds : Size(Adj, l) <= Size(Adj, k)}
  IN  IF largest = {} THEN 0 ELSE Min(largest)

\* join_val: the first of the common upper bounds with the smallest downset.
join_val(Adj, i, j) ==
  LET upper_bounds == Upset(Adj, i) \cap Upset(Adj, j)
      smallest == {k \in upper_bounds :
                     \A u \in upper_bounds : Size(Adj, k) <= Size(Adj, u)}
  IN  IF smallest = {} THEN 0 ELSE Min(smallest)

compute_meet_join(n, Adj) ==
  [meet |-> [i \in 1 .. n |-> [j \in 1 .. n |-> meet_val(Adj, i, j)]],
   join |-> [i \in 1 .. n |-> [j \in 1 .. n |-> join_val(Adj, i, j)]]]

\* Mutant: loops are not left out of the edges compared.
reduce_transitivity_Self(Adj) ==
  {e \in Adj : e[1] # e[2] /\ ~ \E f \in Adj : f[1] = e[1] /\ <<f[2], e[2]>> \in Adj}

\* reduce_transitivity_cpp: an edge is dropped when another successor of its
\* first end is joined to its second end.
reduce_transitivity(Adj) ==
  LET edges == {e \in Adj : e[1] # e[2]}
  IN  {e \in edges : ~ \E f \in edges : f[1] = e[1] /\ f[2] # e[2] /\ <<f[2], e[2]>> \in edges}

-----------------------------------------------------------------------------
\* The checks.  They take every entry of the tables for the number of a concept;
\* an entry 0 makes them read outside the tables.
HasHoles(n, T) == \E i, j \in 1 .. n : T.meet[i][j] = 0 \/ T.join[i][j] = 0

check_distributivity(n, T) ==
  \A x, y, z \in 1 .. n :
    T.meet[x][T.join[y][z]] = T.join[T.meet[x][y]][T.meet[x][z]]

\* Mutant: the law of distributive lattices.
check_modularity_Any(n, T) ==
  \A x, y, z \in 1 .. n : T.join[x][T.meet[y][z]] = T.meet[T.join[x][y]][z]

check_modularity(n, T) ==
  \A x, z \in 1 .. n :
    T.meet[x][z] = x =>
      \A y \in 1 .. n : T.join[x][T.meet[y][z]] = T.meet[T.join[x][y]][z]

check_semimodularity(n, T, Cov) ==
  \A x, y \in 1 .. n :
    x # y /\ <<T.meet[x][y], x>> \in Cov => <<y, T.join[x][y]>> \in Cov

\* The atoms cover the first concept below all others; every other concept must
\* be above an atom.
check_atomicity(n, Adj, Cov) ==
  LET bottoms == {i \in 1 .. n : \A j \in 1 .. n : <<i, j>> \in Adj}
      atoms(b) == {i \in 1 .. n : <<b, i>> \in Cov}
  IN  /\ bottoms # {}
      /\ atoms(Min(bottoms)) = {} => n <= 1
      /\ \A x \in 1 .. n \ {Min(bottoms)} : \E a \in atoms(Min(bottoms)) : <<a, x>> \in Adj
-----------------------------------------------------------------------------
\* meet and join of a set idx of concepts: the common bounds and, when there are
\* several, those that bound them all.
meet(Adj, idx) ==
  LET candidates == {k \in Downset(Adj, Min(idx)) : \A i \in idx : <<k, i>> \in Adj}
  IN  IF Cardinality(candidates) > 1
      THEN {k \in candidates : \A c \in candidates : <<c, k>> \in Adj}
      ELSE candidates

join(Adj, idx) ==
  LET candidates == {k \in Upset(Adj, Min(idx)) : \A i \in idx : <<i, k>> \in Adj}
  IN  IF Cardinality(candidates) > 1
      THEN {k \in candidates : \A c \in candidates : <<k, c>> \in Adj}
      ELSE candidates
=============================================================================
