---------------------------- MODULE LatticeLayout ----------------------------
(***************************************************************************)
(* Drawing a lattice (src/lattice_algorithms.cpp): the grades of the nodes *)
(* are computed by a queue of nodes whose predecessors are done, then the  *)
(* nodes are put in layers by grade and the layers sorted again and again, *)
(* downwards by the barycenters of the predecessors and upwards by those   *)
(* of the successors.                                                      *)
(*                                                                         *)
(* The x coordinate of a node always follows from its place in its layer,  *)
(* so only the layers are kept.                                            *)
(***************************************************************************)
EXTENDS Integers, Sequences, FiniteSetsExt

CONSTANT Iterations   \* how often the layers are sorted both ways (20 in the code)

ASSUME IterationsAssumption == Iterations \in Nat \ {0}

VARIABLES
  phase,       \* where the code is
  nodes,       \* concept_ids are 1 .. nodes
  edges,       \* the covering relation, as pairs <<from, to>>
  grade,       \* the grades of the nodes, -1 before they are known
  in_degree,   \* how many predecessors of a node are still to come
  queue,       \* the nodes whose predecessors have all come
  layers,      \* the nodes by grade, in the order of their x coordinates
  layer, iter  \* the loop variables k and iter of the sweeps

layout_vars == <<phase, nodes, edges, grade, in_degree, queue, layers, layer, iter>>

Nodes == 1 .. nodes
predecessors == [v \in Nodes |-> {e[1] : e \in {f \in edges : f[2] = v}}]
successors == [u \in Nodes |-> {e[2] : e \in {f \in edges : f[1] = u}}]

LayoutInit ==
  /\ phase = "idle"
  /\ nodes = 0
  /\ edges = {}
  /\ grade = << >>
  /\ in_degree = << >>
  /\ queue = << >>
  /\ layers = << >>
  /\ layer = 0
  /\ iter = 0

\* The numbers in S from the least on.
Ascending(S) ==
  [i \in 1 .. Cardinality(S) |-> CHOOSE x \in S : Cardinality({y \in S : y < x}) = i - 1]

\* calculate_grades_rcpp starts: the nodes without predecessors have grade 0.
StartGrades(n, cover) ==
  LET degree == [v \in 1 .. n |-> Cardinality({e \in cover : e[2] = v})]
      sources == {v \in 1 .. n : degree[v] = 0}
  IN  /\ phase' = "grades"
      /\ nodes' = n
      /\ edges' = cover
      /\ in_degree' = degree
      /\ grade' = [v \in 1 .. n |-> IF v \in sources THEN 0 ELSE -1]
      /\ queue' = Ascending(sources)
      /\ UNCHANGED <<layers, layer, iter>>

\* Mutant: a node is graded when its first predecessor is.
GradeSuccessors_First ==
  /\ phase = "grades"
  /\ queue # << >>
  /\ LET u == Head(queue)
     IN  /\ grade' = [v \in Nodes |-> IF v \in successors[u] /\ grade[v] = -1 THEN grade[u] + 1 ELSE grade[v]]
         /\ in_degree' = [v \in Nodes |-> IF v \in successors[u] THEN in_degree[v] - 1 ELSE in_degree[v]]
         /\ queue' = Tail(queue) \o Ascending({v \in successors[u] : in_degree[v] = 1})
  /\ UNCHANGED <<phase, nodes, edges, layers, layer, iter>>

\* One turn of the loop over the queue.
GradeSuccessors ==
  /\ phase = "grades"
  /\ queue # << >>
  /\ LET u == Head(queue)
         g == grade[u] + 1
     IN  /\ grade' = [v \in Nodes |-> IF v \in successors[u] /\ g > grade[v] THEN g ELSE grade[v]]
         /\ in_degree' = [v \in Nodes |-> IF v \in successors[u] THEN in_degree[v] - 1 ELSE in_degree[v]]
         /\ queue' = Tail(queue) \o Ascending({v \in successors[u] : in_degree[v] = 1})
  /\ UNCHANGED <<phase, nodes, edges, layers, layer, iter>>

max_grade == Max({0} \cup {grade[v] : v \in Nodes})

\* Mutant: the nodes on cycles keep the grade -1.
FillLayers_Ungraded ==
  /\ phase = "grades"
  /\ queue = << >>
  /\ layers' = [g \in 0 .. max_grade |-> Ascending({v \in Nodes : grade[v] = g})]
  /\ phase' = "down"
  /\ layer' = 1
  /\ iter' = 1
  /\ UNCHANGED <<nodes, edges, grade, in_degree, queue>>

\* The queue is empty.  Nodes on cycles that no step has reached get grade 0.
\* calculate_lattice_layout_rcpp fills the layers in the order of the concepts.
FillLayers ==
  /\ phase = "grades"
  /\ queue = << >>
  /\ grade' = [v \in Nodes |-> IF grade[v] = -1 THEN 0 ELSE grade[v]]
  /\ layers' = [g \in 0 .. max_grade |-> Ascending({v \in Nodes : grade'[v] = g})]
  /\ phase' = "down"
  /\ layer' = 1
  /\ iter' = 1
  /\ UNCHANGED <<nodes, edges, in_degree, queue>>

\* Twice the x coordinate of a node: its layer is centered around 0.
x_coord(v) ==
  LET l == layers[grade[v]]
  IN  2 * (CHOOSE i \in DOMAIN l : l[i] = v) - Len(l) - 1

Sum(S) == MapThenSumSet(x_coord, S)

\* The barycenter of v is less than that of w; that of a node without
\* neighbours is its own place.
BaricenterLess(neighbours, v, w) ==
  LET N(u) == IF neighbours[u] = {} THEN {u} ELSE neighbours[u]
  IN  Sum(N(v)) * Cardinality(N(w)) < Sum(N(w)) * Cardinality(N(v))

\* std::sort: any order that the comparison allows.
Sortings(l, neighbours) ==
  {s \in {[i \in DOMAIN l |-> l[p[i]]] : p \in Bijection(DOMAIN l, DOMAIN l)} :
     \A i, j \in DOMAIN s : i < j => ~ BaricenterLess(neighbours, s[j], s[i])}

SortDown ==
  /\ phase = "down"
  /\ layer <= max_grade
  /\ \E s \in Sortings(layers[layer], predecessors) : layers' = [layers EXCEPT ![layer] = s]
  /\ layer' = layer + 1
  /\ UNCHANGED <<phase, nodes, edges, grade, in_degree, queue, iter>>

TurnUp ==
  /\ phase = "down"
  /\ layer > max_grade
  /\ phase' = "up"
  /\ layer' = max_grade - 1
  /\ UNCHANGED <<nodes, edges, grade, in_degree, queue, layers, iter>>

SortUp ==
  /\ phase = "up"
  /\ layer >= 0
  /\ \E s \in Sortings(layers[layer], successors) : layers' = [layers EXCEPT ![layer] = s]
  /\ layer' = layer - 1
  /\ UNCHANGED <<phase, nodes, edges, grade, in_degree, queue, iter>>

\* Mutant: the sweeps are not counted.
TurnDown_Uncounted ==
  /\ phase = "up"
  /\ layer < 0
  /\ phase' = "down"
  /\ layer' = 1
  /\ UNCHANGED <<nodes, edges, grade, in_degree, queue, layers, iter>>

\* Both sweeps are over: there are Iterations of them.
TurnDown ==
  /\ phase = "up"
  /\ layer < 0
  /\ IF iter < Iterations
     THEN phase' = "down" /\ layer' = 1 /\ iter' = iter + 1
     ELSE phase' = "placed" /\ UNCHANGED <<layer, iter>>
  /\ UNCHANGED <<nodes, edges, grade, in_degree, queue, layers>>

LayoutNext ==
  \/ GradeSuccessors
  \/ FillLayers
  \/ SortDown
  \/ TurnUp
  \/ SortUp
  \/ TurnDown
-----------------------------------------------------------------------------
LayoutTypeOK ==
  /\ phase \in {"idle", "grades", "down", "up", "placed"}
  /\ nodes \in Nat
  /\ edges \subseteq Nodes \X Nodes
  /\ phase # "idle" =>
       /\ grade \in [Nodes -> -1 .. nodes]
       /\ in_degree \in [Nodes -> 0 .. nodes]
       /\ Range(queue) \subseteq Nodes
  /\ phase \notin {"idle", "grades"} =>
       /\ grade \in [Nodes -> 0 .. max_grade]
       /\ DOMAIN layers = 0 .. max_grade
       /\ \A g \in DOMAIN layers : Range(layers[g]) \subseteq Nodes
       /\ layer \in -1 .. max_grade + 1
       /\ iter \in 1 .. Iterations

\* In every set of nodes there is one without a predecessor in it.
Acyclic == \A S \in (SUBSET Nodes) \ {{}} : \E v \in S : \A u \in S : <<u, v>> \notin edges

\* The grade of a node is the length of the longest path to it ("Calculates the
\* grade (level) of each concept using the longest path from the bottom
\* element", R/plot_auxiliary.R:25), although the queue passes a node on before
\* others that are below it are graded; and sorting loses and repeats no node:
\* each has a place of its own.
Drawn ==
  phase \notin {"idle", "grades"} =>
    /\ Acyclic =>
         \A v \in Nodes : grade[v] = Max({0} \cup {grade[u] + 1 : u \in predecessors[v]})
    /\ \A v \in Nodes :
         Cardinality({p \in (DOMAIN layers) \X Nodes :
                        p[2] \in DOMAIN layers[p[1]] /\ layers[p[1]][p[2]] = v}) = 1
=============================================================================
