--------------------------- MODULE ConceptLattice ----------------------------
(***************************************************************************)
(* The R6 class ConceptLattice (R/concept_lattice.R): a list of concepts   *)
(* and what is computed from it when it is first asked for and then kept:  *)
(* the order, its covering relation, the tables of meets and joins and     *)
(* four properties.  An operation may return another lattice, with which   *)
(* the user goes on.                                                       *)
(*                                                                         *)
(* Concepts are given by their extents; intents follow from them and are   *)
(* left out.                                                               *)
(***************************************************************************)
EXTENDS LatticeTables, LatticeLayout

CONSTANTS
  Objects,        \* the objects of the context
  K,              \* the number of steps between the degrees 0.0 and 1.0
  InitConcepts,   \* the lists of concepts a lattice may be made of
  MaxCalls,       \* bound of the model: the number of operations called
  MaxStart        \* bound of the model: the number of concepts sublattice() starts from

Extents == [Objects -> 0 .. K]

ASSUME LatticeAssumption ==
  /\ K \in Nat \ {0}
  /\ InitConcepts \subseteq Seq(Extents) \ {<< >>}   \* the miners always find a concept
  /\ MaxCalls \in Nat
  /\ MaxStart \in Nat

VARIABLES
  concepts,          \* pr_extents
  subconcept_matrix, \* the caches, << >> when not yet computed: the order,
  covering_matrix,   \* its covering relation,
  tables,            \* meet_matrix and join_matrix
  properties,        \* and the properties
  answer,            \* what the last call returned
  calls,             \* the number of calls
  idx, idx_final,    \* the loop variables of .get_sublattice
  generators         \* starting_idx

caches == <<subconcept_matrix, covering_matrix, tables, properties>>
sublattice_vars == <<idx, idx_final, generators>>
vars == <<concepts, caches, answer, calls, sublattice_vars, layout_vars>>

Unset == << >>
Known(v) == <<v>>

n == Len(concepts)
Concepts == 1 .. n

\* .subset(pr_extents)
Order ==
  {p \in Concepts \X Concepts : \A o \in Objects : concepts[p[1]][o] <= concepts[p[2]][o]}

NoProperties == [p \in {"distributivity", "modularity", "semimodularity", "atomicity"} |-> Unset]

Init ==
  /\ concepts \in InitConcepts
  /\ subconcept_matrix = Unset
  /\ covering_matrix = Unset
  /\ tables = Unset
  /\ properties = NoProperties
  /\ answer = << >>
  /\ calls = 0
  /\ idx = {} /\ idx_final = {} /\ generators = {}
  /\ LayoutInit

\* No call is being worked on, and another one may be made.
Ready == phase \in {"idle", "placed"} /\ generators = {} /\ calls < MaxCalls
Called == calls' = calls + 1
-----------------------------------------------------------------------------
\* The builders of the caches

build_adjacency ==
  subconcept_matrix' = IF subconcept_matrix = Unset THEN Known(Order) ELSE subconcept_matrix

build_covering ==
  /\ build_adjacency
  /\ covering_matrix' = IF covering_matrix = Unset
                        THEN Known(reduce_transitivity(subconcept_matrix'[1]))
                        ELSE covering_matrix

build_meet_join ==
  /\ build_adjacency
  /\ tables' = IF tables = Unset
               THEN Known(compute_meet_join(n, subconcept_matrix'[1]))
               ELSE tables

build_structure == build_covering /\ build_meet_join

\* A new object with the concepts in list.
Replace(list) ==
  /\ concepts' = list
  /\ subconcept_matrix' = Unset
  /\ covering_matrix' = Unset
  /\ tables' = Unset
  /\ properties' = NoProperties

Listed(S) == [i \in 1 .. Cardinality(S) |-> concepts[Ascending(S)[i]]]
-----------------------------------------------------------------------------
\* Operations that read

\* supremum and infimum of several concepts
supremum ==
  /\ Ready
  /\ build_adjacency
  /\ \E S \in SUBSET Concepts :
       Cardinality(S) = 2 /\ answer' = <<"supremum", S, join(subconcept_matrix'[1], S)>>
  /\ Called
  /\ UNCHANGED <<concepts, covering_matrix, tables, properties, sublattice_vars, layout_vars>>

infimum ==
  /\ Ready
  /\ build_adjacency
  /\ \E S \in SUBSET Concepts :
       Cardinality(S) = 2 /\ answer' = <<"infimum", S, meet(subconcept_matrix'[1], S)>>
  /\ Called
  /\ UNCHANGED <<concepts, covering_matrix, tables, properties, sublattice_vars, layout_vars>>

\* Mutant: the bottom, which has no lower neighbour, is let in.
join_irreducibles_AtMostOne ==
  /\ Ready
  /\ build_covering
  /\ LET Cov == covering_matrix'[1]
     IN  answer' = <<"join_irreducibles", {j \in Concepts : Cardinality(Downset(Cov, j)) <= 1}>>
  /\ Called
  /\ UNCHANGED <<concepts, tables, properties, sublattice_vars, layout_vars>>

\* The concepts with exactly one lower neighbour.
join_irreducibles ==
  /\ Ready
  /\ build_covering
  /\ LET Cov == covering_matrix'[1]
     IN  answer' = <<"join_irreducibles", {j \in Concepts : Cardinality(Downset(Cov, j)) = 1}>>
  /\ Called
  /\ UNCHANGED <<concepts, tables, properties, sublattice_vars, layout_vars>>

\* The concepts with exactly one lower neighbour in the dual order.
meet_irreducible ==
  LET M == reduce_transitivity({<<p[2], p[1]>> : p \in subconcept_matrix'[1]})
  IN  {j \in Concepts : Cardinality(Downset(M, j)) = 1}

meet_irreducibles ==
  /\ Ready
  /\ build_adjacency
  /\ answer' = <<"meet_irreducibles", meet_irreducible>>
  /\ Called
  /\ UNCHANGED <<concepts, covering_matrix, tables, properties, sublattice_vars, layout_vars>>

\* The lowest of the meet-irreducible concepts above C; a concept with an empty
\* intent, which must have all objects, is returned itself.
decompose ==
  /\ Ready
  /\ build_adjacency
  /\ \E C \in Concepts :
       LET Below(i, j) == <<i, j>> \in subconcept_matrix'[1]
           id == {m \in meet_irreducible : Below(C, m)}
           lowest == {m \in id : \A k \in id : Below(k, m) => k = m}
       IN  \E D \in {lowest} \cup (IF \A o \in Objects : concepts[C][o] = K THEN {{C}} ELSE {}) :
             answer' = <<"decompose", C, D>>
  /\ Called
  /\ UNCHANGED <<concepts, covering_matrix, tables, properties, sublattice_vars, layout_vars>>

\* The concepts above all others, and those above no other, told by counting;
\* the first of them is returned.
top ==
  /\ Ready
  /\ build_adjacency
  /\ answer' = <<"top", {i \in Concepts : Size(subconcept_matrix'[1], i) = n}>>
  /\ Called
  /\ UNCHANGED <<concepts, covering_matrix, tables, properties, sublattice_vars, layout_vars>>

bottom ==
  /\ Ready
  /\ build_adjacency
  /\ answer' = <<"bottom", {i \in Concepts : Size(subconcept_matrix'[1], i) = 1}>>
  /\ Called
  /\ UNCHANGED <<concepts, covering_matrix, tables, properties, sublattice_vars, layout_vars>>

\* A property is computed once.
Ask(name, outcomes) ==
  /\ Ready
  /\ IF properties[name] # Unset
     THEN UNCHANGED caches
     ELSE /\ build_structure
          /\ \E b \in outcomes : properties' = [properties EXCEPT ![name] = Known(b)]
  /\ answer' = <<name, properties'[name][1]>>
  /\ Called
  /\ UNCHANGED <<concepts, sublattice_vars, layout_vars>>

\* With a hole in the tables a check reads whatever lies outside them.
ReadsTables(check) == IF HasHoles(n, tables'[1]) THEN BOOLEAN ELSE {check}

is_distributive == Ask("distributivity", ReadsTables(check_distributivity(n, tables'[1])))

is_modular == Ask("modularity", ReadsTables(check_modularity(n, tables'[1])))

is_semimodular ==
  Ask("semimodularity",
      ReadsTables(check_semimodularity(n, tables'[1], covering_matrix'[1])))

is_atomic ==
  Ask("atomicity", {check_atomicity(n, subconcept_matrix'[1], covering_matrix'[1])})

\* The drawing goes on with the steps of LatticeLayout.
plot ==
  /\ Ready
  /\ build_covering
  /\ StartGrades(n, covering_matrix'[1])
  /\ answer' = <<"plot">>
  /\ Called
  /\ UNCHANGED <<concepts, tables, properties, sublattice_vars>>

plotting ==
  /\ LayoutNext
  /\ UNCHANGED <<concepts, caches, answer, calls, sublattice_vars>>
-----------------------------------------------------------------------------
\* Operations that return another lattice

subconcepts ==
  /\ Ready
  /\ \E C \in Concepts :
       /\ Replace(Listed({k \in Concepts : <<k, C>> \in Order}))
       /\ answer' = <<"subconcepts", C>>
  /\ Called
  /\ UNCHANGED <<sublattice_vars, layout_vars>>

superconcepts ==
  /\ Ready
  /\ \E C \in Concepts :
       /\ Replace(Listed({k \in Concepts : <<C, k>> \in Order}))
       /\ answer' = <<"superconcepts", C>>
  /\ Called
  /\ UNCHANGED <<sublattice_vars, layout_vars>>

\* to_json and lattice_from_json: the file has the objects of every extent
\* without their degrees, and the covering relation, which the new lattice
\* takes from it unless it is empty.
json ==
  /\ Ready
  /\ LET order == IF subconcept_matrix = Unset THEN Order ELSE subconcept_matrix[1]
         hierarchy == IF covering_matrix = Unset THEN reduce_transitivity(order)
                      ELSE covering_matrix[1]
     IN  covering_matrix' = IF hierarchy = {} THEN Unset ELSE Known(hierarchy)
  /\ concepts' = [i \in Concepts |-> [o \in Objects |-> IF concepts[i][o] > 0 THEN K ELSE 0]]
  /\ subconcept_matrix' = Unset
  /\ tables' = Unset
  /\ properties' = NoProperties
  /\ answer' = <<"json">>
  /\ Called
  /\ UNCHANGED <<sublattice_vars, layout_vars>>
-----------------------------------------------------------------------------
\* sublattice: .get_sublattice takes the joins of the starting concepts, the
\* joins of what was added, and so on, then the same with meets.

sublattice ==
  /\ Ready
  /\ \E S \in UNION {kSubset(k, Concepts) : k \in 1 .. MaxStart} :
       generators' = S /\ idx' = S /\ idx_final' = S
  /\ build_adjacency
  /\ answer' = <<"joins">>
  /\ Called
  /\ UNCHANGED <<concepts, covering_matrix, tables, properties, layout_vars>>

Pairs == kSubset(2, idx)

\* What a round adds: the bounds of two of the concepts added by the last one.
NewJoins == (UNION {join(subconcept_matrix[1], S) : S \in Pairs}) \ idx_final

NewMeets == (UNION {meet(subconcept_matrix[1], S) : S \in Pairs}) \ idx_final

\* The loop ends when all concepts are in, or nothing was added.
Over == Cardinality(idx_final) = n \/ idx = {}

\* Mutant: what a round has added is not combined any more.
JoinRound_Once ==
  /\ generators # {}
  /\ answer = <<"joins">>
  /\ ~ Over
  /\ idx' = {}
  /\ idx_final' = idx_final \cup NewJoins
  /\ UNCHANGED <<concepts, caches, answer, calls, generators, layout_vars>>

JoinRound ==
  /\ generators # {}
  /\ answer = <<"joins">>
  /\ ~ Over
  /\ idx' = NewJoins
  /\ idx_final' = idx_final \cup NewJoins
  /\ UNCHANGED <<concepts, caches, answer, calls, generators, layout_vars>>

\* idx1 <- idx: what the last round of joins has added is kept, to be put
\* behind the result once more; it is empty unless all concepts were in.
TurnToMeets ==
  /\ generators # {}
  /\ answer = <<"joins">>
  /\ Over
  /\ answer' = <<"meets", idx>>
  /\ idx' = generators
  /\ UNCHANGED <<concepts, caches, calls, idx_final, generators, layout_vars>>

MeetRound ==
  /\ generators # {}
  /\ answer[1] = "meets"
  /\ ~ Over
  /\ idx' = NewMeets
  /\ idx_final' = idx_final \cup NewMeets
  /\ UNCHANGED <<concepts, caches, answer, calls, generators, layout_vars>>

\* sort(c(idx1, idx_final))
Sublattice ==
  /\ generators # {}
  /\ answer[1] = "meets"
  /\ Over
  /\ LET twice == answer[2]
         place(k) == Cardinality({j \in idx_final : j < k}) + Cardinality({j \in twice : j < k})
         At(i) == CHOOSE k \in idx_final :
                    i - place(k) \in 1 .. (IF k \in twice THEN 2 ELSE 1)
     IN  Replace([i \in 1 .. Cardinality(idx_final) + Cardinality(twice) |-> concepts[At(i)]])
  /\ answer' = <<"sublattice", {concepts[k] : k \in generators}>>
  /\ idx' = {} /\ idx_final' = {} /\ generators' = {}
  /\ UNCHANGED <<calls, layout_vars>>

Next ==
  \/ supremum
  \/ infimum
  \/ join_irreducibles
  \/ meet_irreducibles
  \/ decompose
  \/ top
  \/ bottom
  \/ is_distributive
  \/ is_modular
  \/ is_semimodular
  \/ is_atomic
  \/ plot
  \/ plotting
  \/ subconcepts
  \/ superconcepts
  \/ json
  \/ sublattice
  \/ JoinRound
  \/ TurnToMeets
  \/ MeetRound
  \/ Sublattice

Spec == Init /\ [][Next]_vars

\* A call that has been made runs to its end; whether the user makes another
\* one is left open.
Working == plotting \/ JoinRound \/ TurnToMeets \/ MeetRound \/ Sublattice
FairSpec == Spec /\ WF_vars(Working)
-----------------------------------------------------------------------------
\* Types.
TypeOK ==
  /\ concepts \in Seq(Extents)
  /\ subconcept_matrix # Unset => subconcept_matrix[1] \subseteq Concepts \X Concepts
  /\ covering_matrix # Unset => covering_matrix[1] \subseteq Concepts \X Concepts
  /\ tables # Unset =>
       \A i, j \in Concepts : tables[1].meet[i][j] \in 0 .. n /\ tables[1].join[i][j] \in 0 .. n
  /\ \A p \in DOMAIN properties : properties[p] \in {Unset, Known(TRUE), Known(FALSE)}
  /\ calls \in 0 .. MaxCalls
  /\ idx \subseteq Concepts /\ idx_final \subseteq Concepts /\ generators \subseteq Concepts
  /\ LayoutTypeOK

Below(i, j) == \A o \in Objects : concepts[i][o] <= concepts[j][o]
Answered(name) == answer # << >> /\ answer[1] = name

Suprema(S) == {u \in Concepts : /\ \A i \in S : Below(i, u)
                               /\ \A k \in Concepts : (\A i \in S : Below(i, k)) => Below(u, k)}
Infima(S) == {l \in Concepts : /\ \A i \in S : Below(l, i)
                              /\ \A k \in Concepts : (\A i \in S : Below(k, i)) => Below(k, l)}

Distinct == \A i, j \in Concepts : concepts[i] = concepts[j] => i = j

IsLattice == Distinct /\ \A i, j \in Concepts : Suprema({i, j}) # {} /\ Infima({i, j}) # {}

Covers(j, i) ==
  i # j /\ Below(i, j) /\ \A k \in Concepts : Below(i, k) /\ Below(k, j) => k \in {i, j}

\* The tables, which are filled by counting what is below a concept, hold the
\* infima and suprema wherever these exist, also when the list of concepts is
\* not a lattice; and so do the answers of supremum(), infimum(), top() and bottom().
BoundsRight ==
  /\ tables # Unset /\ Distinct =>
       \A i, j \in Concepts :
         /\ Infima({i, j}) # {} => tables[1].meet[i][j] \in Infima({i, j})
         /\ Suprema({i, j}) # {} => tables[1].join[i][j] \in Suprema({i, j})
  /\ Answered("infimum") /\ IsLattice => answer[3] = Infima(answer[2])
  /\ Answered("supremum") /\ IsLattice => answer[3] = Suprema(answer[2])
  /\ Answered("top") /\ IsLattice => answer[2] = Infima({})
  /\ Answered("bottom") /\ IsLattice => answer[2] = Suprema({})

\* The covering relation kept is that of the concepts kept, whether it was
\* computed, or came with the concepts from a file.
CoverRight ==
  covering_matrix # Unset /\ Distinct =>
    covering_matrix[1] = {p \in Concepts \X Concepts : Covers(p[2], p[1])}

\* What the tests on the tables say of a lattice, and in which order they are
\* asked, agrees with the theory: it is distributive (modular) when elements
\* with the same meet and join with a third are equal (not comparable), and
\* semimodular when two elements that cover their meet are covered by their
\* join; and a finite lattice is always atomic in the sense of is_atomic.
PropertiesRight ==
  LET SameBounds(x, y, z) == Infima({x, y}) = Infima({x, z}) /\ Suprema({x, y}) = Suprema({x, z})
      cancels == \A y, z \in Concepts : y < z => \A x \in Concepts : ~ SameBounds(x, y, z)
      cancelsBelow ==
        \A y, z \in Concepts : y # z /\ Below(y, z) => \A x \in Concepts : ~ SameBounds(x, y, z)
      semimodular ==
        \A x, y \in Concepts : x < y =>
          \A l \in Infima({x, y}), u \in Suprema({x, y}) :
            Covers(x, l) /\ Covers(y, l) => Covers(u, x) /\ Covers(u, y)
  IN  /\ Answered("distributivity") /\ IsLattice => answer[2] = cancels
      /\ Answered("modularity") /\ IsLattice => answer[2] = cancelsBelow
      /\ Answered("semimodularity") /\ IsLattice => answer[2] = semimodular
      /\ Answered("atomicity") /\ IsLattice => answer[2]

\* Every concept is the supremum of the join-irreducible ones below it and the
\* infimum of the meet-irreducible ones above it, and none of them can be
\* spared; and decompose() returns concepts of which the one asked for is the
\* infimum.
IrreduciblesGenerate ==
  LET J(c) == {j \in answer[2] : Below(j, c)}
      M(c) == {m \in answer[2] : Below(c, m)}
  IN  /\ Answered("join_irreducibles") /\ IsLattice =>
           /\ \A c \in Concepts : c \in Suprema(J(c))
           /\ \A j \in answer[2] : j \notin Suprema(J(j) \ {j})
      /\ Answered("meet_irreducibles") /\ IsLattice =>
           /\ \A c \in Concepts : c \in Infima(M(c))
           /\ \A m \in answer[2] : m \notin Infima(M(m) \ {m})
      /\ Answered("decompose") /\ IsLattice => Infima(answer[3]) = {answer[2]}

\* sublattice() takes the joins of all the starting concepts, although a round
\* only combines what the round before has added.
JoinsTaken ==
  generators # {} /\ answer[1] = "meets" /\ idx = generators /\ IsLattice =>
    \A S \in (SUBSET generators) \ {{}} : Suprema(S) \subseteq idx_final

\* The concepts taken are a sublattice: closed under meets and joins, and each
\* is taken once ("The generated sublattice as a new ConceptLattice object",
\* R/concept_lattice.R:141).
IsSublattice ==
  generators # {} /\ answer[1] = "meets" /\ Over /\ IsLattice =>
    /\ \A i, j \in idx_final : Infima({i, j}) \cup Suprema({i, j}) \subseteq idx_final
    /\ answer[2] = {}

Busy == generators # {} \/ phase \notin {"idle", "placed"}

\* The rounds of sublattice() and the sweeps of the drawing come to an end.
Returns == Busy ~> ~ Busy
=============================================================================
