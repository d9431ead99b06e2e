-------------------------- MODULE MCConceptLattice ---------------------------
(***************************************************************************)
(* Instances of ConceptLattice for TLC.                                    *)
(***************************************************************************)
EXTENDS ConceptLattice
LOCAL INSTANCE TLC

ThreeObjects == 1 .. 3
FourObjects == 1 .. 4

\* The families of extents of crisp contexts: closed under intersection, with
\* the set of all objects.
Families ==
  {F \in SUBSET SUBSET Objects : Objects \in F /\ \A A, B \in F : A \cap B \in F}

Extent(A) == [o \in Objects |-> IF o \in A THEN K ELSE 0]

\* The extents in the order of a key, which is different for each.
InOrder(F, key) ==
  [i \in 1 .. Cardinality(F) |->
     Extent(CHOOSE A \in F : Cardinality({B \in F : key[B] < key[A]}) = i - 1)]

Code == [A \in SUBSET Objects |-> MapThenSumSet(LAMBDA o : 2 ^ (o - 1), A)]
Shuffled == [A \in SUBSET Objects |-> (3 * Code[A]) % 2 ^ Cardinality(Objects)]


\* One of the families that differ in the names of the objects only.
Renamed(F, p) == {{p[o] : o \in A} : A \in F}
Less(F, G) ==
  \E A \in G \ F : \A B \in (F \cup G) \ (F \cap G) : Code[A] <= Code[B]
Representatives ==
  {F \in Families : ~ \E p \in Permutations(Objects) : Less(Renamed(F, p), F)}

SortedLists == {InOrder(F, Code) : F \in Representatives}
AllLists == SortedLists \cup {InOrder(F, Shuffled) : F \in Representatives}
=============================================================================
