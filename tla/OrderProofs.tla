---------------------------- MODULE OrderProofs ----------------------------
(***************************************************************************)
(* Facts about orders: the least and the greatest elements of sets of      *)
(* naturals, and the sets defined by recursion along a well-founded        *)
(* relation.                                                               *)
(***************************************************************************)
EXTENDS Integers, FiniteSetsExt, FiniteSetTheorems, WellFoundedInduction, TLAPS

-----------------------------------------------------------------------------
\* Least and greatest elements.

\* A non-empty set of naturals has the least element Min names.
LEMMA NatMin ==
  ASSUME NEW S \in SUBSET Nat, S # {}
  PROVE  /\ Min(S) \in S
         /\ \A x \in S : Min(S) <= x
<1> DEFINE Seg(n) == 0 .. n
           T == {Seg(n) : n \in S}
<1>1. IsWellFoundedOn(StrictSubsetOrdering(Nat), FiniteSubsetsOf(Nat))
  BY FS_StrictSubsetOrderingWellFounded
<1>2. T \subseteq FiniteSubsetsOf(Nat)
  <2>1. SUFFICES ASSUME NEW n \in S PROVE Seg(n) \in FiniteSubsetsOf(Nat)
    OBVIOUS
  <2>2. IsFiniteSet(Seg(n))
    <3>1. 0 \in Int /\ n \in Int
      OBVIOUS
    <3> QED BY <3>1, FS_Interval, Zenon
  <2>3. Seg(n) \in SUBSET Nat
    OBVIOUS
  <2> QED BY <2>2, <2>3, Zenon DEF FiniteSubsetsOf
<1>3. T # {}
  OBVIOUS
<1>4. PICK t \in T : \A u \in T : <<u, t>> \notin StrictSubsetOrdering(Nat)
  <2> HIDE DEF T
  <2> QED BY <1>1, <1>2, <1>3, WFMin, Zenon
<1>5. PICK m \in S : t = Seg(m)
  OBVIOUS
<1>6. ASSUME NEW x \in S PROVE m <= x
  <2>1. <<Seg(x), Seg(m)>> \notin StrictSubsetOrdering(Nat)
    BY <1>4, <1>5
  <2>2. Seg(x) \in SUBSET Nat /\ Seg(m) \in SUBSET Nat
    OBVIOUS
  <2>3. ~(Seg(x) \subseteq Seg(m) /\ Seg(x) # Seg(m))
    BY <2>1, <2>2 DEF StrictSubsetOrdering
  <2>4. SUFFICES ASSUME x < m PROVE FALSE
    OBVIOUS
  <2>5. Seg(x) \subseteq Seg(m) /\ m \in Seg(m) /\ m \notin Seg(x)
    BY <2>4
  <2> QED BY <2>3, <2>5
<1> QED BY <1>6 DEF Min

\* A non-empty set of naturals with an upper bound has the greatest element
\* Max names.
LEMMA NatMax ==
  ASSUME NEW n \in Nat, NEW S \in SUBSET (0 .. n), S # {}
  PROVE  /\ Max(S) \in S
         /\ \A x \in S : x <= Max(S)
<1> DEFINE T == {n - x : x \in S}
           m == Min(T)
<1>1. T \in SUBSET Nat /\ T # {}
  OBVIOUS
<1>2. m \in T /\ \A x \in T : m <= x
  <2> HIDE DEF T
  <2> QED BY <1>1, NatMin
<1>3. PICK y \in S : m = n - y
  BY <1>2
<1>4. ASSUME NEW x \in S PROVE y >= x
  <2>1. n - x \in T
    OBVIOUS
  <2>2. n - y <= n - x
    BY <1>2, <1>3, <2>1
  <2>3. x \in 0 .. n /\ y \in 0 .. n
    OBVIOUS
  <2> QED BY <2>2, <2>3
<1> QED BY <1>3, <1>4 DEF Max

-----------------------------------------------------------------------------
\* Recursion along a well-founded relation.

\* Recursion along a well-founded relation R: P holds the candidates x for
\* which all elements of P below x are in the relation Ok to x.
IsRecursive(P, S, R, Candidates, Ok) ==
  \A x \in S :
    x \in P <=> /\ x \in Candidates
               /\ \A y \in P : <<y, x>> \in R => <<y, x>> \in Ok

\* There is such a set.  (A recursive definition of TLA+ names it only if there
\* is one.)
LEMMA RecursiveSet ==
  ASSUME NEW S, NEW R, IsWellFoundedOn(R, S), NEW Candidates, NEW Ok
  PROVE  \E P \in SUBSET S : IsRecursive(P, S, R, Candidates, Ok)
<1> DEFINE Chosen(x, P) ==
             /\ x \in Candidates
             /\ \A y \in P : <<y, x>> \in R => <<y, x>> \in Ok
           Solves(D, P) ==
             /\ \A x \in D, y \in S : <<y, x>> \in R => y \in D
             /\ \A x \in D : x \in P <=> Chosen(x, P)
           Pairs == {p \in (SUBSET S) \X (SUBSET S) :
                       p[2] \subseteq p[1] /\ Solves(p[1], p[2])}
           Dom == UNION {p[1] : p \in Pairs}
           Sol == UNION {p[2] : p \in Pairs}
\* Two solutions agree where both are defined.
<1>1. ASSUME NEW p \in Pairs, NEW q \in Pairs, NEW x \in p[1] \cap q[1]
      PROVE  x \in p[2] <=> x \in q[2]
  <2> DEFINE T == {z \in p[1] \cap q[1] : ~(z \in p[2] <=> z \in q[2])}
  <2> SUFFICES ASSUME T # {} PROVE FALSE
    OBVIOUS
  <2>1. T \subseteq S
    OBVIOUS
  <2>2. PICK z \in T : \A y \in T : <<y, z>> \notin R
    <3> HIDE DEF T
    <3> QED BY <2>1, WFMin, Zenon
  <2>3. /\ p[2] \subseteq p[1] /\ q[2] \subseteq q[1]
        /\ p[1] \subseteq S /\ q[1] \subseteq S
        /\ Solves(p[1], p[2]) /\ Solves(q[1], q[2])
        /\ z \in p[1] /\ z \in q[1]
    OBVIOUS
  <2>4. ASSUME NEW y \in S, <<y, z>> \in R PROVE y \in p[2] <=> y \in q[2]
    BY <2>2, <2>3, <2>4
  <2>5. Chosen(z, p[2]) <=> Chosen(z, q[2])
    BY <2>3, <2>4
  <2>6. z \in p[2] <=> z \in q[2]
    BY <2>3, <2>5
  <2> QED BY <2>6
\* Hence their union is a solution.
<1>2. /\ Dom \subseteq S /\ Sol \subseteq Dom
      /\ Solves(Dom, Sol)
  <2>1. Dom \subseteq S /\ Sol \subseteq Dom
    OBVIOUS
  <2>2. ASSUME NEW p \in Pairs, NEW x \in p[1]
        PROVE  x \in Sol <=> x \in p[2]
    <3>1. ASSUME NEW q \in Pairs, x \in q[2] PROVE x \in p[2]
      BY <1>1, <3>1
    <3> QED BY <3>1
  <2>3. ASSUME NEW x \in Dom
        PROVE  /\ \A y \in S : <<y, x>> \in R => y \in Dom
               /\ x \in Sol <=> Chosen(x, Sol)
    <3>1. PICK p \in Pairs : x \in p[1]
      OBVIOUS
    <3>2. /\ p[2] \subseteq p[1] /\ p[1] \subseteq S /\ Solves(p[1], p[2])
          /\ p[1] \subseteq Dom
      OBVIOUS
    <3>3. \A y \in S : <<y, x>> \in R => y \in p[1]
      BY <3>1, <3>2
    <3>4. \A y \in S : <<y, x>> \in R => (y \in Sol <=> y \in p[2])
      BY <2>2, <3>3
    <3> HIDE DEF Sol, Dom, Pairs
    <3>5. Chosen(x, p[2]) <=> Chosen(x, Sol)
      BY <2>1, <3>2, <3>4
    <3> QED BY <2>2, <3>1, <3>2, <3>3, <3>5
  <2> QED BY <2>1, <2>3
\* And it is defined everywhere: a least element at which it were not could
\* be added.
<1>3. Dom = S
  <2> SUFFICES ASSUME S \ Dom # {} PROVE FALSE
    BY <1>2
  <2>1. PICK x \in S \ Dom : \A y \in S \ Dom : <<y, x>> \notin R
    <3> HIDE DEF Dom
    <3>1. S \ Dom \subseteq S
      OBVIOUS
    <3> QED BY <3>1, WFMin, Zenon
  <2> DEFINE D == Dom \cup {x}
             P == IF Chosen(x, Sol) THEN Sol \cup {x} ELSE Sol
  <2>2. <<x, x>> \notin R
    BY <2>1
  <2>3. D \in SUBSET S /\ P \in SUBSET S /\ P \subseteq D /\ x \notin Dom
    <3> HIDE DEF Dom, Sol
    <3> QED BY <1>2, <2>1
  <2>4. Solves(D, P)
    <3> HIDE DEF Dom, Sol, Pairs
    <3>1. ASSUME NEW z \in D, NEW y \in S, <<y, z>> \in R PROVE y \in Dom
      BY <1>2, <2>1, <3>1
    <3>2. ASSUME NEW z \in D PROVE Chosen(z, P) <=> Chosen(z, Sol)
      BY <1>2, <2>1, <2>3, <3>1, <3>2
    <3>3. ASSUME NEW z \in D PROVE z \in P <=> Chosen(z, P)
      <4>1. CASE z = x
        BY <1>2, <2>3, <3>2, <4>1
      <4>2. CASE z # x
        BY <1>2, <2>3, <3>2, <4>2
      <4> QED BY <4>1, <4>2
    <3> QED BY <3>1, <3>3
  <2>5. <<D, P>> \in Pairs
    <3> HIDE DEF D, P
    <3> QED BY <2>3, <2>4
  <2>6. D \subseteq Dom
    <3> HIDE DEF D, P
    <3> QED BY <2>5
  <2> QED BY <2>3, <2>6
<1> HIDE DEF Dom, Sol, Pairs
<1>4. Sol \in SUBSET S /\ IsRecursive(Sol, S, R, Candidates, Ok)
  BY <1>2, <1>3 DEF IsRecursive
<1> QED BY <1>4
=============================================================================
