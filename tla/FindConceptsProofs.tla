------------------------- MODULE FindConceptsProofs -------------------------
(***************************************************************************)
(* Proofs about module FindConcepts, for every matrix, number of degrees   *)
(* and of attributes: the three miners of the Close-by-One family list     *)
(* exactly the concepts of Godel logic, each once, and skip only what      *)
(* would fail their tests.                                                 *)
(***************************************************************************)
EXTENDS FindConceptsInvariant, GaloisProofs, SequenceTheorems

-----------------------------------------------------------------------------
\* Regions of the search.

RegionAt(T, st, p) == Region(T, st[p[1]], p[2])

\* The places of a partition may shrink, split and be renamed; what is lost
\* is listed or becomes an exception.
LEMMA Repartition ==
  ASSUME NEW T, NEW E, NEW listed, NEW st, NEW E2, NEW listed2, NEW st2, NEW from,
         Partition(T, E, listed, st),
         \A p \in Places(st2) :
           /\ from[p] \in Places(st)
           /\ RegionAt(T, st2, p) \subseteq RegionAt(T, st, from[p])
           /\ RegionAt(T, st2, p) \cap listed2 \subseteq listed,
         \A p, q \in Places(st2) :
           p # q /\ from[p] = from[q] => RegionAt(T, st2, p) \cap RegionAt(T, st2, q) = {},
         listed \cup E \subseteq listed2 \cup E2,
         \A p \in Places(st) : \A X \in RegionAt(T, st, p) :
           \/ X \in listed2 \cup E2
           \/ \E q \in Places(st2) : X \in RegionAt(T, st2, q)
  PROVE  Partition(T, E2, listed2, st2)
<1>1. ASSUME NEW p \in Places(st2), NEW q \in Places(st2), p # q
      PROVE  RegionAt(T, st2, p) \cap RegionAt(T, st2, q) = {}
  <2>1. CASE from[p] = from[q]
    BY <1>1, <2>1
  <2>2. CASE from[p] # from[q]
    <3>1. RegionAt(T, st, from[p]) \cap RegionAt(T, st, from[q]) = {}
      BY <2>2 DEF Partition, RegionAt
    <3> QED BY <3>1
  <2> QED BY <2>1, <2>2
<1>2. ASSUME NEW p \in Places(st2) PROVE RegionAt(T, st2, p) \cap listed2 = {}
  <2>1. RegionAt(T, st, from[p]) \cap listed = {}
    BY DEF Partition, RegionAt
  <2> QED BY <2>1
<1>3. ASSUME NEW X \in T
      PROVE  \/ X \in listed2 \cup E2
             \/ \E p \in Places(st2) : X \in RegionAt(T, st2, p)
  <2>1. \/ X \in listed \cup E
        \/ \E p \in Places(st) : X \in RegionAt(T, st, p)
    BY DEF Partition, RegionAt
  <2> QED BY <2>1
<1> QED BY <1>1, <1>2, <1>3 DEF Partition, RegionAt

\* A place is a call and either 0 or one of its children.
LEMMA PlaceParts ==
  ASSUME NEW st
  PROVE  /\ \A n \in DOMAIN st : \A m \in {0} \cup DOMAIN st[n].kids :
              <<n, m>> \in Places(st)
         /\ \A p \in Places(st) :
              /\ p = <<p[1], p[2]>>
              /\ p[1] \in DOMAIN st
              /\ p[2] \in {0} \cup DOMAIN st[p[1]].kids
BY DEF Places

\* A call moves on in its loops, or lists its own set: what it leaves behind is
\* listed or an exception.
LEMMA CallMoves ==
  ASSUME NEW T, NEW E, NEW listed, NEW st, NEW E2, NEW listed2, NEW st2,
         Partition(T, E, listed, st),
         NEW n \in DOMAIN st, DOMAIN st2 = DOMAIN st,
         \A i \in DOMAIN st : i # n => st2[i] = st[i],
         st2[n].kids = st[n].kids,
         Region(T, st2[n], 0) \subseteq Region(T, st[n], 0),
         listed \subseteq listed2,
         listed2 \ listed \subseteq Region(T, st[n], 0) \ Region(T, st2[n], 0),
         E \subseteq E2,
         Region(T, st[n], 0) \subseteq Region(T, st2[n], 0) \cup listed2 \cup E2
  PROVE  Partition(T, E2, listed2, st2)
<1> DEFINE from == [p \in Places(st2) |-> p]
<1>1. Places(st2) = Places(st)
  BY DEF Places
<1>2. ASSUME NEW p \in Places(st)
      PROVE  /\ RegionAt(T, st2, p) \subseteq RegionAt(T, st, p)
             /\ RegionAt(T, st2, p) \cap listed2 \subseteq listed
             /\ RegionAt(T, st, p) \subseteq RegionAt(T, st2, p) \cup listed2 \cup E2
  <2>1. CASE p = <<n, 0>>
    BY <2>1 DEF RegionAt
  <2>2. CASE p # <<n, 0>>
    <3>1. RegionAt(T, st2, p) = RegionAt(T, st, p)
      BY <2>2, PlaceParts DEF RegionAt, Region
    <3>2. <<n, 0>> \in Places(st)
      BY PlaceParts
    <3>3. RegionAt(T, st, p) \cap Region(T, st[n], 0) = {}
      <4>1. /\ RegionAt(T, st, p) = Region(T, st[p[1]], p[2])
            /\ Region(T, st[n], 0) = Region(T, st[(<<n, 0>>)[1]], (<<n, 0>>)[2])
        BY DEF RegionAt
      <4> QED BY <2>2, <3>2, <4>1 DEF Partition
    <3> QED BY <3>1, <3>3
  <2> QED BY <2>1, <2>2
<1>3. \A p \in Places(st2) : from[p] = p
  OBVIOUS
<1> HIDE DEF from
<1> QED BY <1>1, <1>2, <1>3, Repartition

\* A call leaves a part of its loops to a new child, which waits.
LEMMA CallBranches ==
  ASSUME NEW T, NEW E, NEW listed, NEW st, NEW st2,
         Partition(T, E, listed, st),
         NEW n \in DOMAIN st, DOMAIN st2 = DOMAIN st,
         \A i \in DOMAIN st : i # n => st2[i] = st[i],
         NEW m, m \notin {0} \cup DOMAIN st[n].kids,
         DOMAIN st2[n].kids = DOMAIN st[n].kids \cup {m},
         \A i \in DOMAIN st[n].kids : st2[n].kids[i] = st[n].kids[i],
         Region(T, st[n], 0) = Region(T, st2[n], 0) \cup Region(T, st2[n], m),
         Region(T, st2[n], 0) \cap Region(T, st2[n], m) = {}
  PROVE  Partition(T, E, listed, st2)
<1> DEFINE from == [p \in Places(st2) |-> IF p = <<n, m>> THEN <<n, 0>> ELSE p]
<1>1. Places(st2) = Places(st) \cup {<<n, m>>} /\ <<n, m>> \notin Places(st)
  <2>1. <<n, m>> \in Places(st2) /\ <<n, m>> \notin Places(st)
    BY PlaceParts
  <2>2. ASSUME NEW p \in Places(st) PROVE p \in Places(st2)
    <3>1. p = <<p[1], p[2]>> /\ p[1] \in DOMAIN st /\ p[2] \in {0} \cup DOMAIN st[p[1]].kids
      BY PlaceParts
    <3>2. p[2] \in {0} \cup DOMAIN st2[p[1]].kids
      BY <3>1
    <3> QED BY <3>1, <3>2, PlaceParts
  <2>3. ASSUME NEW p \in Places(st2), p # <<n, m>> PROVE p \in Places(st)
    <3>1. p = <<p[1], p[2]>> /\ p[1] \in DOMAIN st /\ p[2] \in {0} \cup DOMAIN st2[p[1]].kids
      BY PlaceParts
    <3>2. p[2] \in {0} \cup DOMAIN st[p[1]].kids
      BY <2>3, <3>1
    <3> QED BY <3>1, <3>2, PlaceParts
  <2> QED BY <2>1, <2>2, <2>3
<1>2. /\ <<n, 0>> \in Places(st)
      /\ RegionAt(T, st, <<n, 0>>) = Region(T, st[n], 0)
      /\ RegionAt(T, st2, <<n, 0>>) = Region(T, st2[n], 0)
      /\ RegionAt(T, st2, <<n, m>>) = Region(T, st2[n], m)
  BY PlaceParts DEF RegionAt
<1>3. ASSUME NEW p \in Places(st), p # <<n, 0>>
      PROVE  RegionAt(T, st2, p) = RegionAt(T, st, p)
  BY <1>3, PlaceParts DEF RegionAt, Region
<1>4. ASSUME NEW p \in Places(st)
      PROVE  RegionAt(T, st, p) \cap listed = {}
  BY DEF RegionAt, Partition
<1>5. /\ \A p \in Places(st) : from[p] = p
      /\ from[<<n, m>>] = <<n, 0>>
  BY <1>1
<1> HIDE DEF from
<1>6. \A p \in Places(st2) :
        /\ from[p] \in Places(st)
        /\ RegionAt(T, st2, p) \subseteq RegionAt(T, st, from[p])
        /\ RegionAt(T, st2, p) \cap listed \subseteq listed
  <2> SUFFICES ASSUME NEW p \in Places(st2)
               PROVE  /\ from[p] \in Places(st)
                      /\ RegionAt(T, st2, p) \subseteq RegionAt(T, st, from[p])
    OBVIOUS
  <2>1. CASE p = <<n, m>>
    BY <1>2, <1>5, <2>1
  <2>2. CASE p = <<n, 0>>
    BY <1>2, <1>5, <2>2
  <2>3. CASE p # <<n, m>> /\ p # <<n, 0>>
    BY <1>1, <1>3, <1>5, <2>3
  <2> QED BY <2>1, <2>2, <2>3
<1>7. \A p, q \in Places(st2) :
        p # q /\ from[p] = from[q] => RegionAt(T, st2, p) \cap RegionAt(T, st2, q) = {}
  BY <1>1, <1>2, <1>5
<1>8. \A p \in Places(st) : \A X \in RegionAt(T, st, p) :
        \/ X \in listed \cup E
        \/ \E q \in Places(st2) : X \in RegionAt(T, st2, q)
  <2> SUFFICES ASSUME NEW p \in Places(st), NEW X \in RegionAt(T, st, p)
               PROVE  \E q \in Places(st2) : X \in RegionAt(T, st2, q)
    OBVIOUS
  <2>1. CASE p = <<n, 0>>
    BY <1>1, <1>2, <2>1
  <2>2. CASE p # <<n, 0>>
    BY <1>1, <1>3, <2>2
  <2> QED BY <2>1, <2>2
<1> QED BY <1>6, <1>7, <1>8, Repartition

\* The first child of a call becomes a call itself.
LEMMA ChildCalled ==
  ASSUME NEW T, NEW E, NEW listed, NEW st, NEW st2,
         Partition(T, E, listed, st),
         NEW n \in DOMAIN st, NEW new, new \notin DOMAIN st,
         DOMAIN st2 = DOMAIN st \cup {new},
         \A i \in DOMAIN st : i # n => st2[i] = st[i],
         NEW len \in Nat, DOMAIN st[n].kids = 1 .. len + 1, DOMAIN st2[n].kids = 1 .. len,
         \A m \in 1 .. len : st2[n].kids[m] = st[n].kids[m + 1],
         Region(T, st2[n], 0) = Region(T, st[n], 0),
         DOMAIN st2[new].kids = {},
         Region(T, st2[new], 0) = Region(T, st[n], 1)
  PROVE  Partition(T, E, listed, st2)
<1> DEFINE from == [p \in Places(st2) |->
                      IF p[1] = new THEN <<n, 1>>
                      ELSE IF p[1] = n /\ p[2] # 0 THEN <<n, p[2] + 1>> ELSE p]
<1>1. ASSUME NEW p \in Places(st2)
      PROVE  \/ p = <<new, 0>> /\ from[p] = <<n, 1>>
             \/ \E m \in 1 .. len : p = <<n, m>> /\ from[p] = <<n, m + 1>>
             \/ p = <<n, 0>> /\ from[p] = <<n, 0>>
             \/ /\ p[1] \in DOMAIN st \ {n} /\ p[2] \in {0} \cup DOMAIN st[p[1]].kids
                /\ p = <<p[1], p[2]>> /\ from[p] = p
  <2>1. p = <<p[1], p[2]>> /\ p[1] \in DOMAIN st2 /\ p[2] \in {0} \cup DOMAIN st2[p[1]].kids
    BY PlaceParts
  <2>2. CASE p[1] = new
    BY <2>1, <2>2
  <2>3. CASE p[1] = n
    BY <2>1, <2>3
  <2>4. CASE p[1] # n /\ p[1] # new
    BY <2>1, <2>4
  <2> QED BY <2>2, <2>3, <2>4
<1>2. /\ RegionAt(T, st2, <<new, 0>>) = RegionAt(T, st, <<n, 1>>)
      /\ RegionAt(T, st2, <<n, 0>>) = RegionAt(T, st, <<n, 0>>)
      /\ \A m \in 1 .. len : RegionAt(T, st2, <<n, m>>) = RegionAt(T, st, <<n, m + 1>>)
      /\ \A p : p[1] \in DOMAIN st \ {n} => RegionAt(T, st2, p) = RegionAt(T, st, p)
  <2>1. ASSUME NEW m \in 1 .. len
        PROVE  RegionAt(T, st2, <<n, m>>) = RegionAt(T, st, <<n, m + 1>>)
    BY DEF RegionAt, Region
  <2>2. /\ RegionAt(T, st2, <<new, 0>>) = RegionAt(T, st, <<n, 1>>)
        /\ RegionAt(T, st2, <<n, 0>>) = RegionAt(T, st, <<n, 0>>)
    BY DEF RegionAt
  <2>3. \A p : p[1] \in DOMAIN st \ {n} => RegionAt(T, st2, p) = RegionAt(T, st, p)
    BY DEF RegionAt
  <2> QED BY <2>1, <2>2, <2>3
<1>3. /\ <<n, 1>> \in Places(st) /\ <<n, 0>> \in Places(st)
      /\ \A m \in 1 .. len : <<n, m + 1>> \in Places(st)
  <2>1. 1 \in DOMAIN st[n].kids /\ \A m \in 1 .. len : m + 1 \in DOMAIN st[n].kids
    OBVIOUS
  <2> QED BY <2>1, PlaceParts
<1>4. /\ <<new, 0>> \in Places(st2) /\ <<n, 0>> \in Places(st2)
      /\ \A m \in 1 .. len : <<n, m>> \in Places(st2)
  BY PlaceParts
<1>5. ASSUME NEW p \in Places(st)
      PROVE  \E q \in Places(st2) : RegionAt(T, st, p) = RegionAt(T, st2, q)
  <2>1. p = <<p[1], p[2]>> /\ p[1] \in DOMAIN st /\ p[2] \in {0} \cup DOMAIN st[p[1]].kids
    BY PlaceParts
  <2>2. CASE p[1] # n
    <3>1. p \in Places(st2)
      BY <2>1, <2>2, PlaceParts
    <3> QED BY <1>2, <2>1, <2>2, <3>1
  <2>3. CASE p[1] = n /\ p[2] \in {0, 1}
    BY <1>2, <1>4, <2>1, <2>3
  <2>4. CASE p[1] = n /\ p[2] \notin {0, 1}
    <3>1. p[2] - 1 \in 1 .. len /\ p[2] = (p[2] - 1) + 1
      BY <2>1, <2>4
    <3>2. RegionAt(T, st2, <<n, p[2] - 1>>) = RegionAt(T, st, <<n, (p[2] - 1) + 1>>)
      BY <1>2, <3>1
    <3> QED BY <1>4, <2>1, <2>4, <3>1, <3>2
  <2> QED BY <2>1, <2>2, <2>3, <2>4
<1> HIDE DEF from
<1>6. \A p \in Places(st2) :
        /\ from[p] \in Places(st)
        /\ RegionAt(T, st2, p) \subseteq RegionAt(T, st, from[p])
        /\ RegionAt(T, st2, p) \cap listed \subseteq listed
  <2> SUFFICES ASSUME NEW p \in Places(st2)
               PROVE  from[p] \in Places(st) /\ RegionAt(T, st2, p) = RegionAt(T, st, from[p])
    OBVIOUS
  <2>1. CASE p[1] \in DOMAIN st \ {n} /\ p[2] \in {0} \cup DOMAIN st[p[1]].kids
             /\ p = <<p[1], p[2]>> /\ from[p] = p
    BY <1>2, <2>1, PlaceParts
  <2> QED BY <1>1, <1>2, <1>3, <2>1
<1>7. \A p, q \in Places(st2) : p # q => from[p] # from[q]
  <2> SUFFICES ASSUME NEW p \in Places(st2), NEW q \in Places(st2), from[p] = from[q]
               PROVE  p = q
    OBVIOUS
  <2> QED BY <1>1
<1> QED BY <1>5, <1>6, <1>7, Repartition

\* A call that has nothing left to do returns.
LEMMA CallReturns ==
  ASSUME NEW T, NEW E, NEW listed, NEW st, NEW st2,
         Partition(T, E, listed, st),
         NEW n \in DOMAIN st, DOMAIN st2 = DOMAIN st \ {n},
         \A i \in DOMAIN st2 : st2[i] = st[i],
         DOMAIN st[n].kids = {},
         Region(T, st[n], 0) = {}
  PROVE  Partition(T, E, listed, st2)
<1> DEFINE from == [p \in Places(st2) |-> p]
<1>1. Places(st2) = Places(st) \ {<<n, 0>>}
  <2>1. ASSUME NEW p \in Places(st2) PROVE p \in Places(st) /\ p # <<n, 0>>
    BY PlaceParts
  <2>2. ASSUME NEW p \in Places(st), p # <<n, 0>> PROVE p \in Places(st2)
    <3>1. p = <<p[1], p[2]>> /\ p[1] \in DOMAIN st /\ p[2] \in {0} \cup DOMAIN st[p[1]].kids
      BY PlaceParts
    <3>2. p[1] # n
      BY <2>2, <3>1
    <3> QED BY <3>1, <3>2, PlaceParts
  <2> QED BY <2>1, <2>2
<1>2. \A p \in Places(st2) : RegionAt(T, st2, p) = RegionAt(T, st, p)
  BY PlaceParts DEF RegionAt
<1>3. RegionAt(T, st, <<n, 0>>) = {}
  BY DEF RegionAt
<1>4. \A p \in Places(st2) : from[p] = p
  OBVIOUS
<1> HIDE DEF from
<1> QED BY <1>1, <1>2, <1>3, <1>4, Repartition

\* When no call is left, everything is listed or an exception.
LEMMA AllFound ==
  ASSUME NEW T, NEW E, NEW listed, NEW st, Partition(T, E, listed, st), DOMAIN st = {}
  PROVE  T \subseteq listed \cup E
BY DEF Partition, Places

-----------------------------------------------------------------------------
\* The loops of a call.

\* The sets above B that first differ from it at j, to a degree from g to h.
DepartingAt(T, B, j, g, h) ==
  {X \in T :
     /\ Leq(B, X)
     /\ \A c \in Attributes : c < j => X[c] = B[c]
     /\ B[j] < X[j] /\ g <= X[j] /\ X[j] <= h}

\* The degrees of a set of attributes are numbers.
LEMMA SetValues ==
  ASSUME NEW X \in AttrSets
  PROVE  \A c \in Attributes : X[c] \in Grades /\ X[c] \in Int /\ c \in Int
BY KAssumption, NAttrAssumption DEF AttrSets, Grades, Attributes

\* The subtree of C is C and what its loops will come to.
LEMMA SubtreeParts ==
  ASSUME NEW T, T \subseteq AttrSets, NEW C \in T, NEW y \in -1 .. NAttr - 1
  PROVE  /\ Subtree(T, C, y) = {C} \cup LoopRegion(T, C, y + 1, 0)
         /\ C \notin LoopRegion(T, C, y + 1, 0)
<1>1. \A X \in T \cup {C} : X \in AttrSets /\ \A c \in Attributes : X[c] \in Int /\ c \in Int
  BY SetValues
<1>2. C \in Subtree(T, C, y) /\ C \notin LoopRegion(T, C, y + 1, 0)
  BY <1>1 DEF Subtree, LoopRegion, Leq
<1>3. ASSUME NEW X \in Subtree(T, C, y), X # C PROVE X \in LoopRegion(T, C, y + 1, 0)
  <2>1. X \in T /\ X \in AttrSets /\ Leq(C, X) /\ \A c \in Attributes : c <= y => X[c] = C[c]
    BY <1>1 DEF Subtree
  <2>2. PICK d \in Attributes : LecticAt(C, X, d)
    BY <1>3, <2>1, LecticOrderLaws DEF LecticLess
  <2>3. /\ \A c \in Attributes : c < d => X[c] = C[c]
        /\ C[d] < X[d]
    BY <2>2 DEF LecticAt
  <2>4. d \in Int /\ X[d] \in Grades /\ C[d] \in Int /\ X[d] \in Int /\ y \in Int
    BY <2>1, <1>1, SetValues
  <2>5. y + 1 < d \/ (y + 1 = d /\ 0 <= X[d])
    BY <2>1, <2>3, <2>4, KAssumption DEF Grades
  <2> QED BY <2>1, <2>3, <2>5 DEF LoopRegion
<1>4. ASSUME NEW X \in LoopRegion(T, C, y + 1, 0) PROVE X \in Subtree(T, C, y)
  <2>1. PICK d \in Attributes :
          /\ \A c \in Attributes : c < d => X[c] = C[c]
          /\ y + 1 < d \/ y + 1 = d
    BY DEF LoopRegion
  <2>2. \A c \in Attributes : c <= y => X[c] = C[c]
    <3>1. \A c \in Attributes : c \in Int
      BY <1>1
    <3> QED BY <2>1, <3>1
  <2> QED BY <2>2 DEF Subtree, LoopRegion
<1> QED BY <1>2, <1>3, <1>4

\* After the last attribute nothing is left, and above the full set nothing is.
LEMMA LoopsOver ==
  ASSUME NEW T, T \subseteq AttrSets, NEW C \in AttrSets, NEW g
  PROVE  /\ LoopRegion(T, C, NAttr, g) = {}
         /\ ~BelowFull(C) => \A j : LoopRegion(T, C, j, g) = {}
<1>1. \A X \in T \cup {C} : \A c \in Attributes : X[c] \in Grades /\ X[c] \in Int /\ c \in Int
  BY SetValues
<1>2. \A d \in Attributes : ~(NAttr < d) /\ NAttr # d
  BY NAttrAssumption DEF Attributes
<1>3. ASSUME ~BelowFull(C), NEW j, NEW X \in LoopRegion(T, C, j, g) PROVE FALSE
  <2>1. X \in T /\ \E d \in Attributes : C[d] < X[d]
    BY DEF LoopRegion
  <2> QED BY <1>1, <1>3, <2>1, KAssumption DEF BelowFull, Grades
<1> QED BY <1>2, <1>3 DEF LoopRegion

\* The place in the loops after the degree h of j.
After(j, h) == IF h < K THEN <<j, NextGrade(I, h)>> ELSE <<j + 1, 0>>

\* Moving on after the degree h leaves the sets behind that depart from B at j
\* to a degree from g to h.
GradedFamily(T) == T \subseteq AttrSets /\ \A X \in T : Graded(I, X)

\* What a loop leaves behind when it moves on after the degree h is what departs
\* from B at j between g and h.
LEMMA LoopAdvances ==
  ASSUME I \in Contexts, NEW T, GradedFamily(T),
         NEW B \in AttrSets, NEW j \in Attributes, NEW g \in GradesSet(I),
         NEW h \in GradesSet(I), g <= h
  PROVE  LET a == After(j, h)
         IN  /\ LoopRegion(T, B, j, g)
                  = DepartingAt(T, B, j, g, h) \cup LoopRegion(T, B, a[1], a[2])
             /\ DepartingAt(T, B, j, g, h) \cap LoopRegion(T, B, a[1], a[2]) = {}
             /\ a[1] \in {j, j + 1}
             /\ a[2] \in GradesSet(I)
             /\ a[1] = j => h < a[2] /\ \A e \in GradesSet(I) : h < e => a[2] <= e
             /\ a[1] = j + 1 => h = K
<1> DEFINE a == After(j, h)
<1>1. GradesSet(I) \subseteq Grades /\ 0 \in GradesSet(I) /\ j \in Int
  BY GradeSteps, NAttrAssumption DEF Attributes
<1>2. \/ a[1] = j /\ h < a[2] /\ a[2] \in GradesSet(I) /\ h < K
         /\ \A e \in GradesSet(I) : h < e => a[2] <= e
      \/ a[1] = j + 1 /\ a[2] = 0 /\ h = K
  <2>1. CASE h < K
    BY <2>1, <1>1, GradeSteps DEF After
  <2>2. CASE ~(h < K)
    <3>1. h = K
      BY <1>1, <2>2, KAssumption DEF Grades
    <3> QED BY <2>2, <3>1 DEF After
  <2> QED BY <2>1, <2>2
<1>3. a[1] \in {j, j + 1} /\ a[2] \in GradesSet(I)
  BY <1>1, <1>2
<1> HIDE DEF a
<1>4. \A X \in T : \A c \in Attributes :
        X[c] \in GradesSet(I) /\ X[c] \in Grades /\ X[c] \in Int /\ c \in Int
  BY SetValues DEF Graded, GradedFamily
<1>5. /\ g \in Int /\ h \in Int /\ a[1] \in Int /\ a[2] \in Int /\ K \in Int /\ j \in Int
      /\ \A c \in Attributes : B[c] \in Int
  BY <1>1, <1>3, SetValues, KAssumption DEF Grades
<1>6. ASSUME NEW X \in LoopRegion(T, B, j, g), X \notin DepartingAt(T, B, j, g, h)
      PROVE  X \in LoopRegion(T, B, a[1], a[2])
  <2>1. X \in T /\ Leq(B, X)
    BY DEF LoopRegion
  <2>2. PICK d \in Attributes :
          /\ \A c \in Attributes : c < d => X[c] = B[c]
          /\ B[d] < X[d]
          /\ j < d \/ (j = d /\ g <= X[d])
    BY DEF LoopRegion
  <2>3. j = d => h < X[d]
    BY <1>4, <1>5, <1>6, <2>1, <2>2 DEF DepartingAt
  <2>4. X[d] \in GradesSet(I) /\ X[d] \in 0 .. K /\ d \in Int
    BY <1>4, <2>1 DEF Grades
  <2>5. a[1] < d \/ (a[1] = d /\ a[2] <= X[d])
    BY <1>2, <1>5, <2>2, <2>3, <2>4
  <2> QED BY <2>1, <2>2, <2>5 DEF LoopRegion
<1>7. ASSUME NEW X \in LoopRegion(T, B, a[1], a[2])
      PROVE  X \in LoopRegion(T, B, j, g) /\ X \notin DepartingAt(T, B, j, g, h)
  <2>1. X \in T /\ Leq(B, X)
    BY DEF LoopRegion
  <2>2. PICK d \in Attributes :
          /\ \A c \in Attributes : c < d => X[c] = B[c]
          /\ B[d] < X[d]
          /\ a[1] < d \/ (a[1] = d /\ a[2] <= X[d])
    BY DEF LoopRegion
  <2>3. X[d] \in 0 .. K /\ d \in Int /\ X[j] \in Int /\ B[d] \in Int /\ B[j] \in Int
    BY <1>4, <1>5, <2>1 DEF Grades
  <2>4. j < d \/ (j = d /\ g <= X[d] /\ h < X[d])
    BY <1>2, <1>5, <2>2, <2>3
  <2>5. X \in LoopRegion(T, B, j, g)
    BY <2>1, <2>2, <2>4 DEF LoopRegion
  <2>6. X \notin DepartingAt(T, B, j, g, h)
    BY <1>5, <2>2, <2>3, <2>4 DEF DepartingAt
  <2> QED BY <2>5, <2>6
<1>8. ASSUME NEW X \in DepartingAt(T, B, j, g, h) PROVE X \in LoopRegion(T, B, j, g)
  BY DEF LoopRegion, DepartingAt
<1> QED BY <1>2, <1>3, <1>5, <1>6, <1>7, <1>8 DEF a

-----------------------------------------------------------------------------
\* The derivation operators of Godel logic.

\* The names that the miners are bound to exist.
LEMMA GodelNames == "Godel" \in LogicNames /\ "standard" \in Connections
BY DEF LogicNames, Connections

\* The Galois connection, in the names of FindConcepts.
LEMMA UpDown ==
  ASSUME I \in Contexts
  PROVE  /\ \A E \in ObjectSets : up(E) \in AttrSets /\ Below(E, down(up(E)))
         /\ \A B \in AttrSets : down(B) \in ObjectSets /\ Leq(B, up(down(B)))
         /\ \A E, F \in ObjectSets : Below(E, F) => Leq(up(F), up(E))
         /\ \A B, C \in AttrSets : Leq(B, C) => Below(down(C), down(B))
<1>1. /\ \A E \in ObjectSets : up(E) \in AttrSets
      /\ \A B \in AttrSets : down(B) \in ObjectSets
  <2>1. /\ \A E : up(E) = intent_f("standard", "Godel", I, E)
        /\ \A B : down(B) = extent_f("standard", "Godel", I, B)
    BY DEF up, down, intent_f, extent_f
  <2> QED BY <2>1, DerivationTypes, GodelNames
<1>2. /\ \A E \in ObjectSets : Below(E, down(up(E)))
      /\ \A B \in AttrSets : Leq(B, up(down(B)))
  BY StandardExtensive, GodelNames DEF up, down, Below
<1>3. /\ \A E, F \in ObjectSets : Below(E, F) => Leq(up(F), up(E))
      /\ \A B, C \in AttrSets : Leq(B, C) => Below(down(C), down(B))
  BY StandardAntitone, GodelNames DEF up, down, Below
<1> QED BY <1>1, <1>2, <1>3

\* The inclusion of extents is a partial order.
LEMMA BelowOrder ==
  ASSUME NEW E \in ObjectSets, NEW F \in ObjectSets
  PROVE  /\ Below(E, F) /\ Below(F, E) => E = F
         /\ Below(E, E)
         /\ \A G \in ObjectSets : Below(E, F) /\ Below(F, G) => Below(E, G)
<1>1. \A o \in Objects : E[o] \in Int /\ F[o] \in Int
  BY KAssumption DEF ObjectSets, Grades
<1>2. ASSUME NEW G \in ObjectSets PROVE \A o \in Objects : G[o] \in Int
  BY KAssumption DEF ObjectSets, Grades
<1>3. ASSUME Below(E, F), Below(F, E) PROVE E = F
  <2>1. \A o \in Objects : E[o] = F[o]
    BY <1>1, <1>3 DEF Below
  <2> QED BY <2>1 DEF ObjectSets
<1> QED BY <1>1, <1>2, <1>3 DEF Below

\* Degrees of an intent and of an extent as bounds.
LEMMA Degrees ==
  ASSUME I \in Contexts
  PROVE  /\ \A E \in ObjectSets, c \in Attributes :
              /\ \A o \in Objects : up(E)[c] <= implication_Godel(E[o], I[o][c])
              /\ \A g \in Grades :
                   (\A o \in Objects : g <= implication_Godel(E[o], I[o][c])) => g <= up(E)[c]
         /\ \A B \in AttrSets, o \in Objects :
              /\ \A c \in Attributes : down(B)[o] <= implication_Godel(B[c], I[o][c])
              /\ \A g \in Grades :
                   (\A c \in Attributes : g <= implication_Godel(B[c], I[o][c])) => g <= down(B)[o]
<1>0. \A x, y : implication("Godel", x, y) = implication_Godel(x, y)
  BY DEF implication
<1>1. ASSUME NEW E \in ObjectSets, NEW c \in Attributes
      PROVE  /\ \A o \in Objects : up(E)[c] <= implication_Godel(E[o], I[o][c])
             /\ \A g \in Grades :
                   (\A o \in Objects : g <= implication_Godel(E[o], I[o][c])) => g <= up(E)[c]
  <2> DEFINE f == [r \in Objects |-> implication("Godel", E[r], I[r][c])]
  <2>1. f \in [Objects -> Grades]
    BY LogicTypes, GodelNames DEF Contexts, ObjectSets
  <2>2. up(E)[c] = Inf(f)
    BY DEF up, compute_intent
  <2>3. \A o \in Objects : f[o] = implication_Godel(E[o], I[o][c])
    BY <1>0
  <2> HIDE DEF f
  <2> QED BY <2>1, <2>2, <2>3, InfSup
<1>2. ASSUME NEW B \in AttrSets, NEW o \in Objects
      PROVE  /\ \A c \in Attributes : down(B)[o] <= implication_Godel(B[c], I[o][c])
             /\ \A g \in Grades :
                   (\A c \in Attributes : g <= implication_Godel(B[c], I[o][c])) => g <= down(B)[o]
  <2> DEFINE f == [c \in Attributes |-> implication("Godel", B[c], I[o][c])]
  <2>1. f \in [Attributes -> Grades]
    BY LogicTypes, GodelNames DEF Contexts, AttrSets
  <2>2. down(B)[o] = Inf(f)
    BY DEF down, compute_extent
  <2>3. \A c \in Attributes : f[c] = implication_Godel(B[c], I[o][c])
    BY <1>0
  <2> HIDE DEF f
  <2> QED BY <2>1, <2>2, <2>3, InfSup
<1> QED BY <1>1, <1>2

\* The degrees of an intent all occur in the matrix.
LEMMA IntentsGraded ==
  ASSUME I \in Contexts, NEW E \in ObjectSets
  PROVE  Graded(I, up(E))
<1> SUFFICES ASSUME NEW c \in Attributes PROVE up(E)[c] \in GradesSet(I)
  BY DEF Graded
<1> DEFINE f == [r \in Objects |-> implication("Godel", E[r], I[r][c])]
           S == {K} \cup Range(f)
<1>1. up(E)[c] = Min(S)
  BY DEF up, compute_intent, Inf
<1>2. f \in [Objects -> Grades]
  BY LogicTypes, GodelNames DEF Contexts, ObjectSets
<1>3. S \in SUBSET Nat /\ S # {}
  BY <1>2, KAssumption DEF Range, Grades
<1>4. \A s \in S : s = K \/ \E r \in Objects : s = f[r]
  BY DEF Range
<1>5. \A s \in S : s \in GradesSet(I)
  <2> SUFFICES ASSUME NEW s \in S PROVE s \in GradesSet(I)
    OBVIOUS
  <2>1. CASE s = K
    BY <2>1, GradeSteps
  <2>2. CASE s # K
    <3>1. PICK r \in Objects : s = f[r]
      BY <1>4, <2>2
    <3>2. s = implication("Godel", E[r], I[r][c])
      BY <3>1
    <3>3. s = I[r][c] /\ I[r][c] \in Grades
      BY <2>2, <3>2 DEF implication, implication_Godel, Contexts
    <3> QED BY <3>3 DEF GradesSet
  <2> QED BY <2>1, <2>2
<1>6. Min(S) \in S
  <2> HIDE DEF S
  <2> QED BY <1>3, NatMin
<1> QED BY <1>1, <1>5, <1>6

-----------------------------------------------------------------------------
\* Narrowing an extent to the objects that have j to the degree h.

\* The part of an extent that has j to the degree h is an extent below it.
LEMMA PartValues ==
  ASSUME I \in Contexts, NEW E \in ObjectSets, NEW j \in Attributes, NEW h \in Grades
  PROVE  /\ Part(E, j, h) \in ObjectSets
         /\ Below(Part(E, j, h), E)
         /\ \A o \in Objects :
              Part(E, j, h)[o] = IF h <= I[o][j] \/ E[o] <= I[o][j] THEN E[o] ELSE I[o][j]
         /\ \A o \in Objects : E[o] \in Grades /\ I[o][j] \in Grades
<1>1. \A o \in Objects : E[o] \in Grades /\ I[o][j] \in Grades
  BY DEF Contexts, ObjectSets
<1> QED BY <1>1, KAssumption DEF Part, ObjectSets, Below, Grades

\* The part grows with the extent and shrinks with the degree.
LEMMA PartMonotone ==
  ASSUME I \in Contexts, NEW E \in ObjectSets, NEW F \in ObjectSets, Below(E, F),
         NEW j \in Attributes, NEW g \in Grades, NEW h \in Grades, g <= h
  PROVE  Below(Part(E, j, h), Part(F, j, g))
<1> SUFFICES ASSUME NEW o \in Objects PROVE Part(E, j, h)[o] <= Part(F, j, g)[o]
  BY DEF Below
<1>1. /\ E[o] \in Int /\ F[o] \in Int /\ I[o][j] \in Int /\ g \in Int /\ h \in Int
      /\ E[o] <= F[o]
  BY PartValues, KAssumption DEF Grades, Below
<1>2. /\ Part(E, j, h)[o] = IF h <= I[o][j] \/ E[o] <= I[o][j] THEN E[o] ELSE I[o][j]
      /\ Part(F, j, g)[o] = IF g <= I[o][j] \/ F[o] <= I[o][j] THEN F[o] ELSE I[o][j]
  BY PartValues
<1> QED BY <1>1, <1>2

\* The part of the extent of a concept is the extent of a concept above it,
\* which has j at least to the degree h.
LEMMA PartConcept ==
  ASSUME I \in Contexts, NEW E, NEW B, IsConcept(E, B),
         NEW j \in Attributes, NEW h \in Grades
  PROVE  LET C == Part(E, j, h)
             D == up(C)
         IN  /\ IsConcept(C, D)
             /\ Leq(B, D)
             /\ h <= D[j]
             /\ h <= B[j] => C = E /\ D = B
             /\ C = E <=> D = B
<1> DEFINE C == Part(E, j, h)
           D == up(C)
           F == down(D)
<1>1. /\ E \in ObjectSets /\ B \in AttrSets /\ B = up(E) /\ E = down(B)
      /\ C \in ObjectSets /\ Below(C, E)
      /\ \A o \in Objects : C[o] = IF h <= I[o][j] \/ E[o] <= I[o][j] THEN E[o] ELSE I[o][j]
      /\ \A o \in Objects : E[o] \in 0 .. K /\ I[o][j] \in 0 .. K
      /\ h \in 0 .. K /\ K \in Int
  BY PartValues, KAssumption DEF IsConcept, Grades
<1>2. D \in AttrSets /\ F \in ObjectSets /\ Below(C, F) /\ Leq(B, D) /\ Below(F, E)
  BY <1>1, UpDown
<1> HIDE DEF C
<1>3. h <= D[j]
  <2>1. \A o \in Objects : h <= implication_Godel(C[o], I[o][j])
    BY <1>1 DEF implication_Godel
  <2> QED BY <1>1, <2>1, Degrees
<1>4. \A o \in Objects : F[o] \in Int /\ F[o] <= E[o]
  BY <1>2, KAssumption DEF Below, ObjectSets, Grades
<1>5. \A o \in Objects : F[o] <= implication_Godel(D[j], I[o][j])
  BY <1>2, Degrees
<1>6. D[j] \in Int /\ h <= D[j]
  BY <1>2, <1>3, SetValues
<1> HIDE DEF D, F
<1>7. Below(F, C)
  <2>1. \A o \in Objects : F[o] <= C[o]
    BY <1>1, <1>4, <1>5, <1>6 DEF implication_Godel
  <2> QED BY <2>1 DEF Below
<1>8. F = C
  BY <1>1, <1>2, <1>7, BelowOrder
<1>9. IsConcept(C, D)
  BY <1>1, <1>2, <1>8 DEF IsConcept, F, D
<1>10. ASSUME h <= B[j] PROVE C = E
  <2>1. \A o \in Objects : E[o] <= implication_Godel(B[j], I[o][j])
    BY <1>1, Degrees
  <2>2. B[j] \in Int
    BY <1>1, SetValues
  <2>3. \A o \in Objects : C[o] = E[o]
    BY <1>1, <1>10, <2>1, <2>2 DEF implication_Godel
  <2> QED BY <1>1, <2>3 DEF ObjectSets
<1>11. C = E <=> D = B
  BY <1>1, <1>8 DEF D, F
<1> QED BY <1>2, <1>3, <1>9, <1>10, <1>11 DEF C, D

\* A set with j to the degree h, above B, has its extent within that part.
LEMMA PartBounds ==
  ASSUME I \in Contexts, NEW E, NEW B, IsConcept(E, B), NEW j \in Attributes,
         NEW h \in Grades, NEW X \in ToFind, Leq(B, X), h <= X[j]
  PROVE  /\ Below(down(X), Part(E, j, h))
         /\ Leq(up(Part(E, j, h)), X)
<1>1. /\ E \in ObjectSets /\ B \in AttrSets /\ E = down(B) /\ X \in AttrSets
      /\ up(down(X)) = X
  BY DEF IsConcept, ToFind
<1>2. down(X) \in ObjectSets /\ Below(down(X), E)
  BY <1>1, UpDown
<1>3. Part(E, j, h) \in ObjectSets
  BY <1>1, PartValues
<1>4. ASSUME NEW o \in Objects PROVE down(X)[o] <= Part(E, j, h)[o]
  <2>1. down(X)[o] <= implication_Godel(X[j], I[o][j])
    BY <1>1, Degrees
  <2>2. /\ Part(E, j, h)[o] = IF h <= I[o][j] \/ E[o] <= I[o][j] THEN E[o] ELSE I[o][j]
        /\ E[o] \in Int /\ I[o][j] \in Int /\ h \in Int /\ X[j] \in Int
        /\ down(X)[o] \in Int /\ down(X)[o] <= E[o]
    <3>1. \A o2 \in Objects : down(X)[o2] \in Grades /\ down(X)[o2] <= E[o2]
      BY <1>2 DEF ObjectSets, Below
    <3>2. /\ Part(E, j, h)[o] = IF h <= I[o][j] \/ E[o] <= I[o][j] THEN E[o] ELSE I[o][j]
          /\ E[o] \in Grades /\ I[o][j] \in Grades
      BY <1>1, PartValues
    <3>3. X[j] \in Int
      BY <1>1, SetValues
    <3> QED BY <3>1, <3>2, <3>3, KAssumption DEF Grades
  <2> QED BY <2>1, <2>2 DEF implication_Godel
<1>5. Below(down(X), Part(E, j, h))
  BY <1>4 DEF Below
<1> QED BY <1>1, <1>2, <1>3, <1>5, UpDown

\* What the loops of a call for the concept (E, B) may leave behind at <<j, g>>,
\* where D is the intent of the objects with j to the degree g.
LEMMA LeftBehind ==
  ASSUME I \in Contexts, NEW E, NEW B, IsConcept(E, B),
         NEW j \in Attributes, NEW g \in GradesSet(I)
  PROVE  LET D == up(Part(E, j, g))
         IN  /\ \A h \in GradesSet(I) : h <= B[j] \/ h < D[j] =>
                  DepartingAt(ToFind, B, j, g, h) = {}
             /\ (\E k \in Attributes : k < j /\ B[k] < D[k]) =>
                  \A h \in GradesSet(I) : DepartingAt(ToFind, B, j, g, h) = {}
             /\ (\A k \in Attributes : k < j => D[k] <= B[k]) /\ B[j] < g =>
                  DepartingAt(ToFind, B, j, g, D[j]) = Subtree(ToFind, D, j)
             /\ \A h \in GradesSet(I) : g <= h /\ Part(E, j, g) = NoObject =>
                  DepartingAt(ToFind, B, j, g, h) \subseteq WithoutObjects
<1> DEFINE C == Part(E, j, g)
           D == up(C)
<1>1. g \in Grades /\ B \in AttrSets /\ E \in ObjectSets
  BY GradeSteps DEF IsConcept
<1>2. IsConcept(C, D) /\ Leq(B, D) /\ g <= D[j]
  BY <1>1, PartConcept
<1>3. D \in AttrSets
  BY <1>2 DEF IsConcept
<1>4. /\ \A c \in Attributes : B[c] \in Int /\ D[c] \in Int /\ c \in Int /\ B[c] <= D[c]
      /\ j \in Int /\ g \in Int
  BY <1>1, <1>2, <1>3, SetValues, KAssumption DEF Leq, Grades
<1>5. ASSUME NEW h, NEW X \in DepartingAt(ToFind, B, j, g, h)
      PROVE  /\ X \in ToFind /\ X \in AttrSets /\ Leq(B, X)
             /\ \A c \in Attributes : X[c] \in Int /\ D[c] <= X[c]
             /\ \A c \in Attributes : c < j => X[c] = B[c]
             /\ B[j] < X[j] /\ g <= X[j] /\ X[j] <= h
             /\ Below(down(X), C)
  <2>1. /\ X \in ToFind /\ Leq(B, X)
        /\ \A c \in Attributes : c < j => X[c] = B[c]
        /\ B[j] < X[j] /\ g <= X[j] /\ X[j] <= h
    BY DEF DepartingAt
  <2>2. Below(down(X), C) /\ Leq(D, X) /\ X \in AttrSets
    BY <1>1, <2>1, PartBounds DEF ToFind
  <2> QED BY <2>1, <2>2, SetValues DEF Leq
<1>6. ASSUME NEW X \in Subtree(ToFind, D, j),
             \A k \in Attributes : k < j => D[k] <= B[k], B[j] < g
      PROVE  X \in DepartingAt(ToFind, B, j, g, D[j])
  <2>1. /\ X \in ToFind /\ X \in AttrSets /\ Leq(D, X)
        /\ \A c \in Attributes : c <= j => X[c] = D[c]
    BY DEF Subtree, ToFind
  <2>2. Leq(B, X)
    BY <1>1, <1>2, <1>3, <2>1, LeqOrder
  <2>3. X[j] = D[j] /\ \A c \in Attributes : c < j => X[c] = B[c]
    BY <1>4, <1>6, <2>1
  <2>4. X[j] \in Int
    BY <2>1, SetValues
  <2> QED BY <1>2, <1>4, <1>6, <2>1, <2>2, <2>3, <2>4 DEF DepartingAt
<1>7. ASSUME NEW X \in DepartingAt(ToFind, B, j, g, D[j]),
             \A k \in Attributes : k < j => D[k] <= B[k], B[j] < g
      PROVE  X \in Subtree(ToFind, D, j)
  <2>1. Leq(D, X) /\ X \in ToFind
    BY <1>5 DEF Leq
  <2>2. ASSUME NEW c \in Attributes, c <= j PROVE X[c] = D[c]
    <3>1. CASE c = j
      BY <1>4, <1>5, <3>1
    <3>2. CASE c < j
      BY <1>4, <1>5, <1>7, <3>2
    <3> QED BY <1>4, <2>2, <3>1, <3>2
  <2> QED BY <2>1, <2>2 DEF Subtree
<1>8. ASSUME NEW h \in GradesSet(I), NEW X \in DepartingAt(ToFind, B, j, g, h),
             C = NoObject
      PROVE  X \in WithoutObjects
  <2>1. down(X) \in ObjectSets
    BY <1>5, UpDown
  <2>2. \A o \in Objects : down(X)[o] \in 0 .. K /\ down(X)[o] <= 0
    <3>1. \A o \in Objects : C[o] = 0
      BY <1>8 DEF NoObject
    <3> HIDE DEF C
    <3> QED BY <1>5, <2>1, <3>1 DEF ObjectSets, Grades, Below
  <2>3. down(X) = NoObject
    <3>1. \A o \in Objects : down(X)[o] = 0
      BY <2>2, KAssumption
    <3> QED BY <2>1, <3>1 DEF ObjectSets, NoObject
  <2> QED BY <1>5, <2>3 DEF WithoutObjects
<1>9. \A h \in GradesSet(I) : h \in Int
  BY GradeSteps, KAssumption DEF Grades
<1> HIDE DEF D, C
<1>10. ASSUME NEW h \in GradesSet(I), h <= B[j] \/ h < D[j]
      PROVE  DepartingAt(ToFind, B, j, g, h) = {}
  BY <1>4, <1>5, <1>9, <1>10
<1>11. ASSUME NEW k \in Attributes, k < j, B[k] < D[k], NEW h \in GradesSet(I)
      PROVE  DepartingAt(ToFind, B, j, g, h) = {}
  BY <1>4, <1>5, <1>11
<1>12. ASSUME \A k \in Attributes : k < j => D[k] <= B[k], B[j] < g
       PROVE  DepartingAt(ToFind, B, j, g, D[j]) = Subtree(ToFind, D, j)
  BY <1>6, <1>7, <1>12
<1> QED BY <1>8, <1>10, <1>11, <1>12 DEF C, D

-----------------------------------------------------------------------------
\* Stacks.

\* The top of a stack replaced.
LEMMA LastReplaced ==
  ASSUME NEW S, NEW s \in Seq(S), s # <<>>, NEW f \in S
  PROVE  LET t == [s EXCEPT ![Len(s)] = f]
         IN  /\ t \in Seq(S) /\ Len(t) = Len(s) /\ DOMAIN t = DOMAIN s
             /\ Len(s) \in Nat \ {0} /\ DOMAIN s = 1 .. Len(s)
             /\ Len(s) \in DOMAIN s /\ s[Len(s)] \in S
             /\ t[Len(s)] = f
             /\ \A i \in DOMAIN s : i # Len(s) => t[i] = s[i]
<1>1. /\ Len(s) \in Nat \ {0} /\ DOMAIN s = 1 .. Len(s) /\ Len(s) \in DOMAIN s
      /\ s[Len(s)] \in S
  BY EmptySeq, LenProperties, ElementOfSeq
<1>2. /\ [s EXCEPT ![Len(s)] = f] \in Seq(S)
      /\ Len([s EXCEPT ![Len(s)] = f]) = Len(s)
      /\ \A i \in 1 .. Len(s) : [s EXCEPT ![Len(s)] = f][i] = IF i = Len(s) THEN f ELSE s[i]
  BY <1>1, ExceptSeq
<1>3. DOMAIN [s EXCEPT ![Len(s)] = f] = DOMAIN s
  OBVIOUS
<1> QED BY <1>1, <1>2, <1>3

\* A call pushed on a stack.
LEMMA LastPushed ==
  ASSUME NEW S, NEW s \in Seq(S), NEW f \in S
  PROVE  /\ Append(s, f) \in Seq(S) /\ Len(Append(s, f)) = Len(s) + 1
         /\ DOMAIN s = 1 .. Len(s) /\ Len(s) \in Nat
         /\ DOMAIN Append(s, f) = DOMAIN s \cup {Len(s) + 1}
         /\ Len(s) + 1 \notin DOMAIN s
         /\ Append(s, f)[Len(s) + 1] = f
         /\ \A i \in DOMAIN s : Append(s, f)[i] = s[i]
<1>1. DOMAIN s = 1 .. Len(s) /\ Len(s) \in Nat
  BY LenProperties
<1>2. Append(s, f) \in Seq(S) /\ Len(Append(s, f)) = Len(s) + 1
  OBVIOUS
<1>3. DOMAIN Append(s, f) = 1 .. Len(s) + 1
  BY <1>2, LenProperties
<1>4. /\ Append(s, f)[Len(s) + 1] = f
      /\ \A i \in 1 .. Len(s) : Append(s, f)[i] = s[i]
  BY <1>1
<1> QED BY <1>1, <1>2, <1>3, <1>4

\* A call popped off a stack.
LEMMA LastDropped ==
  ASSUME NEW S, NEW s \in Seq(S), s # <<>>
  PROVE  LET t == SubSeq(s, 1, Len(s) - 1)
         IN  /\ t \in Seq(S) /\ Len(t) = Len(s) - 1
             /\ DOMAIN s = 1 .. Len(s) /\ Len(s) \in Nat \ {0}
             /\ Len(s) \in DOMAIN s
             /\ DOMAIN t = DOMAIN s \ {Len(s)}
             /\ \A i \in DOMAIN t : t[i] = s[i]
<1>1. /\ Len(s) \in Nat \ {0} /\ DOMAIN s = 1 .. Len(s)
      /\ \A i \in 1 .. Len(s) - 1 : s[i] \in S
  BY EmptySeq, LenProperties, ElementOfSeq
<1>2. PICK n \in Nat : n = Len(s) - 1
  <2>1. Len(s) \in Nat \ {0}
    BY <1>1
  <2> QED BY <2>1
<1>3. /\ SubSeq(s, 1, n) \in Seq(S)
      /\ Len(SubSeq(s, 1, n)) = IF 1 <= n THEN n - 1 + 1 ELSE 0
      /\ \A i \in 1 .. n - 1 + 1 : SubSeq(s, 1, n)[i] = s[1 + i - 1]
  BY <1>1, <1>2, SubSeqProperties
<1>4. DOMAIN SubSeq(s, 1, n) = 1 .. Len(SubSeq(s, 1, n))
  BY <1>3, LenProperties
<1>5. Len(SubSeq(s, 1, n)) = n
  BY <1>2, <1>3
<1>6. \A i \in 1 .. n : SubSeq(s, 1, n)[i] = s[i]
  BY <1>2, <1>3
<1> QED BY <1>1, <1>2, <1>3, <1>4, <1>5, <1>6

\* A first call that has everything to find.
LEMMA FirstCall ==
  ASSUME NEW T, NEW listed, NEW st, NEW n, DOMAIN st = {n}, DOMAIN st[n].kids = {},
         NEW E, Region(T, st[n], 0) \cap listed = {},
         T \subseteq listed \cup E \cup Region(T, st[n], 0)
  PROVE  Partition(T, E, listed, st)
<1>1. Places(st) = {<<n, 0>>}
  BY DEF Places
<1> QED BY <1>1 DEF Partition

-----------------------------------------------------------------------------
\* The intents to be found.

\* The sets to be found are graded by the degrees of the matrix.
LEMMA FoundTypes ==
  ASSUME I \in Contexts
  PROVE  /\ ToFind \subseteq AttrSets
         /\ \A X \in ToFind : Graded(I, X)
         /\ \A E, B : IsConcept(E, B) => B \in ToFind
         /\ GradesSet(I) \subseteq Grades /\ 0 \in GradesSet(I) /\ K \in GradesSet(I)
<1>1. ASSUME NEW X \in ToFind PROVE X \in AttrSets /\ Graded(I, X)
  <2>1. X \in AttrSets /\ X = up(down(X)) /\ down(X) \in ObjectSets
    BY UpDown DEF ToFind
  <2>2. Graded(I, up(down(X)))
    BY <2>1, IntentsGraded
  <2> QED BY <2>1, <2>2
<1>2. \A E, B : IsConcept(E, B) => B \in ToFind
  BY DEF ToFind, IsConcept
<1> QED BY <1>1, <1>2, GradeSteps

\* The concept with all objects is below all others.
LEMMA LeastConcept ==
  ASSUME I \in Contexts, NEW B \in AttrSets,
         \A X \in ToFind : Leq(up(down(B)), X)
  PROVE  Subtree(ToFind, up(down(B)), -1) = ToFind
<1>1. \A c \in Attributes : ~(c <= -1)
  BY NAttrAssumption DEF Attributes
<1> QED BY <1>1 DEF Subtree

\* Skipping to the first degree not below g and above the one of B leaves no
\* set behind.
LEMMA FirstAboveB ==
  ASSUME I \in Contexts, NEW B \in AttrSets, NEW j \in Attributes,
         NEW g \in GradesSet(I), B[j] < K,
         NEW first, first = Min({h \in GradesSet(I) : h >= g /\ h > B[j]})
  PROVE  /\ first \in GradesSet(I) /\ g <= first /\ B[j] < first
         /\ LoopRegion(ToFind, B, j, g) = LoopRegion(ToFind, B, j, first)
<1> DEFINE S == {h \in GradesSet(I) : h >= g /\ h > B[j]}
<1>0. GradesSet(I) \subseteq Grades /\ K \in GradesSet(I)
  BY GradeSteps
<1>1. S \in SUBSET Nat /\ S # {}
  BY <1>0, KAssumption DEF Grades
<1>2. Min(S) \in S /\ \A x \in S : Min(S) <= x
  <2> HIDE DEF S
  <2> QED BY <1>1, NatMin
<1>3. first \in GradesSet(I) /\ g <= first /\ B[j] < first
      /\ \A h \in GradesSet(I) : h >= g /\ h > B[j] => first <= h
  <2> first = Min(S)
    OBVIOUS
  <2>1. first \in S /\ \A x \in S : first <= x
    BY <1>2
  <2> QED BY <1>0, <2>1, KAssumption DEF Grades
<1> HIDE DEF S
<1>4. \A X \in ToFind : \A c \in Attributes : X[c] \in GradesSet(I) /\ X[c] \in Int
  BY FoundTypes, SetValues DEF Graded
<1>5. /\ g \in Int /\ first \in Int /\ j \in Int
      /\ \A c \in Attributes : B[c] \in Int
  BY <1>0, <1>3, SetValues, KAssumption DEF Grades
<1>6. ASSUME NEW X \in ToFind, NEW d \in Attributes, B[d] < X[d]
      PROVE  (j = d /\ g <= X[d]) <=> (j = d /\ first <= X[d])
  BY <1>3, <1>4, <1>5, <1>6
<1> QED BY <1>3, <1>6 DEF LoopRegion
-----------------------------------------------------------------------------
\* FastCbO.

\* The operators of FastCbO in the names used here.
LEMMA FastNames ==
  ASSUME I \in Contexts
  PROVE  /\ FCbO!NoFailures = [h \in Grades |-> [c \in Attributes |-> EmptySet]]
         /\ \A E : FCbO!compute_intent("Godel", I, E) = up(E)
         /\ \A B : FCbO!compute_extent("Godel", I, B) = down(B)
         /\ FCbO!EmptySet = EmptySet
         /\ FCbO!GradesSet(I) = GradesSet(I)
         /\ \A S : FCbO!Min(S) = Min(S)
         /\ \A f, g : f.A \in ObjectSets /\ f.j \in Attributes /\ g \in Grades =>
              FCbO!Narrow(f, g) = Part(f.A, f.j, g)
<1>1. \A f : FCbO!Inf(f) = Inf(f)
  BY DEF FCbO!Inf, Inf, FCbO!Min, Min, FCbO!Range, Range
<1>2. \A x, y : FCbO!implication("Godel", x, y) = implication("Godel", x, y)
  BY DEF FCbO!implication, implication, FCbO!implication_Godel, implication_Godel
<1>3. FCbO!Attributes = Attributes /\ FCbO!Grades = Grades /\ FCbO!EmptySet = EmptySet
  BY DEF FCbO!Attributes, Attributes, FCbO!Grades, Grades, FCbO!EmptySet, EmptySet
<1>4. /\ \A E : FCbO!compute_intent("Godel", I, E) = up(E)
      /\ \A B : FCbO!compute_extent("Godel", I, B) = down(B)
  BY <1>1, <1>2, <1>3
     DEF up, down, compute_intent, compute_extent, FCbO!compute_intent, FCbO!compute_extent
<1>5. FCbO!NoFailures = [h \in Grades |-> [c \in Attributes |-> EmptySet]]
  BY <1>3 DEF FCbO!NoFailures
<1>6. FCbO!GradesSet(I) = GradesSet(I) /\ \A S : FCbO!Min(S) = Min(S)
  BY <1>3 DEF FCbO!GradesSet, GradesSet, FCbO!Min, Min
<1>7. ASSUME NEW f, NEW g, f.A \in ObjectSets, f.j \in Attributes, g \in Grades
      PROVE  FCbO!Narrow(f, g) = Part(f.A, f.j, g)
  <2>1. \A o \in Objects : f.A[o] \in Int /\ I[o][f.j] \in Int /\ g \in Int
    BY <1>7, KAssumption DEF Contexts, ObjectSets, Grades
  <2> QED BY <2>1 DEF FCbO!Narrow, Part
<1> QED BY <1>3, <1>4, <1>5, <1>6, <1>7

\* A pair that leaves no set behind.
LEMMA LoopSkips ==
  ASSUME I \in Contexts, NEW B \in AttrSets, NEW j \in Attributes, NEW g \in GradesSet(I),
         NEW h \in GradesSet(I), g <= h, DepartingAt(ToFind, B, j, g, h) = {}
  PROVE  LoopRegion(ToFind, B, j, g)
           = LoopRegion(ToFind, B, After(j, h)[1], After(j, h)[2])
<1>1. GradedFamily(ToFind)
  BY FoundTypes DEF GradedFamily
<1>2. LoopRegion(ToFind, B, j, g)
        = DepartingAt(ToFind, B, j, g, h)
            \cup LoopRegion(ToFind, B, After(j, h)[1], After(j, h)[2])
  BY <1>1, LoopAdvances, SMTT(60)
<1> QED BY <1>2

\* The views of a stack whose last call has changed.
LEMMA FastViewsReplaced ==
  ASSUME NEW st \in Seq(FastCalls), st # <<>>, NEW f \in FastCalls
  PROVE  LET n == Len(st)
             v == FastViews(st)
             w == FastViews([st EXCEPT ![n] = f])
         IN  /\ n \in DOMAIN v /\ DOMAIN v = DOMAIN st /\ DOMAIN w = DOMAIN v
             /\ v[n] = FastView(st[n]) /\ w[n] = FastView(f)
             /\ \A i \in DOMAIN v : i # n => w[i] = v[i]
<1> DEFINE t == [st EXCEPT ![Len(st)] = f]
<1>1. /\ DOMAIN t = DOMAIN st /\ Len(st) \in DOMAIN st /\ t[Len(st)] = f
      /\ \A i \in DOMAIN st : i # Len(st) => t[i] = st[i]
  BY LastReplaced
<1> HIDE DEF t
<1>2. /\ DOMAIN FastViews(st) = DOMAIN st /\ DOMAIN FastViews(t) = DOMAIN st
      /\ \A i \in DOMAIN st : FastViews(st)[i] = FastView(st[i]) /\ FastViews(t)[i] = FastView(t[i])
  BY <1>1 DEF FastViews
<1> QED BY <1>1, <1>2 DEF t

\* FastCbO: the last call may be replaced by one for the same attribute.
LEMMA FastReplaced ==
  ASSUME I \in Contexts, NEW st, NEW cols, FastState(st, cols), st # <<>>,
         NEW f \in FastCalls, FastFrame(f), f.y = st[Len(st)].y,
         Partition(ToFind, {}, Listed(cols), FastViews([st EXCEPT ![Len(st)] = f]))
  PROVE  FastState([st EXCEPT ![Len(st)] = f], cols)
<1> DEFINE t == [st EXCEPT ![Len(st)] = f]
<1>1. /\ t \in Seq(FastCalls) /\ DOMAIN t = DOMAIN st /\ Len(st) \in DOMAIN st
      /\ t[Len(st)] = f /\ \A i \in DOMAIN st : i # Len(st) => t[i] = st[i]
      /\ Len(st) \in Nat /\ DOMAIN st = 1 .. Len(st)
  BY LastReplaced DEF FastState
<1> HIDE DEF t
<1>2. \A n \in DOMAIN t : FastFrame(t[n])
  BY <1>1 DEF FastState
<1>3. Deeper(t)
  <2>1. \A n \in DOMAIN st : t[n].y = st[n].y
    BY <1>1
  <2>2. Deeper(st)
    BY DEF FastState
  <2> SUFFICES ASSUME NEW n \in DOMAIN st
               PROVE  t[n].y >= n - 2 /\ (n > 1 => t[n-1].y < t[n].y)
    BY <1>1 DEF Deeper
  <2>3. n > 1 => n - 1 \in DOMAIN st
    BY <1>1
  <2> QED BY <2>1, <2>2, <2>3 DEF Deeper
<1> QED BY <1>1, <1>2, <1>3 DEF FastState, t

\* The last call moves on in its loops.
LEMMA FastMoves ==
  ASSUME I \in Contexts, NEW st, NEW cols, FastState(st, cols), st # <<>>,
         NEW f \in FastCalls, FastFrame(f),
         f.y = st[Len(st)].y, f.B = st[Len(st)].B, f.queue = st[Len(st)].queue,
         LoopRegion(ToFind, f.B, st[Len(st)].j, st[Len(st)].g)
           = LoopRegion(ToFind, f.B, f.j, f.g)
  PROVE  FastState([st EXCEPT ![Len(st)] = f], cols)
<1> DEFINE n == Len(st)
           v == FastViews(st)
           w == FastViews([st EXCEPT ![n] = f])
<1>1. /\ n \in DOMAIN v /\ DOMAIN w = DOMAIN v
      /\ v[n] = FastView(st[n]) /\ w[n] = FastView(f)
      /\ \A i \in DOMAIN v : i # n => w[i] = v[i]
  BY FastViewsReplaced DEF FastState
<1>2. Partition(ToFind, {}, Listed(cols), v)
  BY DEF FastState
<1> HIDE DEF n, v, w
<1>3. w[n].kids = v[n].kids
  BY <1>1 DEF FastView, n
<1>4. Region(ToFind, w[n], 0) = Region(ToFind, v[n], 0)
  BY <1>1 DEF FastView, Region, n
<1>5. Partition(ToFind, {}, Listed(cols), w)
  BY <1>1, <1>2, <1>3, <1>4, CallMoves
<1> QED BY <1>5, FastReplaced DEF n, w

\* The last call leaves a part of its loops to a new child.
LEMMA FastBranches ==
  ASSUME I \in Contexts, NEW st, NEW cols, FastState(st, cols), st # <<>>,
         NEW f \in FastCalls, FastFrame(f), NEW q,
         q \in [A : ObjectSets, B : AttrSets, y : Attributes],
         f.y = st[Len(st)].y, f.B = st[Len(st)].B,
         f.queue = Append(st[Len(st)].queue, q),
         LoopRegion(ToFind, f.B, st[Len(st)].j, st[Len(st)].g)
           = Subtree(ToFind, q.B, q.y) \cup LoopRegion(ToFind, f.B, f.j, f.g),
         Subtree(ToFind, q.B, q.y) \cap LoopRegion(ToFind, f.B, f.j, f.g) = {}
  PROVE  FastState([st EXCEPT ![Len(st)] = f], cols)
<1> DEFINE n == Len(st)
           v == FastViews(st)
           w == FastViews([st EXCEPT ![n] = f])
           m == Len(st[n].queue) + 1
<1>0. st \in Seq(FastCalls)
  BY DEF FastState
<1>1. /\ n \in DOMAIN v /\ DOMAIN w = DOMAIN v
      /\ v[n] = FastView(st[n]) /\ w[n] = FastView(f)
      /\ \A i \in DOMAIN v : i # n => w[i] = v[i]
  BY <1>0, FastViewsReplaced
<1>2. Partition(ToFind, {}, Listed(cols), v)
  BY DEF FastState
<1>3. st[n].queue \in Seq([A : ObjectSets, B : AttrSets, y : Attributes])
  <2>1. st[n] \in FastCalls
    BY <1>0, LastReplaced
  <2> QED BY <2>1 DEF FastCalls
<1>4. /\ DOMAIN f.queue = DOMAIN st[n].queue \cup {m}
      /\ DOMAIN st[n].queue = 1 .. Len(st[n].queue) /\ Len(st[n].queue) \in Nat
      /\ m \notin DOMAIN st[n].queue
      /\ f.queue[m] = q
      /\ \A i \in DOMAIN st[n].queue : f.queue[i] = st[n].queue[i]
  BY <1>3, LastPushed
<1>5. m # 0
  BY <1>4
<1>6. f.B = st[n].B
  OBVIOUS
<1>7. /\ LoopRegion(ToFind, f.B, st[n].j, st[n].g)
           = Subtree(ToFind, q.B, q.y) \cup LoopRegion(ToFind, f.B, f.j, f.g)
      /\ Subtree(ToFind, q.B, q.y) \cap LoopRegion(ToFind, f.B, f.j, f.g) = {}
  OBVIOUS
<1> HIDE DEF n, v, w, m
<1>8. /\ DOMAIN v[n].kids = DOMAIN st[n].queue
      /\ DOMAIN w[n].kids = DOMAIN v[n].kids \cup {m}
      /\ \A i \in DOMAIN v[n].kids : w[n].kids[i] = v[n].kids[i]
      /\ w[n].kids[m] = [C |-> q.B, y |-> q.y]
  BY <1>1, <1>4 DEF FastView
<1>9. /\ Region(ToFind, v[n], 0) = LoopRegion(ToFind, f.B, st[n].j, st[n].g)
      /\ Region(ToFind, w[n], 0) = LoopRegion(ToFind, f.B, f.j, f.g)
  BY <1>1, <1>6 DEF FastView, Region
<1>10. Region(ToFind, w[n], m) = Subtree(ToFind, q.B, q.y)
  BY <1>5, <1>8 DEF Region
<1>11. /\ Region(ToFind, v[n], 0) = Region(ToFind, w[n], 0) \cup Region(ToFind, w[n], m)
       /\ Region(ToFind, w[n], 0) \cap Region(ToFind, w[n], m) = {}
  BY <1>7, <1>9, <1>10
<1>12. m \notin {0} \cup DOMAIN v[n].kids
  BY <1>4, <1>5, <1>8
<1>13. Partition(ToFind, {}, Listed(cols), w)
  BY <1>1, <1>2, <1>8, <1>11, <1>12, CallBranches
<1> QED BY <1>13, FastReplaced DEF n, w

\* The call whose loops are running.
LEMMA FastTop ==
  ASSUME I \in Contexts, FastState(stack, columns), FCbO!Running
  PROVE  LET f == FCbO!Top
         IN  /\ stack # <<>> /\ f = stack[Len(stack)]
             /\ f \in FastCalls /\ FastFrame(f)
             /\ f.A \in ObjectSets /\ f.B \in AttrSets /\ IsConcept(f.A, f.B)
             /\ f.j \in Attributes /\ f.g \in GradesSet(I)
<1> DEFINE f == FCbO!Top
<1>1. stack # <<>> /\ f = stack[Len(stack)] /\ f.j < NAttr
  BY DEF FCbO!Running, FCbO!Top
<1>2. f \in FastCalls /\ FastFrame(f)
  BY <1>1, LastReplaced DEF FastState
<1>3. f.A \in ObjectSets /\ f.B \in AttrSets /\ f.j \in 0 .. NAttr
  BY <1>2 DEF FastCalls
<1>4. IsConcept(f.A, f.B) /\ f.g \in GradesSet(I)
  BY <1>2 DEF FastFrame
<1>5. f.j \in Attributes
  BY <1>1, <1>3, NAttrAssumption DEF Attributes
<1> QED BY <1>1, <1>2, <1>3, <1>4, <1>5

\* The increments of the loops.
LEMMA FastNext ==
  ASSUME I \in Contexts, NEW f \in FastCalls, FastFrame(f), f.j \in Attributes,
         NEW g \in GradesSet(I)
  PROVE  LET n == FCbO!NextGradeAfter(f, g)
             a == After(f.j, g)
         IN  /\ n \in FastCalls /\ FastFrame(n)
             /\ n.A = f.A /\ n.B = f.B /\ n.y = f.y /\ n.queue = f.queue
             /\ n.j = a[1] /\ n.g = a[2]
<1> DEFINE n == FCbO!NextGradeAfter(f, g)
           a == After(f.j, g)
<1>1. /\ a[1] \in {f.j, f.j + 1} /\ a[2] \in GradesSet(I)
  <2>1. g < K => NextGrade(I, g) \in GradesSet(I)
    BY GradeSteps
  <2>2. 0 \in GradesSet(I)
    BY GradeSteps
  <2> QED BY <2>1, <2>2 DEF After
<1>2. n = [f EXCEPT !.j = a[1], !.g = a[2]]
  <2>1. FCbO!Min({h \in FCbO!GradesSet(I) : h > g}) = NextGrade(I, g)
    BY FastNames DEF NextGrade
  <2>2. CASE g < K
    <3>1. a[1] = f.j /\ a[2] = NextGrade(I, g)
      BY <2>2 DEF After
    <3>2. n = [f EXCEPT !.g = NextGrade(I, g)]
      BY <2>1, <2>2 DEF FCbO!NextGradeAfter
    <3> HIDE DEF n, a
    <3> QED BY <3>1, <3>2 DEF FastCalls
  <2>3. CASE ~(g < K)
    <3>1. a[1] = f.j + 1 /\ a[2] = 0
      BY <2>3 DEF After
    <3>2. n = [f EXCEPT !.j = @ + 1, !.g = 0]
      BY <2>3 DEF FCbO!NextGradeAfter, FCbO!NextAttribute
    <3> QED BY <3>1, <3>2 DEF FastCalls
  <2> QED BY <2>2, <2>3
<1>3. /\ n.A = f.A /\ n.B = f.B /\ n.y = f.y /\ n.queue = f.queue
      /\ n.Ny = f.Ny /\ n.Mj = f.Mj /\ n.j = a[1] /\ n.g = a[2]
  <2> HIDE DEF n, a
  <2> QED BY <1>2 DEF FastCalls
<1>4. a[1] \in 0 .. NAttr /\ a[2] \in Grades
  BY <1>1, GradeSteps, NAttrAssumption DEF Attributes
<1>5. n \in FastCalls
  <2> HIDE DEF n, a
  <2> QED BY <1>2, <1>4 DEF FastCalls
<1>6. FastFrame(n)
  <2>1. f.y < f.j /\ f.y \in Int /\ f.j \in Int
    BY NAttrAssumption DEF FastFrame, FastCalls, Attributes
  <2>2. n.y < n.j
    BY <1>1, <1>3, <2>1
  <2> HIDE DEF n, a
  <2> QED BY <1>1, <1>3, <2>2 DEF FastFrame
<1> QED BY <1>3, <1>5, <1>6

\* FastCbO: an attribute that the intent has in full is passed by.
LEMMA FastSkipAttribute ==
  ASSUME I \in Contexts, FastState(stack, columns), FCbO!SkipAttribute
  PROVE  FastState(stack', columns')
<1> DEFINE f == FCbO!Top
           n == FCbO!NextAttribute(f)
<1>1. /\ FCbO!Running /\ f.B[f.j] = K /\ columns' = columns
      /\ stack' = [stack EXCEPT ![Len(stack)] = n]
  BY DEF FCbO!SkipAttribute, FCbO!ReplaceTop
<1>2. /\ stack # <<>> /\ f = stack[Len(stack)]
      /\ f \in FastCalls /\ FastFrame(f)
      /\ f.A \in ObjectSets /\ f.B \in AttrSets /\ IsConcept(f.A, f.B)
      /\ f.j \in Attributes /\ f.g \in GradesSet(I)
  BY <1>1, FastTop
<1>3. K \in GradesSet(I) /\ f.g <= K /\ ToFind \subseteq AttrSets
      /\ \A X \in ToFind : Graded(I, X)
  BY <1>2, FoundTypes, KAssumption DEF Grades
<1>4. n = FCbO!NextGradeAfter(f, K) /\ After(f.j, K) = <<f.j + 1, 0>>
  BY KAssumption DEF FCbO!NextGradeAfter, After
<1>5. /\ n \in FastCalls /\ FastFrame(n)
      /\ n.A = f.A /\ n.B = f.B /\ n.y = f.y /\ n.queue = f.queue
      /\ n.j = f.j + 1 /\ n.g = 0
  BY <1>2, <1>3, <1>4, FastNext
<1> HIDE DEF f, n
<1>6. DepartingAt(ToFind, f.B, f.j, f.g, K) = {}
  <2>1. K <= f.B[f.j]
    BY <1>1, KAssumption
  <2> QED BY <1>2, <1>3, <2>1, LeftBehind
<1>7. LoopRegion(ToFind, f.B, f.j, f.g) = LoopRegion(ToFind, f.B, f.j + 1, 0)
  <2>1. After(f.j, K)[1] = f.j + 1 /\ After(f.j, K)[2] = 0
    BY <1>4
  <2>2. LoopRegion(ToFind, f.B, f.j, f.g)
          = LoopRegion(ToFind, f.B, After(f.j, K)[1], After(f.j, K)[2])
    BY <1>2, <1>3, <1>6, LoopSkips
  <2> QED BY <2>1, <2>2
<1>8. FastState([stack EXCEPT ![Len(stack)] = n], columns)
  BY <1>2, <1>5, <1>7, FastMoves
<1> QED BY <1>1, <1>8

\* The pair tried: the first degree from g on that is above the one of B.
LEMMA FastTried ==
  ASSUME I \in Contexts, FastState(stack, columns), FCbO!Running,
         FCbO!Top.B[FCbO!Top.j] < K
  PROVE  LET f == FCbO!Top
             g == FCbO!FirstAbove(f)
             D == up(Part(f.A, f.j, g))
         IN  /\ g \in GradesSet(I) /\ g \in Grades /\ f.g <= g /\ f.B[f.j] < g
             /\ LoopRegion(ToFind, f.B, f.j, f.g) = LoopRegion(ToFind, f.B, f.j, g)
             /\ FCbO!Narrow(f, g) = Part(f.A, f.j, g)
             /\ FCbO!compute_intent("Godel", I, FCbO!Narrow(f, g)) = D
             /\ IsConcept(Part(f.A, f.j, g), D)
             /\ D \in AttrSets /\ g <= D[f.j] /\ D[f.j] \in GradesSet(I)
             /\ Below(Part(f.A, f.j, g), f.A)
<1> DEFINE f == FCbO!Top
           g == FCbO!FirstAbove(f)
           D == up(Part(f.A, f.j, g))
<1>1. /\ f.A \in ObjectSets /\ f.B \in AttrSets /\ IsConcept(f.A, f.B)
      /\ f.j \in Attributes /\ f.g \in GradesSet(I)
  BY FastTop
<1>2. g = Min({h \in GradesSet(I) : h >= f.g /\ h > f.B[f.j]})
  BY FastNames DEF FCbO!FirstAbove
<1>3. f.B[f.j] < K
  OBVIOUS
<1> HIDE DEF f, g
<1>4. /\ g \in GradesSet(I) /\ f.g <= g /\ f.B[f.j] < g
      /\ LoopRegion(ToFind, f.B, f.j, f.g) = LoopRegion(ToFind, f.B, f.j, g)
  BY <1>1, <1>2, <1>3, FirstAboveB
<1>5. g \in Grades
  BY <1>4, GradeSteps
<1>6. FCbO!Narrow(f, g) = Part(f.A, f.j, g)
  BY <1>1, <1>5, FastNames
<1>7. FCbO!compute_intent("Godel", I, FCbO!Narrow(f, g)) = D
  BY <1>6, FastNames
<1>8. IsConcept(Part(f.A, f.j, g), D) /\ g <= D[f.j]
  BY <1>1, <1>5, PartConcept
<1>9. D \in AttrSets
  BY <1>8 DEF IsConcept
<1>10. D[f.j] \in GradesSet(I)
  <2>1. Part(f.A, f.j, g) \in ObjectSets
    BY <1>8 DEF IsConcept
  <2>2. Graded(I, D)
    BY <2>1, IntentsGraded
  <2> QED BY <1>1, <2>2 DEF Graded
<1>11. Below(Part(f.A, f.j, g), f.A)
  BY <1>1, <1>5, PartValues
<1> QED BY <1>4, <1>5, <1>6, <1>7, <1>8, <1>9, <1>10, <1>11 DEF f, g

\* What failed above would fail here.
LEMMA FastFailed ==
  ASSUME I \in Contexts, FastState(stack, columns), FCbO!Running,
         FCbO!Top.B[FCbO!Top.j] < K,
         FCbO!FailedAbove(FCbO!Top, FCbO!FirstAbove(FCbO!Top))
  PROVE  LET f == FCbO!Top
             g == FCbO!FirstAbove(f)
         IN  \E k \in Attributes : k < f.j /\ f.B[k] < up(Part(f.A, f.j, g))[k]
<1> DEFINE f == FCbO!Top
           g == FCbO!FirstAbove(f)
           D == up(Part(f.A, f.j, g))
<1>1. /\ f \in FastCalls /\ FastFrame(f) /\ f.B \in AttrSets /\ f.j \in Attributes
      /\ g \in Grades /\ D \in AttrSets
  BY FastTop, FastTried
<1>2. FCbO!Attributes = Attributes
  BY DEF FCbO!Attributes, Attributes
<1>3. PICK k \in Attributes : k < f.j /\ f.Ny[g][f.j][k] > f.B[k]
  BY <1>2 DEF FCbO!FailedAbove
<1> HIDE DEF f, g, D
<1>4. Leq(f.Ny[g][f.j], D)
  BY <1>1 DEF FastFrame, FailuresRight, D
<1>5. f.Ny[g][f.j] \in AttrSets
  BY <1>1 DEF FastCalls, Failures
<1>6. f.Ny[g][f.j][k] <= D[k]
  BY <1>4 DEF Leq
<1>7. f.B[k] \in Int /\ D[k] \in Int /\ f.Ny[g][f.j][k] \in Int
  BY <1>1, <1>5, SetValues
<1>8. f.B[k] < D[k]
  BY <1>3, <1>6, <1>7
<1> QED BY <1>3, <1>8 DEF f, g, D

\* FastCbO: a pair that failed above is passed by, and nothing departs there.
LEMMA FastSkipFailed ==
  ASSUME I \in Contexts, FastState(stack, columns), FCbO!SkipFailed
  PROVE  FastState(stack', columns')
<1> DEFINE f == FCbO!Top
           g == FCbO!FirstAbove(f)
           n == FCbO!NextGradeAfter(f, g)
<1>1. /\ FCbO!Running /\ f.B[f.j] < K /\ FCbO!FailedAbove(f, g) /\ columns' = columns
      /\ stack' = [stack EXCEPT ![Len(stack)] = n]
  BY DEF FCbO!SkipFailed, FCbO!ReplaceTop
<1>2. /\ stack # <<>> /\ f = stack[Len(stack)]
      /\ f \in FastCalls /\ FastFrame(f)
      /\ f.A \in ObjectSets /\ f.B \in AttrSets /\ IsConcept(f.A, f.B)
      /\ f.j \in Attributes /\ f.g \in GradesSet(I)
  BY <1>1, FastTop
<1>3. /\ g \in GradesSet(I) /\ g \in Grades
      /\ LoopRegion(ToFind, f.B, f.j, f.g) = LoopRegion(ToFind, f.B, f.j, g)
  BY <1>1, FastTried
<1>4. \E k \in Attributes : k < f.j /\ f.B[k] < up(Part(f.A, f.j, g))[k]
  BY <1>1, FastFailed
<1>5. /\ n \in FastCalls /\ FastFrame(n)
      /\ n.A = f.A /\ n.B = f.B /\ n.y = f.y /\ n.queue = f.queue
      /\ n.j = After(f.j, g)[1] /\ n.g = After(f.j, g)[2]
  BY <1>2, <1>3, FastNext
<1> HIDE DEF f, g, n
<1>6. DepartingAt(ToFind, f.B, f.j, g, g) = {}
  BY <1>2, <1>3, <1>4, LeftBehind
<1>7. LoopRegion(ToFind, f.B, f.j, g)
        = LoopRegion(ToFind, f.B, After(f.j, g)[1], After(f.j, g)[2])
  <2>1. g <= g
    BY <1>3, KAssumption DEF Grades
  <2> QED BY <1>2, <1>3, <1>6, <2>1, LoopSkips
<1>8. FastState([stack EXCEPT ![Len(stack)] = n], columns)
  BY <1>2, <1>3, <1>5, <1>7, FastMoves
<1> QED BY <1>1, <1>8

\* FastCbO: a closure that passes the test becomes a child.
LEMMA FastEnqueue ==
  ASSUME I \in Contexts, FastState(stack, columns), FCbO!Enqueue
  PROVE  FastState(stack', columns')
<1> DEFINE f == FCbO!Top
           g == FCbO!FirstAbove(f)
           E == Part(f.A, f.j, g)
           D == up(E)
           q == [A |-> E, B |-> D, y |-> f.j]
           m == [f EXCEPT !.queue = Append(@, q)]
           n == FCbO!NextGradeAfter(m, D[f.j])
<1>0. FCbO!Running /\ f.B[f.j] < K /\ columns' = columns
  BY DEF FCbO!Enqueue
<1>1. FCbO!Narrow(f, g) = E /\ FCbO!compute_intent("Godel", I, E) = D
  BY <1>0, FastTried
<1>2. /\ FCbO!Canonical(f, D) /\ stack' = [stack EXCEPT ![Len(stack)] = n]
  BY <1>1 DEF FCbO!Enqueue, FCbO!ReplaceTop
<1>3. /\ stack # <<>> /\ f = stack[Len(stack)]
      /\ f \in FastCalls /\ FastFrame(f)
      /\ f.A \in ObjectSets /\ f.B \in AttrSets /\ IsConcept(f.A, f.B)
      /\ f.j \in Attributes /\ f.g \in GradesSet(I)
  BY <1>0, FastTop
<1>4. /\ g \in GradesSet(I) /\ g \in Grades /\ f.B[f.j] < g
      /\ LoopRegion(ToFind, f.B, f.j, f.g) = LoopRegion(ToFind, f.B, f.j, g)
      /\ IsConcept(E, D) /\ D \in AttrSets /\ g <= D[f.j] /\ D[f.j] \in GradesSet(I)
      /\ Below(E, f.A)
  BY <1>0, FastTried
<1>5. \A k \in Attributes : k < f.j => D[k] <= f.B[k]
  BY <1>2 DEF FCbO!Canonical, FCbO!Attributes, Attributes
<1>6. q \in [A : ObjectSets, B : AttrSets, y : Attributes]
  BY <1>3, <1>4 DEF IsConcept
<1>7. f.queue \in Seq([A : ObjectSets, B : AttrSets, y : Attributes])
  BY <1>3 DEF FastCalls
<1>8. q.A = E /\ q.B = D /\ q.y = f.j
  OBVIOUS
<1>9. f.y < f.j
  BY <1>3 DEF FastFrame
<1> HIDE DEF f, g, E, D, q
<1>10. /\ Append(f.queue, q) \in Seq([A : ObjectSets, B : AttrSets, y : Attributes])
       /\ \A i \in DOMAIN Append(f.queue, q) :
            Append(f.queue, q)[i] = q
              \/ (i \in DOMAIN f.queue /\ Append(f.queue, q)[i] = f.queue[i])
  BY <1>6, <1>7, LastPushed
<1>11. m \in FastCalls
  BY <1>3, <1>10 DEF FastCalls
<1>12. /\ m.A = f.A /\ m.B = f.B /\ m.y = f.y /\ m.queue = Append(f.queue, q)
       /\ m.j = f.j /\ m.g = f.g /\ m.Ny = f.Ny /\ m.Mj = f.Mj
  BY <1>3 DEF FastCalls
<1> HIDE DEF m
<1>13. FastFrame(m)
  <2> SUFFICES ASSUME NEW i \in DOMAIN m.queue
               PROVE  /\ IsConcept(m.queue[i].A, m.queue[i].B)
                      /\ Below(m.queue[i].A, f.A)
                      /\ f.y < m.queue[i].y
    BY <1>3, <1>12 DEF FastFrame
  <2>1. CASE m.queue[i] = q
    BY <1>4, <1>8, <1>9, <2>1
  <2>2. CASE i \in DOMAIN f.queue /\ m.queue[i] = f.queue[i]
    BY <1>3, <2>2 DEF FastFrame
  <2> QED BY <1>10, <1>12, <2>1, <2>2
<1>14. /\ n \in FastCalls /\ FastFrame(n)
       /\ n.B = f.B /\ n.y = f.y /\ n.queue = Append(f.queue, q)
       /\ n.j = After(f.j, D[f.j])[1] /\ n.g = After(f.j, D[f.j])[2]
  BY <1>3, <1>4, <1>11, <1>12, <1>13, FastNext
<1> HIDE DEF n
<1>15. DepartingAt(ToFind, f.B, f.j, g, D[f.j]) = Subtree(ToFind, D, f.j)
  BY <1>3, <1>4, <1>5, LeftBehind DEF D, E
<1>16. /\ LoopRegion(ToFind, f.B, f.j, g)
            = DepartingAt(ToFind, f.B, f.j, g, D[f.j]) \cup LoopRegion(ToFind, f.B, n.j, n.g)
       /\ DepartingAt(ToFind, f.B, f.j, g, D[f.j]) \cap LoopRegion(ToFind, f.B, n.j, n.g) = {}
  <2>1. GradedFamily(ToFind)
    BY FoundTypes DEF GradedFamily
  <2> QED BY <1>3, <1>4, <1>14, <2>1, LoopAdvances, SMTT(60)
<1>17. FastState([stack EXCEPT ![Len(stack)] = n], columns)
  BY <1>3, <1>4, <1>6, <1>8, <1>14, <1>15, <1>16, FastBranches
<1> QED BY <1>0, <1>2, <1>17

\* A closure that failed is recorded for the calls below.
LEMMA FastReject ==
  ASSUME I \in Contexts, FastState(stack, columns), FCbO!Reject
  PROVE  FastState(stack', columns')
<1> DEFINE f == FCbO!Top
           g == FCbO!FirstAbove(f)
           E == Part(f.A, f.j, g)
           D == up(E)
           h == D[f.j]
           row == [s \in Attributes |-> IF D[s] > 0 THEN D[s] ELSE f.Mj[h][f.j][s]]
           m == FCbO!Record(f, h, D)
           n == FCbO!NextGradeAfter(m, h)
<1>0. FCbO!Running /\ f.B[f.j] < K /\ columns' = columns
  BY DEF FCbO!Reject
<1>1. FCbO!Narrow(f, g) = E /\ FCbO!compute_intent("Godel", I, E) = D
  BY <1>0, FastTried
<1>2. /\ ~FCbO!Canonical(f, D) /\ stack' = [stack EXCEPT ![Len(stack)] = n]
  BY <1>1 DEF FCbO!Reject, FCbO!ReplaceTop
<1>3. /\ stack # <<>> /\ f = stack[Len(stack)]
      /\ f \in FastCalls /\ FastFrame(f)
      /\ f.A \in ObjectSets /\ f.B \in AttrSets /\ IsConcept(f.A, f.B)
      /\ f.j \in Attributes /\ f.g \in GradesSet(I)
  BY <1>0, FastTop
<1>4. /\ g \in GradesSet(I) /\ g \in Grades /\ f.B[f.j] < g
      /\ LoopRegion(ToFind, f.B, f.j, f.g) = LoopRegion(ToFind, f.B, f.j, g)
      /\ IsConcept(E, D) /\ D \in AttrSets /\ g <= h /\ h \in GradesSet(I)
      /\ E \in ObjectSets
  BY <1>0, FastTried DEF IsConcept
<1>5. \E k \in Attributes : k < f.j /\ f.B[k] < D[k]
  <2>1. PICK k \in Attributes : k < f.j /\ ~(D[k] <= f.B[k])
    BY <1>2 DEF FCbO!Canonical, FCbO!Attributes, Attributes
  <2>2. D[k] \in Int /\ f.B[k] \in Int
    BY <1>3, <1>4, SetValues
  <2> QED BY <2>1, <2>2
<1>6. m = [f EXCEPT !.Mj[h][f.j] = row]
  BY DEF FCbO!Record, FCbO!Attributes, Attributes
<1>7. h \in Grades
  BY <1>4, GradeSteps
<1> HIDE DEF f, g, E, D
<1>8. row \in AttrSets
  <2>1. f.Mj[h][f.j] \in AttrSets
    BY <1>3, <1>7 DEF FastCalls, Failures
  <2> QED BY <1>4, <2>1 DEF AttrSets
<1> DEFINE N == [f.Mj EXCEPT ![h][f.j] = row]
<1> HIDE DEF row, m, n, h
<1>9. N \in Failures
  <2>1. f.Mj \in Failures
    BY <1>3 DEF FastCalls
  <2> QED BY <1>3, <1>7, <1>8, <2>1 DEF Failures
<1>10. N[h][f.j] = row
       /\ \A e \in Grades, j \in Attributes : e # h \/ j # f.j => N[e][j] = f.Mj[e][j]
  BY <1>3, <1>7 DEF FastCalls, Failures
<1>11. m = [f EXCEPT !.Mj = N]
  BY <1>3, <1>6, <1>7 DEF FastCalls, Failures
<1> HIDE DEF N
<1>12. /\ m \in FastCalls
       /\ m.A = f.A /\ m.B = f.B /\ m.y = f.y /\ m.queue = f.queue
       /\ m.j = f.j /\ m.g = f.g /\ m.Ny = f.Ny /\ m.Mj = N
  BY <1>3, <1>9, <1>11 DEF FastCalls
<1>13. Leq(row, up(Part(f.A, f.j, h)))
  <2>1. Part(f.A, f.j, h) \in ObjectSets /\ Below(Part(f.A, f.j, h), E)
    BY <1>3, <1>4, <1>7, PartValues, PartMonotone, BelowOrder DEF E
  <2>2. Leq(D, up(Part(f.A, f.j, h)))
    BY <1>4, <2>1, UpDown DEF D
  <2>3. Leq(f.Mj[h][f.j], up(Part(f.A, f.j, h)))
    BY <1>3, <1>7 DEF FastFrame, FailuresRight
  <2> QED BY <2>2, <2>3 DEF Leq, row
<1>14. FailuresRight(N, f.A)
  <2> SUFFICES ASSUME NEW e \in Grades, NEW j \in Attributes
               PROVE  Leq(N[e][j], up(Part(f.A, j, e)))
    BY DEF FailuresRight
  <2>1. CASE e = h /\ j = f.j
    BY <1>10, <1>13, <2>1
  <2>2. CASE e # h \/ j # f.j
    BY <1>3, <1>10, <2>2 DEF FastFrame, FailuresRight
  <2> QED BY <2>1, <2>2
<1>15. FastFrame(m)
  BY <1>3, <1>12, <1>14 DEF FastFrame
<1>16. /\ n \in FastCalls /\ FastFrame(n)
       /\ n.B = f.B /\ n.y = f.y /\ n.queue = f.queue
       /\ n.j = After(f.j, h)[1] /\ n.g = After(f.j, h)[2]
  BY <1>3, <1>4, <1>12, <1>15, FastNext DEF n
<1>17. DepartingAt(ToFind, f.B, f.j, g, h) = {}
  BY <1>3, <1>4, <1>5, LeftBehind DEF D, E
<1>18. LoopRegion(ToFind, f.B, f.j, g) = LoopRegion(ToFind, f.B, n.j, n.g)
  BY <1>3, <1>4, <1>16, <1>17, LoopSkips
<1>19. FastState([stack EXCEPT ![Len(stack)] = n], columns)
  BY <1>3, <1>4, <1>16, <1>18, FastMoves
<1> QED BY <1>0, <1>2, <1>19

\* The call of a child: what its frame is.
LEMMA FastCall ==
  ASSUME I \in Contexts, NEW A \in ObjectSets, NEW B \in AttrSets, NEW y \in -1 .. NAttr - 1,
         NEW N \in Failures, IsConcept(A, B), FailuresRight(N, A)
  PROVE  LET c == FCbO!Call(A, B, y, N)
         IN  /\ c \in FastCalls /\ FastFrame(c)
             /\ c.B = B /\ c.y = y /\ c.queue = <<>> /\ c.g = 0
             /\ LoopRegion(ToFind, B, c.j, 0) = LoopRegion(ToFind, B, y + 1, 0)
<1> DEFINE c == FCbO!Call(A, B, y, N)
           jc == IF BelowFull(B) THEN y + 1 ELSE NAttr
<1>1. c = [A |-> A, B |-> B, y |-> y, Ny |-> N, Mj |-> N, queue |-> <<>>, j |-> jc, g |-> 0]
  BY DEF FCbO!Call, FCbO!BelowFull, BelowFull, FCbO!Attributes, Attributes
<1>2. jc \in 0 .. NAttr /\ y < jc /\ y \in Int
  BY NAttrAssumption
<1>3. LoopRegion(ToFind, B, jc, 0) = LoopRegion(ToFind, B, y + 1, 0)
  BY FoundTypes, LoopsOver
<1> HIDE DEF c, jc
<1>4. 0 \in Grades /\ 0 \in GradesSet(I)
  BY GradeSteps
<1>5. <<>> \in Seq([A : ObjectSets, B : AttrSets, y : Attributes]) /\ DOMAIN <<>> = {}
  BY EmptySeq
<1>6. c \in FastCalls
  BY <1>1, <1>2, <1>4, <1>5 DEF FastCalls
<1>7. FastFrame(c)
  BY <1>1, <1>2, <1>4, <1>5 DEF FastFrame
<1> QED BY <1>1, <1>3, <1>6, <1>7 DEF c

\* The output grows by a concept that is not listed.
LEMMA ConceptListed ==
  ASSUME NEW cols \in Seq(Columns), Once(cols), NEW e \in Columns,
         e.intent \notin Listed(cols)
  PROVE  LET d == Append(cols, e)
         IN  /\ d \in Seq(Columns) /\ Once(d)
             /\ Listed(d) = Listed(cols) \cup {e.intent}
             /\ \A n \in DOMAIN d : d[n] = e \/ (n \in DOMAIN cols /\ d[n] = cols[n])
<1> DEFINE d == Append(cols, e)
           l == Len(cols) + 1
<1>1. /\ d \in Seq(Columns) /\ DOMAIN d = DOMAIN cols \cup {l} /\ l \notin DOMAIN cols
      /\ d[l] = e /\ \A i \in DOMAIN cols : d[i] = cols[i]
  BY LastPushed
<1> HIDE DEF d, l
<1>2. Listed(d) = Listed(cols) \cup {e.intent}
  BY <1>1 DEF Listed
<1>3. \A i \in DOMAIN cols : d[i].intent # e.intent
  BY <1>1 DEF Listed
<1>4. Once(d)
  BY <1>1, <1>3 DEF Once
<1> QED BY <1>1, <1>2, <1>4 DEF d

\* FastCbO: the next child lists its concept, which is not listed yet.
LEMMA FastRecurse ==
  ASSUME I \in Contexts, FastState(stack, columns), FCbO!Recurse
  PROVE  /\ FastState(stack', columns')
         /\ \E X : Listed(columns') = Listed(columns) \cup {X}
<1> DEFINE l == Len(stack)
           f == stack[l]
           q == Head(f.queue)
           m == [f EXCEPT !.queue = Tail(@)]
           c == FCbO!Call(q.A, q.B, q.y, f.Mj)
           s == [stack EXCEPT ![l] = m]
           e == [intent |-> q.B, extent |-> q.A]
           Q == [A : ObjectSets, B : AttrSets, y : Attributes]
<1>1. /\ stack # <<>> /\ f.j = NAttr /\ f.queue # <<>>
      /\ columns' = Append(columns, e)
      /\ stack' = Append(s, c)
  BY DEF FCbO!Recurse, FCbO!Top, FCbO!ReplaceTop, FCbO!Column
<1>2. /\ stack \in Seq(FastCalls) /\ columns \in Seq(Columns) /\ Once(columns)
      /\ Partition(ToFind, {}, Listed(columns), FastViews(stack))
      /\ Deeper(stack)
  BY DEF FastState
<1>3. /\ l \in DOMAIN stack /\ DOMAIN stack = 1 .. l /\ l \in Nat \ {0}
      /\ f \in FastCalls /\ FastFrame(f)
  BY <1>1, <1>2, LastReplaced DEF FastState
<1>4. f.queue \in Seq(Q)
  BY <1>3 DEF FastCalls
<1>5. /\ q \in Q /\ Tail(f.queue) \in Seq(Q)
      /\ Len(Tail(f.queue)) = Len(f.queue) - 1
      /\ \A i \in 1 .. Len(Tail(f.queue)) : Tail(f.queue)[i] = f.queue[i + 1]
      /\ Len(Tail(f.queue)) \in Nat
      /\ DOMAIN Tail(f.queue) = 1 .. Len(Tail(f.queue))
      /\ DOMAIN f.queue = 1 .. Len(f.queue)
  <2>1. /\ q \in Q /\ Tail(f.queue) \in Seq(Q)
        /\ Len(Tail(f.queue)) = Len(f.queue) - 1
        /\ \A i \in 1 .. Len(Tail(f.queue)) : Tail(f.queue)[i] = f.queue[i + 1]
    BY <1>1, <1>4, HeadTailProperties
  <2> QED BY <1>4, <2>1, LenProperties
<1>6. q = f.queue[1] /\ 1 \in DOMAIN f.queue
  <2>1. Len(f.queue) \in Nat \ {0}
    BY <1>1, <1>4, EmptySeq
  <2> QED BY <1>4, <1>5, <2>1
<1>7. /\ q.A \in ObjectSets /\ q.B \in AttrSets /\ q.y \in Attributes
      /\ q.y \in -1 .. NAttr - 1 /\ q.y \in Int
      /\ IsConcept(q.A, q.B) /\ Below(q.A, f.A) /\ f.y < q.y
      /\ f.A \in ObjectSets /\ f.y \in Int /\ f.Mj \in Failures
  BY <1>3, <1>5, <1>6, NAttrAssumption DEF FastFrame, FastCalls, Attributes
<1>8. FailuresRight(f.Mj, q.A)
  <2> SUFFICES ASSUME NEW h \in Grades, NEW j \in Attributes
               PROVE  Leq(f.Mj[h][j], up(Part(q.A, j, h)))
    BY DEF FailuresRight
  <2>1. h <= h
    BY KAssumption DEF Grades
  <2>2. /\ Part(q.A, j, h) \in ObjectSets /\ Part(f.A, j, h) \in ObjectSets
        /\ Below(Part(q.A, j, h), Part(f.A, j, h))
    BY <1>7, <2>1, PartValues, PartMonotone
  <2>3. Leq(up(Part(f.A, j, h)), up(Part(q.A, j, h)))
    BY <2>2, UpDown
  <2>4. Leq(f.Mj[h][j], up(Part(f.A, j, h)))
    BY <1>3 DEF FastFrame, FailuresRight
  <2>5. f.Mj[h][j] \in AttrSets /\ up(Part(f.A, j, h)) \in AttrSets /\ up(Part(q.A, j, h)) \in AttrSets
    BY <1>7, <2>2, UpDown DEF Failures
  <2> QED BY <2>3, <2>4, <2>5, LeqOrder
<1>9. /\ c \in FastCalls /\ FastFrame(c)
      /\ c.B = q.B /\ c.y = q.y /\ c.queue = <<>> /\ c.g = 0
      /\ LoopRegion(ToFind, q.B, c.j, 0) = LoopRegion(ToFind, q.B, q.y + 1, 0)
  BY <1>7, <1>8, FastCall
<1>10. e \in Columns /\ e.intent = q.B /\ e.extent = q.A
  BY <1>7 DEF Columns
<1> HIDE DEF c, e, q, Q, f, l
<1>11. /\ m \in FastCalls
       /\ m.A = f.A /\ m.B = f.B /\ m.y = f.y /\ m.queue = Tail(f.queue)
       /\ m.j = f.j /\ m.g = f.g /\ m.Ny = f.Ny /\ m.Mj = f.Mj
  BY <1>3, <1>5 DEF FastCalls, Q
<1> HIDE DEF m
<1>12. FastFrame(m)
  <2>1. \A i \in DOMAIN m.queue : \E k \in DOMAIN f.queue : m.queue[i] = f.queue[k]
    BY <1>5, <1>11
  <2> QED BY <1>3, <1>11, <2>1 DEF FastFrame
<1>13. /\ s \in Seq(FastCalls) /\ DOMAIN s = DOMAIN stack /\ Len(s) = l
       /\ s[l] = m /\ \A i \in DOMAIN stack : i # l => s[i] = stack[i]
  BY <1>1, <1>2, <1>3, <1>11, LastReplaced DEF l
<1> HIDE DEF s
<1>14. /\ stack' \in Seq(FastCalls) /\ Len(stack') = l + 1
       /\ DOMAIN stack' = DOMAIN stack \cup {l + 1} /\ l + 1 \notin DOMAIN stack
       /\ stack'[l + 1] = c /\ stack'[l] = m
       /\ \A i \in DOMAIN stack : i # l => stack'[i] = stack[i]
  BY <1>1, <1>3, <1>9, <1>13, LastPushed
<1> DEFINE v == FastViews(stack)
           w == FastViews(stack')
           own == [C |-> q.B, j |-> q.y + 1, g |-> 0, own |-> TRUE, kids |-> <<>>]
           u == [i \in DOMAIN stack' |-> IF i = l + 1 THEN own ELSE w[i]]
<1>15. /\ DOMAIN v = DOMAIN stack /\ DOMAIN w = DOMAIN stack'
       /\ \A i \in DOMAIN stack : v[i] = FastView(stack[i])
       /\ \A i \in DOMAIN stack' : w[i] = FastView(stack'[i])
  BY DEF FastViews
<1> HIDE DEF v, w
<1>16. /\ DOMAIN u = DOMAIN stack' /\ u[l + 1] = own
       /\ \A i \in DOMAIN stack : u[i] = w[i]
  BY <1>14
<1>17. /\ own.kids = <<>> /\ own.C = q.B /\ own.j = q.y + 1 /\ own.g = 0 /\ own.own
       /\ DOMAIN <<>> = {}
  OBVIOUS
<1> HIDE DEF u, own
<1>18. /\ \A i \in DOMAIN v : i # l => u[i] = v[i]
       /\ l \in DOMAIN v /\ l + 1 \notin DOMAIN v /\ DOMAIN u = DOMAIN v \cup {l + 1}
  BY <1>3, <1>14, <1>15, <1>16
<1>19. /\ v[l] = FastView(f) /\ u[l] = FastView(m)
  BY <1>3, <1>14, <1>15, <1>16 DEF f
<1> DEFINE len == Len(Tail(f.queue))
<1>20. /\ DOMAIN v[l].kids = 1 .. len + 1 /\ DOMAIN u[l].kids = 1 .. len /\ len \in Nat
       /\ \A i \in 1 .. len : u[l].kids[i] = v[l].kids[i + 1]
  <2>0. 1 .. Len(f.queue) = 1 .. len + 1
    BY <1>4, <1>5, LenProperties
  <2>1. \A i \in 1 .. len : i + 1 \in DOMAIN f.queue /\ i \in DOMAIN m.queue
                              /\ m.queue[i] = f.queue[i + 1]
    BY <1>5, <1>11, <2>0
  <2>2. /\ v[l].kids = [i \in DOMAIN f.queue |-> [C |-> f.queue[i].B, y |-> f.queue[i].y]]
        /\ u[l].kids = [i \in DOMAIN m.queue |-> [C |-> m.queue[i].B, y |-> m.queue[i].y]]
    BY <1>19 DEF FastView
  <2> HIDE DEF len
  <2>3. \A i \in 1 .. len : u[l].kids[i] = v[l].kids[i + 1]
    BY <2>1, <2>2
  <2> QED BY <1>5, <1>11, <2>0, <2>2, <2>3 DEF len
<1>21. Region(ToFind, u[l], 0) = Region(ToFind, v[l], 0)
  BY <1>11, <1>19 DEF Region, FastView
<1>22. /\ ToFind \subseteq AttrSets /\ q.B \in ToFind
       /\ q.y \in -1 .. NAttr - 1
  BY <1>7, FoundTypes
<1>23. /\ Subtree(ToFind, q.B, q.y) = {q.B} \cup LoopRegion(ToFind, q.B, q.y + 1, 0)
       /\ q.B \notin LoopRegion(ToFind, q.B, q.y + 1, 0)
  BY <1>22, SubtreeParts
<1>24. Region(ToFind, v[l], 1) = Subtree(ToFind, q.B, q.y)
  <2>1. v[l].kids[1] = [C |-> q.B, y |-> q.y]
    BY <1>6, <1>19 DEF FastView
  <2> QED BY <2>1 DEF Region
<1>25. Region(ToFind, u[l + 1], 0) = LoopRegion(ToFind, q.B, q.y + 1, 0) \cup {q.B}
  BY <1>16, <1>17 DEF Region
<1>26. Partition(ToFind, {}, Listed(columns), u)
  <2>1. DOMAIN u[l + 1].kids = {}
    BY <1>16, <1>17
  <2>2. Region(ToFind, u[l + 1], 0) = Region(ToFind, v[l], 1)
    BY <1>23, <1>24, <1>25
  <2>3. Partition(ToFind, {}, Listed(columns), v)
    BY <1>2 DEF v
  <2> HIDE DEF len
  <2> QED BY <1>18, <1>20, <1>21, <2>1, <2>2, <2>3, ChildCalled
<1>27. q.B \notin Listed(columns)
  <2>1. <<l + 1, 0>> \in Places(u)
    BY <1>14, <1>16, PlaceParts
  <2>2. Region(ToFind, u[l + 1], 0) \cap Listed(columns) = {}
    BY <1>26, <2>1 DEF Partition
  <2> QED BY <1>25, <2>2
<1>28. /\ columns' \in Seq(Columns) /\ Once(columns')
       /\ Listed(columns') = Listed(columns) \cup {q.B}
       /\ \A n \in DOMAIN columns' :
            columns'[n] = e \/ (n \in DOMAIN columns /\ columns'[n] = columns[n])
  BY <1>1, <1>2, <1>10, <1>27, ConceptListed
<1>29. w[l + 1] = FastView(c) /\ l + 1 \in DOMAIN u
  BY <1>14, <1>15, <1>16
<1>30. Region(ToFind, w[l + 1], 0) = LoopRegion(ToFind, q.B, q.y + 1, 0)
  BY <1>9, <1>29 DEF Region, FastView
<1>31. Partition(ToFind, {}, Listed(columns'), w)
  <2>1. w[l + 1].kids = u[l + 1].kids
    BY <1>9, <1>16, <1>17, <1>29 DEF FastView
  <2>2. \A i \in DOMAIN u : i # l + 1 => w[i] = u[i]
    BY <1>14, <1>16
  <2>3. DOMAIN w = DOMAIN u
    BY <1>15, <1>16
  <2>4. /\ Region(ToFind, w[l + 1], 0) \subseteq Region(ToFind, u[l + 1], 0)
        /\ Listed(columns) \subseteq Listed(columns')
        /\ Listed(columns') \ Listed(columns)
             \subseteq Region(ToFind, u[l + 1], 0) \ Region(ToFind, w[l + 1], 0)
        /\ Region(ToFind, u[l + 1], 0)
             \subseteq Region(ToFind, w[l + 1], 0) \cup Listed(columns') \cup {}
    BY <1>23, <1>25, <1>28, <1>30
  <2> QED BY <1>26, <1>29, <2>1, <2>2, <2>3, <2>4, CallMoves
<1>32. \A n \in DOMAIN columns' : IsConcept(columns'[n].extent, columns'[n].intent)
  BY <1>7, <1>10, <1>28 DEF FastState
<1>33. \A n \in DOMAIN stack' : FastFrame(stack'[n])
  BY <1>9, <1>12, <1>14 DEF FastState
<1>34. Deeper(stack')
  <2> SUFFICES ASSUME NEW n \in DOMAIN stack'
               PROVE  stack'[n].y >= n - 2 /\ (n > 1 => stack'[n-1].y < stack'[n].y)
    BY DEF Deeper
  <2>1. \A i \in DOMAIN stack : stack'[i].y = stack[i].y
    BY <1>11, <1>14 DEF f
  <2>2. CASE n \in DOMAIN stack
    <3>1. n > 1 => n - 1 \in DOMAIN stack
      BY <1>3, <2>2
    <3> QED BY <1>2, <2>1, <2>2, <3>1 DEF Deeper
  <2>3. CASE n = l + 1
    <3>1. f.y >= l - 2 /\ stack'[l].y = f.y /\ stack'[n].y = q.y /\ n - 1 = l
      BY <1>2, <1>3, <1>9, <1>11, <1>14, <2>3 DEF Deeper, f
    <3> QED BY <1>3, <1>7, <2>3, <3>1
  <2> QED BY <1>14, <2>2, <2>3
<1> QED BY <1>14, <1>28, <1>31, <1>32, <1>33, <1>34 DEF FastState, w

\* FastCbO: a call that has nothing left to do returns.
LEMMA FastReturn ==
  ASSUME I \in Contexts, FastState(stack, columns), FCbO!Return
  PROVE  FastState(stack', columns')
<1> DEFINE l == Len(stack)
           f == stack[l]
           v == FastViews(stack)
           w == FastViews(stack')
<1>1. /\ stack # <<>> /\ f.j = NAttr /\ f.queue = <<>> /\ columns' = columns
      /\ stack' = SubSeq(stack, 1, l - 1)
  BY DEF FCbO!Return, FCbO!Top
<1>2. stack \in Seq(FastCalls)
  BY DEF FastState
<1>3. /\ stack' \in Seq(FastCalls) /\ DOMAIN stack = 1 .. l /\ l \in Nat \ {0}
      /\ l \in DOMAIN stack /\ DOMAIN stack' = DOMAIN stack \ {l}
      /\ \A i \in DOMAIN stack' : stack'[i] = stack[i]
  BY <1>1, <1>2, LastDropped
<1>4. /\ DOMAIN v = DOMAIN stack /\ DOMAIN w = DOMAIN stack'
      /\ \A i \in DOMAIN stack : v[i] = FastView(stack[i])
      /\ \A i \in DOMAIN stack' : w[i] = FastView(stack'[i])
  BY DEF FastViews
<1>5. f \in FastCalls
  BY <1>3 DEF FastState
<1> HIDE DEF v, w, l, f
<1>6. Partition(ToFind, {}, Listed(columns), w)
  <2>1. v[l] = FastView(f)
    BY <1>3, <1>4 DEF f
  <2>2. DOMAIN v[l].kids = {}
    <3>1. DOMAIN f.queue = {}
      BY <1>1
    <3> QED BY <2>1, <3>1 DEF FastView
  <2>3. Region(ToFind, v[l], 0) = {}
    <3>1. LoopRegion(ToFind, f.B, NAttr, f.g) = {}
      BY <1>5, FoundTypes, LoopsOver DEF FastCalls
    <3> QED BY <1>1, <2>1, <3>1 DEF Region, FastView
  <2>4. Partition(ToFind, {}, Listed(columns), v)
    BY DEF FastState, v
  <2>5. l \in DOMAIN v /\ DOMAIN w = DOMAIN v \ {l} /\ \A i \in DOMAIN w : w[i] = v[i]
    BY <1>3, <1>4
  <2> QED BY <2>2, <2>3, <2>4, <2>5, CallReturns
<1>7. \A n \in DOMAIN stack' : FastFrame(stack'[n])
  BY <1>3 DEF FastState
<1>8. Deeper(stack')
  <2>1. \A n \in DOMAIN stack' : n > 1 => n - 1 \in DOMAIN stack'
    BY <1>3
  <2> QED BY <1>3, <2>1 DEF FastState, Deeper
<1> QED BY <1>1, <1>3, <1>6, <1>7, <1>8 DEF FastState, w

\* A call with all objects is the first.
LEMMA FastStart ==
  ASSUME I \in Contexts, FCbO!Start
  PROVE  /\ FastState(stack', columns')
         /\ \E X : Listed(columns') = {X}
<1> DEFINE A == down(EmptySet)
           B == up(A)
           c == FCbO!Call(A, B, -1, FCbO!NoFailures)
           e == [intent |-> B, extent |-> A]
<1>1. columns' = <<e>> /\ stack' = <<c>>
  BY FastNames DEF FCbO!Start, FCbO!Column
<1>2. EmptySet \in AttrSets /\ A \in ObjectSets /\ B \in AttrSets
  <2>1. EmptySet \in AttrSets
    BY KAssumption DEF EmptySet, AttrSets, Grades
  <2> QED BY <2>1, UpDown
<1>3. IsConcept(A, B) /\ \A X \in ToFind : Leq(B, X)
  <2>1. Below(A, down(B)) /\ Leq(EmptySet, B)
    <3>1. \A b \in AttrSets : Leq(EmptySet, b)
      <4>1. \A b \in AttrSets : \A k \in Attributes : b[k] \in 0 .. K
        BY SetValues DEF Grades
      <4> QED BY <4>1 DEF Leq, EmptySet
    <3> QED BY <1>2, <3>1, UpDown
  <2>2. Below(down(B), A) /\ down(B) \in ObjectSets
    BY <1>2, <2>1, UpDown
  <2>3. A = down(B)
    BY <1>2, <2>1, <2>2, BelowOrder
  <2>4. ASSUME NEW X \in ToFind PROVE Leq(B, X)
    <3>1. X \in AttrSets /\ up(down(X)) = X /\ Leq(EmptySet, X)
      <4>1. X \in AttrSets /\ up(down(X)) = X
        BY DEF ToFind
      <4>2. \A k \in Attributes : X[k] \in 0 .. K
        BY <4>1, SetValues DEF Grades
      <4> QED BY <4>1, <4>2 DEF Leq, EmptySet
    <3>2. Below(down(X), A) /\ down(X) \in ObjectSets
      BY <1>2, <3>1, UpDown
    <3> QED BY <1>2, <3>1, <3>2, UpDown
  <2> HIDE DEF A, B
  <2> QED BY <1>2, <2>3, <2>4 DEF IsConcept, B
<1>4. Subtree(ToFind, B, -1) = ToFind
  <2> QED BY <1>2, <1>3, LeastConcept
<1> DEFINE N == FCbO!NoFailures
<1> HIDE DEF A, B
<1>5. N \in Failures /\ FailuresRight(N, A)
  <2>1. N = [h \in Grades |-> [k \in Attributes |-> EmptySet]]
    BY FastNames
  <2>2. ASSUME NEW h \in Grades, NEW j \in Attributes
        PROVE  Leq(EmptySet, up(Part(A, j, h)))
    <3>1. up(Part(A, j, h)) \in AttrSets
      BY <1>2, PartValues, UpDown
    <3>2. \A k \in Attributes : up(Part(A, j, h))[k] \in 0 .. K
      BY <3>1, SetValues DEF Grades
    <3> QED BY <3>2 DEF Leq, EmptySet
  <2> HIDE DEF N
  <2> QED BY <1>2, <2>1, <2>2 DEF Failures, FailuresRight
<1>6. -1 \in -1 .. NAttr - 1
  BY NAttrAssumption
<1>7. /\ c \in FastCalls /\ FastFrame(c)
      /\ c.B = B /\ c.y = -1 /\ c.queue = <<>> /\ c.g = 0
      /\ LoopRegion(ToFind, B, c.j, 0) = LoopRegion(ToFind, B, -1 + 1, 0)
  <2> HIDE DEF N
  <2>1. N = FCbO!NoFailures
    BY DEF N
  <2> QED BY <1>2, <1>3, <1>5, <1>6, <2>1, FastCall
<1> HIDE DEF c
<1>8. /\ Subtree(ToFind, B, -1) = {B} \cup LoopRegion(ToFind, B, -1 + 1, 0)
      /\ B \notin LoopRegion(ToFind, B, -1 + 1, 0)
  BY <1>3, <1>6, FoundTypes, SubtreeParts
<1>9. e \in Columns
  BY <1>2 DEF Columns
<1>10. /\ columns' \in Seq(Columns) /\ DOMAIN columns' = {1} /\ columns'[1] = e
       /\ stack' \in Seq(FastCalls) /\ DOMAIN stack' = {1} /\ stack'[1] = c
  BY <1>1, <1>7, <1>9
<1>11. Listed(columns') = {B}
  BY <1>10 DEF Listed
<1>12. Partition(ToFind, {}, Listed(columns'), FastViews(stack'))
  <2> DEFINE w == FastViews(stack')
  <2>1. DOMAIN w = {1} /\ w[1] = FastView(c)
    BY <1>10 DEF FastViews
  <2> HIDE DEF w
  <2>2. DOMAIN w[1].kids = {}
    BY <1>7, <2>1 DEF FastView
  <2>3. Region(ToFind, w[1], 0) = LoopRegion(ToFind, B, -1 + 1, 0)
    BY <1>7, <2>1 DEF FastView, Region
  <2>4. /\ Region(ToFind, w[1], 0) \cap Listed(columns') = {}
        /\ ToFind \subseteq Listed(columns') \cup {} \cup Region(ToFind, w[1], 0)
    BY <1>4, <1>8, <1>11, <2>3
  <2>5. Partition(ToFind, {}, Listed(columns'), w)
    BY <2>1, <2>2, <2>4, FirstCall
  <2> QED BY <2>5 DEF w
<1>13. Deeper(stack')
  BY <1>7, <1>10 DEF Deeper
<1>14. Once(columns') /\ \A n \in DOMAIN columns' : IsConcept(columns'[n].extent, columns'[n].intent)
  BY <1>3, <1>10 DEF Once
<1> QED BY <1>7, <1>10, <1>11, <1>12, <1>13, <1>14 DEF FastState

\* Every step of FastCbO keeps its state right and lists one set more at most.
LEMMA FastPreserved ==
  ASSUME I \in Contexts, FCbO!Next, pc # "start" => FastState(stack, columns),
         pc = "start" => columns = <<>>
  PROVE  /\ FastState(stack', columns')
         /\ \/ Listed(columns') = Listed(columns)
            \/ \E X : Listed(columns') = Listed(columns) \cup {X}
<1>1. CASE FCbO!Start
  <2>1. /\ FastState(stack', columns') /\ pc = "start"
        /\ \E X : Listed(columns') = {X}
    BY <1>1, FastStart DEF FCbO!Start
  <2>2. Listed(columns) = {}
    BY <2>1 DEF Listed
  <2> QED BY <2>1, <2>2
<1>2. CASE FCbO!SkipAttribute
  BY <1>2, FastSkipAttribute DEF FCbO!SkipAttribute, FCbO!Running
<1>3. CASE FCbO!SkipFailed
  BY <1>3, FastSkipFailed DEF FCbO!SkipFailed, FCbO!Running
<1>4. CASE FCbO!Enqueue
  BY <1>4, FastEnqueue DEF FCbO!Enqueue, FCbO!Running
<1>5. CASE FCbO!Reject
  BY <1>5, FastReject DEF FCbO!Reject, FCbO!Running
<1>6. CASE FCbO!Recurse
  BY <1>6, FastRecurse DEF FCbO!Recurse
<1>7. CASE FCbO!Return
  BY <1>7, FastReturn DEF FCbO!Return
<1>8. CASE FCbO!Finish
  <2>1. pc = "core" /\ stack' = stack /\ columns' = columns
    BY <1>8 DEF FCbO!Finish
  <2> QED BY <2>1
<1> QED BY <1>1, <1>2, <1>3, <1>4, <1>5, <1>6, <1>7, <1>8 DEF FCbO!Next
-----------------------------------------------------------------------------
\* InClose.

\* The operators of InClose in the names used here.
LEMMA InCloseNames ==
  ASSUME I \in Contexts
  PROVE  /\ InCl!EmptyExtent = NoObject /\ InCl!FullExtent = [o \in Objects |-> K]
         /\ InCl!EmptySet = EmptySet /\ InCl!FullSet = FullSet
         /\ InCl!Attributes = Attributes /\ InCl!GradesSet(I) = GradesSet(I)
         /\ \A S : InCl!Min(S) = Min(S)
         /\ \A C, c : c \in Attributes => InCl!Degree(C, c) = up(C)[c]
         /\ \A f : f.j \in Attributes /\ f.g \in Grades
                     /\ columns[f.r].extent \in ObjectSets =>
              InCl!Narrow(f) = Part(columns[f.r].extent, f.j, f.g)
<1>1. \A f : InCl!Inf(f) = Inf(f)
  BY DEF InCl!Inf, Inf, InCl!Min, Min, InCl!Range, Range
<1>2. \A x, y : implication("Godel", x, y) = InCl!implication_Godel(x, y)
  BY DEF implication, InCl!implication_Godel, implication_Godel
<1>3. /\ InCl!Attributes = Attributes /\ InCl!Grades = Grades
      /\ InCl!EmptySet = EmptySet /\ InCl!FullSet = FullSet
      /\ InCl!EmptyExtent = NoObject /\ InCl!FullExtent = [o \in Objects |-> K]
  BY DEF InCl!Attributes, Attributes, InCl!Grades, Grades, InCl!EmptySet, EmptySet,
         InCl!FullSet, FullSet, InCl!EmptyExtent, NoObject, InCl!FullExtent
<1>4. \A C, c : c \in Attributes => InCl!Degree(C, c) = up(C)[c]
  BY <1>1, <1>2, <1>3 DEF up, compute_intent, InCl!Degree
<1>5. InCl!GradesSet(I) = GradesSet(I) /\ \A S : InCl!Min(S) = Min(S)
  BY <1>3 DEF InCl!GradesSet, GradesSet, InCl!Min, Min
<1>6. ASSUME NEW f, f.j \in Attributes, f.g \in Grades, columns[f.r].extent \in ObjectSets
      PROVE  InCl!Narrow(f) = Part(columns[f.r].extent, f.j, f.g)
  <2> DEFINE E == columns[f.r].extent
  <2>1. \A o \in Objects : E[o] \in 0 .. K /\ I[o][f.j] \in 0 .. K /\ f.g \in 0 .. K
    BY <1>6 DEF Contexts, ObjectSets, Grades
  <2>2. InCl!Narrow(f) =
          [o \in Objects |->
             IF (IF I[o][f.j] >= f.g THEN K ELSE I[o][f.j]) > E[o] THEN E[o]
             ELSE IF I[o][f.j] >= f.g THEN K ELSE I[o][f.j]]
    BY DEF InCl!Narrow
  <2> HIDE DEF E
  <2>3. \A o \in Objects :
          (IF (IF I[o][f.j] >= f.g THEN K ELSE I[o][f.j]) > E[o] THEN E[o]
             ELSE IF I[o][f.j] >= f.g THEN K ELSE I[o][f.j])
          = (IF f.g <= I[o][f.j] \/ E[o] <= I[o][f.j] THEN E[o] ELSE I[o][f.j])
    BY <2>1, KAssumption
  <2> QED BY <2>2, <2>3 DEF Part, E
<1> QED BY <1>3, <1>4, <1>5, <1>6

\* The columns of cols are columns of dols, with the same extents.
SameExtents(cols, dols) ==
  \A r \in DOMAIN cols : r \in DOMAIN dols /\ dols[r].extent = cols[r].extent

\* InClose: a column keeps its concept as long as it keeps its extent.
LEMMA FinalsKept ==
  ASSUME NEW cols, NEW dols, SameExtents(cols, dols)
  PROVE  \A r \in DOMAIN cols : r \in DOMAIN dols /\ Final(dols, r) = Final(cols, r)
BY DEF SameExtents, Final

\* InClose: a call below the last one does not notice a step.
LEMMA FrameKept ==
  ASSUME NEW cols, NEW dols, SameExtents(cols, dols),
         NEW f, InCloseFrame(f, cols), NEW a \in BOOLEAN, NEW b \in BOOLEAN,
         RuledOutRight(f, cols, a), a => b
  PROVE  /\ f.j = NAttr => InCloseFrame(f, dols)
         /\ RuledOutRight(f, dols, b)
         /\ InCloseView(f, dols) = InCloseView(f, cols)
<1>0. /\ f.r \in DOMAIN cols
      /\ \A m \in DOMAIN f.children : f.children[m].r \in DOMAIN cols
  BY DEF InCloseFrame
<1>1. /\ f.r \in DOMAIN dols
      /\ dols[f.r].extent = cols[f.r].extent
      /\ Final(dols, f.r) = Final(cols, f.r)
      /\ \A m \in DOMAIN f.children :
           LET r == f.children[m].r
           IN  /\ r \in DOMAIN dols
               /\ dols[r].extent = cols[r].extent
               /\ Final(dols, r) = Final(cols, r)
  BY <1>0 DEF SameExtents, Final
<1>2. InCloseView(f, dols) = InCloseView(f, cols)
  BY <1>1 DEF InCloseView
<1>3. RuledOutRight(f, dols, b)
  <2>1. dols[f.r].extent = cols[f.r].extent /\ Final(dols, f.r) = Final(cols, f.r)
    BY <1>1
  <2> SUFFICES ASSUME NEW j \in Attributes, NEW h \in GradesSet(I),
                      NEW C, C = Part(cols[f.r].extent, j, h)
               PROVE  /\ 0 < f.P[j] /\ f.P[j] <= h =>
                           \/ b /\ C = NoObject
                           \/ \E k \in Attributes :
                                k <= f.y /\ k < j /\ up(C)[k] > Final(cols, f.r)[k]
                      /\ <<j, h>> \notin f.G => up(C)[j] > h
    BY <2>1 DEF RuledOutRight
  <2> QED BY DEF RuledOutRight
<1>4. ASSUME f.j = NAttr PROVE InCloseFrame(f, dols)
  <2>1. ~(f.j < NAttr)
    BY <1>4, NAttrAssumption
  <2> QED BY <1>1, <2>1 DEF InCloseFrame
<1> QED BY <1>2, <1>3, <1>4

\* The places that have still to list their set are those of the columns whose
\* intent is incomplete.
Pending(st) ==
  {<<n, 0>> : n \in {i \in DOMAIN st : st[i].j < NAttr}}
    \cup UNION {{<<n, m>> : m \in DOMAIN st[n].children} : n \in DOMAIN st}
ColumnAt(st, p) ==
  IF p[2] = 0 THEN st[p[1]].r ELSE st[p[1]].children[p[2]].r
UpTo(st, p) ==
  IF p[2] = 0 THEN st[p[1]].j ELSE st[p[1]].children[p[2]].y + 1

\* The pending places, by their parts.
LEMMA PendingParts ==
  ASSUME NEW st
  PROVE  \A n, m : <<n, m>> \in Pending(st) <=>
           /\ n \in DOMAIN st
           /\ (m = 0 /\ st[n].j < NAttr) \/ m \in DOMAIN st[n].children
BY DEF Pending

\* A pending place is a pair.
LEMMA PendingPairs ==
  ASSUME NEW st, NEW p \in Pending(st)
  PROVE  p = <<p[1], p[2]>> /\ p[1] \in DOMAIN st
BY DEF Pending

\* The incomplete columns are those of the pending places.
LEMMA IncompletePlaces ==
  ASSUME NEW st, \A n \in DOMAIN st : 0 \notin DOMAIN st[n].children
  PROVE  Incomplete(st) = {<<ColumnAt(st, p), UpTo(st, p)>> : p \in Pending(st)}
<1>1. ASSUME NEW u \in Incomplete(st)
      PROVE  \E p \in Pending(st) : u = <<ColumnAt(st, p), UpTo(st, p)>>
  <2>1. PICK n \in DOMAIN st :
             \/ st[n].j < NAttr /\ u = <<st[n].r, st[n].j>>
             \/ \E m \in DOMAIN st[n].children :
                  u = <<st[n].children[m].r, st[n].children[m].y + 1>>
    BY DEF Incomplete, Range
  <2>2. CASE st[n].j < NAttr /\ u = <<st[n].r, st[n].j>>
    <3>1. <<n, 0>> \in Pending(st)
      BY <2>2, PendingParts
    <3>2. ColumnAt(st, <<n, 0>>) = st[n].r /\ UpTo(st, <<n, 0>>) = st[n].j
      BY DEF ColumnAt, UpTo
    <3> QED BY <2>2, <3>1, <3>2
  <2>3. ASSUME NEW m \in DOMAIN st[n].children,
               u = <<st[n].children[m].r, st[n].children[m].y + 1>>
        PROVE  \E p \in Pending(st) : u = <<ColumnAt(st, p), UpTo(st, p)>>
    <3>1. m # 0 /\ <<n, m>> \in Pending(st)
      BY <2>3, PendingParts
    <3> QED BY <2>3, <3>1 DEF ColumnAt, UpTo
  <2> QED BY <2>1, <2>2, <2>3
<1>2. ASSUME NEW p \in Pending(st)
      PROVE  <<ColumnAt(st, p), UpTo(st, p)>> \in Incomplete(st)
  <2>1. /\ p = <<p[1], p[2]>> /\ p[1] \in DOMAIN st
        /\ (p[2] = 0 /\ st[p[1]].j < NAttr) \/ p[2] \in DOMAIN st[p[1]].children
    BY PendingParts, PendingPairs
  <2>2. CASE p[2] = 0
    BY <2>1, <2>2 DEF Incomplete, ColumnAt, UpTo
  <2>3. CASE p[2] # 0
    BY <2>1, <2>3 DEF Incomplete, ColumnAt, UpTo, Range
  <2> QED BY <2>2, <2>3
<1> QED BY <1>1, <1>2

\* What is listed so far are the concepts of the complete columns.
LEMMA ListedFinals ==
  ASSUME NEW st, NEW cols, ColumnsRight(st, cols)
  PROVE  ListedSoFar(st, cols) = {Final(cols, r) : r \in Complete(st, cols)}
BY DEF ListedSoFar, ColumnsRight, Complete

\* The fields of a call of InClose.
LEMMA InCloseFields ==
  ASSUME NEW f \in InCloseCalls
  PROVE  /\ f.r \in Nat /\ f.y \in -1 .. NAttr - 1 /\ f.y \in Int /\ f.P \in AttrSets
         /\ f.G \in SUBSET (Attributes \X Grades)
         /\ f.j \in 0 .. NAttr /\ f.j \in Int /\ f.g \in Grades
         /\ f.children \in Seq([r : Nat, y : Attributes])
         /\ DOMAIN f.children = 1 .. Len(f.children) /\ Len(f.children) \in Nat
         /\ \A m \in DOMAIN f.children :
              /\ f.children[m].r \in Nat /\ f.children[m].y \in Attributes
              /\ f.children[m].y \in -1 .. NAttr - 1 /\ f.children[m].y \in Int
              /\ m # 0
<1>1. f.children \in Seq([r : Nat, y : Attributes]) /\ f.y \in -1 .. NAttr - 1 /\ f.j \in 0 .. NAttr
      /\ f.r \in Nat /\ f.P \in AttrSets /\ f.G \in SUBSET (Attributes \X Grades)
      /\ f.g \in Grades
  BY DEF InCloseCalls
<1>2. /\ DOMAIN f.children = 1 .. Len(f.children) /\ Len(f.children) \in Nat
      /\ \A m \in DOMAIN f.children : f.children[m] \in [r : Nat, y : Attributes]
  BY <1>1, LenProperties, ElementOfSeq
<1>3. ASSUME NEW m \in DOMAIN f.children
      PROVE  /\ f.children[m].r \in Nat /\ f.children[m].y \in Attributes /\ m # 0
             /\ f.children[m].y \in -1 .. NAttr - 1 /\ f.children[m].y \in Int
  <2>1. f.children[m].r \in Nat /\ f.children[m].y \in Attributes
    BY <1>2
  <2> QED BY <1>2, <2>1, NAttrAssumption DEF Attributes
<1> QED BY <1>1, <1>2, <1>3, NAttrAssumption

\* The views of a stack.
LEMMA InCloseViewed ==
  ASSUME NEW st, NEW cols
  PROVE  /\ DOMAIN InCloseViews(st, cols) = DOMAIN st
         /\ \A n \in DOMAIN st :
              LET v == InCloseViews(st, cols)[n]
              IN  /\ v = InCloseView(st[n], cols)
                  /\ Region(ToFind, v, 0)
                       = LoopRegion(ToFind, Final(cols, st[n].r), st[n].j, st[n].g)
                           \cup (IF st[n].j < NAttr THEN {Final(cols, st[n].r)} ELSE {})
                  /\ DOMAIN v.kids = DOMAIN st[n].children
                  /\ \A m \in DOMAIN st[n].children :
                       LET child == st[n].children[m]
                       IN  /\ v.kids[m] = [C |-> Final(cols, child.r), y |-> child.y]
                           /\ m # 0 => Region(ToFind, v, m)
                                         = Subtree(ToFind, Final(cols, child.r), child.y)
<1>1. /\ DOMAIN InCloseViews(st, cols) = DOMAIN st
      /\ \A n \in DOMAIN st : InCloseViews(st, cols)[n] = InCloseView(st[n], cols)
  BY DEF InCloseViews
<1>2. ASSUME NEW f
      PROVE  LET v == InCloseView(f, cols)
             IN  /\ Region(ToFind, v, 0)
                      = LoopRegion(ToFind, Final(cols, f.r), f.j, f.g)
                          \cup (IF f.j < NAttr THEN {Final(cols, f.r)} ELSE {})
                 /\ DOMAIN v.kids = DOMAIN f.children
                 /\ \A m \in DOMAIN f.children :
                       LET child == f.children[m]
                       IN  /\ v.kids[m] = [C |-> Final(cols, child.r), y |-> child.y]
                           /\ m # 0 => Region(ToFind, v, m)
                                         = Subtree(ToFind, Final(cols, child.r), child.y)
  BY DEF InCloseView, Region
<1> QED BY <1>1, <1>2

\* The set of a place that has still to list it is left to that place.
LEMMA PlaceFinals ==
  ASSUME I \in Contexts, NEW st, NEW cols, NEW added, InCloseState(st, cols, added)
  PROVE  LET v == InCloseViews(st, cols)
         IN  \A n \in DOMAIN st :
               /\ st[n].j < NAttr => Final(cols, st[n].r) \in Region(ToFind, v[n], 0)
               /\ \A m \in DOMAIN st[n].children :
                    Final(cols, st[n].children[m].r) \in Region(ToFind, v[n], m)
<1> DEFINE v == InCloseViews(st, cols)
<1> SUFFICES ASSUME NEW n \in DOMAIN st
             PROVE  /\ st[n].j < NAttr => Final(cols, st[n].r) \in Region(ToFind, v[n], 0)
                    /\ \A m \in DOMAIN st[n].children :
                         Final(cols, st[n].children[m].r) \in Region(ToFind, v[n], m)
  OBVIOUS
<1>1. st[n] \in InCloseCalls /\ InCloseFrame(st[n], cols)
  BY LenProperties, ElementOfSeq DEF InCloseState
<1>2. st[n].j < NAttr => Final(cols, st[n].r) \in Region(ToFind, v[n], 0)
  BY InCloseViewed
<1>3. ASSUME NEW m \in DOMAIN st[n].children
      PROVE  Final(cols, st[n].children[m].r) \in Region(ToFind, v[n], m)
  <2> DEFINE F == Final(cols, st[n].children[m].r)
  <2>1. m # 0
    BY <1>1, <1>3, InCloseFields
  <2>2. Region(ToFind, v[n], m) = Subtree(ToFind, F, st[n].children[m].y)
    <3>1. v[n] = InCloseView(st[n], cols)
      BY DEF InCloseViews
    <3> HIDE DEF v
    <3> QED BY <1>3, <2>1, <3>1 DEF InCloseView, Region
  <2>3. st[n].children[m].r \in DOMAIN cols
    BY <1>1 DEF InCloseFrame
  <2>4. IsConcept(cols[st[n].children[m].r].extent, F)
    BY <2>3 DEF InCloseState, ColumnsRight
  <2> HIDE DEF F
  <2>5. F \in ToFind /\ F \in AttrSets
    BY <2>4, FoundTypes DEF IsConcept
  <2>6. Leq(F, F)
    BY <2>5, SetValues DEF Leq
  <2> QED BY <2>2, <2>5, <2>6 DEF Subtree, F
<1> QED BY <1>2, <1>3

\* A column is incomplete at one place at most, and is not listed then.
LEMMA OnePlace ==
  ASSUME I \in Contexts, NEW st, NEW cols, NEW added, InCloseState(st, cols, added)
  PROVE  /\ Incomplete(st) = {<<ColumnAt(st, p), UpTo(st, p)>> : p \in Pending(st)}
         /\ \A p \in Pending(st) :
              /\ ColumnAt(st, p) \in DOMAIN cols
              /\ Final(cols, ColumnAt(st, p)) \notin ListedSoFar(st, cols)
         /\ \A p, q \in Pending(st) : ColumnAt(st, p) = ColumnAt(st, q) => p = q
<1> DEFINE v == InCloseViews(st, cols)
<1>0. \A n \in DOMAIN st : st[n] \in InCloseCalls /\ InCloseFrame(st[n], cols)
  BY LenProperties, ElementOfSeq DEF InCloseState
<1>1. ASSUME NEW p \in Pending(st)
      PROVE  /\ p \in Places(v)
             /\ Final(cols, ColumnAt(st, p)) \in RegionAt(ToFind, v, p)
             /\ ColumnAt(st, p) \in DOMAIN cols
  <2>1. /\ p = <<p[1], p[2]>> /\ p[1] \in DOMAIN st
        /\ (p[2] = 0 /\ st[p[1]].j < NAttr) \/ p[2] \in DOMAIN st[p[1]].children
    BY PendingParts, PendingPairs
  <2>2. p \in Places(v)
    <3>1. DOMAIN v = DOMAIN st /\ DOMAIN v[p[1]].kids = DOMAIN st[p[1]].children
      BY <2>1, InCloseViewed
    <3> QED BY <2>1, <3>1, PlaceParts
  <2>3. CASE p[2] = 0 /\ st[p[1]].j < NAttr
    <3>1. Final(cols, st[p[1]].r) \in Region(ToFind, v[p[1]], p[2])
      BY <2>1, <2>3, PlaceFinals
    <3>2. st[p[1]].r \in DOMAIN cols
      BY <1>0, <2>1 DEF InCloseFrame
    <3> QED BY <2>2, <2>3, <3>1, <3>2 DEF RegionAt, ColumnAt
  <2>4. CASE p[2] \in DOMAIN st[p[1]].children
    <3>1. Final(cols, st[p[1]].children[p[2]].r) \in Region(ToFind, v[p[1]], p[2])
      BY <2>1, <2>4, PlaceFinals
    <3>2. st[p[1]].children[p[2]].r \in DOMAIN cols /\ p[2] # 0
      BY <1>0, <2>1, <2>4, InCloseFields DEF InCloseFrame
    <3> QED BY <2>2, <3>1, <3>2 DEF RegionAt, ColumnAt
  <2> QED BY <2>1, <2>3, <2>4
<1>2. Incomplete(st) = {<<ColumnAt(st, p), UpTo(st, p)>> : p \in Pending(st)}
  <2>1. \A n \in DOMAIN st : 0 \notin DOMAIN st[n].children
    BY <1>0, InCloseFields
  <2> QED BY <2>1, IncompletePlaces
<1> HIDE DEF v
<1>3. /\ \A p, q \in Places(v) :
           p # q => RegionAt(ToFind, v, p) \cap RegionAt(ToFind, v, q) = {}
      /\ \A p \in Places(v) : RegionAt(ToFind, v, p) \cap ListedSoFar(st, cols) = {}
  BY DEF InCloseState, Partition, RegionAt, v
<1>4. ASSUME NEW p \in Pending(st), NEW q \in Pending(st), ColumnAt(st, p) = ColumnAt(st, q)
      PROVE  p = q
  <2>1. /\ p \in Places(v) /\ Final(cols, ColumnAt(st, p)) \in RegionAt(ToFind, v, p)
        /\ q \in Places(v) /\ Final(cols, ColumnAt(st, p)) \in RegionAt(ToFind, v, q)
    BY <1>1, <1>4
  <2> QED BY <1>3, <2>1
<1> QED BY <1>1, <1>2, <1>3, <1>4

\* The columns that no place has still to complete.
Settled(st, cols) == {r \in DOMAIN cols : \A p \in Pending(st) : ColumnAt(st, p) # r}

\* The columns are right when those of no pending place are complete and those of
\* a pending place are final up to where it has come.
LEMMA SettledColumns ==
  ASSUME NEW st, NEW cols, \A n \in DOMAIN st : st[n] \in InCloseCalls
  PROVE  /\ Complete(st, cols) = Settled(st, cols)
         /\ ColumnsRight(st, cols) <=>
              /\ \A r \in DOMAIN cols :
                   /\ IsConcept(cols[r].extent, Final(cols, r))
                   /\ cols[r].extent # NoObject
                   /\ Leq(cols[r].intent, Final(cols, r))
                   /\ r \in Settled(st, cols) => cols[r].intent = Final(cols, r)
              /\ \A p \in Pending(st) : \A c \in Attributes :
                   c < UpTo(st, p) =>
                     cols[ColumnAt(st, p)].intent[c] = Final(cols, ColumnAt(st, p))[c]
              /\ \A m, n \in DOMAIN cols : Final(cols, m) = Final(cols, n) => m = n
<1>1. Incomplete(st) = {<<ColumnAt(st, p), UpTo(st, p)>> : p \in Pending(st)}
  BY InCloseFields, IncompletePlaces
<1>a. \A u \in Incomplete(st) : \E p \in Pending(st) : u[1] = ColumnAt(st, p) /\ u[2] = UpTo(st, p)
  BY <1>1
<1>b. \A p \in Pending(st) :
        \E u \in Incomplete(st) : u[1] = ColumnAt(st, p) /\ u[2] = UpTo(st, p)
  <2> SUFFICES ASSUME NEW p \in Pending(st)
               PROVE  \E u \in Incomplete(st) : u[1] = ColumnAt(st, p) /\ u[2] = UpTo(st, p)
    OBVIOUS
  <2> DEFINE u == <<ColumnAt(st, p), UpTo(st, p)>>
  <2>1. u \in Incomplete(st)
    BY <1>1
  <2>2. u[1] = ColumnAt(st, p) /\ u[2] = UpTo(st, p)
    OBVIOUS
  <2> QED BY <2>1, <2>2
<1>2. Complete(st, cols) = Settled(st, cols)
  <2>1. Complete(st, cols) = {r \in DOMAIN cols : \A u \in Incomplete(st) : u[1] # r}
    BY DEF Complete
  <2> QED BY <1>a, <1>b, <2>1 DEF Settled
<1>3. (\A u \in Incomplete(st) : \A c \in Attributes :
         c < u[2] => cols[u[1]].intent[c] = Final(cols, u[1])[c])
      <=> (\A p \in Pending(st) : \A c \in Attributes :
             c < UpTo(st, p) =>
               cols[ColumnAt(st, p)].intent[c] = Final(cols, ColumnAt(st, p))[c])
  <2>1. ASSUME \A u \in Incomplete(st) : \A c \in Attributes :
                 c < u[2] => cols[u[1]].intent[c] = Final(cols, u[1])[c],
               NEW p \in Pending(st), NEW c \in Attributes, c < UpTo(st, p)
        PROVE  cols[ColumnAt(st, p)].intent[c] = Final(cols, ColumnAt(st, p))[c]
    BY <1>b, <2>1
  <2>2. ASSUME \A p \in Pending(st) : \A c \in Attributes :
                 c < UpTo(st, p) =>
                   cols[ColumnAt(st, p)].intent[c] = Final(cols, ColumnAt(st, p))[c],
               NEW u \in Incomplete(st), NEW c \in Attributes, c < u[2]
        PROVE  cols[u[1]].intent[c] = Final(cols, u[1])[c]
    BY <1>a, <2>2
  <2> QED BY <2>1, <2>2
<1> QED BY <1>2, <1>3 DEF ColumnsRight

Exceptions(added) == IF added THEN WithoutObjects ELSE {}

\* What moving the last call on in its loops asks for: in its own column only
\* the intent changes, and it is final up to the new place.
Moved(f, top, cols, dols, added, badded) ==
  LET B == Final(cols, top.r)
      V == dols[top.r].intent
  IN  /\ f \in InCloseCalls
      /\ f.r = top.r /\ f.y = top.y /\ f.children = top.children
      /\ top.j <= f.j /\ f.g \in GradesSet(I)
      /\ dols \in Seq(Columns) /\ DOMAIN dols = DOMAIN cols
      /\ \A i \in DOMAIN cols : dols[i].extent = cols[i].extent
      /\ \A i \in DOMAIN cols : i # top.r => dols[i] = cols[i]
      /\ Leq(V, B)
      /\ \A c \in Attributes : c < f.j => V[c] = B[c]
      /\ f.j < NAttr => V[f.j] = B[f.j] \/ f.g <= B[f.j]
      /\ badded \in BOOLEAN /\ (added => badded)
      /\ badded => down(FullSet) = NoObject
      /\ RuledOutRight(f, dols, badded)
      /\ LoopRegion(ToFind, B, f.j, f.g) \subseteq LoopRegion(ToFind, B, top.j, top.g)
      /\ LoopRegion(ToFind, B, top.j, top.g)
           \subseteq LoopRegion(ToFind, B, f.j, f.g) \cup Exceptions(badded)

\* At most one set more is listed.
OneMore(l, m) == m = l \/ \E X : m = l \cup {X}

\* InClose: the last call moves on in its loops.
LEMMA InCloseMoves ==
  ASSUME I \in Contexts, NEW st, NEW cols, NEW added, InCloseState(st, cols, added),
         st # <<>>, st[Len(st)].j < NAttr,
         NEW f, NEW dols, NEW badded, Moved(f, st[Len(st)], cols, dols, added, badded)
  PROVE  LET t == [st EXCEPT ![Len(st)] = f]
         IN  /\ InCloseState(t, dols, badded)
             /\ OneMore(ListedSoFar(st, cols), ListedSoFar(t, dols))
<1> DEFINE n == Len(st)
           top == st[n]
           r == top.r
           B == Final(cols, r)
           V == dols[r].intent
           t == [st EXCEPT ![n] = f]
           v == InCloseViews(st, cols)
           w == InCloseViews(t, dols)
<1>1. /\ st \in Seq(InCloseCalls) /\ cols \in Seq(Columns) /\ added \in BOOLEAN
      /\ ColumnsRight(st, cols) /\ Deeper(st)
      /\ \A i \in DOMAIN st : InCloseFrame(st[i], cols) /\ RuledOutRight(st[i], cols, added)
      /\ \A i \in DOMAIN st : i < Len(st) => st[i].j = NAttr
      /\ Partition(ToFind, Exceptions(added), ListedSoFar(st, cols), v)
  BY DEF InCloseState, Exceptions
<1>2. /\ f \in InCloseCalls
      /\ f.r = r /\ f.y = top.y /\ f.children = top.children
      /\ top.j <= f.j /\ f.g \in GradesSet(I)
      /\ dols \in Seq(Columns) /\ DOMAIN dols = DOMAIN cols
      /\ \A i \in DOMAIN cols : dols[i].extent = cols[i].extent
      /\ \A i \in DOMAIN cols : i # r => dols[i] = cols[i]
  BY DEF Moved
<1>3. /\ Leq(V, B)
      /\ \A c \in Attributes : c < f.j => V[c] = B[c]
      /\ f.j < NAttr => V[f.j] = B[f.j] \/ f.g <= B[f.j]
      /\ badded \in BOOLEAN /\ (added => badded)
      /\ badded => down(FullSet) = NoObject
      /\ RuledOutRight(f, dols, badded)
  BY DEF Moved
<1>4. /\ LoopRegion(ToFind, B, f.j, f.g) \subseteq LoopRegion(ToFind, B, top.j, top.g)
      /\ LoopRegion(ToFind, B, top.j, top.g)
           \subseteq LoopRegion(ToFind, B, f.j, f.g) \cup Exceptions(badded)
  BY DEF Moved
<1>5. top.j < NAttr
  OBVIOUS
<1>6. /\ t \in Seq(InCloseCalls) /\ Len(t) = n /\ DOMAIN t = DOMAIN st
      /\ n \in Nat \ {0} /\ DOMAIN st = 1 .. n /\ n \in DOMAIN st
      /\ t[n] = f /\ top \in InCloseCalls
      /\ \A i \in DOMAIN st : i # n => t[i] = st[i]
  BY <1>1, <1>2, LastReplaced
<1>7. \A i \in DOMAIN st : st[i] \in InCloseCalls /\ t[i] \in InCloseCalls
  BY <1>1, <1>2, <1>6, ElementOfSeq
<1> HIDE DEF t, V, v, w
<1>8. SameExtents(cols, dols) /\ \A i \in DOMAIN cols : Final(dols, i) = Final(cols, i)
  BY <1>2 DEF SameExtents, Final
<1>9. /\ r \in DOMAIN cols
      /\ \A p, q \in Pending(st) : ColumnAt(st, p) = ColumnAt(st, q) => p = q
      /\ <<n, 0>> \in Pending(st) /\ ColumnAt(st, <<n, 0>>) = r
      /\ UpTo(st, <<n, 0>>) = top.j
  BY <1>1, <1>5, <1>6, OnePlace, PendingParts DEF InCloseFrame, ColumnAt, UpTo
<1> HIDE DEF B
<1>10. /\ Pending(t) = (Pending(st) \ {<<n, 0>>}) \cup (IF f.j < NAttr THEN {<<n, 0>>} ELSE {})
       /\ \A p \in Pending(st) : ColumnAt(t, p) = ColumnAt(st, p)
       /\ \A p \in Pending(st) : p # <<n, 0>> => UpTo(t, p) = UpTo(st, p)
       /\ UpTo(t, <<n, 0>>) = f.j
  <2>1. \A i \in DOMAIN st : /\ t[i].r = st[i].r /\ t[i].children = st[i].children
                             /\ i # n => t[i].j = st[i].j
    BY <1>2, <1>6
  <2>2. \A i, m : <<i, m>> \in Pending(t) <=>
          \/ <<i, m>> \in Pending(st) /\ (i # n \/ m # 0)
          \/ i = n /\ m = 0 /\ f.j < NAttr
    <3>1. \A i, m : <<i, m>> \in Pending(t) <=>
           /\ i \in DOMAIN t
           /\ (m = 0 /\ t[i].j < NAttr) \/ m \in DOMAIN t[i].children
      BY PendingParts
    <3>2. \A i, m : <<i, m>> \in Pending(st) <=>
           /\ i \in DOMAIN st
           /\ (m = 0 /\ st[i].j < NAttr) \/ m \in DOMAIN st[i].children
      BY PendingParts
    <3>3. 0 \notin DOMAIN st[n].children
      BY <1>6, <1>7, InCloseFields
    <3>4. ASSUME NEW i, NEW m, i = n, m = 0
          PROVE  <<i, m>> \in Pending(t) <=> f.j < NAttr
      <4>1. <<i, m>> \in Pending(t) <=> (t[n].j < NAttr \/ 0 \in DOMAIN t[n].children)
        BY <1>6, <3>1, <3>4
      <4> QED BY <1>6, <2>1, <3>3, <4>1
    <3>5. ASSUME NEW i, NEW m, i # n \/ m # 0
          PROVE  <<i, m>> \in Pending(t) <=> <<i, m>> \in Pending(st)
      <4>1. ASSUME i \in DOMAIN st
            PROVE  (m = 0 /\ t[i].j < NAttr) <=> (m = 0 /\ st[i].j < NAttr)
        BY <1>6, <2>1, <3>5, <4>1
      <4>2. ASSUME i \in DOMAIN st
            PROVE  m \in DOMAIN t[i].children <=> m \in DOMAIN st[i].children
        BY <1>6, <2>1, <4>2
      <4> QED BY Zenon, <1>6, <3>1, <3>2, <4>1, <4>2
    <3> QED BY Zenon, <3>4, <3>5
  <2>3. \A p \in Pending(st) : p = <<p[1], p[2]>> /\ p[1] \in DOMAIN st
    BY PendingPairs
  <2>4. \A p \in Pending(t) : p = <<p[1], p[2]>>
    BY PendingPairs
  <2>5. Pending(t) = (Pending(st) \ {<<n, 0>>}) \cup (IF f.j < NAttr THEN {<<n, 0>>} ELSE {})
    BY <2>2, <2>3, <2>4
  <2>6. \A p \in Pending(st) : ColumnAt(t, p) = ColumnAt(st, p)
    BY <2>1, <2>3 DEF ColumnAt
  <2>7. \A p \in Pending(st) : p # <<n, 0>> => UpTo(t, p) = UpTo(st, p)
    BY <2>1, <2>3 DEF UpTo
  <2>8. UpTo(t, <<n, 0>>) = f.j
    BY <1>6 DEF UpTo
  <2> QED BY <2>5, <2>6, <2>7, <2>8
<1>11. /\ Complete(st, cols) = Settled(st, cols) /\ Complete(t, dols) = Settled(t, dols)
       /\ Settled(t, dols) = Settled(st, cols) \cup (IF f.j < NAttr THEN {} ELSE {r})
       /\ r \notin Settled(st, cols)
  <2>1. Complete(st, cols) = Settled(st, cols) /\ Complete(t, dols) = Settled(t, dols)
    BY <1>6, <1>7, SettledColumns
  <2>2. r \notin Settled(st, cols)
    BY <1>9 DEF Settled
  <2>3. CASE f.j < NAttr
    <3>1. Pending(t) = Pending(st)
      BY <1>9, <1>10, <2>3
    <3> QED BY <1>2, <1>10, <2>1, <2>2, <2>3, <3>1 DEF Settled
  <2>4. CASE ~(f.j < NAttr)
    <3>1. Pending(t) = Pending(st) \ {<<n, 0>>}
      BY <1>9, <1>10, <2>4
    <3>2. \A p \in Pending(t) : ColumnAt(t, p) = ColumnAt(st, p) /\ ColumnAt(st, p) # r
      BY <1>9, <1>10, <3>1
    <3>3. Settled(t, dols) = Settled(st, cols) \cup {r}
      <4>1. ASSUME NEW i \in Settled(t, dols) PROVE i \in Settled(st, cols) \cup {r}
        <5>1. i \in DOMAIN cols /\ \A p \in Pending(t) : ColumnAt(t, p) # i
          BY <1>2, <4>1 DEF Settled
        <5>2. i # r => \A p \in Pending(st) : ColumnAt(st, p) # i
          BY <1>9, <3>1, <3>2, <5>1
        <5> QED BY <5>1, <5>2 DEF Settled
      <4>2. ASSUME NEW i \in Settled(st, cols) PROVE i \in Settled(t, dols)
        <5>1. i \in DOMAIN cols /\ \A p \in Pending(st) : ColumnAt(st, p) # i
          BY <4>2 DEF Settled
        <5> QED BY <1>2, <3>1, <3>2, <5>1 DEF Settled
      <4>3. r \in Settled(t, dols)
        BY <1>2, <1>9, <3>2 DEF Settled
      <4> QED BY <4>1, <4>2, <4>3
    <3> QED BY <2>1, <2>2, <2>4, <3>3
  <2> QED BY <2>3, <2>4
<1> HIDE DEF top, r
<1>12. ColumnsRight(t, dols)
  <2>0. /\ \A i \in DOMAIN cols :
                   /\ IsConcept(cols[i].extent, Final(cols, i))
                   /\ cols[i].extent # NoObject
                   /\ Leq(cols[i].intent, Final(cols, i))
                   /\ i \in Settled(st, cols) => cols[i].intent = Final(cols, i)
        /\ \A p \in Pending(st) : \A c \in Attributes :
                   c < UpTo(st, p) =>
                     cols[ColumnAt(st, p)].intent[c] = Final(cols, ColumnAt(st, p))[c]
        /\ \A i, k \in DOMAIN cols : Final(cols, i) = Final(cols, k) => i = k
    BY <1>1, <1>7, SettledColumns
  <2>1. ASSUME NEW i \in DOMAIN dols
        PROVE  /\ IsConcept(dols[i].extent, Final(dols, i))
               /\ dols[i].extent # NoObject
               /\ Leq(dols[i].intent, Final(dols, i))
               /\ i \in Settled(t, dols) => dols[i].intent = Final(dols, i)
    <3>1. CASE i # r
      BY <1>2, <1>8, <1>11, <2>0, <3>1
    <3>2. CASE i = r
      <4>1. /\ IsConcept(dols[i].extent, Final(dols, i))
            /\ dols[i].extent # NoObject
            /\ Leq(dols[i].intent, Final(dols, i))
        BY <1>2, <1>3, <1>8, <1>9, <2>0, <3>2 DEF B, V, r
      <4>2. ASSUME i \in Settled(t, dols) PROVE dols[i].intent = Final(dols, i)
        <5>1. f.j = NAttr
          <6>1. ~(f.j < NAttr)
            BY <1>11, <3>2, <4>2
          <6> QED BY <1>2, <6>1, InCloseFields, NAttrAssumption
        <5>2. \A c \in Attributes : c < f.j
          BY <5>1, NAttrAssumption DEF Attributes
        <5>3. V \in AttrSets /\ B \in AttrSets
          <6>1. \A k \in DOMAIN dols : dols[k] \in Columns
            BY <1>2, LenProperties, ElementOfSeq
          <6> QED BY <1>2, <1>9, <2>0, <6>1 DEF IsConcept, Columns, V, B, r
        <5>4. V = B
          BY <1>3, <5>2, <5>3 DEF AttrSets
        <5> QED BY <1>8, <1>9, <3>2, <5>4 DEF V, B, r
      <4> QED BY <4>1, <4>2
    <3> QED BY <3>1, <3>2
  <2>2. ASSUME NEW p \in Pending(t), NEW c \in Attributes, c < UpTo(t, p)
        PROVE  dols[ColumnAt(t, p)].intent[c] = Final(dols, ColumnAt(t, p))[c]
    <3>1. CASE p = <<n, 0>>
      <4>1. ColumnAt(t, p) = r /\ UpTo(t, p) = f.j
        BY <1>9, <1>10, <3>1
      <4>2. dols[r].intent[c] = B[c]
        BY <1>3, <2>2, <4>1 DEF V, r
      <4> QED BY <1>8, <1>9, <4>1, <4>2 DEF B, r
    <3>2. CASE p # <<n, 0>>
      <4>1. p \in Pending(st) /\ ColumnAt(t, p) = ColumnAt(st, p) /\ UpTo(t, p) = UpTo(st, p)
        BY <1>10, <3>2
      <4>2. ColumnAt(st, p) # r /\ ColumnAt(st, p) \in DOMAIN cols
        BY <1>9, <3>2, <4>1, OnePlace
      <4>3. cols[ColumnAt(st, p)].intent[c] = Final(cols, ColumnAt(st, p))[c]
        BY <2>0, <2>2, <4>1
      <4> QED BY <1>2, <1>8, <4>1, <4>2, <4>3
    <3> QED BY <3>1, <3>2
  <2>3. \A i, k \in DOMAIN dols : Final(dols, i) = Final(dols, k) => i = k
    BY <1>2, <1>8, <2>0
  <2> QED BY <1>6, <1>7, <2>1, <2>2, <2>3, SettledColumns
<1>13. ListedSoFar(t, dols)
         = ListedSoFar(st, cols) \cup (IF f.j < NAttr THEN {} ELSE {B})
  <2>1. /\ ListedSoFar(t, dols) = {Final(dols, i) : i \in Settled(t, dols)}
        /\ ListedSoFar(st, cols) = {Final(cols, i) : i \in Settled(st, cols)}
    BY <1>1, <1>11, <1>12, ListedFinals
  <2>2. \A i \in Settled(t, dols) : i \in DOMAIN cols
    BY <1>2 DEF Settled
  <2> QED BY <1>8, <1>11, <2>1, <2>2 DEF B, r
<1>14. Partition(ToFind, Exceptions(badded), ListedSoFar(t, dols), w)
  <2>1. /\ DOMAIN v = DOMAIN st /\ DOMAIN w = DOMAIN t
        /\ \A i \in DOMAIN st : v[i] = InCloseView(st[i], cols)
        /\ \A i \in DOMAIN t : w[i] = InCloseView(t[i], dols)
        /\ Region(ToFind, v[n], 0)
             = LoopRegion(ToFind, B, top.j, top.g) \cup {B}
        /\ Region(ToFind, w[n], 0)
             = LoopRegion(ToFind, B, f.j, f.g) \cup (IF f.j < NAttr THEN {B} ELSE {})
    <3>1. /\ DOMAIN v = DOMAIN st /\ DOMAIN w = DOMAIN t
          /\ \A i \in DOMAIN st : v[i] = InCloseView(st[i], cols)
          /\ \A i \in DOMAIN t : w[i] = InCloseView(t[i], dols)
      BY DEF v, w, InCloseViews
    <3>2. v[n] = InCloseView(top, cols) /\ w[n] = InCloseView(f, dols)
      BY <1>6, <3>1 DEF top
    <3>3. Final(dols, f.r) = B /\ Final(cols, top.r) = B
      BY <1>2, <1>8, <1>9 DEF B, r
    <3>4. Region(ToFind, v[n], 0) = LoopRegion(ToFind, B, top.j, top.g) \cup {B}
      <4>1. /\ v[n].C = B /\ v[n].j = top.j /\ v[n].g = top.g /\ v[n].own = (top.j < NAttr)
        BY <3>2, <3>3 DEF InCloseView
      <4>2. v[n].own
        BY <1>5, <4>1 DEF top
      <4> QED BY <4>1, <4>2 DEF Region
    <3>5. Region(ToFind, w[n], 0)
             = LoopRegion(ToFind, B, f.j, f.g) \cup (IF f.j < NAttr THEN {B} ELSE {})
      <4>1. /\ w[n].C = B /\ w[n].j = f.j /\ w[n].g = f.g /\ w[n].own = (f.j < NAttr)
        BY <3>2, <3>3 DEF InCloseView
      <4>2. Region(ToFind, w[n], 0)
              = LoopRegion(ToFind, B, f.j, f.g) \cup (IF w[n].own THEN {B} ELSE {})
        BY <4>1 DEF Region
      <4>3. CASE f.j < NAttr
        BY <4>1, <4>2, <4>3
      <4>4. CASE ~(f.j < NAttr)
        BY <4>1, <4>2, <4>4
      <4> QED BY <4>3, <4>4
    <3> QED BY <3>1, <3>4, <3>5
  <2>2. \A i \in DOMAIN v : i # n => w[i] = v[i]
    <3> SUFFICES ASSUME NEW i \in DOMAIN st, i # n
                 PROVE  InCloseView(st[i], dols) = InCloseView(st[i], cols)
      BY <1>6, <2>1
    <3> QED BY <1>1, <1>3, <1>8, FrameKept
  <2>3. w[n].kids = v[n].kids
    <3>1. \A m \in DOMAIN top.children : top.children[m].r \in DOMAIN cols
      BY <1>1, <1>6 DEF InCloseFrame, top
    <3>2. /\ v[n] = InCloseView(top, cols) /\ w[n] = InCloseView(f, dols)
          /\ f.children = top.children
      BY <1>2, <1>6, <2>1 DEF top
    <3> QED BY <1>8, <3>1, <3>2 DEF InCloseView
  <2>4. B \notin LoopRegion(ToFind, B, f.j, f.g)
    BY SetValues DEF LoopRegion, ToFind
  <2>5. f.j < NAttr \/ f.j = NAttr
    BY <1>2, InCloseFields, NAttrAssumption
  <2>6. Exceptions(added) \subseteq Exceptions(badded)
    BY <1>1, <1>3 DEF Exceptions
  <2>7. /\ Region(ToFind, w[n], 0) \subseteq Region(ToFind, v[n], 0)
        /\ ListedSoFar(st, cols) \subseteq ListedSoFar(t, dols)
        /\ ListedSoFar(t, dols) \ ListedSoFar(st, cols)
             \subseteq Region(ToFind, v[n], 0) \ Region(ToFind, w[n], 0)
        /\ Region(ToFind, v[n], 0)
             \subseteq Region(ToFind, w[n], 0) \cup ListedSoFar(t, dols) \cup Exceptions(badded)
    BY <1>4, <1>13, <2>1, <2>4 DEF B, r, top
  <2>8. DOMAIN w = DOMAIN v /\ n \in DOMAIN v
    BY <1>6, <2>1
  <2> HIDE DEF n
  <2> QED BY <1>1, <2>2, <2>3, <2>6, <2>7, <2>8, CallMoves
<1>15. ASSUME NEW i \in DOMAIN t
       PROVE  InCloseFrame(t[i], dols) /\ RuledOutRight(t[i], dols, badded)
  <2>1. CASE i # n
    <3>1. t[i] = st[i] /\ st[i].j = NAttr
      BY <1>1, <1>6, <2>1
    <3> QED BY <1>1, <1>3, <1>6, <1>8, <3>1, FrameKept
  <2>2. CASE i = n
    <3>0. InCloseFrame(top, cols)
      BY <1>1, <1>6 DEF top
    <3>1. /\ f.r \in DOMAIN dols /\ f.r \in DOMAIN cols
          /\ \A m \in DOMAIN f.children : f.children[m].r \in DOMAIN dols
                                            /\ f.children[m].r \in DOMAIN cols
      BY <1>2, <1>9, <3>0 DEF InCloseFrame, r
    <3>2. f.y < f.j
      <4>1. top.y < top.j
        BY <3>0 DEF InCloseFrame
      <4> QED BY <1>2, <1>6, <4>1, InCloseFields DEF top
    <3>3. \A m \in DOMAIN f.children :
            LET child == f.children[m]
            IN  /\ f.y < child.y
                /\ Below(dols[child.r].extent, dols[f.r].extent)
                /\ \A c \in Attributes :
                     c < child.y => Final(dols, child.r)[c] = Final(dols, f.r)[c]
      <4> SUFFICES ASSUME NEW m \in DOMAIN f.children, NEW child, child = f.children[m]
                   PROVE  /\ f.y < child.y
                          /\ Below(dols[child.r].extent, dols[f.r].extent)
                          /\ \A c \in Attributes :
                              c < child.y => Final(dols, child.r)[c] = Final(dols, f.r)[c]
        OBVIOUS
      <4>1. /\ top.y < child.y
            /\ Below(cols[child.r].extent, cols[top.r].extent)
            /\ \A c \in Attributes :
                 c < child.y => Final(cols, child.r)[c] = Final(cols, top.r)[c]
        BY <1>2, <3>0 DEF InCloseFrame, r
      <4> QED BY <1>2, <1>8, <3>1, <4>1 DEF r
    <3>4. f.j < NAttr =>
            \/ dols[f.r].intent[f.j] = Final(dols, f.r)[f.j]
            \/ f.g <= Final(dols, f.r)[f.j]
      BY <1>2, <1>3, <1>8, <1>9 DEF V, B, r
    <3>5. InCloseFrame(f, dols)
      BY <1>2, <3>1, <3>2, <3>3, <3>4 DEF InCloseFrame
    <3> QED BY <1>3, <1>6, <2>2, <3>5
  <2> QED BY <2>1, <2>2
<1>16. Deeper(t)
  <2>1. \A i \in DOMAIN st : t[i].y = st[i].y
    BY <1>2, <1>6 DEF top
  <2> SUFFICES ASSUME NEW i \in DOMAIN st
               PROVE  t[i].y >= i - 2 /\ (i > 1 => t[i-1].y < t[i].y)
    BY <1>6 DEF Deeper
  <2>2. i > 1 => i - 1 \in DOMAIN st
    BY <1>6
  <2> QED BY <1>1, <2>1, <2>2 DEF Deeper
<1>17. \A i \in DOMAIN t : i < Len(t) => t[i].j = NAttr
  BY <1>1, <1>6
<1>18. InCloseState(t, dols, badded)
  BY <1>2, <1>3, <1>6, <1>12, <1>14, <1>15, <1>16, <1>17 DEF InCloseState, Exceptions, w
<1>19. OneMore(ListedSoFar(st, cols), ListedSoFar(t, dols))
  <2>1. ListedSoFar(t, dols) \in {ListedSoFar(st, cols), ListedSoFar(st, cols) \cup {B}}
    BY <1>13
  <2> QED BY <2>1 DEF OneMore
<1> QED BY <1>18, <1>19 DEF t

\* InClose: what the last call knows.
LEMMA InCloseTop ==
  ASSUME I \in Contexts, InCloseState(stack, columns, add_empty_extent), InCl!Running
  PROVE  LET f == InCl!Top
             E == columns[f.r].extent
             B == Final(columns, f.r)
             V == columns[f.r].intent
         IN  /\ stack # <<>> /\ f = stack[Len(stack)] /\ f \in InCloseCalls
             /\ InCloseFrame(f, columns)
             /\ RuledOutRight(f, columns, add_empty_extent)
             /\ f.r \in DOMAIN columns /\ columns \in Seq(Columns)
             /\ f.j \in Attributes /\ f.j < NAttr /\ f.g \in GradesSet(I)
             /\ E \in ObjectSets /\ E # NoObject /\ IsConcept(E, B)
             /\ B \in AttrSets /\ V \in AttrSets /\ Leq(V, B)
             /\ \A c \in Attributes : c < f.j => V[c] = B[c]
             /\ V[f.j] = B[f.j] \/ f.g <= B[f.j]
             /\ InCl!Narrow(f) = Part(E, f.j, f.g)
<1> DEFINE f == InCl!Top
           E == columns[f.r].extent
           B == Final(columns, f.r)
           V == columns[f.r].intent
           n == Len(stack)
<1>1. /\ stack \in Seq(InCloseCalls) /\ columns \in Seq(Columns)
      /\ ColumnsRight(stack, columns)
      /\ \A i \in DOMAIN stack : /\ InCloseFrame(stack[i], columns)
                                 /\ RuledOutRight(stack[i], columns, add_empty_extent)
  BY DEF InCloseState
<1>2. stack # <<>> /\ f = stack[n] /\ f.j < NAttr
  BY DEF InCl!Running, InCl!Top
<1>3. n \in DOMAIN stack /\ f \in InCloseCalls
  BY <1>1, <1>2, LenProperties, ElementOfSeq
<1> HIDE DEF f, n
<1>4. /\ InCloseFrame(f, columns)
      /\ RuledOutRight(f, columns, add_empty_extent)
      /\ f.r \in DOMAIN columns /\ f.g \in GradesSet(I)
  BY <1>1, <1>2, <1>3 DEF InCloseFrame
<1>5. f.j \in Attributes
  BY <1>2, <1>3, InCloseFields, NAttrAssumption DEF Attributes
<1>6. columns[f.r] \in Columns
  BY <1>1, <1>4, LenProperties, ElementOfSeq
<1>7. E \in ObjectSets /\ V \in AttrSets
  BY <1>6 DEF Columns
<1>8. IsConcept(E, B) /\ E # NoObject /\ Leq(V, B)
  BY <1>1, <1>4 DEF ColumnsRight
<1>9. B \in AttrSets
  BY <1>8 DEF IsConcept
<1>10. V[f.j] = B[f.j] \/ f.g <= B[f.j]
  BY <1>2, <1>4 DEF InCloseFrame
<1>11. \A c \in Attributes : c < f.j => V[c] = B[c]
  <2>1. <<f.r, f.j>> \in Incomplete(stack)
    BY <1>2, <1>3 DEF Incomplete
  <2>2. \A u \in Incomplete(stack) : \A c \in Attributes :
          c < u[2] => columns[u[1]].intent[c] = Final(columns, u[1])[c]
    BY <1>1 DEF ColumnsRight
  <2>3. \A c \in Attributes :
          c < <<f.r, f.j>>[2] =>
            columns[<<f.r, f.j>>[1]].intent[c] = Final(columns, <<f.r, f.j>>[1])[c]
    BY <2>1, <2>2
  <2> QED BY <2>3
<1>12. f.g \in Grades
  BY <1>3, InCloseFields
<1>13. InCl!Narrow(f) = Part(E, f.j, f.g)
  BY <1>5, <1>7, <1>12, InCloseNames
<1> QED BY <1>1, <1>2, <1>3, <1>4, <1>5, <1>7, <1>8, <1>9, <1>10, <1>11, <1>13 DEF f, n

\* The increments of the loops.
LEMMA InCloseNext ==
  ASSUME I \in Contexts, NEW f \in InCloseCalls, f.j \in Attributes,
         NEW g \in GradesSet(I)
  PROVE  LET n == InCl!NextGradeAfter(f, g)
             a == After(f.j, g)
         IN  /\ n \in InCloseCalls
             /\ n.r = f.r /\ n.y = f.y /\ n.P = f.P /\ n.G = f.G /\ n.children = f.children
             /\ n.j = a[1] /\ n.g = a[2]
             /\ g = K => InCl!NextAttribute(f) = n
<1> DEFINE n == InCl!NextGradeAfter(f, g)
           a == After(f.j, g)
<1>1. /\ a[1] \in {f.j, f.j + 1} /\ a[2] \in GradesSet(I)
  <2>1. g < K => NextGrade(I, g) \in GradesSet(I)
    BY GradeSteps
  <2>2. 0 \in GradesSet(I)
    BY GradeSteps
  <2> QED BY <2>1, <2>2 DEF After
<1>2. n = [f EXCEPT !.j = a[1], !.g = a[2]]
  <2>1. InCl!Min({h \in InCl!GradesSet(I) : h > g}) = NextGrade(I, g)
    BY InCloseNames DEF NextGrade
  <2>2. CASE g < K
    <3>1. a[1] = f.j /\ a[2] = NextGrade(I, g)
      BY <2>2 DEF After
    <3>2. n = [f EXCEPT !.g = NextGrade(I, g)]
      BY <2>1, <2>2 DEF InCl!NextGradeAfter
    <3> HIDE DEF n, a
    <3> QED BY <3>1, <3>2 DEF InCloseCalls
  <2>3. CASE ~(g < K)
    <3>1. a[1] = f.j + 1 /\ a[2] = 0
      BY <2>3 DEF After
    <3>2. n = [f EXCEPT !.j = @ + 1, !.g = 0]
      BY <2>3 DEF InCl!NextGradeAfter, InCl!NextAttribute
    <3> QED BY <3>1, <3>2 DEF InCloseCalls
  <2> QED BY <2>2, <2>3
<1>3. /\ n.r = f.r /\ n.y = f.y /\ n.P = f.P /\ n.G = f.G /\ n.children = f.children
      /\ n.j = a[1] /\ n.g = a[2]
  <2> HIDE DEF n, a
  <2> QED BY <1>2 DEF InCloseCalls
<1>4. a[1] \in 0 .. NAttr /\ a[2] \in Grades
  BY <1>1, GradeSteps, NAttrAssumption DEF Attributes
<1>5. n \in InCloseCalls
  <2> HIDE DEF n, a
  <2> QED BY <1>2, <1>4 DEF InCloseCalls
<1>6. g = K => InCl!NextAttribute(f) = n
  <2>1. g = K => ~(g < K)
    BY KAssumption
  <2> QED BY <2>1 DEF InCl!NextGradeAfter
<1> QED BY <1>1, <1>3, <1>5, <1>6

\* What a step at one pair asks for, after which the loops go on above h.
Stepped(f, h, top, cols, dols, added, badded) ==
  LET B == Final(cols, top.r)
      V == dols[top.r].intent
  IN  /\ f \in InCloseCalls
      /\ f.r = top.r /\ f.y = top.y /\ f.children = top.children /\ f.j = top.j
      /\ h \in GradesSet(I) /\ top.g <= h
      /\ dols \in Seq(Columns) /\ DOMAIN dols = DOMAIN cols
      /\ \A i \in DOMAIN cols : dols[i].extent = cols[i].extent
      /\ \A i \in DOMAIN cols : i # top.r => dols[i] = cols[i]
      /\ Leq(V, B)
      /\ \A c \in Attributes : c < top.j => V[c] = B[c]
      /\ V[top.j] = B[top.j] \/ h < B[top.j]
      /\ badded \in BOOLEAN /\ (added => badded)
      /\ badded => down(FullSet) = NoObject
      /\ RuledOutRight(f, cols, badded)
      /\ DepartingAt(ToFind, B, top.j, top.g, h) \subseteq Exceptions(badded)

\* InClose: the last call moves on after the degree h.
LEMMA InCloseStep ==
  ASSUME I \in Contexts, InCloseState(stack, columns, add_empty_extent), InCl!Running,
         NEW f, NEW h, NEW dols, NEW badded,
         Stepped(f, h, InCl!Top, columns, dols, add_empty_extent, badded)
  PROVE  LET t == [stack EXCEPT ![Len(stack)] = InCl!NextGradeAfter(f, h)]
         IN  /\ InCloseState(t, dols, badded)
             /\ OneMore(ListedSoFar(stack, columns), ListedSoFar(t, dols))
<1> DEFINE top == InCl!Top
           B == Final(columns, top.r)
           V == dols[top.r].intent
           n == InCl!NextGradeAfter(f, h)
           a == After(f.j, h)
<1>1. /\ stack # <<>> /\ top = stack[Len(stack)] /\ top \in InCloseCalls
      /\ top.r \in DOMAIN columns /\ columns \in Seq(Columns)
      /\ top.j \in Attributes /\ top.j < NAttr /\ top.g \in GradesSet(I)
      /\ B \in AttrSets
  BY InCloseTop
<1>2. /\ f \in InCloseCalls
      /\ f.r = top.r /\ f.y = top.y /\ f.children = top.children /\ f.j = top.j
      /\ h \in GradesSet(I) /\ top.g <= h
      /\ dols \in Seq(Columns) /\ DOMAIN dols = DOMAIN columns
      /\ \A i \in DOMAIN columns : dols[i].extent = columns[i].extent
      /\ \A i \in DOMAIN columns : i # top.r => dols[i] = columns[i]
  BY DEF Stepped
<1>3. /\ Leq(V, B)
      /\ \A c \in Attributes : c < top.j => V[c] = B[c]
      /\ V[top.j] = B[top.j] \/ h < B[top.j]
      /\ badded \in BOOLEAN /\ (add_empty_extent => badded)
      /\ badded => down(FullSet) = NoObject
      /\ RuledOutRight(f, columns, badded)
      /\ DepartingAt(ToFind, B, top.j, top.g, h) \subseteq Exceptions(badded)
  BY DEF Stepped
<1>4. /\ n \in InCloseCalls
      /\ n.r = f.r /\ n.y = f.y /\ n.P = f.P /\ n.G = f.G /\ n.children = f.children
      /\ n.j = a[1] /\ n.g = a[2]
  BY <1>1, <1>2, InCloseNext
<1>5. LET b == After(top.j, h)
      IN  /\ LoopRegion(ToFind, B, top.j, top.g)
                  = DepartingAt(ToFind, B, top.j, top.g, h) \cup LoopRegion(ToFind, B, b[1], b[2])
          /\ b[1] \in {top.j, top.j + 1}
          /\ b[2] \in GradesSet(I)
          /\ b[1] = top.j => h < b[2] /\ \A e \in GradesSet(I) : h < e => b[2] <= e
          /\ b[1] = top.j + 1 => h = K
  <2>1. GradedFamily(ToFind)
    BY FoundTypes DEF GradedFamily
  <2> HIDE DEF top, B
  <2> QED BY <1>1, <1>2, <2>1, LoopAdvances, SMTT(60)
<1>6. /\ LoopRegion(ToFind, B, top.j, top.g)
             = DepartingAt(ToFind, B, top.j, top.g, h) \cup LoopRegion(ToFind, B, n.j, n.g)
      /\ n.j \in {top.j, top.j + 1}
      /\ n.g \in GradesSet(I)
      /\ n.j = top.j => \A e \in GradesSet(I) : h < e => n.g <= e
      /\ n.j = top.j + 1 => h = K
  BY <1>2, <1>4, <1>5
<1> HIDE DEF n, a, V, B, top
<1>7. B \in ToFind /\ \A c \in Attributes : B[c] \in GradesSet(I) /\ B[c] \in 0 .. K
  <2>1. IsConcept(columns[top.r].extent, B)
    BY InCloseTop DEF B, top
  <2>2. B \in ToFind /\ Graded(I, B)
    BY <2>1, FoundTypes
  <2> QED BY <1>1, <2>2, SetValues DEF Graded, Grades
<1>8. \A c \in Attributes : c < n.j => V[c] = B[c]
  <2> SUFFICES ASSUME NEW c \in Attributes, c < n.j PROVE V[c] = B[c]
    OBVIOUS
  <2>1. CASE c < top.j
    BY <1>3, <2>1
  <2>2. CASE ~(c < top.j)
    <3>1. c = top.j /\ n.j = top.j + 1
      BY <1>1, <1>6, <2>2 DEF Attributes
    <3>2. ~(h < B[top.j])
      BY <1>1, <1>6, <1>7, <3>1, KAssumption
    <3> QED BY <1>3, <3>1, <3>2
  <2> QED BY <2>1, <2>2
<1>9. n.j < NAttr => V[n.j] = B[n.j] \/ n.g <= B[n.j]
  <2>1. CASE n.j = top.j
    BY <1>1, <1>3, <1>6, <1>7, <2>1
  <2>2. CASE n.j = top.j + 1
    <3>1. n.g = 0
      BY <1>1, <1>2, <1>4, <2>2 DEF After, Attributes, a
    <3>2. n.j < NAttr => n.j \in Attributes
      BY <1>1, <2>2, NAttrAssumption DEF Attributes
    <3>3. n.j < NAttr => 0 <= B[n.j]
      BY <1>7, <3>2, KAssumption
    <3> QED BY <3>1, <3>3
  <2> QED BY <1>6, <2>1, <2>2
<1>10. top.j <= n.j
  BY <1>1, <1>6 DEF Attributes
<1>11. RuledOutRight(n, dols, badded)
  <2>1. Final(dols, f.r) = Final(columns, f.r) /\ dols[f.r].extent = columns[f.r].extent
    BY <1>1, <1>2 DEF Final
  <2>2. n.r = f.r /\ n.y = f.y /\ n.P = f.P /\ n.G = f.G
    BY <1>4
  <2> SUFFICES ASSUME NEW j \in Attributes, NEW e \in GradesSet(I),
                      NEW C, C = Part(columns[f.r].extent, j, e)
               PROVE  /\ 0 < f.P[j] /\ f.P[j] <= e =>
                           \/ badded /\ C = NoObject
                           \/ \E k \in Attributes :
                                k <= f.y /\ k < j /\ up(C)[k] > Final(columns, f.r)[k]
                      /\ <<j, e>> \notin f.G => up(C)[j] > e
    BY <2>1, <2>2 DEF RuledOutRight
  <2> QED BY <1>3 DEF RuledOutRight
<1>12. Moved(n, stack[Len(stack)], columns, dols, add_empty_extent, badded)
  <2>1. /\ n.r = top.r /\ n.y = top.y /\ n.children = top.children
    BY <1>2, <1>4
  <2>2. /\ LoopRegion(ToFind, B, n.j, n.g) \subseteq LoopRegion(ToFind, B, top.j, top.g)
        /\ LoopRegion(ToFind, B, top.j, top.g)
             \subseteq LoopRegion(ToFind, B, n.j, n.g) \cup Exceptions(badded)
    BY <1>3, <1>6
  <2> SUFFICES Moved(n, top, columns, dols, add_empty_extent, badded)
    BY <1>1
  <2> QED BY <1>2, <1>3, <1>4, <1>6, <1>8, <1>9, <1>10, <1>11, <2>1, <2>2 DEF Moved, B, V
<1> QED
  <2>1. stack[Len(stack)].j < NAttr
    BY <1>1
  <2>2. LET t == [stack EXCEPT ![Len(stack)] = n]
        IN  /\ InCloseState(t, dols, badded)
            /\ OneMore(ListedSoFar(stack, columns), ListedSoFar(t, dols))
    BY <1>1, <1>12, <2>1, InCloseMoves
  <2> QED BY <2>2 DEF n

\* What a step of InClose keeps.
InCloseKept ==
  /\ InCloseState(stack', columns', add_empty_extent')
  /\ OneMore(ListedSoFar(stack, columns), ListedSoFar(stack', columns'))

\* A step that changes no column.
LEMMA InCloseStays ==
  ASSUME I \in Contexts, InCloseState(stack, columns, add_empty_extent), InCl!Running,
         NEW f \in InCloseCalls,
         f.r = InCl!Top.r, f.y = InCl!Top.y, f.j = InCl!Top.j,
         f.children = InCl!Top.children,
         NEW h \in GradesSet(I), InCl!Top.g <= h,
         NEW badded \in BOOLEAN, add_empty_extent => badded,
         badded => down(FullSet) = NoObject,
         RuledOutRight(f, columns, badded),
         LET B == Final(columns, f.r)
         IN  /\ columns[f.r].intent[f.j] = B[f.j] \/ h < B[f.j]
             /\ DepartingAt(ToFind, B, f.j, InCl!Top.g, h) \subseteq Exceptions(badded),
         stack' = [stack EXCEPT ![Len(stack)] = InCl!NextGradeAfter(f, h)],
         columns' = columns, add_empty_extent' = badded
  PROVE  InCloseKept
<1>1. /\ columns \in Seq(Columns)
      /\ Leq(columns[f.r].intent, Final(columns, f.r))
      /\ \A c \in Attributes : c < f.j => columns[f.r].intent[c] = Final(columns, f.r)[c]
  BY InCloseTop
<1>2. Stepped(f, h, InCl!Top, columns, columns, add_empty_extent, badded)
  <2> HIDE DEF Exceptions
  <2> QED BY <1>1 DEF Stepped
<1>3. LET t == [stack EXCEPT ![Len(stack)] = InCl!NextGradeAfter(f, h)]
      IN  /\ InCloseState(t, columns, badded)
          /\ OneMore(ListedSoFar(stack, columns), ListedSoFar(t, columns))
  BY <1>2, InCloseStep
<1> QED BY <1>3 DEF InCloseKept

\* InClose: a degree whose flag is down, or that the intent has, is passed by.
LEMMA InCloseSkipGrade ==
  ASSUME I \in Contexts, InCloseState(stack, columns, add_empty_extent), InCl!SkipGrade
  PROVE  InCloseKept
<1> DEFINE f == InCl!Top
           E == columns[f.r].extent
           B == Final(columns, f.r)
           V == columns[f.r].intent
           D == up(Part(E, f.j, f.g))
<1>1. /\ InCl!Running
      /\ ~InCl!Up(f) \/ InCl!Covered(f)
      /\ stack' = [stack EXCEPT ![Len(stack)] = InCl!NextGradeAfter(f, f.g)]
      /\ columns' = columns /\ add_empty_extent' = add_empty_extent
  BY DEF InCl!SkipGrade, InCl!ReplaceTop
<1>2. /\ f \in InCloseCalls /\ RuledOutRight(f, columns, add_empty_extent)
      /\ f.j \in Attributes /\ f.g \in GradesSet(I)
      /\ E \in ObjectSets /\ IsConcept(E, B)
      /\ B \in AttrSets /\ V \in AttrSets /\ Leq(V, B)
      /\ V[f.j] = B[f.j] \/ f.g <= B[f.j]
  BY <1>1, InCloseTop
<1>3. /\ f.g \in Grades /\ f.g \in Int /\ V[f.j] \in Int /\ B[f.j] \in Int /\ V[f.j] <= B[f.j]
      /\ f.g <= f.g
  BY <1>2, InCloseFields, SetValues DEF Grades, Leq
<1>4. f.g <= B[f.j] \/ f.g < D[f.j]
  <2>1. CASE InCl!Covered(f)
    <3>1. V[f.j] >= f.g
      BY <2>1 DEF InCl!Covered
    <3> QED BY <1>3, <3>1
  <2>2. CASE ~InCl!Up(f)
    <3>1. <<f.j, f.g>> \notin f.G
      BY <2>2 DEF InCl!Up
    <3>2. D[f.j] > f.g
      BY <1>2, <3>1 DEF RuledOutRight
    <3>3. D[f.j] \in Int
      BY <1>2, <1>3, PartValues, UpDown, SetValues
    <3> QED BY <1>3, <3>2, <3>3
  <2> QED BY <1>1, <2>1, <2>2
<1> HIDE DEF f, V, B, E, D
<1>5. V[f.j] = B[f.j] \/ f.g < B[f.j]
  <2>1. CASE InCl!Covered(f)
    <3>1. V[f.j] >= f.g
      BY <2>1 DEF InCl!Covered, V
    <3> QED BY <1>3, <3>1
  <2>2. CASE ~InCl!Up(f)
    <3>1. <<f.j, f.g>> \notin f.G
      BY <2>2 DEF InCl!Up
    <3>2. D[f.j] > f.g
      BY <1>2, <3>1 DEF RuledOutRight, D, E
    <3>3. f.g <= B[f.j] => D = B
      BY <1>2, <1>3, PartConcept DEF D
    <3> QED BY <1>2, <1>3, <3>2, <3>3
  <2> QED BY <1>1, <2>1, <2>2
<1>6. DepartingAt(ToFind, B, f.j, f.g, f.g) = {}
  BY <1>2, <1>4, LeftBehind DEF D
<1>7. add_empty_extent \in BOOLEAN /\ (add_empty_extent => down(FullSet) = NoObject)
  BY DEF InCloseState
<1> QED BY <1>1, <1>2, <1>3, <1>5, <1>6, <1>7, InCloseStays DEF f, B, V

\* InClose: an attribute that is ruled out is passed by.
LEMMA InCloseSkipAttribute ==
  ASSUME I \in Contexts, InCloseState(stack, columns, add_empty_extent), InCl!SkipAttribute
  PROVE  InCloseKept
<1> DEFINE f == InCl!Top
           E == columns[f.r].extent
           B == Final(columns, f.r)
           V == columns[f.r].intent
           C == Part(E, f.j, f.g)
           D == up(C)
<1>1. /\ InCl!Running /\ InCl!RuledOut(f)
      /\ stack' = [stack EXCEPT ![Len(stack)] = InCl!NextAttribute(f)]
      /\ columns' = columns /\ add_empty_extent' = add_empty_extent
  BY DEF InCl!SkipAttribute, InCl!ReplaceTop
<1>2. /\ f \in InCloseCalls /\ RuledOutRight(f, columns, add_empty_extent)
      /\ f.j \in Attributes /\ f.g \in GradesSet(I)
      /\ E \in ObjectSets /\ E # NoObject /\ IsConcept(E, B)
      /\ B \in AttrSets
      /\ V[f.j] = B[f.j] \/ f.g <= B[f.j]
  BY <1>1, InCloseTop
<1>3. f.g \in Grades /\ f.g <= K /\ K \in GradesSet(I)
  <2>1. f.g \in Grades /\ K \in GradesSet(I)
    BY <1>2, InCloseFields, FoundTypes
  <2> QED BY <2>1, KAssumption DEF Grades
<1>4. \/ add_empty_extent /\ C = NoObject
      \/ \E k \in Attributes : k < f.j /\ D[k] > B[k]
  <2>1. 0 < f.P[f.j] /\ f.P[f.j] <= f.g
    BY <1>1 DEF InCl!RuledOut
  <2> QED BY <1>2, <2>1 DEF RuledOutRight
<1> HIDE DEF f, V, B, E, D, C
<1>5. C = E \/ D = B => C = E /\ D = B
  BY <1>2, <1>3, PartConcept DEF C, D
<1>6. \A k \in Attributes : B[k] \in Int
  BY <1>2, SetValues
<1>7. V[f.j] = B[f.j]
  <2>1. ASSUME f.g <= B[f.j] PROVE FALSE
    <3>1. C = E /\ D = B
      BY <1>2, <1>3, <2>1, PartConcept DEF C, D
    <3> QED BY <1>2, <1>4, <1>6, <3>1
  <2> QED BY <1>2, <2>1
<1>8. DepartingAt(ToFind, B, f.j, f.g, K) \subseteq Exceptions(add_empty_extent)
  <2>1. CASE add_empty_extent /\ C = NoObject
    <3>1. DepartingAt(ToFind, B, f.j, f.g, K) \subseteq WithoutObjects
      BY <1>2, <1>3, <2>1, LeftBehind DEF C
    <3> QED BY <2>1, <3>1 DEF Exceptions
  <2>2. CASE \E k \in Attributes : k < f.j /\ D[k] > B[k]
    <3>1. \E k \in Attributes : k < f.j /\ B[k] < up(Part(E, f.j, f.g))[k]
      <4>1. D \in AttrSets
        BY <1>2, <1>3, PartValues, UpDown DEF C, D
      <4>2. \A k \in Attributes : D[k] \in Int
        BY <4>1, SetValues
      <4> QED BY <1>6, <2>2, <4>2 DEF D, C
    <3>2. DepartingAt(ToFind, B, f.j, f.g, K) = {}
      BY <1>2, <1>3, <3>1, LeftBehind
    <3> QED BY <3>2
  <2> QED BY <1>4, <2>1, <2>2
<1>9. add_empty_extent \in BOOLEAN /\ (add_empty_extent => down(FullSet) = NoObject)
  BY DEF InCloseState
<1>10. stack' = [stack EXCEPT ![Len(stack)] = InCl!NextGradeAfter(f, K)]
  <2>1. InCl!NextAttribute(f) = InCl!NextGradeAfter(f, K)
    BY <1>2, <1>3, InCloseNext
  <2> QED BY <1>1, <2>1
<1> HIDE DEF Exceptions
<1> QED BY <1>1, <1>2, <1>3, <1>7, <1>8, <1>9, <1>10, InCloseStays DEF f, B, V

\* What a test at one pair knows: C is the extent tried, D its intent.
LEMMA InCloseTested ==
  ASSUME I \in Contexts, InCloseState(stack, columns, add_empty_extent), InCl!Testing
  PROVE  LET f == InCl!Top
             E == columns[f.r].extent
             B == Final(columns, f.r)
             V == columns[f.r].intent
             C == Part(E, f.j, f.g)
             D == up(C)
         IN  /\ InCl!Running
             /\ InCl!Narrow(f) = C /\ InCl!Degree(C, f.j) = D[f.j]
             /\ IsConcept(C, D) /\ C \in ObjectSets /\ D \in AttrSets
             /\ D[f.j] \in GradesSet(I) /\ D[f.j] \in Grades /\ f.g <= D[f.j]
             /\ ~(0 < f.P[f.j] /\ f.P[f.j] <= f.g)
             /\ f.g \in Grades /\ f.P[f.j] \in Grades /\ 0 < f.g
             /\ C = E => D = B
             /\ C # E => V[f.j] = B[f.j] /\ B[f.j] < f.g
             /\ Below(C, E) /\ Leq(B, D)
<1> DEFINE f == InCl!Top
           E == columns[f.r].extent
           B == Final(columns, f.r)
           V == columns[f.r].intent
           C == Part(E, f.j, f.g)
           D == up(C)
<1>1. InCl!Running /\ ~InCl!RuledOut(f) /\ ~InCl!Covered(f)
  BY DEF InCl!Testing
<1>2. /\ f \in InCloseCalls
      /\ f.j \in Attributes /\ f.g \in GradesSet(I)
      /\ E \in ObjectSets /\ E # NoObject /\ IsConcept(E, B)
      /\ B \in AttrSets /\ V \in AttrSets
      /\ V[f.j] = B[f.j] \/ f.g <= B[f.j]
      /\ InCl!Narrow(f) = C
  BY <1>1, InCloseTop
<1>3. f.g \in Grades /\ f.P[f.j] \in Grades
  <2>1. f.g \in Grades /\ f.P \in AttrSets
    BY <1>2, InCloseFields
  <2> QED BY <1>2, <2>1, SetValues
<1>4. /\ ~(0 < f.P[f.j] /\ f.P[f.j] <= f.g)
      /\ V[f.j] < f.g
  <2>1. ~(V[f.j] >= f.g) /\ V[f.j] \in Int
    BY <1>1, <1>2, SetValues DEF InCl!Covered
  <2>2. ~(0 < f.P[f.j] /\ f.P[f.j] <= f.g)
    BY <1>1 DEF InCl!RuledOut
  <2> QED BY <1>3, <2>1, <2>2 DEF Grades
<1>5. InCl!Degree(C, f.j) = D[f.j]
  BY <1>2, InCloseNames
<1> HIDE DEF f, V, B, E
<1>6. /\ IsConcept(C, D) /\ Leq(B, D) /\ f.g <= D[f.j]
      /\ f.g <= B[f.j] => C = E /\ D = B
      /\ C = E <=> D = B
  BY <1>2, <1>3, PartConcept
<1>7. C \in ObjectSets /\ D \in AttrSets /\ Below(C, E)
  BY <1>2, <1>3, <1>6, PartValues DEF IsConcept
<1>8. D[f.j] \in GradesSet(I) /\ D[f.j] \in Grades
  <2>1. Graded(I, D)
    BY <1>7, IntentsGraded
  <2> QED BY <1>2, <1>7, <2>1, SetValues DEF Graded
<1>9. 0 < f.g /\ (C # E => V[f.j] = B[f.j] /\ B[f.j] < f.g)
  <2>1. V[f.j] \in Grades /\ B[f.j] \in Grades
    BY <1>2, SetValues
  <2> QED BY <1>2, <1>3, <1>4, <1>6, <2>1 DEF Grades
<1> QED BY <1>1, <1>2, <1>3, <1>4, <1>5, <1>6, <1>7, <1>8, <1>9 DEF f, V, B, E

\* The flags between the degree tried and the degree found may be lowered.
LEMMA InCloseLowered ==
  ASSUME I \in Contexts, InCloseState(stack, columns, add_empty_extent), InCl!Testing
  PROVE  LET f == InCl!Top
             D == up(Part(columns[f.r].extent, f.j, f.g))
             m == InCl!MoveTo(f, D[f.j])
         IN  /\ m \in InCloseCalls
             /\ m.r = f.r /\ m.y = f.y /\ m.P = f.P /\ m.j = f.j /\ m.children = f.children
             /\ m.g = D[f.j]
             /\ RuledOutRight(m, columns, add_empty_extent)
<1> DEFINE f == InCl!Top
           E == columns[f.r].extent
           B == Final(columns, f.r)
           D == up(Part(E, f.j, f.g))
           m == InCl!MoveTo(f, D[f.j])
           Q == f.G \ {<<f.j, h>> : h \in f.g .. D[f.j] - 1}
<1>1. /\ f \in InCloseCalls /\ RuledOutRight(f, columns, add_empty_extent)
      /\ f.j \in Attributes /\ E \in ObjectSets
  BY InCloseTop DEF InCl!Testing
<1>2. D[f.j] \in Grades /\ f.g \in Grades /\ D \in AttrSets
  BY InCloseTested
<1>3. m = [f EXCEPT !.g = D[f.j], !.G = Q]
  BY DEF InCl!MoveTo
<1>4. Q \in SUBSET (Attributes \X Grades)
  BY <1>1, InCloseFields
<1> HIDE DEF f, E, B, D, m, Q
<1>5. /\ m \in InCloseCalls
      /\ m.r = f.r /\ m.y = f.y /\ m.P = f.P /\ m.j = f.j /\ m.children = f.children
      /\ m.g = D[f.j] /\ m.G = Q
  BY <1>1, <1>2, <1>3, <1>4 DEF InCloseCalls
<1>6. ASSUME NEW j \in Attributes, NEW h \in GradesSet(I), <<j, h>> \notin Q
      PROVE  up(Part(E, j, h))[j] > h
  <2>1. CASE <<j, h>> \notin f.G
    BY <1>1, <2>1 DEF RuledOutRight, E
  <2>2. CASE <<j, h>> \in f.G
    <3>1. \E e \in f.g .. D[f.j] - 1 : j = f.j /\ h = e
      BY <1>6, <2>2 DEF Q
    <3>2. j = f.j /\ h \in f.g .. D[f.j] - 1
      BY <3>1
    <3>3. f.g \in Int /\ D[f.j] \in Int /\ h \in Grades
      BY <1>2, FoundTypes DEF Grades
    <3>4. f.g <= h /\ h < D[f.j]
      BY <3>2, <3>3 DEF Grades
    <3>5. Below(Part(E, j, h), Part(E, j, f.g))
      BY <1>1, <1>2, <3>3, <3>4, PartMonotone, BelowOrder
    <3>6. Part(E, j, h) \in ObjectSets /\ Part(E, j, f.g) \in ObjectSets
      BY <1>1, <1>2, <3>3, PartValues
    <3>7. Leq(D, up(Part(E, j, h))) /\ up(Part(E, j, h)) \in AttrSets
      BY <3>2, <3>5, <3>6, UpDown DEF D
    <3>8. D[f.j] <= up(Part(E, j, h))[j]
      BY <1>1, <3>2, <3>7 DEF Leq
    <3>9. up(Part(E, j, h))[j] \in Int
      BY <3>7, SetValues
    <3> QED BY <3>3, <3>4, <3>8, <3>9 DEF Grades
  <2> QED BY <2>1, <2>2
<1>7. RuledOutRight(m, columns, add_empty_extent)
  <2>1. m.r = f.r /\ m.y = f.y /\ m.P = f.P /\ m.G = Q
    BY <1>5
  <2> SUFFICES ASSUME NEW j \in Attributes, NEW h \in GradesSet(I),
                      NEW C, C = Part(E, j, h)
               PROVE  /\ 0 < f.P[j] /\ f.P[j] <= h =>
                           \/ add_empty_extent /\ C = NoObject
                           \/ \E k \in Attributes :
                                k <= f.y /\ k < j /\ up(C)[k] > Final(columns, f.r)[k]
                      /\ <<j, h>> \notin Q => up(C)[j] > h
    BY <2>1 DEF RuledOutRight, E
  <2> QED BY <1>1, <1>6 DEF RuledOutRight, E
<1> QED BY <1>5, <1>7 DEF f, E, D, m

\* Ruling out a degree is right when it is for all the degrees above.
FailsAt(f, cols, a, j, h, p) ==
  LET C == Part(cols[f.r].extent, j, h)
  IN  /\ 0 < p /\ p <= h =>
           \/ a /\ C = NoObject
           \/ \E k \in Attributes :
                k <= f.y /\ k < j /\ up(C)[k] > Final(cols, f.r)[k]
      /\ <<j, h>> \notin f.G => up(C)[j] > h

\* What is ruled out is right when it is for every pair of the array.
LEMMA RuledWith ==
  ASSUME NEW f, NEW m, NEW cols, NEW dols, NEW a, m.r = f.r, m.y = f.y, m.G = f.G,
         dols[f.r].extent = cols[f.r].extent,
         \A j \in Attributes, h \in GradesSet(I) : FailsAt(f, cols, a, j, h, m.P[j])
  PROVE  RuledOutRight(m, dols, a)
<1> SUFFICES ASSUME NEW j \in Attributes, NEW h \in GradesSet(I)
             PROVE  FailsAt(m, dols, a, j, h, m.P[j])
  BY DEF RuledOutRight, FailsAt
<1>1. FailsAt(f, cols, a, j, h, m.P[j])
  OBVIOUS
<1> DEFINE C == Part(cols[f.r].extent, j, h)
           F == Final(cols, f.r)
           p == m.P[j]
<1>2. C = Part(dols[m.r].extent, j, h) /\ F = Final(dols, m.r)
  BY DEF Final
<1> HIDE DEF C, F, p
<1>3. /\ 0 < p /\ p <= h =>
           \/ a /\ C = NoObject
           \/ \E k \in Attributes : k <= f.y /\ k < j /\ up(C)[k] > F[k]
      /\ <<j, h>> \notin f.G => up(C)[j] > h
  BY <1>1 DEF FailsAt, C, F, p
<1>4. /\ 0 < p /\ p <= h =>
           \/ a /\ C = NoObject
           \/ \E k \in Attributes : k <= m.y /\ k < j /\ up(C)[k] > F[k]
      /\ <<j, h>> \notin m.G => up(C)[j] > h
  BY <1>3
<1> QED BY <1>2, <1>4 DEF FailsAt, p

FailsFrom(f, cols, a) ==
  \A h \in GradesSet(I) :
    f.g <= h =>
      LET C == Part(cols[f.r].extent, f.j, h)
      IN  \/ a /\ C = NoObject
          \/ \E k \in Attributes :
               k <= f.y /\ k < f.j /\ up(C)[k] > Final(cols, f.r)[k]

\* InClose: ruling out a degree that fails is right.
LEMMA InCloseRuled ==
  ASSUME I \in Contexts, NEW f \in InCloseCalls, f.j \in Attributes,
         NEW a \in BOOLEAN, RuledOutRight(f, columns, a),
         FailsFrom(f, columns, a)
  PROVE  LET m == InCl!RuleOut(f)
         IN  /\ m \in InCloseCalls
             /\ m.r = f.r /\ m.y = f.y /\ m.j = f.j /\ m.g = f.g /\ m.children = f.children
             /\ RuledOutRight(m, columns, a)
<1> DEFINE m == InCl!RuleOut(f)
           p == IF 0 < f.P[f.j] /\ f.P[f.j] <= f.g THEN f.P[f.j] ELSE f.g
<1>1. /\ f.P \in AttrSets /\ f.g \in Grades
  BY InCloseFields
<1>2. f.P[f.j] \in Grades
  BY <1>1, SetValues
<1>3. p \in Grades
  BY <1>1, <1>2
<1>4. m = [f EXCEPT !.P = [@ EXCEPT ![f.j] = p]]
  BY DEF InCl!RuleOut
<1>5. [f.P EXCEPT ![f.j] = p] \in AttrSets
  BY <1>1, <1>3 DEF AttrSets
<1> HIDE DEF m
<1>6. /\ m \in InCloseCalls
      /\ m.r = f.r /\ m.y = f.y /\ m.j = f.j /\ m.g = f.g /\ m.children = f.children
      /\ m.G = f.G /\ m.P = [f.P EXCEPT ![f.j] = p]
  <2> HIDE DEF p
  <2> QED BY <1>4, <1>5 DEF InCloseCalls
<1>7. /\ m.P[f.j] = p
      /\ \A j \in Attributes : j # f.j => m.P[j] = f.P[j]
  BY <1>1, <1>6 DEF AttrSets
<1>8. ASSUME NEW j \in Attributes, NEW h \in GradesSet(I)
      PROVE  FailsAt(f, columns, a, j, h, m.P[j])
  <2>1. FailsAt(f, columns, a, j, h, f.P[j])
    BY DEF RuledOutRight, FailsAt
  <2>2. CASE m.P[j] = f.P[j]
    BY <2>1, <2>2
  <2>3. CASE m.P[j] # f.P[j]
    <3>1. j = f.j /\ m.P[j] = f.g
      BY <1>7, <2>3
    <3>2. FailsAt(f, columns, a, j, h, f.g)
      BY <2>1, <3>1 DEF FailsFrom, FailsAt
    <3> QED BY <3>1, <3>2
  <2> QED BY <2>2, <2>3
<1>9. RuledOutRight(m, columns, a)
  BY <1>6, <1>8, RuledWith
<1> QED BY <1>6, <1>9 DEF m

\* The concept without objects.
LEMMA NoObjectConcept ==
  ASSUME I \in Contexts
  PROVE  /\ NoObject \in ObjectSets /\ up(NoObject) = FullSet
         /\ \A C \in ObjectSets : Below(C, NoObject) => C = NoObject
         /\ \A D : IsConcept(NoObject, D) => D = FullSet /\ down(FullSet) = NoObject
<1>1. NoObject \in ObjectSets
  BY KAssumption DEF NoObject, ObjectSets, Grades
<1>2. up(NoObject) = FullSet
  <2>1. up(NoObject) \in AttrSets
    BY <1>1, UpDown
  <2>2. ASSUME NEW c \in Attributes PROVE K <= up(NoObject)[c]
    <3>1. K \in Grades
      BY KAssumption DEF Grades
    <3>2. \A o \in Objects : K <= implication_Godel(NoObject[o], I[o][c])
      <4> SUFFICES ASSUME NEW o \in Objects
                   PROVE  K <= implication_Godel(NoObject[o], I[o][c])
        OBVIOUS
      <4>1. NoObject[o] = 0 /\ I[o][c] \in 0 .. K
        BY DEF NoObject, Contexts, Grades
      <4> QED BY <4>1, KAssumption DEF implication_Godel
    <3> QED BY <1>1, <3>1, <3>2, Degrees
  <2>3. \A c \in Attributes : up(NoObject)[c] = K
    BY <2>1, <2>2, SetValues, KAssumption DEF Grades
  <2> QED BY <2>1, <2>3 DEF AttrSets, FullSet
<1>3. ASSUME NEW C \in ObjectSets, Below(C, NoObject) PROVE C = NoObject
  <2>1. Below(NoObject, C)
    BY KAssumption DEF Below, NoObject, ObjectSets, Grades
  <2> QED BY <1>1, <1>3, <2>1, BelowOrder
<1>4. ASSUME NEW D, IsConcept(NoObject, D) PROVE D = FullSet /\ down(FullSet) = NoObject
  BY <1>2, <1>4 DEF IsConcept
<1> QED BY <1>1, <1>2, <1>3, <1>4

\* InClose: only the concept without objects is left behind.
LEMMA InCloseNoObjects ==
  ASSUME I \in Contexts, InCloseState(stack, columns, add_empty_extent), InCl!NoObjects
  PROVE  InCloseKept
<1> DEFINE f == InCl!Top
           E == columns[f.r].extent
           B == Final(columns, f.r)
           V == columns[f.r].intent
           C == Part(E, f.j, f.g)
           D == up(C)
           m == InCl!RuleOut(f)
<1>1. /\ InCl!Testing
      /\ InCl!Narrow(f) = InCl!EmptyExtent
      /\ stack' = [stack EXCEPT ![Len(stack)] = InCl!NextAttribute(m)]
      /\ columns' = columns /\ add_empty_extent' = TRUE
  BY DEF InCl!NoObjects, InCl!ReplaceTop
<1>2. /\ f \in InCloseCalls /\ RuledOutRight(f, columns, add_empty_extent)
      /\ InCloseFrame(f, columns)
      /\ f.j \in Attributes /\ f.g \in GradesSet(I)
      /\ E \in ObjectSets /\ E # NoObject /\ IsConcept(E, B)
  BY <1>1, InCloseTop DEF InCl!Testing
<1>3. /\ InCl!Running /\ C = NoObject /\ IsConcept(C, D) /\ f.g \in Grades
      /\ C # E => V[f.j] = B[f.j] /\ B[f.j] < f.g
  BY <1>1, InCloseTested, InCloseNames
<1>4. f.g <= K /\ K \in GradesSet(I)
  BY <1>3, FoundTypes, KAssumption DEF Grades
<1> HIDE DEF f, E, B, V, C, D, m
<1>5. down(FullSet) = NoObject
  BY <1>3, NoObjectConcept
<1>6. RuledOutRight(f, columns, TRUE)
  <2>1. SameExtents(columns, columns)
    BY DEF SameExtents
  <2>2. add_empty_extent \in BOOLEAN
    BY DEF InCloseState
  <2> QED BY <1>2, <2>1, <2>2, FrameKept
<1>7. FailsFrom(f, columns, TRUE)
  <2> SUFFICES ASSUME NEW h \in GradesSet(I), f.g <= h
               PROVE  Part(E, f.j, h) = NoObject
    BY DEF FailsFrom, E
  <2>1. h \in Grades
    BY FoundTypes
  <2>2. Below(Part(E, f.j, h), Part(E, f.j, f.g)) /\ Part(E, f.j, h) \in ObjectSets
    BY <1>2, <1>3, <2>1, PartMonotone, PartValues, BelowOrder
  <2> QED BY <1>3, <2>2, NoObjectConcept DEF C
<1>8. /\ m \in InCloseCalls
      /\ m.r = f.r /\ m.y = f.y /\ m.j = f.j /\ m.g = f.g /\ m.children = f.children
      /\ RuledOutRight(m, columns, TRUE)
  BY <1>2, <1>6, <1>7, InCloseRuled DEF m
<1>9. stack' = [stack EXCEPT ![Len(stack)] = InCl!NextGradeAfter(m, K)]
  <2>1. InCl!NextAttribute(m) = InCl!NextGradeAfter(m, K)
    BY <1>2, <1>4, <1>8, InCloseNext
  <2> QED BY <1>1, <2>1
<1>10. V[f.j] = B[f.j]
  BY <1>2, <1>3
<1>11. DepartingAt(ToFind, B, f.j, f.g, K) \subseteq Exceptions(TRUE)
  <2>1. DepartingAt(ToFind, B, f.j, f.g, K) \subseteq WithoutObjects
    BY <1>2, <1>3, <1>4, LeftBehind DEF C
  <2> QED BY <2>1 DEF Exceptions
<1> HIDE DEF Exceptions
<1>12. LET Z == Final(columns, m.r)
         IN  /\ columns[m.r].intent[m.j] = Z[m.j] \/ K < Z[m.j]
             /\ DepartingAt(ToFind, Z, m.j, InCl!Top.g, K) \subseteq Exceptions(TRUE)
  BY <1>8, <1>10, <1>11 DEF f, B, V
<1>13. /\ m.r = InCl!Top.r /\ m.y = InCl!Top.y /\ m.j = InCl!Top.j
       /\ m.children = InCl!Top.children /\ InCl!Top.g <= K
  BY <1>4, <1>8 DEF f
<1> QED BY <1>1, <1>3, <1>4, <1>5, <1>8, <1>9, <1>12, <1>13, InCloseStays

\* InClose: an extent that adds an earlier attribute is found elsewhere.
LEMMA InCloseReject ==
  ASSUME I \in Contexts, InCloseState(stack, columns, add_empty_extent), InCl!Reject
  PROVE  InCloseKept
<1> DEFINE f == InCl!Top
           E == columns[f.r].extent
           B == Final(columns, f.r)
           V == columns[f.r].intent
           C == Part(E, f.j, f.g)
           D == up(C)
           m == InCl!MoveTo(f, D[f.j])
           w == IF InCl!Min(InCl!Additions(m, C)) <= m.y THEN InCl!RuleOut(m) ELSE m
<1>1. InCl!Testing
  BY DEF InCl!Reject
<1>2. /\ f \in InCloseCalls
      /\ f.j \in Attributes /\ f.g \in GradesSet(I)
      /\ E \in ObjectSets /\ IsConcept(E, B)
      /\ B \in AttrSets /\ V \in AttrSets
      /\ \A c \in Attributes : c < f.j => V[c] = B[c]
  BY <1>1, InCloseTop DEF InCl!Testing
<1>3. /\ InCl!Running /\ InCl!Narrow(f) = C /\ InCl!Degree(C, f.j) = D[f.j]
      /\ IsConcept(C, D) /\ C \in ObjectSets /\ D \in AttrSets
      /\ D[f.j] \in GradesSet(I) /\ f.g <= D[f.j] /\ f.g \in Grades
      /\ C # E => V[f.j] = B[f.j] /\ B[f.j] < f.g
  BY <1>1, InCloseTested
<1>5. /\ m \in InCloseCalls
      /\ m.r = f.r /\ m.y = f.y /\ m.P = f.P /\ m.j = f.j /\ m.children = f.children
      /\ m.g = D[f.j]
      /\ RuledOutRight(m, columns, add_empty_extent)
  BY <1>1, InCloseLowered
<1>4. /\ C # E /\ InCl!Additions(m, C) # {}
      /\ stack' = [stack EXCEPT ![Len(stack)] = InCl!NextGradeAfter(w, m.g)]
      /\ columns' = columns /\ add_empty_extent' = add_empty_extent
  <2> DEFINE c == InCl!Narrow(f)
             n == InCl!MoveTo(f, InCl!Degree(c, f.j))
  <2>1. /\ c # columns[n.r].extent /\ InCl!Additions(n, c) # {}
        /\ stack' = InCl!ReplaceTop(InCl!NextGradeAfter(
              IF InCl!Min(InCl!Additions(n, c)) <= n.y THEN InCl!RuleOut(n) ELSE n, n.g))
        /\ columns' = columns /\ add_empty_extent' = add_empty_extent
    BY Zenon DEF InCl!Reject
  <2>2. c = C /\ n = m
    BY <1>3
  <2> HIDE DEF c, n, C, m
  <2> QED BY <1>5, <2>1, <2>2 DEF InCl!ReplaceTop
<1>6. InCl!Additions(m, C) = {k \in Attributes : k < m.j /\ D[k] > columns[m.r].intent[k]}
  BY InCloseNames DEF InCl!Additions
<1>7. InCl!Min(InCl!Additions(m, C)) = Min(InCl!Additions(m, C))
  BY InCloseNames
<1> DEFINE k == Min(InCl!Additions(m, C))
<1>8. w = IF k <= m.y THEN InCl!RuleOut(m) ELSE m
  BY <1>7
<1> HIDE DEF f, E, B, V, C, D, m, w
<1>9. k \in InCl!Additions(m, C)
  <2>1. InCl!Additions(m, C) \subseteq Nat
    BY <1>6 DEF Attributes
  <2> QED BY <1>4, <2>1, NatMin
<1> HIDE DEF k
<1>10. k \in Attributes /\ k < f.j /\ D[k] > B[k]
  BY <1>2, <1>5, <1>6, <1>9 DEF V
<1>11. B[k] < D[k]
  BY <1>2, <1>3, <1>10, SetValues
<1>12. \A h \in GradesSet(I) : DepartingAt(ToFind, B, f.j, f.g, h) = {}
  BY <1>2, <1>10, <1>11, LeftBehind DEF C, D
<1>13. FailsFrom(m, columns, add_empty_extent) \/ ~(k <= m.y)
  <2> SUFFICES ASSUME k <= m.y, NEW h \in GradesSet(I), m.g <= h
               PROVE  up(Part(E, m.j, h))[k] > Final(columns, m.r)[k]
    BY <1>5, <1>10 DEF FailsFrom, E
  <2>1. h \in Grades /\ m.g \in Grades
    BY <1>3, <1>5, FoundTypes
  <2>2. f.g <= h
    BY <1>3, <1>5, <2>1 DEF Grades
  <2>3. Below(Part(E, f.j, h), C) /\ Part(E, f.j, h) \in ObjectSets
    BY <1>2, <1>3, <2>1, <2>2, PartMonotone, PartValues, BelowOrder DEF C
  <2>4. Leq(D, up(Part(E, f.j, h))) /\ up(Part(E, f.j, h)) \in AttrSets
    BY <1>3, <2>3, UpDown DEF D
  <2>5. D[k] <= up(Part(E, f.j, h))[k]
    BY <1>10, <2>4 DEF Leq
  <2>6. D[k] \in Int /\ B[k] \in Int /\ up(Part(E, f.j, h))[k] \in Int
    BY <1>2, <1>3, <1>10, <2>4, SetValues
  <2>7. up(Part(E, f.j, h))[k] > B[k]
    BY <1>11, <2>5, <2>6
  <2> QED BY <1>5, <2>7 DEF B
<1>14. add_empty_extent \in BOOLEAN /\ (add_empty_extent => down(FullSet) = NoObject)
  BY DEF InCloseState
<1>15. /\ w \in InCloseCalls
       /\ w.r = m.r /\ w.y = m.y /\ w.j = m.j /\ w.g = m.g /\ w.children = m.children
       /\ RuledOutRight(w, columns, add_empty_extent)
  <2>1. CASE k <= m.y
    BY <1>2, <1>5, <1>8, <1>13, <1>14, <2>1, InCloseRuled
  <2>2. CASE ~(k <= m.y)
    BY <1>5, <1>8, <2>2
  <2> QED BY <2>1, <2>2
<1>16. LET Z == Final(columns, w.r)
         IN  /\ columns[w.r].intent[w.j] = Z[w.j] \/ m.g < Z[w.j]
             /\ DepartingAt(ToFind, Z, w.j, InCl!Top.g, m.g) \subseteq Exceptions(add_empty_extent)
  <2> HIDE DEF Exceptions
  <2> QED BY <1>3, <1>4, <1>5, <1>12, <1>15 DEF f, B, V
<1>17. /\ w.r = InCl!Top.r /\ w.y = InCl!Top.y /\ w.j = InCl!Top.j
       /\ w.children = InCl!Top.children /\ InCl!Top.g <= m.g /\ m.g \in GradesSet(I)
  BY <1>3, <1>5, <1>15 DEF f
<1> HIDE DEF Exceptions
<1> QED BY <1>3, <1>4, <1>14, <1>15, <1>16, <1>17, InCloseStays

\* All the objects of the column have the attribute: its intent grows.
LEMMA InCloseAddToParent ==
  ASSUME I \in Contexts, InCloseState(stack, columns, add_empty_extent), InCl!AddToParent
  PROVE  InCloseKept
<1> DEFINE f == InCl!Top
           E == columns[f.r].extent
           B == Final(columns, f.r)
           V == columns[f.r].intent
           C == Part(E, f.j, f.g)
           D == up(C)
           m == InCl!MoveTo(f, D[f.j])
           W == [V EXCEPT ![f.j] = D[f.j]]
           e == [columns[f.r] EXCEPT !.intent = W]
           dols == [columns EXCEPT ![f.r] = e]
<1>1. InCl!Testing
  BY DEF InCl!AddToParent
<1>2. /\ f \in InCloseCalls /\ f.r \in DOMAIN columns /\ columns \in Seq(Columns)
      /\ f.j \in Attributes /\ f.g \in GradesSet(I)
      /\ E \in ObjectSets /\ IsConcept(E, B)
      /\ B \in AttrSets /\ V \in AttrSets /\ Leq(V, B)
      /\ \A c \in Attributes : c < f.j => V[c] = B[c]
  BY <1>1, InCloseTop DEF InCl!Testing
<1>3. /\ InCl!Running /\ InCl!Narrow(f) = C /\ InCl!Degree(C, f.j) = D[f.j]
      /\ D[f.j] \in GradesSet(I) /\ D[f.j] \in Grades /\ f.g <= D[f.j]
      /\ C = E => D = B
  BY <1>1, InCloseTested
<1>4. /\ m \in InCloseCalls
      /\ m.r = f.r /\ m.y = f.y /\ m.P = f.P /\ m.j = f.j /\ m.children = f.children
      /\ m.g = D[f.j]
      /\ RuledOutRight(m, columns, add_empty_extent)
  BY <1>1, InCloseLowered
<1>5. /\ C = E
      /\ columns' = [columns EXCEPT ![m.r].intent[m.j] = m.g]
      /\ stack' = [stack EXCEPT ![Len(stack)] = InCl!NextGradeAfter(m, m.g)]
      /\ add_empty_extent' = add_empty_extent
  <2> DEFINE c == InCl!Narrow(f)
             n == InCl!MoveTo(f, InCl!Degree(c, f.j))
  <2>1. /\ c = columns[n.r].extent
        /\ columns' = [columns EXCEPT ![n.r].intent[n.j] = n.g]
        /\ stack' = InCl!ReplaceTop(InCl!NextGradeAfter(n, n.g))
        /\ add_empty_extent' = add_empty_extent
    BY Zenon DEF InCl!AddToParent
  <2>2. c = C /\ n = m
    BY <1>3
  <2> HIDE DEF c, n, C, m
  <2> QED BY <1>4, <2>1, <2>2 DEF InCl!ReplaceTop
<1> HIDE DEF f, E, B, V, C, D, m
<1>6. columns' = dols
  BY <1>4, <1>5 DEF V
<1>7. W \in AttrSets /\ W[f.j] = B[f.j] /\ \A c \in Attributes : c # f.j => W[c] = V[c]
  BY <1>2, <1>3, <1>5 DEF AttrSets
<1>8. columns[f.r] \in Columns
  BY <1>2, LenProperties, ElementOfSeq
<1> HIDE DEF W
<1>9. e \in Columns /\ e.intent = W /\ e.extent = E
  BY <1>7, <1>8 DEF Columns, E
<1> HIDE DEF e
<1>10. /\ dols \in Seq(Columns) /\ DOMAIN dols = DOMAIN columns /\ dols[f.r] = e
       /\ \A i \in DOMAIN columns : i # f.r => dols[i] = columns[i]
  BY <1>2, <1>9, ExceptSeq
<1> HIDE DEF dols
<1>11. \A i \in DOMAIN columns : dols[i].extent = columns[i].extent
  BY <1>9, <1>10 DEF E
<1>12. Leq(W, B)
  <2> SUFFICES ASSUME NEW c \in Attributes PROVE W[c] <= B[c]
    BY DEF Leq
  <2>1. CASE c = f.j
    BY <1>2, <1>7, <2>1, SetValues
  <2>2. CASE c # f.j
    BY <1>2, <1>7, <2>2 DEF Leq
  <2> QED BY <2>1, <2>2
<1>13. \A c \in Attributes : c < f.j => W[c] = B[c]
  BY <1>2, <1>7 DEF Attributes
<1>14. DepartingAt(ToFind, B, f.j, f.g, m.g) = {}
  <2>1. m.g \in GradesSet(I) /\ m.g <= B[f.j]
    <3>1. m.g = B[f.j] /\ m.g \in Int
      BY <1>2, <1>3, <1>4, <1>5, SetValues
    <3> QED BY <1>3, <1>4, <3>1
  <2> QED BY <1>2, <2>1, LeftBehind
<1>15. add_empty_extent \in BOOLEAN /\ (add_empty_extent => down(FullSet) = NoObject)
  BY DEF InCloseState
<1>16. Stepped(m, m.g, InCl!Top, columns, dols, add_empty_extent, add_empty_extent)
  <2>1. /\ dols[f.r].intent = W
        /\ DepartingAt(ToFind, B, f.j, f.g, m.g) \subseteq Exceptions(add_empty_extent)
    BY <1>9, <1>10, <1>14
  <2> SUFFICES Stepped(m, m.g, f, columns, dols, add_empty_extent, add_empty_extent)
    BY DEF f
  <2> HIDE DEF Exceptions
  <2>2. m.g \in GradesSet(I) /\ f.g <= m.g /\ W[f.j] = B[f.j]
    BY <1>3, <1>4, <1>7
  <2> QED BY <1>2, <1>4, <1>10, <1>11, <1>12, <1>13, <1>15, <2>1, <2>2 DEF Stepped, B
<1>17. LET t == [stack EXCEPT ![Len(stack)] = InCl!NextGradeAfter(m, m.g)]
       IN  /\ InCloseState(t, dols, add_empty_extent)
           /\ OneMore(ListedSoFar(stack, columns), ListedSoFar(t, dols))
  BY <1>3, <1>16, InCloseStep
<1> QED BY <1>5, <1>6, <1>17 DEF InCloseKept

\* What a new column and child ask for: the loops leave to the child what they
\* pass over, and its intent is known up to the attribute.
Branched(f, e, top, cols, added) ==
  LET B == Final(cols, top.r)
      V == cols[top.r].intent
      D == up(e.extent)
  IN  /\ f \in InCloseCalls
      /\ f.r = top.r /\ f.y = top.y
      /\ f.children = Append(top.children, [r |-> Len(cols) + 1, y |-> top.j])
      /\ top.j <= f.j /\ f.g \in GradesSet(I)
      /\ e \in Columns /\ IsConcept(e.extent, D) /\ e.extent # NoObject
      /\ Below(e.extent, cols[top.r].extent)
      /\ D # B /\ Leq(e.intent, D)
      /\ \A c \in Attributes : c <= top.j => e.intent[c] = D[c]
      /\ \A c \in Attributes : c < top.j => D[c] = B[c]
      /\ \A c \in Attributes : c < f.j => V[c] = B[c]
      /\ f.j < NAttr => V[f.j] = B[f.j] \/ f.g <= B[f.j]
      /\ RuledOutRight(f, cols, added)
      /\ LoopRegion(ToFind, B, top.j, top.g)
           = Subtree(ToFind, D, top.j) \cup LoopRegion(ToFind, B, f.j, f.g)
      /\ Subtree(ToFind, D, top.j) \cap LoopRegion(ToFind, B, f.j, f.g) = {}

\* The final sets of the columns are in their places, or listed.
LEMMA FinalPlaced ==
  ASSUME I \in Contexts, NEW st, NEW cols, NEW added, InCloseState(st, cols, added),
         NEW r \in DOMAIN cols
  PROVE  \/ Final(cols, r) \in ListedSoFar(st, cols)
         \/ \E p \in Pending(st) :
              /\ ColumnAt(st, p) = r
              /\ p \in Places(InCloseViews(st, cols))
              /\ Final(cols, r) \in RegionAt(ToFind, InCloseViews(st, cols), p)
<1> DEFINE v == InCloseViews(st, cols)
<1>1. \A n \in DOMAIN st : st[n] \in InCloseCalls
  BY LenProperties, ElementOfSeq DEF InCloseState
<1>2. CASE r \in Settled(st, cols)
  <2>1. Complete(st, cols) = Settled(st, cols) /\ ColumnsRight(st, cols)
    BY <1>1, SettledColumns DEF InCloseState
  <2>2. ListedSoFar(st, cols) = {Final(cols, i) : i \in Complete(st, cols)}
    BY <2>1, ListedFinals
  <2> QED BY <1>2, <2>1, <2>2
<1>3. CASE r \notin Settled(st, cols)
  <2>1. PICK p \in Pending(st) : ColumnAt(st, p) = r
    BY <1>3 DEF Settled
  <2>2. /\ p = <<p[1], p[2]>> /\ p[1] \in DOMAIN st
        /\ (p[2] = 0 /\ st[p[1]].j < NAttr) \/ p[2] \in DOMAIN st[p[1]].children
    BY PendingParts, PendingPairs
  <2>3. p \in Places(v)
    <3>1. DOMAIN v = DOMAIN st /\ DOMAIN v[p[1]].kids = DOMAIN st[p[1]].children
      BY <2>2, InCloseViewed
    <3> QED BY <2>2, <3>1, PlaceParts
  <2>4. CASE p[2] = 0 /\ st[p[1]].j < NAttr
    <3>1. Final(cols, st[p[1]].r) \in Region(ToFind, v[p[1]], p[2])
      BY <2>2, <2>4, PlaceFinals
    <3> QED BY <2>1, <2>3, <2>4, <3>1 DEF RegionAt, ColumnAt
  <2>5. CASE p[2] \in DOMAIN st[p[1]].children
    <3>1. Final(cols, st[p[1]].children[p[2]].r) \in Region(ToFind, v[p[1]], p[2])
      BY <2>2, <2>5, PlaceFinals
    <3>2. p[2] # 0
      BY <1>1, <2>2, <2>5, InCloseFields
    <3> QED BY <2>1, <2>3, <3>1, <3>2 DEF RegionAt, ColumnAt
  <2> QED BY <2>2, <2>4, <2>5
<1> QED BY <1>2, <1>3

\* The places of t, in which the call n of st has a child m more, with the column l.
OneChildMore(st, t, n, m, l) ==
  /\ Pending(t) = (Pending(st) \ {<<n, 0>>}) \cup {<<n, m>>}
                     \cup (IF t[n].j < NAttr THEN {<<n, 0>>} ELSE {})
  /\ <<n, m>> \notin Pending(st) /\ <<n, 0>> \in Pending(st)
  /\ \A p \in Pending(st) : ColumnAt(t, p) = ColumnAt(st, p)
  /\ \A p \in Pending(st) : p # <<n, 0>> => UpTo(t, p) = UpTo(st, p)
  /\ UpTo(t, <<n, 0>>) = t[n].j
  /\ ColumnAt(t, <<n, m>>) = l /\ UpTo(t, <<n, m>>) = st[n].j + 1

\* InClose: a child is one pending place more.
LEMMA PendingBranches ==
  ASSUME NEW st \in Seq(InCloseCalls), st # <<>>, NEW f \in InCloseCalls,
         NEW n, n = Len(st), st[n].j < NAttr,
         NEW l \in Nat, NEW m, m = Len(st[n].children) + 1,
         f.r = st[n].r, f.children = Append(st[n].children, [r |-> l, y |-> st[n].j])
  PROVE  OneChildMore(st, [st EXCEPT ![n] = f], n, m, l)
<1> DEFINE t == [st EXCEPT ![n] = f]
           top == st[n]
           kid == [r |-> l, y |-> top.j]
<1>1. /\ t \in Seq(InCloseCalls) /\ Len(t) = n /\ DOMAIN t = DOMAIN st
      /\ n \in Nat \ {0} /\ DOMAIN st = 1 .. n /\ n \in DOMAIN st
      /\ t[n] = f /\ top \in InCloseCalls
      /\ \A i \in DOMAIN st : i # n => t[i] = st[i]
  BY LastReplaced
<1>2. \A i \in DOMAIN st : st[i] \in InCloseCalls /\ t[i] \in InCloseCalls
  BY <1>1, ElementOfSeq
<1> HIDE DEF t
<1>3. kid \in [r : Nat, y : Attributes]
  <2>1. top.j \in Attributes
    BY <1>1, InCloseFields, NAttrAssumption DEF Attributes
  <2> QED BY <2>1
<1> HIDE DEF kid
<1>4. top.children \in Seq([r : Nat, y : Attributes])
  BY <1>1, InCloseFields
<1>5. /\ DOMAIN f.children = DOMAIN top.children \cup {m}
      /\ m \notin DOMAIN top.children /\ m # 0
      /\ f.children[m] = kid
      /\ \A i \in DOMAIN top.children : f.children[i] = top.children[i]
      /\ 0 \notin DOMAIN top.children
  <2>1. f.children = Append(top.children, kid)
    BY DEF kid
  <2> HIDE DEF top
  <2>2. m = Len(top.children) + 1
    BY DEF top
  <2> DEFINE s == top.children
  <2>3. s \in Seq([r : Nat, y : Attributes]) /\ f.children = Append(s, kid) /\ m = Len(s) + 1
    BY <1>4, <2>1, <2>2
  <2> HIDE DEF s
  <2>4. /\ DOMAIN s = 1 .. Len(s) /\ Len(s) \in Nat
        /\ DOMAIN f.children = DOMAIN s \cup {Len(s) + 1}
        /\ f.children[Len(s) + 1] = kid
        /\ \A i \in DOMAIN s : f.children[i] = s[i]
    BY <1>3, <2>3, LastPushed
  <2>5. m \notin DOMAIN s /\ m # 0 /\ 0 \notin DOMAIN s
    BY <2>3, <2>4
  <2> QED BY <2>3, <2>4, <2>5 DEF s
<1>6. kid.r = l /\ kid.y = top.j
  BY DEF kid
<1>7. \A i, k : <<i, k>> \in Pending(t) <=>
       /\ i \in DOMAIN t
       /\ (k = 0 /\ t[i].j < NAttr) \/ k \in DOMAIN t[i].children
  BY PendingParts
<1>8. \A i, k : <<i, k>> \in Pending(st) <=>
       /\ i \in DOMAIN st
       /\ (k = 0 /\ st[i].j < NAttr) \/ k \in DOMAIN st[i].children
  BY PendingParts
<1>9. ASSUME NEW i \in DOMAIN st, NEW k, i # n
      PROVE  <<i, k>> \in Pending(t) <=> <<i, k>> \in Pending(st)
  <2>1. t[i] = st[i] /\ i \in DOMAIN t
    BY <1>1, <1>9
  <2>2. (k = 0 /\ t[i].j < NAttr) <=> (k = 0 /\ st[i].j < NAttr)
    BY <2>1
  <2>3. k \in DOMAIN t[i].children <=> k \in DOMAIN st[i].children
    BY <2>1
  <2> QED BY Zenon, <1>7, <1>8, <2>1, <2>2, <2>3
<1>10. ASSUME NEW k
       PROVE  /\ <<n, k>> \in Pending(t) <=>
                   ((k = 0 /\ f.j < NAttr) \/ k \in DOMAIN top.children \/ k = m)
              /\ <<n, k>> \in Pending(st) <=> (k = 0 \/ k \in DOMAIN top.children)
  <2>1. <<n, k>> \in Pending(t) <=> ((k = 0 /\ f.j < NAttr) \/ k \in DOMAIN f.children)
    BY Zenon, <1>1, <1>7
  <2>2. <<n, k>> \in Pending(st) <=> ((k = 0 /\ top.j < NAttr) \/ k \in DOMAIN top.children)
    BY Zenon, <1>1, <1>8
  <2>3. top.j < NAttr
    OBVIOUS
  <2> HIDE DEF top
  <2> QED BY <1>5, <2>1, <2>2, <2>3
<1>11. \A p \in Pending(st) : p = <<p[1], p[2]>> /\ p[1] \in DOMAIN st
  BY PendingPairs
<1>12. \A p \in Pending(t) : p = <<p[1], p[2]>> /\ p[1] \in DOMAIN st
  BY <1>1, PendingPairs
<1> HIDE DEF top
<1>13. Pending(t) = (Pending(st) \ {<<n, 0>>}) \cup {<<n, m>>}
                               \cup (IF f.j < NAttr THEN {<<n, 0>>} ELSE {})
  <2> DEFINE Q == (Pending(st) \ {<<n, 0>>}) \cup {<<n, m>>}
                               \cup (IF f.j < NAttr THEN {<<n, 0>>} ELSE {})
  <2>1. ASSUME NEW p \in Pending(t) PROVE p \in Q
    <3>1. CASE p[1] # n
      <4>1. <<p[1], p[2]>> \in Pending(st)
        BY <1>9, <1>12, <3>1
      <4> QED BY <1>12, <3>1, <4>1
    <3>2. CASE p[1] = n
      <4>1. (p[2] = 0 /\ f.j < NAttr) \/ p[2] \in DOMAIN top.children \/ p[2] = m
        BY <1>10, <1>12, <3>2
      <4>2. p[2] \in DOMAIN top.children => p \in Pending(st) /\ p[2] # 0
        BY <1>5, <1>10, <1>12, <3>2
      <4> QED BY <1>12, <3>2, <4>1, <4>2
    <3> QED BY <3>1, <3>2
  <2>2. ASSUME NEW p \in Q PROVE p \in Pending(t)
    <3>1. <<n, m>> \in Pending(t) /\ (f.j < NAttr => <<n, 0>> \in Pending(t))
      BY <1>10
    <3>2. ASSUME p \in Pending(st), p # <<n, 0>> PROVE p \in Pending(t)
      <4>1. CASE p[1] # n
        BY <1>9, <1>11, <3>2, <4>1
      <4>2. CASE p[1] = n
        <5>1. p[2] \in DOMAIN top.children
          BY <1>10, <1>11, <3>2, <4>2
        <5> QED BY <1>10, <1>11, <3>2, <4>2, <5>1
      <4> QED BY <4>1, <4>2
    <3>3. f.j < NAttr \/ ~(f.j < NAttr)
      OBVIOUS
    <3> QED BY <3>1, <3>2, <3>3
  <2> QED BY <2>1, <2>2
<1>14. <<n, m>> \notin Pending(st) /\ <<n, 0>> \in Pending(st)
  BY <1>5, <1>10
<1>15. ASSUME NEW p \in Pending(st)
       PROVE  /\ ColumnAt(t, p) = ColumnAt(st, p)
              /\ p # <<n, 0>> => UpTo(t, p) = UpTo(st, p)
  <2>1. CASE p[1] # n
    <3>1. t[p[1]] = st[p[1]]
      BY <1>1, <1>11, <2>1
    <3> QED BY <3>1 DEF ColumnAt, UpTo
  <2>2. CASE p[1] = n
    <3>1. t[p[1]] = f /\ st[p[1]] = top
      BY <1>1, <2>2 DEF top
    <3>2. p[2] = 0 \/ p[2] \in DOMAIN top.children
      BY <1>10, <1>11, <2>2
    <3>3. p # <<n, 0>> => p[2] # 0
      BY <1>11, <2>2
    <3>4. f.r = top.r
      BY DEF top
    <3>5. CASE p[2] = 0
      BY <3>1, <3>3, <3>4, <3>5 DEF ColumnAt
    <3>6. CASE p[2] # 0
      <4>1. f.children[p[2]] = top.children[p[2]]
        BY <1>5, <3>2, <3>6
      <4> QED BY <3>1, <3>6, <4>1 DEF ColumnAt, UpTo
    <3> QED BY <3>5, <3>6
  <2> QED BY <2>1, <2>2
<1>16. /\ UpTo(t, <<n, 0>>) = f.j
       /\ ColumnAt(t, <<n, m>>) = l /\ UpTo(t, <<n, m>>) = top.j + 1
  BY <1>1, <1>5, <1>6 DEF ColumnAt, UpTo
<1>17. OneChildMore(st, t, n, m, l)
  BY <1>1, <1>13, <1>14, <1>15, <1>16 DEF OneChildMore, top
<1> QED BY <1>17 DEF t

\* InClose: the last call gets a child with a new column.
LEMMA InCloseBranches ==
  ASSUME I \in Contexts, NEW st, NEW cols, NEW added, InCloseState(st, cols, added),
         st # <<>>, st[Len(st)].j < NAttr,
         NEW f, NEW e, Branched(f, e, st[Len(st)], cols, added)
  PROVE  LET t == [st EXCEPT ![Len(st)] = f]
             dols == Append(cols, e)
         IN  /\ InCloseState(t, dols, added)
             /\ OneMore(ListedSoFar(st, cols), ListedSoFar(t, dols))
<1> DEFINE n == Len(st)
           top == st[n]
           r == top.r
           B == Final(cols, r)
           V == cols[r].intent
           D == up(e.extent)
           l == Len(cols) + 1
           m == Len(top.children) + 1
           kid == [r |-> l, y |-> top.j]
           t == [st EXCEPT ![n] = f]
           dols == Append(cols, e)
           v == InCloseViews(st, cols)
           w == InCloseViews(t, dols)
<1>1. /\ st \in Seq(InCloseCalls) /\ cols \in Seq(Columns) /\ added \in BOOLEAN
      /\ ColumnsRight(st, cols) /\ Deeper(st)
      /\ \A i \in DOMAIN st : InCloseFrame(st[i], cols) /\ RuledOutRight(st[i], cols, added)
      /\ \A i \in DOMAIN st : i < Len(st) => st[i].j = NAttr
      /\ Partition(ToFind, Exceptions(added), ListedSoFar(st, cols), v)
      /\ added => down(FullSet) = NoObject
  BY DEF InCloseState, Exceptions
<1>2. /\ f \in InCloseCalls
      /\ f.r = r /\ f.y = top.y
      /\ f.children = Append(top.children, kid)
      /\ top.j <= f.j /\ f.g \in GradesSet(I)
      /\ e \in Columns /\ IsConcept(e.extent, D) /\ e.extent # NoObject
      /\ Below(e.extent, cols[r].extent)
      /\ D # B /\ Leq(e.intent, D)
      /\ \A c \in Attributes : c <= top.j => e.intent[c] = D[c]
      /\ \A c \in Attributes : c < top.j => D[c] = B[c]
  BY DEF Branched
<1>3. /\ \A c \in Attributes : c < f.j => V[c] = B[c]
      /\ f.j < NAttr => V[f.j] = B[f.j] \/ f.g <= B[f.j]
      /\ RuledOutRight(f, cols, added)
      /\ LoopRegion(ToFind, B, top.j, top.g)
           = Subtree(ToFind, D, top.j) \cup LoopRegion(ToFind, B, f.j, f.g)
      /\ Subtree(ToFind, D, top.j) \cap LoopRegion(ToFind, B, f.j, f.g) = {}
  BY DEF Branched
<1>4. top.j < NAttr
  OBVIOUS
<1>5. /\ t \in Seq(InCloseCalls) /\ Len(t) = n /\ DOMAIN t = DOMAIN st
      /\ n \in Nat \ {0} /\ DOMAIN st = 1 .. n /\ n \in DOMAIN st
      /\ t[n] = f /\ top \in InCloseCalls
      /\ \A i \in DOMAIN st : i # n => t[i] = st[i]
  BY <1>1, <1>2, LastReplaced
<1>6. /\ dols \in Seq(Columns) /\ DOMAIN dols = DOMAIN cols \cup {l}
      /\ DOMAIN cols = 1 .. Len(cols) /\ l \in Nat \ {0} /\ l \notin DOMAIN cols
      /\ dols[l] = e /\ \A i \in DOMAIN cols : dols[i] = cols[i]
  BY <1>1, <1>2, LastPushed
<1>7. /\ Pending(t) = (Pending(st) \ {<<n, 0>>}) \cup {<<n, m>>}
                               \cup (IF f.j < NAttr THEN {<<n, 0>>} ELSE {})
      /\ <<n, m>> \notin Pending(st) /\ <<n, 0>> \in Pending(st)
      /\ \A p \in Pending(st) : ColumnAt(t, p) = ColumnAt(st, p)
      /\ \A p \in Pending(st) : p # <<n, 0>> => UpTo(t, p) = UpTo(st, p)
      /\ UpTo(t, <<n, 0>>) = f.j
      /\ ColumnAt(t, <<n, m>>) = l /\ UpTo(t, <<n, m>>) = top.j + 1
  <2>1. l \in Nat
    BY <1>6
  <2> HIDE DEF l
  <2>2. f.r = st[n].r /\ f.children = Append(st[n].children, [r |-> l, y |-> st[n].j])
    BY <1>2
  <2>3. /\ n = Len(st) /\ m = Len(st[n].children) + 1 /\ f.r = st[n].r
        /\ st[n].j < NAttr /\ st # <<>>
    BY <2>2
  <2> HIDE DEF n, m
  <2>4. OneChildMore(st, [st EXCEPT ![n] = f], n, m, l)
    BY <1>1, <1>2, <2>1, <2>2, <2>3, PendingBranches
  <2>5. OneChildMore(st, t, n, m, l)
    BY <2>4
  <2> HIDE DEF t
  <2> QED BY <1>5, <2>5 DEF OneChildMore
<1>8. \A i \in DOMAIN st : st[i] \in InCloseCalls /\ t[i] \in InCloseCalls
  BY <1>1, <1>2, <1>5, ElementOfSeq
<1> HIDE DEF t, dols, V, v, w, kid
<1>9. /\ kid = [r |-> l, y |-> top.j]
      /\ DOMAIN f.children = DOMAIN top.children \cup {m}
      /\ m \notin DOMAIN top.children /\ m # 0
      /\ f.children[m] = kid
      /\ \A i \in DOMAIN top.children : f.children[i] = top.children[i] /\ i # 0
  <2> DEFINE s == top.children
  <2>1. s \in Seq([r : Nat, y : Attributes]) /\ f.children = Append(s, kid) /\ m = Len(s) + 1
    BY <1>2, <1>5, InCloseFields
  <2>2. kid = [r |-> l, y |-> top.j]
    BY DEF kid
  <2>3. kid \in [r : Nat, y : Attributes]
    <3>1. top.j \in Attributes
      BY <1>4, <1>5, InCloseFields, NAttrAssumption DEF Attributes
    <3> QED BY <1>6, <2>2, <3>1
  <2> HIDE DEF s, m
  <2>4. /\ DOMAIN s = 1 .. Len(s) /\ Len(s) \in Nat
        /\ DOMAIN f.children = DOMAIN s \cup {Len(s) + 1}
        /\ f.children[Len(s) + 1] = kid
        /\ \A i \in DOMAIN s : f.children[i] = s[i]
    BY <2>1, <2>3, LastPushed
  <2>5. m \notin DOMAIN s /\ m # 0 /\ \A i \in DOMAIN s : i # 0
    BY <2>1, <2>4
  <2> QED BY <2>1, <2>2, <2>4, <2>5 DEF s
<1>10. SameExtents(cols, dols) /\ (\A i \in DOMAIN cols : Final(dols, i) = Final(cols, i))
       /\ Final(dols, l) = D
  BY <1>6 DEF SameExtents, Final
<1>11. /\ r \in DOMAIN cols
       /\ \A p, q \in Pending(st) : ColumnAt(st, p) = ColumnAt(st, q) => p = q
       /\ \A p \in Pending(st) : ColumnAt(st, p) \in DOMAIN cols
       /\ ColumnAt(st, <<n, 0>>) = r /\ UpTo(st, <<n, 0>>) = top.j
  BY <1>1, <1>5, OnePlace DEF InCloseFrame, ColumnAt, UpTo
<1> HIDE DEF B, D, l, m, top, r
<1>12. /\ Complete(st, cols) = Settled(st, cols) /\ Complete(t, dols) = Settled(t, dols)
       /\ Settled(t, dols) = Settled(st, cols) \cup (IF f.j < NAttr THEN {} ELSE {r})
       /\ r \notin Settled(st, cols)
  <2>1. Complete(st, cols) = Settled(st, cols) /\ Complete(t, dols) = Settled(t, dols)
    BY <1>5, <1>8, SettledColumns
  <2>2. r \notin Settled(st, cols)
    BY <1>7, <1>11 DEF Settled
  <2>3. ASSUME NEW i \in Settled(t, dols)
        PROVE  i \in Settled(st, cols) \cup (IF f.j < NAttr THEN {} ELSE {r})
    <3>1. /\ i \in DOMAIN cols \cup {l} /\ \A p \in Pending(t) : ColumnAt(t, p) # i
      BY <1>6, <2>3 DEF Settled
    <3>2. i \in DOMAIN cols
      BY <1>7, <3>1
    <3>3. CASE f.j < NAttr
      <4>1. Pending(st) \subseteq Pending(t)
        BY <1>7, <3>3
      <4> QED BY <1>7, <3>1, <3>2, <4>1 DEF Settled
    <3>4. CASE ~(f.j < NAttr)
      <4>1. \A p \in Pending(st) : p # <<n, 0>> => p \in Pending(t)
        BY <1>7
      <4>2. i # r => i \in Settled(st, cols)
        BY <1>7, <1>11, <3>1, <3>2, <4>1 DEF Settled
      <4> QED BY <3>4, <4>2
    <3> QED BY <3>3, <3>4
  <2>4. ASSUME NEW i \in Settled(st, cols) PROVE i \in Settled(t, dols)
    <3>1. i \in DOMAIN cols /\ \A p \in Pending(st) : ColumnAt(st, p) # i
      BY <2>4 DEF Settled
    <3>2. \A p \in Pending(t) : p \in Pending(st) \/ p = <<n, m>>
      BY <1>7
    <3> QED BY <1>6, <1>7, <3>1, <3>2 DEF Settled
  <2>5. ASSUME ~(f.j < NAttr) PROVE r \in Settled(t, dols)
    <3>1. \A p \in Pending(t) : p \in Pending(st) \ {<<n, 0>>} \/ p = <<n, m>>
      BY <1>7, <2>5
    <3> QED BY <1>6, <1>7, <1>11, <3>1 DEF Settled
  <2> QED BY <2>1, <2>2, <2>3, <2>4, <2>5
<1>13. ColumnsRight(t, dols)
  <2>0. /\ \A i \in DOMAIN cols :
                   /\ IsConcept(cols[i].extent, Final(cols, i))
                   /\ cols[i].extent # NoObject
                   /\ Leq(cols[i].intent, Final(cols, i))
                   /\ i \in Settled(st, cols) => cols[i].intent = Final(cols, i)
        /\ \A p \in Pending(st) : \A c \in Attributes :
                   c < UpTo(st, p) =>
                     cols[ColumnAt(st, p)].intent[c] = Final(cols, ColumnAt(st, p))[c]
        /\ \A i, k \in DOMAIN cols : Final(cols, i) = Final(cols, k) => i = k
    BY <1>1, <1>8, SettledColumns
  <2>1. ASSUME NEW i \in DOMAIN dols
        PROVE  /\ IsConcept(dols[i].extent, Final(dols, i))
               /\ dols[i].extent # NoObject
               /\ Leq(dols[i].intent, Final(dols, i))
               /\ i \in Settled(t, dols) => dols[i].intent = Final(dols, i)
    <3>1. CASE i = l
      <4>1. i \notin Settled(t, dols)
        BY <1>7, <3>1 DEF Settled
      <4> QED BY <1>2, <1>6, <1>10, <3>1, <4>1
    <3>2. CASE i # l
      <4>0. i \in DOMAIN cols
        BY <1>6, <3>2
      <4>1. /\ IsConcept(dols[i].extent, Final(dols, i))
            /\ dols[i].extent # NoObject
            /\ Leq(dols[i].intent, Final(dols, i))
        BY <1>6, <1>10, <2>0, <4>0
      <4>2. ASSUME i \in Settled(t, dols) PROVE dols[i].intent = Final(dols, i)
        <5>1. CASE i # r
          BY <1>6, <1>10, <1>12, <2>0, <4>0, <4>2, <5>1
        <5>2. CASE i = r
          <6>1. f.j = NAttr
            <7>1. ~(f.j < NAttr)
              BY <1>12, <4>2, <5>2
            <7> QED BY <1>2, <7>1, InCloseFields, NAttrAssumption
          <6>2. \A c \in Attributes : c < f.j
            BY <6>1, NAttrAssumption DEF Attributes
          <6>3. V \in AttrSets /\ B \in AttrSets
            <7>1. \A k \in DOMAIN cols : cols[k] \in Columns
              BY <1>1, LenProperties, ElementOfSeq
            <7> QED BY <1>11, <2>0, <7>1 DEF IsConcept, Columns, V, B
          <6>4. V = B
            BY <1>3, <6>2, <6>3 DEF AttrSets
          <6> QED BY <1>6, <1>10, <4>0, <5>2, <6>4 DEF V, B
        <5> QED BY <5>1, <5>2
      <4> QED BY <4>1, <4>2
    <3> QED BY <3>1, <3>2
  <2>2. ASSUME NEW p \in Pending(t), NEW c \in Attributes, c < UpTo(t, p)
        PROVE  dols[ColumnAt(t, p)].intent[c] = Final(dols, ColumnAt(t, p))[c]
    <3>1. CASE p = <<n, 0>>
      <4>1. ColumnAt(t, p) = r /\ UpTo(t, p) = f.j
        BY <1>7, <1>11, <3>1
      <4>2. cols[r].intent[c] = B[c]
        BY <1>3, <2>2, <4>1 DEF V
      <4> QED BY <1>6, <1>10, <1>11, <4>1, <4>2 DEF B
    <3>2. CASE p = <<n, m>>
      <4>1. ColumnAt(t, p) = l /\ UpTo(t, p) = top.j + 1
        BY <1>7, <3>2
      <4>2. c <= top.j
        <5>1. top.j \in Int
          BY <1>5, InCloseFields
        <5> QED BY <2>2, <4>1, <5>1 DEF Attributes
      <4> QED BY <1>2, <1>6, <1>10, <4>1, <4>2
    <3>3. CASE p # <<n, 0>> /\ p # <<n, m>>
      <4>1. p \in Pending(st) /\ ColumnAt(t, p) = ColumnAt(st, p) /\ UpTo(t, p) = UpTo(st, p)
        BY <1>7, <3>3
      <4>2. ColumnAt(st, p) \in DOMAIN cols
        BY <1>11, <4>1
      <4>3. cols[ColumnAt(st, p)].intent[c] = Final(cols, ColumnAt(st, p))[c]
        BY <2>0, <2>2, <4>1
      <4> QED BY <1>6, <1>10, <4>1, <4>2, <4>3
    <3> QED BY <3>1, <3>2, <3>3
  <2>3. ASSUME NEW i \in DOMAIN cols PROVE Final(cols, i) # D
    <3> SUFFICES ASSUME Final(cols, i) = D PROVE FALSE
      OBVIOUS
    <3>1. D \in Region(ToFind, v[n], 0) /\ <<n, 0>> \in Places(v)
      <4>1. D \in Subtree(ToFind, D, top.j)
        <5>1. D \in ToFind /\ D \in AttrSets
          BY <1>2, FoundTypes DEF IsConcept
        <5>2. Leq(D, D)
          BY <5>1, SetValues DEF Leq
        <5> QED BY <5>1, <5>2 DEF Subtree
      <4>2. Region(ToFind, v[n], 0)
              = LoopRegion(ToFind, B, top.j, top.g) \cup (IF top.j < NAttr THEN {B} ELSE {})
        BY <1>5, InCloseViewed DEF v, top, B, r
      <4>3. n \in DOMAIN v
        BY <1>5, InCloseViewed DEF v
      <4> QED BY <1>3, <4>1, <4>2, <4>3, PlaceParts
    <3>2. Region(ToFind, v[n], 0) = RegionAt(ToFind, v, <<n, 0>>)
      BY DEF RegionAt
    <3>3. CASE D \in ListedSoFar(st, cols)
      BY <1>1, <3>1, <3>2, <3>3 DEF Partition, RegionAt
    <3>4. ASSUME NEW p \in Pending(st), ColumnAt(st, p) = i, p \in Places(v),
                 D \in RegionAt(ToFind, v, p)
          PROVE  FALSE
      <4>1. CASE p = <<n, 0>>
        <5>1. i = r
          BY <1>11, <3>4, <4>1
        <5> QED BY <1>2, <5>1 DEF B
      <4>2. CASE p # <<n, 0>>
        BY <1>1, <3>1, <3>2, <3>4, <4>2 DEF Partition, RegionAt
      <4> QED BY <4>1, <4>2
    <3> QED BY <3>3, <3>4, FinalPlaced DEF v
  <2>4. \A i, k \in DOMAIN dols : Final(dols, i) = Final(dols, k) => i = k
    <3> SUFFICES ASSUME NEW i \in DOMAIN dols, NEW k \in DOMAIN dols,
                        Final(dols, i) = Final(dols, k)
                 PROVE  i = k
      OBVIOUS
    <3>1. CASE i \in DOMAIN cols /\ k \in DOMAIN cols
      BY <1>10, <2>0, <3>1
    <3>2. CASE i = l /\ k \in DOMAIN cols
      BY <1>10, <2>3, <3>2
    <3>3. CASE i \in DOMAIN cols /\ k = l
      BY <1>10, <2>3, <3>3
    <3> QED BY <1>6, <3>1, <3>2, <3>3
  <2> QED BY <1>5, <1>8, <2>1, <2>2, <2>4, SettledColumns
<1>14. ListedSoFar(t, dols)
         = ListedSoFar(st, cols) \cup (IF f.j < NAttr THEN {} ELSE {B})
  <2>1. /\ ListedSoFar(t, dols) = {Final(dols, i) : i \in Settled(t, dols)}
        /\ ListedSoFar(st, cols) = {Final(cols, i) : i \in Settled(st, cols)}
    BY <1>1, <1>12, <1>13, ListedFinals
  <2>2. \A i \in Settled(t, dols) : i \in DOMAIN cols
    BY <1>11, <1>12 DEF Settled
  <2> QED BY <1>10, <1>12, <2>1, <2>2 DEF B
<1>15. OneMore(ListedSoFar(st, cols), ListedSoFar(t, dols))
  <2>1. ListedSoFar(t, dols) \in {ListedSoFar(st, cols), ListedSoFar(st, cols) \cup {B}}
    BY <1>14
  <2> QED BY <2>1 DEF OneMore
<1>16. ASSUME NEW i \in DOMAIN t
       PROVE  InCloseFrame(t[i], dols) /\ RuledOutRight(t[i], dols, added)
  <2>1. CASE i # n
    <3>1. t[i] = st[i] /\ st[i].j = NAttr
      BY <1>1, <1>5, <2>1
    <3> QED BY <1>1, <1>5, <1>10, <3>1, FrameKept
  <2>2. CASE i = n
    <3>0. InCloseFrame(top, cols)
      BY <1>1, <1>5 DEF top
    <3>1. f.r \in DOMAIN dols /\ f.r \in DOMAIN cols
      BY <1>2, <1>6, <1>11
    <3>2. f.y < f.j /\ f.y < top.j
      <4>1. top.y < top.j
        BY <3>0 DEF InCloseFrame
      <4> QED BY <1>2, <1>5, <4>1, InCloseFields
    <3>3. ASSUME NEW k \in DOMAIN f.children, NEW child, child = f.children[k]
          PROVE  /\ child.r \in DOMAIN dols /\ f.y < child.y
                 /\ Below(dols[child.r].extent, dols[f.r].extent)
                 /\ \A c \in Attributes :
                      c < child.y => Final(dols, child.r)[c] = Final(dols, f.r)[c]
      <4>1. CASE k = m
        <5>1. child.r = l /\ child.y = top.j
          BY <1>9, <3>3, <4>1
        <5>2. \A c \in Attributes : c < top.j => Final(dols, l)[c] = Final(dols, f.r)[c]
          BY <1>2, <1>10, <3>1 DEF B
        <5> QED BY <1>2, <1>6, <3>1, <3>2, <5>1, <5>2
      <4>2. CASE k # m
        <5>1. k \in DOMAIN top.children /\ child = top.children[k]
          BY <1>9, <3>3, <4>2
        <5>2. /\ child.r \in DOMAIN cols /\ top.y < child.y
              /\ Below(cols[child.r].extent, cols[top.r].extent)
              /\ \A c \in Attributes :
                   c < child.y => Final(cols, child.r)[c] = Final(cols, top.r)[c]
          BY <3>0, <5>1 DEF InCloseFrame
        <5> QED BY <1>2, <1>6, <1>10, <3>1, <5>2 DEF r
      <4> QED BY <4>1, <4>2
    <3>4. f.j < NAttr =>
            \/ dols[f.r].intent[f.j] = Final(dols, f.r)[f.j]
            \/ f.g <= Final(dols, f.r)[f.j]
      BY <1>2, <1>3, <1>6, <1>10, <3>1 DEF V, B
    <3>5. InCloseFrame(f, dols)
      BY <1>2, <3>1, <3>2, <3>3, <3>4 DEF InCloseFrame
    <3>6. RuledOutRight(f, dols, added)
      <4>1. \A j \in Attributes, h \in GradesSet(I) : FailsAt(f, cols, added, j, h, f.P[j])
        BY <1>3 DEF RuledOutRight, FailsAt
      <4>2. dols[f.r].extent = cols[f.r].extent
        BY <1>6, <3>1
      <4> QED BY <4>1, <4>2, RuledWith
    <3> QED BY <1>5, <2>2, <3>5, <3>6
  <2> QED BY <2>1, <2>2
<1>17. Partition(ToFind, Exceptions(added), ListedSoFar(t, dols), w)
  <2> DEFINE z == [C |-> B, j |-> f.j, g |-> f.g, own |-> TRUE, kids |-> w[n].kids]
             x == [v EXCEPT ![n] = z]
  <2>1. /\ DOMAIN v = DOMAIN st /\ DOMAIN w = DOMAIN st /\ n \in DOMAIN v
        /\ v[n] = InCloseView(top, cols) /\ w[n] = InCloseView(f, dols)
        /\ \A i \in DOMAIN st : v[i] = InCloseView(st[i], cols) /\ w[i] = InCloseView(t[i], dols)
    BY <1>5 DEF v, w, InCloseViews, top
  <2>2. /\ DOMAIN x = DOMAIN v /\ x[n] = z /\ \A i \in DOMAIN v : i # n => x[i] = v[i]
    <3>1. v = [i \in DOMAIN st |-> InCloseView(st[i], cols)]
      BY DEF v, InCloseViews
    <3> HIDE DEF z
    <3> QED BY <2>1, <3>1
  <2>3. \A i \in DOMAIN v : i # n => w[i] = v[i]
    <3> SUFFICES ASSUME NEW i \in DOMAIN st, i # n
                 PROVE  InCloseView(st[i], dols) = InCloseView(st[i], cols)
      BY <1>5, <2>1
    <3> QED BY <1>1, <1>10, FrameKept
  <2>4. /\ Final(dols, f.r) = B /\ Final(cols, top.r) = B
    BY <1>2, <1>10, <1>11 DEF B, r
  <2>5. /\ DOMAIN v[n].kids = DOMAIN top.children
        /\ DOMAIN w[n].kids = DOMAIN f.children
        /\ \A i \in DOMAIN top.children :
             v[n].kids[i] = [C |-> Final(cols, top.children[i].r), y |-> top.children[i].y]
        /\ \A i \in DOMAIN f.children :
             w[n].kids[i] = [C |-> Final(dols, f.children[i].r), y |-> f.children[i].y]
    BY <2>1 DEF InCloseView
  <2>6. \A i \in DOMAIN top.children : w[n].kids[i] = v[n].kids[i]
    <3>1. \A i \in DOMAIN top.children : top.children[i].r \in DOMAIN cols
      BY <1>1, <1>5 DEF InCloseFrame, top
    <3> SUFFICES ASSUME NEW i \in DOMAIN top.children
                 PROVE  w[n].kids[i] = v[n].kids[i]
      OBVIOUS
    <3>2. i \in DOMAIN f.children /\ f.children[i] = top.children[i]
      BY <1>9
    <3>3. Final(dols, top.children[i].r) = Final(cols, top.children[i].r)
      BY <1>10, <3>1
    <3>4. w[n].kids[i] = [C |-> Final(dols, top.children[i].r), y |-> top.children[i].y]
      BY <2>5, <3>2
    <3> QED BY <2>5, <3>3, <3>4
  <2>7. w[n].kids[m] = [C |-> D, y |-> top.j]
    <3>1. f.children[m].r = l /\ f.children[m].y = top.j /\ m \in DOMAIN f.children
      BY <1>9
    <3> QED BY <1>10, <2>5, <3>1
  <2>8. Region(ToFind, v[n], 0) = LoopRegion(ToFind, B, top.j, top.g) \cup {B}
    <3>1. Region(ToFind, v[n], 0)
              = LoopRegion(ToFind, B, top.j, top.g) \cup (IF top.j < NAttr THEN {B} ELSE {})
      BY <1>5, InCloseViewed DEF v, top, B, r
    <3> QED BY <1>4, <3>1 DEF top
  <2>9. Region(ToFind, z, 0) = LoopRegion(ToFind, B, f.j, f.g) \cup {B}
    BY DEF Region
  <2>10. Region(ToFind, z, m) = Subtree(ToFind, D, top.j)
    BY <1>9, <2>7 DEF Region
  <2>11. z.kids = w[n].kids
    OBVIOUS
  <2>12. Region(ToFind, w[n], 0)
           = LoopRegion(ToFind, B, f.j, f.g) \cup (IF f.j < NAttr THEN {B} ELSE {})
    <3>1. /\ w[n].C = B /\ w[n].j = f.j /\ w[n].g = f.g /\ w[n].own = (f.j < NAttr)
      BY <2>1, <2>4 DEF InCloseView
    <3>2. Region(ToFind, w[n], 0)
            = LoopRegion(ToFind, B, f.j, f.g) \cup (IF w[n].own THEN {B} ELSE {})
      BY <3>1 DEF Region
    <3>3. CASE f.j < NAttr
      BY <3>1, <3>2, <3>3
    <3>4. CASE ~(f.j < NAttr)
      BY <3>1, <3>2, <3>4
    <3> QED BY <3>3, <3>4
  <2>13. B \notin Subtree(ToFind, D, top.j)
    <3> SUFFICES ASSUME Leq(D, B) PROVE FALSE
      BY DEF Subtree
    <3>1. IsConcept(cols[r].extent, B)
      BY <1>1, <1>11 DEF ColumnsRight, B
    <3>2. Below(down(B), down(D))
      BY <1>2, <3>1, <3>1, UpDown DEF IsConcept
    <3>3. e.extent = cols[r].extent
      <4>1. Below(cols[r].extent, e.extent)
        BY <1>2, <3>1, <3>2 DEF IsConcept
      <4> QED BY <1>2, <3>1, <4>1, BelowOrder DEF IsConcept
    <3> QED BY <1>2, <3>1, <3>3 DEF IsConcept
  <2>14. B \notin LoopRegion(ToFind, B, f.j, f.g)
    BY SetValues DEF LoopRegion, ToFind
  <2> HIDE DEF z, x
  <2>15. Partition(ToFind, Exceptions(added), ListedSoFar(st, cols), x)
    <3>1. /\ Region(ToFind, v[n], 0) = Region(ToFind, x[n], 0) \cup Region(ToFind, x[n], m)
          /\ Region(ToFind, x[n], 0) \cap Region(ToFind, x[n], m) = {}
      BY <1>3, <2>2, <2>8, <2>9, <2>10, <2>13
    <3>2. /\ m \notin {0} \cup DOMAIN v[n].kids
          /\ DOMAIN x[n].kids = DOMAIN v[n].kids \cup {m}
          /\ \A i \in DOMAIN v[n].kids : x[n].kids[i] = v[n].kids[i]
      BY <1>9, <2>2, <2>5, <2>6, <2>11
    <3> HIDE DEF n
    <3> QED BY <1>1, <2>1, <2>2, <3>1, <3>2, CallBranches
  <2>16. /\ Region(ToFind, w[n], 0) \subseteq Region(ToFind, x[n], 0)
         /\ ListedSoFar(st, cols) \subseteq ListedSoFar(t, dols)
         /\ ListedSoFar(t, dols) \ ListedSoFar(st, cols)
              \subseteq Region(ToFind, x[n], 0) \ Region(ToFind, w[n], 0)
         /\ Region(ToFind, x[n], 0)
              \subseteq Region(ToFind, w[n], 0) \cup ListedSoFar(t, dols) \cup Exceptions(added)
    <3>1. Region(ToFind, x[n], 0) = LoopRegion(ToFind, B, f.j, f.g) \cup {B}
      BY <2>2, <2>9
    <3> QED BY <1>14, <2>12, <2>14, <3>1
  <2>17. /\ DOMAIN w = DOMAIN x /\ n \in DOMAIN x
         /\ \A i \in DOMAIN x : i # n => w[i] = x[i]
         /\ w[n].kids = x[n].kids
    BY <2>1, <2>2, <2>3, <2>11
  <2> HIDE DEF n, Exceptions
  <2> QED BY <2>15, <2>16, <2>17, CallMoves
<1>18. Deeper(t)
  <2>1. \A i \in DOMAIN st : t[i].y = st[i].y
    BY <1>2, <1>5 DEF top
  <2> SUFFICES ASSUME NEW i \in DOMAIN st
               PROVE  t[i].y >= i - 2 /\ (i > 1 => t[i-1].y < t[i].y)
    BY <1>5 DEF Deeper
  <2>2. i > 1 => i - 1 \in DOMAIN st
    BY <1>5
  <2> QED BY <1>1, <2>1, <2>2 DEF Deeper
<1>19. \A i \in DOMAIN t : i < Len(t) => t[i].j = NAttr
  BY <1>1, <1>5
<1>20. InCloseState(t, dols, added)
  BY <1>1, <1>5, <1>6, <1>13, <1>16, <1>17, <1>18, <1>19 DEF InCloseState, Exceptions, w
<1> QED BY <1>15, <1>20 DEF t, dols

\* C is new: a column and a child for it.
LEMMA InCloseAddChild ==
  ASSUME I \in Contexts, InCloseState(stack, columns, add_empty_extent), InCl!AddChild
  PROVE  InCloseKept
<1> DEFINE f == InCl!Top
           E == columns[f.r].extent
           B == Final(columns, f.r)
           V == columns[f.r].intent
           C == Part(E, f.j, f.g)
           D == up(C)
           m == InCl!MoveTo(f, D[f.j])
           W == [V EXCEPT ![f.j] = D[f.j]]
           e == [intent |-> W, extent |-> C]
           q == [r |-> Len(columns) + 1, y |-> f.j]
           x == [m EXCEPT !.children = Append(@, q)]
           w == InCl!NextGradeAfter(x, D[f.j])
           a == After(f.j, D[f.j])
<1>1. InCl!Testing
  BY DEF InCl!AddChild
<1>2. /\ stack # <<>> /\ f = stack[Len(stack)]
      /\ f \in InCloseCalls /\ f.r \in DOMAIN columns /\ columns \in Seq(Columns)
      /\ f.j \in Attributes /\ f.j < NAttr /\ f.g \in GradesSet(I)
      /\ E \in ObjectSets /\ IsConcept(E, B)
      /\ B \in AttrSets /\ V \in AttrSets /\ Leq(V, B)
      /\ \A c \in Attributes : c < f.j => V[c] = B[c]
  BY <1>1, InCloseTop DEF InCl!Testing
<1>3. /\ InCl!Narrow(f) = C /\ InCl!Degree(C, f.j) = D[f.j]
      /\ D[f.j] \in GradesSet(I) /\ D[f.j] \in Grades /\ f.g <= D[f.j]
      /\ IsConcept(C, D) /\ C \in ObjectSets /\ D \in AttrSets
      /\ C # E => V[f.j] = B[f.j] /\ B[f.j] < f.g
      /\ Below(C, E) /\ Leq(B, D)
  BY <1>1, InCloseTested
<1>4. /\ m \in InCloseCalls
      /\ m.r = f.r /\ m.y = f.y /\ m.P = f.P /\ m.j = f.j /\ m.children = f.children
      /\ m.g = D[f.j]
      /\ RuledOutRight(m, columns, add_empty_extent)
  BY <1>1, InCloseLowered
<1>5. /\ C # E /\ C # NoObject /\ InCl!Additions(m, C) = {}
      /\ columns' = Append(columns, e)
      /\ stack' = [stack EXCEPT ![Len(stack)] = w]
      /\ add_empty_extent' = add_empty_extent
  <2> DEFINE c == InCl!Narrow(f)
             n == InCl!MoveTo(f, InCl!Degree(c, f.j))
  <2>1. /\ c # columns[n.r].extent /\ c # InCl!EmptyExtent /\ InCl!Additions(n, c) = {}
        /\ columns' = Append(columns,
             [intent |-> [columns[n.r].intent EXCEPT ![n.j] = n.g], extent |-> c])
        /\ stack' = InCl!ReplaceTop(InCl!NextGradeAfter(
              [n EXCEPT !.children = Append(@, [r |-> Len(columns) + 1, y |-> n.j])], n.g))
        /\ add_empty_extent' = add_empty_extent
    BY Zenon DEF InCl!AddChild
  <2>2. c = C /\ n = m
    BY <1>3
  <2>3. InCl!EmptyExtent = NoObject
    BY InCloseNames
  <2> HIDE DEF c, n, C, m
  <2> QED BY <1>4, <2>1, <2>2, <2>3 DEF InCl!ReplaceTop
<1> HIDE DEF f, E, B, V, C, D, m
<1>6. /\ W \in AttrSets /\ W[f.j] = D[f.j] /\ \A c \in Attributes : c # f.j => W[c] = V[c]
      /\ e \in Columns /\ e.intent = W /\ e.extent = C
  <2>1. W \in AttrSets /\ W[f.j] = D[f.j] /\ \A c \in Attributes : c # f.j => W[c] = V[c]
    BY <1>2, <1>3 DEF AttrSets
  <2> HIDE DEF W
  <2> QED BY <1>3, <2>1 DEF Columns
<1> HIDE DEF W, e
<1>7. \A k \in Attributes : k < f.j => D[k] = B[k]
  <2> SUFFICES ASSUME NEW k \in Attributes, k < f.j PROVE D[k] = B[k]
    OBVIOUS
  <2>1. InCl!Additions(m, C) = {i \in Attributes : i < m.j /\ D[i] > columns[m.r].intent[i]}
    BY InCloseNames DEF InCl!Additions, D
  <2>2. ~(D[k] > B[k])
    BY <1>2, <1>4, <1>5, <2>1 DEF V
  <2>3. B[k] <= D[k] /\ B[k] \in Int /\ D[k] \in Int
    BY <1>2, <1>3, SetValues DEF Leq
  <2> QED BY <2>2, <2>3
<1>8. \A c \in Attributes : c <= f.j => W[c] = D[c]
  BY <1>2, <1>6, <1>7 DEF Attributes
<1>9. Leq(W, D)
  <2> SUFFICES ASSUME NEW c \in Attributes PROVE W[c] <= D[c]
    BY DEF Leq
  <2>1. V[c] <= B[c] /\ B[c] <= D[c]
    BY <1>2, <1>3 DEF Leq
  <2>2. V[c] \in Int /\ B[c] \in Int /\ D[c] \in Int
    BY <1>2, <1>3, SetValues
  <2> QED BY <1>6, <2>1, <2>2
<1>10. D # B
  <2>1. C = E <=> D = B
    <3>1. f.g \in Grades
      BY <1>2, InCloseFields
    <3> QED BY <1>2, <3>1, PartConcept DEF C, D
  <2> QED BY <1>5, <2>1
<1>11. /\ x \in InCloseCalls
       /\ x.r = f.r /\ x.y = f.y /\ x.P = m.P /\ x.G = m.G /\ x.j = f.j
       /\ x.children = Append(f.children, q)
  <2>1. Append(m.children, q) \in Seq([r : Nat, y : Attributes])
    <3>1. Len(columns) + 1 \in Nat
      BY <1>2, LenProperties
    <3>2. q \in [r : Nat, y : Attributes]
      BY <1>2, <3>1
    <3>3. m.children \in Seq([r : Nat, y : Attributes])
      BY <1>4, InCloseFields
    <3> HIDE DEF q
    <3> QED BY <3>2, <3>3, LastPushed
  <2> HIDE DEF q
  <2> QED BY <1>4, <2>1 DEF InCloseCalls
<1> HIDE DEF x
<1>12. /\ w \in InCloseCalls
       /\ w.r = f.r /\ w.y = f.y /\ w.P = m.P /\ w.G = m.G
       /\ w.children = Append(f.children, q)
       /\ w.j = a[1] /\ w.g = a[2]
  BY <1>2, <1>3, <1>11, InCloseNext
<1> HIDE DEF w
<1>13. /\ LoopRegion(ToFind, B, f.j, f.g)
            = DepartingAt(ToFind, B, f.j, f.g, D[f.j]) \cup LoopRegion(ToFind, B, a[1], a[2])
       /\ DepartingAt(ToFind, B, f.j, f.g, D[f.j]) \cap LoopRegion(ToFind, B, a[1], a[2]) = {}
       /\ a[1] \in {f.j, f.j + 1} /\ a[2] \in GradesSet(I)
  <2>1. GradedFamily(ToFind)
    BY FoundTypes DEF GradedFamily
  <2> QED BY <1>2, <1>3, <2>1, LoopAdvances, SMTT(60)
<1>14. DepartingAt(ToFind, B, f.j, f.g, D[f.j]) = Subtree(ToFind, D, f.j)
  <2>1. \A k \in Attributes : k < f.j => D[k] <= B[k]
    <3>1. \A k \in Attributes : B[k] \in Int
      BY <1>2, SetValues
    <3> QED BY <1>7, <3>1
  <2>2. B[f.j] < f.g
    BY <1>3, <1>5
  <2> QED BY <1>2, <2>1, <2>2, LeftBehind DEF C, D
<1>15. \A c \in Attributes : c < w.j => V[c] = B[c]
  <2> SUFFICES ASSUME NEW c \in Attributes, c < w.j PROVE V[c] = B[c]
    OBVIOUS
  <2>1. c < f.j \/ c = f.j
    BY <1>2, <1>12, <1>13 DEF Attributes
  <2> QED BY <1>2, <1>3, <1>5, <2>1
<1>16. w.j < NAttr => V[w.j] = B[w.j] \/ w.g <= B[w.j]
  <2>1. CASE w.j = f.j
    BY <1>3, <1>5, <2>1
  <2>2. CASE w.j = f.j + 1
    <3>1. w.g = 0
      BY <1>2, <1>12, <2>2 DEF After, Attributes
    <3>2. w.j < NAttr => w.j \in Attributes
      BY <1>2, <2>2, NAttrAssumption DEF Attributes
    <3>3. w.j < NAttr => 0 <= B[w.j]
      BY <1>2, <3>2, SetValues DEF Grades
    <3> QED BY <3>1, <3>3
  <2> QED BY <1>12, <1>13, <2>1, <2>2
<1>17. f.j <= w.j
  BY <1>2, <1>12, <1>13 DEF Attributes
<1>18. RuledOutRight(w, columns, add_empty_extent)
  <2>1. w.r = m.r /\ w.y = m.y /\ w.G = m.G /\ w.P = m.P
    BY <1>4, <1>12
  <2>2. \A j \in Attributes, h \in GradesSet(I) :
          FailsAt(m, columns, add_empty_extent, j, h, w.P[j])
    BY <1>4, <2>1 DEF RuledOutRight, FailsAt
  <2> QED BY <2>1, <2>2, RuledWith
<1>19. Branched(w, e, f, columns, add_empty_extent)
  <2>1. up(e.extent) = D /\ Final(columns, f.r) = B
    BY <1>6 DEF D, B
  <2>2. w.children = Append(f.children, [r |-> Len(columns) + 1, y |-> f.j])
    BY <1>12
  <2>3. /\ LoopRegion(ToFind, B, f.j, f.g)
             = Subtree(ToFind, D, f.j) \cup LoopRegion(ToFind, B, w.j, w.g)
        /\ Subtree(ToFind, D, f.j) \cap LoopRegion(ToFind, B, w.j, w.g) = {}
        /\ w.g \in GradesSet(I)
    BY <1>12, <1>13, <1>14
  <2>4. columns[f.r].intent = V /\ columns[f.r].extent = E
    BY DEF V, E
  <2> HIDE DEF q, a
  <2> QED BY <1>2, <1>3, <1>5, <1>6, <1>7, <1>8, <1>9, <1>10, <1>12, <1>15, <1>16, <1>17,
             <1>18, <2>1, <2>2, <2>3, <2>4 DEF Branched
<1>20. /\ InCloseState([stack EXCEPT ![Len(stack)] = w], Append(columns, e), add_empty_extent)
       /\ OneMore(ListedSoFar(stack, columns),
                  ListedSoFar([stack EXCEPT ![Len(stack)] = w], Append(columns, e)))
  <2>1. stack[Len(stack)].j < NAttr /\ Branched(w, e, stack[Len(stack)], columns, add_empty_extent)
    BY <1>2, <1>19
  <2> QED BY <1>2, <2>1, InCloseBranches
<1> QED BY <1>5, <1>20 DEF InCloseKept

\* InClose: a call that has nothing left to do returns.
LEMMA InCloseReturn ==
  ASSUME I \in Contexts, InCloseState(stack, columns, add_empty_extent), InCl!Return
  PROVE  InCloseKept
<1> DEFINE n == Len(stack)
           f == stack[n]
           t == SubSeq(stack, 1, n - 1)
           v == InCloseViews(stack, columns)
           w == InCloseViews(t, columns)
<1>1. /\ stack # <<>> /\ f.j = NAttr /\ f.children = <<>>
      /\ stack' = t /\ columns' = columns /\ add_empty_extent' = add_empty_extent
  BY DEF InCl!Return, InCl!Top
<1>2. /\ stack \in Seq(InCloseCalls) /\ columns \in Seq(Columns) /\ add_empty_extent \in BOOLEAN
      /\ ColumnsRight(stack, columns) /\ Deeper(stack)
      /\ \A i \in DOMAIN stack : /\ InCloseFrame(stack[i], columns)
                                 /\ RuledOutRight(stack[i], columns, add_empty_extent)
      /\ \A i \in DOMAIN stack : i < Len(stack) => stack[i].j = NAttr
      /\ Partition(ToFind, Exceptions(add_empty_extent), ListedSoFar(stack, columns), v)
      /\ add_empty_extent => down(FullSet) = NoObject
  BY DEF InCloseState, Exceptions
<1>3. /\ t \in Seq(InCloseCalls) /\ Len(t) = n - 1
      /\ DOMAIN stack = 1 .. n /\ n \in Nat \ {0} /\ n \in DOMAIN stack
      /\ DOMAIN t = DOMAIN stack \ {n}
      /\ \A i \in DOMAIN t : t[i] = stack[i]
  BY <1>1, <1>2, LastDropped
<1>4. f \in InCloseCalls /\ \A i \in DOMAIN stack : stack[i] \in InCloseCalls
  BY <1>2, <1>3, ElementOfSeq
<1> HIDE DEF t
<1>5. Pending(t) = Pending(stack)
  <2>1. \A i, k : <<i, k>> \in Pending(t) <=>
         /\ i \in DOMAIN t
         /\ (k = 0 /\ t[i].j < NAttr) \/ k \in DOMAIN t[i].children
    BY PendingParts
  <2>2. \A i, k : <<i, k>> \in Pending(stack) <=>
         /\ i \in DOMAIN stack
         /\ (k = 0 /\ stack[i].j < NAttr) \/ k \in DOMAIN stack[i].children
    BY PendingParts
  <2>3. DOMAIN f.children = {}
    BY <1>1
  <2>4. ~(f.j < NAttr)
    BY <1>1, NAttrAssumption
  <2>5. \A k : <<n, k>> \notin Pending(stack)
    BY <2>2, <2>3, <2>4
  <2>6. ASSUME NEW i, NEW k PROVE <<i, k>> \in Pending(t) <=> <<i, k>> \in Pending(stack)
    <3>1. CASE i \in DOMAIN t
      <4>1. t[i] = stack[i] /\ i \in DOMAIN stack
        BY <1>3, <3>1
      <4>2. (k = 0 /\ t[i].j < NAttr) <=> (k = 0 /\ stack[i].j < NAttr)
        BY <4>1
      <4>3. k \in DOMAIN t[i].children <=> k \in DOMAIN stack[i].children
        BY <4>1
      <4> QED BY Zenon, <2>1, <2>2, <3>1, <4>1, <4>2, <4>3
    <3>2. CASE i \notin DOMAIN t
      <4>1. i = n \/ i \notin DOMAIN stack
        BY <1>3, <3>2
      <4> QED BY Zenon, <2>1, <2>2, <2>5, <3>2, <4>1
    <3> QED BY <3>1, <3>2
  <2>7. \A p \in Pending(t) : p = <<p[1], p[2]>>
    BY PendingPairs
  <2>8. \A p \in Pending(stack) : p = <<p[1], p[2]>>
    BY PendingPairs
  <2> QED BY <2>6, <2>7, <2>8
<1>6. \A p \in Pending(stack) : ColumnAt(t, p) = ColumnAt(stack, p) /\ UpTo(t, p) = UpTo(stack, p)
  <2> SUFFICES ASSUME NEW p \in Pending(stack)
               PROVE  ColumnAt(t, p) = ColumnAt(stack, p) /\ UpTo(t, p) = UpTo(stack, p)
    OBVIOUS
  <2>1. p[1] \in DOMAIN t
    BY <1>5, PendingPairs
  <2> QED BY <1>3, <2>1 DEF ColumnAt, UpTo
<1>7. Settled(t, columns) = Settled(stack, columns)
  BY <1>5, <1>6 DEF Settled
<1>8. \A i \in DOMAIN t : t[i] \in InCloseCalls
  BY <1>3, <1>4
<1>9. ColumnsRight(t, columns)
  <2>1. ColumnsRight(stack, columns) <=>
              /\ \A r \in DOMAIN columns :
                   /\ IsConcept(columns[r].extent, Final(columns, r))
                   /\ columns[r].extent # NoObject
                   /\ Leq(columns[r].intent, Final(columns, r))
                   /\ r \in Settled(stack, columns) => columns[r].intent = Final(columns, r)
              /\ \A p \in Pending(stack) : \A c \in Attributes :
                   c < UpTo(stack, p) =>
                     columns[ColumnAt(stack, p)].intent[c] = Final(columns, ColumnAt(stack, p))[c]
              /\ \A i, k \in DOMAIN columns : Final(columns, i) = Final(columns, k) => i = k
    BY <1>4, SettledColumns
  <2>2. \A p \in Pending(t) : \A c \in Attributes :
                   c < UpTo(t, p) =>
                     columns[ColumnAt(t, p)].intent[c] = Final(columns, ColumnAt(t, p))[c]
    BY <1>2, <1>5, <1>6, <2>1
  <2> QED BY <1>2, <1>7, <1>8, <2>1, <2>2, SettledColumns
<1>10. ListedSoFar(t, columns) = ListedSoFar(stack, columns)
  <2>1. Complete(t, columns) = Complete(stack, columns)
    BY <1>4, <1>7, <1>8, SettledColumns
  <2> QED BY <2>1 DEF ListedSoFar
<1>11. Partition(ToFind, Exceptions(add_empty_extent), ListedSoFar(stack, columns), w)
  <2>1. /\ DOMAIN v = DOMAIN stack /\ DOMAIN w = DOMAIN v \ {n} /\ n \in DOMAIN v
        /\ \A i \in DOMAIN w : w[i] = v[i]
    BY <1>3 DEF InCloseViews
  <2>2. DOMAIN v[n].kids = {} /\ Region(ToFind, v[n], 0) = {}
    <3>0. v[n] = InCloseView(f, columns)
      BY <1>3 DEF InCloseViews
    <3>1. /\ v[n].C = Final(columns, f.r) /\ v[n].j = f.j /\ v[n].g = f.g
          /\ v[n].own = (f.j < NAttr) /\ DOMAIN v[n].kids = DOMAIN f.children
      <4> HIDE DEF v, n, f
      <4> QED BY <3>0 DEF InCloseView
    <3>2. LoopRegion(ToFind, Final(columns, f.r), NAttr, f.g) = {}
      <4>1. IsConcept(columns[f.r].extent, Final(columns, f.r))
        BY <1>2, <1>3 DEF ColumnsRight, InCloseFrame
      <4>2. Final(columns, f.r) \in AttrSets
        BY <4>1 DEF IsConcept
      <4> QED BY <4>2, FoundTypes, LoopsOver
    <3>3. ~(f.j < NAttr)
      BY <1>1, NAttrAssumption
    <3>4. ~v[n].own
      <4>1. v[n].own = (f.j < NAttr)
        BY <3>1
      <4> QED BY Zenon, <3>3, <4>1
    <3>5. DOMAIN f.children = {}
      BY <1>1
    <3> HIDE DEF f, v, n
    <3>6. Region(ToFind, v[n], 0) = LoopRegion(ToFind, Final(columns, f.r), f.j, f.g)
      BY <3>1, <3>4 DEF Region
    <3> QED BY <1>1, <3>1, <3>2, <3>5, <3>6
  <2> HIDE DEF v, w, n, Exceptions
  <2> QED BY <1>2, <2>1, <2>2, CallReturns
<1>12. /\ \A i \in DOMAIN t : i < Len(t) => t[i].j = NAttr
       /\ \A i \in DOMAIN t : InCloseFrame(t[i], columns)
                                /\ RuledOutRight(t[i], columns, add_empty_extent)
  BY <1>2, <1>3
<1>13. Deeper(t)
  <2> SUFFICES ASSUME NEW i \in DOMAIN t
               PROVE  t[i].y >= i - 2 /\ (i > 1 => t[i-1].y < t[i].y)
    BY DEF Deeper
  <2>1. i > 1 => i - 1 \in DOMAIN t
    BY <1>3
  <2> QED BY <1>2, <1>3, <2>1 DEF Deeper
<1>14. InCloseState(t, columns, add_empty_extent)
  BY <1>2, <1>3, <1>9, <1>10, <1>11, <1>12, <1>13 DEF InCloseState, Exceptions
<1> QED BY <1>1, <1>10, <1>14 DEF InCloseKept, OneMore

\* InClose: the first call has everything left to it.
LEMMA InCloseStart ==
  ASSUME I \in Contexts, InCl!Start, add_empty_extent = FALSE
  PROVE  /\ InCloseState(stack', columns', add_empty_extent')
         /\ ListedSoFar(stack', columns') = {}
<1> DEFINE A == [o \in Objects |-> K]
           B == up(A)
           e == [intent |-> EmptySet, extent |-> A]
           f == InCl!Call(1, -1, EmptySet, Attributes \X GradesSet(I))
           t == <<f>>
           d == <<e>>
<1>1. columns' = d /\ stack' = t /\ add_empty_extent' = FALSE
  BY InCloseNames DEF InCl!Start
<1>2. /\ EmptySet \in AttrSets /\ A \in ObjectSets /\ B \in AttrSets
      /\ \A b \in AttrSets : Leq(EmptySet, b)
  <2>1. EmptySet \in AttrSets
    BY KAssumption DEF EmptySet, AttrSets, Grades
  <2>2. A \in ObjectSets
    BY KAssumption DEF ObjectSets, Grades
  <2>3. \A b \in AttrSets : \A k \in Attributes : b[k] \in 0 .. K
    BY SetValues DEF Grades
  <2>4. \A b \in AttrSets : Leq(EmptySet, b)
    BY <2>3 DEF Leq, EmptySet
  <2> HIDE DEF A
  <2> QED BY <2>1, <2>2, <2>4, UpDown
<1>3. \A E \in ObjectSets : Below(E, A)
  BY KAssumption DEF Below, ObjectSets, Grades
<1>4. A # NoObject
  <2>1. PICK o \in Objects : TRUE
    BY InputAssumption
  <2>2. A[o] = K /\ NoObject[o] = 0
    BY DEF NoObject
  <2> QED BY <2>2, KAssumption
<1> HIDE DEF A
<1>5. IsConcept(A, B) /\ \A X \in ToFind : Leq(B, X)
  <2>1. Below(A, down(B)) /\ down(B) \in ObjectSets
    BY <1>2, UpDown
  <2>2. A = down(B)
    BY <1>2, <1>3, <2>1, BelowOrder
  <2>3. ASSUME NEW X \in ToFind PROVE Leq(B, X)
    <3>1. X \in AttrSets /\ up(down(X)) = X
      BY DEF ToFind
    <3>2. down(X) \in ObjectSets /\ Below(down(X), A)
      BY <1>3, <3>1, UpDown
    <3> QED BY <1>2, <3>1, <3>2, UpDown
  <2> QED BY <1>2, <2>2, <2>3 DEF IsConcept
<1>6. Subtree(ToFind, B, -1) = ToFind
  <2>1. up(down(B)) = B
    BY <1>5 DEF IsConcept
  <2> HIDE DEF B
  <2> QED BY <1>2, <1>5, <2>1, LeastConcept
<1>7. /\ f \in InCloseCalls /\ f.r = 1 /\ f.y = -1 /\ f.j = 0 /\ f.g = 0
      /\ f.P = EmptySet /\ f.G = Attributes \X GradesSet(I) /\ f.children = <<>>
  <2>1. f = [r |-> 1, y |-> -1, P |-> EmptySet, G |-> Attributes \X GradesSet(I),
             j |-> 0, g |-> 0, children |-> <<>>]
    BY DEF InCl!Call
  <2>2. Attributes \X GradesSet(I) \in SUBSET (Attributes \X Grades) /\ 0 \in Grades
    BY FoundTypes
  <2> HIDE DEF f
  <2> QED BY <1>2, <2>1, <2>2, NAttrAssumption DEF InCloseCalls
<1> HIDE DEF f
<1>8. e \in Columns /\ e.intent = EmptySet /\ e.extent = A
  BY <1>2 DEF Columns
<1> HIDE DEF e
<1>9. /\ t \in Seq(InCloseCalls) /\ DOMAIN t = {1} /\ t[1] = f /\ Len(t) = 1
      /\ d \in Seq(Columns) /\ DOMAIN d = {1} /\ d[1] = e
  BY <1>7, <1>8
<1> HIDE DEF t, d
<1>10. Final(d, 1) = B
  BY <1>8, <1>9 DEF Final
<1> HIDE DEF B
<1>11. Settled(t, d) = {} /\ \A p \in Pending(t) : UpTo(t, p) = 0
  <2>1. \A i, k : <<i, k>> \in Pending(t) <=> i = 1 /\ k = 0
    <3>1. \A i, k : <<i, k>> \in Pending(t) <=>
           /\ i \in DOMAIN t
           /\ (k = 0 /\ t[i].j < NAttr) \/ k \in DOMAIN t[i].children
      BY PendingParts
    <3>2. t[1].j < NAttr /\ DOMAIN t[1].children = {}
      BY <1>7, <1>9, NAttrAssumption
    <3> QED BY <1>9, <3>1, <3>2
  <2>2. \A p \in Pending(t) : p = <<p[1], p[2]>>
    BY PendingPairs
  <2>3. \A p \in Pending(t) : p[1] = 1 /\ p[2] = 0
    BY <2>1, <2>2
  <2>4. <<1, 0>> \in Pending(t) /\ ColumnAt(t, <<1, 0>>) = 1
    BY <1>7, <1>9, <2>1 DEF ColumnAt
  <2>5. \A p \in Pending(t) : UpTo(t, p) = 0
    BY <1>7, <1>9, <2>3 DEF UpTo
  <2>6. Settled(t, d) = {}
    BY <1>9, <2>4 DEF Settled
  <2> QED BY <2>5, <2>6
<1>12. \A i \in DOMAIN t : t[i] \in InCloseCalls
  BY <1>7, <1>9
<1>13. ColumnsRight(t, d)
  <2>1. \A r \in DOMAIN d :
                   /\ IsConcept(d[r].extent, Final(d, r))
                   /\ d[r].extent # NoObject
                   /\ Leq(d[r].intent, Final(d, r))
                   /\ r \in Settled(t, d) => d[r].intent = Final(d, r)
    BY <1>2, <1>4, <1>5, <1>8, <1>9, <1>10, <1>11 DEF IsConcept
  <2>2. \A p \in Pending(t) : \A c \in Attributes : ~(c < UpTo(t, p))
    BY <1>11 DEF Attributes
  <2>3. \A i, k \in DOMAIN d : Final(d, i) = Final(d, k) => i = k
    BY <1>9
  <2> QED BY <1>12, <2>1, <2>2, <2>3, SettledColumns
<1>14. ListedSoFar(t, d) = {}
  <2>1. Complete(t, d) = {}
    BY <1>11, <1>12, SettledColumns
  <2> QED BY <2>1 DEF ListedSoFar
<1>15. Partition(ToFind, Exceptions(FALSE), ListedSoFar(t, d), InCloseViews(t, d))
  <2> DEFINE v == InCloseViews(t, d)
  <2>1. DOMAIN v = {1} /\ v[1] = InCloseView(f, d)
    BY <1>9 DEF InCloseViews
  <2>2. DOMAIN v[1].kids = {}
    BY <1>7, <2>1 DEF InCloseView
  <2>3. Region(ToFind, v[1], 0) = ToFind
    <3>1. /\ v[1].C = B /\ v[1].j = 0 /\ v[1].g = 0 /\ v[1].own = (0 < NAttr)
      BY <1>7, <1>10, <2>1 DEF InCloseView
    <3>2. v[1].own
      <4>1. 0 < NAttr
        BY NAttrAssumption
      <4>2. v[1].own = (0 < NAttr)
        BY <3>1
      <4> QED BY Zenon, <4>1, <4>2
    <3>3. Region(ToFind, v[1], 0) = LoopRegion(ToFind, B, 0, 0) \cup {B}
      BY <3>1, <3>2 DEF Region
    <3>4. Subtree(ToFind, B, -1) = {B} \cup LoopRegion(ToFind, B, -1 + 1, 0)
      <4>1. -1 \in -1 .. NAttr - 1
        BY NAttrAssumption
      <4> QED BY <1>5, <4>1, FoundTypes, SubtreeParts
    <3>5. -1 + 1 = 0
      OBVIOUS
    <3> QED BY <1>6, <3>3, <3>4, <3>5
  <2> HIDE DEF v
  <2>4. Region(ToFind, v[1], 0) \cap {} = {}
    OBVIOUS
  <2>5. ToFind \subseteq {} \cup {} \cup Region(ToFind, v[1], 0)
    BY <2>3
  <2>6. Partition(ToFind, {}, {}, v)
    BY <2>1, <2>2, <2>4, <2>5, FirstCall
  <2> QED BY <1>14, <2>6 DEF Exceptions, v
<1>16. InCloseFrame(f, d)
  <2>1. f.r \in DOMAIN d /\ f.y < f.j /\ f.g \in GradesSet(I)
    BY <1>7, <1>9, FoundTypes
  <2>2. DOMAIN f.children = {}
    BY <1>7
  <2>3. f.g <= Final(d, f.r)[f.j]
    <3>1. 0 \in Attributes
      BY NAttrAssumption DEF Attributes
    <3>2. 0 <= B[0]
      BY <1>5, <3>1, SetValues DEF IsConcept, Grades
    <3> QED BY <1>7, <1>10, <3>2
  <2> QED BY <2>1, <2>2, <2>3 DEF InCloseFrame
<1>17. RuledOutRight(f, d, FALSE)
  <2>1. \A j \in Attributes : ~(0 < f.P[j])
    BY <1>7 DEF EmptySet
  <2>2. \A j \in Attributes, h \in GradesSet(I) : <<j, h>> \in f.G
    BY <1>7
  <2> QED BY <2>1, <2>2 DEF RuledOutRight
<1>18. Deeper(t) /\ (\A i \in DOMAIN t : i < Len(t) => t[i].j = NAttr)
  BY <1>7, <1>9 DEF Deeper
<1>19. InCloseState(t, d, FALSE)
  BY <1>9, <1>13, <1>15, <1>16, <1>17, <1>18 DEF InCloseState, Exceptions
<1> QED BY <1>1, <1>14, <1>19

\* What a call rules out is right for the concepts below its own.
LEMMA RuledBelow ==
  ASSUME I \in Contexts, NEW f, NEW c, NEW cols, NEW a \in BOOLEAN,
         RuledOutRight(f, cols, a), c.P = f.P, c.G = f.G, f.y \in Int, c.y \in Int, f.y < c.y,
         cols[f.r].extent \in ObjectSets, cols[c.r].extent \in ObjectSets,
         Below(cols[c.r].extent, cols[f.r].extent),
         \A i \in Attributes : i < c.y => Final(cols, c.r)[i] = Final(cols, f.r)[i]
  PROVE  RuledOutRight(c, cols, a)
<1> SUFFICES ASSUME NEW j \in Attributes, NEW h \in GradesSet(I)
             PROVE  FailsAt(c, cols, a, j, h, c.P[j])
  BY DEF RuledOutRight, FailsAt
<1>1. FailsAt(f, cols, a, j, h, f.P[j])
  BY DEF RuledOutRight, FailsAt
<1> DEFINE C == Part(cols[f.r].extent, j, h)
           F == Final(cols, f.r)
           D == Part(cols[c.r].extent, j, h)
           G == Final(cols, c.r)
           p == c.P[j]
<1>2. \A i \in Attributes : i < c.y => G[i] = F[i]
  OBVIOUS
<1>3. h \in Grades /\ h \in Int /\ h <= h
  BY FoundTypes DEF Grades
<1>4. C \in ObjectSets /\ D \in ObjectSets /\ Below(D, C)
  BY <1>3, PartValues, PartMonotone
<1> HIDE DEF C, F, D, G
<1>5. up(C) \in AttrSets /\ up(D) \in AttrSets /\ Leq(up(C), up(D))
  BY <1>4, UpDown
<1>6. \A i \in Attributes : up(C)[i] <= up(D)[i] /\ up(C)[i] \in Int /\ up(D)[i] \in Int
  BY <1>5, SetValues DEF Leq
<1>7. /\ 0 < p /\ p <= h =>
           \/ a /\ C = NoObject
           \/ \E k \in Attributes : k <= f.y /\ k < j /\ up(C)[k] > F[k]
      /\ <<j, h>> \notin f.G => up(C)[j] > h
  BY <1>1 DEF FailsAt, C, F
<1> HIDE DEF p
<1>8. C = NoObject => D = NoObject
  BY <1>4, NoObjectConcept
<1>9. ASSUME NEW k \in Attributes, k <= f.y, k < j, up(C)[k] > F[k], F[k] \in Int
      PROVE  k <= c.y /\ k < j /\ up(D)[k] > G[k]
  <2>1. k < c.y /\ k <= c.y
    BY <1>9 DEF Attributes
  <2>2. G[k] = F[k]
    BY <1>2, <2>1
  <2> QED BY <1>6, <1>9, <2>1, <2>2
<1>10. \A k \in Attributes : F[k] \in Int
  <2>1. F \in AttrSets
    BY UpDown DEF F, Final
  <2> QED BY <2>1, SetValues
<1>11. /\ 0 < p /\ p <= h =>
           \/ a /\ D = NoObject
           \/ \E k \in Attributes : k <= c.y /\ k < j /\ up(D)[k] > G[k]
       /\ <<j, h>> \notin c.G => up(D)[j] > h
  <2>1. <<j, h>> \notin c.G => up(D)[j] > h
    BY <1>3, <1>6, <1>7
  <2> QED BY <1>7, <1>8, <1>9, <1>10, <2>1
<1> QED BY <1>11 DEF FailsAt, D, G, p

\* The column of the first child of the last call of st is now that of a new call.
ChildMoved(st, t, n, y, r) ==
  /\ \A p \in Pending(t) : \E q \in Pending(st) :
       /\ ColumnAt(t, p) = ColumnAt(st, q)
       /\ UpTo(t, p) = UpTo(st, q)
       /\ q = <<n, 1>> => y + 1 < NAttr
  /\ \A q \in Pending(st) : q # <<n, 1>> \/ y + 1 < NAttr =>
       \E p \in Pending(t) : ColumnAt(t, p) = ColumnAt(st, q)
  /\ <<n, 1>> \in Pending(st) /\ ColumnAt(st, <<n, 1>>) = r /\ UpTo(st, <<n, 1>>) = y + 1

\* InClose: when a child is called its place is that of the new call.
LEMMA PendingCalled ==
  ASSUME NEW st, NEW t, NEW n \in Nat, NEW c, NEW len \in Nat,
         n \in DOMAIN st, n + 1 \notin DOMAIN st, DOMAIN t = DOMAIN st \cup {n + 1},
         \A i \in DOMAIN st : i # n => t[i] = st[i],
         ~(st[n].j < NAttr), t[n].j = st[n].j, t[n + 1] = c,
         DOMAIN st[n].children = 1 .. len + 1, DOMAIN t[n].children = 1 .. len,
         \A m \in 1 .. len : t[n].children[m] = st[n].children[m + 1],
         DOMAIN c.children = {}, c.r = st[n].children[1].r, c.j = c.y + 1,
         c.y = st[n].children[1].y
  PROVE  ChildMoved(st, t, n, c.y, c.r)
<1>1. \A i, k : <<i, k>> \in Pending(t) <=>
       /\ i \in DOMAIN t
       /\ (k = 0 /\ t[i].j < NAttr) \/ k \in DOMAIN t[i].children
  BY PendingParts
<1>2. \A i, k : <<i, k>> \in Pending(st) <=>
       /\ i \in DOMAIN st
       /\ (k = 0 /\ st[i].j < NAttr) \/ k \in DOMAIN st[i].children
  BY PendingParts
<1>3. \A k : <<n, k>> \in Pending(t) <=> k \in 1 .. len
  <2> SUFFICES ASSUME NEW k PROVE <<n, k>> \in Pending(t) <=> k \in 1 .. len
    OBVIOUS
  <2>1. <<n, k>> \in Pending(t) <=>
          (n \in DOMAIN t /\ ((k = 0 /\ t[n].j < NAttr) \/ k \in DOMAIN t[n].children))
    BY <1>1
  <2>2. n \in DOMAIN t /\ ~(t[n].j < NAttr) /\ DOMAIN t[n].children = 1 .. len
    OBVIOUS
  <2> QED BY Zenon, <2>1, <2>2
<1>4. \A k : <<n, k>> \in Pending(st) <=> k \in 1 .. len + 1
  <2> SUFFICES ASSUME NEW k PROVE <<n, k>> \in Pending(st) <=> k \in 1 .. len + 1
    OBVIOUS
  <2>1. <<n, k>> \in Pending(st) <=>
          (n \in DOMAIN st /\ ((k = 0 /\ st[n].j < NAttr) \/ k \in DOMAIN st[n].children))
    BY <1>2
  <2> QED BY Zenon, <2>1
<1>5. \A k : <<n + 1, k>> \in Pending(t) <=> k = 0 /\ c.y + 1 < NAttr
  <2> SUFFICES ASSUME NEW k PROVE <<n + 1, k>> \in Pending(t) <=> k = 0 /\ c.y + 1 < NAttr
    OBVIOUS
  <2>1. <<n + 1, k>> \in Pending(t) <=>
          (n + 1 \in DOMAIN t
            /\ ((k = 0 /\ t[n + 1].j < NAttr) \/ k \in DOMAIN t[n + 1].children))
    BY <1>1
  <2>2. n + 1 \in DOMAIN t /\ t[n + 1].j = c.y + 1 /\ k \notin DOMAIN t[n + 1].children
    OBVIOUS
  <2> QED BY Zenon, <2>1, <2>2
<1>6. ASSUME NEW i \in DOMAIN st, i # n, NEW k
      PROVE  <<i, k>> \in Pending(t) <=> <<i, k>> \in Pending(st)
  <2>1. t[i] = st[i] /\ i \in DOMAIN t
    BY <1>6
  <2>2. (k = 0 /\ t[i].j < NAttr) <=> (k = 0 /\ st[i].j < NAttr)
    BY <2>1
  <2>3. k \in DOMAIN t[i].children <=> k \in DOMAIN st[i].children
    BY <2>1
  <2> QED BY Zenon, <1>1, <1>2, <1>6, <2>1, <2>2, <2>3
<1>7. /\ 0 \notin 1 .. len /\ 0 \notin 1 .. len + 1 /\ 1 \in 1 .. len + 1 /\ 1 # 0
      /\ \A k \in 1 .. len : k + 1 \in 1 .. len + 1 /\ k + 1 # 1 /\ k # 0 /\ k + 1 # 0
      /\ \A k \in 1 .. len + 1 : k = 1 \/ (k - 1 \in 1 .. len /\ k - 1 + 1 = k)
  OBVIOUS
<1>8. /\ <<n, 1>> \in Pending(st) /\ ColumnAt(st, <<n, 1>>) = c.r
      /\ UpTo(st, <<n, 1>>) = c.y + 1
  BY <1>4, <1>7 DEF ColumnAt, UpTo
<1>9. ASSUME NEW i \in DOMAIN st, i # n, NEW k
      PROVE  ColumnAt(t, <<i, k>>) = ColumnAt(st, <<i, k>>) /\ UpTo(t, <<i, k>>) = UpTo(st, <<i, k>>)
  <2>1. t[i] = st[i]
    BY <1>9
  <2> QED BY <2>1 DEF ColumnAt, UpTo
<1>10. ASSUME NEW k \in 1 .. len
       PROVE  /\ ColumnAt(t, <<n, k>>) = ColumnAt(st, <<n, k + 1>>)
              /\ UpTo(t, <<n, k>>) = UpTo(st, <<n, k + 1>>)
  <2>1. k # 0 /\ k + 1 # 0 /\ t[n].children[k] = st[n].children[k + 1]
    BY <1>7
  <2> QED BY <2>1 DEF ColumnAt, UpTo
<1>11. ColumnAt(t, <<n + 1, 0>>) = c.r /\ UpTo(t, <<n + 1, 0>>) = c.y + 1
  BY DEF ColumnAt, UpTo
<1>12. ASSUME NEW p \in Pending(t)
       PROVE  \E q \in Pending(st) : /\ ColumnAt(t, p) = ColumnAt(st, q)
                                     /\ UpTo(t, p) = UpTo(st, q)
                                     /\ q = <<n, 1>> => c.y + 1 < NAttr
  <2>1. p = <<p[1], p[2]>> /\ p[1] \in DOMAIN t
    BY PendingPairs
  <2>2. CASE p[1] = n
    <3>1. p[2] \in 1 .. len /\ p = <<n, p[2]>>
      BY <1>3, <2>1, <2>2
    <3>2. <<n, p[2] + 1>> \in Pending(st) /\ <<n, p[2] + 1>> # <<n, 1>>
      BY <1>4, <1>7, <3>1
    <3>3. /\ ColumnAt(t, p) = ColumnAt(st, <<n, p[2] + 1>>)
          /\ UpTo(t, p) = UpTo(st, <<n, p[2] + 1>>)
      BY <1>10, <3>1
    <3> QED BY <3>2, <3>3
  <2>3. CASE p[1] = n + 1
    <3>1. p = <<n + 1, 0>> /\ c.y + 1 < NAttr
      BY <1>5, <2>1, <2>3
    <3> QED BY <1>8, <1>11, <3>1
  <2>4. CASE p[1] # n /\ p[1] # n + 1
    <3>1. p[1] \in DOMAIN st
      BY <2>1, <2>4
    <3>2. p \in Pending(st) /\ ColumnAt(t, p) = ColumnAt(st, p) /\ UpTo(t, p) = UpTo(st, p)
      BY <1>6, <1>9, <2>1, <2>4, <3>1
    <3>3. p # <<n, 1>>
      BY <2>4
    <3> QED BY <3>2, <3>3
  <2> QED BY <2>2, <2>3, <2>4
<1>13. ASSUME NEW q \in Pending(st), q # <<n, 1>> \/ c.y + 1 < NAttr
       PROVE  \E p \in Pending(t) : ColumnAt(t, p) = ColumnAt(st, q)
  <2>1. q = <<q[1], q[2]>> /\ q[1] \in DOMAIN st
    BY PendingPairs
  <2>2. CASE q[1] # n
    <3>1. q \in Pending(t) /\ ColumnAt(t, q) = ColumnAt(st, q)
      BY <1>6, <1>9, <2>1, <2>2
    <3> QED BY <3>1
  <2>3. CASE q[1] = n /\ q[2] = 1
    <3>1. q = <<n, 1>>
      BY <2>1, <2>3
    <3>2. <<n + 1, 0>> \in Pending(t)
      BY <1>5, <1>13, <3>1
    <3> QED BY <1>8, <1>11, <3>1, <3>2
  <2>4. CASE q[1] = n /\ q[2] # 1
    <3>1. q[2] \in 1 .. len + 1 /\ q = <<n, q[2]>>
      BY <1>4, <2>1, <2>4
    <3>2. q[2] - 1 \in 1 .. len /\ q[2] - 1 + 1 = q[2]
      BY <1>7, <2>4, <3>1
    <3>3. <<n, q[2] - 1>> \in Pending(t)
      BY <1>3, <3>2
    <3>4. ColumnAt(t, <<n, q[2] - 1>>) = ColumnAt(st, <<n, q[2]>>)
      BY <1>10, <3>2
    <3> QED BY <3>1, <3>3, <3>4
  <2> QED BY <2>2, <2>3, <2>4
<1> QED BY <1>8, <1>12, <1>13 DEF ChildMoved

\* The columns keep their intents; the column of the child is settled when its
\* call has no attribute left.
LEMMA ColumnsCalled ==
  ASSUME NEW st, NEW t, NEW cols, NEW n, NEW y \in -1 .. NAttr - 1, NEW r,
         \A i \in DOMAIN st : st[i] \in InCloseCalls,
         \A i \in DOMAIN t : t[i] \in InCloseCalls,
         ChildMoved(st, t, n, y, r), r \in DOMAIN cols,
         \A p, q \in Pending(st) : ColumnAt(st, p) = ColumnAt(st, q) => p = q,
         ColumnsRight(st, cols), cols \in Seq(Columns)
  PROVE  /\ ColumnsRight(t, cols)
         /\ ListedSoFar(t, cols)
              = ListedSoFar(st, cols) \cup (IF y + 1 < NAttr THEN {} ELSE {Final(cols, r)})
<1>0. /\ \A i \in DOMAIN cols :
                   /\ IsConcept(cols[i].extent, Final(cols, i))
                   /\ cols[i].extent # NoObject
                   /\ Leq(cols[i].intent, Final(cols, i))
                   /\ i \in Settled(st, cols) => cols[i].intent = Final(cols, i)
      /\ \A p \in Pending(st) : \A c \in Attributes :
                   c < UpTo(st, p) =>
                     cols[ColumnAt(st, p)].intent[c] = Final(cols, ColumnAt(st, p))[c]
      /\ \A i, k \in DOMAIN cols : Final(cols, i) = Final(cols, k) => i = k
  BY SettledColumns
<1>1. /\ \A p \in Pending(t) : \E q \in Pending(st) :
           /\ ColumnAt(t, p) = ColumnAt(st, q)
           /\ UpTo(t, p) = UpTo(st, q)
           /\ q = <<n, 1>> => y + 1 < NAttr
      /\ \A q \in Pending(st) : q # <<n, 1>> \/ y + 1 < NAttr =>
           \E p \in Pending(t) : ColumnAt(t, p) = ColumnAt(st, q)
      /\ <<n, 1>> \in Pending(st) /\ ColumnAt(st, <<n, 1>>) = r /\ UpTo(st, <<n, 1>>) = y + 1
  BY DEF ChildMoved
<1>2. Complete(st, cols) = Settled(st, cols) /\ Complete(t, cols) = Settled(t, cols)
  BY SettledColumns
<1>3. Settled(t, cols) = Settled(st, cols) \cup (IF y + 1 < NAttr THEN {} ELSE {r})
  <2>1. ASSUME NEW i \in Settled(t, cols)
        PROVE  i \in Settled(st, cols) \cup (IF y + 1 < NAttr THEN {} ELSE {r})
    <3>1. i \in DOMAIN cols /\ \A p \in Pending(t) : ColumnAt(t, p) # i
      BY <2>1 DEF Settled
    <3>2. \A q \in Pending(st) : q # <<n, 1>> \/ y + 1 < NAttr => ColumnAt(st, q) # i
      BY <1>1, <3>1
    <3>3. CASE y + 1 < NAttr
      BY <3>1, <3>2, <3>3 DEF Settled
    <3>4. CASE ~(y + 1 < NAttr)
      <4>1. i # r => \A q \in Pending(st) : ColumnAt(st, q) # i
        BY <1>1, <3>2
      <4> QED BY <3>1, <3>4, <4>1 DEF Settled
    <3> QED BY <3>3, <3>4
  <2>2. ASSUME NEW i \in Settled(st, cols) PROVE i \in Settled(t, cols)
    <3>1. i \in DOMAIN cols /\ \A p \in Pending(st) : ColumnAt(st, p) # i
      BY <2>2 DEF Settled
    <3> QED BY <1>1, <3>1 DEF Settled
  <2>3. ASSUME ~(y + 1 < NAttr) PROVE r \in Settled(t, cols)
    <3> SUFFICES ASSUME NEW p \in Pending(t), ColumnAt(t, p) = r PROVE FALSE
      BY DEF Settled
    <3>1. PICK q \in Pending(st) : ColumnAt(st, q) = r /\ (q = <<n, 1>> => y + 1 < NAttr)
      BY <1>1
    <3>2. q = <<n, 1>>
      BY <1>1, <3>1
    <3> QED BY <2>3, <3>1, <3>2
  <2> QED BY <2>1, <2>2, <2>3
<1>4. ASSUME NEW p \in Pending(t), NEW c \in Attributes, c < UpTo(t, p)
      PROVE  cols[ColumnAt(t, p)].intent[c] = Final(cols, ColumnAt(t, p))[c]
  <2>1. PICK q \in Pending(st) : ColumnAt(t, p) = ColumnAt(st, q) /\ UpTo(t, p) = UpTo(st, q)
    BY <1>1
  <2> QED BY <1>0, <1>4, <2>1
<1>5. ASSUME NEW i \in Settled(t, cols) PROVE cols[i].intent = Final(cols, i)
  <2>1. CASE i \in Settled(st, cols)
    BY <1>0, <2>1 DEF Settled
  <2>2. CASE i \notin Settled(st, cols)
    <3>1. i = r /\ ~(y + 1 < NAttr)
      BY <1>3, <1>5, <2>2
    <3>2. \A c \in Attributes : c < y + 1
      BY <3>1, NAttrAssumption DEF Attributes
    <3>3. \A c \in Attributes : cols[r].intent[c] = Final(cols, r)[c]
      BY <1>0, <1>1, <3>2
    <3>4. cols[r].intent \in AttrSets /\ Final(cols, r) \in AttrSets
      <4>1. \A k \in DOMAIN cols : cols[k] \in Columns
        BY LenProperties, ElementOfSeq
      <4> QED BY <1>0, <4>1 DEF IsConcept, Columns
    <3> QED BY <3>1, <3>3, <3>4 DEF AttrSets
  <2> QED BY <2>1, <2>2
<1>6. ColumnsRight(t, cols)
  BY <1>0, <1>4, <1>5, SettledColumns
<1>7. ListedSoFar(t, cols) = ListedSoFar(st, cols) \cup (IF y + 1 < NAttr THEN {} ELSE {Final(cols, r)})
  <2>1. /\ ListedSoFar(t, cols) = {Final(cols, i) : i \in Settled(t, cols)}
        /\ ListedSoFar(st, cols) = {Final(cols, i) : i \in Settled(st, cols)}
    BY <1>2, <1>6, ListedFinals
  <2> QED BY <1>3, <2>1
<1> QED BY <1>6, <1>7

\* A frame that has lost its first child.
LEMMA FrameWithout ==
  ASSUME NEW f, NEW m, NEW cols, NEW len \in Nat, NEW a,
         InCloseFrame(f, cols), RuledOutRight(f, cols, a),
         m.r = f.r, m.y = f.y, m.j = f.j, m.g = f.g, m.P = f.P, m.G = f.G,
         DOMAIN f.children = 1 .. len + 1, DOMAIN m.children = 1 .. len,
         \A i \in 1 .. len : m.children[i] = f.children[i + 1]
  PROVE  InCloseFrame(m, cols) /\ RuledOutRight(m, cols, a)
<1>1. \A i \in DOMAIN m.children : \E k \in DOMAIN f.children : m.children[i] = f.children[k]
  <2>1. \A i \in 1 .. len : i + 1 \in 1 .. len + 1
    OBVIOUS
  <2> QED BY <2>1
<1>2. InCloseFrame(m, cols)
  <2>1. \A k \in DOMAIN f.children :
         LET child == f.children[k]
         IN  /\ child.r \in DOMAIN cols
             /\ f.y < child.y
             /\ Below(cols[child.r].extent, cols[f.r].extent)
             /\ \A c \in Attributes :
                  c < child.y => Final(cols, child.r)[c] = Final(cols, f.r)[c]
    BY DEF InCloseFrame
  <2>2. \A k \in DOMAIN m.children :
         LET child == m.children[k]
         IN  /\ child.r \in DOMAIN cols
             /\ f.y < child.y
             /\ Below(cols[child.r].extent, cols[f.r].extent)
             /\ \A c \in Attributes :
                  c < child.y => Final(cols, child.r)[c] = Final(cols, f.r)[c]
    BY <1>1, <2>1
  <2>3. /\ f.r \in DOMAIN cols /\ f.y < f.j /\ f.g \in GradesSet(I)
        /\ f.j < NAttr => \/ cols[f.r].intent[f.j] = Final(cols, f.r)[f.j]
                          \/ f.g <= Final(cols, f.r)[f.j]
    BY DEF InCloseFrame
  <2> QED BY <2>2, <2>3 DEF InCloseFrame
<1>3. RuledOutRight(m, cols, a)
  <2>1. \A j \in Attributes, h \in GradesSet(I) : FailsAt(f, cols, a, j, h, m.P[j])
    BY DEF RuledOutRight, FailsAt
  <2> QED BY <2>1, RuledWith
<1> QED BY <1>2, <1>3

\* InClose: the next child is called with the arrays of its parent.
LEMMA InCloseRecurse ==
  ASSUME I \in Contexts, InCloseState(stack, columns, add_empty_extent), InCl!Recurse
  PROVE  InCloseKept
<1> DEFINE n == Len(stack)
           f == stack[n]
           q == Head(f.children)
           m == [f EXCEPT !.children = Tail(@)]
           c == InCl!Call(q.r, q.y, f.P, f.G)
           s == [stack EXCEPT ![n] = m]
           t == Append(s, c)
           Q == [r : Nat, y : Attributes]
           F == Final(columns, q.r)
<1>1. /\ stack # <<>> /\ f.j = NAttr /\ f.children # <<>>
      /\ stack' = t /\ columns' = columns /\ add_empty_extent' = add_empty_extent
  BY DEF InCl!Recurse, InCl!Top, InCl!ReplaceTop
<1>2. /\ stack \in Seq(InCloseCalls) /\ columns \in Seq(Columns) /\ add_empty_extent \in BOOLEAN
      /\ ColumnsRight(stack, columns) /\ Deeper(stack)
      /\ \A i \in DOMAIN stack : /\ InCloseFrame(stack[i], columns)
                                 /\ RuledOutRight(stack[i], columns, add_empty_extent)
      /\ \A i \in DOMAIN stack : i < Len(stack) => stack[i].j = NAttr
      /\ Partition(ToFind, Exceptions(add_empty_extent), ListedSoFar(stack, columns),
                   InCloseViews(stack, columns))
      /\ add_empty_extent => down(FullSet) = NoObject
  BY DEF InCloseState, Exceptions
<1>3. /\ n \in DOMAIN stack /\ DOMAIN stack = 1 .. n /\ n \in Nat \ {0}
      /\ f \in InCloseCalls /\ n + 1 \notin DOMAIN stack
      /\ \A i \in DOMAIN stack : stack[i] \in InCloseCalls
  BY <1>1, <1>2, LastReplaced, ElementOfSeq
<1>4. f.children \in Seq(Q) /\ f.y \in -1 .. NAttr - 1 /\ f.y \in Int
  BY <1>3, InCloseFields
<1>5. /\ q \in Q /\ Tail(f.children) \in Seq(Q)
      /\ Len(Tail(f.children)) = Len(f.children) - 1
      /\ \A i \in 1 .. Len(Tail(f.children)) : Tail(f.children)[i] = f.children[i + 1]
      /\ Len(Tail(f.children)) \in Nat
      /\ DOMAIN Tail(f.children) = 1 .. Len(Tail(f.children))
      /\ DOMAIN f.children = 1 .. Len(f.children)
  <2>1. /\ q \in Q /\ Tail(f.children) \in Seq(Q)
        /\ Len(Tail(f.children)) = Len(f.children) - 1
        /\ \A i \in 1 .. Len(Tail(f.children)) : Tail(f.children)[i] = f.children[i + 1]
    BY <1>1, <1>4, HeadTailProperties
  <2> QED BY <1>4, <2>1, LenProperties
<1>6. q = f.children[1] /\ 1 \in DOMAIN f.children
  <2>1. Len(f.children) \in Nat \ {0}
    BY <1>1, <1>4, EmptySeq
  <2> QED BY <1>4, <1>5, <2>1
<1>7. /\ q.r \in Nat /\ q.y \in Attributes /\ q.y \in -1 .. NAttr - 1 /\ q.y \in Int
      /\ q.r \in DOMAIN columns /\ f.r \in DOMAIN columns /\ f.y < q.y
      /\ Below(columns[q.r].extent, columns[f.r].extent)
      /\ \A a \in Attributes : a < q.y => Final(columns, q.r)[a] = Final(columns, f.r)[a]
  <2>1. q.r \in Nat /\ q.y \in Attributes /\ q.y \in -1 .. NAttr - 1 /\ q.y \in Int
    BY <1>3, <1>6, InCloseFields
  <2>2. InCloseFrame(f, columns)
    BY <1>2, <1>3
  <2> QED BY <1>6, <2>1, <2>2 DEF InCloseFrame
<1>8. /\ c.r = q.r /\ c.y = q.y /\ c.j = q.y + 1 /\ c.g = 0 /\ c.P = f.P /\ c.G = f.G
      /\ c.children = <<>> /\ DOMAIN c.children = {} /\ c \in InCloseCalls
  <2>1. c = [r |-> q.r, y |-> q.y, P |-> f.P, G |-> f.G, j |-> q.y + 1, g |-> 0,
             children |-> <<>>]
    BY DEF InCl!Call
  <2>2. f.P \in AttrSets /\ f.G \in SUBSET (Attributes \X Grades)
    BY <1>3, InCloseFields
  <2>3. 0 \in Grades /\ q.y + 1 \in 0 .. NAttr
    BY <1>7, NAttrAssumption, FoundTypes
  <2>4. <<>> \in Seq(Q) /\ DOMAIN <<>> = {}
    BY EmptySeq
  <2> HIDE DEF c, q, f
  <2> QED BY <1>7, <2>1, <2>2, <2>3, <2>4 DEF InCloseCalls
<1> DEFINE len == Len(Tail(f.children))
<1>9. /\ m \in InCloseCalls /\ m.r = f.r /\ m.y = f.y /\ m.P = f.P /\ m.G = f.G
      /\ m.j = f.j /\ m.g = f.g /\ m.children = Tail(f.children)
  <2> HIDE DEF f, Q
  <2> QED BY <1>3, <1>5 DEF InCloseCalls, Q
<1>10. /\ DOMAIN f.children = 1 .. len + 1 /\ DOMAIN m.children = 1 .. len /\ len \in Nat
       /\ \A i \in 1 .. len : m.children[i] = f.children[i + 1]
  <2>0. DOMAIN f.children = 1 .. len + 1
    BY <1>4, <1>5, LenProperties
  <2>1. DOMAIN m.children = 1 .. len /\ len \in Nat
    BY <1>5, <1>9
  <2>2. \A i \in 1 .. len : m.children[i] = f.children[i + 1]
    BY <1>5, <1>9
  <2> QED BY <2>0, <2>1, <2>2
<1>11. /\ columns[q.r].extent \in ObjectSets /\ columns[f.r].extent \in ObjectSets
       /\ IsConcept(columns[q.r].extent, F) /\ F \in AttrSets /\ F \in ToFind
  <2>1. /\ IsConcept(columns[q.r].extent, F)
        /\ IsConcept(columns[f.r].extent, Final(columns, f.r))
    BY <1>2, <1>7 DEF ColumnsRight
  <2>2. F \in ToFind
    BY <2>1, FoundTypes
  <2> QED BY <2>1, <2>2 DEF IsConcept
<1>12. InCloseFrame(m, columns) /\ RuledOutRight(m, columns, add_empty_extent)
  <2>1. InCloseFrame(f, columns) /\ RuledOutRight(f, columns, add_empty_extent)
    BY <1>2, <1>3
  <2> HIDE DEF m, f, len
  <2> QED BY <1>9, <1>10, <2>1, FrameWithout
<1>13. InCloseFrame(c, columns)
  <2>1. c.r \in DOMAIN columns /\ c.y < c.j /\ c.g \in GradesSet(I)
    BY <1>7, <1>8, FoundTypes
  <2>2. ASSUME c.j < NAttr PROVE c.g <= Final(columns, c.r)[c.j]
    <3>1. c.j \in Attributes
      BY <1>7, <1>8, <2>2, NAttrAssumption DEF Attributes
    <3>2. F[c.j] \in Grades
      BY <1>11, <3>1, SetValues
    <3> QED BY <1>8, <3>2 DEF Grades
  <2> HIDE DEF c
  <2> QED BY <1>8, <2>1, <2>2 DEF InCloseFrame
<1>14. RuledOutRight(c, columns, add_empty_extent)
  <2>1. RuledOutRight(f, columns, add_empty_extent)
    BY <1>2, <1>3
  <2>2. c.y \in Int /\ f.y < c.y /\ c.P = f.P /\ c.G = f.G
    BY <1>7, <1>8
  <2>3. /\ columns[c.r].extent \in ObjectSets
        /\ Below(columns[c.r].extent, columns[f.r].extent)
        /\ \A i \in Attributes : i < c.y => Final(columns, c.r)[i] = Final(columns, f.r)[i]
    BY <1>7, <1>8, <1>11
  <2> HIDE DEF c, f
  <2> QED BY <1>2, <1>4, <1>11, <2>1, <2>2, <2>3, RuledBelow
<1> HIDE DEF c, m
<1>15. /\ s \in Seq(InCloseCalls) /\ DOMAIN s = DOMAIN stack /\ Len(s) = n
       /\ s[n] = m /\ \A i \in DOMAIN stack : i # n => s[i] = stack[i]
  BY <1>1, <1>2, <1>9, LastReplaced
<1> HIDE DEF s
<1>16. /\ t \in Seq(InCloseCalls) /\ Len(t) = n + 1
       /\ DOMAIN t = DOMAIN stack \cup {n + 1}
       /\ t[n + 1] = c /\ t[n] = m
       /\ \A i \in DOMAIN stack : i # n => t[i] = stack[i]
       /\ \A i \in DOMAIN t : i = n + 1 \/ i = n \/ (i \in DOMAIN stack /\ i # n)
  <2>1. /\ t \in Seq(InCloseCalls) /\ Len(t) = Len(s) + 1
        /\ DOMAIN t = DOMAIN s \cup {Len(s) + 1}
        /\ t[Len(s) + 1] = c /\ \A i \in DOMAIN s : t[i] = s[i]
    <3> HIDE DEF n
    <3> QED BY <1>8, <1>15, LastPushed
  <2> HIDE DEF t, n
  <2> QED BY <1>3, <1>15, <2>1
<1> HIDE DEF t
<1>17. ChildMoved(stack, t, n, q.y, q.r)
  <2>1. ~(f.j < NAttr) /\ t[n].j = f.j
    BY <1>1, <1>9, <1>16, NAttrAssumption
  <2>2. /\ DOMAIN t[n].children = 1 .. len
        /\ \A i \in 1 .. len : t[n].children[i] = f.children[i + 1]
    BY <1>10, <1>16
  <2>3. /\ c.r = f.children[1].r /\ c.y = f.children[1].y /\ c.j = c.y + 1
    BY <1>6, <1>8
  <2>4. n \in Nat /\ n \in DOMAIN stack /\ n + 1 \notin DOMAIN stack
    BY <1>3
  <2>5. ChildMoved(stack, t, n, c.y, c.r)
    <3> HIDE DEF len, n, q
    <3> QED BY <1>8, <1>10, <1>16, <2>1, <2>2, <2>3, <2>4, PendingCalled
  <2> QED BY <1>8, <2>5
<1>18. \A i \in DOMAIN t : t[i] \in InCloseCalls
  BY <1>3, <1>8, <1>9, <1>16
<1>19. /\ ColumnsRight(t, columns)
       /\ ListedSoFar(t, columns)
            = ListedSoFar(stack, columns) \cup (IF q.y + 1 < NAttr THEN {} ELSE {F})
  <2>1. \A a, b \in Pending(stack) : ColumnAt(stack, a) = ColumnAt(stack, b) => a = b
    BY OnePlace
  <2> HIDE DEF n, q
  <2> QED BY <1>2, <1>3, <1>7, <1>17, <1>18, <2>1, ColumnsCalled
<1> DEFINE v == InCloseViews(stack, columns)
           w == InCloseViews(t, columns)
           own == [C |-> F, j |-> q.y + 1, g |-> 0, own |-> TRUE, kids |-> <<>>]
           u == [i \in DOMAIN t |-> IF i = n + 1 THEN own ELSE w[i]]
           L == LoopRegion(ToFind, F, q.y + 1, 0)
<1>20. /\ DOMAIN v = DOMAIN stack /\ DOMAIN w = DOMAIN t
       /\ \A i \in DOMAIN stack : v[i] = InCloseView(stack[i], columns)
       /\ \A i \in DOMAIN t : w[i] = InCloseView(t[i], columns)
  BY DEF InCloseViews
<1>21. /\ DOMAIN v[n].kids = 1 .. len + 1 /\ DOMAIN w[n].kids = 1 .. len
       /\ \A i \in 1 .. len : w[n].kids[i] = v[n].kids[i + 1]
       /\ Region(ToFind, w[n], 0) = Region(ToFind, v[n], 0)
       /\ Region(ToFind, v[n], 1) = Subtree(ToFind, F, q.y)
  <2>1. v[n] = InCloseView(f, columns) /\ w[n] = InCloseView(m, columns)
    BY <1>3, <1>16, <1>20
  <2>2. \A i \in 1 .. len : i + 1 \in 1 .. len + 1
    OBVIOUS
  <2> HIDE DEF v, w, len, f, q, F
  <2>3. /\ DOMAIN v[n].kids = 1 .. len + 1 /\ DOMAIN w[n].kids = 1 .. len
        /\ \A i \in 1 .. len + 1 : v[n].kids[i] = [C |-> Final(columns, f.children[i].r),
                                                   y |-> f.children[i].y]
        /\ \A i \in 1 .. len : w[n].kids[i] = [C |-> Final(columns, m.children[i].r),
                                               y |-> m.children[i].y]
    BY <1>10, <2>1 DEF InCloseView
  <2>4. \A i \in 1 .. len : w[n].kids[i] = v[n].kids[i + 1]
    BY <1>10, <2>2, <2>3
  <2>5. Region(ToFind, w[n], 0) = Region(ToFind, v[n], 0)
    BY <1>9, <2>1 DEF InCloseView, Region
  <2>6. v[n].kids[1] = [C |-> F, y |-> q.y]
    <3>1. 1 \in 1 .. len + 1
      BY <1>10
    <3> QED BY <1>6, <2>3, <3>1 DEF F
  <2>7. Region(ToFind, v[n], 1) = Subtree(ToFind, F, q.y)
    BY <2>6 DEF Region
  <2> QED BY <2>3, <2>4, <2>5, <2>7
<1>22. /\ Subtree(ToFind, F, q.y) = {F} \cup L /\ F \notin L
  BY <1>7, <1>11, FoundTypes, SubtreeParts
<1>23. /\ w[n + 1] = InCloseView(c, columns) /\ DOMAIN w[n + 1].kids = {}
       /\ Region(ToFind, w[n + 1], 0) = L \cup (IF q.y + 1 < NAttr THEN {F} ELSE {})
  <2>1. w[n + 1] = InCloseView(c, columns)
    BY <1>16, <1>20
  <2>2. /\ n + 1 \in DOMAIN t /\ DOMAIN w[n + 1].kids = DOMAIN t[n + 1].children
        /\ Region(ToFind, w[n + 1], 0)
              = LoopRegion(ToFind, Final(columns, t[n + 1].r), t[n + 1].j, t[n + 1].g)
                  \cup (IF t[n + 1].j < NAttr THEN {Final(columns, t[n + 1].r)} ELSE {})
    <3> DEFINE k == n + 1
    <3>1. k \in DOMAIN t
      BY <1>16
    <3> HIDE DEF k
    <3>2. /\ DOMAIN w[k].kids = DOMAIN t[k].children
          /\ Region(ToFind, w[k], 0)
              = LoopRegion(ToFind, Final(columns, t[k].r), t[k].j, t[k].g)
                  \cup (IF t[k].j < NAttr THEN {Final(columns, t[k].r)} ELSE {})
      BY <3>1, InCloseViewed
    <3> QED BY <3>1, <3>2 DEF k
  <2> HIDE DEF w, n, q
  <2> QED BY <1>8, <1>16, <2>1, <2>2
<1>24. w[n + 1].kids = <<>>
  <2> HIDE DEF w, n
  <2>1. w[n + 1].kids = [i \in {} |-> [C |-> Final(columns, c.children[i].r), y |-> c.children[i].y]]
    BY <1>8, <1>23 DEF InCloseView
  <2> QED BY <2>1
<1> HIDE DEF v, w, L
<1>25. /\ DOMAIN u = DOMAIN t /\ u[n + 1] = own
       /\ \A i \in DOMAIN stack : u[i] = w[i]
       /\ own.kids = <<>> /\ DOMAIN <<>> = {}
       /\ Region(ToFind, own, 0) = L \cup {F}
  <2>1. DOMAIN u = DOMAIN t /\ u[n + 1] = own /\ own.kids = <<>> /\ DOMAIN <<>> = {}
    BY <1>16
  <2>2. \A i \in DOMAIN stack : u[i] = w[i]
    BY <1>3, <1>16
  <2>3. Region(ToFind, own, 0) = L \cup {F}
    BY DEF Region, L
  <2> QED BY <2>1, <2>2, <2>3
<1> HIDE DEF u, own
<1>26. Partition(ToFind, Exceptions(add_empty_extent), ListedSoFar(stack, columns), u)
  <2>1. \A i \in DOMAIN v : i # n => u[i] = v[i]
    BY <1>16, <1>20, <1>25
  <2>2. /\ n \in DOMAIN v /\ n + 1 \notin DOMAIN v /\ DOMAIN u = DOMAIN v \cup {n + 1}
        /\ u[n] = w[n] /\ DOMAIN u[n + 1].kids = {}
        /\ Region(ToFind, u[n + 1], 0) = Region(ToFind, v[n], 1)
    BY <1>3, <1>16, <1>20, <1>21, <1>22, <1>25
  <2>3. Partition(ToFind, Exceptions(add_empty_extent), ListedSoFar(stack, columns), v)
    BY <1>2 DEF v
  <2>4. /\ DOMAIN u[n].kids = 1 .. len
        /\ \A i \in 1 .. len : u[n].kids[i] = v[n].kids[i + 1]
        /\ Region(ToFind, u[n], 0) = Region(ToFind, v[n], 0)
    BY <1>21, <2>2
  <2>5. len \in Nat
    BY <1>10
  <2> HIDE DEF len, n, Exceptions
  <2> QED BY <1>21, <2>1, <2>2, <2>3, <2>4, <2>5, ChildCalled
<1>27. Partition(ToFind, Exceptions(add_empty_extent), ListedSoFar(t, columns), w)
  <2>1. /\ n + 1 \in DOMAIN u /\ DOMAIN w = DOMAIN u /\ w[n + 1].kids = u[n + 1].kids
        /\ \A i \in DOMAIN u : i # n + 1 => w[i] = u[i]
    BY <1>16, <1>20, <1>24, <1>25
  <2>2. ~(q.y + 1 < NAttr) => L = {}
    <3> SUFFICES ASSUME ~(q.y + 1 < NAttr) PROVE L = {}
      OBVIOUS
    <3>1. q.y + 1 = NAttr
      BY <1>7, NAttrAssumption
    <3> QED BY <1>11, <3>1, FoundTypes, LoopsOver DEF L
  <2>3. /\ Region(ToFind, u[n + 1], 0) = L \cup {F}
        /\ Region(ToFind, w[n + 1], 0) = L \cup (IF q.y + 1 < NAttr THEN {F} ELSE {})
    BY <1>23, <1>25
  <2> HIDE DEF n, q, F, Exceptions
  <2>4. /\ Region(ToFind, w[n + 1], 0) \subseteq Region(ToFind, u[n + 1], 0)
        /\ ListedSoFar(stack, columns) \subseteq ListedSoFar(t, columns)
        /\ Region(ToFind, u[n + 1], 0)
             \subseteq Region(ToFind, w[n + 1], 0) \cup ListedSoFar(t, columns)
                         \cup Exceptions(add_empty_extent)
    BY <1>19, <2>3
  <2>5. ListedSoFar(t, columns) \ ListedSoFar(stack, columns)
             \subseteq Region(ToFind, u[n + 1], 0) \ Region(ToFind, w[n + 1], 0)
    BY <1>19, <2>2, <2>3
  <2>6. Exceptions(add_empty_extent) \subseteq Exceptions(add_empty_extent)
    OBVIOUS
  <2> QED BY <1>26, <2>1, <2>4, <2>5, <2>6, CallMoves
<1>28. /\ \A i \in DOMAIN t : i < Len(t) => t[i].j = NAttr
       /\ \A i \in DOMAIN t : InCloseFrame(t[i], columns)
                                /\ RuledOutRight(t[i], columns, add_empty_extent)
  <2>1. \A i \in DOMAIN t : InCloseFrame(t[i], columns)
                                /\ RuledOutRight(t[i], columns, add_empty_extent)
    BY <1>2, <1>12, <1>13, <1>14, <1>16
  <2>2. ASSUME NEW i \in DOMAIN t, i < Len(t) PROVE t[i].j = NAttr
    <3>1. CASE i = n
      BY <1>1, <1>9, <1>16, <3>1
    <3>2. CASE i # n
      <4>1. i \in DOMAIN stack /\ i < n
        BY <1>3, <1>16, <2>2, <3>2
      <4> QED BY <1>2, <1>16, <3>2, <4>1
    <3> QED BY <3>1, <3>2
  <2> QED BY <2>1, <2>2
<1>29. Deeper(t)
  <2> SUFFICES ASSUME NEW i \in DOMAIN t
               PROVE  t[i].y >= i - 2 /\ (i > 1 => t[i-1].y < t[i].y)
    BY DEF Deeper
  <2>1. \A k \in DOMAIN stack : t[k].y = stack[k].y
    BY <1>9, <1>16
  <2>2. CASE i \in DOMAIN stack
    <3>1. i > 1 => i - 1 \in DOMAIN stack
      BY <1>3, <2>2
    <3> QED BY <1>2, <2>1, <2>2, <3>1 DEF Deeper
  <2>3. CASE i = n + 1
    <3>1. f.y >= n - 2 /\ t[n].y = f.y /\ t[i].y = q.y /\ i - 1 = n
      <4>1. f.y >= n - 2 /\ t[n].y = f.y
        BY <1>2, <1>3, <1>9, <1>16 DEF Deeper
      <4>2. t[i].y = q.y /\ i - 1 = n
        BY <1>3, <1>8, <1>16, <2>3
      <4> QED BY <4>1, <4>2
    <3> HIDE DEF n, q, f
    <3> QED BY <1>3, <1>4, <1>7, <2>3, <3>1
  <2> QED BY <1>16, <2>2, <2>3
<1>30. InCloseState(t, columns, add_empty_extent)
  BY <1>2, <1>16, <1>19, <1>27, <1>28, <1>29 DEF InCloseState, Exceptions, w
<1>31. OneMore(ListedSoFar(stack, columns), ListedSoFar(t, columns))
  <2>1. CASE q.y + 1 < NAttr
    BY <1>19, <2>1 DEF OneMore
  <2>2. CASE ~(q.y + 1 < NAttr)
    BY <1>19, <2>2 DEF OneMore
  <2> QED BY <2>1, <2>2
<1> QED BY <1>1, <1>30, <1>31 DEF InCloseKept

\* The columns listed when the stack of InClose is empty.
LEMMA InCloseOver ==
  ASSUME NEW cols, NEW st, DOMAIN st = {}
  PROVE  Complete(st, cols) = DOMAIN cols /\ ListedSoFar(st, cols) = Listed(cols)
<1>1. Incomplete(st) = {}
  BY DEF Incomplete
<1>2. Complete(st, cols) = DOMAIN cols
  BY <1>1 DEF Complete
<1> QED BY <1>2 DEF ListedSoFar, Listed

\* InClose: at the end the concept without objects is added when it was met.
LEMMA InCloseAddEmptyExtent ==
  ASSUME I \in Contexts, InCloseState(stack, columns, add_empty_extent),
         InCl!AddEmptyExtent
  PROVE  /\ AllListed(columns')
         /\ OneMore(ListedSoFar(stack, columns), Listed(columns'))
<1> DEFINE e == [intent |-> FullSet, extent |-> NoObject]
           d == Append(columns, e)
<1>1. /\ stack = <<>> /\ DOMAIN stack = {}
      /\ columns' = IF add_empty_extent THEN d ELSE columns
  <2>1. /\ stack = <<>>
        /\ columns' = IF add_empty_extent
                      THEN Append(columns, [intent |-> InCl!FullSet, extent |-> InCl!EmptyExtent])
                      ELSE columns
    BY DEF InCl!AddEmptyExtent
  <2> QED BY <2>1, InCloseNames
<1>2. ListedSoFar(stack, columns) = Listed(columns) /\ Complete(stack, columns) = DOMAIN columns
  BY <1>1, InCloseOver
<1>3. /\ columns \in Seq(Columns)
      /\ \A n \in DOMAIN columns :
           /\ IsConcept(columns[n].extent, columns[n].intent)
           /\ columns[n].extent # NoObject
           /\ columns[n].intent = Final(columns, n)
      /\ \A m, n \in DOMAIN columns : Final(columns, m) = Final(columns, n) => m = n
  <2>1. columns \in Seq(Columns) /\ ColumnsRight(stack, columns)
    BY DEF InCloseState
  <2> QED BY <1>2, <2>1 DEF ColumnsRight
<1>4. Once(columns)
  BY <1>3 DEF Once
<1>5. ToFind \subseteq Listed(columns) \cup Exceptions(add_empty_extent)
  <2>1. Partition(ToFind, Exceptions(add_empty_extent), Listed(columns),
                  InCloseViews(stack, columns))
    BY <1>2 DEF InCloseState, Exceptions
  <2>2. DOMAIN InCloseViews(stack, columns) = {}
    BY <1>1, InCloseViewed
  <2> HIDE DEF Exceptions
  <2> QED BY <2>1, <2>2, AllFound
<1>6. CASE ~add_empty_extent
  BY <1>1, <1>2, <1>3, <1>4, <1>5, <1>6 DEF AllListed, OneMore, Exceptions
<1>7. CASE add_empty_extent
  <2>1. IsConcept(NoObject, FullSet)
    <3>1. down(FullSet) = NoObject
      BY <1>7 DEF InCloseState
    <3>2. FullSet \in AttrSets
      BY KAssumption DEF FullSet, AttrSets, Grades
    <3> QED BY <3>1, <3>2, NoObjectConcept DEF IsConcept
  <2>2. e \in Columns /\ e.intent = FullSet /\ e.extent = NoObject
    BY <2>1 DEF IsConcept, Columns
  <2>3. FullSet \notin Listed(columns)
    <3> SUFFICES ASSUME NEW n \in DOMAIN columns, columns[n].intent = FullSet PROVE FALSE
      BY DEF Listed
    <3>1. columns[n].extent = down(FullSet)
      BY <1>3 DEF IsConcept
    <3>2. down(FullSet) = NoObject
      BY <1>7 DEF InCloseState
    <3> QED BY <1>3, <3>1, <3>2
  <2>4. WithoutObjects \subseteq {FullSet}
    <3> SUFFICES ASSUME NEW X \in WithoutObjects PROVE X = FullSet
      OBVIOUS
    <3>1. up(down(X)) = X /\ down(X) = NoObject
      BY DEF WithoutObjects, ToFind
    <3> QED BY <3>1, NoObjectConcept
  <2> HIDE DEF e
  <2>5. /\ d \in Seq(Columns) /\ Once(d)
        /\ Listed(d) = Listed(columns) \cup {FullSet}
        /\ \A n \in DOMAIN d : d[n] = e \/ (n \in DOMAIN columns /\ d[n] = columns[n])
    BY <1>3, <1>4, <2>2, <2>3, ConceptListed
  <2>6. \A n \in DOMAIN d : IsConcept(d[n].extent, d[n].intent)
    BY <1>3, <2>1, <2>2, <2>5
  <2>7. ToFind \subseteq Listed(d)
    BY <1>5, <1>7, <2>4, <2>5 DEF Exceptions
  <2>8. columns' = d
    BY <1>1, <1>7 DEF e
  <2>9. AllListed(d) /\ OneMore(Listed(columns), Listed(d))
    BY <2>5, <2>6, <2>7 DEF AllListed, OneMore
  <2> HIDE DEF d
  <2> QED BY <1>2, <2>8, <2>9
<1> QED BY <1>6, <1>7

\* A step of InClose, in its core.
LEMMA InClosePreserved ==
  ASSUME I \in Contexts, InCloseState(stack, columns, add_empty_extent), pc = "core", InCl!Next
  PROVE  \/ pc' = "core" /\ InCloseKept
         \/ /\ pc' = "pack" /\ stack' = <<>>
            /\ AllListed(columns')
            /\ OneMore(ListedSoFar(stack, columns), Listed(columns'))
            /\ add_empty_extent' = add_empty_extent
<1>1. CASE InCl!Start
  BY <1>1 DEF InCl!Start
<1>2. CASE InCl!SkipGrade
  BY <1>2, InCloseSkipGrade DEF InCl!SkipGrade
<1>3. CASE InCl!SkipAttribute
  BY <1>3, InCloseSkipAttribute DEF InCl!SkipAttribute
<1>4. CASE InCl!NoObjects
  BY <1>4, InCloseNoObjects DEF InCl!NoObjects
<1>5. CASE InCl!AddToParent
  BY <1>5, InCloseAddToParent DEF InCl!AddToParent
<1>6. CASE InCl!AddChild
  BY <1>6, InCloseAddChild DEF InCl!AddChild
<1>7. CASE InCl!Reject
  BY <1>7, InCloseReject DEF InCl!Reject
<1>8. CASE InCl!Recurse
  BY <1>8, InCloseRecurse DEF InCl!Recurse
<1>9. CASE InCl!Return
  BY <1>9, InCloseReturn DEF InCl!Return
<1>10. CASE InCl!AddEmptyExtent
  <2>1. pc' = "pack" /\ stack' = <<>> /\ add_empty_extent' = add_empty_extent
    BY <1>10 DEF InCl!AddEmptyExtent
  <2> QED BY <1>10, <2>1, InCloseAddEmptyExtent
<1>11. CASE InCl!Finish
  BY <1>11 DEF InCl!Finish
<1> QED BY <1>1, <1>2, <1>3, <1>4, <1>5, <1>6, <1>7, <1>8, <1>9, <1>10, <1>11 DEF InCl!Next

-----------------------------------------------------------------------------
\* The bit-set miner.

\* The attributes before c in attr_support.
Before(c) ==
  {d \in Attributes :
     \/ Reorder!Support(d) < Reorder!Support(c)
     \/ Reorder!Support(d) = Reorder!Support(c) /\ d < c}

\* The order of attr_support is strict and total.
LEMMA BeforeOrder ==
  /\ \A c : Reorder!old_to_new(c) = Cardinality(Before(c))
  /\ \A c \in Attributes : c \notin Before(c)
  /\ \A c, d \in Attributes : c # d => c \in Before(d) \/ d \in Before(c)
  /\ \A c, d \in Attributes : c \in Before(d) => Before(c) \subseteq Before(d)
<1>0. \A S : Reorder!Cardinality(S) = Cardinality(S)
  BY DEF Reorder!Cardinality, Cardinality
<1>1. \A c : Reorder!old_to_new(c) = Cardinality(Before(c))
  BY <1>0 DEF Reorder!old_to_new, Before, Reorder!Attributes, Attributes
<1>2. ASSUME NEW c \in Attributes PROVE Reorder!Support(c) \in Nat
  <2>1. {o \in Objects : I[o][c] = K} \in SUBSET Objects
    OBVIOUS
  <2>2. IsFiniteSet({o \in Objects : I[o][c] = K})
    BY <2>1, InputAssumption, FS_Subset
  <2> QED BY <1>0, <2>2, FS_CardinalityType DEF Reorder!Support
<1>3. \A c \in Attributes : Reorder!Support(c) \in Int /\ c \in Int
  BY <1>2 DEF Attributes
<1> QED BY <1>1, <1>3 DEF Before

\* Renumbering the attributes is a bijection.
LEMMA Renumbering ==
  /\ \A c \in Attributes : Reorder!old_to_new(c) \in Attributes
  /\ \A c, d \in Attributes : Reorder!old_to_new(c) = Reorder!old_to_new(d) => c = d
  /\ \A j \in Attributes : \E c \in Attributes : Reorder!old_to_new(c) = j
<1> DEFINE p == [c \in Attributes |-> Reorder!old_to_new(c)]
<1>1. IsFiniteSet(Attributes) /\ Cardinality(Attributes) = NAttr
  <2>1. NAttr \in Nat \ {0} /\ 0 \in Int /\ NAttr - 1 \in Int
    BY NAttrAssumption
  <2>2. /\ IsFiniteSet(0 .. NAttr - 1)
        /\ Cardinality(0 .. NAttr - 1) = IF 0 > NAttr - 1 THEN 0 ELSE NAttr - 1 - 0 + 1
    BY <2>1, FS_Interval
  <2> QED BY <2>1, <2>2 DEF Attributes
<1>2. ASSUME NEW c \in Attributes
      PROVE  /\ IsFiniteSet(Before(c)) /\ Cardinality(Before(c)) \in Nat
             /\ Cardinality(Before(c)) < NAttr
  <2>1. Before(c) \in SUBSET Attributes /\ c \notin Before(c)
    BY BeforeOrder DEF Before
  <2>2. IsFiniteSet(Before(c)) /\ Cardinality(Before(c)) <= Cardinality(Attributes)
    BY <1>1, <2>1, FS_Subset
  <2>3. Cardinality(Before(c)) # Cardinality(Attributes)
    BY <1>1, <2>1, FS_Subset
  <2>4. Cardinality(Before(c)) \in Nat
    BY <2>2, FS_CardinalityType
  <2> QED BY <1>1, <2>2, <2>3, <2>4, NAttrAssumption
<1>3. \A c \in Attributes : Reorder!old_to_new(c) \in Attributes
  <2> SUFFICES ASSUME NEW c \in Attributes PROVE Cardinality(Before(c)) \in Attributes
    BY BeforeOrder
  <2> QED BY <1>2, NAttrAssumption DEF Attributes
<1>4. ASSUME NEW c \in Attributes, NEW d \in Attributes, c \in Before(d)
      PROVE  Reorder!old_to_new(c) < Reorder!old_to_new(d)
  <2>1. Before(c) \in SUBSET Before(d) /\ Before(c) # Before(d)
    BY <1>4, BeforeOrder
  <2>2. /\ Cardinality(Before(c)) <= Cardinality(Before(d))
        /\ Cardinality(Before(c)) # Cardinality(Before(d))
    BY <1>2, <2>1, FS_Subset
  <2>3. Cardinality(Before(c)) < Cardinality(Before(d))
    BY <1>2, <2>2
  <2> QED BY <2>3, BeforeOrder
<1>5. \A c \in Attributes : Reorder!old_to_new(c) \in Int
  BY <1>3, NAttrAssumption DEF Attributes
<1>6. \A c, d \in Attributes : Reorder!old_to_new(c) = Reorder!old_to_new(d) => c = d
  <2> SUFFICES ASSUME NEW c \in Attributes, NEW d \in Attributes, c # d
               PROVE  Reorder!old_to_new(c) # Reorder!old_to_new(d)
    OBVIOUS
  <2>1. c \in Before(d) \/ d \in Before(c)
    BY BeforeOrder
  <2>2. Reorder!old_to_new(c) < Reorder!old_to_new(d) \/ Reorder!old_to_new(d) < Reorder!old_to_new(c)
    BY <1>4, <2>1
  <2> QED BY <1>5, <2>2
<1>7. p \in Injection(Attributes, Attributes)
  BY <1>3, <1>6 DEF Injection, IsInjective
<1> HIDE DEF p
<1>8. p \in Surjection(Attributes, Attributes)
  BY <1>1, <1>7, FS_Injection
<1>9. \A j \in Attributes : \E c \in Attributes : p[c] = j
  BY <1>8 DEF Surjection
<1>10. \A j \in Attributes : \E c \in Attributes : Reorder!old_to_new(c) = j
  BY <1>9 DEF p
<1> QED BY <1>3, <1>6, <1>10

\* The operators of InCloseReorder in the names used here.
LEMMA ReorderNames ==
  /\ Reorder!Attributes = Attributes
  /\ \A o, c : c \in Attributes =>
       (Reorder!old_to_new(c) \in Reorder!Row(o) <=> I[o][c] = K)
  /\ \A o : Reorder!Row(o) \in SUBSET Attributes
  /\ \A E : Reorder!IntentOf(E) = {j \in Attributes : \A o \in E : j \in Reorder!Row(o)}
  /\ \A B, E : Reorder!Unpack(B, E)
       = [intent |-> [c \in Attributes |-> IF Reorder!old_to_new(c) \in B THEN K ELSE 0],
          extent |-> [o \in Objects |-> IF o \in E THEN K ELSE 0]]
<1>1. Reorder!Attributes = Attributes
  BY DEF Reorder!Attributes, Attributes
<1>2. \A o : Reorder!Row(o) = {Reorder!old_to_new(c) : c \in {d \in Attributes : I[o][d] = K}}
  BY <1>1 DEF Reorder!Row
<1>3. ASSUME NEW o, NEW c \in Attributes
      PROVE  Reorder!old_to_new(c) \in Reorder!Row(o) <=> I[o][c] = K
  BY <1>2, Renumbering
<1>4. \A o : Reorder!Row(o) \in SUBSET Attributes
  BY <1>2, Renumbering
<1>5. /\ \A E : Reorder!IntentOf(E) = {j \in Attributes : \A o \in E : j \in Reorder!Row(o)}
      /\ \A B, E : Reorder!Unpack(B, E)
           = [intent |-> [c \in Attributes |-> IF Reorder!old_to_new(c) \in B THEN K ELSE 0],
              extent |-> [o \in Objects |-> IF o \in E THEN K ELSE 0]]
  BY <1>1 DEF Reorder!IntentOf, Reorder!Unpack
<1> QED BY <1>1, <1>3, <1>4, <1>5

\* The graded sets of a set of new numbers and of a set of objects.
BitIntent(B) == [c \in Attributes |-> IF Reorder!old_to_new(c) \in B THEN K ELSE 0]
BitExtent(E) == [o \in Objects |-> IF o \in E THEN K ELSE 0]

\* The Galois connection between sets of objects and of new numbers.
LEMMA BitConnection ==
  /\ \A E : Reorder!IntentOf(E) \in SUBSET Attributes
  /\ \A B : Having(B) \in SUBSET Objects
  /\ \A E \in SUBSET Objects, B \in SUBSET Attributes :
       B \subseteq Reorder!IntentOf(E) <=> E \subseteq Having(B)
BY ReorderNames DEF Having

\* The closures of the sets of new numbers.
LEMMA BitClosures ==
  /\ \A B \in ClosedBits : B \in SUBSET Attributes /\ Reorder!IntentOf(Having(B)) = B
  /\ \A E \in SUBSET Objects : /\ Reorder!IntentOf(E) \in ClosedBits
                               /\ E \subseteq Having(Reorder!IntentOf(E))
  /\ \A B, C \in SUBSET Attributes : B \subseteq C => Having(C) \subseteq Having(B)
  /\ \A E, F : E \subseteq F => Reorder!IntentOf(F) \subseteq Reorder!IntentOf(E)
<1>1. \A B, C \in SUBSET Attributes : B \subseteq C => Having(C) \subseteq Having(B)
  BY DEF Having
<1>2. \A E, F : E \subseteq F => Reorder!IntentOf(F) \subseteq Reorder!IntentOf(E)
  BY ReorderNames
<1>3. ASSUME NEW E \in SUBSET Objects
      PROVE  /\ Reorder!IntentOf(E) \in ClosedBits
             /\ E \subseteq Having(Reorder!IntentOf(E))
  <2> DEFINE B == Reorder!IntentOf(E)
             F == Having(B)
  <2>1. B \in SUBSET Attributes /\ E \subseteq F /\ F \in SUBSET Objects
    BY BitConnection
  <2>2. Reorder!IntentOf(F) \subseteq B
    BY <1>2, <2>1
  <2>3. B \subseteq Reorder!IntentOf(F)
    BY <2>1, BitConnection
  <2> QED BY <2>1, <2>2, <2>3 DEF ClosedBits
<1> QED BY <1>1, <1>2, <1>3 DEF ClosedBits

\* What a bit set is unpacked to.
LEMMA BitTypes ==
  /\ \A B : BitIntent(B) \in AttrSets
  /\ \A E : BitExtent(E) \in ObjectSets
  /\ \A B, E : /\ Reorder!Unpack(B, E) = [intent |-> BitIntent(B), extent |-> BitExtent(E)]
               /\ Reorder!Unpack(B, E) \in Columns
  /\ \A B \in SUBSET Attributes : Numbers(BitIntent(B)) = B
<1>1. /\ \A B : BitIntent(B) \in AttrSets
      /\ \A E : BitExtent(E) \in ObjectSets
  BY KAssumption DEF BitIntent, BitExtent, AttrSets, ObjectSets, Grades
<1>2. \A B, E : Reorder!Unpack(B, E) = [intent |-> BitIntent(B), extent |-> BitExtent(E)]
  BY ReorderNames DEF BitIntent, BitExtent
<1>3. \A B, E : Reorder!Unpack(B, E) \in Columns
  BY <1>1, <1>2 DEF Columns
<1>4. ASSUME NEW B \in SUBSET Attributes PROVE Numbers(BitIntent(B)) = B
  <2>1. \A c \in Attributes : BitIntent(B)[c] = K <=> Reorder!old_to_new(c) \in B
    BY KAssumption DEF BitIntent
  <2>2. Numbers(BitIntent(B)) = {Reorder!old_to_new(c) : c \in {d \in Attributes : BitIntent(B)[d] = K}}
    BY DEF Numbers
  <2>3. \A j \in B : \E c \in Attributes : Reorder!old_to_new(c) = j
    BY Renumbering
  <2> QED BY <2>1, <2>2, <2>3
<1> QED BY <1>1, <1>2, <1>3, <1>4

\* Under Godel logic a set of objects has the intent that the bit sets give, and
\* a set of attributes the extent.
LEMMA BitDerivations ==
  ASSUME I \in Contexts, AllOnes
  PROVE  /\ \A E \in SUBSET Objects : up(BitExtent(E)) = BitIntent(Reorder!IntentOf(E))
         /\ \A B \in SUBSET Attributes : down(BitIntent(B)) = BitExtent(Having(B))
<1>0. /\ \A o \in Objects, c \in Attributes : I[o][c] \in {0, K}
      /\ K \in Grades /\ K \in Int /\ 0 < K
  BY KAssumption DEF AllOnes, Grades
<1>1. ASSUME NEW E \in SUBSET Objects
      PROVE  up(BitExtent(E)) = BitIntent(Reorder!IntentOf(E))
  <2> DEFINE S == BitExtent(E)
             B == Reorder!IntentOf(E)
  <2>1. S \in ObjectSets /\ up(S) \in AttrSets /\ BitIntent(B) \in AttrSets
    BY BitTypes, UpDown
  <2>2. \A o \in Objects : S[o] = IF o \in E THEN K ELSE 0
    BY DEF BitExtent
  <2> HIDE DEF S
  <2>3. ASSUME NEW c \in Attributes PROVE up(S)[c] = BitIntent(B)[c]
    <3>1. up(S)[c] \in 0 .. K
      BY <2>1, SetValues DEF Grades
    <3>2. Reorder!old_to_new(c) \in B <=> \A o \in E : I[o][c] = K
      BY ReorderNames, Renumbering
    <3>3. BitIntent(B)[c] = IF \A o \in E : I[o][c] = K THEN K ELSE 0
      BY <3>2 DEF BitIntent
    <3>4. CASE \A o \in E : I[o][c] = K
      <4>1. \A o \in Objects : K <= implication_Godel(S[o], I[o][c])
        BY <1>0, <2>2, <3>4 DEF implication_Godel
      <4>2. K <= up(S)[c]
        BY <1>0, <2>1, <4>1, Degrees
      <4> QED BY <1>0, <3>1, <3>3, <3>4, <4>2
    <3>5. CASE ~(\A o \in E : I[o][c] = K)
      <4>1. PICK o \in E : I[o][c] # K
        BY <3>5
      <4>2. I[o][c] = 0 /\ o \in Objects /\ S[o] = K
        BY <1>0, <2>2, <4>1
      <4>3. implication_Godel(S[o], I[o][c]) = 0
        BY <1>0, <4>2 DEF implication_Godel
      <4>4. up(S)[c] <= 0
        BY <2>1, <4>2, <4>3, Degrees
      <4> QED BY <3>1, <3>3, <3>5, <4>4
    <3> QED BY <3>4, <3>5
  <2> QED BY <2>1, <2>3 DEF S, AttrSets
<1>2. ASSUME NEW B \in SUBSET Attributes
      PROVE  down(BitIntent(B)) = BitExtent(Having(B))
  <2> DEFINE S == BitIntent(B)
             E == Having(B)
  <2>1. S \in AttrSets /\ down(S) \in ObjectSets /\ BitExtent(E) \in ObjectSets
    BY BitTypes, UpDown
  <2>2. \A c \in Attributes : S[c] = IF Reorder!old_to_new(c) \in B THEN K ELSE 0
    BY DEF BitIntent
  <2> HIDE DEF S
  <2>3. ASSUME NEW o \in Objects PROVE down(S)[o] = BitExtent(E)[o]
    <3>1. down(S)[o] \in 0 .. K
      BY <2>1 DEF Grades, ObjectSets
    <3>2. o \in E <=> \A c \in Attributes : Reorder!old_to_new(c) \in B => I[o][c] = K
      <4>1. o \in E <=> B \subseteq Reorder!Row(o)
        BY DEF Having
      <4>2. \A j \in B : \E c \in Attributes : j = Reorder!old_to_new(c)
        BY Renumbering
      <4> QED BY <4>1, <4>2, ReorderNames
    <3>3. BitExtent(E)[o] = IF o \in E THEN K ELSE 0
      BY DEF BitExtent
    <3>4. CASE o \in E
      <4>1. \A c \in Attributes : K <= implication_Godel(S[c], I[o][c])
        BY <1>0, <2>2, <3>2, <3>4 DEF implication_Godel
      <4>2. K <= down(S)[o]
        BY <1>0, <2>1, <4>1, Degrees
      <4> QED BY <1>0, <3>1, <3>3, <3>4, <4>2
    <3>5. CASE o \notin E
      <4>1. PICK c \in Attributes : Reorder!old_to_new(c) \in B /\ I[o][c] # K
        BY <3>2, <3>5
      <4>2. I[o][c] = 0 /\ S[c] = K
        BY <1>0, <2>2, <4>1
      <4>3. implication_Godel(S[c], I[o][c]) = 0
        BY <1>0, <4>2 DEF implication_Godel
      <4>4. down(S)[o] <= 0
        BY <2>1, <4>3, Degrees
      <4> QED BY <3>1, <3>3, <3>5, <4>4
    <3> QED BY <3>4, <3>5
  <2> QED BY <2>1, <2>3 DEF S, ObjectSets
<1> QED BY <1>1, <1>2

\* The concepts of Godel logic are those of the bit sets.
LEMMA FoundBits ==
  ASSUME I \in Contexts, AllOnes
  PROVE  /\ \A B \in ClosedBits : IsConcept(BitExtent(Having(B)), BitIntent(B))
         /\ \A X \in ToFind : Numbers(X) \in ClosedBits /\ BitIntent(Numbers(X)) = X
<1>1. ASSUME NEW B \in ClosedBits PROVE IsConcept(BitExtent(Having(B)), BitIntent(B))
  <2>1. B \in SUBSET Attributes /\ Having(B) \in SUBSET Objects /\ Reorder!IntentOf(Having(B)) = B
    BY BitClosures, BitConnection
  <2> QED BY <2>1, BitDerivations, BitTypes DEF IsConcept
<1>2. ASSUME NEW X \in ToFind PROVE Numbers(X) \in ClosedBits /\ BitIntent(Numbers(X)) = X
  <2> DEFINE B == Numbers(X)
             E == Having(B)
  <2>1. X \in AttrSets /\ up(down(X)) = X
    BY DEF ToFind
  <2>2. \A c \in Attributes : X[c] \in {0, K}
    <3>1. GradesSet(I) \subseteq {0, K}
      BY DEF GradesSet, AllOnes
    <3> QED BY <3>1, FoundTypes DEF Graded
  <2>3. B \in SUBSET Attributes /\ \A c \in Attributes : Reorder!old_to_new(c) \in B <=> X[c] = K
    BY Renumbering DEF Numbers
  <2> HIDE DEF B
  <2>4. BitIntent(B) = X
    <3>1. \A c \in Attributes : BitIntent(B)[c] = X[c]
      BY <2>2, <2>3 DEF BitIntent
    <3> QED BY <2>1, <3>1, BitTypes DEF AttrSets
  <2>5. down(X) = BitExtent(E) /\ E \in SUBSET Objects
    BY <2>3, <2>4, BitDerivations, BitConnection
  <2>6. X = BitIntent(Reorder!IntentOf(E))
    BY <2>1, <2>5, BitDerivations
  <2>7. B = Reorder!IntentOf(E)
    BY <2>3, <2>4, <2>6, BitTypes, BitConnection
  <2> QED BY <2>3, <2>4, <2>7 DEF ClosedBits, B
<1> QED BY <1>1, <1>2

\* The sets of new numbers, as graded sets.
LEMMA BitFamily ==
  ASSUME I \in Contexts
  PROVE  /\ GradedFamily(BitsToFind) /\ BitsToFind \subseteq AttrSets
         /\ \A B : Bits(B) \in AttrSets
         /\ \A B : \A c \in Attributes : Bits(B)[c] = IF c \in B THEN K ELSE 0
         /\ \A B, D \in SUBSET Attributes :
              /\ Leq(Bits(B), Bits(D)) <=> B \subseteq D
              /\ Bits(B) = Bits(D) => B = D
         /\ 0 < K /\ K \in Int /\ 0 \in GradesSet(I) /\ K \in GradesSet(I)
<1>1. 0 < K /\ K \in Int /\ 0 \in Grades /\ K \in Grades
  BY KAssumption DEF Grades
<1>2. 0 \in GradesSet(I) /\ K \in GradesSet(I)
  BY FoundTypes
<1>3. \A B : Bits(B) \in AttrSets
  BY <1>1 DEF Bits, AttrSets
<1>4. \A B : \A c \in Attributes : Bits(B)[c] = IF c \in B THEN K ELSE 0
  BY DEF Bits
<1>5. \A B : Graded(I, Bits(B))
  BY <1>2, <1>4 DEF Graded
<1>6. GradedFamily(BitsToFind) /\ BitsToFind \subseteq AttrSets
  BY <1>3, <1>5 DEF GradedFamily, BitsToFind
<1>7. ASSUME NEW B \in SUBSET Attributes, NEW D \in SUBSET Attributes
      PROVE  /\ Leq(Bits(B), Bits(D)) <=> B \subseteq D
             /\ Bits(B) = Bits(D) => B = D
  <2>1. Leq(Bits(B), Bits(D)) => B \subseteq D
    BY <1>1, <1>4 DEF Leq
  <2>2. B \subseteq D => Leq(Bits(B), Bits(D))
    BY <1>1, <1>4 DEF Leq
  <2>3. Bits(B) = Bits(D) => B = D
    <3> SUFFICES ASSUME Bits(B) = Bits(D) PROVE B = D
      OBVIOUS
    <3>1. \A c \in Attributes : c \in B <=> c \in D
      BY <1>1, <1>4
    <3> QED BY <3>1
  <2> QED BY <2>1, <2>2, <2>3
<1> QED BY <1>1, <1>2, <1>3, <1>4, <1>6, <1>7

\* The sets to be found are those of the closed sets of numbers.
LEMMA BitMembers ==
  ASSUME I \in Contexts, NEW X \in BitsToFind
  PROVE  \E B \in ClosedBits : X = Bits(B)
BY DEF BitsToFind

\* What the loop of a call for B leaves behind at the attribute j.
LEMMA BitsBehind ==
  ASSUME I \in Contexts, NEW B \in ClosedBits, NEW j \in Attributes,
         NEW C, C = {o \in Having(B) : j \in Reorder!Row(o)},
         NEW D, D = Reorder!IntentOf(C)
  PROVE  /\ C = Having(D) /\ D \in ClosedBits
         /\ LoopRegion(BitsToFind, Bits(B), j, 0)
              = DepartingAt(BitsToFind, Bits(B), j, 0, K)
                  \cup LoopRegion(BitsToFind, Bits(B), j + 1, 0)
         /\ DepartingAt(BitsToFind, Bits(B), j, 0, K)
              \cap LoopRegion(BitsToFind, Bits(B), j + 1, 0) = {}
         /\ j \in B => DepartingAt(BitsToFind, Bits(B), j, 0, K) = {}
         /\ C = {} => DepartingAt(BitsToFind, Bits(B), j, 0, K) \subseteq BitsWithoutObjects
         /\ (\E k \in D \ B : k < j) => DepartingAt(BitsToFind, Bits(B), j, 0, K) = {}
         /\ j \notin B /\ (\A k \in D \ B : ~(k < j)) =>
              DepartingAt(BitsToFind, Bits(B), j, 0, K) = Subtree(BitsToFind, Bits(D), j)
<1> DEFINE T == BitsToFind
           E == Having(B)
           P == DepartingAt(T, Bits(B), j, 0, K)
<1>1. /\ B \in SUBSET Attributes /\ Reorder!IntentOf(E) = B
      /\ E \in SUBSET Objects /\ C \in SUBSET Objects /\ C \subseteq E
      /\ D \in SUBSET Attributes /\ D \in ClosedBits /\ C \subseteq Having(D)
      /\ Having(D) \in SUBSET Objects
  BY BitClosures, BitConnection
<1>2. B \subseteq D /\ j \in D
  <2>1. B \subseteq D
    BY <1>1, BitClosures
  <2>2. j \in D
    BY ReorderNames
  <2> QED BY <2>1, <2>2
<1>3. ASSUME NEW S \in SUBSET Attributes, B \subseteq S, j \in S
      PROVE  Having(S) \subseteq C
  <2>1. Having(S) \subseteq E
    BY <1>1, <1>3, BitClosures
  <2>2. \A o \in Having(S) : j \in Reorder!Row(o)
    BY <1>3 DEF Having
  <2> QED BY <2>1, <2>2
<1>4. C = Having(D)
  BY <1>1, <1>2, <1>3
<1>5. /\ LoopRegion(T, Bits(B), j, 0) = P \cup LoopRegion(T, Bits(B), j + 1, 0)
      /\ P \cap LoopRegion(T, Bits(B), j + 1, 0) = {}
  <2>1. After(j, K) = <<j + 1, 0>>
    BY BitFamily DEF After
  <2>2. After(j, K)[1] = j + 1 /\ After(j, K)[2] = 0
    BY <2>1
  <2>3. /\ LoopRegion(T, Bits(B), j, 0) = P \cup LoopRegion(T, Bits(B), After(j, K)[1], After(j, K)[2])
        /\ P \cap LoopRegion(T, Bits(B), After(j, K)[1], After(j, K)[2]) = {}
    <3>1. GradedFamily(T) /\ Bits(B) \in AttrSets /\ 0 <= K /\ 0 \in GradesSet(I) /\ K \in GradesSet(I)
      BY BitFamily
    <3> HIDE DEF T
    <3> QED BY <3>1, LoopAdvances
  <2> QED BY <2>2, <2>3
<1>6. ASSUME NEW X \in P
      PROVE  \E S \in ClosedBits :
               /\ X = Bits(S) /\ S \in SUBSET Attributes /\ B \subseteq S /\ j \in S /\ j \notin B
               /\ \A c \in Attributes : c < j => (c \in S <=> c \in B)
               /\ Having(S) \subseteq C /\ D \subseteq S
  <2>1. /\ X \in T /\ Leq(Bits(B), X)
        /\ \A c \in Attributes : c < j => X[c] = Bits(B)[c]
        /\ Bits(B)[j] < X[j]
    BY DEF DepartingAt
  <2>2. PICK S \in ClosedBits : X = Bits(S)
    BY <2>1, BitMembers
  <2>3. S \in SUBSET Attributes /\ Reorder!IntentOf(Having(S)) = S
    BY BitClosures
  <2>4. B \subseteq S
    BY <1>1, <2>1, <2>2, <2>3, BitFamily
  <2>5. j \in S /\ j \notin B
    <3>1. /\ Bits(B)[j] = IF j \in B THEN K ELSE 0
          /\ X[j] = IF j \in S THEN K ELSE 0
      BY <2>2, BitFamily
    <3> QED BY <2>1, <3>1, BitFamily
  <2>6. \A c \in Attributes : c < j => (c \in S <=> c \in B)
    BY <2>1, <2>2, BitFamily
  <2>7. Having(S) \subseteq C
    BY <1>3, <2>3, <2>4, <2>5
  <2>8. D \subseteq S
    BY <2>3, <2>7, BitClosures
  <2> QED BY <2>2, <2>3, <2>4, <2>5, <2>6, <2>7, <2>8
<1> HIDE DEF T, P, E
<1>7. j \in B => P = {}
  BY <1>6
<1>8. C = {} => P \subseteq BitsWithoutObjects
  <2> SUFFICES ASSUME C = {}, NEW X \in P PROVE X \in BitsWithoutObjects
    OBVIOUS
  <2>1. PICK S \in ClosedBits : X = Bits(S) /\ Having(S) \subseteq C
    BY <1>6
  <2>2. Having(S) = {}
    BY <2>1
  <2> QED BY <2>1, <2>2 DEF BitsWithoutObjects
<1>9. (\E k \in D \ B : k < j) => P = {}
  BY <1>1, <1>6
<1>10. ASSUME j \notin B, \A k \in D \ B : ~(k < j)
       PROVE  P = Subtree(T, Bits(D), j)
  <2>1. ASSUME NEW X \in P PROVE X \in Subtree(T, Bits(D), j)
    <3>1. PICK S \in ClosedBits :
               /\ X = Bits(S) /\ S \in SUBSET Attributes /\ B \subseteq S /\ j \in S
               /\ \A c \in Attributes : c < j => (c \in S <=> c \in B)
               /\ D \subseteq S
      BY <1>6
    <3>2. X \in T /\ Leq(Bits(D), X)
      BY <1>1, <3>1, BitFamily DEF BitsToFind, T
    <3>3. ASSUME NEW c \in Attributes, c <= j PROVE X[c] = Bits(D)[c]
      <4>1. c \in S <=> c \in D
        <5>1. CASE c = j
          BY <1>2, <3>1, <5>1
        <5>2. CASE c # j
          <6>1. c < j
            BY <3>3, <5>2, NAttrAssumption DEF Attributes
          <6> QED BY <1>2, <1>10, <3>1, <6>1
        <5> QED BY <5>1, <5>2
      <4> QED BY <3>1, <4>1, BitFamily
    <3> QED BY <3>2, <3>3 DEF Subtree
  <2>2. ASSUME NEW X \in Subtree(T, Bits(D), j) PROVE X \in P
    <3>1. /\ X \in T /\ Leq(Bits(D), X)
          /\ \A c \in Attributes : c <= j => X[c] = Bits(D)[c]
      BY DEF Subtree
    <3>2. PICK S \in ClosedBits : X = Bits(S)
      BY <3>1, BitMembers DEF T
    <3>3. S \in SUBSET Attributes /\ D \subseteq S /\ B \subseteq S
      <4>1. S \in SUBSET Attributes
        BY BitClosures
      <4>2. D \subseteq S
        BY <1>1, <3>1, <3>2, <4>1, BitFamily
      <4> QED BY <1>2, <4>1, <4>2
    <3>4. Leq(Bits(B), X)
      BY <1>1, <3>2, <3>3, BitFamily
    <3>5. /\ \A c \in Attributes : Bits(B)[c] = IF c \in B THEN K ELSE 0
          /\ \A c \in Attributes : Bits(D)[c] = IF c \in D THEN K ELSE 0
          /\ 0 < K /\ K \in Int
      BY BitFamily
    <3>6. ASSUME NEW c \in Attributes, c < j PROVE X[c] = Bits(B)[c]
      <4>1. c <= j
        BY <3>6, NAttrAssumption DEF Attributes
      <4>2. c \in D <=> c \in B
        BY <1>2, <1>10, <3>6
      <4> QED BY <3>1, <3>5, <4>1, <4>2
    <3>7. X[j] = K /\ Bits(B)[j] = 0
      <4>1. j <= j
        BY NAttrAssumption DEF Attributes
      <4> QED BY <1>2, <1>10, <3>1, <3>5, <4>1
    <3> QED BY <3>1, <3>4, <3>5, <3>6, <3>7 DEF DepartingAt, P
  <2> QED BY <2>1, <2>2
<1> QED BY <1>1, <1>4, <1>5, <1>7, <1>8, <1>9, <1>10 DEF T, P

\* What is left to a call itself.
BitRegion(f) ==
  LoopRegion(BitsToFind, Bits(f.intent), f.j, 0)
    \cup (IF f.saved THEN {} ELSE {Bits(f.intent)})

\* The calls of the bit-set miner as the partition sees them.
LEMMA ReorderViewed ==
  ASSUME NEW st
  PROVE  /\ DOMAIN ReorderViews(st) = DOMAIN st
         /\ \A i \in DOMAIN st :
              /\ ReorderViews(st)[i] = ReorderView(st[i])
              /\ ReorderViews(st)[i].kids = <<>> /\ DOMAIN ReorderViews(st)[i].kids = {}
              /\ Region(BitsToFind, ReorderViews(st)[i], 0) = BitRegion(st[i])
<1>1. /\ DOMAIN ReorderViews(st) = DOMAIN st
      /\ \A i \in DOMAIN st : ReorderViews(st)[i] = ReorderView(st[i])
  BY DEF ReorderViews
<1>2. ASSUME NEW f
      PROVE  /\ ReorderView(f).kids = <<>> /\ DOMAIN ReorderView(f).kids = {}
             /\ Region(BitsToFind, ReorderView(f), 0) = BitRegion(f)
  <2> DEFINE v == ReorderView(f)
  <2>1. /\ v.kids = <<>> /\ v.C = Bits(f.intent) /\ v.j = f.j /\ v.g = 0 /\ v.own = ~f.saved
        /\ DOMAIN <<>> = {}
    BY DEF ReorderView
  <2> HIDE DEF v
  <2>2. Region(BitsToFind, v, 0)
          = LoopRegion(BitsToFind, v.C, v.j, v.g) \cup (IF v.own THEN {v.C} ELSE {})
    BY DEF Region
  <2>3. CASE f.saved
    <3>1. ~v.own
      BY Zenon, <2>1, <2>3
    <3> QED BY <2>1, <2>2, <2>3, <3>1 DEF BitRegion, v
  <2>4. CASE ~f.saved
    <3>1. v.own
      BY Zenon, <2>1, <2>4
    <3> QED BY <2>1, <2>2, <2>4, <3>1 DEF BitRegion, v
  <2> QED BY <2>1, <2>3, <2>4 DEF v
<1> QED BY <1>1, <1>2

\* The last call of the bit-set miner has a concept with objects.
LEMMA ReorderTop ==
  ASSUME I \in Contexts, ReorderState(stack, columns), stack # <<>>
  PROVE  LET n == Len(stack)
             f == stack[n]
         IN  /\ n \in DOMAIN stack /\ DOMAIN stack = 1 .. n /\ n \in Nat \ {0}
             /\ n + 1 \notin DOMAIN stack
             /\ f \in ReorderCalls /\ f.saved \in BOOLEAN
             /\ f.j \in 0 .. NAttr /\ f.j \in Int /\ f.j >= n - 1
             /\ f.intent \in ClosedBits /\ f.intent \in SUBSET Attributes
             /\ f.extent = Having(f.intent) /\ f.extent # {}
             /\ f.intent = Reorder!IntentOf(f.extent) /\ f.extent \in SUBSET Objects
<1> DEFINE n == Len(stack)
           f == stack[n]
<1>1. /\ stack \in Seq(ReorderCalls)
      /\ \A i \in DOMAIN stack : ReorderFrame(stack[i])
      /\ \A i \in DOMAIN stack : i < Len(stack) => stack[i].j >= i /\ stack[i].saved
      /\ \A i \in DOMAIN stack : i > 1 => stack[i-1].j <= stack[i].j
  BY DEF ReorderState
<1>2. /\ n \in DOMAIN stack /\ DOMAIN stack = 1 .. n /\ n \in Nat \ {0}
      /\ f \in ReorderCalls
  BY <1>1, LastReplaced
<1>3. /\ f.saved \in BOOLEAN /\ f.j \in 0 .. NAttr /\ f.intent \in SUBSET Attributes
      /\ f.extent \in SUBSET Objects
  BY <1>2 DEF ReorderCalls
<1>4. f.j \in Int
  BY <1>3
<1>5. f.extent = Having(f.intent) /\ f.extent # {} /\ f.intent = Reorder!IntentOf(f.extent)
  BY <1>1, <1>2 DEF ReorderFrame
<1>6. f.intent \in ClosedBits
  BY <1>3, <1>5 DEF ClosedBits
<1>7. f.j >= n - 1
  <2>1. CASE n = 1
    BY <1>3, <2>1
  <2>2. CASE n > 1
    <3>1. n - 1 \in DOMAIN stack /\ n - 1 < n
      BY <1>2, <2>2
    <3>2. stack[n-1].j >= n - 1 /\ stack[n-1].j <= f.j
      BY <1>1, <1>2, <2>2, <3>1
    <3>3. stack[n-1] \in ReorderCalls
      BY <1>1, <3>1, ElementOfSeq
    <3>4. stack[n-1].j \in 0 .. NAttr
      BY <3>3 DEF ReorderCalls
    <3>5. stack[n-1].j \in Int
      BY <3>4
    <3> HIDE DEF n, f
    <3> QED BY <1>2, <1>4, <3>2, <3>5
  <2> QED BY <1>2, <2>1, <2>2
<1> HIDE DEF f, n
<1>8. n + 1 \notin DOMAIN stack
  BY <1>2
<1> QED BY <1>2, <1>3, <1>4, <1>5, <1>6, <1>7, <1>8 DEF f, n

\* The last call moves on, or lists its own set.
LEMMA ReorderMoves ==
  ASSUME I \in Contexts, ReorderState(stack, columns), stack # <<>>,
         NEW f, f = stack[Len(stack)],
         NEW g \in ReorderCalls, g.extent = f.extent, g.intent = f.intent, f.j <= g.j,
         NEW d, BitColumns(d),
         NEW l, l = BitsListed(columns) \ BitsWithoutObjects,
         NEW m, m = BitsListed(d) \ BitsWithoutObjects,
         BitRegion(g) \subseteq BitRegion(f), l \subseteq m,
         m \ l \subseteq BitRegion(f) \ BitRegion(g),
         BitRegion(f) \subseteq BitRegion(g) \cup m \cup BitsWithoutObjects
  PROVE  ReorderState([stack EXCEPT ![Len(stack)] = g], d)
<1> DEFINE n == Len(stack)
           t == [stack EXCEPT ![n] = g]
           v == ReorderViews(stack)
           w == ReorderViews(t)
<1>1. /\ stack \in Seq(ReorderCalls)
      /\ \A i \in DOMAIN stack : ReorderFrame(stack[i])
      /\ \A i \in DOMAIN stack : i < Len(stack) => stack[i].j >= i /\ stack[i].saved
      /\ \A i \in DOMAIN stack : i > 1 => stack[i-1].j <= stack[i].j
      /\ Partition(BitsToFind, BitsWithoutObjects, l, v)
  BY DEF ReorderState
<1>2. /\ t \in Seq(ReorderCalls) /\ Len(t) = n /\ DOMAIN t = DOMAIN stack
      /\ n \in DOMAIN stack /\ n \in Nat \ {0} /\ DOMAIN stack = 1 .. n
      /\ t[n] = g /\ \A i \in DOMAIN stack : i # n => t[i] = stack[i]
  BY <1>1, LastReplaced
<1> HIDE DEF t
<1>3. Partition(BitsToFind, BitsWithoutObjects, m, w)
  <2>1. DOMAIN w = DOMAIN v /\ n \in DOMAIN v
    BY <1>2, ReorderViewed
  <2>2. \A i \in DOMAIN v : i # n => w[i] = v[i]
    BY <1>2, ReorderViewed
  <2>3. /\ w[n].kids = v[n].kids
        /\ Region(BitsToFind, w[n], 0) = BitRegion(g)
        /\ Region(BitsToFind, v[n], 0) = BitRegion(f)
    BY <1>2, ReorderViewed
  <2>4. BitsWithoutObjects \subseteq BitsWithoutObjects
    OBVIOUS
  <2> HIDE DEF v, w, n
  <2> QED BY <1>1, <2>1, <2>2, <2>3, <2>4, CallMoves
<1>4. \A i \in DOMAIN t : ReorderFrame(t[i])
  <2>1. ReorderFrame(g)
    BY <1>1, <1>2 DEF ReorderFrame
  <2> QED BY <1>1, <1>2, <2>1
<1>5. \A i \in DOMAIN t : i < Len(t) => t[i].j >= i /\ t[i].saved
  BY <1>1, <1>2
<1>6. \A i \in DOMAIN t : i > 1 => t[i-1].j <= t[i].j
  <2> SUFFICES ASSUME NEW i \in DOMAIN t, i > 1 PROVE t[i-1].j <= t[i].j
    OBVIOUS
  <2>1. i - 1 \in DOMAIN stack /\ i - 1 # n /\ t[i-1] = stack[i-1] /\ i \in Nat
    BY <1>2
  <2>2. stack[i-1].j <= stack[i].j
    BY <1>1, <1>2
  <2>3. CASE i = n
    <3>1. stack[i-1] \in ReorderCalls /\ f \in ReorderCalls
      BY <1>1, <1>2, <2>1, ElementOfSeq
    <3>2. stack[i-1].j \in 0 .. NAttr /\ f.j \in 0 .. NAttr /\ g.j \in 0 .. NAttr
      BY <3>1 DEF ReorderCalls
    <3>3. stack[i-1].j \in Int /\ f.j \in Int /\ g.j \in Int
      BY <3>2
    <3>4. stack[i-1].j <= f.j /\ t[i].j = g.j /\ t[i-1].j = stack[i-1].j
      BY <1>2, <2>1, <2>2, <2>3
    <3> QED BY <3>3, <3>4
  <2>4. CASE i # n
    BY <1>2, <2>1, <2>2, <2>4
  <2> QED BY <2>3, <2>4
<1> QED BY <1>2, <1>3, <1>4, <1>5, <1>6 DEF ReorderState, t

\* The attribute of the last call is left behind with nothing but exceptions.
LEMMA ReorderAdvances ==
  ASSUME I \in Contexts, ReorderState(stack, columns), Reorder!Running,
         DepartingAt(BitsToFind, Bits(Reorder!Top.intent), Reorder!Top.j, 0, K)
           \subseteq BitsWithoutObjects,
         stack' = Reorder!ReplaceTop(Reorder!NextAttribute), columns' = columns
  PROVE  ReorderState(stack', columns')
<1> DEFINE f == stack[Len(stack)]
           g == [f EXCEPT !.j = @ + 1]
<1>1. /\ stack # <<>> /\ f.saved /\ f.j < NAttr
      /\ stack' = [stack EXCEPT ![Len(stack)] = g]
      /\ DepartingAt(BitsToFind, Bits(f.intent), f.j, 0, K) \subseteq BitsWithoutObjects
  BY DEF Reorder!Running, Reorder!Top, Reorder!ReplaceTop, Reorder!NextAttribute
<1>2. /\ f \in ReorderCalls /\ f.intent \in ClosedBits
      /\ f.j \in 0 .. NAttr /\ f.j \in Int
  BY <1>1, ReorderTop
<1> HIDE DEF f
<1>3. /\ g \in ReorderCalls /\ g.extent = f.extent /\ g.intent = f.intent /\ g.j = f.j + 1
      /\ g.saved = f.saved
  <2>1. f.j + 1 \in 0 .. NAttr
    BY <1>1, <1>2, NAttrAssumption
  <2>2. /\ g = [f EXCEPT !.j = f.j + 1]
        /\ f \in [extent : SUBSET Objects, intent : SUBSET Attributes, j : 0 .. NAttr, saved : BOOLEAN]
    BY <1>2 DEF ReorderCalls
  <2> HIDE DEF g
  <2>3. /\ g \in [extent : SUBSET Objects, intent : SUBSET Attributes, j : 0 .. NAttr, saved : BOOLEAN]
        /\ g.extent = f.extent /\ g.intent = f.intent /\ g.j = f.j + 1 /\ g.saved = f.saved
    BY <2>1, <2>2
  <2> QED BY <2>3 DEF ReorderCalls
<1> HIDE DEF g
<1>4. f.j \in Attributes /\ f.j <= g.j
  BY <1>1, <1>2, <1>3, NAttrAssumption DEF Attributes
<1>5. LoopRegion(BitsToFind, Bits(f.intent), f.j, 0)
        = DepartingAt(BitsToFind, Bits(f.intent), f.j, 0, K)
            \cup LoopRegion(BitsToFind, Bits(f.intent), f.j + 1, 0)
  BY <1>2, <1>4, BitsBehind
<1>6. g.saved
  BY <1>1, <1>3
<1>7. /\ BitRegion(f) = LoopRegion(BitsToFind, Bits(f.intent), f.j, 0)
      /\ BitRegion(g) = LoopRegion(BitsToFind, Bits(f.intent), f.j + 1, 0)
  BY <1>1, <1>3, <1>6 DEF BitRegion
<1>8. /\ BitRegion(g) \subseteq BitRegion(f)
      /\ BitRegion(f) \subseteq BitRegion(g) \cup BitsWithoutObjects
  BY <1>1, <1>5, <1>7
<1>9. BitColumns(columns)
  BY DEF ReorderState
<1>10. ReorderState([stack EXCEPT ![Len(stack)] = g], columns)
  <2> DEFINE l == BitsListed(columns) \ BitsWithoutObjects
  <2>1. /\ l \subseteq l /\ l \ l \subseteq BitRegion(f) \ BitRegion(g)
        /\ BitRegion(f) \subseteq BitRegion(g) \cup l \cup BitsWithoutObjects
    BY <1>8
  <2> QED BY <1>1, <1>3, <1>4, <1>8, <1>9, <2>1, ReorderMoves DEF f
<1> QED BY <1>1, <1>10

\* The bit-set miner passes by an attribute that no concept departs at.
LEMMA ReorderSkip ==
  ASSUME I \in Contexts, ReorderState(stack, columns), Reorder!Skip
  PROVE  ReorderState(stack', columns') /\ columns' = columns
<1> DEFINE f == stack[Len(stack)]
           C == {o \in f.extent : f.j \in Reorder!Row(o)}
           P == DepartingAt(BitsToFind, Bits(f.intent), f.j, 0, K)
<1>1. /\ Reorder!Running /\ stack # <<>> /\ f.j < NAttr
      /\ f.j \in f.intent \/ C = {}
      /\ stack' = Reorder!ReplaceTop(Reorder!NextAttribute) /\ columns' = columns
  BY DEF Reorder!Skip, Reorder!Running, Reorder!Top, Reorder!ChildExtent
<1>2. /\ f.intent \in ClosedBits /\ f.extent = Having(f.intent)
      /\ f.j \in 0 .. NAttr
  BY <1>1, ReorderTop
<1>3. f.j \in Attributes
  BY <1>1, <1>2, NAttrAssumption DEF Attributes
<1>4. /\ f.j \in f.intent => P = {}
      /\ C = {} => P \subseteq BitsWithoutObjects
  <2> DEFINE D == Reorder!IntentOf(C)
  <2>1. C = {o \in Having(f.intent) : f.j \in Reorder!Row(o)} /\ D = Reorder!IntentOf(C)
    BY <1>2
  <2> HIDE DEF f, C, D
  <2> QED BY <1>2, <1>3, <2>1, BitsBehind
<1>5. P \subseteq BitsWithoutObjects
  BY <1>1, <1>4
<1> QED BY <1>1, <1>5, ReorderAdvances DEF Reorder!Top

\* A child that adds an earlier attribute is found elsewhere.
LEMMA ReorderReject ==
  ASSUME I \in Contexts, ReorderState(stack, columns), Reorder!Reject
  PROVE  ReorderState(stack', columns') /\ columns' = columns
<1> DEFINE f == stack[Len(stack)]
           C == {o \in f.extent : f.j \in Reorder!Row(o)}
           D == Reorder!IntentOf(C)
           P == DepartingAt(BitsToFind, Bits(f.intent), f.j, 0, K)
<1>1. /\ Reorder!Running /\ stack # <<>> /\ f.j < NAttr
      /\ ~(\A k \in D \ f.intent : k >= f.j)
      /\ stack' = Reorder!ReplaceTop(Reorder!NextAttribute) /\ columns' = columns
  BY DEF Reorder!Reject, Reorder!Running, Reorder!Top, Reorder!ChildExtent, Reorder!Canonical
<1>2. /\ f.intent \in ClosedBits /\ f.extent = Having(f.intent)
      /\ f.j \in 0 .. NAttr
  BY <1>1, ReorderTop
<1>3. f.j \in Attributes
  BY <1>1, <1>2, NAttrAssumption DEF Attributes
<1>4. \E k \in D \ f.intent : k < f.j
  <2>1. D \in SUBSET Attributes
    BY BitConnection
  <2>2. \A k \in D : k \in Int /\ f.j \in Int
    BY <1>2, <2>1 DEF Attributes
  <2> HIDE DEF f, D
  <2> QED BY <1>1, <2>2
<1>5. P = {}
  <2>1. C = {o \in Having(f.intent) : f.j \in Reorder!Row(o)} /\ D = Reorder!IntentOf(C)
    BY <1>2
  <2> HIDE DEF f, C, D
  <2> QED BY <1>2, <1>3, <1>4, <2>1, BitsBehind
<1>6. P \subseteq BitsWithoutObjects
  BY <1>5
<1> QED BY <1>1, <1>6, ReorderAdvances DEF Reorder!Top

\* A call lists its own concept, which is not listed yet.
LEMMA ReorderEnter ==
  ASSUME I \in Contexts, ReorderState(stack, columns), Reorder!Enter
  PROVE  /\ ReorderState(stack', columns')
         /\ \E e : columns' = Append(columns, e)
<1> DEFINE n == Len(stack)
           f == stack[n]
           g == [f EXCEPT !.saved = TRUE]
           B == f.intent
           e == Reorder!Unpack(B, f.extent)
           d == Append(columns, e)
           l == BitsListed(columns) \ BitsWithoutObjects
           m == BitsListed(d) \ BitsWithoutObjects
<1>1. /\ stack # <<>> /\ ~f.saved
      /\ stack' = [stack EXCEPT ![n] = g] /\ columns' = d
  BY DEF Reorder!Enter, Reorder!Top, Reorder!ReplaceTop
<1>2. /\ f \in ReorderCalls /\ B \in ClosedBits /\ B \in SUBSET Attributes
      /\ f.extent = Having(B) /\ f.extent # {} /\ f.j \in Int
      /\ n \in DOMAIN stack
  BY <1>1, ReorderTop
<1>3. /\ BitColumns(columns) /\ columns \in Seq(Columns) /\ Once(columns)
      /\ \A i \in DOMAIN columns : \E S \in ClosedBits : columns[i] = Reorder!Unpack(S, Having(S))
      /\ BitsWithoutObjects \subseteq BitsListed(columns)
      /\ Partition(BitsToFind, BitsWithoutObjects, l, ReorderViews(stack))
  BY DEF ReorderState, BitColumns
<1>4. e \in Columns /\ e.intent = BitIntent(B) /\ Numbers(e.intent) = B
  BY <1>2, BitTypes
<1> HIDE DEF e
<1>5. Bits(B) \notin BitsWithoutObjects
  <2> SUFFICES ASSUME NEW S \in ClosedBits, Having(S) = {}, Bits(S) = Bits(B) PROVE FALSE
    BY DEF BitsWithoutObjects
  <2>1. S = B
    BY <1>2, BitClosures, BitFamily
  <2> QED BY <1>2, <2>1
<1>6. BitRegion(f) = LoopRegion(BitsToFind, Bits(B), f.j, 0) \cup {Bits(B)}
  BY <1>1 DEF BitRegion
<1>7. Bits(B) \notin BitsListed(columns)
  <2>1. <<n, 0>> \in Places(ReorderViews(stack))
    BY <1>2, ReorderViewed, PlaceParts
  <2>2. Region(ToFind, ReorderViews(stack)[n], 0) = Region(ToFind, ReorderViews(stack)[n], 0)
    OBVIOUS
  <2> HIDE DEF f, B, l
  <2>3. \A p \in Places(ReorderViews(stack)) :
          RegionAt(BitsToFind, ReorderViews(stack), p) \cap l = {}
    BY <1>3 DEF Partition, RegionAt
  <2>4. RegionAt(BitsToFind, ReorderViews(stack), <<n, 0>>) = BitRegion(f)
    BY <1>2, ReorderViewed DEF RegionAt, f
  <2>5. Bits(B) \notin l
    BY <1>6, <2>1, <2>3, <2>4
  <2> QED BY <1>5, <2>5 DEF l
<1>8. e.intent \notin Listed(columns)
  <2> SUFFICES ASSUME NEW i \in DOMAIN columns, columns[i].intent = e.intent PROVE FALSE
    BY DEF Listed
  <2>1. Bits(B) \in BitsListed(columns)
    BY <1>4 DEF BitsListed
  <2> QED BY <1>7, <2>1
<1>9. /\ d \in Seq(Columns) /\ Once(d)
      /\ \A i \in DOMAIN d : d[i] = e \/ (i \in DOMAIN columns /\ d[i] = columns[i])
  BY <1>3, <1>4, <1>8, ConceptListed
<1>10. BitsListed(d) = BitsListed(columns) \cup {Bits(B)}
  <2>1. /\ DOMAIN d = DOMAIN columns \cup {Len(columns) + 1}
        /\ d[Len(columns) + 1] = e /\ \A i \in DOMAIN columns : d[i] = columns[i]
    BY <1>3, <1>4, LastPushed
  <2> HIDE DEF d, B
  <2>2. ASSUME NEW i \in DOMAIN d
        PROVE  Bits(Numbers(d[i].intent)) \in BitsListed(columns) \cup {Bits(B)}
    BY <1>4, <2>1 DEF BitsListed
  <2>3. ASSUME NEW i \in DOMAIN columns
        PROVE  \E k \in DOMAIN d : Bits(Numbers(columns[i].intent)) = Bits(Numbers(d[k].intent))
    BY <2>1
  <2>4. \E k \in DOMAIN d : Bits(B) = Bits(Numbers(d[k].intent))
    BY <1>4, <2>1
  <2> QED BY <2>2, <2>3, <2>4 DEF BitsListed
<1> HIDE DEF d
<1>11. BitColumns(d)
  <2>1. \A i \in DOMAIN d : \E S \in ClosedBits : d[i] = Reorder!Unpack(S, Having(S))
    BY <1>2, <1>3, <1>9 DEF e
  <2> QED BY <1>3, <1>9, <1>10, <2>1 DEF BitColumns
<1>12. /\ g \in ReorderCalls /\ g.extent = f.extent /\ g.intent = f.intent /\ g.j = f.j
       /\ g.saved
  <2> HIDE DEF f
  <2> QED BY <1>2 DEF ReorderCalls
<1> HIDE DEF g
<1>13. BitRegion(g) = LoopRegion(BitsToFind, Bits(B), f.j, 0)
  BY <1>12 DEF BitRegion
<1>14. Bits(B) \notin LoopRegion(BitsToFind, Bits(B), f.j, 0)
  <2>1. \A c \in Attributes : Bits(B)[c] \in Int
    BY BitFamily, SetValues
  <2> QED BY <2>1 DEF LoopRegion
<1>15. /\ BitRegion(g) \subseteq BitRegion(f) /\ l \subseteq m
       /\ m \ l \subseteq BitRegion(f) \ BitRegion(g)
       /\ BitRegion(f) \subseteq BitRegion(g) \cup m \cup BitsWithoutObjects
  BY <1>5, <1>6, <1>10, <1>13, <1>14
<1>16. f.j <= g.j
  BY <1>2, <1>12
<1>17. ReorderState([stack EXCEPT ![n] = g], d)
  <2> HIDE DEF f, l, m
  <2> QED BY <1>1, <1>11, <1>12, <1>15, <1>16, ReorderMoves DEF f, l, m
<1> QED BY <1>1, <1>17 DEF d

\* A call splits: a part of its loops is left to a new call.
LEMMA CallSplits ==
  ASSUME NEW T, NEW E, NEW listed, NEW st, NEW st2,
         Partition(T, E, listed, st),
         NEW n \in DOMAIN st, NEW new, new \notin DOMAIN st,
         DOMAIN st2 = DOMAIN st \cup {new},
         \A i \in DOMAIN st : i # n => st2[i] = st[i],
         DOMAIN st[n].kids = {}, DOMAIN st2[n].kids = {}, DOMAIN st2[new].kids = {},
         Region(T, st[n], 0) = Region(T, st2[n], 0) \cup Region(T, st2[new], 0),
         Region(T, st2[n], 0) \cap Region(T, st2[new], 0) = {}
  PROVE  Partition(T, E, listed, st2)
<1> DEFINE from == [p \in Places(st2) |-> IF p[1] = new THEN <<n, 0>> ELSE p]
<1>1. ASSUME NEW p \in Places(st2)
      PROVE  \/ p = <<new, 0>> /\ from[p] = <<n, 0>>
             \/ p = <<n, 0>> /\ from[p] = <<n, 0>>
             \/ /\ p[1] \in DOMAIN st \ {n} /\ p[2] \in {0} \cup DOMAIN st[p[1]].kids
                /\ p = <<p[1], p[2]>> /\ from[p] = p
  <2>1. p = <<p[1], p[2]>> /\ p[1] \in DOMAIN st2 /\ p[2] \in {0} \cup DOMAIN st2[p[1]].kids
    BY PlaceParts
  <2>2. CASE p[1] = new
    BY <2>1, <2>2
  <2>3. CASE p[1] = n
    BY <2>1, <2>3
  <2>4. CASE p[1] # n /\ p[1] # new
    BY <2>1, <2>4
  <2> QED BY <2>2, <2>3, <2>4
<1>2. /\ RegionAt(T, st, <<n, 0>>)
           = RegionAt(T, st2, <<n, 0>>) \cup RegionAt(T, st2, <<new, 0>>)
      /\ RegionAt(T, st2, <<n, 0>>) \cap RegionAt(T, st2, <<new, 0>>) = {}
      /\ \A p : p[1] \in DOMAIN st \ {n} => RegionAt(T, st2, p) = RegionAt(T, st, p)
  BY DEF RegionAt
<1>3. /\ <<n, 0>> \in Places(st)
      /\ <<new, 0>> \in Places(st2) /\ <<n, 0>> \in Places(st2)
  BY PlaceParts
<1>4. ASSUME NEW p \in Places(st), NEW X \in RegionAt(T, st, p)
      PROVE  \E q \in Places(st2) : X \in RegionAt(T, st2, q)
  <2>1. p = <<p[1], p[2]>> /\ p[1] \in DOMAIN st /\ p[2] \in {0} \cup DOMAIN st[p[1]].kids
    BY PlaceParts
  <2>2. CASE p[1] # n
    <3>1. p \in Places(st2)
      BY <2>1, <2>2, PlaceParts
    <3> QED BY <1>2, <1>4, <2>1, <2>2, <3>1
  <2>3. CASE p[1] = n
    <3>1. p = <<n, 0>>
      BY <2>1, <2>3
    <3> QED BY <1>2, <1>3, <1>4, <3>1
  <2> QED BY <2>2, <2>3
<1> HIDE DEF from
<1>5. \A p \in Places(st2) :
        /\ from[p] \in Places(st)
        /\ RegionAt(T, st2, p) \subseteq RegionAt(T, st, from[p])
        /\ RegionAt(T, st2, p) \cap listed \subseteq listed
  <2> SUFFICES ASSUME NEW p \in Places(st2)
               PROVE  from[p] \in Places(st) /\ RegionAt(T, st2, p) \subseteq RegionAt(T, st, from[p])
    OBVIOUS
  <2>1. CASE p[1] \in DOMAIN st \ {n} /\ p[2] \in {0} \cup DOMAIN st[p[1]].kids
             /\ p = <<p[1], p[2]>> /\ from[p] = p
    BY <1>2, <2>1, PlaceParts
  <2> QED BY <1>1, <1>2, <1>3, <2>1
<1>6. \A p, q \in Places(st2) :
        p # q /\ from[p] = from[q] => RegionAt(T, st2, p) \cap RegionAt(T, st2, q) = {}
  <2> SUFFICES ASSUME NEW p \in Places(st2), NEW q \in Places(st2), p # q, from[p] = from[q]
               PROVE  RegionAt(T, st2, p) \cap RegionAt(T, st2, q) = {}
    OBVIOUS
  <2>1. \/ p = <<new, 0>> /\ q = <<n, 0>>
        \/ p = <<n, 0>> /\ q = <<new, 0>>
    BY <1>1
  <2> QED BY <1>2, <2>1
<1> QED BY <1>4, <1>5, <1>6, Repartition

\* A canonical child takes over what departs at its attribute.
LEMMA ReorderRecurse ==
  ASSUME I \in Contexts, ReorderState(stack, columns), Reorder!Recurse
  PROVE  ReorderState(stack', columns') /\ columns' = columns
<1> DEFINE n == Len(stack)
           f == stack[n]
           B == f.intent
           C == {o \in f.extent : f.j \in Reorder!Row(o)}
           D == Reorder!IntentOf(C)
           g == [f EXCEPT !.j = @ + 1]
           c == Reorder!Call(f.j, C, D)
           s == [stack EXCEPT ![n] = g]
           t == Append(s, c)
           T == BitsToFind
<1>1. /\ stack # <<>> /\ f.saved /\ f.j < NAttr
      /\ f.j \notin B /\ C # {}
      /\ \A k \in D \ B : k >= f.j
      /\ stack' = t /\ columns' = columns
  BY DEF Reorder!Recurse, Reorder!Running, Reorder!Top, Reorder!ChildExtent, Reorder!Canonical,
         Reorder!NextAttribute, Reorder!ReplaceTop
<1>2. /\ stack \in Seq(ReorderCalls)
      /\ \A i \in DOMAIN stack : ReorderFrame(stack[i])
      /\ \A i \in DOMAIN stack : i < Len(stack) => stack[i].j >= i /\ stack[i].saved
      /\ \A i \in DOMAIN stack : i > 1 => stack[i-1].j <= stack[i].j
      /\ BitColumns(columns)
      /\ Partition(T, BitsWithoutObjects, BitsListed(columns) \ BitsWithoutObjects,
                   ReorderViews(stack))
  BY DEF ReorderState
<1>3. /\ n \in DOMAIN stack /\ DOMAIN stack = 1 .. n /\ n \in Nat \ {0}
      /\ n + 1 \notin DOMAIN stack
      /\ f \in ReorderCalls /\ f.j \in 0 .. NAttr /\ f.j \in Int /\ f.j >= n - 1
      /\ B \in ClosedBits /\ f.extent = Having(B)
  BY <1>1, ReorderTop
<1>4. f.j \in Attributes /\ f.j \in -1 .. NAttr - 1 /\ f.j + 1 \in 0 .. NAttr
  BY <1>1, <1>3, NAttrAssumption DEF Attributes
<1>5. /\ C = Having(D) /\ D \in ClosedBits
      /\ LoopRegion(T, Bits(B), f.j, 0)
           = DepartingAt(T, Bits(B), f.j, 0, K) \cup LoopRegion(T, Bits(B), f.j + 1, 0)
      /\ DepartingAt(T, Bits(B), f.j, 0, K) \cap LoopRegion(T, Bits(B), f.j + 1, 0) = {}
      /\ DepartingAt(T, Bits(B), f.j, 0, K) = Subtree(T, Bits(D), f.j)
  <2>1. C = {o \in Having(B) : f.j \in Reorder!Row(o)} /\ D = Reorder!IntentOf(C)
    BY <1>3
  <2>2. \A k \in D \ B : ~(k < f.j)
    <3>1. D \in SUBSET Attributes
      BY BitConnection
    <3>2. \A k \in D : k \in Int
      BY <3>1 DEF Attributes
    <3> HIDE DEF f, D, B
    <3> QED BY <1>1, <1>3, <3>2
  <2> HIDE DEF f, C, D, B
  <2> QED BY <1>1, <1>3, <1>4, <2>1, <2>2, BitsBehind
<1>6. /\ Bits(D) \in T /\ C \in SUBSET Objects /\ D \in SUBSET Attributes
      /\ Subtree(T, Bits(D), f.j) = {Bits(D)} \cup LoopRegion(T, Bits(D), f.j + 1, 0)
  <2>1. Bits(D) \in T /\ C \in SUBSET Objects /\ D \in SUBSET Attributes
    BY <1>5, BitClosures, BitConnection DEF BitsToFind
  <2>2. T \subseteq AttrSets
    BY BitFamily
  <2> HIDE DEF T, D, f, C
  <2> QED BY <1>4, <2>1, <2>2, SubtreeParts
<1>7. /\ c \in ReorderCalls /\ c.extent = C /\ c.intent = D /\ c.j = f.j + 1 /\ ~c.saved
  <2>1. c = [extent |-> C, intent |-> D, j |-> f.j + 1, saved |-> FALSE]
    BY DEF Reorder!Call
  <2> HIDE DEF c, C, D, f
  <2> QED BY <1>4, <1>6, <2>1 DEF ReorderCalls
<1>8. /\ g \in ReorderCalls /\ g.extent = f.extent /\ g.intent = B /\ g.j = f.j + 1 /\ g.saved
  <2>1. /\ g = [f EXCEPT !.j = f.j + 1]
        /\ f \in [extent : SUBSET Objects, intent : SUBSET Attributes, j : 0 .. NAttr, saved : BOOLEAN]
    BY <1>3 DEF ReorderCalls
  <2> HIDE DEF g
  <2>2. /\ g \in [extent : SUBSET Objects, intent : SUBSET Attributes, j : 0 .. NAttr, saved : BOOLEAN]
        /\ g.extent = f.extent /\ g.intent = f.intent /\ g.j = f.j + 1 /\ g.saved = f.saved
    BY <1>4, <2>1
  <2>3. g.saved
    BY Zenon, <1>1, <2>2
  <2> QED BY <2>2, <2>3 DEF ReorderCalls
<1>9. ReorderFrame(c) /\ ReorderFrame(g)
  <2>1. ReorderFrame(f)
    BY <1>2, <1>3
  <2>2. ReorderFrame(g)
    BY <1>8, <2>1 DEF ReorderFrame
  <2>3. ReorderFrame(c)
    BY <1>1, <1>5, <1>7 DEF ReorderFrame
  <2> QED BY <2>2, <2>3
<1> HIDE DEF c, g
<1>10. /\ s \in Seq(ReorderCalls) /\ DOMAIN s = DOMAIN stack /\ Len(s) = n
       /\ s[n] = g /\ \A i \in DOMAIN stack : i # n => s[i] = stack[i]
  BY <1>1, <1>2, <1>8, LastReplaced
<1> HIDE DEF s
<1>11. /\ t \in Seq(ReorderCalls) /\ Len(t) = n + 1
       /\ DOMAIN t = DOMAIN stack \cup {n + 1}
       /\ t[n + 1] = c /\ t[n] = g
       /\ \A i \in DOMAIN stack : i # n => t[i] = stack[i]
  <2>1. /\ t \in Seq(ReorderCalls) /\ Len(t) = Len(s) + 1
        /\ DOMAIN t = DOMAIN s \cup {Len(s) + 1}
        /\ t[Len(s) + 1] = c /\ \A i \in DOMAIN s : t[i] = s[i]
    <3> HIDE DEF n
    <3> QED BY <1>7, <1>10, LastPushed
  <2> HIDE DEF t, n
  <2> QED BY <1>3, <1>10, <2>1
<1> HIDE DEF t
<1> DEFINE v == ReorderViews(stack)
           w == ReorderViews(t)
           k == n + 1
<1>12. /\ k \notin DOMAIN stack /\ DOMAIN t = DOMAIN stack \cup {k} /\ t[k] = c
       /\ k \in DOMAIN t /\ n \in DOMAIN t
  BY <1>3, <1>11
<1>13. /\ BitRegion(f) = LoopRegion(T, Bits(B), f.j, 0)
       /\ BitRegion(g) = LoopRegion(T, Bits(B), f.j + 1, 0)
       /\ BitRegion(c) = Subtree(T, Bits(D), f.j)
  <2>1. BitRegion(f) = LoopRegion(T, Bits(B), f.j, 0)
    BY <1>1 DEF BitRegion
  <2>2. BitRegion(g) = LoopRegion(T, Bits(B), f.j + 1, 0)
    BY <1>8 DEF BitRegion
  <2>3. BitRegion(c) = Subtree(T, Bits(D), f.j)
    BY <1>6, <1>7 DEF BitRegion
  <2> QED BY <2>1, <2>2, <2>3
<1>14. Partition(T, BitsWithoutObjects, BitsListed(columns) \ BitsWithoutObjects, w)
  <2> HIDE DEF k, n, f, B, C, D, T
  <2>1. /\ n \in DOMAIN v /\ k \notin DOMAIN v /\ DOMAIN w = DOMAIN v \cup {k}
        /\ \A i \in DOMAIN v : i # n => w[i] = v[i]
    <3>1. /\ DOMAIN v = DOMAIN stack /\ DOMAIN w = DOMAIN t
          /\ \A i \in DOMAIN stack : v[i] = ReorderView(stack[i])
          /\ \A i \in DOMAIN t : w[i] = ReorderView(t[i])
      BY DEF ReorderViews
    <3> HIDE DEF v, w
    <3> QED BY <1>3, <1>11, <1>12, <3>1
  <2>2. /\ DOMAIN v[n].kids = {} /\ DOMAIN w[n].kids = {} /\ DOMAIN w[k].kids = {}
        /\ Region(T, v[n], 0) = BitRegion(f)
        /\ Region(T, w[n], 0) = BitRegion(g)
        /\ Region(T, w[k], 0) = BitRegion(c)
    BY <1>3, <1>11, <1>12, ReorderViewed DEF f, T
  <2>3. /\ Region(T, v[n], 0) = Region(T, w[n], 0) \cup Region(T, w[k], 0)
        /\ Region(T, w[n], 0) \cap Region(T, w[k], 0) = {}
    BY <1>5, <1>13, <2>2
  <2> HIDE DEF v, w
  <2> QED BY <1>2, <2>1, <2>2, <2>3, CallSplits DEF v
<1>15. \A i \in DOMAIN t : ReorderFrame(t[i])
  BY <1>2, <1>9, <1>11
<1>16. \A i \in DOMAIN t : i < Len(t) => t[i].j >= i /\ t[i].saved
  <2> SUFFICES ASSUME NEW i \in DOMAIN t, i < Len(t) PROVE t[i].j >= i /\ t[i].saved
    OBVIOUS
  <2>1. i \in DOMAIN stack
    BY <1>3, <1>11
  <2>2. CASE i = n
    <3>1. t[i] = g /\ g.j = f.j + 1 /\ g.saved
      BY <1>8, <1>11, <2>2
    <3>2. g.j >= i
      <4> HIDE DEF n, f
      <4> QED BY <1>3, <2>2, <3>1
    <3>3. t[i].saved
      BY Zenon, <3>1
    <3> QED BY <3>1, <3>2, <3>3
  <2>3. CASE i # n
    <3>1. i < n
      BY <1>3, <2>1, <2>3
    <3> QED BY <1>2, <1>11, <2>1, <2>3, <3>1
  <2> QED BY <2>2, <2>3
<1>17. \A i \in DOMAIN t : i > 1 => t[i-1].j <= t[i].j
  <2> SUFFICES ASSUME NEW i \in DOMAIN t, i > 1 PROVE t[i-1].j <= t[i].j
    OBVIOUS
  <2>1. CASE i = n + 1
    <3>1. i - 1 = n
      BY <1>3, <2>1
    <3>2. t[i-1].j = f.j + 1 /\ t[i].j = f.j + 1
      BY <1>7, <1>8, <1>11, <2>1, <3>1
    <3> QED BY <1>3, <3>2
  <2>2. CASE i = n
    <3>1. i - 1 \in DOMAIN stack /\ i - 1 # n
      <4>1. i > 1
        OBVIOUS
      <4> HIDE DEF n, f, t
      <4> QED BY <1>3, <2>2, <4>1
    <3>2. stack[i-1].j <= f.j /\ t[i].j = f.j + 1 /\ t[i-1].j = stack[i-1].j
      BY <1>2, <1>3, <1>8, <1>11, <2>2, <3>1
    <3>3. stack[i-1] \in ReorderCalls
      BY <1>2, <3>1, ElementOfSeq
    <3>4. stack[i-1].j \in 0 .. NAttr
      BY <3>3 DEF ReorderCalls
    <3>5. stack[i-1].j \in Int
      BY <3>4
    <3> QED BY <1>3, <3>2, <3>5
  <2>3. CASE i # n /\ i # n + 1
    <3>1. i \in DOMAIN stack /\ i - 1 \in DOMAIN stack /\ i - 1 # n
      BY <1>3, <1>11, <2>3
    <3>2. t[i] = stack[i] /\ t[i-1] = stack[i-1]
      BY <1>11, <2>3, <3>1
    <3> QED BY <1>2, <3>1, <3>2
  <2> QED BY <2>1, <2>2, <2>3
<1>18. ReorderState(t, columns)
  BY <1>2, <1>11, <1>14, <1>15, <1>16, <1>17 DEF ReorderState
<1> QED BY <1>1, <1>18

\* A call that has tried all attributes has nothing left.
LEMMA ReorderReturn ==
  ASSUME I \in Contexts, ReorderState(stack, columns), Reorder!Return
  PROVE  ReorderState(stack', columns') /\ columns' = columns
<1> DEFINE n == Len(stack)
           f == stack[n]
           t == SubSeq(stack, 1, n - 1)
           v == ReorderViews(stack)
           w == ReorderViews(t)
<1>1. /\ stack # <<>> /\ f.saved /\ f.j = NAttr
      /\ stack' = t /\ columns' = columns
  BY DEF Reorder!Return, Reorder!Top
<1>2. /\ stack \in Seq(ReorderCalls)
      /\ \A i \in DOMAIN stack : ReorderFrame(stack[i])
      /\ \A i \in DOMAIN stack : i < Len(stack) => stack[i].j >= i /\ stack[i].saved
      /\ \A i \in DOMAIN stack : i > 1 => stack[i-1].j <= stack[i].j
      /\ BitColumns(columns)
      /\ Partition(BitsToFind, BitsWithoutObjects, BitsListed(columns) \ BitsWithoutObjects, v)
  BY DEF ReorderState
<1>3. /\ t \in Seq(ReorderCalls) /\ Len(t) = n - 1
      /\ DOMAIN stack = 1 .. n /\ n \in Nat \ {0} /\ n \in DOMAIN stack
      /\ DOMAIN t = DOMAIN stack \ {n}
      /\ \A i \in DOMAIN t : t[i] = stack[i]
  BY <1>1, <1>2, LastDropped
<1> HIDE DEF t
<1>4. BitRegion(f) = {}
  <2>1. BitsToFind \subseteq AttrSets /\ Bits(f.intent) \in AttrSets
    BY BitFamily
  <2>2. LoopRegion(BitsToFind, Bits(f.intent), NAttr, 0) = {}
    <3> HIDE DEF f
    <3> QED BY <2>1, LoopsOver
  <2> QED BY <1>1, <2>2 DEF BitRegion
<1>5. Partition(BitsToFind, BitsWithoutObjects, BitsListed(columns) \ BitsWithoutObjects, w)
  <2> HIDE DEF n, f
  <2>1. /\ n \in DOMAIN v /\ DOMAIN w = DOMAIN v \ {n}
        /\ \A i \in DOMAIN w : w[i] = v[i]
    <3>1. /\ DOMAIN v = DOMAIN stack /\ DOMAIN w = DOMAIN t
          /\ \A i \in DOMAIN stack : v[i] = ReorderView(stack[i])
          /\ \A i \in DOMAIN t : w[i] = ReorderView(t[i])
      BY DEF ReorderViews
    <3> HIDE DEF v, w
    <3> QED BY <1>3, <3>1
  <2>2. DOMAIN v[n].kids = {} /\ Region(BitsToFind, v[n], 0) = {}
    BY <1>3, <1>4, ReorderViewed DEF f
  <2> HIDE DEF v, w
  <2> QED BY <1>2, <2>1, <2>2, CallReturns
<1>6. \A i \in DOMAIN t : ReorderFrame(t[i])
  BY <1>2, <1>3
<1>7. \A i \in DOMAIN t : i < Len(t) => t[i].j >= i /\ t[i].saved
  BY <1>2, <1>3
<1>8. \A i \in DOMAIN t : i > 1 => t[i-1].j <= t[i].j
  <2> SUFFICES ASSUME NEW i \in DOMAIN t, i > 1 PROVE t[i-1].j <= t[i].j
    OBVIOUS
  <2>1. i - 1 \in DOMAIN t
    BY <1>3
  <2> QED BY <1>2, <1>3, <2>1
<1>9. ReorderState(t, columns)
  BY <1>2, <1>3, <1>5, <1>6, <1>7, <1>8 DEF ReorderState
<1> QED BY <1>1, <1>9

\* The first call: everything is left to it, but for the concept without
\* objects, which is listed.
LEMMA ReorderStart ==
  ASSUME I \in Contexts, Reorder!Start
  PROVE  ReorderState(stack', columns') /\ (columns' = <<>> \/ \E e : columns' = <<e>>)
<1> DEFINE B == Reorder!IntentOf(Objects)
           f == Reorder!Call(-1, Objects, B)
           W == BitsWithoutObjects
           T == BitsToFind
           st == <<f>>
           l == BitsListed(columns')
<1>1. /\ stack' = st
      /\ columns' = IF \A o \in Objects : Reorder!Row(o) # Attributes
                    THEN <<Reorder!Unpack(Attributes, {})>> ELSE <<>>
  BY ReorderNames DEF Reorder!Start
<1>2. /\ B \in ClosedBits /\ B \in SUBSET Attributes /\ Objects = Having(B)
      /\ Objects # {} /\ Bits(B) \in T
  <2>1. B \in ClosedBits /\ Objects \subseteq Having(B)
    BY BitClosures
  <2>2. Having(B) \in SUBSET Objects
    BY BitConnection
  <2>3. B \in SUBSET Attributes
    BY <2>1, BitClosures
  <2> QED BY <2>1, <2>2, <2>3, InputAssumption DEF BitsToFind
<1> HIDE DEF B
<1>3. /\ f = [extent |-> Objects, intent |-> B, j |-> 0, saved |-> FALSE]
      /\ f.extent = Objects /\ f.intent = B /\ f.j = 0 /\ ~f.saved
      /\ f \in ReorderCalls
  <2>1. f = [extent |-> Objects, intent |-> B, j |-> 0, saved |-> FALSE]
    BY DEF Reorder!Call
  <2>2. 0 \in 0 .. NAttr
    BY NAttrAssumption
  <2> HIDE DEF f
  <2> QED BY <1>2, <2>1, <2>2 DEF ReorderCalls
<1> HIDE DEF f
<1>4. ReorderFrame(f)
  BY <1>2, <1>3 DEF ReorderFrame, B
<1>5. BitRegion(f) = T
  <2>1. BitRegion(f) = LoopRegion(T, Bits(B), 0, 0) \cup {Bits(B)}
    BY <1>3 DEF BitRegion
  <2>2. Subtree(T, Bits(B), -1) = {Bits(B)} \cup LoopRegion(T, Bits(B), 0, 0)
    <3>1. -1 \in -1 .. NAttr - 1 /\ -1 + 1 = 0
      BY NAttrAssumption
    <3>2. T \subseteq AttrSets
      BY BitFamily
    <3> HIDE DEF T
    <3>3. Subtree(T, Bits(B), -1) = {Bits(B)} \cup LoopRegion(T, Bits(B), -1 + 1, 0)
      BY <1>2, <3>1, <3>2, SubtreeParts
    <3> QED BY <3>1, <3>3
  <2>3. ASSUME NEW X \in T PROVE X \in Subtree(T, Bits(B), -1)
    <3>1. PICK D \in ClosedBits : X = Bits(D)
      BY <2>3, BitMembers
    <3>2. D \in SUBSET Attributes /\ D = Reorder!IntentOf(Having(D)) /\ Having(D) \in SUBSET Objects
      BY BitClosures, BitConnection
    <3>3. B \subseteq D
      BY <3>2, BitClosures DEF B
    <3>4. Leq(Bits(B), X)
      BY <1>2, <3>1, <3>2, <3>3, BitFamily
    <3>5. \A c \in Attributes : ~(c <= -1)
      BY DEF Attributes
    <3> QED BY <2>3, <3>4, <3>5 DEF Subtree
  <2>4. Subtree(T, Bits(B), -1) \subseteq T
    BY DEF Subtree
  <2> HIDE DEF T
  <2> QED BY <2>1, <2>2, <2>3, <2>4
\* The concept without objects has all attributes.
<1>6. ASSUME NEW S \in ClosedBits, Having(S) = {}
      PROVE  S = Attributes /\ \A o \in Objects : Reorder!Row(o) # Attributes
  <2>1. S = Reorder!IntentOf({})
    BY <1>6, BitClosures
  <2>2. S = Attributes
    BY <2>1, ReorderNames
  <2> QED BY <1>6, <2>2 DEF Having
<1>7. /\ BitColumns(columns') /\ l \subseteq W
      /\ columns' = <<>> \/ \E e : columns' = <<e>>
  <2>1. CASE \A o \in Objects : Reorder!Row(o) # Attributes
    <3> DEFINE e == Reorder!Unpack(Attributes, {})
    <3>1. columns' = <<e>>
      BY <1>1, <2>1
    <3>2. Having(Attributes) = {}
      <4> SUFFICES ASSUME NEW o \in Objects PROVE ~(Attributes \subseteq Reorder!Row(o))
        BY DEF Having
      <4>1. Reorder!Row(o) \in SUBSET Attributes /\ Reorder!Row(o) # Attributes
        BY <2>1, ReorderNames
      <4> QED BY <4>1
    <3>3. Reorder!IntentOf({}) = Attributes
      BY ReorderNames
    <3>4. Attributes \in ClosedBits
      BY <3>2, <3>3 DEF ClosedBits
    <3>5. /\ e \in Columns /\ e.intent = BitIntent(Attributes)
          /\ Numbers(e.intent) = Attributes
      <4>1. /\ e = [intent |-> BitIntent(Attributes), extent |-> BitExtent({})]
            /\ e \in Columns /\ Attributes \in SUBSET Attributes
        BY BitTypes
      <4>2. Numbers(BitIntent(Attributes)) = Attributes
        BY <4>1, BitTypes
      <4> HIDE DEF e
      <4> QED BY <4>1, <4>2
    <3> HIDE DEF e
    <3>6. /\ <<e>> \in Seq(Columns) /\ DOMAIN <<e>> = {1} /\ <<e>>[1] = e
      BY <3>5
    <3> DEFINE c == <<e>>
    <3> HIDE DEF c
    <3>7. /\ c \in Seq(Columns) /\ DOMAIN c = {1} /\ c[1] = e /\ columns' = c
      BY <3>1, <3>6 DEF c
    <3>8. BitsListed(c) = {Bits(Attributes)}
      BY <3>5, <3>7 DEF BitsListed
    <3>9. W = {Bits(Attributes)}
      <4>1. Bits(Attributes) \in W
        BY <3>2, <3>4 DEF BitsWithoutObjects
      <4>2. \A X \in W : X = Bits(Attributes)
        BY <1>6 DEF BitsWithoutObjects
      <4> QED BY <4>1, <4>2
    <3>10. \A n \in DOMAIN c : \E S \in ClosedBits : c[n] = Reorder!Unpack(S, Having(S))
      BY <3>2, <3>4, <3>7 DEF e
    <3>11. Once(c)
      BY <3>7 DEF Once
    <3>12. BitColumns(c)
      BY <3>7, <3>8, <3>9, <3>10, <3>11 DEF BitColumns
    <3> QED BY <3>1, <3>7, <3>8, <3>9, <3>12
  <2>2. CASE ~(\A o \in Objects : Reorder!Row(o) # Attributes)
    <3>1. columns' = <<>>
      BY <1>1, <2>2
    <3>2. W = {}
      BY <1>6, <2>2 DEF BitsWithoutObjects
    <3>3. /\ columns' \in Seq(Columns) /\ DOMAIN columns' = {}
      BY <3>1
    <3>4. BitsListed(columns') = {}
      BY <3>3 DEF BitsListed
    <3>5. Once(columns')
      BY <3>3 DEF Once
    <3> QED BY <3>1, <3>2, <3>3, <3>4, <3>5 DEF BitColumns
  <2> QED BY <2>1, <2>2
<1>8. st \in Seq(ReorderCalls) /\ DOMAIN st = {1} /\ Len(st) = 1 /\ st[1] = f
  BY <1>3
<1> HIDE DEF st
<1>9. Partition(T, W, l \ W, ReorderViews(st))
  <2> DEFINE v == ReorderViews(st)
  <2>1. DOMAIN v = {1} /\ DOMAIN v[1].kids = {} /\ Region(T, v[1], 0) = T
    <3>1. /\ DOMAIN v = DOMAIN st
          /\ \A i \in DOMAIN st : DOMAIN v[i].kids = {} /\ Region(BitsToFind, v[i], 0) = BitRegion(st[i])
      BY ReorderViewed
    <3>2. 1 \in DOMAIN st
      BY <1>8
    <3> HIDE DEF v
    <3> QED BY <1>5, <1>8, <3>1, <3>2
  <2>2. l \ W = {}
    BY <1>7
  <2> HIDE DEF v, T, l, W
  <2>3. Region(T, v[1], 0) \cap (l \ W) = {} /\ T \subseteq (l \ W) \cup W \cup Region(T, v[1], 0)
    BY <2>1, <2>2
  <2>4. Partition(T, W, l \ W, v)
    BY <2>1, <2>3, FirstCall
  <2> QED BY <2>4 DEF v
<1>10. /\ \A n \in DOMAIN st : ReorderFrame(st[n])
       /\ \A n \in DOMAIN st : n < Len(st) => st[n].j >= n /\ st[n].saved
       /\ \A n \in DOMAIN st : n > 1 => st[n-1].j <= st[n].j
  BY <1>4, <1>8
<1>11. ReorderState(st, columns')
  BY <1>7, <1>8, <1>9, <1>10 DEF ReorderState
<1> QED BY <1>1, <1>7, <1>11

\* Every step of the bit-set miner keeps its state right and lists one set more
\* at most.
LEMMA ReorderPreserved ==
  ASSUME I \in Contexts, ReorderState(stack, columns), pc # "start", Reorder!Next
  PROVE  /\ ReorderState(stack', columns')
         /\ columns' = columns \/ \E e : columns' = Append(columns, e)
<1>1. CASE Reorder!Start
  BY <1>1 DEF Reorder!Start
<1>2. CASE Reorder!Interrupt \/ Reorder!Finish
  <2>1. stack' = stack /\ columns' = columns
    BY <1>2 DEF Reorder!Interrupt, Reorder!Finish
  <2> QED BY <2>1
<1>3. CASE Reorder!Enter
  BY <1>3, ReorderEnter
<1>4. CASE Reorder!Skip
  BY <1>4, ReorderSkip
<1>5. CASE Reorder!Reject
  BY <1>5, ReorderReject
<1>6. CASE Reorder!Recurse
  BY <1>6, ReorderRecurse
<1>7. CASE Reorder!Return
  BY <1>7, ReorderReturn
<1> QED
  BY <1>1, <1>2, <1>3, <1>4, <1>5, <1>6, <1>7 DEF Reorder!Next

\* The columns of the bit-set miner are concepts.
LEMMA ReorderConcepts ==
  ASSUME I \in Contexts, AllOnes, BitColumns(columns)
  PROVE  \A n \in DOMAIN columns : IsConcept(columns[n].extent, columns[n].intent)
<1> SUFFICES ASSUME NEW n \in DOMAIN columns
             PROVE  IsConcept(columns[n].extent, columns[n].intent)
  OBVIOUS
<1>1. PICK B \in ClosedBits : columns[n] = Reorder!Unpack(B, Having(B))
  BY DEF BitColumns
<1>2. columns[n] = [intent |-> BitIntent(B), extent |-> BitExtent(Having(B))]
  BY <1>1, BitTypes
<1>3. columns[n].intent = BitIntent(B) /\ columns[n].extent = BitExtent(Having(B))
  BY <1>2
<1> QED BY <1>3, FoundBits

\* When its recursion is over, the bit-set miner has listed all of them.
LEMMA ReorderAll ==
  ASSUME I \in Contexts, AllOnes, ReorderState(stack, columns), stack = <<>>
  PROVE  ToFind \subseteq Listed(columns)
<1> DEFINE l == BitsListed(columns)
<1>1. /\ BitColumns(columns) /\ columns \in Seq(Columns)
      /\ Partition(BitsToFind, BitsWithoutObjects, l \ BitsWithoutObjects, ReorderViews(stack))
      /\ BitsWithoutObjects \subseteq l
  BY DEF ReorderState, BitColumns
<1>2. DOMAIN ReorderViews(stack) = {}
  BY ReorderViewed
<1>3. BitsToFind \subseteq (l \ BitsWithoutObjects) \cup BitsWithoutObjects
  <2> HIDE DEF l
  <2> QED BY <1>1, <1>2, AllFound
<1>4. BitsToFind \subseteq l
  BY <1>1, <1>3
<1> SUFFICES ASSUME NEW X \in ToFind PROVE X \in Listed(columns)
  OBVIOUS
<1>5. Numbers(X) \in ClosedBits /\ BitIntent(Numbers(X)) = X
  BY FoundBits
<1>6. Bits(Numbers(X)) \in BitsToFind
  BY <1>5 DEF BitsToFind
<1>7. PICK n \in DOMAIN columns : Bits(Numbers(X)) = Bits(Numbers(columns[n].intent))
  BY <1>4, <1>6 DEF BitsListed
<1>8. PICK B \in ClosedBits : columns[n] = Reorder!Unpack(B, Having(B))
  BY <1>1 DEF BitColumns
<1>9. columns[n] = [intent |-> BitIntent(B), extent |-> BitExtent(Having(B))]
  BY <1>8, BitTypes
<1>10. columns[n].intent = BitIntent(B) /\ B \in SUBSET Attributes /\ Numbers(X) \in SUBSET Attributes
  BY <1>5, <1>9, BitClosures
<1>11. Numbers(columns[n].intent) = B
  BY <1>10, BitTypes
<1>12. Numbers(X) = B
  BY <1>7, <1>10, <1>11, BitFamily
<1> QED BY <1>5, <1>10, <1>12 DEF Listed

-----------------------------------------------------------------------------
\* The composition.  The miners do not change the matrix: what is right of the
\* new stack and columns for the old matrix is right for the new one.
LEMMA SameConcepts ==
  ASSUME I' = I
  PROVE  /\ \A E : up(E)' = up(E)
         /\ \A B : down(B)' = down(B)
         /\ \A E, B : IsConcept(E, B)' <=> IsConcept(E, B)
         /\ ToFind' = ToFind
         /\ WithoutObjects' = WithoutObjects
         /\ \A E, j, h : Part(E, j, h)' = Part(E, j, h)
         /\ GradesSet(I)' = GradesSet(I)
<1>1. /\ \A E : up(E)' = up(E)
      /\ \A B : down(B)' = down(B)
  BY DEF up, down
<1>2. \A E, B : IsConcept(E, B)' <=> IsConcept(E, B)
  BY <1>1 DEF IsConcept
<1>3. ToFind' = ToFind
  BY <1>1 DEF ToFind
<1>4. WithoutObjects' = WithoutObjects
  BY <1>1, <1>3 DEF WithoutObjects
<1>5. \A E, j, h : Part(E, j, h)' = Part(E, j, h)
  BY DEF Part
<1> QED BY <1>1, <1>2, <1>3, <1>4, <1>5

\* The state of FastCbO, for the new matrix.
LEMMA FastSame ==
  ASSUME I' = I, FastState(stack', columns')
  PROVE  FastState(stack, columns)'
<1>1. \A N, A : FailuresRight(N, A) => FailuresRight(N, A)'
  BY SameConcepts DEF FailuresRight
<1>2. \A f : FastFrame(f) => FastFrame(f)'
  BY <1>1, SameConcepts DEF FastFrame
<1> QED BY <1>2, SameConcepts DEF FastState

\* The state of InClose, for the new matrix.
LEMMA InCloseSame ==
  ASSUME I' = I
  PROVE  /\ InCloseState(stack', columns', add_empty_extent')
              => InCloseState(stack, columns, add_empty_extent)'
         /\ AllListed(columns') => AllListed(columns)'
         /\ ListedSoFar(stack', columns') = ListedSoFar(stack, columns)'
<1>1. \A cols, r : Final(cols, r)' = Final(cols, r)
  BY SameConcepts DEF Final
<1>2. \A st, cols : ColumnsRight(st, cols) => ColumnsRight(st, cols)'
  BY <1>1, SameConcepts DEF ColumnsRight
<1>3. \A f, cols : InCloseFrame(f, cols) => InCloseFrame(f, cols)'
  BY <1>1, SameConcepts DEF InCloseFrame
<1>4. \A f, cols, a : RuledOutRight(f, cols, a) => RuledOutRight(f, cols, a)'
  <2>1. GradesSet(I') = GradesSet(I)
    BY Zenon
  <2>2. \A E, j, h : Part(E, j, h)' = Part(E, j, h)
    BY SameConcepts
  <2>3. \A E : up(E)' = up(E)
    BY SameConcepts
  <2> SUFFICES ASSUME NEW f, NEW cols, NEW a, RuledOutRight(f, cols, a)
               PROVE  RuledOutRight(f, cols, a)'
    OBVIOUS
  <2> QED BY <1>1, <2>1, <2>2, <2>3 DEF RuledOutRight
<1>5. \A st, cols : InCloseViews(st, cols)' = InCloseViews(st, cols)
  BY <1>1 DEF InCloseViews, InCloseView
<1>6. InCloseState(stack', columns', add_empty_extent')
        => InCloseState(stack, columns, add_empty_extent)'
  BY <1>2, <1>3, <1>4, <1>5, SameConcepts DEF InCloseState
<1>7. AllListed(columns') => AllListed(columns)'
  BY SameConcepts DEF AllListed
<1>8. ListedSoFar(stack', columns') = ListedSoFar(stack, columns)'
  OBVIOUS
<1> QED BY <1>6, <1>7, <1>8

\* The state of the bit-set miner, for the new matrix.
LEMMA ReorderSame ==
  ASSUME I' = I
  PROVE  ReorderState(stack', columns') => ReorderState(stack, columns)'
<1>1. \A c : Reorder!old_to_new(c)' = Reorder!old_to_new(c)
  BY DEF Reorder!old_to_new, Reorder!Support
<1>2. \A o : Reorder!Row(o)' = Reorder!Row(o)
  BY <1>1 DEF Reorder!Row
<1>3. \A E : Reorder!IntentOf(E)' = Reorder!IntentOf(E)
  BY <1>2 DEF Reorder!IntentOf
<1>4. \A B, E : Reorder!Unpack(B, E)' = Reorder!Unpack(B, E)
  BY <1>1 DEF Reorder!Unpack
<1>5. \A B : Having(B)' = Having(B)
  BY <1>2 DEF Having
<1>6. ClosedBits' = ClosedBits
  BY <1>3, <1>5 DEF ClosedBits
<1>7. BitsToFind' = BitsToFind /\ BitsWithoutObjects' = BitsWithoutObjects
  BY <1>5, <1>6 DEF BitsToFind, BitsWithoutObjects
<1>8. \A X : Numbers(X)' = Numbers(X)
  BY <1>1 DEF Numbers
<1>9. \A cols : BitsListed(cols)' = BitsListed(cols)
  BY <1>8 DEF BitsListed
<1>10. \A f : ReorderFrame(f) => ReorderFrame(f)'
  BY <1>3, <1>5 DEF ReorderFrame
<1>11. \A cols : BitColumns(cols) => BitColumns(cols)'
  BY <1>4, <1>5, <1>6, <1>7, <1>9 DEF BitColumns
<1> QED BY <1>7, <1>9, <1>10, <1>11 DEF ReorderState

\* What the miners have reported, in the names of the invariant.
LEMMA ReportedNames ==
  /\ Intents = IF miner = "InClose" THEN ListedSoFar(stack, columns) ELSE Listed(columns)
  /\ Intents' = IF miner' = "InClose" THEN ListedSoFar(stack', columns')
                ELSE Listed(columns')
  /\ InCl!Unfinished = Incomplete(stack)
  /\ InCl!Completed = Complete(stack, columns)
<1>1. \A s : InCl!Range(s) = Range(s)
  BY DEF InCl!Range, Range
<1>2. InCl!Unfinished = Incomplete(stack) /\ InCl!Unfinished' = Incomplete(stack')
  BY <1>1 DEF InCl!Unfinished, Incomplete
<1>3. InCl!Completed = Complete(stack, columns) /\ InCl!Completed' = Complete(stack', columns')
  BY <1>2 DEF InCl!Completed, Complete
<1> QED
  BY <1>2, <1>3 DEF Intents, Completed, ListedSoFar, Listed

\* The invariant holds at the start.
LEMMA InitInv == Init => MinerInv
BY InputAssumption DEF Init, MinerInv, Methods, miner

\* A step does not change which miner runs.
LEMMA SameMiner ==
  ASSUME UNCHANGED inputs
  PROVE  /\ I' = I /\ method' = method /\ miner' = miner
         /\ logic' = logic /\ connection' = connection
<1>1. I' = I /\ method' = method /\ logic' = logic /\ connection' = connection
  BY DEF inputs
<1>2. AllOnes' <=> AllOnes
  BY <1>1 DEF AllOnes
<1>3. miner' = miner
  BY <1>1, <1>2 DEF miner
<1> QED BY <1>1, <1>3

\* What a step of a miner does to the reported sets, and to the place in the code.
Progress ==
  /\ OneMore(Intents, Intents')
  /\ pc' \in {"done", "interrupted"} => Intents' = Intents /\ pc \in {"core", "pack"}
  /\ pc \notin {"done", "interrupted"}

\* A step of InClose.
LEMMA RunInCloseInv ==
  ASSUME MinerInv, RunInClose
  PROVE  MinerInv' /\ Progress
<1>1. /\ I \in Contexts /\ method \in Methods /\ miner = "InClose" /\ InCl!Next
      /\ add_empty_extent \in BOOLEAN
      /\ pc = "start" => stack = <<>> /\ columns = <<>> /\ ~add_empty_extent
      /\ pc = "core" => InCloseState(stack, columns, add_empty_extent)
      /\ pc \in {"pack", "done"} => stack = <<>> /\ AllListed(columns)
  BY DEF MinerInv, RunInClose
<1>2. I' = I /\ method' = method /\ miner' = miner
  BY SameMiner DEF RunInClose
<1>3. \/ pc = "start" /\ InCl!Start
      \/ pc = "core"
      \/ pc = "pack" /\ InCl!Finish
  BY <1>1 DEF InCl!Next, InCl!Start, InCl!SkipGrade, InCl!SkipAttribute, InCl!NoObjects,
     InCl!AddToParent, InCl!AddChild, InCl!Reject, InCl!Recurse, InCl!Return,
     InCl!AddEmptyExtent, InCl!Finish, InCl!Testing, InCl!Running
<1>4. /\ Intents = ListedSoFar(stack, columns)
      /\ Intents' = ListedSoFar(stack', columns')
  BY <1>1, <1>2, ReportedNames
<1>5. CASE pc = "start" /\ InCl!Start
  <2>1. pc' = "core" /\ add_empty_extent' = add_empty_extent /\ add_empty_extent = FALSE
    BY <1>1, <1>5 DEF InCl!Start
  <2>2. /\ InCloseState(stack', columns', add_empty_extent')
        /\ ListedSoFar(stack', columns') = {}
    BY <1>1, <1>5, <2>1, InCloseStart
  <2>3. InCloseState(stack, columns, add_empty_extent)'
    BY <1>2, <2>2, InCloseSame
  <2>4. ListedSoFar(stack, columns) = {}
    BY <1>1, <1>5 DEF ListedSoFar, Complete
  <2>5. MinerInv'
    BY <1>1, <1>2, <2>1, <2>3 DEF MinerInv
  <2>6. Progress
    BY <1>4, <1>5, <2>1, <2>2, <2>4 DEF Progress, OneMore
  <2> QED BY <2>5, <2>6
<1>6. CASE pc = "core"
  <2>1. \/ pc' = "core" /\ InCloseKept
        \/ /\ pc' = "pack" /\ stack' = <<>>
           /\ AllListed(columns')
           /\ OneMore(ListedSoFar(stack, columns), Listed(columns'))
           /\ add_empty_extent' = add_empty_extent
    BY <1>1, <1>6, InClosePreserved
  <2>2. CASE pc' = "core" /\ InCloseKept
    <3>1. /\ InCloseState(stack', columns', add_empty_extent')
          /\ OneMore(ListedSoFar(stack, columns), ListedSoFar(stack', columns'))
      BY <2>2 DEF InCloseKept
    <3>2. add_empty_extent' \in BOOLEAN
      BY <3>1 DEF InCloseState
    <3>3. InCloseState(stack, columns, add_empty_extent)'
      BY <1>2, <3>1, InCloseSame
    <3>4. MinerInv'
      BY <1>1, <1>2, <2>2, <3>2, <3>3 DEF MinerInv
    <3> QED BY <1>4, <1>6, <2>2, <3>1, <3>4 DEF Progress
  <2>3. CASE /\ pc' = "pack" /\ stack' = <<>>
             /\ AllListed(columns')
             /\ OneMore(ListedSoFar(stack, columns), Listed(columns'))
             /\ add_empty_extent' = add_empty_extent
    <3>1. AllListed(columns)'
      BY <1>2, <2>3, InCloseSame
    <3>2. ListedSoFar(stack', columns') = Listed(columns')
      BY <2>3, InCloseOver
    <3>3. MinerInv'
      BY <1>1, <1>2, <2>3, <3>1 DEF MinerInv
    <3> QED BY <1>4, <1>6, <2>3, <3>2, <3>3 DEF Progress
  <2> QED BY <2>1, <2>2, <2>3
<1>7. CASE pc = "pack" /\ InCl!Finish
  <2>1. /\ pc' = "done" /\ stack' = stack /\ columns' = columns
        /\ add_empty_extent' = add_empty_extent
    BY <1>7 DEF InCl!Finish
  <2>2. AllListed(columns)'
    BY <1>1, <1>2, <1>7, <2>1, InCloseSame
  <2>3. MinerInv'
    BY <1>1, <1>2, <1>7, <2>1, <2>2 DEF MinerInv
  <2> QED BY <1>4, <1>7, <2>1, <2>3 DEF Progress, OneMore
<1> QED BY <1>3, <1>5, <1>6, <1>7

\* A step of the bit-set miner.
LEMMA RunReorderInv ==
  ASSUME MinerInv, RunReorder
  PROVE  MinerInv' /\ Progress
<1>1. /\ I \in Contexts /\ method \in Methods /\ miner = "InClose_Reorder" /\ Reorder!Next
      /\ add_empty_extent \in BOOLEAN /\ add_empty_extent' = add_empty_extent
      /\ pc \in {"start", "core", "pack", "done", "interrupted"} /\ pc # "pack"
      /\ pc = "start" => stack = <<>> /\ columns = <<>>
      /\ pc # "start" => ReorderState(stack, columns)
  BY DEF MinerInv, RunReorder
<1>2. I' = I /\ method' = method /\ miner' = miner
  BY SameMiner DEF RunReorder
<1>3. \/ pc = "start" /\ pc' = "core" /\ Reorder!Start
      \/ pc = "core" /\ pc' = "core"
      \/ /\ pc = "core" /\ pc' \in {"done", "interrupted"} /\ columns' = columns
         /\ pc' = "done" => stack' = <<>>
  BY <1>1 DEF Reorder!Next, Reorder!Start, Reorder!Interrupt, Reorder!Enter, Reorder!Skip,
     Reorder!Reject, Reorder!Recurse, Reorder!Return, Reorder!Finish, Reorder!Running
<1>4. Intents = Listed(columns) /\ Intents' = Listed(columns')
  BY <1>1, <1>2, ReportedNames
<1>5. /\ ReorderState(stack', columns')
      /\ \/ columns' = columns
         \/ \E e : columns' = Append(columns, e)
         \/ pc = "start" /\ (columns' = <<>> \/ \E e : columns' = <<e>>)
  <2>1. CASE pc = "start" /\ Reorder!Start
    BY <1>1, <2>1, ReorderStart
  <2>2. CASE pc # "start"
    BY <1>1, <2>2, ReorderPreserved
  <2> QED BY <1>3, <2>1, <2>2
<1>6. ReorderState(stack, columns)'
  BY <1>2, <1>5, ReorderSame
<1>7. MinerInv'
  BY <1>1, <1>2, <1>3, <1>6 DEF MinerInv
<1>8. OneMore(Listed(columns), Listed(columns'))
  <2>1. columns = <<>> => Listed(columns) = {}
    BY DEF Listed
  <2>2. columns' = <<>> => Listed(columns') = {}
    BY DEF Listed
  <2>3. ASSUME NEW e, columns' = <<e>> PROVE Listed(columns') = {e.intent}
    <3> DEFINE c == <<e>>
    <3>1. DOMAIN c = {1} /\ c[1] = e
      OBVIOUS
    <3> HIDE DEF c
    <3>2. Listed(c) = {e.intent}
      BY <3>1 DEF Listed
    <3> QED BY <2>3, <3>2 DEF c
  <2>4. ASSUME NEW e, columns' = Append(columns, e), columns \in Seq(Columns), columns' \in Seq(Columns)
        PROVE  Listed(columns') = Listed(columns) \cup {e.intent}
    <3>1. /\ DOMAIN columns' = DOMAIN columns \cup {Len(columns) + 1}
          /\ columns'[Len(columns) + 1] = e
          /\ \A n \in DOMAIN columns : columns'[n] = columns[n]
      BY <2>4
    <3> QED BY <3>1 DEF Listed
  <2>5. pc # "start" => columns \in Seq(Columns)
    BY <1>1 DEF ReorderState, BitColumns
  <2>6. columns' \in Seq(Columns)
    BY <1>5 DEF ReorderState, BitColumns
  <2>7. CASE \E e : columns' = Append(columns, e)
    <3>1. columns \in Seq(Columns)
      <4>1. CASE pc = "start"
        <5>1. columns = <<>>
          BY <1>1, <4>1
        <5> QED BY <5>1
      <4> QED BY <2>5, <4>1
    <3> QED BY <2>4, <2>6, <2>7, <3>1 DEF OneMore
  <2>8. CASE columns' = columns
    BY <2>8 DEF OneMore
  <2>9. CASE pc = "start" /\ (columns' = <<>> \/ \E e : columns' = <<e>>)
    BY <1>1, <2>1, <2>2, <2>3, <2>9 DEF OneMore
  <2> QED BY <1>5, <2>7, <2>8, <2>9
<1> QED BY <1>3, <1>4, <1>7, <1>8 DEF Progress

\* A step of FastCbO.
LEMMA RunFastCbOInv ==
  ASSUME MinerInv, RunFastCbO
  PROVE  MinerInv' /\ Progress
<1>1. /\ I \in Contexts /\ method \in Methods /\ miner = "FastCbO" /\ FCbO!Next
      /\ add_empty_extent \in BOOLEAN /\ add_empty_extent' = add_empty_extent
      /\ pc = "start" => stack = <<>> /\ columns = <<>>
      /\ pc # "start" => FastState(stack, columns)
  BY DEF MinerInv, RunFastCbO
<1>2. I' = I /\ method' = method /\ miner' = miner
  BY SameMiner DEF RunFastCbO
<1>3. \/ pc \in {"start", "core"} /\ pc' = "core"
      \/ pc = "core" /\ pc' = "done" /\ stack' = <<>> /\ columns' = columns
  BY <1>1 DEF FCbO!Next, FCbO!Start, FCbO!SkipAttribute, FCbO!SkipFailed, FCbO!Enqueue,
     FCbO!Reject, FCbO!Recurse, FCbO!Return, FCbO!Finish, FCbO!Running
<1>4. Intents = Listed(columns) /\ Intents' = Listed(columns')
  BY <1>1, <1>2, ReportedNames
<1>5. FastState(stack', columns') /\ OneMore(Listed(columns), Listed(columns'))
  BY <1>1, FastPreserved DEF OneMore
<1>6. FastState(stack, columns)'
  BY <1>2, <1>5, FastSame
<1>7. MinerInv'
  BY <1>1, <1>2, <1>3, <1>6 DEF MinerInv
<1> QED BY <1>3, <1>4, <1>5, <1>7 DEF Progress

\* Every step keeps the invariant.
LEMMA NextInv == MinerInv /\ [Next]_vars => MinerInv'
<1>1. ASSUME MinerInv, Next PROVE MinerInv'
  BY <1>1, RunInCloseInv, RunReorderInv, RunFastCbOInv DEF Next
<1>2. ASSUME MinerInv, UNCHANGED vars PROVE MinerInv'
  <2>1. /\ I' = I /\ method' = method /\ miner' = miner
        /\ stack' = stack /\ columns' = columns /\ pc' = pc
        /\ add_empty_extent' = add_empty_extent
    BY <1>2, SameMiner DEF vars
  <2>2. /\ FastState(stack, columns) => FastState(stack, columns)'
        /\ InCloseState(stack, columns, add_empty_extent)
             => InCloseState(stack, columns, add_empty_extent)'
        /\ AllListed(columns) => AllListed(columns)'
        /\ ReorderState(stack, columns) => ReorderState(stack, columns)'
    BY <2>1, FastSame, InCloseSame, ReorderSame
  <2> QED BY <1>2, <2>1, <2>2 DEF MinerInv
<1> QED BY <1>1, <1>2

-----------------------------------------------------------------------------
\* The theorems.

\* The invariant holds throughout: the sets still to be found are divided among
\* the calls of the recursion, whichever miner runs.
THEOREM Invariance == Spec => []MinerInv
BY InitInv, NextInv, PTL DEF Spec

\* The depth of the recursion is bounded by the number of attributes.
LEMMA DepthBounded ==
  /\ \A st : st \in Seq(FastCalls) /\ Deeper(st) => Len(st) <= NAttr + 1
  /\ \A st : st \in Seq(InCloseCalls) /\ Deeper(st) => Len(st) <= NAttr + 1
<1>1. ASSUME NEW S, NEW st \in Seq(S), Deeper(st),
             \A f \in S : f.y \in -1 .. NAttr - 1
      PROVE  Len(st) <= NAttr + 1
  <2> DEFINE n == Len(st)
  <2>1. n \in Nat /\ DOMAIN st = 1 .. n
    OBVIOUS
  <2>2. CASE n = 0
    BY <2>2, NAttrAssumption
  <2>3. CASE n # 0
    <3>1. n \in DOMAIN st
      BY <2>1, <2>3
    <3>2. st[n] \in S
      BY <3>1, ElementOfSeq
    <3>3. st[n].y >= n - 2
      BY <1>1, <3>1 DEF Deeper
    <3>4. st[n].y \in -1 .. NAttr - 1
      BY <1>1, <3>2
    <3>5. st[n].y \in Int /\ st[n].y <= NAttr - 1
      BY <3>4, NAttrAssumption
    <3> HIDE DEF n
    <3> QED BY <2>1, <3>3, <3>5, NAttrAssumption
  <2> QED BY <2>2, <2>3
<1>2. \A f \in FastCalls : f.y \in -1 .. NAttr - 1
  BY DEF FastCalls
<1>3. \A f \in InCloseCalls : f.y \in -1 .. NAttr - 1
  BY DEF InCloseCalls
<1> QED BY <1>1, <1>2, <1>3

\* A call of the miners with degrees has its place in the loops and is for a
\* later attribute than its caller.
LEMMA CallTypes ==
  ASSUME I \in Contexts
  PROVE  /\ FastState(stack, columns) =>
              /\ Len(stack) <= NAttr + 1
              /\ \A n \in DOMAIN stack :
                   /\ stack[n].j \in 0 .. NAttr /\ stack[n].g \in GradesSet(I)
                   /\ n > 1 => stack[n-1].y < stack[n].y
         /\ InCloseState(stack, columns, add_empty_extent) =>
              /\ Len(stack) <= NAttr + 1
              /\ \A n \in DOMAIN stack :
                   /\ stack[n].j \in 0 .. NAttr /\ stack[n].g \in GradesSet(I)
                   /\ n > 1 => stack[n-1].y < stack[n].y
<1>1. ASSUME FastState(stack, columns)
      PROVE  /\ Len(stack) <= NAttr + 1
             /\ \A n \in DOMAIN stack :
                  /\ stack[n].j \in 0 .. NAttr /\ stack[n].g \in GradesSet(I)
                  /\ n > 1 => stack[n-1].y < stack[n].y
  <2>1. /\ stack \in Seq(FastCalls) /\ Deeper(stack)
        /\ \A n \in DOMAIN stack : FastFrame(stack[n])
    BY <1>1 DEF FastState
  <2>2. ASSUME NEW n \in DOMAIN stack
        PROVE  stack[n].j \in 0 .. NAttr /\ stack[n].g \in GradesSet(I)
    <3>1. stack[n] \in FastCalls
      BY <2>1, ElementOfSeq
    <3> QED BY <2>1, <3>1 DEF FastCalls, FastFrame
  <2>3. Len(stack) <= NAttr + 1
    BY <2>1, DepthBounded
  <2>4. \A n \in DOMAIN stack : n > 1 => stack[n-1].y < stack[n].y
    BY <2>1 DEF Deeper
  <2> QED BY <2>2, <2>3, <2>4
<1>2. ASSUME InCloseState(stack, columns, add_empty_extent)
      PROVE  /\ Len(stack) <= NAttr + 1
             /\ \A n \in DOMAIN stack :
                  /\ stack[n].j \in 0 .. NAttr /\ stack[n].g \in GradesSet(I)
                  /\ n > 1 => stack[n-1].y < stack[n].y
  <2>1. /\ stack \in Seq(InCloseCalls) /\ Deeper(stack)
        /\ \A n \in DOMAIN stack : InCloseFrame(stack[n], columns)
    BY <1>2 DEF InCloseState
  <2>2. ASSUME NEW n \in DOMAIN stack
        PROVE  stack[n].j \in 0 .. NAttr /\ stack[n].g \in GradesSet(I)
    <3>1. stack[n] \in InCloseCalls
      BY <2>1, ElementOfSeq
    <3> QED BY <2>1, <3>1 DEF InCloseCalls, InCloseFrame
  <2>3. Len(stack) <= NAttr + 1
    BY <2>1, DepthBounded
  <2>4. \A n \in DOMAIN stack : n > 1 => stack[n-1].y < stack[n].y
    BY <2>1 DEF Deeper
  <2> QED BY <2>2, <2>3, <2>4
<1> QED BY <1>1, <1>2

\* The calls of the bit-set miner are at most one deeper than there are attributes.
LEMMA ReorderCallTypes ==
  ASSUME I \in Contexts, ReorderState(stack, columns)
  PROVE  /\ Len(stack) <= NAttr + 1
         /\ \A n \in DOMAIN stack : stack[n].j \in 0 .. NAttr
<1>1. /\ stack \in Seq(ReorderCalls)
      /\ Len(stack) \in Nat
  BY DEF ReorderState
<1>2. ASSUME NEW n \in DOMAIN stack PROVE stack[n].j \in 0 .. NAttr
  <2>1. stack[n] \in ReorderCalls
    BY <1>1, ElementOfSeq
  <2> QED BY <2>1 DEF ReorderCalls
<1>3. Len(stack) <= NAttr + 1
  <2>1. CASE stack = <<>>
    BY <2>1, NAttrAssumption
  <2>2. CASE stack # <<>>
    <3> DEFINE n == Len(stack)
    <3>1. stack[n].j \in Int /\ stack[n].j >= n - 1 /\ n \in DOMAIN stack
      BY <2>2, ReorderTop
    <3>2. stack[n].j <= NAttr
      BY <1>2, <3>1, NAttrAssumption
    <3> HIDE DEF n
    <3>3. n \in Nat
      BY <1>1 DEF n
    <3>4. n <= NAttr + 1
      BY <3>1, <3>2, <3>3, NAttrAssumption
    <3> QED BY <3>4 DEF n
  <2> QED BY <2>1, <2>2
<1> QED BY <1>2, <1>3

\* What is in the columns when the invariant holds.
LEMMA ColumnTypes ==
  ASSUME MinerInv
  PROVE  /\ columns \in Seq(Columns)
         /\ \A n \in DOMAIN columns :
              /\ columns[n].intent \in AttrSets
              /\ columns[n].extent \in ObjectSets
<1>1. columns \in Seq(Columns)
  <2>1. pc = "start" => columns = <<>>
    BY DEF MinerInv
  <2>2. CASE pc = "start"
    <3>1. columns = <<>>
      BY <2>1, <2>2
    <3> QED BY <3>1
  <2>3. CASE pc # "start"
    BY <2>3 DEF MinerInv, miner, Methods, FastState, InCloseState, AllListed, ReorderState, BitColumns
  <2> QED BY <2>2, <2>3
<1>2. \A n \in DOMAIN columns : columns[n] \in Columns
  BY <1>1, ElementOfSeq
<1> QED BY <1>1, <1>2 DEF Columns

\* The invariant implies the types.
LEMMA InvTypes == MinerInv => TypeOK
<1> SUFFICES ASSUME MinerInv PROVE TypeOK
  OBVIOUS
<1>1. /\ pc \in {"start", "core", "pack", "done", "interrupted"}
      /\ add_empty_extent \in BOOLEAN /\ I \in Contexts
      /\ pc \in {"start", "pack"} => stack = <<>>
      /\ miner \in {"FastCbO", "InClose", "InClose_Reorder"}
      /\ miner = "InClose" /\ pc = "done" => stack = <<>>
      /\ miner # "InClose_Reorder" => pc # "interrupted"
      /\ miner = "FastCbO" /\ pc # "start" => FastState(stack, columns)
      /\ miner = "InClose" /\ pc = "core" => InCloseState(stack, columns, add_empty_extent)
      /\ miner = "InClose_Reorder" /\ pc # "start" => ReorderState(stack, columns)
  BY DEF MinerInv, Methods, miner
<1>2. /\ Len(stack) <= NAttr + 1
      /\ \A n \in DOMAIN stack :
           /\ stack[n].j \in 0 .. NAttr
           /\ miner # "InClose_Reorder" =>
                /\ stack[n].g \in GradesSet(I)
                /\ n > 1 => stack[n-1].y < stack[n].y
  <2>1. CASE stack = <<>>
    <3>1. Len(stack) = 0 /\ DOMAIN stack = {}
      BY <2>1
    <3> QED BY <3>1, NAttrAssumption
  <2>2. CASE miner = "FastCbO" /\ pc # "start"
    BY <1>1, <2>2, CallTypes
  <2>3. CASE miner = "InClose" /\ pc = "core"
    BY <1>1, <2>3, CallTypes
  <2>4. CASE miner = "InClose_Reorder" /\ pc # "start"
    BY <1>1, <2>4, ReorderCallTypes
  <2> QED BY <1>1, <2>1, <2>2, <2>3, <2>4
<1> QED BY <1>1, <1>2, ColumnTypes DEF TypeOK

\* In every run of a miner the columns are graded sets, a call is for a later
\* attribute than its caller, and the calls are at most one deeper than there
\* are attributes.
THEOREM TypeCorrect == Spec => []TypeOK
<1>1. MinerInv => TypeOK
  BY InvTypes
<1> QED BY <1>1, Invariance, PTL

\* The invariant implies that what is complete is a concept, listed once.
LEMMA InvConcepts == MinerInv => OnlyConcepts
<1> SUFFICES ASSUME MinerInv PROVE OnlyConcepts
  OBVIOUS
<1>1. /\ I \in Contexts
      /\ pc \in {"start", "core", "pack", "done", "interrupted"}
      /\ pc = "start" => columns = <<>> /\ stack = <<>>
      /\ miner \in {"FastCbO", "InClose", "InClose_Reorder"}
      /\ miner # "InClose_Reorder" => pc # "interrupted"
      /\ miner = "FastCbO" /\ pc # "start" => FastState(stack, columns)
      /\ miner = "InClose" /\ pc = "core" => InCloseState(stack, columns, add_empty_extent)
      /\ miner = "InClose" /\ pc \in {"pack", "done"} => AllListed(columns) /\ stack = <<>>
      /\ miner = "InClose_Reorder" /\ pc # "start" => ReorderState(stack, columns)
      /\ miner = "InClose_Reorder" => AllOnes
  BY DEF MinerInv, Methods, miner
<1>2. Completed \subseteq DOMAIN columns
  BY DEF Completed, InCl!Completed
<1>3. CASE \A n \in Completed : /\ IsConcept(columns[n].extent, columns[n].intent)
                                /\ \A m \in Completed : columns[m].intent = columns[n].intent => m = n
  BY <1>3 DEF OnlyConcepts, IsConcept, up, down
<1>4. CASE /\ \A n \in DOMAIN columns : IsConcept(columns[n].extent, columns[n].intent)
           /\ Once(columns)
  BY <1>2, <1>3, <1>4 DEF Once
<1>5. CASE pc = "start"
  <2>1. DOMAIN columns = {}
    BY <1>1, <1>5
  <2> QED BY <1>2, <1>3, <2>1
<1>6. CASE miner = "FastCbO" /\ pc # "start"
  BY <1>1, <1>4, <1>6 DEF FastState
<1>7. CASE miner = "InClose" /\ pc \in {"pack", "done"}
  BY <1>1, <1>4, <1>7 DEF AllListed
<1>8. CASE miner = "InClose_Reorder" /\ pc # "start"
  <2>1. BitColumns(columns) /\ Once(columns)
    BY <1>1, <1>8 DEF ReorderState, BitColumns
  <2> QED BY <1>1, <1>4, <1>8, <2>1, ReorderConcepts
<1>9. CASE miner = "InClose" /\ pc = "core"
  <2>1. ColumnsRight(stack, columns)
    BY <1>1, <1>9 DEF InCloseState
  <2>2. Completed = Complete(stack, columns)
    BY <1>9, ReportedNames DEF Completed
  <2>3. \A n \in Completed : /\ n \in DOMAIN columns
                             /\ IsConcept(columns[n].extent, Final(columns, n))
                             /\ columns[n].intent = Final(columns, n)
    BY <1>2, <2>1, <2>2 DEF ColumnsRight
  <2>4. \A m, n \in Completed : columns[m].intent = columns[n].intent => m = n
    BY <2>1, <2>3 DEF ColumnsRight
  <2> QED BY <1>3, <2>3, <2>4
<1> QED BY <1>1, <1>5, <1>6, <1>7, <1>8, <1>9

\* Whatever miner runs on whatever matrix, every column that is complete is a
\* concept of Godel logic, and none is listed twice.
THEOREM ListsOnlyConcepts == Spec => []OnlyConcepts
<1>1. MinerInv => OnlyConcepts
  BY InvConcepts
<1> QED BY <1>1, Invariance, PTL

\* InClose compares with intents that are final as far as it looks.
LEMMA InClosePartial ==
  ASSUME I \in Contexts, ColumnsRight(stack, columns)
  PROVE  InCl!PartialIntents
<1> SUFFICES ASSUME NEW u \in InCl!Unfinished, NEW c \in InCl!Attributes, c < u[2]
             PROVE  columns[u[1]].intent[c] = InCl!Degree(columns[u[1]].extent, c)
  BY DEF InCl!PartialIntents
<1>1. u \in Incomplete(stack) /\ c \in Attributes
  BY ReportedNames, InCloseNames
<1>2. columns[u[1]].intent[c] = Final(columns, u[1])[c]
  BY <1>1 DEF ColumnsRight
<1>3. Final(columns, u[1])[c] = InCl!Degree(columns[u[1]].extent, c)
  BY <1>1, InCloseNames DEF Final
<1> QED BY <1>2, <1>3

\* What the arrays of the last call of InClose rule out would fail.
LEMMA InClosePrunes ==
  ASSUME I \in Contexts, InCloseState(stack, columns, add_empty_extent)
  PROVE  InCl!PruningSound
<1> DEFINE f == InCl!Top
           E == columns[f.r].extent
           B == Final(columns, f.r)
           V == columns[f.r].intent
<1> SUFFICES ASSUME InCl!Running
             PROVE  /\ InCl!Up(f) /\ InCl!RuledOut(f) =>
                         \A h \in InCl!GradesSet(I) :
                           h >= f.g =>
                             LET C == InCl!Narrow([f EXCEPT !.g = h])
                             IN  \/ C = InCl!EmptyExtent
                                 \/ C # E /\ InCl!Additions(f, C) # {}
                    /\ ~InCl!Up(f) => InCl!Degree(InCl!Narrow(f), f.j) > f.g
  BY DEF InCl!PruningSound
<1>1. /\ f \in InCloseCalls
      /\ RuledOutRight(f, columns, add_empty_extent)
      /\ f.j \in Attributes /\ f.g \in GradesSet(I) /\ f.g \in Grades
      /\ E \in ObjectSets /\ IsConcept(E, B) /\ B = up(E)
      /\ B \in AttrSets /\ V \in AttrSets /\ Leq(V, B)
      /\ InCl!Narrow(f) = Part(E, f.j, f.g)
      /\ f.P \in AttrSets
  BY InCloseTop, FoundTypes, InCloseFields DEF Final
<1> HIDE DEF f, B, V
<1>2. ASSUME ~InCl!Up(f) PROVE InCl!Degree(InCl!Narrow(f), f.j) > f.g
  <2>1. <<f.j, f.g>> \notin f.G
    BY <1>2 DEF InCl!Up
  <2>2. up(Part(E, f.j, f.g))[f.j] > f.g
    BY <1>1, <2>1 DEF RuledOutRight
  <2> QED BY <1>1, <2>2, InCloseNames
<1>3. ASSUME InCl!RuledOut(f), NEW h \in GradesSet(I), h >= f.g
      PROVE  LET C == InCl!Narrow([f EXCEPT !.g = h])
             IN  C = NoObject \/ (C # E /\ InCl!Additions(f, C) # {})
  <2> DEFINE e == [f EXCEPT !.g = h]
             C == Part(E, f.j, h)
  <2>1. h \in Grades /\ h \in Int /\ f.g \in Int /\ f.P[f.j] \in Int
    BY <1>1, FoundTypes, KAssumption DEF Grades, AttrSets
  <2>2. InCl!Narrow(e) = C
    <3>1. f \in [r : Nat, y : -1 .. NAttr - 1, P : AttrSets,
                 G : SUBSET (Attributes \X Grades), j : 0 .. NAttr, g : Grades,
                 children : Seq([r : Nat, y : Attributes])]
      BY <1>1 DEF InCloseCalls
    <3>2. e.r = f.r /\ e.j = f.j /\ e.g = h
      BY <3>1
    <3> HIDE DEF e
    <3>3. e.j \in Attributes /\ e.g \in Grades /\ columns[e.r].extent \in ObjectSets
      BY <1>1, <2>1, <3>2
    <3>4. InCl!Narrow(e) = Part(columns[e.r].extent, e.j, e.g)
      BY <3>3, InCloseNames
    <3> QED BY <3>2, <3>4
  <2>3. 0 < f.P[f.j] /\ f.P[f.j] <= h
    BY <1>3, <2>1 DEF InCl!RuledOut
  <2>4. \/ C = NoObject
        \/ \E k \in Attributes : k <= f.y /\ k < f.j /\ up(C)[k] > B[k]
    BY <1>1, <2>3 DEF RuledOutRight, B
  <2>5. ASSUME NEW k \in Attributes, k < f.j, up(C)[k] > B[k]
        PROVE  C # E /\ k \in InCl!Additions(f, C)
    <3>1. B[k] \in Int /\ V[k] \in Int /\ V[k] <= B[k]
      BY <1>1, SetValues DEF Leq
    <3>2. C # E
      BY <1>1, <2>5, <3>1
    <3>3. C \in ObjectSets
      BY <1>1, <2>1, PartValues
    <3>4. up(C)[k] \in Int
      BY <3>3, UpDown, SetValues
    <3>5. InCl!Degree(C, k) = up(C)[k] /\ k \in InCl!Attributes
      BY InCloseNames
    <3>6. InCl!Degree(C, k) > V[k]
      BY <2>5, <3>1, <3>4, <3>5
    <3>7. k \in InCl!Additions(f, C)
      BY <2>5, <3>5, <3>6 DEF InCl!Additions, V
    <3> QED BY <3>2, <3>7
  <2> HIDE DEF C, E
  <2> QED BY <2>2, <2>4, <2>5
<1> QED BY <1>2, <1>3, InCloseNames

\* The invariant implies that what is skipped would fail.
LEMMA InvPruning == MinerInv => PruningSound
<1> SUFFICES ASSUME MinerInv PROVE PruningSound
  OBVIOUS
<1>1. /\ I \in Contexts
      /\ pc \in {"start", "core", "pack", "done", "interrupted"}
      /\ pc = "start" => columns = <<>> /\ stack = <<>>
      /\ miner # "InClose_Reorder" => pc # "interrupted"
      /\ miner = "FastCbO" /\ pc # "start" => FastState(stack, columns)
      /\ miner = "InClose" /\ pc = "core" => InCloseState(stack, columns, add_empty_extent)
      /\ miner = "InClose" /\ pc \in {"pack", "done"} => stack = <<>>
  BY DEF MinerInv
<1>2. ASSUME miner = "InClose" PROVE InCl!PartialIntents /\ InCl!PruningSound
  <2>1. CASE pc = "core"
    <3>1. InCloseState(stack, columns, add_empty_extent) /\ ColumnsRight(stack, columns)
      BY <1>1, <1>2, <2>1 DEF InCloseState
    <3> QED BY <1>1, <3>1, InClosePartial, InClosePrunes
  <2>2. CASE pc # "core"
    <3>1. stack = <<>>
      BY <1>1, <1>2, <2>2
    <3>2. InCl!Unfinished = {}
      BY <3>1 DEF InCl!Unfinished
    <3> QED BY <3>1, <3>2 DEF InCl!PartialIntents, InCl!PruningSound, InCl!Running
  <2> QED BY <2>1, <2>2
<1>3. ASSUME miner = "FastCbO" PROVE FCbO!PruningSound
  <2> SUFFICES ASSUME FCbO!Running, FCbO!Top.B[FCbO!Top.j] < K,
                      FCbO!FailedAbove(FCbO!Top, FCbO!FirstAbove(FCbO!Top))
               PROVE  ~FCbO!Canonical(FCbO!Top,
                         FCbO!compute_intent("Godel", I,
                           FCbO!Narrow(FCbO!Top, FCbO!FirstAbove(FCbO!Top))))
    BY DEF FCbO!PruningSound
  <2> DEFINE f == FCbO!Top
             D == up(Part(f.A, f.j, FCbO!FirstAbove(f)))
  <2>1. FastState(stack, columns)
    BY <1>1, <1>3 DEF FCbO!Running
  <2>2. \E k \in Attributes : k < f.j /\ f.B[k] < D[k]
    BY <1>1, <2>1, FastFailed
  <2>3. FCbO!compute_intent("Godel", I, FCbO!Narrow(f, FCbO!FirstAbove(f))) = D
    BY <1>1, <2>1, FastTried
  <2>4. D \in AttrSets /\ f.B \in AttrSets
    <3>1. D \in AttrSets
      BY <1>1, <2>1, FastTried
    <3>2. f.B \in AttrSets
      BY <1>1, <2>1, FastTop
    <3> QED BY <3>1, <3>2
  <2> HIDE DEF D, f
  <2>5. ~FCbO!Canonical(f, D)
    <3>1. \A k \in Attributes : f.B[k] \in Int /\ D[k] \in Int
      BY <2>4, SetValues
    <3>2. FCbO!Attributes = Attributes
      BY DEF FCbO!Attributes, Attributes
    <3> QED BY <2>2, <3>1, <3>2 DEF FCbO!Canonical
  <2> QED BY <2>3, <2>5 DEF f
<1> QED BY <1>2, <1>3 DEF PruningSound

\* What InClose and FastCbO skip without a test, because it failed in a call
\* above or leads to the same extent as another degree, would fail the test; and
\* the unfinished intents that InClose tests against are final that far.
THEOREM SkipsOnlyFailures == Spec => []PruningSound
<1>1. MinerInv => PruningSound
  BY InvPruning
<1> QED BY <1>1, Invariance, PTL

\* The operators of ConceptMiner in the names used here.
LEMMA GodelMinerNames ==
  /\ GodelMiner!Contexts = Contexts
  /\ GodelMiner!AttrSets = AttrSets
  /\ "Godel" \in GodelMiner!LogicNames /\ "standard" \in GodelMiner!Connections
  /\ \A M, V : GodelMiner!Closed("standard", "Godel", M, V)
                 <=> compute_intent("Godel", M, compute_extent("Godel", M, V)) = V
<1>1. /\ GodelMiner!Contexts = Contexts
      /\ GodelMiner!AttrSets = AttrSets
      /\ "Godel" \in GodelMiner!LogicNames /\ "standard" \in GodelMiner!Connections
  BY DEF GodelMiner!Contexts, GodelMiner!LogicNames, GodelMiner!Connections,
         GodelMiner!AttrSets, GodelMiner!Attributes, GodelMiner!Grades,
         Contexts, AttrSets, Attributes, Grades
<1>2. \A nm, M, V :
        /\ GodelMiner!compute_intent(nm, M, V) = compute_intent(nm, M, V)
        /\ GodelMiner!compute_extent(nm, M, V) = compute_extent(nm, M, V)
  BY DEF GodelMiner!compute_intent, GodelMiner!compute_extent,
         GodelMiner!implication, GodelMiner!implication_Zadeh,
         GodelMiner!implication_Godel, GodelMiner!implication_Lukasiewicz,
         GodelMiner!implication_Product, GodelMiner!Attributes, GodelMiner!Inf,
         GodelMiner!Min, GodelMiner!Range,
         compute_intent, compute_extent, implication, implication_Zadeh,
         implication_Godel, implication_Lukasiewicz, implication_Product,
         Attributes, Inf, Min, Range
<1>3. \A M, V : GodelMiner!Closed("standard", "Godel", M, V)
                  <=> compute_intent("Godel", M, compute_extent("Godel", M, V)) = V
  BY <1>2 DEF GodelMiner!Closed, GodelMiner!compute_closure, GodelMiner!intent_f,
     GodelMiner!extent_f
<1> QED BY <1>1, <1>3

\* What is reported is an intent of Godel logic.
LEMMA ReportedFound ==
  ASSUME MinerInv
  PROVE  Intents \subseteq ToFind
<1>1. I \in Contexts
  BY DEF MinerInv
<1>2. Completed \subseteq DOMAIN columns
  BY DEF Completed, InCl!Completed
<1>3. ASSUME NEW n \in Completed PROVE columns[n].intent \in ToFind
  <2>1. /\ columns[n].intent = compute_intent("Godel", I, columns[n].extent)
        /\ columns[n].extent = compute_extent("Godel", I, columns[n].intent)
    BY InvConcepts DEF OnlyConcepts
  <2>2. columns[n].intent \in AttrSets
    BY <1>2, ColumnTypes
  <2> QED BY <2>1, <2>2 DEF ToFind, up, down
<1> QED BY <1>3 DEF Intents

\* At the end nothing is missing.
LEMMA AllAtEnd ==
  ASSUME MinerInv, pc = "done"
  PROVE  ToFind \subseteq Intents
<1>1. /\ I \in Contexts
      /\ miner \in {"FastCbO", "InClose", "InClose_Reorder"}
      /\ miner = "FastCbO" => FastState(stack, columns)
      /\ miner = "InClose" => AllListed(columns) /\ stack = <<>>
      /\ miner = "InClose_Reorder" => ReorderState(stack, columns) /\ AllOnes
      /\ stack = <<>>
  BY DEF MinerInv, Methods, miner
<1>2. CASE miner = "FastCbO"
  <2>1. Partition(ToFind, {}, Listed(columns), FastViews(stack))
    BY <1>1, <1>2 DEF FastState
  <2>2. DOMAIN FastViews(stack) = {}
    BY <1>1 DEF FastViews
  <2>3. ToFind \subseteq Listed(columns) \cup {}
    BY <2>1, <2>2, AllFound
  <2> QED BY <1>2, <2>3, ReportedNames
<1>3. CASE miner = "InClose"
  <2>1. ToFind \subseteq Listed(columns)
    BY <1>1, <1>3 DEF AllListed
  <2>2. DOMAIN stack = {}
    BY <1>1
  <2>3. ListedSoFar(stack, columns) = Listed(columns)
    BY <2>2, InCloseOver
  <2> QED BY <1>3, <2>1, <2>3, ReportedNames
<1>4. CASE miner = "InClose_Reorder"
  <2>1. ToFind \subseteq Listed(columns)
    BY <1>1, <1>4, ReorderAll
  <2> QED BY <1>4, <2>1, ReportedNames
<1> QED BY <1>1, <1>2, <1>3, <1>4

\* Only intents are reported, and at the end all of them.
ReportedRight ==
  /\ Intents \subseteq ToFind
  /\ pc = "done" => ToFind \subseteq Intents

\* Every run of InClose, of the bit-set miner and of FastCbO is a run of
\* ConceptMiner with Godel logic and the standard connection: it reports
\* concepts only, none twice, and all of them when it finishes.
THEOREM Implementation == Spec => ImplementsMiner
<1>1. Init => GodelMiner!Init
  <2> SUFFICES ASSUME Init PROVE GodelMiner!Init
    OBVIOUS
  <2>1. columns = <<>> /\ pc = "start" /\ I \in Contexts
    BY InputAssumption DEF Init
  <2>2. Completed \subseteq DOMAIN columns
    BY DEF Completed, InCl!Completed
  <2>3. Intents = {} /\ MinerStatus = "running"
    BY <2>1, <2>2 DEF Intents, MinerStatus
  <2> QED BY <2>1, <2>3, GodelMinerNames DEF GodelMiner!Init
<1>2. MinerInv => ReportedRight
  BY ReportedFound, AllAtEnd DEF ReportedRight
<1>3. MinerInv /\ ReportedRight' /\ [Next]_vars => [GodelMiner!Next]_(GodelMiner!vars)
  <2> SUFFICES ASSUME MinerInv, ReportedRight', [Next]_vars
               PROVE  [GodelMiner!Next]_(GodelMiner!vars)
    OBVIOUS
  <2>1. CASE Next
    <3>1. Progress /\ I' = I
      BY <2>1, RunInCloseInv, RunReorderInv, RunFastCbOInv, SameMiner
         DEF Next, RunInClose, RunReorder, RunFastCbO
    <3>2. MinerStatus = "running"
      BY <3>1 DEF Progress, MinerStatus
    <3>3. CASE Intents' = Intents /\ pc' \notin {"done", "interrupted"}
      <4>1. MinerStatus' = "running"
        BY <3>3 DEF MinerStatus
      <4> QED BY <3>1, <3>2, <3>3, <4>1 DEF GodelMiner!vars
    <3>4. CASE Intents' # Intents
      <4>1. pc' \notin {"done", "interrupted"} /\ OneMore(Intents, Intents')
        BY <3>1, <3>4 DEF Progress
      <4>2. MinerStatus' = "running"
        BY <4>1 DEF MinerStatus
      <4>3. PICK X : Intents' = Intents \cup {X}
        BY <3>4, <4>1 DEF OneMore
      <4>4. X \notin Intents
        BY <3>4, <4>3
      <4>5. Intents' \subseteq ToFind'
        BY DEF ReportedRight
      <4>6. X \in ToFind
        BY <3>1, <4>3, <4>5, SameConcepts
      <4>7. X \in AttrSets /\ GodelMiner!Closed("standard", "Godel", I, X)
        BY <4>6, GodelMinerNames DEF ToFind, up, down
      <4> QED BY <3>1, <3>2, <4>2, <4>3, <4>4, <4>7, GodelMinerNames
              DEF GodelMiner!Report, GodelMiner!Next
    <3>5. CASE pc' = "interrupted"
      <4>1. Intents' = Intents /\ MinerStatus' = "interrupted"
        BY <3>1, <3>5 DEF Progress, MinerStatus
      <4> QED BY <3>1, <3>2, <4>1 DEF GodelMiner!Interrupt, GodelMiner!Next
    <3>6. CASE pc' = "done"
      <4>1. Intents' = Intents /\ MinerStatus' = "finished"
        BY <3>1, <3>6 DEF Progress, MinerStatus
      <4>2. ToFind' \subseteq Intents'
        BY <3>6 DEF ReportedRight
      <4>3. ToFind \subseteq Intents
        BY <3>1, <4>1, <4>2, SameConcepts
      <4>4. GodelMiner!AllReported
        BY <4>3, GodelMinerNames DEF GodelMiner!AllReported, ToFind, up, down
      <4> QED BY <3>1, <3>2, <4>1, <4>4 DEF GodelMiner!Finish, GodelMiner!Next
    <3> QED BY <3>3, <3>4, <3>5, <3>6
  <2>2. CASE UNCHANGED vars
    <3>1. I' = I /\ pc' = pc /\ columns' = columns /\ stack' = stack /\ miner' = miner
      BY <2>2, SameMiner DEF vars
    <3>2. Intents' = Intents
      BY <3>1, ReportedNames DEF ListedSoFar, Complete, Listed
    <3>3. MinerStatus' = MinerStatus
      BY <3>1 DEF MinerStatus
    <3> QED BY <3>1, <3>2, <3>3 DEF GodelMiner!vars
  <2> QED BY <2>1, <2>2
<1> QED
  BY <1>1, <1>2, <1>3, Invariance, PTL DEF Spec, ImplementsMiner, GodelMiner!Spec
=============================================================================
