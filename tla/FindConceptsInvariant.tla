------------------------ MODULE FindConceptsInvariant ------------------------
(***************************************************************************)
(* The inductive invariant of module FindConcepts: how the miners of the   *)
(* Close-by-One family divide the sets they have to find among the calls   *)
(* of their recursion, and what the arrays and matrices of a call know of  *)
(* the calls below.  This is not code; module FindConceptsProofs proves    *)
(* the properties of FindConcepts with it.                                 *)
(***************************************************************************)
EXTENDS FindConcepts

\* T is the set of the intents to be found.  A call is seen as a record with
\* its intent C, the place <<j, g>> of its loops, whether it has still to list
\* C itself (own), and the children waiting (kids).

\* The sets above C that first differ from it after j, or at j with a degree
\* not below g: the loops of a call will come to them.
LoopRegion(T, C, j, g) ==
  {X \in T :
     /\ Leq(C, X)
     /\ \E d \in Attributes :
          /\ \A c \in Attributes : c < d => X[c] = C[c]
          /\ C[d] < X[d]
          /\ j < d \/ (j = d /\ g <= X[d])}

\* The sets above C that agree with it up to y: a call for C and y finds them.
Subtree(T, C, y) ==
  {X \in T : Leq(C, X) /\ \A c \in Attributes : c <= y => X[c] = C[c]}

\* What the call f itself has to do (m = 0), and what is left to its m-th child.
Region(T, f, m) ==
  IF m = 0 THEN LoopRegion(T, f.C, f.j, f.g) \cup (IF f.own THEN {f.C} ELSE {})
  ELSE Subtree(T, f.kids[m].C, f.kids[m].y)

Places(st) ==
  UNION {{<<n, m>> : m \in {0} \cup DOMAIN st[n].kids} : n \in DOMAIN st}

\* Every set to be found is listed, or left to exactly one place, or among the
\* exceptions E; and what is listed is left to none.
Partition(T, E, listed, st) ==
  /\ \A p, q \in Places(st) :
       p # q => Region(T, st[p[1]], p[2]) \cap Region(T, st[q[1]], q[2]) = {}
  /\ \A p \in Places(st) : Region(T, st[p[1]], p[2]) \cap listed = {}
  /\ \A X \in T :
       \/ X \in listed \cup E
       \/ \E p \in Places(st) : X \in Region(T, st[p[1]], p[2])
-----------------------------------------------------------------------------
\* The strengthening that makes the safety properties inductive.

\* The intent and the extent of the code's names, without the logic.
up(E) == compute_intent("Godel", I, E)
down(B) == compute_extent("Godel", I, B)
Below(E, F) == \A o \in Objects : E[o] <= F[o]
IsConcept(E, B) ==
  /\ E \in ObjectSets
  /\ B \in AttrSets
  /\ B = up(E)
  /\ E = down(B)

\* The intents to be found, and the one without objects, if there is none.
ToFind == {X \in AttrSets : up(down(X)) = X}
NoObject == [o \in Objects |-> 0]
WithoutObjects == {X \in ToFind : down(X) = NoObject}

\* The objects of E that have j to the degree h, and the rest as far as they do.
Part(E, j, h) ==
  [o \in Objects |-> IF h <= I[o][j] \/ E[o] <= I[o][j] THEN E[o] ELSE I[o][j]]

\* The columns of the output, and the intents listed when all are complete.
Columns == [intent : AttrSets, extent : ObjectSets]
Listed(cols) == {cols[n].intent : n \in DOMAIN cols}
Once(cols) ==
  \A m, n \in DOMAIN cols : cols[m].intent = cols[n].intent => m = n
-----------------------------------------------------------------------------
\* FastCbO.
Failures == [Grades -> [Attributes -> AttrSets]]
FastCalls ==
  [A : ObjectSets, B : AttrSets, y : -1 .. NAttr - 1, Ny : Failures, Mj : Failures,
   queue : Seq([A : ObjectSets, B : AttrSets, y : Attributes]),
   j : 0 .. NAttr, g : Grades]

\* The rows of N are not above what they stand for in a call with the extent A:
\* the closures with j to the degree h.
FailuresRight(N, A) ==
  \A h \in Grades, j \in Attributes : Leq(N[h][j], up(Part(A, j, h)))

\* A call has a concept; what failed above fails below.
FastFrame(f) ==
  /\ IsConcept(f.A, f.B)
  /\ f.y < f.j
  /\ f.g \in GradesSet(I)
  /\ FailuresRight(f.Ny, f.A)
  /\ FailuresRight(f.Mj, f.A)
  /\ \A m \in DOMAIN f.queue :
       /\ IsConcept(f.queue[m].A, f.queue[m].B)
       /\ Below(f.queue[m].A, f.A)
       /\ f.y < f.queue[m].y

FastView(f) ==
  [C |-> f.B, j |-> f.j, g |-> f.g, own |-> FALSE,
   kids |-> [m \in DOMAIN f.queue |-> [C |-> f.queue[m].B, y |-> f.queue[m].y]]]
FastViews(st) == [n \in DOMAIN st |-> FastView(st[n])]

\* The calls are for later and later attributes.
Deeper(st) ==
  \A n \in DOMAIN st : st[n].y >= n - 2 /\ (n > 1 => st[n-1].y < st[n].y)

FastState(st, cols) ==
  /\ st \in Seq(FastCalls)
  /\ cols \in Seq(Columns)
  /\ \A n \in DOMAIN cols : IsConcept(cols[n].extent, cols[n].intent)
  /\ Once(cols)
  /\ \A n \in DOMAIN st : FastFrame(st[n])
  /\ Deeper(st)
  /\ Partition(ToFind, {}, Listed(cols), FastViews(st))
-----------------------------------------------------------------------------
\* InClose.
InCloseCalls ==
  [r : Nat, y : -1 .. NAttr - 1, P : AttrSets, G : SUBSET (Attributes \X Grades),
   j : 0 .. NAttr, g : Grades, children : Seq([r : Nat, y : Attributes])]

\* The concept of a column of InClose, whose intent may be incomplete.
Final(cols, r) == up(cols[r].extent)

\* The columns whose intent is incomplete, with the attribute up to which it is
\* final.
Incomplete(st) ==
  UNION {(IF st[n].j < NAttr THEN {<<st[n].r, st[n].j>>} ELSE {})
           \cup {<<child.r, child.y + 1>> : child \in Range(st[n].children)} :
         n \in DOMAIN st}
Complete(st, cols) == DOMAIN cols \ {u[1] : u \in Incomplete(st)}
ListedSoFar(st, cols) == {cols[r].intent : r \in Complete(st, cols)}

ColumnsRight(st, cols) ==
  /\ \A r \in DOMAIN cols :
       /\ IsConcept(cols[r].extent, Final(cols, r))
       /\ cols[r].extent # NoObject
       /\ Leq(cols[r].intent, Final(cols, r))
       /\ r \in Complete(st, cols) => cols[r].intent = Final(cols, r)
  /\ \A u \in Incomplete(st) : \A c \in Attributes :
       c < u[2] => cols[u[1]].intent[c] = Final(cols, u[1])[c]
  /\ \A m, n \in DOMAIN cols : Final(cols, m) = Final(cols, n) => m = n

InCloseFrame(f, cols) ==
  /\ f.r \in DOMAIN cols
  /\ f.y < f.j
  /\ f.g \in GradesSet(I)
  /\ \A m \in DOMAIN f.children :
       LET child == f.children[m]
       IN  /\ child.r \in DOMAIN cols
           /\ f.y < child.y
           /\ Below(cols[child.r].extent, cols[f.r].extent)
           /\ \A c \in Attributes :
                c < child.y => Final(cols, child.r)[c] = Final(cols, f.r)[c]
  /\ f.j < NAttr =>
       \/ cols[f.r].intent[f.j] = Final(cols, f.r)[f.j]
       \/ f.g <= Final(cols, f.r)[f.j]

\* What the arrays P and G rule out leads to no objects, or to an attribute up
\* to y that the intent has not got; or it is the same as a higher degree.
RuledOutRight(f, cols, added) ==
  \A j \in Attributes, h \in GradesSet(I) :
    LET C == Part(cols[f.r].extent, j, h)
    IN  /\ 0 < f.P[j] /\ f.P[j] <= h =>
             \/ added /\ C = NoObject
             \/ \E k \in Attributes : k <= f.y /\ k < j /\ up(C)[k] > Final(cols, f.r)[k]
        /\ <<j, h>> \notin f.G => up(C)[j] > h

InCloseView(f, cols) ==
  [C |-> Final(cols, f.r), j |-> f.j, g |-> f.g, own |-> f.j < NAttr,
   kids |-> [m \in DOMAIN f.children |->
               [C |-> Final(cols, f.children[m].r), y |-> f.children[m].y]]]
InCloseViews(st, cols) == [n \in DOMAIN st |-> InCloseView(st[n], cols)]

InCloseState(st, cols, added) ==
  /\ st \in Seq(InCloseCalls)
  /\ cols \in Seq(Columns)
  /\ added \in BOOLEAN
  /\ added => down(FullSet) = NoObject
  /\ ColumnsRight(st, cols)
  /\ \A n \in DOMAIN st : InCloseFrame(st[n], cols) /\ RuledOutRight(st[n], cols, added)
  /\ Deeper(st)
  /\ \A n \in DOMAIN st : n < Len(st) => st[n].j = NAttr
  /\ Partition(ToFind, IF added THEN WithoutObjects ELSE {}, ListedSoFar(st, cols),
               InCloseViews(st, cols))

\* When no call is left: the columns are the concepts, each once.
AllListed(cols) ==
  /\ cols \in Seq(Columns)
  /\ \A n \in DOMAIN cols : IsConcept(cols[n].extent, cols[n].intent)
  /\ Once(cols)
  /\ ToFind \subseteq Listed(cols)
-----------------------------------------------------------------------------
\* The bit-set miner: the same with the sets of new numbers.
ReorderCalls ==
  [extent : SUBSET Objects, intent : SUBSET Attributes, j : 0 .. NAttr, saved : BOOLEAN]

Bits(B) == [a \in Attributes |-> IF a \in B THEN K ELSE 0]
Having(B) == {o \in Objects : B \subseteq Reorder!Row(o)}
ClosedBits == {B \in SUBSET Attributes : Reorder!IntentOf(Having(B)) = B}
BitsToFind == {Bits(B) : B \in ClosedBits}
BitsWithoutObjects == {Bits(B) : B \in {B \in ClosedBits : Having(B) = {}}}

\* The sets the columns were unpacked from.
Numbers(V) == {Reorder!old_to_new(c) : c \in {d \in Attributes : V[d] = K}}
BitsListed(cols) == {Bits(Numbers(cols[n].intent)) : n \in DOMAIN cols}

ReorderFrame(f) ==
  /\ f.extent # {}
  /\ f.intent = Reorder!IntentOf(f.extent)
  /\ f.extent = Having(f.intent)

ReorderView(f) ==
  [C |-> Bits(f.intent), j |-> f.j, g |-> 0, own |-> ~f.saved, kids |-> <<>>]
ReorderViews(st) == [n \in DOMAIN st |-> ReorderView(st[n])]

BitColumns(cols) ==
  /\ cols \in Seq(Columns)
  /\ \A n \in DOMAIN cols :
       \E B \in ClosedBits : cols[n] = Reorder!Unpack(B, Having(B))
  /\ Once(cols)
  /\ BitsWithoutObjects \subseteq BitsListed(cols)

ReorderState(st, cols) ==
  /\ st \in Seq(ReorderCalls)
  /\ BitColumns(cols)
  /\ \A n \in DOMAIN st : ReorderFrame(st[n])
  /\ \A n \in DOMAIN st : n < Len(st) => st[n].j >= n /\ st[n].saved
  /\ \A n \in DOMAIN st : n > 1 => st[n-1].j <= st[n].j
  /\ Partition(BitsToFind, BitsWithoutObjects, BitsListed(cols) \ BitsWithoutObjects,
               ReorderViews(st))
-----------------------------------------------------------------------------
MinerInv ==
  /\ method \in Methods
  /\ I \in Contexts
  /\ add_empty_extent \in BOOLEAN
  /\ pc \in {"start", "core", "pack", "done", "interrupted"}
  /\ pc = "start" => stack = <<>> /\ columns = <<>> /\ ~add_empty_extent
  /\ pc \in {"pack", "done"} => stack = <<>>
  /\ miner # "InClose" => pc # "pack"
  /\ miner # "InClose_Reorder" => pc # "interrupted"
  /\ miner = "FastCbO" /\ pc # "start" => FastState(stack, columns)
  /\ miner = "InClose" /\ pc = "core" => InCloseState(stack, columns, add_empty_extent)
  /\ miner = "InClose" /\ pc \in {"pack", "done"} => AllListed(columns)
  /\ miner = "InClose_Reorder" /\ pc # "start" => ReorderState(stack, columns)
=============================================================================
