------------------------------ MODULE InClose -------------------------------
(***************************************************************************)
(* In-Close over graded attributes: inclose_core and is_canonical5         *)
(* (src/inclose.cpp), the default miner of FormalContext$find_concepts.    *)
(*                                                                         *)
(* The recursion is an explicit stack of calls.  A call completes the      *)
(* intent of its own column while it makes the columns of its children.    *)
(* One step is one pair of an attribute and a degree, or one call or       *)
(* return.  The arguments connection and name are not used by the code.    *)
(***************************************************************************)
EXTENDS Galois, Sequences

VARIABLES
  I,                 \* the matrix
  pc,                \* where the code is
  stack,             \* the calls of inclose_core
  columns,           \* the columns of B and A
  add_empty_extent   \* has an empty extent been met?

state == <<pc, stack, columns, add_empty_extent>>

EmptyExtent == [o \in Objects |-> 0]
FullExtent == [o \in Objects |-> K]

\* A call of inclose_core: parent column r, attribute y, arrays P and G, where
\* G is the set of pairs whose flag is still up.  The loop is at <<j, g>>.
Call(r, y, P, G) ==
  [r |-> r, y |-> y, P |-> P, G |-> G, j |-> y + 1, g |-> 0, children |-> <<>>]

Top == stack[Len(stack)]
ReplaceTop(f) == [stack EXCEPT ![Len(stack)] = f]

\* The increments of the loops over the attributes and over the degrees.
NextAttribute(f) == [f EXCEPT !.j = @ + 1, !.g = 0]
NextGradeAfter(f, g) ==
  IF g < K THEN [f EXCEPT !.g = Min({h \in GradesSet(I) : h > g})]
  ELSE NextAttribute(f)

\* P[j] after the degree g of attribute j has been ruled out.
RuleOut(f) ==
  [f EXCEPT !.P[f.j] = IF 0 < @ /\ @ <= f.g THEN @ ELSE f.g]

\* C, the part of the extent with attribute j to the degree g; and gv, the
\* degree of j in its intent.
Narrow(f) ==
  [o \in Objects |->
     LET E == columns[f.r].extent[o]
         v == IF I[o][f.j] >= f.g THEN K ELSE I[o][f.j]
     IN  IF v > E THEN E ELSE v]

Degree(C, c) == Inf([o \in Objects |-> implication_Godel(C[o], I[o][c])])

\* f moved on to the degree gv; the flags of the degrees in between are down.
MoveTo(f, gv) ==
  [f EXCEPT !.g = gv, !.G = @ \ {<<f.j, h>> : h \in f.g .. gv - 1}]

\* is_canonical5 looks for these: attributes before j that C adds to the intent.
Additions(f, C) ==
  {k \in Attributes : k < f.j /\ Degree(C, k) > columns[f.r].intent[k]}

Running == pc = "core" /\ stack # <<>> /\ Top.j < NAttr

\* The tests at the head of the loops.
Up(f) == <<f.j, f.g>> \in f.G
RuledOut(f) == 0 < f.P[f.j] /\ f.P[f.j] <= f.g
Covered(f) == columns[f.r].intent[f.j] >= f.g

Testing == Running /\ Up(Top) /\ ~RuledOut(Top) /\ ~Covered(Top)
-----------------------------------------------------------------------------
\* The first column has all objects; its intent is completed by the first call.
Start ==
  /\ pc = "start"
  /\ columns' = <<[intent |-> EmptySet, extent |-> FullExtent]>>
  /\ stack' = <<Call(1, -1, EmptySet, Attributes \X GradesSet(I))>>
  /\ pc' = "core"
  /\ UNCHANGED add_empty_extent

SkipGrade ==
  /\ Running
  /\ ~Up(Top) \/ (~RuledOut(Top) /\ Covered(Top))
  /\ stack' = ReplaceTop(NextGradeAfter(Top, Top.g))
  /\ UNCHANGED <<pc, columns, add_empty_extent>>

SkipAttribute ==
  /\ Running
  /\ Up(Top)
  /\ RuledOut(Top)
  /\ stack' = ReplaceTop(NextAttribute(Top))
  /\ UNCHANGED <<pc, columns, add_empty_extent>>

NoObjects ==
  /\ Testing
  /\ Narrow(Top) = EmptyExtent
  /\ add_empty_extent' = TRUE
  /\ stack' = ReplaceTop(NextAttribute(RuleOut(Top)))
  /\ UNCHANGED <<pc, columns>>

\* All objects of the column have j to the degree g: its intent grows.
AddToParent ==
  /\ Testing
  /\ LET C == Narrow(Top)
         f == MoveTo(Top, Degree(C, Top.j))
     IN  /\ C # EmptyExtent
         /\ C = columns[f.r].extent
         /\ columns' = [columns EXCEPT ![f.r].intent[f.j] = f.g]
         /\ stack' = ReplaceTop(NextGradeAfter(f, f.g))
  /\ UNCHANGED <<pc, add_empty_extent>>

\* C is new: a column for it, with the intent as far as it is known, and a
\* child to be called when the loops are over.
AddChild ==
  /\ Testing
  /\ LET C == Narrow(Top)
         f == MoveTo(Top, Degree(C, Top.j))
     IN  /\ C # EmptyExtent
         /\ C # columns[f.r].extent
         /\ Additions(f, C) = {}
         /\ columns' =
              Append(columns, [intent |-> [columns[f.r].intent EXCEPT ![f.j] = f.g],
                               extent |-> C])
         /\ stack' = ReplaceTop(NextGradeAfter(
              [f EXCEPT !.children = Append(@, [r |-> Len(columns) + 1, y |-> f.j])],
              f.g))
  /\ UNCHANGED <<pc, add_empty_extent>>

\* C adds an earlier attribute.  When that is not after y, it will be added
\* below this call too: the degree is ruled out for the children.
Reject ==
  /\ Testing
  /\ LET C == Narrow(Top)
         f == MoveTo(Top, Degree(C, Top.j))
     IN  /\ C # EmptyExtent
         /\ C # columns[f.r].extent
         /\ Additions(f, C) # {}
         /\ stack' = ReplaceTop(NextGradeAfter(
              IF Min(Additions(f, C)) <= f.y THEN RuleOut(f) ELSE f, f.g))
  /\ UNCHANGED <<pc, columns, add_empty_extent>>

\* Call inclose_core on the next child, with the arrays as they are now.
Recurse ==
  /\ pc = "core"
  /\ stack # <<>>
  /\ Top.j = NAttr
  /\ Top.children # <<>>
  /\ LET child == Head(Top.children)
     IN  stack' = Append(ReplaceTop([Top EXCEPT !.children = Tail(@)]),
                         Call(child.r, child.y, Top.P, Top.G))
  /\ UNCHANGED <<pc, columns, add_empty_extent>>

Return ==
  /\ pc = "core"
  /\ stack # <<>>
  /\ Top.j = NAttr
  /\ Top.children = <<>>
  /\ stack' = SubSeq(stack, 1, Len(stack) - 1)
  /\ UNCHANGED <<pc, columns, add_empty_extent>>

AddEmptyExtent ==
  /\ pc = "core"
  /\ stack = <<>>
  /\ columns' = IF add_empty_extent
                THEN Append(columns, [intent |-> FullSet, extent |-> EmptyExtent])
                ELSE columns
  /\ pc' = "pack"
  /\ UNCHANGED <<stack, add_empty_extent>>

Finish ==
  /\ pc = "pack"
  /\ pc' = "done"
  /\ UNCHANGED <<stack, columns, add_empty_extent>>

Next ==
  \/ Start
  \/ SkipGrade
  \/ SkipAttribute
  \/ NoObjects
  \/ AddToParent
  \/ AddChild
  \/ Reject
  \/ Recurse
  \/ Return
  \/ AddEmptyExtent
  \/ Finish
-----------------------------------------------------------------------------
\* The columns whose intent is still being completed, with the attribute up to
\* which it is.
Unfinished ==
  UNION {(IF stack[n].j < NAttr THEN {<<stack[n].r, stack[n].j>>} ELSE {})
           \cup {<<child.r, child.y + 1>> : child \in Range(stack[n].children)} :
         n \in DOMAIN stack}

Completed == DOMAIN columns \ {u[1] : u \in Unfinished}

\* The canonicity test may rely on the intents of unfinished columns: before
\* the attribute they have reached they are final.
PartialIntents ==
  \A u \in Unfinished : \A c \in Attributes :
    c < u[2] => columns[u[1]].intent[c] = Degree(columns[u[1]].extent, c)

\* What the calls above have ruled out is not missed: a degree of P and all
\* above it lead to no objects or to a concept that adds an earlier attribute,
\* and a degree whose flag is down leads to the same extent as a higher one.
PruningSound ==
  Running /\ ~Covered(Top) =>
    /\ Up(Top) /\ RuledOut(Top) =>
         \A h \in GradesSet(I) :
           h >= Top.g =>
             LET C == Narrow([Top EXCEPT !.g = h])
             IN  \/ C = EmptyExtent
                 \/ C # columns[Top.r].extent /\ Additions(Top, C) # {}
    /\ ~Up(Top) => Degree(Narrow(Top), Top.j) > Top.g
=============================================================================
