--------------------------- MODULE InCloseReorder ---------------------------
(***************************************************************************)
(* In-Close on bit sets: InClose_Reorder and InCloseSolver                 *)
(* (src/inclose_binary_final.cpp), the miner FormalContext$find_concepts   *)
(* uses when all stored degrees are 1.                                     *)
(*                                                                         *)
(* The attributes are renumbered by support.  A bit set is the set of the  *)
(* new numbers of its attributes; a column is recorded as the graded sets  *)
(* it is unpacked to.  The recursion is an explicit stack of calls, one    *)
(* step is one attribute tried in a call, or one call or return.           *)
(***************************************************************************)
EXTENDS Galois, Sequences

CONSTANT CheckEvery   \* 1024 in the code: at which depths it looks for an
                      \* interrupt

VARIABLES
  I,         \* the matrix
  pc,        \* where the code is
  stack,     \* the calls of solve_recursive
  columns    \* the columns of the output

state == <<pc, stack, columns>>

Support(c) == Cardinality({o \in Objects : I[o][c] = K})

\* Mutant: attributes with the same support get the same number.
old_to_new_Ties(c) ==
  Cardinality({d \in Attributes : Support(d) < Support(c)})

\* attr_support is sorted by support, then by the old number.
old_to_new(c) ==
  Cardinality({d \in Attributes :
                 \/ Support(d) < Support(c)
                 \/ Support(d) = Support(c) /\ d < c})

Row(o) == {old_to_new(c) : c \in {d \in Attributes : I[o][d] = K}}

\* The intent of a set of objects: the conjunction of their rows.
IntentOf(E) == {j \in Attributes : \A o \in E : j \in Row(o)}

Unpack(B, E) ==
  [intent |-> [c \in Attributes |-> IF old_to_new(c) \in B THEN K ELSE 0],
   extent |-> [o \in Objects |-> IF o \in E THEN K ELSE 0]]

\* A call of solve_recursive; it saves its concept when it is entered.
Call(y, E, B) == [extent |-> E, intent |-> B, j |-> y + 1, saved |-> FALSE]

Top == stack[Len(stack)]
ReplaceTop(f) == [stack EXCEPT ![Len(stack)] = f]
NextAttribute == [Top EXCEPT !.j = @ + 1]
recursion_depth == Len(stack) - 1

ChildExtent == {o \in Top.extent : Top.j \in Row(o)}

\* Mutant: the attributes before j are not compared.
Canonical_Any(B) == TRUE

\* The child adds no attribute before j.
Canonical(B) == \A k \in B \ Top.intent : k >= Top.j

Running == pc = "core" /\ stack # <<>> /\ Top.saved /\ Top.j < NAttr
-----------------------------------------------------------------------------
\* The concept without objects is not found by the recursion: it is put first
\* when no object has all attributes.
Start ==
  /\ pc = "start"
  /\ columns' = IF \A o \in Objects : Row(o) # Attributes
                THEN <<Unpack(Attributes, {})>> ELSE <<>>
  /\ stack' = <<Call(-1, Objects, IntentOf(Objects))>>
  /\ pc' = "core"

\* checkUserInterrupt raises an R error: the caller gets no result.
Interrupt ==
  /\ pc = "core"
  /\ stack # <<>>
  /\ ~Top.saved
  /\ recursion_depth % CheckEvery = 0
  /\ pc' = "interrupted"
  /\ UNCHANGED <<stack, columns>>

Enter ==
  /\ pc = "core"
  /\ stack # <<>>
  /\ ~Top.saved
  /\ columns' = Append(columns, Unpack(Top.intent, Top.extent))
  /\ stack' = ReplaceTop([Top EXCEPT !.saved = TRUE])
  /\ UNCHANGED pc

\* The intent has the attribute, or no object of the extent has it.
Skip ==
  /\ Running
  /\ Top.j \in Top.intent \/ ChildExtent = {}
  /\ stack' = ReplaceTop(NextAttribute)
  /\ UNCHANGED <<pc, columns>>

Reject ==
  /\ Running
  /\ Top.j \notin Top.intent
  /\ ChildExtent # {}
  /\ ~Canonical(IntentOf(ChildExtent))
  /\ stack' = ReplaceTop(NextAttribute)
  /\ UNCHANGED <<pc, columns>>

Recurse ==
  /\ Running
  /\ Top.j \notin Top.intent
  /\ ChildExtent # {}
  /\ Canonical(IntentOf(ChildExtent))
  /\ stack' = Append(ReplaceTop(NextAttribute),
                     Call(Top.j, ChildExtent, IntentOf(ChildExtent)))
  /\ UNCHANGED <<pc, columns>>

Return ==
  /\ pc = "core"
  /\ stack # <<>>
  /\ Top.saved
  /\ Top.j = NAttr
  /\ stack' = SubSeq(stack, 1, Len(stack) - 1)
  /\ UNCHANGED <<pc, columns>>

Finish ==
  /\ pc = "core"
  /\ stack = <<>>
  /\ pc' = "done"
  /\ UNCHANGED <<stack, columns>>

Next ==
  \/ Start
  \/ Interrupt
  \/ Enter
  \/ Skip
  \/ Reject
  \/ Recurse
  \/ Return
  \/ Finish
=============================================================================
