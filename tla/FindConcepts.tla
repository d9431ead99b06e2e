---------------------------- MODULE FindConcepts ----------------------------
(***************************************************************************)
(* FormalContext$find_concepts (src/R/formal_context.R) with the miners of *)
(* the Close-by-One family: it takes the bit-set miner when the method is  *)
(* "InClose" and every stored degree is 1, else the miner registered under *)
(* the name of the method.  For the method "NextClosure" see module        *)
(* NextClosureConcepts.                                                    *)
(*                                                                         *)
(* The miners share the variables; a run is the run of one of them.        *)
(***************************************************************************)
EXTENDS Galois, Sequences

CONSTANTS
  InitContexts,   \* the matrices find_concepts may be called with
  InitLogics,     \* the logics the context may have
  CheckEvery      \* see InCloseReorder

\* check_empty() has seen to it that there are objects; a matrix has finitely
\* many rows.
ASSUME InputAssumption ==
  /\ Objects # {} /\ IsFiniteSet(Objects)
  /\ InitContexts \subseteq Contexts
  /\ InitLogics \subseteq LogicNames
  /\ CheckEvery \in Nat \ {0}

VARIABLES
  method,                   \* the argument of find_concepts
  logic, connection,        \* private$logic and private$connection
  I, pc, stack, columns,    \* the matrix and the state of the miner
  add_empty_extent          \* used by InClose only

inputs == <<method, logic, connection, I>>
vars == <<inputs, pc, stack, columns, add_empty_extent>>

InCl == INSTANCE InClose
Reorder == INSTANCE InCloseReorder
FCbO == INSTANCE FastCbO

\* The method names of conceptRegistry, but for "NextClosure".
Methods == {"InClose", "FastCbO"}

\* all(self$I@x == 1)
AllOnes == \A o \in Objects, c \in Attributes : I[o][c] \in {0, K}

miner == IF method = "InClose" /\ AllOnes THEN "InClose_Reorder" ELSE method
-----------------------------------------------------------------------------
Init ==
  /\ method \in Methods
  /\ logic \in InitLogics
  /\ connection = "standard"
  /\ I \in InitContexts
  /\ pc = "start"
  /\ stack = <<>>
  /\ columns = <<>>
  /\ add_empty_extent = FALSE

RunInClose ==
  /\ miner = "InClose"
  /\ InCl!Next
  /\ UNCHANGED inputs

RunReorder ==
  /\ miner = "InClose_Reorder"
  /\ Reorder!Next
  /\ UNCHANGED <<inputs, add_empty_extent>>

RunFastCbO ==
  /\ miner = "FastCbO"
  /\ FCbO!Next
  /\ UNCHANGED <<inputs, add_empty_extent>>

Next == RunInClose \/ RunReorder \/ RunFastCbO

Spec == Init /\ [][Next]_vars

\* The miners are sequential code: a step that is possible is taken.
FairSpec == Spec /\ WF_vars(Next)
-----------------------------------------------------------------------------
\* The columns whose intent is final.  InClose completes the intent of a
\* column in the call after the one that appends it.
Completed == IF miner = "InClose" THEN InCl!Completed ELSE DOMAIN columns

Intents == {columns[n].intent : n \in Completed}

\* The types of the variables of find_concepts and its miners: the columns are
\* graded sets, a call is for a later attribute than its caller, and the calls
\* are no deeper than there are attributes.
TypeOK ==
  /\ pc \in {"start", "core", "pack", "done", "interrupted"}
  /\ \A n \in DOMAIN columns :
       columns[n].intent \in AttrSets /\ columns[n].extent \in ObjectSets
  /\ add_empty_extent \in BOOLEAN
  /\ Len(stack) <= NAttr + 1
  /\ \A n \in DOMAIN stack :
       /\ stack[n].j \in 0 .. NAttr
       /\ miner # "InClose_Reorder" =>
            /\ stack[n].g \in GradesSet(I)
            /\ n > 1 => stack[n-1].y < stack[n].y

\* Every column is a concept of Godel logic: the extent is that of the intent
\* and the intent that of the extent; and no concept is listed twice, which is
\* what the canonicity tests are for.
OnlyConcepts ==
  \A n \in Completed :
    /\ columns[n].intent = compute_intent("Godel", I, columns[n].extent)
    /\ columns[n].extent = compute_extent("Godel", I, columns[n].intent)
    /\ \A m \in Completed \ {n} : columns[m].intent # columns[n].intent

\* What the miners decide without a test is right: the intents that InClose
\* compares with before they are finished are final as far as it does, and what
\* InClose and FastCbO skip on account of what failed in the calls above would
\* not pass the test.
PruningSound ==
  /\ miner = "InClose" => InCl!PartialIntents /\ InCl!PruningSound
  /\ miner = "FastCbO" => FCbO!PruningSound

\* What the find_concepts of these miners promises is the mining of the
\* concepts of Godel logic under the standard connection, whatever the logic
\* and the connection of the context are: they do not reach the miners.
MinerStatus ==
  CASE pc = "done"        -> "finished"
    [] pc = "interrupted" -> "interrupted"
    [] OTHER              -> "running"

GodelMiner == INSTANCE ConceptMiner
  WITH logic <- "Godel", connection <- "standard",
       reported <- Intents, status <- MinerStatus

\* Every miner reports the concepts one at a time, and finishes only when it
\* has reported all of them.
ImplementsMiner == GodelMiner!Spec

\* The miners end: the recursion is finite and no pair is tried for ever.
Termination == <>(pc \in {"done", "interrupted"})

\* The concepts listed at the end are those of the logic of the context: the
\* vignette "Fuzzy FCA" changes the logic, calls find_concepts, and says so.
ConceptsOfLogic ==
  pc = "done" =>
    \A n \in DOMAIN columns :
      Closed(connection, logic, I, columns[n].intent)
=============================================================================
