---------------------------- MODULE ConceptMiner ----------------------------
(***************************************************************************)
(* What FormalContext$find_concepts promises of every mining algorithm: it *)
(* reports concepts of the context, none of them twice, and when it says   *)
(* that it has finished it has reported all of them.  A user interrupt     *)
(* leaves a part of them.  The order of the reports is left open.          *)
(***************************************************************************)
EXTENDS Galois

VARIABLES
  I, logic, connection,   \* the context, its logic and its Galois connection
  reported,               \* the intents of the concepts reported so far
  status                  \* "running", "finished" or "interrupted"

vars == <<I, logic, connection, reported, status>>

Init ==
  /\ I \in Contexts
  /\ logic \in LogicNames
  /\ connection \in Connections
  /\ reported = {}
  /\ status = "running"

Report ==
  /\ status = "running"
  /\ \E B \in AttrSets \ reported :
       /\ reported' = reported \cup {B}
       /\ Closed(connection, logic, I, B)
  /\ UNCHANGED <<I, logic, connection, status>>

AllReported ==
  \A B \in AttrSets :
    Graded(I, B) /\ Closed(connection, logic, I, B) => B \in reported

Finish ==
  /\ status = "running"
  /\ status' = "finished"
  /\ AllReported
  /\ UNCHANGED <<I, logic, connection, reported>>

Interrupt ==
  /\ status = "running"
  /\ status' = "interrupted"
  /\ UNCHANGED <<I, logic, connection, reported>>

Next == Report \/ Finish \/ Interrupt

Spec == Init /\ [][Next]_vars
=============================================================================
