---------------------------- MODULE FormalContext ----------------------------
(***************************************************************************)
(* The R6 class FormalContext (R/formal_context.R): a matrix of degrees    *)
(* with a logic and a Galois connection, and what has been computed from   *)
(* them: the concepts and the implications, which are kept until they are  *)
(* computed again or the matrix is replaced.  A context can be saved and   *)
(* loaded into another object.  An operation may return another context,   *)
(* with which the user goes on.                                            *)
(*                                                                         *)
(* Objects and attributes are numbered from 0 in every matrix; their names *)
(* are left out.  What the miners list is what their modules show that     *)
(* they do: all concepts.  Implications are given by their models, the     *)
(* graded sets that respect them.  Only RDS files are modelled, and        *)
(* neither scales nor many-valued contexts.                                *)
(***************************************************************************)
EXTENDS LatticeTables, SequencesExt

CONSTANTS
  K,              \* the number of steps between the degrees 0.0 and 1.0
  InitContexts,   \* the matrices a context may be made of
  InitFiles,      \* the files there may be from earlier sessions
  UsedLogics,     \* the logics and the connections that the user chooses from
  UsedConnections,
  MaxCalls        \* bound of the model: the number of operations called

\* Matrices with at least one object and one attribute.
Height(M) == Cardinality(DOMAIN M)
Width(M) == Cardinality(DOMAIN M[0])
IsMatrix(M) ==
  /\ Height(M) > 0 /\ Width(M) > 0
  /\ M \in [0 .. Height(M) - 1 -> [0 .. Width(M) - 1 -> 0 .. K]]

ASSUME ContextAssumption ==
  /\ K \in Nat \ {0}
  /\ \A M \in InitContexts : IsMatrix(M)
  /\ MaxCalls \in Nat

VARIABLES
  I,                  \* the matrix
  logic, connection,
  is_binary,          \* the flag that is set when the matrix is stored
  concepts,           \* << >>, or << the set of pairs of extent and intent >>
  implications,       \* << >>, or the models and the logic of the ImplicationSet
  file,               \* the RDS file
  answer,             \* what the last call was, or how it was refused
  calls               \* the number of calls

rules == <<logic, connection>>
vars == <<I, rules, is_binary, concepts, implications, file, answer, calls>>

Unset == << >>
Known(v) == <<v>>

\* The derivation operators of the matrix M.
Of(M) == INSTANCE Galois WITH Objects <- DOMAIN M, NAttr <- Width(M)

Degrees(M) == Of(M)!GradesSet(M)
Crisp(M) == Degrees(M) = {0, K}

\* The concepts of a matrix whose degrees it has.
ConceptsOf(M, l, c) ==
  {<<Of(M)!extent_f(c, l, M, B), B>> :
     B \in {A \in [DOMAIN M[0] -> Degrees(M)] : Of(M)!Closed(c, l, M, A)}}

Intents(pairs) == {p[2] : p \in pairs}
-----------------------------------------------------------------------------
\* Making a context

Init ==
  /\ I \in InitContexts
  /\ logic = "Zadeh" /\ connection = "standard"
  /\ is_binary = Crisp(I)
  /\ concepts = Unset
  /\ implications = Unset
  /\ file \in InitFiles
  /\ answer = "new"
  /\ calls = 0

Call(name) ==
  /\ calls < MaxCalls
  /\ calls' = calls + 1
  /\ answer' = name

\* Mutant: the concepts of the matrix before are kept.
initialize_KeepsConcepts(M) ==
  /\ I' = M
  /\ is_binary' = Crisp(M)
  /\ implications' = Unset
  /\ UNCHANGED concepts

\* initialize: the matrix is stored, and nothing is known of it.
initialize(M) ==
  /\ I' = M
  /\ is_binary' = Crisp(M)
  /\ concepts' = Unset
  /\ implications' = Unset

\* FormalContext$new: another object, with the default rules.
New(M) ==
  /\ initialize(M)
  /\ logic' = "Zadeh"
  /\ connection' = "standard"

\* The argument copy: the user goes on with a new object, or with the old one
\* made anew.
Replace(M) == New(M) \/ (initialize(M) /\ UNCHANGED rules)

\* An error, before anything has changed.
Refuse(why) ==
  /\ Call(why)
  /\ UNCHANGED <<I, rules, is_binary, concepts, implications, file>>
-----------------------------------------------------------------------------
\* Operations on the matrix

Transpose(M) == [a \in DOMAIN M[0] |-> [o \in DOMAIN M |-> M[o][a]]]

Rows(M, keep) == [i \in 0 .. Len(keep) - 1 |-> M[keep[i + 1]]]

Columns(M, keep) == [o \in DOMAIN M |-> [j \in 0 .. Len(keep) - 1 |-> M[o][keep[j + 1]]]]

Ascending(S) == SetToSortSeq(S, <)

\* .clarify_matrix: of rows that are equal the first is kept, behind the rows
\* that have no equal.
clarify_matrix(M) ==
  LET single == {i \in DOMAIN M : \A j \in DOMAIN M \ {i} : M[j] # M[i]}
      first == {i \in DOMAIN M \ single : \A j \in DOMAIN M : M[j] = M[i] => i <= j}
  IN  Rows(M, Ascending(single) \o Ascending(first))

\* Attributes first, then objects.
Clarified(M) == clarify_matrix(Transpose(clarify_matrix(Transpose(M))))

clarify ==
  /\ Call("clarified")
  /\ Replace(Clarified(I))
  /\ UNCHANGED file

Below(u, v) == \A o \in DOMAIN u : u[o] <= v[o]

\* R: the meet of the other columns above column y.
MeetAbove(columns, y) ==
  [o \in DOMAIN columns[y] |->
     Min({K} \cup {columns[z][o] : z \in {x \in DOMAIN columns \ {y} : Below(columns[y], columns[x])}})]

\* Mutant: the meet is taken of all other columns.
Kept_AllOthers(columns) ==
  {y \in DOMAIN columns :
     columns[y] # [o \in DOMAIN columns[y] |->
                     Min({K} \cup {columns[z][o] : z \in DOMAIN columns \ {y}})]}

\* Z: the attributes that are not the meet of others.
Kept(columns) == {y \in DOMAIN columns : MeetAbove(columns, y) # columns[y]}

Irredundant(M) == Ascending(Kept(Transpose(M)))

Reduced(M) == Columns(Clarified(M), Irredundant(Clarified(M)))

\* Mutant: that no attribute may be left is forgotten.
reduce_ToNothing ==
  \/ ~ is_binary /\ Refuse("not binary")
  \/ /\ is_binary
     /\ Call("reduced")
     /\ Replace(Reduced(I))
     /\ UNCHANGED file

\* Without an attribute left, giving names to the rows is an error.
reduce ==
  \/ ~ is_binary /\ Refuse("not binary")
  \/ is_binary /\ Irredundant(Clarified(I)) = << >> /\ Refuse("no attributes")
  \/ /\ is_binary
     /\ Irredundant(Clarified(I)) # << >>
     /\ Call("reduced")
     /\ Replace(Reduced(I))
     /\ UNCHANGED file

\* The concepts with one lower neighbour.
Irreducible(Adj) ==
  {p \in {e[1] : e \in Adj} : Cardinality(Downset(reduce_transitivity(Adj), p)) = 1}

Order == {e \in concepts[1] \X concepts[1] : Below(e[1][1], e[2][1])}
Reversed(Adj) == {<<e[2], e[1]>> : e \in Adj}

join_irr == SetToSeq(Irreducible(Order))
meet_irr == SetToSeq(Irreducible(Reversed(Order)))

StandardContext ==
  [i \in 0 .. Len(join_irr) - 1 |->
     [j \in 0 .. Len(meet_irr) - 1 |->
        IF Below(join_irr[i + 1][1], meet_irr[j + 1][1]) THEN K ELSE 0]]

\* A lattice of one concept has no irreducible concepts, and seq(0) is not empty.
standardize ==
  \/ concepts = Unset /\ Refuse("no concepts")
  \/ /\ concepts # Unset
     /\ join_irr = << >>
     /\ Refuse("subscript out of bounds")
  \/ /\ concepts # Unset
     /\ join_irr # << >>
     /\ Call("standardized")
     /\ New(StandardContext)
     /\ UNCHANGED file

dual ==
  /\ Call("dual")
  /\ New(Transpose(I))
  /\ UNCHANGED file

\* The logic goes with the rows and columns, the connection does not.  Bound of
\* the model: one side is cut at a time; two calls cut both.
subcontext ==
  /\ Call("subcontext")
  /\ \E objects \in (SUBSET DOMAIN I) \ {{}}, attributes \in (SUBSET DOMAIN I[0]) \ {{}} :
       /\ objects = DOMAIN I \/ attributes = DOMAIN I[0]
       /\ initialize(Columns(Rows(I, Ascending(objects)), Ascending(attributes)))
  /\ connection' = "standard"
  /\ UNCHANGED <<logic, file>>
-----------------------------------------------------------------------------
\* Operations that compute

\* InClose and FastCbO list the concepts of Godel logic, NextClosure those of
\* the logic and the connection of the context.
find_concepts ==
  /\ Call("concepts")
  /\ \E method \in {"InClose", "FastCbO", "NextClosure"} :
       concepts' = Known(IF method = "NextClosure" THEN ConceptsOf(I, logic, connection)
                                                   ELSE ConceptsOf(I, "Godel", "standard"))
  /\ UNCHANGED <<I, rules, is_binary, implications, file>>

\* The binary solver takes a matrix whose stored degrees are all 1.
find_implications ==
  /\ Call("implications")
  /\ LET pairs == IF Crisp(I) THEN ConceptsOf(I, "Godel", "standard")
                              ELSE ConceptsOf(I, logic, connection)
     IN  /\ \E save_concepts \in BOOLEAN :
              concepts' = IF save_concepts THEN Known(pairs) ELSE concepts
         /\ implications' = Known([models |-> Intents(pairs), logic |-> logic])
  /\ UNCHANGED <<I, rules, is_binary, file>>

use_logic ==
  /\ Call("use_logic")
  /\ logic' \in UsedLogics
  /\ UNCHANGED <<I, connection, is_binary, concepts, implications, file>>

use_connection ==
  /\ Call("use_connection")
  /\ connection' \in UsedConnections
  /\ UNCHANGED <<I, logic, is_binary, concepts, implications, file>>
-----------------------------------------------------------------------------
\* Files

save ==
  /\ Call("saved")
  /\ file' = [I |-> I, concepts |-> concepts, implications |-> implications]
  /\ UNCHANGED <<I, rules, is_binary, concepts, implications>>

\* The implications come back in a new ImplicationSet, which has the logic of
\* the class; the concepts are replaced only when the file has some.
load ==
  /\ Call("loaded")
  /\ I' = file.I
  /\ implications' = IF file.implications = Unset THEN Unset
                     ELSE Known([file.implications[1] EXCEPT !.logic = "Godel"])
  /\ concepts' = IF file.concepts = Unset THEN concepts ELSE file.concepts
  /\ UNCHANGED <<rules, is_binary, file>>

Next ==
  \/ clarify
  \/ reduce
  \/ standardize
  \/ dual
  \/ subcontext
  \/ find_concepts
  \/ find_implications
  \/ use_logic
  \/ use_connection
  \/ save
  \/ load

Spec == Init /\ [][Next]_vars
-----------------------------------------------------------------------------
\* Every variable has its type: a matrix never runs out of objects or
\* attributes, whatever is clarified, reduced or standardized.
TypeOK ==
  /\ IsMatrix(I) /\ IsMatrix(file.I)
  /\ logic \in UsedLogics /\ connection \in UsedConnections
  /\ is_binary \in BOOLEAN
  /\ calls \in 0 .. MaxCalls

\* What is known of a matrix is right: the flag tells whether it is crisp, the
\* concepts are its own, under some logic and connection the user can choose,
\* and so are the models of the implications, in the logic they carry.
FlagRight(M, flag) == flag = Crisp(M)

ConceptsRight(M, cs) ==
  cs = Unset \/ \E l \in UsedLogics, c \in UsedConnections : cs[1] = ConceptsOf(M, l, c)

ImplicationsRight(M, imps) ==
  imps = Unset \/ \E c \in UsedConnections : imps[1].models = Intents(ConceptsOf(M, imps[1].logic, c))

\* No call but load() makes wrong what was right: in whatever order contexts are
\* changed, computed, copied and saved, nothing that is kept belongs to an
\* earlier matrix.  load() may leave the flag of the matrix before, the concepts
\* of the matrix before when the file has none, and implications without their
\* logic; the concepts it brings are right if they were when they were saved.
StaysRight ==
  [][/\ answer' # "loaded" =>
          /\ FlagRight(I, is_binary) => FlagRight(I', is_binary')
          /\ ConceptsRight(I, concepts) => ConceptsRight(I', concepts')
          /\ ImplicationsRight(I, implications) => ImplicationsRight(I', implications')
     /\ answer' = "loaded" /\ (file.concepts # Unset \/ concepts = Unset) =>
          (ConceptsRight(file.I, file.concepts) => ConceptsRight(I', concepts'))]_vars

\* N is a part of M, and restriction to the objects of N is a bijection between
\* the extents of M and of N.
Injections(S, T) == {f \in [S -> T] : \A x, y \in S : f[x] = f[y] => x = y}

Extents(M, l) == {p[1] : p \in ConceptsOf(M, l, "standard")}

SameLattice(M, N, l) ==
  \E f \in Injections(DOMAIN N, DOMAIN M), g \in Injections(DOMAIN N[0], DOMAIN M[0]) :
    /\ \A o \in DOMAIN N : \A a \in DOMAIN N[0] : N[o][a] = M[f[o]][g[a]]
    /\ Extents(N, l) = {[o \in DOMAIN N |-> E[f[o]]] : E \in Extents(M, l)}
    /\ Cardinality(Extents(N, l)) = Cardinality(Extents(M, l))

NoTwoEqual(M) == \A i, j \in DOMAIN M : M[i] = M[j] => i = j

\* Without any one of its attributes a matrix has fewer extents.
NoneToDrop(M) ==
  \A a \in DOMAIN M[0] :
    LET rest == Columns(M, Ascending(DOMAIN M[0] \ {a}))
    IN  Cardinality(Extents(rest, "Godel")) < Cardinality(Extents(M, "Godel"))

\* Each context made out of another has its lattice.  A clarified or reduced
\* context is a part of the old one with the same extents, in every logic under
\* the standard connection, without equal rows or columns, and a reduced crisp
\* one has no attribute that could be dropped as well; although reduce() drops
\* all at once that it finds to be meets of others.
\* This holds of graded matrices too, which reduce() takes when load() has left
\* it the flag of a crisp one.  The objects and attributes of a standard
\* context are enough to tell apart the concepts it was made of, whatever
\* matrix they are of.
LatticeKept ==
  [][/\ answer' \in {"clarified", "reduced"} =>
          /\ \A l \in UsedLogics : SameLattice(I, I', l)
          /\ NoTwoEqual(I') /\ NoTwoEqual(Transpose(I'))
          /\ answer' = "reduced" /\ Crisp(I') => NoneToDrop(I')
     /\ answer' = "standardized" =>
          Extents(I', "Godel") =
            {[i \in DOMAIN I' |-> IF Below(join_irr[i + 1][1], p[1]) THEN K ELSE 0] :
               p \in concepts[1]}]_vars
=============================================================================
