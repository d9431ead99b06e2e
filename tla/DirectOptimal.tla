--------------------------- MODULE DirectOptimal ----------------------------
(***************************************************************************)
(* Direct optimal bases of implications between fuzzy sets                 *)
(* (src/fuzzy_do.cpp), the engine behind ImplicationSet$to_direct_optimal  *)
(* (R/implication_set.R), with its five methods.                           *)
(*                                                                         *)
(* A rule system (SigmaMap) is a function from premises to conclusions.    *)
(* One step is one pass of saturate_system or of prune_system, or one rule *)
(* taken from the worklist W.                                              *)
(*                                                                         *)
(* The deque W is a set of entries that know their place in line: the      *)
(* iteration that pushed them, the rule it combined with when it did, and  *)
(* the place among the pushes for that rule.                               *)
(***************************************************************************)
EXTENDS FuzzySets, Sequences

CONSTANTS
  InitColumns,   \* the rules (columns of lhs_matrix and rhs_matrix) to start from
  InitLogics     \* the logic names to_direct_optimal may be given

Rules == [lhs : AttrSets, rhs : AttrSets]
Methods == {"do_sp", "direct_optimal", "final_ts", "monotonic", "priority"}

ASSUME InputAssumption ==
  /\ InitColumns \subseteq Seq(Rules)
  /\ InitLogics \subseteq LogicNames \ {"Product"}

VARIABLES
  columns, logic, method,  \* the arguments
  pc,                      \* where the code is
  sigma,                   \* the rule system (sigma, sigma_do, sigma_in)
  sigma_old,               \* the system a round of do_sp started from
  unprocessed,             \* the pairs pairwise_matrix has set to false
  W,                       \* the worklist
  redundant,               \* the premises whose is_redundant is set (monotonic)
  iterations               \* metrics.iterations of the worklist methods

inputs == <<columns, logic, method>>
vars == <<inputs, pc, sigma, sigma_old, unprocessed, W, redundant, iterations>>

Premises == DOMAIN sigma

\* vals: the degrees of the two matrices together with 0 and 1.
L == {0, K} \cup {columns[i].lhs[c] : i \in DOMAIN columns, c \in Attributes}
            \cup {columns[i].rhs[c] : i \in DOMAIN columns, c \in Attributes}
-----------------------------------------------------------------------------
\* The operations on fuzzy sets.  set_sum(A) == 0 is A = EmptySet.

\* Mutant: the degrees are added.
set_union_Sum(A, B) == [c \in Attributes |-> A[c] + B[c]]

set_union(A, B) == [c \in Attributes |-> IF A[c] <= B[c] THEN B[c] ELSE A[c]]

\* Elements of A that B has to the same degree or more are dropped, the others
\* keep their whole degree.
set_setminus(A, B) == [c \in Attributes |-> IF B[c] >= A[c] THEN 0 ELSE A[c]]

otimes(alpha, A) == [c \in Attributes |-> tnorm(logic, alpha, A[c])]

\* The degree to which X is a subset of Y.
S(X, Y) == Inf([c \in Attributes |-> implication(logic, X[c], Y[c])])

\* calculate_pi_operator_internal: one pass over the rules, all of them tested
\* on A itself.
pi(A, rules) ==
  [c \in Attributes |->
     Max({A[c]} \cup {tnorm(logic, S(X, A), rules[X][c]) : X \in DOMAIN rules})]

Without(rules, A) == [X \in DOMAIN rules \ {A} |-> rules[X]]
With(rules, A, B) == [X \in DOMAIN rules \cup {A} |-> IF X = A THEN B ELSE rules[X]]

\* Mutant: the rule itself is among the rules that reduce it.
Reduced_BySelf(A, B, rules) == set_setminus(B, pi(A, rules))

\* The rule A -> B, without what the other rules give already.
Reduced(A, B, rules) == set_setminus(B, pi(A, Without(rules, A)))
-----------------------------------------------------------------------------
\* add_derived_internal

parents(A, B, C, D) == [X \in {A, C} |-> IF X = C THEN D ELSE B]

\* Mutant: the premise of the first parent is forgotten.
Candidate_OnePremise(alpha, beta, A, B, C, D) ==
  LET H == set_setminus(otimes(beta, D), otimes(alpha, A))
      G == set_setminus(otimes(beta, C), otimes(alpha, B))
  IN  [lhs |-> G, rhs |-> set_setminus(H, G)]

\* The candidate for the degrees alpha and beta, its conclusion reduced by what
\* the parents derive from its premise in one pass and by the premise.
Candidate(alpha, beta, A, B, C, D) ==
  LET H == set_setminus(otimes(beta, D), otimes(alpha, A))
      G == set_union(otimes(alpha, A),
                     set_setminus(otimes(beta, C), otimes(alpha, B)))
  IN  [lhs |-> G,
       rhs |-> IF H = EmptySet THEN H
               ELSE set_setminus(set_setminus(H, pi(G, parents(A, B, C, D))), G)]

\* The candidates that survive, with the degrees that led to them.
add_derived(A, B, C, D) ==
  {d \in {[degrees |-> p, rule |-> Candidate(p[1], p[2], A, B, C, D)] : p \in L \X L} :
     d.rule.rhs # EmptySet}
-----------------------------------------------------------------------------
\* Sparse_to_Sigma: columns without a conclusion are dropped, and of several
\* columns with the same premise the last one is kept.
Sparse_to_Sigma(cols) ==
  LET used == {i \in DOMAIN cols : cols[i].rhs # EmptySet}
  IN  [A \in {cols[i].lhs : i \in used} |->
         cols[CHOOSE i \in used :
                /\ cols[i].lhs = A
                /\ \A j \in used : cols[j].lhs = A => j <= i].rhs]

Init ==
  /\ columns \in InitColumns
  /\ logic \in InitLogics
  /\ method \in Methods
  /\ pc = "read"
  /\ sigma = << >>
  /\ sigma_old = << >>
  /\ unprocessed = {}
  /\ W = {}
  /\ redundant = {}
  /\ iterations = 0

\* The worklist starts with the rules in the order of the map.
Read ==
  /\ pc = "read"
  /\ LET s == Sparse_to_Sigma(columns)
     IN  IF method \in {"monotonic", "priority"}
         THEN /\ pc' = method
              /\ W' = {[turn |-> 0, of |-> A, place |-> 0, rule |-> [lhs |-> A, rhs |-> s[A]]] :
                         A \in DOMAIN s}
              /\ UNCHANGED <<sigma, sigma_old, unprocessed>>
         ELSE /\ pc' = "saturate"
              /\ sigma' = s
              /\ sigma_old' = s
              /\ unprocessed' = IF method = "do_sp" THEN {} ELSE (DOMAIN s) \X (DOMAIN s)
              /\ W' = W
  /\ UNCHANGED <<inputs, redundant, iterations>>
-----------------------------------------------------------------------------
\* saturate_system and saturate_system_single_pass

\* The rules derived from the pairs of premises in pairs.
Derived(pairs) ==
  {d.rule : d \in UNION {add_derived(p[1], sigma[p[1]], p[2], sigma[p[2]]) : p \in pairs}}

\* A derived rule is added to the system, or its conclusion to the conclusion
\* that its premise has there.
Merged(rules, new) ==
  [G \in DOMAIN rules \cup {r.lhs : r \in new} |->
     [c \in Attributes |->
        Max({IF G \in DOMAIN rules THEN rules[G][c] ELSE 0}
              \cup {r.rhs[c] : r \in {x \in new : x.lhs = G}})]]

\* Mutant: a premise whose conclusion grows does not mark its pairs again.
Changed_NewOnly(rules) == DOMAIN rules \ Premises

\* The premises that are new or have a new conclusion.
Changed(rules) == {G \in DOMAIN rules : G \notin Premises \/ rules[G] # sigma[G]}

\* One pass of saturate_system: pairs with a changed rule are marked again.
SaturatePass ==
  /\ pc = "saturate"
  /\ method # "do_sp"
  /\ \E rules \in {Merged(sigma, Derived(unprocessed))} :
       /\ pc' = IF rules = sigma THEN "prune" ELSE "saturate"
       /\ sigma' = rules
       /\ unprocessed' = {p \in (DOMAIN rules) \X (DOMAIN rules) :
                            p[1] \in Changed(rules) \/ p[2] \in Changed(rules)}
  /\ UNCHANGED <<inputs, sigma_old, W, redundant, iterations>>

\* Mutant: sigma_old is taken once, before the loop.
SaturateOnce_OldOnce ==
  /\ pc = "saturate"
  /\ method = "do_sp"
  /\ sigma' = Merged(sigma, Derived(Premises \X Premises))
  /\ pc' = "prune"
  /\ UNCHANGED <<inputs, sigma_old, unprocessed, W, redundant, iterations>>

\* saturate_system_single_pass, at the start of a round of do_sp.
SaturateOnce ==
  /\ pc = "saturate"
  /\ method = "do_sp"
  /\ sigma_old' = sigma
  /\ sigma' = Merged(sigma, Derived(Premises \X Premises))
  /\ pc' = "prune"
  /\ UNCHANGED <<inputs, unprocessed, W, redundant, iterations>>
-----------------------------------------------------------------------------
\* prune_system and prune_system_single_pass

\* Mutant: redundant rules go, the others keep their whole conclusion.
Pruned_Whole(rules) ==
  [A \in {A \in DOMAIN rules : Reduced(A, rules[A], rules) # EmptySet} |-> rules[A]]

\* Every rule is reduced by the other rules of the same system.
Pruned(rules) ==
  LET kept == {A \in DOMAIN rules : Reduced(A, rules[A], rules) # EmptySet}
  IN  [A \in kept |-> Reduced(A, rules[A], rules)]

PrunePass ==
  /\ pc = "prune"
  /\ method # "do_sp"
  /\ sigma' = Pruned(sigma)
  /\ pc' = IF sigma' = sigma THEN "done" ELSE "prune"
  /\ UNCHANGED <<inputs, sigma_old, unprocessed, W, redundant, iterations>>

\* The round of do_sp ends; there is another one if it has changed anything.
PruneOnce ==
  /\ pc = "prune"
  /\ method = "do_sp"
  /\ sigma' = Pruned(sigma)
  /\ pc' = IF sigma' = sigma_old THEN "done" ELSE "saturate"
  /\ UNCHANGED <<inputs, sigma_old, unprocessed, W, redundant, iterations>>
-----------------------------------------------------------------------------
\* The worklist methods

Before(d, e) ==
  \/ d.turn < e.turn
  \/ d.turn = e.turn /\ LecticLess(d.of, e.of)
  \/ d.turn = e.turn /\ d.of = e.of /\ d.place < e.place

\* W.pop_front()
Front(e) == e \in W /\ \A d \in W \ {e} : Before(e, d)

\* The place of a derived rule: after the re-queued rule, those of the first
\* call of add_derived_internal before those of the second.
Place(call, p) == 1 + (call * (K + 1) + p[1]) * (K + 1) + p[2]

\* A changed rule A -> B (news is what is new of B) sends rules it may make
\* redundant back to the worklist and is combined with every rule in others.
Propagated(A, B, news, others) ==
  LET Requeued == {C \in DOMAIN others \ {A} :
                     set_setminus(otimes(S(A, C), news), C) # EmptySet}
      Entry(C, place, rule) ==
        [turn |-> iterations + 1, of |-> C, place |-> place, rule |-> rule]
  IN  {Entry(C, 0, [lhs |-> C, rhs |-> others[C]]) : C \in Requeued}
      \cup (UNION {{Entry(C, Place(0, d.degrees), d.rule) : d \in add_derived(A, B, C, others[C])}
                   : C \in DOMAIN others})
      \cup (UNION {{Entry(C, Place(1, d.degrees), d.rule) : d \in add_derived(C, others[C], A, B)}
                   : C \in DOMAIN others})

\* internal_run_monotonic: a rule is taken from the worklist and reduced by the
\* whole system.  With a new premise it is added if anything is left of it.
MonotonicNew ==
  /\ pc = "monotonic"
  /\ \E e \in W :
       /\ Front(e)
       /\ e.rule.lhs \notin Premises
       /\ LET A == e.rule.lhs
              B_new == set_setminus(e.rule.rhs, pi(A, sigma))
          IN  IF B_new # EmptySet
              THEN /\ sigma' = With(sigma, A, B_new)
                   /\ W' = (W \ {e}) \cup Propagated(A, B_new, B_new, sigma')
              ELSE W' = W \ {e} /\ sigma' = sigma
  /\ iterations' = iterations + 1
  /\ UNCHANGED <<inputs, pc, sigma_old, unprocessed, redundant>>

\* With a premise of the system the conclusions are merged, and is_redundant is
\* computed again.
MonotonicMerge ==
  /\ pc = "monotonic"
  /\ \E e \in W :
       /\ Front(e)
       /\ e.rule.lhs \in Premises
       /\ LET A == e.rule.lhs
              B_new == set_setminus(e.rule.rhs, pi(A, sigma))
              B_merged == set_union(sigma[A], B_new)
              is_redundant == Reduced(A, B_merged, sigma) = EmptySet
          IN  IF B_merged # sigma[A] \/ is_redundant # (A \in redundant)
              THEN /\ sigma' = With(sigma, A, B_merged)
                   /\ redundant' = IF is_redundant THEN redundant \cup {A} ELSE redundant \ {A}
                   /\ W' = (W \ {e}) \cup Propagated(A, B_merged, B_new, sigma')
              ELSE W' = W \ {e} /\ UNCHANGED <<sigma, redundant>>
  /\ iterations' = iterations + 1
  /\ UNCHANGED <<inputs, pc, sigma_old, unprocessed>>

\* The worklist is empty: the rules that are not redundant go to prune_system.
MonotonicEnd ==
  /\ pc = "monotonic"
  /\ W = {}
  /\ sigma' = [A \in Premises \ redundant |-> sigma[A]]
  /\ pc' = "prune"
  /\ UNCHANGED <<inputs, sigma_old, unprocessed, W, redundant, iterations>>

\* internal_run_priority: the rule is reduced by the other rules.  When nothing
\* is left, the rule with its premise is erased.
PriorityPurge ==
  /\ pc = "priority"
  /\ \E e \in W :
       /\ Front(e)
       /\ Reduced(e.rule.lhs, e.rule.rhs, sigma) = EmptySet
       /\ sigma' = Without(sigma, e.rule.lhs)
       /\ W' = W \ {e}
  /\ iterations' = iterations + 1
  /\ UNCHANGED <<inputs, pc, sigma_old, unprocessed, redundant>>

\* What is left is added or merged, and propagated to the other rules.
PriorityAdd ==
  /\ pc = "priority"
  /\ \E e \in W :
       /\ Front(e)
       /\ LET A == e.rule.lhs
              B_new == Reduced(A, e.rule.rhs, sigma)
              B_merged == IF A \in Premises THEN set_union(sigma[A], B_new) ELSE B_new
          IN  /\ B_new # EmptySet
              /\ IF A \notin Premises \/ B_merged # sigma[A]
                 THEN /\ sigma' = With(sigma, A, B_merged)
                      /\ W' = (W \ {e})
                                \cup Propagated(A, B_merged, B_new, Without(sigma, A))
                 ELSE W' = W \ {e} /\ sigma' = sigma
  /\ iterations' = iterations + 1
  /\ UNCHANGED <<inputs, pc, sigma_old, unprocessed, redundant>>

PriorityEnd ==
  /\ pc = "priority"
  /\ W = {}
  /\ pc' = "prune"
  /\ UNCHANGED <<inputs, sigma, sigma_old, unprocessed, W, redundant, iterations>>

\* The result was returned to R.
Returned ==
  /\ pc = "done"
  /\ UNCHANGED vars

Next ==
  \/ Read
  \/ SaturatePass
  \/ SaturateOnce
  \/ PrunePass
  \/ PruneOnce
  \/ MonotonicNew
  \/ MonotonicMerge
  \/ MonotonicEnd
  \/ PriorityPurge
  \/ PriorityAdd
  \/ PriorityEnd
  \/ Returned

Spec == Init /\ [][Next]_vars

\* The algorithms run in one thread and never wait.  This is WF_vars(Next): a
\* step that changes something is possible exactly while pc is not "done"
\* (there is no deadlock), and spelt out it spares TLC the computation of
\* ENABLED.
FairSpec == Spec /\ ([]<>(pc = "done") \/ []<><<TRUE>>_vars)
-----------------------------------------------------------------------------
Entries == [turn : Nat, of : AttrSets, place : Nat, rule : Rules]

\* Types.
TypeOK ==
  /\ columns \in Seq(Rules)
  /\ logic \in LogicNames \ {"Product"}
  /\ method \in Methods
  /\ pc \in {"read", "saturate", "prune", "monotonic", "priority", "done"}
  /\ Premises \subseteq AttrSets /\ \A A \in Premises : sigma[A] \in AttrSets
  /\ unprocessed \subseteq Premises \X Premises
  /\ W \subseteq Entries
  /\ redundant \subseteq AttrSets
  /\ iterations \in Nat

\* V respects a rule to the degree 1: it has the conclusion at least to the
\* degree to which it has the premise.
Respects(V, A, B) == \A c \in Attributes : tnorm(logic, S(A, V), B[c]) <= V[c]

Model(V) == \A i \in DOMAIN columns : Respects(V, columns[i].lhs, columns[i].rhs)

ModelOf(V, rules) == \A A \in DOMAIN rules : Respects(V, A, rules[A])

\* All rules of the system and of the worklist.
SystemModel(V) ==
  /\ ModelOf(V, sigma)
  /\ \A e \in W : Respects(V, e.rule.lhs, e.rule.rhs)

\* Soundness of the derivation: every rule of the system and of the worklist,
\* with its degrees, follows from the rules given.
Sound == \A V \in AttrSets : Model(V) => SystemModel(V)

DistinctPremises ==
  \A i, j \in DOMAIN columns : columns[i].lhs = columns[j].lhs => i = j

Crisp(V) == \A c \in Attributes : V[c] \in {0, K}
CrispInput == \A i \in DOMAIN columns : Crisp(columns[i].lhs) /\ Crisp(columns[i].rhs)

\* At no time do the merging and the simultaneous pruning of crisp rules lose
\* anything that the rules given prove, and graded rules lose nothing before
\* the first is pruned.  (The priority method loses crisp rules: it erases a
\* rule when something else concluded from its premise is redundant.)
NothingLost ==
  /\ DistinctPremises /\ method # "priority" /\ pc # "read"
  /\ CrispInput \/ (pc \in {"saturate", "monotonic"} /\ method # "do_sp")
  => \A V \in AttrSets : SystemModel(V) => Model(V)

\* One pass computes the closure, that is, what pi adds respects every rule: over
\* the result of crisp rules, as the flag directness says of all results
\* (R/implication_set.R:507), and over whatever saturate_system ends with, of
\* graded rules too when all degrees occur in them.  Pruning loses graded rules,
\* and with fewer degrees (vals, R/implication_set.R:418) the t-norm of
\* Lukasiewicz leads to some that no candidate is tried for.  The priority method
\* loses rules and never combines one with itself.
Direct ==
  [][\/ pc' = "done" /\ method # "priority" /\ CrispInput
     \/ pc = "saturate" /\ pc' = "prune" /\ method # "do_sp" /\ L = Grades
     => \A V \in AttrSets : ModelOf(pi(V, sigma'), sigma')]_vars

\* The least set above V that respects all rules.
Closure(V) ==
  [c \in Attributes |-> Min({X[c] : X \in {X \in AttrSets : Leq(V, X) /\ Model(X)}})]

\* The crisp sets that A has and its proper subsets have not: the minimal
\* premises of c.
MinimalPremises(c) ==
  LET gives == {V \in AttrSets : Crisp(V) /\ V[c] = 0 /\ Closure(V)[c] = K}
  IN  {A \in gives : \A V \in gives : Leq(V, A) => V = A}

\* On crisp rules the result of every method but priority is the canonical
\* direct basis: from the minimal premises of an attribute, and no others, it
\* is concluded.
Optimal ==
  pc = "done" /\ CrispInput /\ DistinctPremises /\ method # "priority" =>
    /\ Premises = UNION {MinimalPremises(c) : c \in Attributes}
    /\ \A A \in Premises, c \in Attributes :
         sigma[A][c] = IF A \in MinimalPremises(c) THEN K ELSE 0

\* The result proves what the rules given prove, for graded rules too ("El
\* conjunto optimizado debe deducir exactamente lo mismo que el original",
\* tests/testthat/test-implication_set.R:745).
Equivalent ==
  pc = "done" /\ DistinctPremises => \A V \in AttrSets : ModelOf(V, sigma) => Model(V)

\* What NothingLost rests on: crisp rules only derive crisp conclusions, and a
\* rule marked redundant follows, in one pass, from the others as they are now.
LossInv ==
  /\ pc = "priority" => method = "priority"
  /\ CrispInput /\ DistinctPremises =>
       /\ \A A \in Premises : Crisp(sigma[A])
       /\ \A e \in W : Crisp(e.rule.rhs)
  /\ pc \in {"read", "monotonic"} =>
       \A A \in redundant : A \in Premises /\ Reduced(A, sigma[A], sigma) = EmptySet
  /\ NothingLost

\* Every method reaches a fixpoint of its loops and empties its worklist.
Termination == <>(pc = "done")
=============================================================================
