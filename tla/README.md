# fcaR in TLA+

fcaR is an R package for (fuzzy) Formal Concept Analysis.  Its mathematics
lives in a C++ core (`src/src/*.cpp`) that mines the concepts of a context and
the implications that hold in it; R6 classes (`src/R/*.R`) keep contexts,
concepts and implications and work on them.  This directory holds TLA+ models
of that code, the TLC runs that check them on small instances and the proofs
TLAPS checks for every instance.

All of the code runs in one thread.  What makes it hard is not concurrency but
long loops over shared buffers, searches whose correctness rests on an order
theorem, early returns, user interrupts in the middle of a search, operators
that are used as closures although they are not always closures, and, on the
R side, objects that cache what they computed while their other fields move on.

## Inventory

| component | source | state | operations | what makes it correct |
|---|---|---|---|---|
| degrees and logics | `src/Logics.cpp`, `R/compute_grades.R` | none | implication and t-norm by name | residuation, monotonicity |
| derivation operators | `src/set_operations_galois.cpp` | none | three pairs of arrows, closures, unions, differences | intent-of-extent is a closure operator |
| NextClosure, concepts | `src/nextclosure.cpp` | current intent, candidate, attribute and degree, list of columns | start, try a candidate, list, interrupt, end | exactly the concepts, each once, in lectic order |
| NextClosure, implications | `src/nextclosure.cpp`, `src/implication_tree.cpp` | the same, black list of implications, list of implications | the same, and rounds of `semantic_closure` | sound, complete, non-redundant basis |
| binary NextClosure | `src/binary_next_closure.cpp` | the same on bit sets | the same, and passes of `lin_closure` | the same; least closure |
| Close-by-One miners | `src/inclose*.cpp`, `src/fastcbo*.cpp` | stack of calls, partial intents, failed tests | recurse, test canonicity, queue | exactly the concepts, each once |
| closure by implications | `R/compute_closure*.R` | set, implications, used flags | fire, simplify, remove | least closed set; the reduced rules still give closures |
| simplification rules | `R/simplification.R` and others | two sparse matrices | each rule of the logic | the closures stay the same |
| direct bases | `src/fuzzy_do.cpp` | rule system, pairs not yet combined, worklist | five methods: passes that saturate and prune, or rules taken from a worklist | nothing new is proved, nothing is lost, one pass computes the closure |
| `ImplicationSet`, `RuleSet` | `R/implication_set.R`, `R/rule_set.R` | matrices, cached support, directness, logic | add, apply rules, closure, ... | what is cached belongs to the rules stored |
| `FormalContext` | `R/formal_context.R` | matrix, flag, logic, connection, concepts, implications, background knowledge | scale, clarify, reduce, standardize, find, save, load, ... | what is kept belongs to the matrix; the lattice survives clarifying and reducing |
| `ConceptLattice` | `R/concept_lattice.R`, `src/Lattice*.cpp`, `src/Transitivity.cpp`, `src/lattice_algorithms.cpp` | extents, intents, cached order, covering, meets, joins and properties | top, bottom, bounds, irreducible concepts, sub- and superconcepts, sublattice, JSON, plot | the caches belong to the concepts stored; sublattices are closed |
| sparse vectors | `src/vector_operations.cpp` | arrays with capacity and used length | insert, clone, add a column | no read beyond `used` |
| other | factorisation, causal rules, metrics, import, export, plots | | | see *Not modelled* |

They interact by calls: `FormalContext$find_concepts` picks a miner from the
registry (the binary `InClose_Reorder` when all stored degrees are 1) and hands
its columns to a new `ConceptLattice`; `find_implications` picks one of the two
NextClosure engines, combines its result with the background knowledge through
the simplification rules, and stores an `ImplicationSet` and a `ConceptLattice`.
The engines see the matrix, the list of degrees, the names of the logic and the
connection, and nothing else.

The hazards of the code, each at its line, are listed in `PROJECT.json`; a
hazard without a property says why it has none.

## Modules

Data modules, with operators and no state:

* `Logics` - degrees are the chain `0 .. K`; implications and t-norms by name.
  For Product logic `g > 0` stands for the power `q^(K-g)`, on which division
  is exact; its t-norm leaves the chain, so Product logic is modelled with the
  standard connection only (`Representable`).
* `FuzzySets` - graded sets over the attributes, their order, infima and
  suprema, the lectic order.
* `Galois` - contexts, the three pairs of derivation operators, `Closed`, the
  degrees of a context (`GradesSet`).
* `LecticSearch` - the helpers that both graded searches share: `direct_sum`,
  `can_add`, `is_set_preceding`, the first and the next degree.

* `LatticeTables` - the C++ functions on the order relation of a lattice: tables
  of meets and joins filled by counting downsets, the transitive reduction, the
  tests for distributivity, modularity, semimodularity and atomicity, bounds of
  sets of concepts.  A relation is a set of pairs of numbers.

Abstract specifications, stating what a caller of a miner is promised:

* `ConceptMiner` - concepts are reported one at a time and never twice; the
  miner finishes only when every concept with degrees of the context is
  reported; an interrupt leaves a part.
* `ImplicationMiner` - the same for implications: the canonical (Duquenne-Guigues)
  basis when closures of graded sets are graded, and otherwise any implications
  that hold, which must be complete at the end.

Engines, one module per algorithm, one action per step of its loops:

* `NextClosureConcepts` - `next_closure_concepts` and `compute_next_intent`.
  `pc` is the place in the code: `loop` (the while), `search` (the nested
  loops over attributes and degrees), `add`, `check` (the interrupt), and the
  ends.  `Skip`, `Reject` and `Accept` are the three outcomes of one turn of
  the inner loop; `FallThrough` is the end of the loops, after which the code
  goes on with what is in the buffer, the warning being commented out.
* `NextClosureImplications` - `next_closure_implications`,
  `compute_next_closure`, `semantic_closure`.  `Fire` is one round of
  `semantic_closure`: all implications whose premise is contained are joined,
  then black-listed (`fired`).  The implication tree only speeds up the test
  and is modelled by the test's result.  The end of the search without a
  result is not modelled, because `SearchSucceeds` shows it is not reached
  under a closure connection, and the module's runs use only these.
* `BinaryNextClosure` - the solver of `binary_next_closure.cpp`.  Here
  `lin_closure` looks at one implication per step (`Fire`, `PassOver`), starts
  passes until one changes nothing (`NextPass`), and the search takes `A` apart
  as it goes down (`Unset`).  The interrupt raises an R error, so nothing is
  returned: the refinements speak of what was found by then, which the caller
  does not get.

* `InClose` - `inclose_core` and `is_canonical5` of `inclose.cpp`.  The
  recursion is an explicit stack of calls with their arrays `P` and `G`; one
  step is one pair of attribute and degree (`SkipGrade`, `SkipAttribute`,
  `NoObjects`, `AddToParent`, `AddChild`, `Reject`), a call or a return.
* `InCloseReorder` - `InCloseSolver` of `inclose_binary_final.cpp`: attributes
  renumbered by support, bit sets as sets, an interrupt that loses the result.
* `FastCbO` - `FuzzyFastGenerateFrom4` of `fastcbo.cpp`, with the matrix of
  failed closures that each call hands to its children.
* `FindConcepts` - composes these three: `find_concepts` gives the run to the
  bit-set miner when the method is `"InClose"` and all stored degrees are 1,
  else to the miner with the name of the method.  The modules share their
  variables; `Completed` tells which columns are final.
  `FindConceptsInvariant` is not code: it holds the inductive invariant of the
  three miners, for the proofs.

* `DirectOptimal` - the five methods of `to_direct_optimal`.  A step is one pass
  of `saturate_system` or `prune_system` (`SaturatePass`, `PrunePass`), one
  round of the loops of `do_sp` (`SaturateOnce`, `PruneOnce`), or one rule taken
  from the worklist of the methods `monotonic` and `priority`.  The map of rules
  is a function from premises to conclusions; the deque is a set of entries
  that carry their place in line.  `Sparse_to_Sigma` keeps the last of several
  columns with the same premise, as the code does.  No property covers that
  loss: `Sound` holds of whatever is left, and what is said of completeness
  assumes `DistinctPremises`.

Objects, one action per method:

* `ConceptLattice` - a list of concepts, the caches that methods fill when they
  are first asked, and what the last call returned.  `sublattice` runs in steps
  (`JoinRound`, `TurnToMeets`, `MeetRound`, `Sublattice`), and so does `plot`,
  which `LatticeLayout` models: grades by a queue, filling the layers, sweeps
  down and up that sort each layer by barycentres, coordinates.  A method that
  returns another lattice replaces the one at hand; `json` is the round trip
  through a file.
* `FormalContext` - matrix, flag `is_binary`, logic, connection, concepts,
  implications and one RDS file.  It composes the others by their results: the
  miners list `ConceptsOf` a matrix, as the engines' runs and proofs show, the
  implications are given by their models, and `standardize` uses the covering
  relation of `LatticeTables`.  The derivation operators are those of `Galois`
  for the matrix at hand (`Of(M)`), because matrices change their size.
  `clarify`, `reduce`, `standardize`, `dual` and `subcontext` end in
  `initialize` or in a new object (`New`); errors are the disjuncts with
  `Refuse`.

Each engine declares the arguments it may be given as constants (`InitContexts`
and so on).  `MCxxx` modules define these sets for TLC.

## Runs

| run | expect | what it asks |
|---|---|---|
| `NCGraded` | pass | all 256 2x2 matrices with four degrees, four logics, three connections: types, only concepts, lectic order, none skipped, the search succeeds, refinement of `ConceptMiner`, termination |
| `NCMissing` | violation | is every closure of a graded set listed at the end? |
| `ICGraded` | pass | all graded 2x2 matrices with four degrees, the three different logics, both closure connections: non-redundancy, `semantic_closure` respects all rules although it looks at none twice, refinement of both miners (so that only concepts are listed, and the basis is sound and at the end complete), termination |
| `BNCAll` | pass | all contexts of 3 objects and 4 attributes up to the order of objects: `lin_closure` returns the least closed set, refinement of both miners, termination |
| `CbOAll` | pass | all binary contexts of 3 objects and 4 attributes and all graded ones of 2 objects and 3 attributes, up to the order of objects, both methods: only concepts and each once, unfinished intents are final as far as the tests rely on them, what is skipped without a test would fail it, refinement of `ConceptMiner`, termination |
| `CbOLogic` | violation | are the listed intents those of the logic of the context? |
| `DOAll` | pass | all pairs of crisp rules over three attributes, all pairs of graded rules over two with three degrees, a chain, a cycle and a fork of rules; three rules over four attributes of which the priority method loses one; five methods, two logics: what is derived follows from the rules given, termination; for the four methods other than `priority` also: crisp rules lose nothing at any step, crisp rules end in the canonical direct basis, over which one pass computes closures; saturated systems, of graded rules too, need one pass only |
| `DOGraded` | violation | does the result prove what the rules given prove, when they are graded? |
| `DOPriority` | violation | does it when they are crisp, and the method is `priority`? |
| `LatticeAll` | pass | all lattices of extents of at most three objects, in two orders of the list, two calls: tables, covers, properties and irreducible concepts against their definitions, joins of a sublattice, grades and layers of the drawing, every call returns |
| `LatticeSub` | violation | is what `sublattice()` returns a sublattice, with each concept once? |
| `FCAll` | pass | all crisp 3x3 contexts and all graded 2x2 contexts with three degrees, up to the order of objects and attributes, two files of earlier sessions, three calls: nothing that is kept belongs to an earlier matrix unless `load()` left it, clarified, reduced and standard contexts have the lattice of what they were made of |

Bounds and why they suffice.  With `K = 3` there are two degrees between 0 and
1, so that a matrix may lack a degree which a Lukasiewicz implication between
its degrees produces; with two attributes a candidate has an attribute below
and one above it.  Larger sizes of `NextClosureConcepts` are covered by the
proofs.  Four attributes is the least number at which one pass of
`lin_closure` does not always reach the closure, and three objects give
families of intents with non-trivial meets.  `MaxConcepts` bounds the list;
it is above the number of graded sets, so it only stops runs under
`benevolent1` that fall through again and again.  `CheckEvery` stands for the
100 sets between two tests for an interrupt in `BinaryNextClosure`, and for the
1024 levels of recursion in `InCloseReorder`.  `WordLength = 2` stands for the 64
attributes in a word of a bit set of `BinaryNextClosure`: with four attributes
prefixes end inside a word, at its boundary and in the second word.  In `CbOAll` four attributes let
a binary call pass down what failed in it, and with three degrees a call can
pass over the degree of its own attribute; that inherited entries of `P`, `G`
and the matrix of `FastCbO` do prune there was checked by asking TLC for a
state that uses each.  In `DOAll` four
attributes are needed for the loss that `DOPriority` shows; all systems of two
rules use three of them, because more would not fit the time.  Two rules are
enough for one to be pruned on account of the other; the three rules of the
chain and the cycle need several rounds.  In `LatticeAll` families on three
objects include the two smallest lattices that are not distributive, and two
orders of the same concepts tell results that depend on the numbering; `MaxStart
= 3` starting concepts make a second round of joins necessary, `Iterations = 2`
sweeps go up and down once.  In `FCAll` three calls allow for computing, loading
over it and working on the mixture; `K = 2` is the least for a graded context,
and closures then have no degrees a graded matrix lacks; in the graded file one
attribute is the meet of the others, so that `reduce` meets one when the flag is
stale.  `MaxCalls` bounds the user, not the code.  Deadlock is checked in the
runs of `DirectOptimal`, which only ends when it is done; in the others the
algorithms end, or the user stops calling.

Fairness.  `FairSpec` adds weak fairness of the whole next-state relation: the
code is one thread that never waits, so as long as it can step it does.  No
fairness is assumed of a single branch.  In `DirectOptimal` the formula is
spelled out: always again done, or always again a step that changes something.
In `ConceptLattice` fairness is that of the steps within a call (`Working`):
whether the user calls again is left open.

What the violations show:

* `NCMissing` - the degrees tried are those of the matrix and 0 and 1.  With
  degrees 0, 1/3, 1 in Lukasiewicz logic the implication from 1/3 to 0 is 2/3,
  and an intent with that degree is never listed.  What does hold then is
  `NoneSkipped`: no intent *with degrees of the context* is missing.
* `CbOLogic` - `InClose` (the default method) and `FuzzyFCbO` have arguments
  `connection` and `name` and do not read them: they mine the concepts of
  Godel logic under the standard connection, which is what `ImplementsMiner`
  of `FindConcepts` states.  The vignette on fuzzy contexts sets Lukasiewicz
  logic, calls `find_concepts()`, and says that the result depends on it.

* `DOGraded` - `prune_system` tests every rule against all the others of the
  unpruned system and drops the redundant ones together.  Two graded rules that
  make each other redundant are both dropped, and the result proves nothing; a
  test of the repository expects that it proves what the rules given prove.
* `DOPriority` - the priority method takes a derived rule from its worklist,
  finds that nothing is left of it, and erases *the rule with that premise* from
  the basis.  The rule stored may be another one, which concludes more: from
  `d -> c`, `c -> b`, `ac -> d` the redundant `ac -> b` is derived, and
  `ac -> d` is erased with it.  Four attributes are the fewest for this; the
  same test of the repository runs all methods and expects that none loses
  anything.  It came to light when the proof of `KeepsAll` failed for this method.
* `LatticeSub` - when the starting concepts and their joins are all concepts,
  both loops of `.get_sublattice` break at once and the concepts of the last
  round are appended a second time.  Also, meets are only taken of the starting
  concepts, not of their joins.

What the properties of `NextClosureConcepts` make an exception of.
`benevolent1` pairs the upright arrow with the down-left arrow such that
intent-of-extent shrinks sets: it is a kernel operator (theorem
`KernelOperator`), and the code takes it for a closure.  The search may find no
next set; the caller then lists the last direct sum, with an extent that does
not belong to it, and searches on from there (`FallThrough`).  `NCGraded` runs
through these behaviours, but nothing is claimed of what they list.  The
documentation offers the connection like the others (`R/formal_context.R:1905`).

What `FCAll` makes an exception of.  `load()` of an RDS file restores neither
`is_binary`, nor the logic, nor the connection.  A context made from a file has
the flag down, so that `reduce()` refuses it as not binary although it is; a
file without concepts leaves those of the matrix before; and implications come
back in a set with the logic of the class, which is not the one they were
computed in.  `StaysRight` excepts exactly these, and states that no other call
leads to such a mixture.  It also allows that concepts are of an earlier logic
or connection of the same matrix: `use_logic` and `use_connection` keep them.
`subcontext` copies the logic and not the connection, though its comment says
that the same rules apply (`R/formal_context.R:1776`).  `LatticeKept` is about
the standard connection: `reduce` takes the attributes that are meets of others
for redundant whatever the connection is, which isotone ones do not justify.

## Theorems

The proofs are in modules of their own, next to the engines they are about.
Every invariant used in them was checked by TLC on the engine's run before it
was proved, and everything is proved for all sizes, all matrices or rule
systems, and all logics of the model unless a restriction is named.

Shared lemmas.  `OrderProofs` has least and greatest numbers of a set and the
existence of sets defined by recursion on a well-founded order.
`GaloisProofs` has the laws of the logics (adjointness, monotonicity), infima
and suprema, the pointwise and the lectic order, and proves that
intent-of-extent is extensive, monotone and idempotent under `standard` and
`benevolent2` (`ClosureOperator`), that it is contractive, monotone and
idempotent under `benevolent1` (`KernelOperator`), and what one step of the
lectic search (`direct_sum`, the next degree) leaves behind.

`NextClosureProofs` proves about `NextClosureConcepts`:

* `TypeCorrect` (`TypeOK`), `Invariance` (`Inv`), and from these
* `ListsOnlyConcepts`, `ListsInLecticOrder`, `SkipsNone`, `SearchNeverFails`,
* `Implementation`: `Spec => ImplementsMiner`, the refinement of `ConceptMiner`.

The argument.  `NoneSkipped` is not inductive: while a search runs nothing in
it says why the attributes that were passed over may be forgotten.  `Inv` adds
this (`SearchInv`): every graded intent that is lectically greater than `A`
first differs from it at an attribute not yet left behind, or at the attribute
under test with a degree not yet left behind.  A rejected candidate keeps this
true by Ganter's lemma: if an intent `B` departed from `A` at that attribute
with that degree, the closure of the direct sum would be below `B`, would agree
with `A` before the attribute and have exactly the degree under test, and the
candidate would have been accepted.  An accepted candidate is, by the same
lemma, the lectically least graded intent above `A`.  Since the full set is
always a graded intent, the search cannot run out of attributes.

`NextClosureImplicationProofs` proves about `NextClosureImplications`:

* under every connection: `TypeCorrect`, `ClosureRespects`
  (`ClosureRespectsBasis`) and `BasisNonRedundant` (`NonRedundant`);
* `Invariance` (`Inv`);
* under the closure connections, `ImplementsImplications` and, when concepts
  are to be saved, `ImplementsConcepts`: the refinements of the two miners.

The argument.  `semantic_closure` looks at no implication twice; what it has
fired stays contained in the candidate (`ClosingInv`), so the result respects
those too, and it stays below every set above the direct sum that respects the
basis.  Ganter's lemma therefore applies to the sets that respect the basis
instead of the intents (`SearchInv`).  An implication never fires on the
premises listed before its own, because these come earlier in the lectic order;
hence each premise respects all implications but its own (`BasisInv`), which is
non-redundancy.  When the search ends, a set that respects the basis is an
intent, so the basis is complete; a graded set which respects the basis and
has not been listed is not passed over, and with graded closures a premise
respects exactly the rules from pseudo-closed sets below it, so that it is
pseudo-closed itself (`CanonicalInv`, lemma `PseudoClosedLaw`).  The
recursively defined `PseudoClosed` is used through its one-step equation, which
`PseudoClosedLaw` derives from the definition by well-founded recursion on the
order of sets.

`BinaryNextClosureProofs` proves about `BinaryNextClosure`: `TypeCorrect`,
`LeastClosure` (`LinClosureLeast`), `EqualPrefix` (the word-wise comparison is
the comparison of the attributes below `n`, for every `WordLength`),
`Invariance` (`Inv`), and the refinements `ImplementsImplications` and
`ImplementsConcepts`.  The argument is the one above, with two differences:
`lin_closure` repeats passes, and a pass without change means that every
implication looked at is respected; and the search takes attributes away from
`A` itself, so that the invariant speaks of `A` cut off after `i` (`OrderInv`).

`FindConceptsProofs` proves about `FindConcepts`, whichever of the three miners
runs, for every matrix with finitely many objects (at least one), every number
of degrees and attributes: `TypeCorrect` (`TypeOK`), `Invariance` (`MinerInv`, of
module `FindConceptsInvariant`), `ListsOnlyConcepts` (`OnlyConcepts`),
`SkipsOnlyFailures` (`PruningSound`), and `Implementation` (`ImplementsMiner`),
the refinement of `ConceptMiner` with Godel logic and the standard connection.

The argument.  That no concept is missing when the stack is empty is not
inductive, nor is that none is listed twice: both are about what the calls on
the stack have still to do.  `Partition` says it: every intent is listed, or it
belongs to exactly one place, where a place is the rest of the loops of a call
(`LoopRegion`: the intents that first differ from the call's own at an attribute
and degree its loops have not reached) or a child that waits (`Subtree`: the
intents above the child's that agree with it up to its attribute).  Each action
changes one place: a closure that passes the canonicity test splits a subtree
off the loops, one that fails leaves nothing behind (lemma `LeftBehind`, the
canonicity argument of Close-by-One for graded attributes), a call turns a
subtree into loops, a listed concept leaves its place.  To this come, per miner:

* `FastCbO` skips a pair when the closure in its matrix `Ny` is not below the
  intent.  The rows are overwritten in part and mix closures of several calls;
  `FailuresRight` says that whatever is in row `(h, j)` is below the closure of
  the present extent with `j` to the degree `h`, so that it would fail here too.
* `InClose` lists a column before its intent is complete.  `ColumnsRight` says up
  to which attribute each unfinished intent is final, `InCloseFrame` that a child
  agrees with its parent below its attribute, and `RuledOutRight` what the arrays
  `P` and `G` mean: a degree that `P` rules out leads to no objects or adds an
  attribute not after `y`, at every call below as well; a flag that is down in `G`
  marks a degree with the closure of a higher one.  The concept without objects
  is the exception of the partition while `add_empty_extent` is up.
* The bit-set miner works with renumbered attributes.  `Renumbering` proves that
  `old_to_new` is a bijection, by counting; this is why `Objects` must be finite.
  The partition is that of the closed sets of numbers, `FoundBits` that these are
  the concepts of Godel logic.  The concept without objects is listed first,
  and is the exception.

`DirectOptimalProofs` proves about `DirectOptimal`, for every rule system, both
logics of the model, every number of attributes and degrees:

* for all five methods, `TypeCorrect` (`TypeOK`), `Invariance` (`IInv`) and
  `Soundness` (`Sound`): a graded set that respects the rules given respects
  every rule of the system at every step.  `Sound` is not inductive, because the
  methods with a worklist combine rules that are no longer, or not yet, in the
  system: `IInv` adds that the rules in the worklist hold as well and that
  everything is a graded set.  The heart are lemmas about the t-norm and its
  residuum on a finite chain (`TnormAlgebra` and what follows).
* for all methods but `priority`, `LossInvariance` (`LossInv`) and `KeepsAll`
  (`NothingLost`): crisp rules lose nothing at any step.  A pass of
  `prune_system` tests every rule against the others as they were before the
  pass; why can two rules not lose what each has from the other?  Lemma
  `PruningKeeps`: if a set respects the pruned rules and not all the unpruned
  ones, take a rule `A -> B` it violates with `A` minimal.  What was taken from
  it follows in one pass from the others, by a rule whose premise is, for crisp
  rules, a proper subset of `A`, and that rule would be violated too.  For graded
  rules the premise need not be smaller, which is what `DOGraded` shows; for
  `priority` the lemma does not apply, because it erases more than it tested,
  which is what `DOPriority` shows.  `LossInv` adds to `NothingLost` that crisp
  rules derive crisp conclusions and that a rule marked redundant by `monotonic`
  follows from the others as they are now, though it was marked long before.
* for crisp rules and the same methods, `DirectInvariance` (`DirectInv`),
  `ResultDirect` (the first half of `Direct`) and `ResultOptimal` (`Optimal`).  A
  crisp set is seen
  as the set of its `Parts`, and a pass over a graded set as a pass over each of
  its cuts (`PiCut`), so that directness is a statement about sets:
  what `A -> B` and `C -> D` conclude together from `A` and `C` without `B` is
  concluded in one pass (`OnePass`; of the premises that a set does not answer
  yet a minimal one gives the contradiction).  `DirectInv` says for which pairs
  that is so already: under `saturate` for those no longer unprocessed, under
  `monotonic` for all, if the rules waiting in the worklist count as well
  (`Promised`), under `do_sp` for the rules of the round before, so that a round
  without change answers all.  Merging and pruning only drop what another rule
  gives in one pass, and drop nothing from what one pass gives (`KeptOne`).
  `Optimal` follows, since the closure is one pass (`ClosureByPass`) and no rule
  of the result concludes what a smaller premise gives (`Irredundant`).
* for graded rules in which all degrees of the chain occur,
  `CombinedInvariance` (`CombinedInv`) and `ResultDirect` (the second half of
  `Direct`): one pass over what `saturate_system` ends with computes the
  closure.  Cuts do not help here, since the cut of a graded premise is not a
  premise.  Instead a rule is taken with a degree `beta`: among those whose
  premise, taken to that degree, lies in the result of the pass while the
  conclusion does not, one that has a minimal set of attributes of the premise
  outside the set the pass started from.  One of these attributes came from a rule taken to
  some degree, the two were combined, and what they give together comes from a
  rule with fewer (`GradedOnePass`).  `CombinedInv` says that all pairs but the
  marked ones have been combined.

`Direct` is stated no wider than that because wider is not so, though the bounds
of `DOAll` do not show it.  Pruning loses graded rules (`DOGraded`), and from
three attributes on the result may need a second pass.  And when only some
degrees occur, a set may have a premise to a degree for which no candidate was
tried: with degrees up to 4, the t-norm of Lukasiewicz and `vals` 0, 1, 2 and 4,
nothing is derived from the single rule `{a: 0, b: 1} -> {a: 2, b: 2}`; one pass
over `{a: 0, b: 0}` gives `{a: 1, b: 1}`, which has the premise to the degree 4.  The flag `directness`
is set on every result all the same (`R/implication_set.R:507`), and
`ImplicationSet$closure` reads it for the hedge `globalization` only.

`ConceptLatticeProofs` proves about `ConceptLattice`, for every list of concepts
it starts from, any number of objects, degrees, starting concepts and sweeps,
and any number of calls: `TypesKept` (`TypeOK`), `BoundsAnswered`
(`BoundsRight`), `CoverKept` (`CoverRight`), `PropertiesDecided`
(`PropertiesRight`), `IrreduciblesSuffice` (`IrreduciblesGenerate`),
`AllJoinsTaken` (`JoinsTaken`) and `DrawingRight` (`Drawn`), which are all its
invariants.

The argument has three parts.

* What the caches and answers say of the order of the concepts.  None of the
  properties is inductive: a cache is computed by one call, kept by others, and
  answered from by a third.  `ReadInvariant` says that each cache is empty or is
  what its function makes of the concepts *now* at hand (`CachesOK`, `CoverOK`,
  `KnownProperties`), and that the last answer is right (`Answers`); a method that
  replaces the concepts must empty the caches.  What remains are facts on finite
  orders.  `TablesRight`: the element of the downset that has the most elements
  below it is the infimum, if there is one, although the code only counts.
  `ReductionRight`, `CoverBetween`: what is left of the order is its covers.
  `IrreduciblesLaw`: a concept with other than one lower neighbour is the bottom or
  covers two others and is their supremum, so that there is no lowest concept among
  those that the irreducible ones do not generate.
  `ModularByCancelling`, `DistributiveByCancelling`, `SemimodularLaw`: the
  pentagon and diamond arguments of lattice theory, because the properties are
  stated by cancelling while the code tests identities for all triples.
* The rounds of `sublattice()`.  A round combines every concept with those that
  the last round added, and the loop ends when a round adds nothing.  `JoinInv`:
  after some rounds the concepts taken are the joins of up to `m` starting
  concepts, and those that were added last are the ones that need more than `h < m`.
  A set of more than `m` and at most `2m` concepts splits in two, of which the
  greater cannot be done with `h`, so that a round reaches `2m` (`RoundOfJoins`);
  when no join needs more than `m`, none needs more at all (`NoMoreJoins`).
* The drawing.  Nodes leave a queue when all nodes below them have left it:
  `QueueOK` says that `in_degree` counts those below that have not.  `GradesOK`: a
  grade is that of one of the nodes below that have left, plus one, and at least
  that of all of them; at the end these are all (`GradesFinal`), because nodes
  that never entered the queue would be a set without a minimal one, in a graph
  without cycles.  `LayersOK`: each layer lists the nodes of its grade, each once; a sort
  only permutes them (`SortedList`).

Three of these theorems assume `CrispLists`: the lattices start from concepts of
a crisp context.  `to_json` writes the objects of an extent without their
degrees, but the covering relation of the extents with them, and
`lattice_from_json` keeps it.  With degrees between 0.0 and 1.0 two concepts may
become equal or comparable in the file, and the covering relation kept is then
not that of the concepts read.  The proof of `CoverKept` came to this when
`CoverRight` was not preserved by `json`; `LatticeAll` starts from crisp concepts.

Assumptions: those named in the modules (`KAssumption`, `NAttrAssumption`,
`InputAssumption` and so on: sizes are positive, arguments are of their types),
and that `Objects` is any set, finite where it is counted.  What is said of the
lists of `NextClosureConcepts` and of the refinements of
`NextClosureImplications` is about closure connections (`InitConnections` within
`standard` and `benevolent2`); `KernelOperator` is the reason.

Only model-checked: termination (liveness and `ENABLED` are not in the prover's
reach), and `FormalContext`.

## Plan

What is left, in this order:

1. Proofs: that no call of `FormalContext` but `load` makes wrong what was right.
2. `ImplicationSet` with `ComputeClosure`: `closure(reduce = TRUE)`, the flag
   directness that `add` and `apply_rules` leave up, the cached support.
3. `SimplificationRules`: the rules `apply_rules` may apply, each of which keeps
   the closures of all sets.

## Not modelled

* Causal rules, metrics, stability, random contexts: statistics on real numbers.
* Matrix factorisation: greedy heuristics over real-valued errors.
* Parsing, printing, LaTeX, JSON text, plots, data frame verbs: no state.
* `binary_next_closure_concepts`, `inclose_binary_old.cpp`,
  `fastcbo-binary.cpp`: no R code calls them.
* Closure by implications in R, the rules of the simplification logic,
  `ImplicationSet`: see the plan.  Until then no property covers the
  flags of `R/compute_closure.R:61`, nor that `add` and `apply_rules` leave the
  flag `directness` up.
* Sparse vectors, their buffers and the subsetting kernels: the modules take
  graded sets for functions, so that stale slots and capacities are out of
  sight.  Words of a bit set are seen only where `BinaryNextClosure` compares
  prefixes; `InCloseReorder` compares them as sets.
* Of `FormalContext`: scales and background knowledge, many-valued contexts,
  JSON, CSV and CXT files, single derivations (`intent`, `extent`, `closure`,
  which are the operators of `Galois`), interrupted miners, whose partial
  results are kept like full ones.
* Of `ConceptLattice`: neighbours of one concept, separation, stability and
  density indices, and the force-directed layout, which is numeric.
* Floating point: degrees are exact; the code's tolerance of 1e-3 in
  comparisons stands for equality of degrees of the same chain.
* The Product t-norm (see `Logics`).
