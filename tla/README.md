# TimeSolver: TLA+ models and proofs

TimeSolver (`pes.timed/`) decides whether a timed automaton satisfies a
timed modal mu-calculus property. The input is a predicate equation system
(PES): equations `X nu= formula` or `X mu= formula`, a set of transitions and
location invariants, and an initial state. The program searches for a proof by
depth-first recursion over *sequents* `(discrete state, clock zone) |- formula`,
detects circularities, and tables verdicts.

## 1. The system

| component | source | state it keeps | operations |
|---|---|---|---|
| clock constraints, zones | `constraints.hh`, `DBM.hh` | the bound matrix, the canonical-form flag | intersect, suc, pre, reset, preset, bound, cf, comparisons |
| unions of zones | `DBMList.hh` | a list of zones, a flag for the list | the same, union, complement, inclusion |
| sequents | `sequent.hh` | the zones and the parents recorded for one right-hand side and one discrete state | push, pop, search, update |
| sequent tables | `sequent_stack.hh`, `sequent_cache.hh` | eight hash tables: circularity (gfp, lfp) and verdict (true, false), each with and without placeholders | lookup, insertion, purging along parent pointers |
| proof search | `proof.hh` | the C++ call stack, `parentRef`, `parentPlaceRef`, the tables | one rule per operator, in two versions: `do_proof` answers a boolean, `do_proof_place` narrows a placeholder |
| guards, invariants, transitions | `comp_ph.hh`, `transition.hh` | the right expression of a transition, re-pointed at each use | tighten a zone by a guard or an invariant, destination, resets |
| equation system | `pes.hh` | equations, parities, block numbers, initial state | built by the parser, read by the search |
| expressions | `ExprNode.hh`, `ExprNode.cc` | trees, substitution lists | construction, copying, printing |
| parser | `pes.y`, `pes.l`, `parse.cc` | the system under construction | grammar actions |
| command line | `timesolver-ta.cc`, `prover_options.hh` | options | parse arguments, run, print |

The parser fills a `pes`; `main` makes one `prover` over it and calls
`do_proof_init`; every rule may call any other through `do_proof`; only
`do_proof_predicate` and `do_proof_place_predicate` use the tables; a rule that splits
a zone calls `do_proof_place`, which never calls `do_proof`, and checks the placeholder
against the zone. Built with `DEBUG_PLACEHOLDER_PROVER`, `main` runs a second prover with a
placeholder on the same input and asserts that both answer alike. There is one
thread and nothing is persisted. What is hard is therefore not concurrency but:

* *history*: what a table holds depends on the path of the search that filled
  it, and verdicts are stored while assumptions they rest on are still open;
* *save and restore by hand*: `parentRef` and the circularity stacks are
  adjusted around every recursive call;
* *aliasing*: bins are chosen by a number the user writes, transitions share
  the node that holds their continuation;
* *in-out placeholders*: a rule narrows the placeholder it was given, or overwrites it, and
  the caller goes on with whatever it finds;
* *partial failure*: a guard that fails has already narrowed the zone;
* *flags*: a zone carries a promise that it is in canonical form, which each
  operation must keep, clear or establish;
* *termination*: nothing bounds the recursion except the circularities.

What makes each part correct:

* tables: they mirror the call stack, name their users, contradict neither each
  other nor (where possible) the semantics;
* search: it ends, and its verdict is the meaning of the equations;
* search with placeholders: the placeholder answered is the part of the zone where the
  formula holds; the two provers agree;
* guards: what is left of a zone is what satisfies the guard and may enter the location;
* zones: each operation denotes the operation on sets of valuations it stands
  for, and a set flag means a canonical matrix;
* lists of zones: the same for unions.

## 2. Modules

```
Sequents -> SequentCache -> Prover -> ProverCorrect -> MCDecided -> MCTimed, MCDiscrete
   |                          |   |       ^              ^
   |                          |   |       | INSTANCE     |
   |                          |   `-------+-------> Decided <- Subformulas
   |                          v           |              |
   |                   SideConditions  Solution <--------+- INSTANCE -.
   v                          v                          v            |
SequentPlaces -> PlaceCache -> ProverPlace -> FullProver -> Soundness -> FullCorrect
                                                                ^           |
                                                       INSTANCE |           v
                                               MCTruth -----> Truth     TwoProvers -> MCPlaces
                                                                            | INSTANCE
Sequents -> SequentStack -- INSTANCE --> SequentTable                       v
                                                                         Solver

Prover -> ProverProofs -> PlaceProofs -> PlaceCallProofs -> SoundnessProofs -> FullSoundnessProofs
SequentStack -> SequentStackProofs
```

**`Sequents`** (`sequent.hh`, class `Sequent`). A zone is the set of valuations
it contains: `DBM::operator<=` is `\subseteq`. Verdict tables are only searched,
so their vectors are sets and "the first match" is "some match", an
over-approximation of the code's deterministic choice. Circularity stacks are
pushed and popped at the end and are sequences. `Zone` also contains the empty
set and non-convex sets: the module asks nothing of zones but inclusion.

**`SequentCache`** (`sequent_stack.hh`, `sequent_cache.hh`). The four tables used
without placeholders, each a function of *bin*, the pair of block number and
discrete state: that is what `get_index` and the search inside a bin compare, and
it is not the predicate. The hash only spreads discrete states over bins that are
then searched by equality, so it is left out here and modelled in `SequentStack`. Purging is `Without` (the entry
itself), `Dependents` (its recorded parents if something was removed) and
`look_for_and_purge_rhs_sequent_state` (the parents' entries, erased from both
tables whatever their zones).

**`Prover`** (`proof.hh`). `stack` is the C++ call stack, `ret` the boolean a call
returned, `parentRef` the member of that name. One step is one call, one return,
or one handler that ends without a recursive call.

| code | model |
|---|---|
| entry of `do_proof_predicate`, lookups | `KnownFalseHit`, `KnownTrueHit` |
| circularity found | `GfpCircularity`, `LfpCircularity` |
| push, save `parentRef`, descend | `UnfoldGfp`, `UnfoldLfp` with `StartRhs` |
| restore, pop, purge, cache, return | `LeavePredicate` with `PopCircularity`, `UpdateCaches` |
| `do_proof_and` ... `do_proof_assign`, leaves | the action of that name |

A rule whose last act is a recursive call (`return do_proof(...)`) replaces its
frame (`TailCall`); the frame holds nothing that is read later. ALLACT walks the
transitions in order; `CanTake` is the guard test and the invariant's weakest
precondition, `AfterTransition` the destination and resets the transition's right
expression applies before the body. The weakest precondition (`InvariantPre`) is what the presets of the
transition make of the invariant; they need not compute the inverse image (*Inverse images* in section
3), so it is a part of the transition, `entering`, and the theorems on soundness assume
that it is exact (`EnteringAssumption`). Storing the body in the transition
(`getNewTrans`) is not a variable: it is written immediately before each use.
SUBLIST and REPLACE, and RESET and ASSIGN, are each one action with a map on
discrete states or valuations. BOOL and the comparisons are ATOMIC with the set of
discrete states in which they hold.

The automaton is four constants: `Transitions`, `Inv`, `Later` (delay) and
`Bound` (extrapolation by the largest constant). `Systems` is the set of inputs, each an
equation system, an initial state and the caching option; `Init` chooses one.

**`SequentPlaces`, `PlaceCache`** (class `SequentPlace`, the four `_ph` tables). An entry is
a pair of a zone and a placeholder. The searches of the verdict tables compare zones only: a
known-true entry is found by an *equal* zone, and its placeholder becomes the answer; where
several would do, any may be returned. Purging, insertion and parents are
as in `SequentCache`, with parents of both kinds: a user without placeholder is recorded
where `parentPlaceRef` is null.

**`SideConditions`** (`establish_exists_rel_sidecondition`,
`establish_forall_place_sidecondition`). The algorithms over unions of zones that decide how
much of a placeholder survives a delay, on sets of valuations. `Strictly` is the time
successor by a positive delay, which the source computes with the strict closures.

**`ProverPlace`** (`do_proof_place` and its rules). `pstack` is the call stack below the
rule of `do_proof` that asked for a placeholder, `place_ret` the placeholder a call left behind.
Each frame carries its zone and its placeholder; `first` is the local variable a rule keeps
across a recursive call. One action per rule; the transitions of the action rules are walked
in order, `GuardedPlace` and `AlongTransition` being the zone and the
placeholder a transition hands on. RESET and ASSIGN take a `preset` of the placeholder their operand
left. The constant `Presets` says what may come of that, for a map and a placeholder: not the inverse image,
because `preset` ignores strictness at zero and mistakes assignments (section 3), and not one
value, because it is taken zone by zone of a list whose division the model does not know.
`PresetIsExact` says that the one about to be taken is the inverse image, and `PresetAddsNothing`
that it has no valuation too many where the sequent is.

**`FullProver`** composes both: the rules of `do_proof` that split a zone (OR, FORALL_REL,
EXISTS, EXISTS_REL, EXISTACT) start `ProverPlace` (`AskHere`, `AskDelayed`), keep what came
back in `kept`, reset `parentPlaceRef` and either ask again, continue, or return.

**`TwoProvers`** composes two runs: `FirstProver` until it has answered, then `SecondStarts`,
a fresh prover object asked for a placeholder, and `SecondProver`. `exact` is a history
variable: whether every preset of a placeholder was exact so far.

**`Solver`** is the abstract specification of the program: for its input it
answers once, it does answer, and the answer is right where `MayAccept` and `MayReject` say so,
unless something inexact went before it (`Slip`: a preset that was not the inverse image).
`TwoProvers` instantiates it with the verdict of the first prover as the abstract
variable, and `KeepsPromise` is the refinement. **`FullCorrect`** defines
`MayAccept` and `MayReject` from `Solution` and from the operators that are proved with a
placeholder.

**`SequentTable`** is the abstract specification of one table: a function from (predicate,
discrete state) to sets of zones, which a verdict extends and a purge reduces.
**`SequentStack`** (`sequent_stack.hh`) is how the table is stored: the vector of bins with the
hash and the bit mask, in a bin the vector of sequents found by their discrete state, in a
sequent the vector of zones, overwritten in place or appended to. The purge is a loop of single
steps (`PurgeKeep`, `PurgeErase`, `PurgeEnd`), because it erases from the vector it runs over.
The iterator is stepped back after an erasure, at the first element to a position in
front of the vector: formally undefined, in the vectors the program is built with a
decrement that the loop's increment undoes, and modelled as that. `ImplementsTable` is
the refinement; it is what lets `SequentCache` and `PlaceCache` start from functions and sets.

**`Solution`**. What an equation system means, valuation by valuation and by
fixpoint iteration: no zones, no rules, no tables. It shares only the syntax with
`Prover`. It is recursive, so only TLC uses it.

**`ProverCorrect`** compares the two.

**`Truth`** says the same without recursion, for the proofs: least fixpoints are what can be derived,
greatest fixpoints what supports itself, and a *judgement* says of one formula that it holds in
one state. **`MCTruth`** lets TLC compare it with `Solution` for one equation of either parity over
every connective (the assumption `SameMeaning`, evaluated by `Discrete`).
**`Soundness`** states with `Truth` what a verdict promises (`ValidHolds`, `InvalidHolds`) and what an
entry of a verdict table does (`KnownTrueHolds`, `KnownFalseHolds`), and for which
formulas the search with placeholders can be relied on (`Splits`, `Tame`).
**`Decided`** describes the other inputs that the theorems speak of: those on which *invalid* is a
refutation (`Decided`) and those on which the verdict tables may be trusted (`Conjunctive`,
`Disjunctive`), with sets of formulas that are closed (**`Subformulas`**) in place of a recursion
over them. **`MCDecided`** computes those sets, so that TLC can check the same promises of the
same inputs (`Right`).

**`MCFormulas`, `MCTimed`, `MCDiscrete`, `MCPlaces`**: formula constructors and the three
families of inputs. **`ProverProofs`, `PlaceProofs`, `PlaceCallProofs`,
`SoundnessProofs`, `FullSoundnessProofs`, `SequentStackProofs`**: the theorems.

```
Constraints -> Matrices -> DBM -> DBMProofs
                 |          |         |
                 v          v         v
             Valuations -> Zones -> ZonesProofs
                 |          `-> MCZones
                 v
             ZoneLists -> DBMList -> MCLists    (and -> ZonesProofs)
                 |
                 `-> Guards -> MCGuards
```

**`Constraints`** (`constraints.hh`). A raw constraint is the `short` of the code, lowest
bit strictness, the rest the bound. `Limit` is 2^(w-1) for a short of w bits: 32768 in
the program. A sum is formed exactly (`Sum2`) and stored modulo 2^w (`Wrap`).

**`Matrices`** (`DBM.hh`). The matrices and what each operation of class `DBM` makes of
them, as operators, because a zone alone and a zone in a list undergo the same ones. They
are the closed form of the loops: the comments say where the order of the updates matters.

**`DBM`** (`DBM.hh`, class `DBM`). `dbm` is the matrix, `m_is_cf` the flag; one action per
operation of the class that changes the matrix, except the three closures (below) and `cf()`.
`cf()` is several: `CfStart`, `Relax` (one iteration of the innermost loop), `CfEmpty` and
`CfDone` are its steps and `k`, `i`, `j` its counters, because what the in-place loops
compute, and where the intermediate sums go, depends on the order. Three ways of
treating the flag recur and have names: `Preserves`, `Clears`, and `ClearsUnless` (the
presets, which return the flagged empty matrix when they find the zone empty). The
`assert(m_is_cf)` of the presets is the guard of their actions; the other operations
have no precondition, in the code or here. `Operands` are the matrices another `DBM` may
hold. The three closures are operators of `Matrices`, applied to every flagged matrix a run
reaches (`ClosuresKeepCanonical`), and not actions: they keep the flag of a matrix that may
no longer deserve it (section 3).

The zone machine is the class under an arbitrary client. `Prover` does not use it: there,
a zone is a set of valuations. `Zones` is what connects the two: it shows operation by
operation that the matrices compute the sets `Prover` computes with, and where they do not.

**`Valuations`**. What a matrix stands for: the set of clock valuations that satisfy its
entries, and each operation on sets of valuations (delay forwards and backwards, image
and inverse image of a reset or an assignment, and the equivalence of valuations that
the maximal constant induces). It uses none of the algorithms it is compared with. Clock values are multiples
of 1/6: two clocks with integer bounds have at most two fractional parts, so the
multiples of 1/3 meet every zone that is not empty, and a valuation in thirds
that has a witness by delay or reset has one in sixths. **`Zones`** states the properties
that compare the two.

**`ZoneLists`** (`DBMList.hh`): what the operations of class `DBMList` make of a list of
zones, each a matrix with its flag, and of the flag of the list; `cf()` of a zone is one step
here. The order in which `remove_contained_dbms` leaves the zones is abstracted (no operation
depends on it once empty zones are gone). **`DBMList`**: the class as a state machine, one
action per operation that changes the list. Assertions are guards, as in `DBM`.
**`MCLists`**: the arguments of the run.

**`Guards`** (`comp_ph.hh`, and the passage that the four rules with a guard
share: `do_proof_imply`, `do_proof_allact`, `do_proof_place_allact`,
`do_proof_existact` with `do_proof_place_existact`). One call in steps: the guard is evaluated
on a matrix, and in the rules with a placeholder on a list (`EvaluateGuard`: `comp_ph` and
its variants, each disjunction going on from what its left operand left); the invariant of the
location entered is collected (`RestrictToInvariant`), carried back over the resets
and then over the assignments one at a time, in the order of the code (`PresetResets`,
`PresetAssignment`), met with the zone and the placeholder (`MeetInvariant`), and the zone is
extrapolated. `Prover` and `ProverPlace` take all of this for one step on sets;
`GuardExact` and `EnteringExact` are the statement that they may. **`MCGuards`**: the calls.

**`MCZones`**: the operands of the run, single constraints as the parser builds them
and the empty matrix. **`DBMProofs`, `ZonesProofs`**: the theorems.

## 3. Runs

Deadlock checking is off in the runs of the provers because the search stops
when it has its verdict; `Termination` and `KeepsPromise` show it stops nowhere else. It is
off in `ListsExact`, where a client stops after `Calls` operations, and in `Guards`, which is one call.

| run | inputs | checks | result |
|---|---|---|---|
| `Timed` | two equations, two locations, one clock; with and without caching | `Right`, `TypeOK`, `CyclesAreOpenCalls`, `CyclesMakeProgress`, `ParentIsInnermost`, `ParentsAreSequents`, `CachesConsistent`, `Termination` | hold |
| `Discrete` | three equations; all systems without caching, those with one kind of connective with caching | `Sound`, `Complete`, `TrueTableJustified`, `FalseTableJustified` | hold |
| `Places` | the regions of one clock, with the preset of the code; every splitting rule over every other and over the rules that narrow; pairs of recursive equations with and without caching | `FullTypeOK`, `PlaceExact`, `ProversAgree`, `PlaceCyclesAreOpenCalls`, `PlaceParentIsOpen`, `PlaceCachesConsistent`, `KeepsPromise` | hold |
| `Bins` | two predicates, two bins each, a discrete variable with three values, of which two collide and the third does not | `ImplementsTable` | holds |
| `Guards` | three clocks, guards with conjunctions and disjunctions, resets, up to two assignments | `GuardExact`, `EnteringExact` | hold |
| `ZonesExact` | two clocks, all atoms | `TypeOK`, `NoOverflow`, `FlagMeansCanonical`, `ClosuresKeepCanonical`, `EmptinessExact`, `InclusionExact`, `EmptyStaysEmpty`, `CfTerminates`, `CfKeepsZone`, `DelaysExact`, `ResetsExact`, `PresetsExact`, `BoundOfLowerBounds` | hold |
| `ListsExact` | two clocks, lists as arguments, three calls | `FlagMeansNormal`, `CombinationsExact`, `UnionExact`, `ComparisonsExact`, `IntersectionIdempotent` | hold |
| `CachingIsSound` | three greatest fixpoints over discrete states, a disjunction of equations at the start, caching | `Sound` | **violated** |
| `NarrowedCycle` | two equations whose recursion narrows its own placeholder | `AnswerHolds` | **violated** |
| `RepeatedCycle` | one least fixpoint over itself, asked from all valuations | `ProversAgree` | **violated** |
| `PresetAssign` | the inputs of `ZonesExact` | `PresetToIsInverse` | **violated** |
| `PlaceOnlyNarrows` | the inputs of `Places` without recursion | `PlaceOnlyNarrows` | **violated** |

*Timed family* (`MCTimed`): two equations, every parity assignment that is
alternation free, two locations, one clock whose valuations are 0, 1 and
"above 1" (the regions of an automaton whose largest constant is 1, with integer
points), three transitions of which two reset or keep the clock and one is
pruned by the target's invariant for some zones. Every rule and every disjunct
of the next-state relation fires. `Right` claims more than `Sound`, on a part of the family: a
verdict *invalid* is right on the inputs that `Decided` describes, with caching on those that are
`Conjunctive` or `Disjunctive` as well. It cannot be claimed of all:
`do_proof_or_simple` proves one disjunct for the whole zone and so is incomplete
when neither holds alone. It is the rule of `|s|`, which the user may write
between any two formulas, and of `{p} || f` with a propositional `p`; and a least
fixpoint may hold on every part of a zone by another derivation, which no rule finds that
keeps the zone whole.

*Discrete family* (`MCDiscrete`): three equations over one valuation and two
discrete states, so a zone is true or false as a whole, the rules are exact, and a
wrong verdict can only come from circularities and tables. Three equations is
the smallest size at which caching goes wrong. All inputs without caching satisfy `Decided`, and
those with one kind of connective are `Conjunctive` or `Disjunctive` besides (`AllAreDecided` and
`OneKindIsOneSided`, evaluated before the run), so the hypotheses of the theorems are met.

*Places family* (`MCPlaces`): one clock and the constant 1, as the four regions `x = 0`,
`0 < x < 1`, `x = 1`, `x > 1`: the least number at which open and closed zones differ on both
sides of a delay, so that the strict time successors of the side conditions matter; one
location with an invariant; three transitions. Inputs without recursion (three initial
zones, two locations) put every splitting rule over
leaves, over another splitting rule, and under `EXISTS` and `EXISTACT`, and `FORALL` under
`EXISTACT`, which reaches a preset that is not exact: the resets are to 0 and one leaf begins strictly after 0. Pairs of recursive
equations reach circularities and cached verdicts inside `do_proof_place`, with both options of
caching. Every rule of both provers fires. `TrustedIsTame` (evaluated before the run) names inputs
of the family that satisfy the hypothesis `Tame` of `SplitValidIsRight`.

*Bounds.* `MaxDepth` = 40 (200 in `Places`) bounds the call stack so that `Seq(Frame)` has a reachable
limit under mutation; no unmodified run reaches it (`Termination` would fail:
a search stuck at the bound never ends). It is the only bound in the modules of
the provers. In `Bins`, `MaxZones` = 4 zones in all bins together: enough for three in one
sequent, of which a purge takes the first, the middle, the last or several, next to another
sequent in the same bin. In `Guards`, `N` = 3 clocks: the least number for a chain of two
assignments whose order matters beside a clock that is reset; zones, guards and placeholders are
neither all implied by nor all disjoint from one another.

*Bounds of the zone run.* `N` = 2 clocks: the smallest matrix with a difference between
clocks, a third round of `cf()` and all cases of every operation (with both clocks, one or
neither in a reset set). `MaxC` = 1, and operands with bounds 0 and 1, so that sums reach
bounds on both sides of the constant. `Cap` = 2: an operation is applied only while all
finite bounds lie in -2..2, which keeps the states finite where `bound()` is not called;
`cf()` runs on whatever it is given and may leave that range. `Inner` = 2 and `Outer` = 5:
valuations up to 2 are compared, with witnesses up to 5 (the named assumption of `Zones`
says why that is enough: a witness lies at most `Cap` further out, and strictly so).
`Limit` = 48 is the narrowest encoding for which `NoOverflow` holds with these
operands (at 44 it fails), so the test that leaves the loops early is just sufficient and
a sum that goes further is noticed. `PresetAssign`, `ListsExact` and `Guards` use the
program's 32768.

*Bounds of the list run.* The arguments are three zones as built, their canonical forms, and
a canonical list of two overlapping zones. `Calls` = 3 operations are applied, which is what
it takes to break the two levels of flags apart (an operation that keeps the flag of a zone,
one that makes it untrue, and `cf()` of the list), and `MaxSize` = 3: operations are applied
and properties evaluated on lists of up to three zones, since a complement multiplies
the lengths. `Inner` = 3 meets every zone the bounds -2..2 of these runs can form.

*Alternation freedom.* The circularity rules do not reset a predicate when an
outer one of the other parity is unfolded again; `doc/notes.tex` restricts the
input to alternation-free systems, and so do all families.

*Fairness.* Weak fairness of the whole next-state relation, in `Timed` (`FairSpec`), `Places`
(`TwoFairSpec`) and of the steps of `cf()` in `ZonesExact`: one thread, no blocking call, no
scheduler; a call that has started keeps executing. It is used for `Termination`, for the
liveness half of `KeepsPromise` and for `CfTerminates`. No fairness is assumed of the operations
on zones, which a client may never call.

### What the runs show

`CachingIsSound`. A verdict taken from a circularity depends on a sequent that is still
open. It is cached; its user is recorded as a parent of the *circularity* sequent
(`completes_gfp_cycle`), which purging never reads: purging reads the parents of
known-true and known-false entries, and one generation of them, although the comment of
`look_for_and_purge_rhs_backStack` says it goes on until nothing more is purged. When the open
sequent is then refuted, what was derived from it stays in the table. The trace is the search for `X nu= Y |s| Z`, `Y nu= Z && l==b`,
`Z nu= Y |s| l==b` in a state with `l==a`, where none of the three holds. `X` tries its first
disjunct: `Y` is pushed, its first conjunct `Z` asks for `Y`, which is a circularity, so `Z` is cached
true with no parent that purging would find. The other conjunct of `Y` fails, `Y` is refuted and
purged, and `Z` stays. `X` tries its second disjunct, finds `Z` known true and answers *valid*; with
`--no-caching` it answers *invalid*. The `|s|` of `X` is what hands both disjuncts to `do_proof` and
its tables: written `||`, `do_proof_or` proves the first one with a placeholder, in the other four
tables, and the answer is right. `Discrete` shows where caching is right: when all connectives are of one kind the
first refutation (or proof) ends the search, so nothing stale is read afterwards, and
`TrueTableJustified`/`FalseTableJustified` are the cache invariants that explain it.
These two answer, for that fragment, the open question in the notes ("What is the
cache-invariant"); `CachingIsRight`, `KnownTrueIsRight` and `KnownFalseIsRight` prove the answer
for every such input (section 4).

*Shared bins* (an observation, without a run: all inputs of the runs have a number of their own for
each equation, and `BinsAssumption` says the same for `SequentStack`). The number before an equation chooses the bin. Two
equations with one number (`examples/CorrectnessTestSuite/Valid/Safety/Safety-timeda-2eq.in` has
such a system) share circularity and verdict entries, so one takes the other for a
circularity. This is why the theorems on soundness assume `OwnNumbers`.

The doc comment of `tabled_sequent_lfp` describes an equality test where the code has a
containment test; it is harmless (`Sound` and `Complete` hold with it).

*The placeholder prover.* `KeepsPromise` and `PlaceExact` say where its answers can be relied on,
and MCPlaces has inputs on both sides of every condition:

* without caching an answer *valid* is right unless a relativised quantifier (FORALL_REL,
  EXISTS_REL) is itself proved with a placeholder, a greatest fixpoint is met below itself
  there, or the preset of a placeholder adds a valuation to the inverse image. The rules of the quantifiers overwrite the placeholder they
  were given with one computed from the unconstrained zone; a circularity answers with
  the whole placeholder, on the assumption that what was pushed will hold, and nothing is
  proved again when the right-hand side narrows it (`NarrowedCycle`); for the preset see *Inverse
  images* below. Under these conditions, and the assumptions named in section 4,
  `SplitValidIsRight` proves it;
* without caching an answer *invalid* is right unless EXISTS_REL occurs, a least fixpoint is met
  below itself in a proof with a placeholder, or
  FORALL, ALLACT, IMPLY or FORALL_REL is proved under a placeholder that is already narrowed, or the
  preset of a placeholder was not exact: the rule narrows by what the zone needs, and the caller asks for less; and a circularity
  with an equal zone and placeholder empties the placeholder, though an equal pair does not mean
  that each valuation depends on itself (`RepeatedCycle`);
* with caching neither is claimed. Beyond what `CachingIsSound` shows, a verdict proved with a
  placeholder may rest on an open fixpoint too: `X = A && exists(<act>Y)`,
  `Y mu= x>=1 || forall(Y)` is such an input.

`ProversAgree` is stronger in another direction: without caching the two provers give the same
answer on all inputs of `Places`, those on which both are wrong included. `RepeatedCycle` runs the
one kind of input found on which they do not: `X mu= x>=1 || exists(X)` asked from all
valuations, where the delayed sequent equals the first one. With caching
they may differ: `X nu= Y || <act>X`, `Y nu= x<1 && forall(X)` trips the assertion.

`PlaceOnlyNarrows`. The assertion of `do_proof_exists` that the placeholder which comes back lies
within the invariant fails when the operand is a FORALL_REL: the placeholder it answers was never
intersected with the one it was given.

`PlaceParentIsOpen` is weaker than `ParentIsInnermost`, and has to be: the relativised rules set
`parentPlaceRef` to null in the middle of a placeholder proof (`proof.hh:1958`, `2097`) while
predicates above are open. Hits after that are recorded with the parent without
placeholder, so nothing null is dereferenced (the property says so) in the first prover; the
second prover has no such parent, and records null.
The doc comment of `SequentPlace::tabled_sequent` (`sequent.hh`) speaks of containment where
the code compares for equality, with no consequence for the properties.

*Guards.* `GuardExact` holds for all guards of the grammar of transitions, and for implications
in which no disjunction has a constraint on its left. That condition is an observation without a
run: the comment of `comp_ph` says that one constraint is few enough and that worse is
never fed to it, but the parser accepts any left side of `=>`, and
`X = (x<1 || l==0) => x>1` from `x >= 1` is answered *valid* as written, because the failed
constraint leaves an empty zone to the right operand, and *invalid* with the operands exchanged.
`EnteringExact` holds when the presets are right by themselves and the order of the
assignments does not matter. Its hypothesis `OrderIrrelevant` is not decoration: the code takes
the inverses of the assignments in the order of execution (`proof.hh:1326`) where
inverses compose in the opposite one.

*Inverse images.* Transitions with resets are handled backwards: the target's invariant
is pulled back through `preset`, and so is the placeholder that RESET and ASSIGN get from their
operand (`proof.hh:2657`, `2700`). `PresetsExact` says for which zones that is exact, and its
hypotheses are the cases that are wrong. `PresetAssign`: pulling `x <= 1` back through `x := y`
gives the empty zone and not `y <= 1`, and pulling back `x < y`, which no valuation reaches, gives
`y > 0`. The test for emptiness in `preset(clock_set)` (`DBM.hh:590`) looks at the bound and not
at its strictness, so pulling `x > 0` back through `x := 0` gives every valuation; a zone with a
strict lower bound of 0 on a reset clock is excepted. So `X nu= <act>(forall(x>0))` over a
transition that resets `x` is answered *valid*: the placeholder of the body is `x > 0`, its preset is
every valuation, and nothing is proved again after the reset. The model answers the same: without the
condition `exact` in `PlaceExact` and in `Solver`, `Places` fails on an input of this form
(`ExistAct(Forall(Constraint({1, 2})))` from `{0, 1, 2}`). The single-clock version, which only
`DBMList` calls, rejects every zone in which `x` has an upper bound other than 0; `PresetsExact`
says it is right otherwise.

*Extrapolation.* `BoundOfLowerBounds` is the case the search meets after letting time pass:
upper bounds are infinite or small, and there `bound()` is right. In general it is not an
extrapolation: it tightens a difference that exceeds the constant (`DBM.hh:714`; with constant
1 the zone `x - y = 2` loses all its valuations), and for a clock whose upper bound exceeds the
constant it also drops differences that do not, which adds regions: with constant 1 the zone
`y <= x <= y + 1, y <= 1` gains `x = 2, y = 0`.

*The flag.* The operations that make bounds strict keep the flag. The matrix of a zone
in which some difference is fixed (`Pinned`) becomes one whose zone is empty and whose diagonal does
not say so, and the next `cf()` does nothing because the flag is set. `ClosuresKeepCanonical`
says that this is the only case, which is why the closures are not actions of `DBM`.

*Operands.* `InclusionExact` asks that the left operand of `operator<=` is canonical; the doc
comment names the right one.

*Unions.* `ListsExact` finds the algebra of lists in order, and stronger than its comments
ask: union, intersection, complement and `cf()` are exact whatever the flags say,
because a matrix that is wrongly taken for nonempty still describes the empty set. Only the
comparisons need truthful flags: after `closureRev` they may miss an inclusion
(`ComparisonsExact` has the hypothesis `Truthful`), and `UnionExact` shows that `union_`,
which acts on their answers, then returns a longer list and not a wrong one. That is why
the wrong flag after a closure does not make the side condition of the relativised
exists (`proof.hh:567`) wrong by itself.

## 4. Theorems

`ProverProofs` proves, for every set of predicates, formulas, zones, transitions,
inputs and depth bounds satisfying the named assumptions of `Prover` (which say
only that the constants have the types the code gives them, and that a subformula
of a formula is a formula):

| theorem | statement |
|---|---|
| `TypeCorrect` | `Spec => []TypeOK` |
| `ConsistentTables` | `Spec => []CachesConsistent` |
| `CyclesCorrect` | `Spec => []CyclesAreOpenCalls` |
| `ProgressCorrect` | `Spec => []CyclesMakeProgress` |
| `ParentCorrect` | `Spec => []ParentIsInnermost` |
| `NoNullParent` | `Spec => []ParentsAreSequents` |

*`CachesConsistent`* is inductive given the type invariant. The step that carries
it is `LeavePredicate`: inserting a true zone `z` is safe because the preceding
purge removed from the known-false table exactly the zones contained in `z`; the
circularity actions insert without purging and are safe because the lookups that
precede them missed.

*`CyclesAreOpenCalls` and `CyclesMakeProgress`* are not inductive: that popping the
end of a stack removes the zone of the call that returns needs to know that the
innermost open call of a bin pushed the last entry. `CyclesInv` strengthens them
to a correspondence between positions: the n-th entry of a circularity stack is
the zone of the n-th open call of that bin and parity. Progress follows from the
lookup that precedes each push.

*`ParentIsInnermost`* is inductive with its own second half: each saved copy
points below its own frame, which is what makes the restoring assignment right.
*`ParentsAreSequents`* adds `FirstCall`: while `parentRef` is null every table is
empty, so the only call made with a null parent, the first, can hit nothing.

`PlaceProofs` proves about the composed search, from the same
assumptions and two on time (`TimeAssumption`: a delay of zero is a delay, a positive delay is a
delay, and delays compose):

| theorem | statement |
|---|---|
| `FullTypeCorrect` | `FullSpec => []FullTypeOK` |
| `ConsistentPlaceTables` | `FullSpec => []PlaceCachesConsistent` |
| `ExistsRelSideConditionExact` | the side condition of EXISTS_REL keeps exactly the witnesses before which, among the delays of the zone, the first formula holds throughout |
| `ForallSideConditionNeverGivesUp` | the last branch of the side condition of FORALL is never taken |
| `ForallSideConditionExact` | the side condition of FORALL keeps exactly the valuations all of whose delays inside the invariant stay in the placeholder |

`FullTypeCorrect` has one lemma per rule of `do_proof_place` and per rule of `do_proof` that asks
for a placeholder, and takes the rules of `Prover` from `ProverProofs`. `ConsistentPlaceTables`
is inductive given those types: `PurgesSeparate` says that a purge leaves no pair for the zone
in the table it is about and adds none to the other, whichever parents lose their entries, and
the circularity rules, which insert without purging, do so only after both lookups missed. `FullSpec` is
the search one prover object makes; the second prover of `TwoProvers` starts from empty
tables and makes the same steps. The second branch of the
side condition of FORALL is a retry after removing the bad predecessors; its comment
(`proof.hh:670-671`) wonders whether the final `makeEmpty` "is really reachable".
`ForallSideConditionNeverGivesUp` answers it: what is left after the removal has no bad successor,
because a bad successor of it would be one of the zone and the removal took all its
predecessors. It uses that delays compose.

`PlaceCallProofs` is about the calls of the composed search, from the same assumptions:

| theorem | statement |
|---|---|
| `PlaceCyclesCorrect` | `FullSpec => []PlaceCyclesAreOpenCalls` |
| `PlaceParentCorrect` | `FullSpec => []PlaceParentIsOpen` |
| `CallsStayCorrect` | what `ProverProofs` shows of the calls and tables without placeholder still holds when `do_proof` hands formulas to `do_proof_place` |

`PlaceCyclesInv` is the correspondence of `CyclesInv`, for pairs of a zone and a placeholder.
`PLinked` says where each saved `parentPlaceRef` points, which a rule that clears
the pointer in the middle of a proof does not disturb, and `NoNullPlaces` that in the first prover no
entry records a user of neither kind. `CallsStayCorrect` needs `Waiting`: while a
placeholder is being proved, the rule of `do_proof` that asked for it is on top and none
of its steps is enabled, so every step of the composition is one of `Prover` or leaves the variables of
`Prover` alone, up to `parentPlaceRef`.

`SoundnessProofs` and `FullSoundnessProofs` prove what the program is for, a right verdict:

| theorem | statement |
|---|---|
| `ValidIsRight` | `Spec => [](~useCaching /\ OwnNumbers => ValidHolds)` |
| `InvalidIsRight` | `Spec => [](~useCaching /\ OwnNumbers /\ Decided => InvalidHolds)` |
| `KnownTrueIsRight` | `Spec => [](OwnNumbers /\ Conjunctive => KnownTrueHolds)` |
| `KnownFalseIsRight` | `Spec => [](OwnNumbers /\ Disjunctive /\ Decided => KnownFalseHolds)` |
| `CachingIsRight` | `Spec => [](OwnNumbers /\ (Conjunctive \/ Disjunctive) => ValidHolds /\ (Decided => InvalidHolds))` |
| `SplitValidIsRight` | `FullSpec /\ []PresetAddsNothing => [](~useCaching /\ OwnNumbers /\ Tame => ValidHolds)` |

`ValidHolds` says that when the search has ended with *valid*, the formula asked for is true, in
the sense of `Truth`, in every valuation of the zone it was asked for; `InvalidHolds` that when it
has ended with *invalid* there is a valuation in which it is not. The last theorem is about the
whole program, the others about the rules that do not split a zone.

`Truth` is the reference. `Derivable(s, G)` is the least set of judgements closed under the meaning
of the connectives, unfolding least fixpoints and taking greatest ones from the claims `G`;
`Supportable` is the largest set of claims whose right-hand sides can be derived from that set;
`Provable(s, H)` is what follows from it and from the hypotheses `H`. It is the meaning of
a system whose greatest fixpoints are outside its least ones, which alternation-free systems are up to
the order of their equations. The two fixpoints are unions and intersections, not iterations, so
nothing in the proofs is an induction over formulas: `Inversion` (a derivable judgement has a
last step), `ProvableMonotone`, and `Discharge`, the rule for a circularity: claims that are
provable from themselves are provable.

The invariant `Search` says for every call on the stack that if what it asks is provable then so is what
its caller asked, each under the claims of the greatest fixpoints open at that point
(`Justified`). A circularity hit answers *valid* because its sequent is contained in one that was pushed,
which is one of the open claims; this is where `CyclesInv` enters, and `OwnNumbers`: a bin with two
predicates would answer for the wrong one. When an unfolded greatest fixpoint returns *valid*, its
right-hand side has been proved under its own claim, and `Discharge` removes the claim.

*`InvalidIsRight`* needs more than the dual of this. A rule that does not find a proof answers
*invalid*, so the inputs must be such that the rule had to find one (`Decided`): no zone is
empty (`Inhabited`), no zone would have to be split (`Undivided`: safety properties, or a system
without clocks), extrapolation adds nothing, and no least fixpoint goes round through a greatest one (`Unmixed`). The
lemmas read each rule backwards: where a sequent is true, so is what its rule asks for (`ConnectivesBack`,
`AllactBack`, `OrSimpleBack`). For the circularities the reference is restricted: `TruthsBut(s, F)` is
what can be derived without unfolding the least fixpoints of the claims `F`, and the invariant
`Refutation` says for every call that if it is true in this sense, with the claims blocked that are open at
that point, so is what was asked of it. A circularity asks for a blocked claim, so it fails. When an unfolded least
fixpoint returns *invalid*, its right-hand side fails under its own claim, and `LfpRefuted` removes
the claim: a least derivation has no need to pass through what it derives. This is where alternation freedom
enters, since blocking a claim must not take support from a greatest fixpoint that does not lead to it
(`ClaimsApart`), and where one valuation per zone does, since the claims of a zone are blocked together and a
derivation for one of its valuations may need another.

*The verdict tables* are trusted where the search ends with the first equation that fails, or with the first that
succeeds. `Conjunctive` says that no disjunction has an equation in its left operand, so while an equation is under
proof no disjunction waits above it (`Nested`) and a verdict *invalid* is handed through to the end
(`Final`): whatever it leaves behind in the tables is not read. Until then the known-false table is empty and the
known-true table holds what is provable from the claims of the greatest fixpoints still open
(`TrueIsProved`). It may hold verdicts that were taken from a circularity; when the open greatest
fixpoint is left with *valid*, `Discharge` frees them of its claim (`LeavingProves`), and it cannot be left with *invalid*
before the end. Purging only removes entries, and its incompleteness (*`CachingIsSound`* in section 3) is therefore harmless here.
`Disjunctive` is the dual: no conjunction and no ALLACT waits above an equation, the known-true table stays empty, and the
known-false table holds what fails with the open least fixpoints blocked (`FalseIsRefuted`). When one of these is refuted,
`Withheld` says that to block it made no difference. A verdict *valid* is right there without `Decided`.
`KnownTrueHolds` and `KnownFalseHolds` are `TrueTableJustified` and `FalseTableJustified` of the run
`Discrete`, stated with `Truth`.

With placeholders, `FullSearch` adds for every frame of the placeholder search what its answer will
be worth (`Narrowed`: inside the placeholder it was given and right on the zone) and what the answer
kept so far is worth (`PKept`). EXISTACT and the union rules collect valuations, each
with its witness; ALLACT and AND narrow; FORALL and EXISTS use the theorems on the side conditions.
Here `Discharge` is not available, because the claim would be about the placeholder that went in and the
right-hand side only proves the one that came out. This is the failure that `NarrowedCycle` shows, and it
was the proof attempt that found it. Hence the condition `Tame`: in the formulas that are
handed to `do_proof_place` no greatest fixpoint leads back to itself (`Once`) and no relativised
quantifier occurs. `NoCircularity` shows that then no circularity of a greatest fixpoint is met, by
following the calls below an open predicate (`Beneath`) and using `PlaceCyclesCorrect`. `TrustedIsTame`
lets TLC check that the inputs of `Places` on which `KeepsPromise` relies on a verdict *valid* satisfy
`Tame`, so the hypothesis is not empty.

`PresetAddsNothing` is the hypothesis on the presets that RESET and ASSIGN take of a placeholder, at the moment
they are taken: no valuation of the sequent enters the placeholder that the reset or assignment does not
lead into what was proved. It is a property of the values a run meets, like `NoOverflow` in `FlagCorrect`, and
not of the input: which bounds a placeholder has when it comes back depends on everything proved below. The
example under *Inverse images* violates it, and there the conclusion fails. `PresetsCorrect` gives
zones for which it holds: those without a strict lower bound of 0 on a reset clock, with the
conditions of `PresetsExact` on assignments. Losing valuations does no harm to a verdict *valid*.

Four assumptions come on top of those of `PlaceProofs`. `StrictAssumption`: a delay is strict unless it
is no delay. `DivergenceAssumption`: whether an invariant lets time diverge does not depend
on the valuation. `BoundAssumption`: extrapolation only enlarges a zone; `bound()` does so where the search
applies it after letting time pass (`BoundOfLowerBounds`) and not on every matrix
(*Extrapolation* in section 3). `EnteringAssumption`: the presets of each transition take the
invariants to their inverse images; of an invariant that only bounds clocks from above resets do so, while
an assignment on the transition may not (*Inverse images*). All four are evaluated by `Places`.

`SequentStackProofs` proves, for every set of zones, every finite set of predicates, every set of
discrete states, number of bins and bound, that the stored tables are the abstract one:

| theorem | statement |
|---|---|
| `StackImplementsTable` | `StackSpec => ImplementsTable` |

In the refinement mapping a purge counts as done when its loop starts. The invariant `WellBuilt` says that the sequents of a bin have
different discrete states, and that a purge in progress has passed only over zones that
stay. Distinctness makes the first match of the search the only one, so appending a sequent
(`BinAppend`), changing one (`BinUpdate`) and erasing one (`BinRemove`) change the zones of one discrete
state and of no other; with what the loop has passed, the erasures remove exactly what the purge removed in
the abstract table. `KeyIndex`: two predicates never share a bin, because the hash is a bin position
(`HashAssumption`). The masked sum is a fold over the state, whose recursion the provers
cannot unfold, so this stays an assumption, which TLC evaluates in `Bins`. That a first match exists is the well-foundedness of
`<`, cited as a fact and not as an induction.

`DBMProofs` proves, for every number of clocks, every width of the encoding, every maximal
constant and every set of operands that satisfies `LimitAssumption`, `MatrixAssumption` and
`DBMAssumption` (entries are shorts no larger than infinity, diagonals at most zero; no clock may
be negative, and an empty matrix does not show it at the zero clock alone. The code has no check
for the last two: they hold because every matrix starts as `makeInfty` or `makeEmpty` and the
constants of an automaton are naturals):

| theorem | statement |
|---|---|
| `DbmTypeCorrect` | `Spec => []TypeOK` |
| `FlagCorrect` | `Spec /\ []NoOverflow => []FlagMeansCanonical` |
| `EmptyStaysCorrect` | `Spec /\ []NoOverflow => EmptyStaysEmpty` |
| `ClosuresCorrect` | `Spec /\ []NoOverflow => []ClosuresKeepCanonical` |

`FlagCorrect` is the correctness of the canonical form under any sequence of operations. Its
hypothesis is a property of the values a run meets: wrapping sums can make any matrix look
tight, and whether they occur depends on the constants of the automaton and on how often the
loops run over an empty zone. `ZonesExact` checks the hypothesis on the small instance; for
many clocks it is open, since the loops test for emptiness once only.

The invariant `FlagInv` describes the loops mid-round. `Completed(m, k, a, b)` is what entry
`[a][b]` will be when round `k` is over, and `InRound` says that the matrix of these values is
closed under paths through every index up to `k` (`CompletedClosed`) and that the entries
already visited have their final value. Three lemmas carry it. `Pivot`, at the start of a
round: closed below `k` becomes, with the completed values, closed up to `k`; this is the
textbook argument, by associativity and monotonicity of the sums. `RoundStep`: an update leaves
row and column `k` alone as long as `[k][k]` is not negative, so no completed value changes
and the order within a round is irrelevant. `RoundEnds`: after the last entry the matrix is
its own completion. If a diagonal entry becomes negative the invariant weakens to
"recognisably empty", which no later step undoes. `SucCanonical` and
`SubstitutedCanonical` are the operations that keep the flag: erasing upper bounds keeps a
matrix closed, and so does renaming its indices (which is what resets and assignments are).

`EmptyStaysEmpty` is not inductive: `pre()` makes `[0][0]` weak again, so a matrix that is empty
there and nowhere else would come back to life. `ClockEmpty` excludes it: an empty
matrix shows it at a clock. What must be proved is that an iteration of the loops never makes
`[0][0]` negative first (`RelaxSinks`): round 0 comes before the others, and it has already put
every cycle through the zero clock into the diagonal entry of the other clock
(`CompletedClosed` in `FlagInv` says so). The
second addition, `NonNegative` (row 0 is at most `<= 0` unless the zone is empty), is what the
presets assume when they free a clock, and what the theorems about zones need. `MatrixInv` is all of it.

For the closures the triangle inequality is split in two, the bounds and the strictness
(`TriangleOfBounds`). Made weak, or made strict, the bounds still obey it; with strict bounds a
sum of two opposite entries is below the diagonal exactly when their bounds add up to 0, which is
what `Pinned` says.

`ZonesProofs` connects the matrices with what they stand for, for every number of clocks, from
the same assumptions and `ZonesAssumption` (witnesses lie far enough out). The theorems that need
no witness hold of every valuation of integers, so for every grid:

| theorem | statement |
|---|---|
| `CfCorrect` | `Spec /\ []NoOverflow => CfKeepsZone` |
| `IntersectionMeaning` | `In(v, intersect(m, Y)) <=> In(v, m) /\ In(v, Y)` for well-formed matrices |
| `InclusionSound` | `Includes(m, Y) /\ In(v, m) => In(v, Y)` for well-formed matrices |
| `NegationMeaning` | `Satisfies(-d, negate_constraint(c)) <=> ~Satisfies(d, c)` for finite `c > 1 - infinity` |
| `DelaysCorrect` | `Spec /\ []NoOverflow => DelaysExact` |
| `PresetsCorrect` | `Spec /\ []NoOverflow => PresetsExact` |
| `ResetsCorrect` | `Spec /\ []NoOverflow => OneClockResetsExact` |
| `BoundLosesNothing` | `In(v, m) => In(v, bound(m))` for nonempty `m` without bounds above the constant, `v` nonnegative |
| `ListIntersectionMeaning` | the product of two lists of well-formed zones stands for the intersection of their unions |

The argument is one fact per way of combining constraints: a looser constraint is implied
(`SatisfiesLooser`), of two the tighter is their conjunction (`SatisfiesTighter`), and sums
of constraints bound sums of differences (`SatisfiesSum`). An update of the loops replaces
an entry by the tighter of itself and such a sum, so it changes nothing
(`RelaxKeepsZone`); the early exit replaces one empty set by another. `IntersectionMeaning`
and `NegationMeaning` are the reason why the union algebra of `ListsExact` is exact without canonical forms. The
converse of `InclusionSound`, for canonical matrices, needs a point of a zone to be
constructed from its matrix, and stays with TLC (`InclusionExact`). The
bound in `NegationMeaning` is where the encoding ends: the negation of `x - y <= -16383`
is encoded as infinity.

The delays, resets and assignments need one number: how long a valuation is to wait, or what
value the clock had before. `Room(c)` is the largest integer, in sixths, that satisfies `c`, and
`RoomBetween` is the reason why the number exists: in a canonical matrix every lower bound
on it is below every upper bound, also when both are strict, because the valuation itself is in
thirds. The proofs take the least number above the lower bounds (or the greatest below the upper
ones) and check the rest against it; that it lies within the grid comes from the bounds of the
matrix (`WithinCap`). That the matrix of a flagged nonempty zone is canonical is `FlagCorrect`,
and this is where the theorems of the two modules meet (`FlaggedIsTight`). The presets need no
number, only that the tests they make before freeing a clock are the ones a valuation with
equal clocks would fail (`PresetMeaning`, `NotBelowZero`). `OneClockResetsExact` is `ResetsExact` for
single clocks and assignments, and one inclusion for sets of clocks: undoing the reset of
several clocks takes several numbers at once, and a grid as fine as their number.
`BoundLosesNothing` supports `BoundAssumption` of the soundness proof. In `ListIntersectionMeaning`
the zones are paired by division and remainder, which reach every pair (`PlaceOfPair`) and nothing
else (`PairOfPlace`).

Only model-checked: `Sound`, `Complete`, `Right`, the two table justifications, `PlaceExact`,
`KeepsPromise` and `ProversAgree` (they compare with `Solution`, which is recursive, or are about
liveness; `ValidHolds`, `InvalidHolds`, `KnownTrueHolds` and `KnownFalseHolds` say the same with `Truth`),
`Termination` and `CfTerminates` (liveness),
`Guards` (whose guards are trees, evaluated recursively), `NoOverflow` (above), the properties of
`Zones` that need a point for all clocks at once (`EmptinessExact`, `InclusionExact`, `ResetsExact`
for sets of clocks, the witnesses of `BoundOfLowerBounds`: with many clocks the grid
is too coarse and they are false of it), and `DBMList` but for the intersection of two lists
(`ListIntersectionMeaning`): the other operations are folds and selections over lists.

## 5. Not modelled

* The parser, the lexer and the setters they call (`addConstraint`, `setIsCfFalse`, the setters of
  `Transition` and `pes`): their effect on the search is its input, which is enumerated.
* `ExprNode`, `SubstList` and `clock_set` beyond what the rules read of them: tree bookkeeping,
  copying and printing. The parity and the number of an equation are inputs.
* `relation()` of `DBM` and of `DBMList`, which nothing calls.
* The vacuity marks (`setExaminedDuringProof` and the like). No step of the search reads them.
  `prover_options` leaves `allVacuity` and `full_debug` uninitialised unless the command line
  sets them; the first decides whether marks are written and whether a placeholder
  that every caller normalises is normalised once more.
* Option parsing, timing, logging and printing; generic containers; the programs that
  generate examples, which only write input files.

What could still be proved: that a verdict *invalid* of the search with placeholders is right (the rules
that split a zone need the largest placeholder, not only a right one), and the operations on lists that are folds.
