------------------------------- MODULE Prover -------------------------------
(***************************************************************************)
(* The proof search without placeholders (proof.hh, do_proof and the       *)
(* do_proof_* rules it dispatches to), over the sequent tables of          *)
(* SequentCache.  The C++ call stack is the variable stack, the boolean a  *)
(* call returns is ret, and one step is one call, one return, or one       *)
(* handler that runs to its end without a recursive call.                  *)
(*                                                                         *)
(* The rules that split a zone with a placeholder (OR, EXISTS, EXISTS_REL, *)
(* FORALL_REL, EXISTACT) are not in this module.                           *)
(***************************************************************************)
EXTENDS SequentCache

CONSTANTS
    Predicate,    \* the predicate variables
    Formula,      \* right-hand sides and all their subformulas
    Systems,      \* the inputs: equation systems, and whether to use caching
    Transitions,  \* the sequence of transitions of the automaton
    Inv,          \* Inv[l]: the valuations the invariant of l allows
    Later,        \* Later[p]: the valuations reached from p by delaying
    Beyond,       \* the valuations past every constant on every clock
    Bound,        \* DBM::bound(max_constant) on zones
    MaxDepth      \* bound of the model on the depth of the recursion

ASSUME AutomatonAssumption ==
    /\ Inv \in [Loc -> Zone]
    /\ Later \in [Point -> Zone]
    /\ Beyond \in Zone
    /\ Bound \in [Zone -> Zone]
    /\ Transitions \in Seq([guard : [locs : SUBSET Loc, zone : Zone],
                            dest : [Loc -> Loc], reset : [Point -> Point],
                            entering : [Loc -> Zone]])

ASSUME DepthAssumption == MaxDepth \in Nat

\* The syntax: every subformula is again in Formula.
ASSUME FormulaAssumption ==
    \A f \in Formula :
        /\ f.op = "PREDICATE" => f.pred \in Predicate
        /\ f.op \in {"AND", "OR_SIMPLE"} =>
              f.left \in Formula /\ f.right \in Formula
        /\ f.op \in {"FORALL", "ALLACT"} => f.quant \in Formula
        /\ f.op = "IMPLY" =>
              /\ f.left \in [locs : SUBSET Loc, zone : Zone]
              /\ f.right \in Formula
        /\ f.op = "SUBLIST" => f.map \in [Loc -> Loc] /\ f.expr \in Formula
        /\ f.op = "RESET" => f.map \in [Point -> Point] /\ f.expr \in Formula

\* An input: the equations, the predicate to solve for, the initial state and
\* the option.
ASSUME SystemsAssumption ==
    \A s \in Systems :
        /\ s.rhs \in [Predicate -> Formula]
        /\ s.gfp \in [Predicate -> BOOLEAN]
        /\ s.block \in [Predicate -> Block]
        /\ s.start \in {f \in Formula : f.op = "PREDICATE"}
        /\ s.loc \in Loc
        /\ s.zone \in Zone
        /\ s.useCaching \in BOOLEAN

VARIABLES input_pes,   \* the input under proof
          stack,       \* the active calls, innermost last
          ret,         \* what the last call returned, "none" while descending
          parentRef    \* the sequent whose right-hand side is under proof

vars == <<input_pes, stack, ret, parentRef, cacheVars>>

\* prover_options::useCaching.
useCaching == input_pes.useCaching

Valid == "valid"
Invalid == "invalid"
Verdict(b) == IF b THEN Valid ELSE Invalid

\* Mutant: a call starts with its saved parent undefined.
Call_Uninitialised(formula, discrete_state, zone) ==
    [formula |-> formula, loc |-> discrete_state, zone |-> zone, next |-> 0]

\* One activation of do_proof.  next is the child under proof: 0 before the
\* handler has started, 1 for the left child or the right-hand side of an
\* equation, k for the k-th transition; saved is the local parentRef_saved.
Call(formula, discrete_state, zone) ==
    [formula |-> formula, loc |-> discrete_state, zone |-> zone,
     next |-> 0, saved |-> NoParent]

Frame == [formula : Formula, loc : Loc, zone : Zone, next : Nat, saved : Parent]

TypeOK ==
    /\ input_pes \in Systems
    /\ stack \in Seq(Frame)
    /\ ret \in {"none", Valid, Invalid}
    /\ parentRef \in Parent
    /\ CacheTypeOK

Top == stack[Len(stack)]
Below == SubSeq(stack, 1, Len(stack) - 1)
IsPredicate(fr) == fr.formula.op = "PREDICATE"
BinOf(fr) == get_index(input_pes.block[fr.formula.pred], fr.loc)
IsGfp(fr) == input_pes.gfp[fr.formula.pred]

\* The innermost call is entered, or a child of it has returned.
Entering == stack # << >> /\ ret = "none" /\ Top.next = 0
Resuming == stack # << >> /\ ret # "none" /\ Top.next # 0

\* Return to the caller; call a child and wait; call a child and hand on
\* what it returns.
Return(v) == stack' = Below /\ ret' = v
Descend(k, child) ==
    /\ Len(stack) < MaxDepth
    /\ stack' = Append([stack EXCEPT ![Len(stack)].next = k], child)
    /\ ret' = "none"
TailCall(child) ==
    /\ stack' = [stack EXCEPT ![Len(stack)] = child]
    /\ ret' = "none"

\* do_proof_init.
Init ==
    /\ input_pes \in Systems
    /\ stack = <<Call(input_pes.start, input_pes.loc, input_pes.zone)>>
    /\ ret = "none"
    /\ parentRef = NoParent
    /\ CacheInit

-----------------------------------------------------------------------------
(***************************************************************************)
(* Predicates: do_proof_predicate.                                         *)
(***************************************************************************)

bin == BinOf(Top)
EnterPredicate == Entering /\ IsPredicate(Top)
Unknown == useCaching => ~KnownFalse(bin, Top.zone) /\ ~KnownTrue(bin, Top.zone)

KnownFalseHit ==
    /\ EnterPredicate
    /\ useCaching
    /\ is_known_false_sequent(bin, Top.zone, parentRef)
    /\ Return(Invalid)
    /\ UNCHANGED <<input_pes, parentRef>>

KnownTrueHit ==
    /\ EnterPredicate
    /\ useCaching
    /\ ~KnownFalse(bin, Top.zone)
    /\ is_known_true_sequent(bin, Top.zone, parentRef)
    /\ Return(Valid)
    /\ UNCHANGED <<input_pes, parentRef>>

\* The sequent occurs below itself: true for a greatest fixpoint ...
GfpCircularity ==
    /\ EnterPredicate
    /\ IsGfp(Top)
    /\ Unknown
    /\ completes_gfp_cycle(bin, Top.zone, parentRef)
    /\ IF useCaching
       THEN Xlist_true' \in cache_true_sequent(Xlist_true, bin, Top.zone)
       ELSE UNCHANGED Xlist_true
    /\ Return(Valid)
    /\ UNCHANGED <<input_pes, parentRef, Xlist_pLFP, Xlist_false>>

\* Mutant: a least fixpoint circularity is taken for a success.
LfpCircularity_Valid ==
    /\ EnterPredicate
    /\ ~IsGfp(Top)
    /\ Unknown
    /\ completes_lfp_cycle(bin, Top.zone, parentRef)
    /\ Return(Valid)
    /\ UNCHANGED <<input_pes, parentRef, Xlist_pGFP, tables>>

\* ... and false for a least fixpoint.
LfpCircularity ==
    /\ EnterPredicate
    /\ ~IsGfp(Top)
    /\ Unknown
    /\ completes_lfp_cycle(bin, Top.zone, parentRef)
    /\ IF useCaching
       THEN Xlist_false' \in cache_false_sequent(Xlist_false, bin, Top.zone)
       ELSE UNCHANGED Xlist_false
    /\ Return(Invalid)
    /\ UNCHANGED <<input_pes, parentRef, Xlist_pGFP, Xlist_true>>

\* Mutant: parentRef keeps naming the caller.
StartRhs_KeepsParent ==
    /\ Len(stack) < MaxDepth
    /\ stack' = Append([stack EXCEPT ![Len(stack)].next = 1,
                                     ![Len(stack)].saved = parentRef],
                       Call(input_pes.rhs[Top.formula.pred], Top.loc, Top.zone))
    /\ ret' = "none"
    /\ UNCHANGED parentRef

\* The caller-saved parentRef and the descent into the right-hand side.
StartRhs ==
    /\ Len(stack) < MaxDepth
    /\ stack' = Append([stack EXCEPT ![Len(stack)].next = 1,
                                     ![Len(stack)].saved = parentRef],
                       Call(input_pes.rhs[Top.formula.pred], Top.loc, Top.zone))
    /\ ret' = "none"
    /\ parentRef' = bin

UnfoldGfp ==
    /\ EnterPredicate
    /\ IsGfp(Top)
    /\ Unknown
    /\ ~GfpCycle(bin, Top.zone)
    /\ Xlist_pGFP' = [Xlist_pGFP EXCEPT ![bin].dbms = push_sequent(@, Top.zone)]
    /\ StartRhs
    /\ UNCHANGED <<input_pes, Xlist_pLFP, tables>>

UnfoldLfp ==
    /\ EnterPredicate
    /\ ~IsGfp(Top)
    /\ Unknown
    /\ ~LfpCycle(bin, Top.zone)
    /\ Xlist_pLFP' = [Xlist_pLFP EXCEPT ![bin].dbms = push_sequent(@, Top.zone)]
    /\ StartRhs
    /\ UNCHANGED <<input_pes, Xlist_pGFP, tables>>

\* What the caches become once the right-hand side is known.
UpdateCaches ==
    IF ~useCaching
    THEN UNCHANGED tables
    ELSE \/ /\ ret = Valid
            /\ LET purged == purge_false_sequent(bin, Top.zone)
               IN  /\ Xlist_true' \in cache_true_sequent(purged.true, bin, Top.zone)
                   /\ Xlist_false' = purged.false
         \/ /\ ret = Invalid
            /\ LET purged == purge_true_sequent(bin, Top.zone)
               IN  /\ Xlist_true' = purged.true
                   /\ Xlist_false' \in cache_false_sequent(purged.false, bin, Top.zone)

\* Mutant: a least fixpoint sequent is never popped.
PopCircularity_GfpOnly ==
    IF IsGfp(Top)
    THEN /\ Xlist_pGFP' = [Xlist_pGFP EXCEPT ![bin].dbms = pop_sequent(@)]
         /\ UNCHANGED Xlist_pLFP
    ELSE UNCHANGED <<Xlist_pGFP, Xlist_pLFP>>

PopCircularity ==
    IF IsGfp(Top)
    THEN /\ Xlist_pGFP' = [Xlist_pGFP EXCEPT ![bin].dbms = pop_sequent(@)]
         /\ UNCHANGED Xlist_pLFP
    ELSE /\ Xlist_pLFP' = [Xlist_pLFP EXCEPT ![bin].dbms = pop_sequent(@)]
         /\ UNCHANGED Xlist_pGFP

\* Mutant: the caller's parentRef is not restored.
LeavePredicate_NoRestore ==
    /\ Resuming
    /\ IsPredicate(Top)
    /\ PopCircularity
    /\ UpdateCaches
    /\ Return(ret)
    /\ UNCHANGED <<input_pes, parentRef>>

LeavePredicate ==
    /\ Resuming
    /\ IsPredicate(Top)
    /\ parentRef' = Top.saved
    /\ PopCircularity
    /\ UpdateCaches
    /\ Return(ret)
    /\ UNCHANGED input_pes

do_proof_predicate ==
    \/ KnownFalseHit
    \/ KnownTrueHit
    \/ GfpCircularity
    \/ LfpCircularity
    \/ UnfoldGfp
    \/ UnfoldLfp
    \/ LeavePredicate

-----------------------------------------------------------------------------
(***************************************************************************)
(* The connectives.  None of them touches the sequent tables.              *)
(***************************************************************************)

\* Mutant: time passes beyond the invariant.
Elapse_Unbounded(zone, discrete_state) == UNION {Later[p] : p \in zone}

\* The zones the rules derive from the zone of the sequent.
Elapse(zone, discrete_state) == (UNION {Later[p] : p \in zone}) \cap Inv[discrete_state]
Image(map, zone) == {map[p] : p \in zone}

\* comp_ph succeeds: the location matches and, when the premise constrains
\* a clock, some valuation of the zone satisfies it.
comp_ph(zone, premise, discrete_state) ==
    /\ discrete_state \in premise.locs
    /\ premise.zone = Point \/ zone \cap premise.zone # {}

\* What is asked of a valuation before transition t, so that its destination
\* can be entered: t.entering has what the presets of t make of the invariant
\* there, which need not be the inverse image; none are taken of no invariant.
InvariantPre(t, discrete_state) ==
    IF Inv[t.dest[discrete_state]] = Point THEN Point ELSE t.entering[discrete_state]

\* The part of the zone from which transition t can be taken.
EnabledPart(t, discrete_state, zone) ==
    zone \cap t.guard.zone \cap InvariantPre(t, discrete_state)
CanTake(t, discrete_state, zone) ==
    /\ comp_ph(zone, t.guard, discrete_state)
    /\ \/ Inv[t.dest[discrete_state]] = Point
       \/ EnabledPart(t, discrete_state, zone) # {}

\* ALLACT body after t: the destination and the resets of the transition's
\* right expression, around the quantified formula.
AfterTransition(t) ==
    Call(Top.formula.quant, t.dest[Top.loc],
         Image(t.reset, Bound[EnabledPart(t, Top.loc, Top.zone)]))

do_proof_and ==
    /\ Top.formula.op = "AND"
    /\ \/ Entering /\ Descend(1, Call(Top.formula.left, Top.loc, Top.zone))
       \/ Resuming /\ ret = Valid /\ TailCall(Call(Top.formula.right, Top.loc, Top.zone))
       \/ Resuming /\ ret = Invalid /\ Return(Invalid)

\* Mutant: the right disjunct is not tried.
do_proof_or_simple_LeftOnly ==
    /\ Top.formula.op = "OR_SIMPLE"
    /\ \/ Entering /\ Descend(1, Call(Top.formula.left, Top.loc, Top.zone))
       \/ Resuming /\ Return(ret)

do_proof_or_simple ==
    /\ Top.formula.op = "OR_SIMPLE"
    /\ \/ Entering /\ Descend(1, Call(Top.formula.left, Top.loc, Top.zone))
       \/ Resuming /\ ret = Valid /\ Return(Valid)
       \/ Resuming /\ ret = Invalid /\ TailCall(Call(Top.formula.right, Top.loc, Top.zone))

do_proof_forall ==
    /\ Entering
    /\ Top.formula.op = "FORALL"
    /\ TailCall(Call(Top.formula.quant, Top.loc, Elapse(Top.zone, Top.loc)))

\* The transitions are tried in order until one refutes the body.
do_proof_allact ==
    LET pending == {k \in (Top.next + 1)..Len(Transitions) :
                       CanTake(Transitions[k], Top.loc, Top.zone)}
    IN  /\ Top.formula.op = "ALLACT"
        /\ \/ /\ Entering \/ (Resuming /\ ret = Valid)
              /\ \/ pending = {} /\ Return(Valid)
                 \/ \E k \in pending :
                       /\ \A j \in pending : k <= j
                       /\ Descend(k, AfterTransition(Transitions[k]))
           \/ Resuming /\ ret = Invalid /\ Return(Invalid)

do_proof_imply ==
    /\ Entering
    /\ Top.formula.op = "IMPLY"
    /\ IF comp_ph(Top.zone, Top.formula.left, Top.loc)
       THEN TailCall(Call(Top.formula.right, Top.loc,
                          Bound[Top.zone \cap Top.formula.left.zone]))
       ELSE Return(Valid)

\* SUBLIST and REPLACE change the discrete state, RESET and ASSIGN the clocks.
do_proof_sublist ==
    /\ Entering
    /\ Top.formula.op = "SUBLIST"
    /\ TailCall(Call(Top.formula.expr, Top.formula.map[Top.loc], Top.zone))

do_proof_reset ==
    /\ Entering
    /\ Top.formula.op = "RESET"
    /\ TailCall(Call(Top.formula.expr, Top.loc, Image(Top.formula.map, Top.zone)))

\* The leaves: BOOL and the ATOMIC comparisons name the discrete states in
\* which they hold.
do_proof_atomic ==
    /\ Entering
    /\ Top.formula.op = "ATOMIC"
    /\ Return(Verdict(Top.loc \in Top.formula.locs))

do_proof_constraint ==
    /\ Entering
    /\ Top.formula.op = "CONSTRAINT"
    /\ Return(Verdict(Top.zone \subseteq Top.formula.zone))

\* Time can diverge when no upper bound is left after delaying.  suc() takes the
\* bounds of an empty matrix too, and no intersection puts one back.
TimeDiverges(zone, discrete_state) ==
    zone = {} \/ Elapse(zone, discrete_state) \cap Beyond # {}

do_proof_ablewaitinf ==
    /\ Entering
    /\ Top.formula.op \in {"ABLEWAITINF", "UNABLEWAITINF"}
    /\ Return(Verdict((Top.formula.op = "ABLEWAITINF") <=> TimeDiverges(Top.zone, Top.loc)))

Connective ==
    \/ do_proof_and
    \/ do_proof_or_simple
    \/ do_proof_forall
    \/ do_proof_allact
    \/ do_proof_imply
    \/ do_proof_sublist
    \/ do_proof_reset
    \/ do_proof_atomic
    \/ do_proof_constraint
    \/ do_proof_ablewaitinf

-----------------------------------------------------------------------------
Next ==
    /\ stack # << >>
    /\ \/ do_proof_predicate
       \/ Connective /\ UNCHANGED <<input_pes, parentRef, cacheVars>>

Spec == Init /\ [][Next]_vars

\* The search is one thread and nothing suspends it.
FairSpec == Spec /\ WF_vars(Next)

Done == stack = << >>

-----------------------------------------------------------------------------
(***************************************************************************)
(* Properties.                                                             *)
(***************************************************************************)

\* The calls whose right-hand side is under proof.
Open(fr) == IsPredicate(fr) /\ fr.next # 0
OpenIn(gfp, b) == {i \in DOMAIN stack : /\ Open(stack[i])
                                       /\ IsGfp(stack[i]) = gfp
                                       /\ BinOf(stack[i]) = b}
Cycle(gfp, b) == (IF gfp THEN Xlist_pGFP[b] ELSE Xlist_pLFP[b]).dbms

\* The circularity tables are exactly the chain of open calls: they hold the
\* zones of the predicate calls that have not returned and no others, in the
\* order of the calls.  A zone left behind by a call that has returned would
\* make do_proof_predicate take a sequent for an ancestor of itself.
CyclesAreOpenCalls ==
    \A b \in Bin, gfp \in BOOLEAN :
        /\ Pushed(Cycle(gfp, b)) = {stack[i].zone : i \in OpenIn(gfp, b)}
        /\ \A i, j \in OpenIn(gfp, b), m, n \in DOMAIN Cycle(gfp, b) :
              (Cycle(gfp, b)[m] = stack[i].zone /\ Cycle(gfp, b)[n] = stack[j].zone)
                 => (m < n <=> i < j)

\* No zone is pushed below one that contains it: each pass through a
\* predicate in the same discrete state shows a new valuation or stops at a
\* circularity, which is why the recursion ends.
CyclesMakeProgress ==
    \A b \in Bin, gfp \in BOOLEAN :
        \A m, n \in DOMAIN Cycle(gfp, b) :
            m < n => ~(Cycle(gfp, b)[n] \subseteq Cycle(gfp, b)[m])

\* p is the bin of the innermost open call among the first n calls.
PointsTo(p, n) ==
    \/ p = NoParent /\ \A i \in 1..n : ~Open(stack[i])
    \/ \E i \in 1..n : /\ Open(stack[i])
                      /\ p = BinOf(stack[i])
                      /\ \A j \in (i + 1)..n : ~Open(stack[j])

\* parentRef, saved and restored by hand around every recursive call, always
\* names the innermost predicate under proof, and so does each saved copy for
\* its own call: a verdict taken from a cache is charged to its real user.
ParentIsInnermost ==
    /\ PointsTo(parentRef, Len(stack))
    /\ \A i \in DOMAIN stack : Open(stack[i]) => PointsTo(stack[i].saved, i - 1)

\* A null parentRef is never recorded as a parent; purging dereferences every
\* recorded parent.
ParentsAreSequents ==
    \A b \in Bin : /\ NoParent \notin Xlist_pGFP[b].parents
                   /\ NoParent \notin Xlist_pLFP[b].parents
                   /\ NoParent \notin Xlist_true[b].parents
                   /\ NoParent \notin Xlist_false[b].parents

\* The two verdict tables never contradict each other: no zone is known true
\* while a part of it is known false.
CachesConsistent ==
    \A b \in Bin : \A t \in Xlist_true[b].dbms, f \in Xlist_false[b].dbms :
        ~(f \subseteq t)

\* The search ends, with a verdict.
Termination == <>(Done /\ ret # "none")

=============================================================================
