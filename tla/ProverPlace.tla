----------------------------- MODULE ProverPlace -----------------------------
(***************************************************************************)
(* The proof search with placeholders (proof.hh, do_proof_place and its    *)
(* do_proof_place_* rules), which narrows a placeholder to the valuations  *)
(* for which a sequent holds.  The calls are the variable pstack; the      *)
(* placeholder a call passes by pointer is the field place of its frame    *)
(* and, when the call ends, place_ret.                                     *)
(***************************************************************************)
EXTENDS PlaceCache

\* DBMList::preset on a placeholder: the results it may have for a map of the
\* clocks, which is a reset or a chain of resets and assignments.  There are
\* several because they depend on how the list divides the placeholder, and none
\* of them need be the inverse image.
CONSTANT Presets(_, _)

ASSUME PresetsAssumption ==
    \A map \in [Point -> Point], place \in Zone :
        Presets(map, place) \in (SUBSET Zone) \ {{}}

\* The syntax, as in FormulaAssumption, of the rules that narrow or split.
ASSUME SplitAssumption ==
    \A f \in Formula :
        /\ f.op \in {"OR", "EXISTS_REL", "FORALL_REL"} =>
              f.left \in Formula /\ f.right \in Formula
        /\ f.op \in {"EXISTS", "EXISTACT"} => f.quant \in Formula
        /\ f.op = "CONSTRAINT" => f.zone \in Zone

VARIABLES pstack,          \* the active do_proof_place calls, innermost last
          place_ret,       \* << >>, or the placeholder just returned
          parentPlaceRef   \* the predicate under proof with a placeholder

searchVars == <<pstack, place_ret>>
placeVars == <<searchVars, parentPlaceRef, placeCacheVars>>

\* first is the local placeholder a rule keeps across its second call: that
\* of the left operand, of phi_1 or phi_2, or the union over transitions.
PlaceCall(formula, discrete_state, zone, place) ==
    [formula |-> formula, loc |-> discrete_state, zone |-> zone, place |-> place,
     next |-> 0, saved |-> NoParent, first |-> {}]

\* Transition::getNewTrans: the transition's own destination and resets around
\* the body of a modality.  A transition without resets has no RESET node.
NewTrans(t, body) ==
    LET moved == [op |-> "SUBLIST", map |-> t.dest, expr |-> body]
    IN  IF \A p \in Point : t.reset[p] = p THEN moved
        ELSE [op |-> "RESET", map |-> t.reset, expr |-> moved]

Bodies == {f.quant : f \in {g \in Formula : g.op \in {"ALLACT", "EXISTACT"}}}
AlongTransitions == {NewTrans(Transitions[k], f) : k \in 1..Len(Transitions), f \in Bodies}
PlaceFormula == Formula \cup AlongTransitions
                   \cup {e.expr : e \in {g \in AlongTransitions : g.op = "RESET"}}

PlaceFrame == [formula : PlaceFormula, loc : Loc, zone : Zone, place : Zone,
               next : Nat, saved : Parent, first : Zone]

PlaceTypeOK ==
    /\ pstack \in Seq(PlaceFrame)
    /\ place_ret \in {<< >>} \cup {<<z>> : z \in Zone}
    /\ parentPlaceRef \in Parent
    /\ PlaceCacheTypeOK

PlaceInit ==
    /\ pstack = << >>
    /\ place_ret = << >>
    /\ parentPlaceRef = NoParent
    /\ PlaceCacheInit

PTop == pstack[Len(pstack)]
PBelow == SubSeq(pstack, 1, Len(pstack) - 1)
Answer == place_ret[1]

\* The innermost call starts; its first, second, ... child has returned.
PEntering(op) == place_ret = << >> /\ PTop.next = 0 /\ PTop.formula.op = op
PResuming(op) == place_ret # << >> /\ PTop.next # 0 /\ PTop.formula.op = op
PResumingAt(op, k) == PResuming(op) /\ PTop.next = k

\* A fresh call below PTop: with its own placeholder, or with another one and
\* after a delay.
Child(f, place) == PlaceCall(f, PTop.loc, PTop.zone, place)
Delayed(f, place) == PlaceCall(f, PTop.loc, Successors(PTop.zone), place)
Phase(k) == [PTop EXCEPT !.next = k]
PhaseKeeping(k, place) == [PTop EXCEPT !.next = k, !.first = place]

PReturn(place) == pstack' = PBelow /\ place_ret' = <<place>>
PDescend(frame, child) ==
    /\ Len(pstack) < MaxDepth
    /\ pstack' = PBelow \o <<frame, child>>
    /\ place_ret' = << >>
PTailCall(child) ==
    /\ pstack' = Append(PBelow, child)
    /\ place_ret' = << >>

-----------------------------------------------------------------------------
(***************************************************************************)
(* do_proof_place_predicate.                                               *)
(***************************************************************************)

pbin == BinOf(PTop)
PlaceKnown == useCaching /\ (KnownFalsePlace(pbin, PTop.zone)
                                \/ KnownTruePlaces(pbin, PTop.zone) # {})
PlaceUser(table) == addPlaceParent(table, pbin, parentRef, parentPlaceRef)

KnownFalsePlaceHit ==
    /\ PEntering("PREDICATE")
    /\ useCaching
    /\ KnownFalsePlace(pbin, PTop.zone)
    /\ Xlist_false_ph' = PlaceUser(Xlist_false_ph)
    /\ PReturn({})
    /\ UNCHANGED <<parentPlaceRef, Xlist_pGFP_ph, Xlist_pLFP_ph, Xlist_true_ph, tables>>

\* The cached placeholder replaces the caller's, whatever that was.
KnownTruePlaceHit ==
    /\ PEntering("PREDICATE")
    /\ useCaching
    /\ ~KnownFalsePlace(pbin, PTop.zone)
    /\ \E cached \in KnownTruePlaces(pbin, PTop.zone) :
          /\ Xlist_true_ph' = IF cached = {} THEN Xlist_true_ph
                              ELSE PlaceUser(Xlist_true_ph)
          /\ PReturn(cached)
    /\ UNCHANGED <<parentPlaceRef, Xlist_pGFP_ph, Xlist_pLFP_ph, Xlist_false_ph, tables>>

\* The whole placeholder is taken to be right if a larger one is under proof.
GfpPlaceCircularity ==
    /\ PEntering("PREDICATE")
    /\ IsGfp(PTop)
    /\ ~PlaceKnown
    /\ GfpPlaceCycle(pbin, PTop.zone, PTop.place)
    /\ Xlist_pGFP_ph' = PlaceUser(Xlist_pGFP_ph)
    /\ IF useCaching
       THEN Xlist_true_ph' \in cache_true_place(Xlist_true_ph, pbin, PTop.zone, PTop.place)
       ELSE UNCHANGED Xlist_true_ph
    /\ PReturn(PTop.place)
    /\ UNCHANGED <<parentPlaceRef, Xlist_pLFP_ph, Xlist_false_ph, tables>>

LfpPlaceCircularity ==
    /\ PEntering("PREDICATE")
    /\ ~IsGfp(PTop)
    /\ ~PlaceKnown
    /\ LfpPlaceCycle(pbin, PTop.zone, PTop.place)
    /\ Xlist_pLFP_ph' = PlaceUser(Xlist_pLFP_ph)
    /\ IF useCaching
       THEN Xlist_false_ph' \in cache_false_place(Xlist_false_ph, pbin, PTop.zone)
       ELSE UNCHANGED Xlist_false_ph
    /\ PReturn({})
    /\ UNCHANGED <<parentPlaceRef, Xlist_pGFP_ph, Xlist_true_ph, tables>>

PushPlace(entry) == [entry EXCEPT !.dbms = Append(@, Pair(PTop.zone, PTop.place))]
PopPlace(entry) == [entry EXCEPT !.dbms = pop_sequent(@)]

\* Mutant: the placeholder under proof is not pushed.
UnfoldPlace_NotPushed ==
    /\ PEntering("PREDICATE")
    /\ ~PlaceKnown
    /\ parentPlaceRef' = pbin
    /\ PDescend([Phase(1) EXCEPT !.saved = parentPlaceRef],
                Child(input_pes.rhs[PTop.formula.pred], PTop.place))
    /\ UNCHANGED <<Xlist_pGFP_ph, Xlist_pLFP_ph, placeTables, tables>>

UnfoldPlace ==
    /\ PEntering("PREDICATE")
    /\ ~PlaceKnown
    /\ IF IsGfp(PTop)
       THEN /\ ~GfpPlaceCycle(pbin, PTop.zone, PTop.place)
            /\ Xlist_pGFP_ph' = [Xlist_pGFP_ph EXCEPT ![pbin] = PushPlace(@)]
            /\ UNCHANGED Xlist_pLFP_ph
       ELSE /\ ~LfpPlaceCycle(pbin, PTop.zone, PTop.place)
            /\ Xlist_pLFP_ph' = [Xlist_pLFP_ph EXCEPT ![pbin] = PushPlace(@)]
            /\ UNCHANGED Xlist_pGFP_ph
    /\ parentPlaceRef' = pbin
    /\ PDescend([Phase(1) EXCEPT !.saved = parentPlaceRef],
                Child(input_pes.rhs[PTop.formula.pred], PTop.place))
    /\ UNCHANGED <<placeTables, tables>>

PopPlaceCircularity ==
    IF IsGfp(PTop)
    THEN /\ Xlist_pGFP_ph' = [Xlist_pGFP_ph EXCEPT ![pbin] = PopPlace(@)]
         /\ UNCHANGED Xlist_pLFP_ph
    ELSE /\ Xlist_pLFP_ph' = [Xlist_pLFP_ph EXCEPT ![pbin] = PopPlace(@)]
         /\ UNCHANGED Xlist_pGFP_ph

UpdatePlaceCaches ==
    IF ~useCaching
    THEN UNCHANGED <<placeTables, tables>>
    ELSE LET proved == Answer # {}
             purged == IF proved THEN purge_false_place(pbin, PTop.zone)
                       ELSE purge_true_place(pbin, PTop.zone)
         IN  /\ Xlist_true' = purged.true
             /\ Xlist_false' = purged.false
             /\ IF proved
                THEN /\ Xlist_true_ph' \in
                           cache_true_place(purged.true_ph, pbin, PTop.zone, Answer)
                     /\ Xlist_false_ph' = purged.false_ph
                ELSE /\ Xlist_false_ph' \in
                           cache_false_place(purged.false_ph, pbin, PTop.zone)
                     /\ Xlist_true_ph' = purged.true_ph

\* Mutant: the caller's parentPlaceRef is not restored.
LeavePlacePredicate_NoRestore ==
    /\ PResuming("PREDICATE")
    /\ PopPlaceCircularity
    /\ UpdatePlaceCaches
    /\ PReturn(Answer)
    /\ UNCHANGED parentPlaceRef

LeavePlacePredicate ==
    /\ PResuming("PREDICATE")
    /\ parentPlaceRef' = PTop.saved
    /\ PopPlaceCircularity
    /\ UpdatePlaceCaches
    /\ PReturn(Answer)

do_proof_place_predicate ==
    \/ KnownFalsePlaceHit
    \/ KnownTruePlaceHit
    \/ GfpPlaceCircularity
    \/ LfpPlaceCircularity
    \/ UnfoldPlace
    \/ LeavePlacePredicate

-----------------------------------------------------------------------------
(***************************************************************************)
(* The Boolean connectives and the leaves.                                 *)
(***************************************************************************)

do_proof_place_and ==
    \/ PEntering("AND") /\ PDescend(Phase(1), Child(PTop.formula.left, PTop.place))
    \/ PResuming("AND") /\ Answer = {} /\ PReturn({})
    \/ PResuming("AND") /\ Answer # {} /\ PTailCall(Child(PTop.formula.right, Answer))

\* The right operand is proved for the caller's placeholder, not for what the
\* left one leaves of it.
do_proof_place_or ==
    \/ PEntering("OR") /\ PDescend(Phase(1), Child(PTop.formula.left, PTop.place))
    \/ PResumingAt("OR", 1) /\ PTop.place \subseteq Answer /\ PReturn(PTop.place)
    \/ /\ PResumingAt("OR", 1)
       /\ ~(PTop.place \subseteq Answer)
       /\ PDescend(PhaseKeeping(2, Answer), Child(PTop.formula.right, PTop.place))
    \/ PResumingAt("OR", 2) /\ PReturn(Answer \cup PTop.first)

do_proof_place_or_simple ==
    \/ /\ PEntering("OR_SIMPLE")
       /\ PDescend(Phase(1), Child(PTop.formula.left, PTop.place))
    \/ PResumingAt("OR_SIMPLE", 1) /\ PTop.place \subseteq Answer /\ PReturn(PTop.place)
    \/ /\ PResumingAt("OR_SIMPLE", 1)
       /\ ~(PTop.place \subseteq Answer)
       /\ PDescend(PhaseKeeping(2, Answer), Child(PTop.formula.right, PTop.place))
    \/ /\ PResumingAt("OR_SIMPLE", 2)
       /\ PReturn(IF Answer = {} THEN PTop.first ELSE Answer)

do_proof_place_imply ==
    /\ PEntering("IMPLY")
    /\ IF comp_ph(PTop.zone, PTop.formula.left, PTop.loc)
       THEN PTailCall([Child(PTop.formula.right, PTop.place) EXCEPT
                          !.zone = Bound[PTop.zone \cap PTop.formula.left.zone]])
       ELSE PReturn(PTop.place)

\* The placeholder is emptied when it leaves the zone altogether.
do_proof_place_constraint ==
    LET narrowed == PTop.place \cap PTop.formula.zone
    IN  /\ PEntering("CONSTRAINT")
        /\ PReturn(IF PTop.zone \subseteq PTop.formula.zone THEN PTop.place
                   ELSE IF narrowed \cap PTop.zone = {} THEN {} ELSE narrowed)

\* BOOL and the comparisons of discrete variables.
do_proof_place_atomic ==
    /\ PEntering("ATOMIC")
    /\ PReturn(IF PTop.loc \in PTop.formula.locs THEN PTop.place ELSE {})

do_proof_place_ablewaitinf ==
    LET diverges == TimeDiverges(PTop.zone \cap PTop.place, PTop.loc)
    IN  \/ PEntering("ABLEWAITINF") /\ PReturn(IF diverges THEN PTop.place ELSE {})
        \/ PEntering("UNABLEWAITINF") /\ PReturn(IF diverges THEN {} ELSE PTop.place)

\* SUBLIST and REPLACE.
do_proof_place_sublist ==
    /\ PEntering("SUBLIST")
    /\ PTailCall([Child(PTop.formula.expr, PTop.place) EXCEPT
                     !.loc = PTop.formula.map[PTop.loc]])

\* Mutant: the answer is not taken back through the reset.
do_proof_place_reset_NoPreset ==
    \/ /\ PEntering("RESET")
       /\ PDescend(Phase(1), [Child(PTop.formula.expr, Point) EXCEPT
                                 !.zone = Image(PTop.formula.map, PTop.zone)])
    \/ PResuming("RESET") /\ PReturn(PTop.place \cap Answer)

\* RESET and ASSIGN: proved from no placeholder, answered by a preset of it.
do_proof_place_reset ==
    \/ /\ PEntering("RESET")
       /\ PDescend(Phase(1), [Child(PTop.formula.expr, Point) EXCEPT
                                 !.zone = Image(PTop.formula.map, PTop.zone)])
    \/ PResuming("RESET") /\ Answer = {} /\ PReturn({})
    \/ /\ PResuming("RESET")
       /\ Answer # {}
       /\ \E taken \in Presets(PTop.formula.map, Answer) : PReturn(PTop.place \cap taken)

\* The preset about to be taken is the inverse image, in every division; or at
\* least it adds no valuation of the sequent to the inverse image.
TakesPreset == pstack # << >> /\ PResuming("RESET") /\ Answer # {}
PresetIsExact ==
    TakesPreset =>
        LET map == PTop.formula.map
        IN  Presets(map, Answer) = {{p \in Point : map[p] \in Answer}}
PresetAddsNothing ==
    TakesPreset =>
        \A taken \in Presets(PTop.formula.map, Answer) :
            \A p \in taken \cap PTop.place \cap PTop.zone : PTop.formula.map[p] \in Answer

-----------------------------------------------------------------------------
(***************************************************************************)
(* Time.                                                                   *)
(***************************************************************************)

do_proof_place_forall ==
    \/ PEntering("FORALL") /\ PDescend(Phase(1), Delayed(PTop.formula.quant, PTop.place))
    \/ /\ PResuming("FORALL")
       /\ PReturn(Answer \cap
                     establish_forall_place_sidecondition(PTop.zone, PTop.loc, Answer))

do_proof_place_exists ==
    \/ PEntering("EXISTS") /\ PDescend(Phase(1), Delayed(PTop.formula.quant, Inv[PTop.loc]))
    \/ PResuming("EXISTS") /\ PReturn(PTop.place \cap Predecessors(Answer))

\* phi_2 first, then phi_1, neither from the caller's placeholder.
do_proof_place_exists_rel ==
    \/ /\ PEntering("EXISTS_REL")
       /\ PDescend(Phase(1), Delayed(PTop.formula.right, Inv[PTop.loc]))
       /\ UNCHANGED parentPlaceRef
    \/ /\ PResumingAt("EXISTS_REL", 1)
       /\ IF Answer = {} THEN PReturn({})
          ELSE PDescend(PhaseKeeping(2, Answer), Delayed(PTop.formula.left, Point))
       /\ parentPlaceRef' = NoParent
    \/ /\ PResumingAt("EXISTS_REL", 2)
       /\ PReturn(IF Answer \cap StrictPredecessors(PTop.first) = {}
                  THEN PTop.first \cap PTop.zone
                  ELSE PTop.place \cap Predecessors(
                          establish_exists_rel_sidecondition(PTop.zone, Answer, PTop.first)))
       /\ UNCHANGED parentPlaceRef

\* The last case of both FORALL_REL rules: phi_2 for ever, or phi_2 until phi_1.
ForeverOrUntil(zone, discrete_state, placeholder1, placeholder2) ==
    Predecessors(establish_exists_rel_sidecondition(zone, placeholder2,
                                                    placeholder2 \cap placeholder1))
        \cup establish_forall_place_sidecondition(zone, discrete_state, placeholder2)

\* phi_1 first.  If it holds nowhere phi_2 must hold for ever; if everywhere,
\* phi_2 must hold now; otherwise phi_2 is proved without a placeholder.
do_proof_place_forall_rel ==
    \/ /\ PEntering("FORALL_REL")
       /\ PDescend(Phase(1), Delayed(PTop.formula.left, Inv[PTop.loc]))
       /\ UNCHANGED parentPlaceRef
    \/ /\ PResumingAt("FORALL_REL", 1)
       /\ \/ Answer = {} /\ PDescend(Phase(2), Delayed(PTop.formula.right, PTop.place))
          \/ Answer = Point /\ PTailCall(Child(PTop.formula.right, PTop.place))
          \/ /\ Answer \notin {{}, Point}
             /\ PDescend(PhaseKeeping(3, Answer), Delayed(PTop.formula.right, Inv[PTop.loc]))
       /\ UNCHANGED parentPlaceRef
    \/ /\ PResumingAt("FORALL_REL", 2)
       /\ PReturn(IF Answer = {} THEN {}
                  ELSE establish_forall_place_sidecondition(PTop.zone, PTop.loc, Answer))
       /\ UNCHANGED parentPlaceRef
    \/ /\ PResumingAt("FORALL_REL", 3)
       /\ PReturn(IF Answer = {} \/ Successors(PTop.zone) \subseteq Answer THEN Answer
                  ELSE ForeverOrUntil(PTop.zone, PTop.loc, PTop.first, Answer))
       /\ parentPlaceRef' = NoParent

-----------------------------------------------------------------------------
(***************************************************************************)
(* Transitions.  A guard is one clock constraint over a set of discrete    *)
(* states.                                                                 *)
(***************************************************************************)

\* comp_ph_all_place and comp_ph_exist_place: whether the guard can hold, in
\* the second case without a look at the placeholder when the zone implies it.
comp_ph_all_place(zone, place, guard, discrete_state) ==
    /\ discrete_state \in guard.locs
    /\ guard.zone = Point \/ (zone \cap guard.zone # {} /\ place \cap guard.zone # {})
comp_ph_exist_place(zone, place, guard, discrete_state) ==
    /\ discrete_state \in guard.locs
    /\ zone \subseteq guard.zone
          \/ (zone \cap guard.zone # {} /\ place \cap guard.zone # {})

\* The call for transition t: the invariant narrows the placeholder only where
\* the guarded zone does not imply it.
AlongTransition(frame, k, place) ==
    LET t == Transitions[k]
        entering == InvariantPre(t, frame.loc)
        guarded == frame.zone \cap t.guard.zone
    IN  PlaceCall(NewTrans(t, frame.formula.quant), frame.loc, Bound[guarded \cap entering],
                  IF guarded \subseteq entering THEN place ELSE place \cap entering)

AllactPending(place, from) ==
    {k \in from..Len(Transitions) :
        LET t == Transitions[k]
            entering == InvariantPre(t, PTop.loc)
            guarded == PTop.zone \cap t.guard.zone
        IN  /\ comp_ph_all_place(PTop.zone, place, t.guard, PTop.loc)
            /\ guarded \subseteq entering \/ guarded \cap entering # {}}

\* What is left of the placeholder once transition k has been proved for
\* answer: its other valuations cannot take k, or enter no invariant by it.
AfterAllact(k, answer) ==
    LET t == Transitions[k]
    IN  {p \in PTop.place : p \in answer \/ p \notin t.guard.zone
                               \/ p \notin InvariantPre(t, PTop.loc)}

do_proof_place_allact ==
    LET left == IF place_ret = << >> THEN PTop.place ELSE AfterAllact(PTop.next, Answer)
        pending == AllactPending(left, PTop.next + 1)
    IN  /\ PEntering("ALLACT") \/ PResuming("ALLACT")
        /\ \/ place_ret # << >> /\ left = {} /\ PReturn({})
           \/ /\ place_ret = << >> \/ left # {}
              /\ pending = {}
              /\ PReturn(left)
           \/ /\ place_ret = << >> \/ left # {}
              /\ \E k \in pending :
                    /\ \A j \in pending : k <= j
                    /\ PDescend([Phase(k) EXCEPT !.place = left],
                                AlongTransition(PTop, k, left))

\* The placeholder tightened to the guard where the zone does not imply it.
GuardedPlace(t, zone, place) ==
    IF zone \subseteq t.guard.zone THEN place ELSE place \cap t.guard.zone

\* Shared by both EXISTACT rules.
ExistactPending(frame, place, from) ==
    {k \in from..Len(Transitions) :
        LET t == Transitions[k]
            entering == InvariantPre(t, frame.loc)
        IN  /\ comp_ph_exist_place(frame.zone, place, t.guard, frame.loc)
            /\ \/ frame.zone \cap t.guard.zone \subseteq entering
               \/ GuardedPlace(t, frame.zone, place) \cap entering # {}}

\* All transitions are tried; the union of their answers is kept in first.
do_proof_place_existact ==
    LET found == IF place_ret = << >> THEN {} ELSE PTop.first \cup Answer
        pending == ExistactPending(PTop, PTop.place, PTop.next + 1)
    IN  /\ PEntering("EXISTACT") \/ PResuming("EXISTACT")
        /\ \/ pending = {} /\ PReturn(PTop.place \cap found)
           \/ \E k \in pending :
                 /\ \A j \in pending : k <= j
                 /\ PDescend(PhaseKeeping(k, found),
                             AlongTransition(PTop, k,
                                GuardedPlace(Transitions[k], PTop.zone, PTop.place)))

-----------------------------------------------------------------------------
PlaceConnective ==
    \/ do_proof_place_and
    \/ do_proof_place_or
    \/ do_proof_place_or_simple
    \/ do_proof_place_imply
    \/ do_proof_place_constraint
    \/ do_proof_place_atomic
    \/ do_proof_place_ablewaitinf
    \/ do_proof_place_sublist
    \/ do_proof_place_reset
    \/ do_proof_place_forall
    \/ do_proof_place_exists
    \/ do_proof_place_allact
    \/ do_proof_place_existact

\* One step of the search with placeholders: only predicates touch a table.
do_proof_place ==
    /\ pstack # << >>
    /\ \/ do_proof_place_predicate
       \/ PlaceConnective /\ UNCHANGED <<parentPlaceRef, placeCacheVars, tables>>
       \/ /\ do_proof_place_exists_rel \/ do_proof_place_forall_rel
          /\ UNCHANGED <<placeCacheVars, tables>>
    /\ UNCHANGED <<input_pes, stack, ret, parentRef, Xlist_pGFP, Xlist_pLFP>>

=============================================================================
