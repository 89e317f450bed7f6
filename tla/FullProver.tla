----------------------------- MODULE FullProver -----------------------------
(***************************************************************************)
(* The whole proof search: Prover, and the rules of do_proof that split a  *)
(* zone with placeholders (OR, FORALL_REL, EXISTS, EXISTS_REL, EXISTACT),  *)
(* which run do_proof_place on an operand and compare its answer with the  *)
(* zone.  do_proof_place never calls do_proof, so at most one rule of this *)
(* module has a local placeholder alive at any time.                       *)
(***************************************************************************)
EXTENDS ProverPlace, FiniteSets

VARIABLE kept     \* placeholder1, placeholder2 or the union over transitions

fullVars == <<vars, placeVars, kept>>

FullTypeOK ==
    /\ TypeOK
    /\ PlaceTypeOK
    /\ kept \in Zone

FullInit ==
    /\ Init
    /\ PlaceInit
    /\ kept = {}

\* A rule starts, or the placeholder it waits for has come back.
Begins(op) == Entering /\ Top.formula.op = op
PlaceDone(op, k) ==
    /\ pstack = << >>
    /\ place_ret # << >>
    /\ Top.formula.op = op
    /\ Top.next = k

\* Wait for do_proof_place of a formula; use its answer and call do_proof or
\* return.  A rule resets parentPlaceRef itself when it uses an answer.
AskPlace(k, call) ==
    /\ stack' = [stack EXCEPT ![Len(stack)].next = k]
    /\ pstack' = <<call>>
    /\ place_ret' = << >>
    /\ UNCHANGED ret
AskHere(k, f) == AskPlace(k, PlaceCall(f, Top.loc, Top.zone, Point))
AskDelayed(k, f, place) ==
    AskPlace(k, PlaceCall(f, Top.loc, Successors(Top.zone), place))
Use(step) == step /\ place_ret' = << >> /\ UNCHANGED pstack
AnswerWith(b) == Use(Return(Verdict(b)))
ContinueWith(f, zone) == Use(TailCall(Call(f, Top.loc, zone)))

\* Mutant: one operand must cover the zone.
do_proof_or_NoSplit ==
    \/ Begins("OR") /\ AskHere(1, Top.formula.left) /\ UNCHANGED <<kept, parentPlaceRef>>
    \/ /\ PlaceDone("OR", 1)
       /\ parentPlaceRef' = NoParent
       /\ \/ /\ ~(Top.zone \subseteq Answer)
             /\ ContinueWith(Top.formula.right, Top.zone)
          \/ Top.zone \subseteq Answer /\ AnswerWith(TRUE)
       /\ UNCHANGED kept

\* Together the operands must cover the zone.
do_proof_or ==
    \/ Begins("OR") /\ AskHere(1, Top.formula.left) /\ UNCHANGED <<kept, parentPlaceRef>>
    \/ /\ PlaceDone("OR", 1)
       /\ parentPlaceRef' = NoParent
       /\ \/ Answer = {} /\ ContinueWith(Top.formula.right, Top.zone) /\ UNCHANGED kept
          \/ /\ Answer # {} /\ Top.zone \subseteq Answer
             /\ AnswerWith(TRUE)
             /\ UNCHANGED kept
          \/ /\ Answer # {} /\ ~(Top.zone \subseteq Answer)
             /\ AskHere(2, Top.formula.right)
             /\ kept' = Answer
    \/ /\ PlaceDone("OR", 2)
       /\ parentPlaceRef' = NoParent
       /\ AnswerWith(Top.zone \subseteq Answer \cup kept)
       /\ kept' = {}

\* Some delay leads into what the body allows within the invariant.
do_proof_exists ==
    \/ /\ Begins("EXISTS")
       /\ AskDelayed(1, Top.formula.quant, Inv[Top.loc])
       /\ UNCHANGED <<kept, parentPlaceRef>>
    \/ /\ PlaceDone("EXISTS", 1)
       /\ parentPlaceRef' = NoParent
       /\ AnswerWith(Top.zone \subseteq Predecessors(Answer))
       /\ UNCHANGED kept

\* phi_2 after a delay, phi_1 until then.
RelatedPlaces(placeholder1, placeholder2) ==
    IF placeholder1 \cap StrictPredecessors(placeholder2) = {}
    THEN placeholder2 \cap Top.zone
    ELSE Predecessors(establish_exists_rel_sidecondition(Top.zone, placeholder1, placeholder2))

do_proof_exists_rel ==
    \/ /\ Begins("EXISTS_REL")
       /\ AskDelayed(1, Top.formula.right, Inv[Top.loc])
       /\ UNCHANGED <<kept, parentPlaceRef>>
    \/ /\ PlaceDone("EXISTS_REL", 1)
       /\ parentPlaceRef' = NoParent
       /\ \/ Answer = {} /\ AnswerWith(FALSE) /\ UNCHANGED kept
          \/ Answer # {} /\ AskDelayed(2, Top.formula.left, Point) /\ kept' = Answer
    \/ /\ PlaceDone("EXISTS_REL", 2)
       /\ LET found == RelatedPlaces(Answer, kept)
          IN  AnswerWith(found # {} /\ Top.zone \subseteq found)
       /\ kept' = {}
       /\ UNCHANGED parentPlaceRef

do_proof_forall_rel ==
    \/ /\ Begins("FORALL_REL")
       /\ AskDelayed(1, Top.formula.left, Inv[Top.loc])
       /\ UNCHANGED <<kept, parentPlaceRef>>
    \/ /\ PlaceDone("FORALL_REL", 1)
       /\ parentPlaceRef' = NoParent
       /\ \/ /\ Answer = {}
             /\ ContinueWith(Top.formula.right, Elapse(Top.zone, Top.loc))
             /\ UNCHANGED kept
          \/ /\ Answer # {} /\ Top.zone \subseteq Answer
             /\ ContinueWith(Top.formula.right, Top.zone)
             /\ UNCHANGED kept
          \/ /\ Answer # {} /\ ~(Top.zone \subseteq Answer)
             /\ AskDelayed(2, Top.formula.right, Inv[Top.loc])
             /\ kept' = Answer
    \/ /\ PlaceDone("FORALL_REL", 2)
       /\ parentPlaceRef' = NoParent
       /\ AnswerWith(/\ Answer # {}
                     /\ \/ Successors(Top.zone) \subseteq Answer
                        \/ Top.zone \subseteq ForeverOrUntil(Top.zone, Top.loc, kept, Answer))
       /\ kept' = {}

\* The transitions are tried in order until their answers cover the zone.
TryTransitions(from, found) ==
    LET pending == ExistactPending(Top, Point, from)
    IN  \/ /\ pending = {}
           /\ AnswerWith(Top.zone \subseteq found)
           /\ kept' = {}
        \/ \E k \in pending :
              /\ \A j \in pending : k <= j
              /\ AskPlace(k, AlongTransition(Top, k,
                                GuardedPlace(Transitions[k], Top.zone, Point)))
              /\ kept' = found

do_proof_existact ==
    \/ Begins("EXISTACT") /\ TryTransitions(1, {}) /\ UNCHANGED parentPlaceRef
    \/ /\ PlaceDone("EXISTACT", Top.next)
       /\ Top.next # 0
       /\ parentPlaceRef' = NoParent
       /\ LET found == kept \cup Answer
          IN  IF Top.zone \subseteq found THEN AnswerWith(TRUE) /\ kept' = {}
              ELSE TryTransitions(Top.next + 1, found)

SplittingRule ==
    \/ do_proof_or
    \/ do_proof_exists
    \/ do_proof_exists_rel
    \/ do_proof_forall_rel
    \/ do_proof_existact

-----------------------------------------------------------------------------
FullNext ==
    \/ Next /\ UNCHANGED <<placeVars, kept>>
    \/ do_proof_place /\ UNCHANGED kept
    \/ /\ stack # << >>
       /\ SplittingRule
       /\ UNCHANGED <<input_pes, parentRef, cacheVars, placeCacheVars>>

FullSpec == FullInit /\ [][FullNext]_fullVars

\* One thread, as in Prover.
FullFairSpec == FullSpec /\ WF_fullVars(FullNext)

-----------------------------------------------------------------------------
(***************************************************************************)
(* Properties.                                                             *)
(***************************************************************************)

\* The calls with a placeholder whose right-hand side is under proof.
POpen(fr) == fr.formula.op = "PREDICATE" /\ fr.next # 0
POpenIn(gfp, b) == {i \in DOMAIN pstack : /\ POpen(pstack[i])
                                         /\ IsGfp(pstack[i]) = gfp
                                         /\ BinOf(pstack[i]) = b}
PlaceCycle(gfp, b) == (IF gfp THEN Xlist_pGFP_ph[b] ELSE Xlist_pLFP_ph[b]).dbms

\* The pairs on the circularity tables are those of the open calls, and all are
\* gone when do_proof takes the answer: a pair left behind would let a later,
\* unrelated sequent pass for a circularity.
PlaceCyclesAreOpenCalls ==
    \A b \in Bin, gfp \in BOOLEAN :
        /\ Pushed(PlaceCycle(gfp, b)) =
              {Pair(pstack[i].zone, pstack[i].place) : i \in POpenIn(gfp, b)}
        /\ Len(PlaceCycle(gfp, b)) = Cardinality(POpenIn(gfp, b))

\* parentPlaceRef is null outside do_proof_place, and inside it never names a
\* predicate that has returned: the innermost open call, or null.  Where it is
\* null there is a parent without a placeholder, so no null pointer becomes the
\* parent of a cached sequent; purging dereferences every parent.
PlaceParentIsOpen ==
    /\ pstack = << >> /\ place_ret = << >> => parentPlaceRef = NoParent
    /\ parentPlaceRef = NoParent
          \/ \E i \in DOMAIN pstack : /\ POpen(pstack[i])
                                      /\ parentPlaceRef = BinOf(pstack[i])
                                      /\ \A j \in (i + 1)..Len(pstack) : ~POpen(pstack[j])
    /\ stack # << >> => \A b \in Bin : NoParent \notin Xlist_true_ph[b].parents
                                            \cup Xlist_false_ph[b].parents

\* No zone has both a known-true and a known-false pair.
PlaceCachesConsistent ==
    \A b \in Bin : \A t \in Xlist_true_ph[b].dbms, f \in Xlist_false_ph[b].dbms :
        t.zone # f.zone

\* "Check assumption on do_proof_place" (proof.hh:1072): what do_proof_exists
\* gets back is within the invariant, the placeholder it handed in.
PlaceOnlyNarrows ==
    (stack # << >> /\ Top.formula.op = "EXISTS" /\ pstack = << >> /\ place_ret # << >>)
        => Answer \subseteq Inv[Top.loc]

=============================================================================
