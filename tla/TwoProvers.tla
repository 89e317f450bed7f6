----------------------------- MODULE TwoProvers -----------------------------
(***************************************************************************)
(* The program as it is built to test itself (timesolver-ta.cc, under      *)
(* DEBUG_PLACEHOLDER_PROVER): one prover answers without a placeholder,    *)
(* then a fresh one proves the same input from an unconstrained            *)
(* placeholder, and the two answers are compared.                          *)
(***************************************************************************)
EXTENDS FullCorrect

VARIABLES plain,     \* the answer of the first prover, "none" while it runs
          exact      \* history: every preset taken was an inverse image

twoVars == <<fullVars, plain, exact>>

TwoInit ==
    /\ FullInit
    /\ plain = "none"
    /\ exact = TRUE

FirstProver == plain = "none" /\ FullNext /\ UNCHANGED plain

\* do_proof_init with a placeholder, on a prover object of its own.
SecondStarts ==
    /\ Done
    /\ plain = "none"
    /\ plain' = ret
    /\ pstack' = <<PlaceCall(input_pes.start, input_pes.loc, input_pes.zone, Point)>>
    /\ Xlist_pGFP' = [b \in Bin |-> NoCycle] /\ Xlist_pLFP' = [b \in Bin |-> NoCycle]
    /\ Xlist_true' = [b \in Bin |-> NoSequent] /\ Xlist_false' = [b \in Bin |-> NoSequent]
    /\ Xlist_pGFP_ph' = [b \in Bin |-> NoPlaceCycle]
    /\ Xlist_pLFP_ph' = [b \in Bin |-> NoPlaceCycle]
    /\ Xlist_true_ph' = [b \in Bin |-> NoPlaceSequent]
    /\ Xlist_false_ph' = [b \in Bin |-> NoPlaceSequent]
    /\ UNCHANGED <<input_pes, stack, ret, parentRef, place_ret, parentPlaceRef, kept>>

SecondProver == plain # "none" /\ do_proof_place /\ UNCHANGED <<kept, plain>>

TwoNext ==
    /\ FirstProver \/ SecondStarts \/ SecondProver
    /\ exact' = (exact /\ PresetIsExact)

TwoSpec == TwoInit /\ [][TwoNext]_twoVars

\* One thread.
TwoFairSpec == TwoSpec /\ WF_twoVars(TwoNext)

\* The placeholder is answered; the verdict do_proof_init makes of it.
Answered == plain # "none" /\ pstack = << >> /\ place_ret # << >>
PlaceVerdict == Verdict(input_pes.zone \subseteq Answer)

-----------------------------------------------------------------------------
(***************************************************************************)
(* Properties.                                                             *)
(***************************************************************************)

\* The prover implements the abstract solver: whichever rules the search goes
\* through, it ends with one verdict, and the verdict is right for the inputs
\* on which the rules are, unless a preset that was not exact led to it.
Promise == INSTANCE Solver WITH
    Inputs <- Systems,
    input <- input_pes,
    verdict <- IF plain # "none" THEN plain ELSE IF Done THEN ret ELSE "none"
KeepsPromise == Promise!Spec

\* The placeholder answered is made of valuations for which the formula holds,
\* and misses none of the initial zone, where the rules and the presets taken
\* are exact: the meaning of do_proof_place, of which the verdict is only the
\* inclusion of one zone.
PlaceExact ==
    Answered /\ exact =>
        LET true == TrueAt(input_pes, input_pes.start.pred, input_pes.loc)
            ops == AllOps(input_pes)
        IN  /\ Reliable(input_pes, ops, Predicate) => Answer \cap input_pes.zone \subseteq true
            /\ Decisive(input_pes, ops, Predicate) => true \cap input_pes.zone \subseteq Answer

\* "Different results from proof with and without placeholder" does not occur
\* without caching (timesolver-ta.cc, assert(suc == tmp)), even for the inputs
\* both provers get wrong; except where a least fixpoint is met again with the
\* very zone and placeholder it was first called with.
ProversAgree == Answered /\ ~useCaching => PlaceVerdict = plain

\* "The sequent is valid for the clock valuations in the intersection of zone
\* and the return value" (proof.hh:259): the placeholder that
\* comes back for the initial zone is one the formula holds on.
AnswerHolds ==
    Answered => Answer \cap input_pes.zone
                   \subseteq TrueAt(input_pes, input_pes.start.pred, input_pes.loc)

=============================================================================
