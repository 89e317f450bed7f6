------------------------------ MODULE Soundness ------------------------------
(***************************************************************************)
(* What a verdict of the whole program promises when it does not use the   *)
(* verdict tables, in terms of Truth.                                      *)
(***************************************************************************)
EXTENDS FullProver, Decided

\* The formulas of both searches: those of do_proof_place include the bodies
\* of transitions.
INSTANCE Truth WITH Formula <- PlaceFormula

\* DBM::bound only enlarges a zone.
ASSUME BoundAssumption == \A z \in Zone : z \subseteq Bound[z]

\* A delay is strict unless it is no delay.
ASSUME StrictAssumption == \A p \in Point : Later[p] \subseteq {p} \cup Strictly[p]

\* Time diverges in a discrete state from everywhere or from nowhere: the
\* invariant bounds a clock from above or it does not.
ASSUME DivergenceAssumption ==
    \A l \in Loc : Inv[l] \cap Beyond = {}
                     \/ \A p \in Point : Later[p] \cap Inv[l] \cap Beyond # {}

\* The presets of a transition make the inverse image of the invariant that it
\* enters.
ASSUME EnteringAssumption ==
    \A k \in DOMAIN Transitions, l \in Loc :
        LET t == Transitions[k]
        IN  InvariantPre(t, l) = {p \in Point : t.reset[p] \in Inv[t.dest[l]]}

\* Every equation has a number of its own.  Two with one number share a bin, and
\* one takes the other for a circularity.
OwnNumbers ==
    \A X, Y \in Predicate : input_pes.block[X] = input_pes.block[Y] => X = Y

\* The formula is judged to hold on the whole zone.
HoldsOn(V, formula, discrete_state, zone) ==
    \A p \in zone : <<formula, discrete_state, p>> \in V

ValidHolds ==
    Done /\ ret = Valid => HoldsOn(Truths(input_pes), input_pes.start,
                                   input_pes.loc, input_pes.zone)
InvalidHolds ==
    Done /\ ret = Invalid => ~HoldsOn(Truths(input_pes), input_pes.start,
                                      input_pes.loc, input_pes.zone)

\* What the known-true table holds is so, until something has been refuted, if
\* the greatest fixpoints still under proof are.
KnownTrueHolds ==
    /\ ret # Invalid
    /\ \A i \in 1..Len(stack) :
          Open(stack[i]) /\ IsGfp(stack[i])
             => HoldsOn(Truths(input_pes), stack[i].formula, stack[i].loc, stack[i].zone)
    => \A f \in Formula, l \in Loc : f.op = "PREDICATE" =>
          \A z \in Xlist_true[get_index(input_pes.block[f.pred], l)].dbms :
              HoldsOn(Truths(input_pes), f, l, z)

\* What the known-false table holds is not so, until something has been proved,
\* if the least fixpoints still under proof are not.
KnownFalseHolds ==
    /\ ret # Valid
    /\ \A i \in 1..Len(stack) :
          Open(stack[i]) /\ ~IsGfp(stack[i])
             => ~HoldsOn(Truths(input_pes), stack[i].formula, stack[i].loc, stack[i].zone)
    => \A f \in Formula, l \in Loc : f.op = "PREDICATE" =>
          \A z \in Xlist_false[get_index(input_pes.block[f.pred], l)].dbms :
              ~HoldsOn(Truths(input_pes), f, l, z)

-----------------------------------------------------------------------------
(***************************************************************************)
(* Where the search with placeholders is right as well.                    *)
(***************************************************************************)

\* The formulas do_proof hands to do_proof_place.
HandedOver(f) ==
    IF f.op \in {"OR", "EXISTS", "EXISTS_REL", "FORALL_REL", "EXISTACT"} THEN Operands(f) ELSE {}

\* The right-hand side of X does not lead back to X.
Avoids(s, X, below) ==
    /\ Hereditary(s, below)
    /\ s.rhs[X] \in below
    /\ \A g \in below : g.op = "PREDICATE" => g.pred # X
Once(s, X) == \E below \in SUBSET Formula : Avoids(s, X, below)

\* searched are the formulas of the search without placeholders and placed
\* those of the search with them: among these are no greatest fixpoints met
\* below themselves, whose circularities are answered too early, and no
\* relativised quantifiers, which answer with more than the placeholder they
\* were given.
Splits(s, searched, placed) ==
    /\ s.start \in searched
    /\ Hereditary(s, searched)
    /\ Hereditary(s, placed)
    /\ \A f \in searched : HandedOver(f) \subseteq placed
    /\ \A f \in placed : /\ f.op \notin {"EXISTS_REL", "FORALL_REL"}
                         /\ f.op = "PREDICATE" /\ s.gfp[f.pred] => Once(s, f.pred)
Tame == \E searched, placed \in SUBSET Formula : Splits(input_pes, searched, placed)

=============================================================================
