---------------------------- MODULE ProverCorrect ----------------------------
(***************************************************************************)
(* The verdict of Prover against the meaning of its input.  Model-checked   *)
(* only: Solution is recursive.                                            *)
(***************************************************************************)
EXTENDS Prover

\* Strictly is only read by operators that Prover does not have.
Reference == INSTANCE Solution WITH Strictly <- Later

\* The states of the discrete state l and predicate X that satisfy X.
Satisfying(X, l) == {p \in Point : <<l, p>> \in Reference!Meaning(input_pes)[X]}

HoldsInitially ==
    input_pes.zone \subseteq Satisfying(input_pes.start.pred, input_pes.loc)

\* "Valid" is only answered when every initial valuation satisfies the
\* formula: the rules, the circularities and the tables prove nothing false.
Sound == (Done /\ ret = Valid) => HoldsInitially

\* "Invalid" is only answered when some initial valuation does not.
Complete == (Done /\ ret = Invalid) => ~HoldsInitially

\* The zones assumed while they are under proof, each with its predicate and
\* discrete state.
OpenCalls(gfp) == {stack[i] : i \in {j \in DOMAIN stack :
                                      Open(stack[j]) /\ IsGfp(stack[j]) = gfp}}
HoldsIn(fr) == fr.zone \subseteq Satisfying(fr.formula.pred, fr.loc)

\* The invariant of the known-true table: what it holds is so if the greatest
\* fixpoint sequents still under proof are.  It is owed only until something
\* has been refuted.
TrueTableJustified ==
    (ret # Invalid /\ \A fr \in OpenCalls(TRUE) : HoldsIn(fr)) =>
        \A X \in Predicate, l \in Loc :
            \A z \in Xlist_true[get_index(input_pes.block[X], l)].dbms :
                z \subseteq Satisfying(X, l)

\* Its dual: what the known-false table holds is not so if the least fixpoint
\* sequents still under proof are not, until something has been proved.
FalseTableJustified ==
    (ret # Valid /\ \A fr \in OpenCalls(FALSE) : ~HoldsIn(fr)) =>
        \A X \in Predicate, l \in Loc :
            \A z \in Xlist_false[get_index(input_pes.block[X], l)].dbms :
                ~(z \subseteq Satisfying(X, l))

=============================================================================
