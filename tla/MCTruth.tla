------------------------------- MODULE MCTruth -------------------------------
(***************************************************************************)
(* Truth and Solution give one equation the same meaning, over two clock   *)
(* valuations, of which the first delays to the second and a transition    *)
(* leads back.                                                             *)
(***************************************************************************)
EXTENDS MCFormulas

Here == "here"
One == Var("X")
SmallInv == [l \in {Here} |-> {0, 1}]
SmallTransitions ==
    <<Edge({Here}, {1}, [l \in {Here} |-> l], [p \in {0, 1} |-> 0], SmallInv)>>

Small(F) == INSTANCE Truth WITH
    Point <- {0, 1}, Loc <- {Here}, Predicate <- {"X"}, Formula <- F,
    Transitions <- SmallTransitions, Inv <- SmallInv, Later <- [p \in {0, 1} |-> p..1],
    Strictly <- [p \in {0, 1} |-> {1}], Beyond <- {1}
SmallSolution == INSTANCE Solution WITH
    Point <- {0, 1}, Loc <- {Here}, Predicate <- {"X"},
    Transitions <- SmallTransitions, Inv <- SmallInv, Later <- [p \in {0, 1} |-> p..1],
    Strictly <- [p \in {0, 1} |-> {1}], Beyond <- {1}

SmallBodies ==
    {Forall(One), Exists(And(Constraint({1}), One)), Or(Constraint({1}), Exists(One)),
     And(Constraint({0}), Exists(One)), AllAct(One), ExistAct(One),
     ExistsRel(One, Constraint({1})), ForallRel(Constraint({1}), One),
     Imply({Here}, {0}, Exists(One)), OrSimple(AbleWaitInf, One)}
SmallSystem(f, gfp) ==
    [rhs |-> [P \in {"X"} |-> f], gfp |-> [P \in {"X"} |-> gfp]]

ASSUME SameMeaning ==
    \A f \in SmallBodies, gfp \in BOOLEAN :
        LET s == SmallSystem(f, gfp)
            truths == Small({One} \cup Closure(f))!Truths(s)
        IN  \A p \in {0, 1} :
               <<One, Here, p>> \in truths <=> <<Here, p>> \in SmallSolution!Meaning(s)["X"]

=============================================================================
