------------------------------ MODULE MCPlaces ------------------------------
EXTENDS TwoProvers

CONSTANTS X, Y, a, b

\* One clock and the constant 1, as regions: 0 is x = 0, 1 is 0 < x < 1, 2 is
\* x = 1 and 3 is x > 1.
MCPoint == 0..3
MCInv == [l \in {a, b} |-> IF l = a THEN MCPoint ELSE {0, 1, 2}]
MCLater == [p \in MCPoint |-> p..3]
MCStrictly == [p \in MCPoint |-> IF p \in {0, 2} THEN (p + 1)..3 ELSE p..3]
MCBound == [z \in SUBSET MCPoint |-> z]

To(l) == [m \in {a, b} |-> l]
Keep == [p \in MCPoint |-> p]
Zero == [p \in MCPoint |-> 0]

MCTransitions == <<Edge({a}, {2, 3}, To(b), Zero, MCInv),
                   Edge({b}, {1, 2}, To(a), Keep, MCInv),
                   Edge({a}, {0, 1}, To(b), Keep, MCInv)>>

\* preset(prs) of one clock: it takes the lower bound x > 0 for x >= 0, so that
\* a clock reset to 0 is let into 0 < x < 1.
MCPresets(map, place) == {{p \in MCPoint : map[p] \in place \/ (map[p] = 0 /\ 1 \in place)}}

Basic == {Atomic({a}), Constraint({0, 1}), Constraint({2, 3})}
Leaves == Basic \cup {Constraint({1, 2})}

Equations(main, sub) == {[P \in {X, Y} |-> IF P = X THEN f ELSE g] : f \in main, g \in sub}
Inputs(rhs, parities, locs, zones, caching) ==
    [rhs : rhs, gfp : parities, block : {[P \in {X, Y} |-> IF P = X THEN 1 ELSE 2]},
     start : {Var(X)}, loc : locs, zone : zones, useCaching : caching]

\* No recursion, several initial zones: every splitting rule over every other
\* and over the rules that narrow.
Splitters == {Or(f, g) : f, g \in Leaves} \cup {Exists(f) : f \in Leaves}
     \cup {ExistsRel(f, g) : f, g \in Leaves} \cup {ForallRel(f, g) : f, g \in Leaves}
     \cup {ExistAct(f) : f \in Leaves}
Flat == Splitters
   \cup {Or(f, g) : f \in Splitters, g \in Basic}
   \cup {Exists(f) : f \in Splitters}
   \cup {ExistAct(f) : f \in Splitters}
   \cup {Exists(Forall(f)) : f \in Leaves}
   \cup {Exists(AllAct(f)) : f \in Leaves}
   \cup {ExistAct(Forall(f)) : f \in Leaves}
FlatInputs == Inputs(Equations(Flat, {Atomic({a})}), {[P \in {X, Y} |-> TRUE]}, {a, b},
                     {{0}, {1}, {0, 1, 2}}, {FALSE})

\* Two equations: splitting rules over predicates, so that the search with
\* placeholders meets circularities and, with caching, its own verdicts.
Split(P) == {Exists(ExistAct(Var(P))), Exists(Var(P)),
             Or(Constraint({0, 1}), Var(P)), ExistsRel(Constraint({0, 1}), Var(P))}
Modal(P) == {Exists(ExistAct(Var(P))), ExistAct(Var(P)), Exists(Var(P)),
             ExistsRel(Constraint({0, 1}), Var(P)), ExistsRel(Var(P), Constraint({2, 3})),
             ForallRel(Constraint({2}), Var(P)), OrSimple(Atomic({b}), Var(P)),
             Forall(AllAct(Var(P))), AllAct(Var(P)), Forall(Var(P)),
             Imply({a}, {0, 1}, Var(P))}
MainBodies == {And(Atomic({a}), f) : f \in Split(Y)} \cup {Or(Constraint({2, 3}), f) : f \in Split(Y)}
         \cup {Or(Var(Y), f) : f \in Split(X)}
SubBodies(P) == {And(Constraint({0, 1}), f) : f \in Modal(P)}
           \cup {Or(f, Atomic({b})) : f \in Modal(P)}
Waits == {Or(AbleWaitInf, UnableWaitInf)}

\* Equal parities, or a second equation that does not depend on the first:
\* free of alternation.
SameParity == {[P \in {X, Y} |-> TRUE], [P \in {X, Y} |-> FALSE]}
RecursiveInputs ==
    Inputs(Equations(MainBodies, SubBodies(X) \cup SubBodies(Y) \cup Waits),
           SameParity, {a}, {{0}}, BOOLEAN)
      \cup Inputs(Equations(MainBodies, SubBodies(Y)),
                  [{X, Y} -> BOOLEAN] \ SameParity, {a}, {{0}}, {FALSE})


\* A recursion that meets itself with a placeholder it then narrows, and one
\* that meets itself with the placeholder it was asked for.
Narrowing == {And(f, Exists(And(g, Var(Y)))) : f, g \in Basic}
NarrowedInputs ==
    Inputs(Equations({Exists(Var(Y))}, Narrowing), SameParity, {a}, {{0}}, {FALSE})
Spreading == {Or(f, Exists(Var(X))) : f \in Basic}
SpreadInputs ==
    Inputs(Equations(Spreading, {Atomic({a})}), SameParity, {a}, {{0}, {0, 1}, MCPoint}, {FALSE})

AllInputs == FlatInputs \cup RecursiveInputs \cup NarrowedInputs
                \cup {s \in SpreadInputs : s.zone # MCPoint}
MCFormula == {Var(X), Var(Y)}
                \cup Closures(Flat \cup MainBodies \cup SubBodies(X) \cup SubBodies(Y) \cup Waits
                               \cup {Exists(Var(Y))} \cup Narrowing \cup Spreading)


-----------------------------------------------------------------------------
\* The condition Tame is met by the inputs on which FullCorrect relies on a
\* verdict, with the formulas that the two searches reach.
Searched(s) == {s.start} \cup BodiesOf(Predicate, s)
Placed(s) == HandedBy(s) \cup BodiesOf(CalledBy(s), s)
Trusted == {s \in AllInputs : Reliable(s, PlaceOps(s), CalledBy(s))}
ASSUME TrustedIsTame ==
    \A s \in Trusted :
        LET greatest == {P \in CalledBy(s) : s.gfp[P]}
        IN  /\ Searched(s) \cup Placed(s) \subseteq Formula
            /\ greatest = {} => Splits(s, Searched(s), Placed(s))
            /\ \A P \in greatest : Avoids(s, P, BodiesOf(Semantics!DependsOn(s, P), s)
                                                  \cup Closure(s.rhs[P]))

=============================================================================
