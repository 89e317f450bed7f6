------------------------------- MODULE MCTimed -------------------------------
(***************************************************************************)
(* Two equations over an automaton with one clock and two locations: every *)
(* rule of the prover is exercised.                                        *)
(***************************************************************************)
EXTENDS MCDecided

CONSTANTS X, Y, a, b

MCPoint == 0..2          \* the constant 1, and 2 for everything above it
MCInv == [l \in {a, b} |-> IF l = a THEN MCPoint ELSE {0, 1}]
MCLater == [p \in MCPoint |-> p..2]
MCBeyond == {2}
MCBound == [z \in SUBSET MCPoint |-> z]
MCBlock == 1..2

To(l) == [m \in {a, b} |-> l]
Keep == [p \in MCPoint |-> p]
Zero == [p \in MCPoint |-> 0]

MCTransitions == <<Edge({a}, {1, 2}, To(b), Zero, MCInv),
                   Edge({b}, MCPoint, To(a), Keep, MCInv),
                   Edge({a}, {0}, To(a), Keep, MCInv)>>

Basic == {Atomic({a}), Constraint({0, 1}), UnableWaitInf}
Modal(P) == {Forall(AllAct(Var(P))), AllAct(Var(P)), Forall(Var(P)), Reset(Zero, Var(P)),
             Sublist(To(b), Var(P)), Imply({a}, {0, 1}, Var(P))}
MainBodies == {And(f, g) : f \in Basic \cup {AbleWaitInf}, g \in Modal(X) \cup Modal(Y)}
         \cup {OrSimple(f, g) : f \in Basic \cup {AbleWaitInf}, g \in Modal(X) \cup Modal(Y)}
         \cup {And(Var(Y), g) : g \in Modal(X)}
         \cup {OrSimple(Var(Y), g) : g \in Modal(X)}
SubBodies == {op : op \in Basic}
        \cup {And(f, g) : f \in Basic, g \in {Forall(AllAct(Var(X))), AllAct(Var(Y)), Var(X)}}
        \cup {OrSimple(f, g) : f \in Basic, g \in {Forall(AllAct(Var(X))), AllAct(Var(Y)), Var(X)}}

MCFormula == {Var(X), Var(Y)} \cup UNION {Closure(f) : f \in MainBodies \cup SubBodies}
MCSystems ==
    {s \in [rhs : {[P \in {X, Y} |-> IF P = X THEN f ELSE g] : f \in MainBodies, g \in SubBodies},
            gfp : [{X, Y} -> BOOLEAN],
            block : {[P \in {X, Y} |-> IF P = X THEN 1 ELSE 2]},
            start : {Var(X)}, loc : {a}, zone : {{0}}, useCaching : BOOLEAN] : Reference!AlternationFree(s)}

=============================================================================
