----------------------------- MODULE MCDiscrete -----------------------------
(***************************************************************************)
(* Three equations over two discrete states and one clock valuation: the   *)
(* rules leave nothing undecided, so that a verdict is exactly right or    *)
(* wrong.                                                                  *)
(***************************************************************************)
EXTENDS MCDecided, MCTruth

CONSTANTS X, Y, Z, a, b

MCInv == [l \in {a, b} |-> {0}]
MCLater == [p \in {0} |-> {0}]
MCBound == [z \in SUBSET {0} |-> z]

Swap == [l \in {a, b} |-> IF l = a THEN b ELSE a]
ToB == [l \in {a, b} |-> b]
Keep == [p \in {0} |-> p]
MCTransitions == <<Edge({a}, {0}, ToB, Keep, MCInv), Edge({a, b}, {0}, Swap, Keep, MCInv)>>

Vars == {Var(P) : P \in {X, Y, Z}}
Leaves == {Atomic({a}), Atomic({b})}
MainBodies == UNION {{And(f, g), OrSimple(f, g)} : f, g \in Vars}
SubBodies == UNION {{And(f, g), OrSimple(f, g)} : f \in Vars, g \in Leaves}
                \cup {AllAct(f) : f \in Vars}

MCFormula == UNION {Closure(f) : f \in MainBodies \cup SubBodies}

\* Y and Z are symmetric up to their equations, so only X varies as the start.
MCSystemsOf(parities, main, sub, caching) ==
    [rhs : {[P \in {X, Y, Z} |-> CASE P = X -> f [] P = Y -> g [] P = Z -> h] :
              f \in main, g, h \in sub},
     gfp : parities,
     block : {[P \in {X, Y, Z} |-> CASE P = X -> 1 [] P = Y -> 2 [] P = Z -> 3]},
     start : {Var(X)}, loc : {a}, zone : {{0}}, useCaching : {caching}]

Uncached ==
    {s \in MCSystemsOf([{X, Y, Z} -> BOOLEAN], MainBodies, SubBodies, FALSE) :
        Reference!AlternationFree(s)}

\* With caching, disjunctions of equations: greatest fixpoints only.
Cached == MCSystemsOf({[P \in {X, Y, Z} |-> TRUE]}, {OrSimple(f, g) : f, g \in Vars},
                      SubBodies, TRUE)

\* Bodies with one kind of connective only.  The first failure refutes, or the
\* first success proves, the whole formula.
Ops(f) == {g.op : g \in Closure(f)}
AllConjunctive == {f \in MainBodies \cup SubBodies : "OR_SIMPLE" \notin Ops(f)}
AllDisjunctive == {f \in MainBodies \cup SubBodies : {"AND", "ALLACT"} \cap Ops(f) = {}}
OneKind == {s \in UNION {MCSystemsOf([{X, Y, Z} -> BOOLEAN],
                                     MainBodies \cap kind, SubBodies \cap kind, TRUE) :
                            kind \in {AllConjunctive, AllDisjunctive}} :
                Reference!AlternationFree(s)}

Sure == Uncached \cup OneKind

\* No zone can be split or empty here, so that nothing is left undecided.
ASSUME AllAreDecided == \A s \in Sure : IsDecided(s)
ASSUME OneKindIsOneSided == \A s \in OneKind : IsOneSided(s)

=============================================================================
