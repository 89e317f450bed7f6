------------------------------ MODULE Solution ------------------------------
(***************************************************************************)
(* What a predicate equation system means: the reference against which the *)
(* verdicts of Prover are checked.  Written from the semantics of the       *)
(* operators, one valuation at a time and with no zones, no tables and no   *)
(* proof rules.  TLC only (RECURSIVE).                                     *)
(***************************************************************************)
EXTENDS Integers, Sequences

CONSTANTS Point, Loc, Predicate, Transitions, Inv, Later, Strictly, Beyond

State == Loc \X Point

\* The transitions that can be taken.
Enabled(l, p) ==
    {t \in {Transitions[k] : k \in DOMAIN Transitions} :
        l \in t.guard.locs /\ p \in t.guard.zone /\ t.reset[p] \in Inv[t.dest[l]]}

\* env interprets the predicates; f holds in discrete state l at valuation p.
\* Until: g now, or after a delay during which f holds.
RECURSIVE Holds(_, _, _, _), Until(_, _, _, _, _)
Until(env, f, g, l, p) ==
    \/ p \in Inv[l] /\ Holds(env, g, l, p)
    \/ \E q \in Strictly[p] \cap Inv[l] :
          /\ Holds(env, g, l, q)
          /\ \A r \in Later[p] : q \in Strictly[r] => Holds(env, f, l, r)
Holds(env, f, l, p) ==
    CASE f.op = "PREDICATE" -> <<l, p>> \in env[f.pred]
      [] f.op = "AND" -> Holds(env, f.left, l, p) /\ Holds(env, f.right, l, p)
      [] f.op \in {"OR", "OR_SIMPLE"} ->
            Holds(env, f.left, l, p) \/ Holds(env, f.right, l, p)
      [] f.op = "FORALL" -> \A q \in Later[p] \cap Inv[l] : Holds(env, f.quant, l, q)
      [] f.op = "EXISTS" -> \E q \in Later[p] \cap Inv[l] : Holds(env, f.quant, l, q)
      [] f.op = "EXISTS_REL" -> Until(env, f.left, f.right, l, p)
      [] f.op = "FORALL_REL" ->
            \/ \A q \in Later[p] \cap Inv[l] : Holds(env, f.right, l, q)
            \/ Until(env, f.right, [op |-> "AND", left |-> f.left, right |-> f.right], l, p)
      [] f.op = "ALLACT" ->
            \A t \in Enabled(l, p) : Holds(env, f.quant, t.dest[l], t.reset[p])
      [] f.op = "EXISTACT" ->
            \E t \in Enabled(l, p) : Holds(env, f.quant, t.dest[l], t.reset[p])
      [] f.op = "IMPLY" -> (l \in f.left.locs /\ p \in f.left.zone)
                              => Holds(env, f.right, l, p)
      [] f.op = "SUBLIST" -> Holds(env, f.expr, f.map[l], p)
      [] f.op = "RESET" -> Holds(env, f.expr, l, f.map[p])
      [] f.op = "ATOMIC" -> l \in f.locs
      [] f.op = "CONSTRAINT" -> p \in f.zone
      [] f.op = "ABLEWAITINF" -> Later[p] \cap Inv[l] \cap Beyond # {}
      [] f.op = "UNABLEWAITINF" -> Later[p] \cap Inv[l] \cap Beyond = {}

Rhs(s, env, X) == {st \in State : Holds(env, s.rhs[X], st[1], st[2])}

\* Nested iteration over the predicates in preds, in an arbitrary order: the
\* order matters only to systems that are not alternation free.
RECURSIVE Solve(_, _, _), Iterate(_, _, _, _)
Solve(s, preds, env) ==
    IF preds = {} THEN env
    ELSE LET some == CHOOSE P \in preds : TRUE
         IN  Iterate(s, some, preds \ {some},
                     [env EXCEPT ![some] = IF s.gfp[some] THEN State ELSE {}])
Iterate(s, X, preds, env) ==
    LET inner == Solve(s, preds, env)
        next == Rhs(s, inner, X)
    IN  IF next = env[X] THEN inner
        ELSE Iterate(s, X, preds, [env EXCEPT ![X] = next])

Meaning(s) == Solve(s, Predicate, [X \in Predicate |-> {}])

\* The predicates a formula mentions, and alternation freedom: no cycle of
\* dependencies through predicates of both parities.
RECURSIVE Mentions(_)
Mentions(f) ==
    CASE f.op = "PREDICATE" -> {f.pred}
      [] f.op \in {"AND", "OR", "OR_SIMPLE", "EXISTS_REL", "FORALL_REL"} ->
            Mentions(f.left) \cup Mentions(f.right)
      [] f.op \in {"FORALL", "EXISTS", "ALLACT", "EXISTACT"} -> Mentions(f.quant)
      [] f.op = "IMPLY" -> Mentions(f.right)
      [] f.op \in {"SUBLIST", "RESET"} -> Mentions(f.expr)
      [] OTHER -> {}

RECURSIVE Reach(_, _)
Reach(s, seen) ==
    LET more == seen \cup UNION {Mentions(s.rhs[X]) : X \in seen}
    IN  IF more = seen THEN seen ELSE Reach(s, more)
DependsOn(s, X) == Reach(s, Mentions(s.rhs[X]))

AlternationFree(s) ==
    \A X, Y \in Predicate :
        (Y \in DependsOn(s, X) /\ X \in DependsOn(s, Y)) => s.gfp[X] = s.gfp[Y]

=============================================================================
