-------------------------------- MODULE Truth --------------------------------
(***************************************************************************)
(* What a predicate equation system means, without recursion: the          *)
(* reference for the proofs, as Solution is for TLC.  A judgement says of  *)
(* one formula that it holds in one state.  Least fixpoints are what can   *)
(* be derived, greatest fixpoints what may be assumed because deriving it  *)
(* needs nothing else; of nested fixpoints the greatest is the outermost,  *)
(* which is the meaning of a system that is free of alternation.           *)
(***************************************************************************)
CONSTANTS Point, Loc, Predicate, Formula, Transitions, Inv, Later, Strictly, Beyond

Judgement == Formula \X Loc \X Point
Claim == Predicate \X Loc \X Point

\* Where V judges that f holds.
At(V, f, l) == {p \in Point : <<f, l, p>> \in V}

Takes(t, l, p) == /\ l \in t.guard.locs
                  /\ p \in t.guard.zone
                  /\ t.reset[p] \in Inv[t.dest[l]]

\* second now, or after a delay up to which first holds.
Until(first, second, l, p) ==
    \/ p \in Inv[l] \cap second
    \/ \E q \in Strictly[p] \cap Inv[l] \cap second :
          \A r \in Later[p] : q \in Strictly[r] => r \in first

\* One step of a derivation for the system s: f holds at p by the claims G
\* and the judgements V.
Follows(s, G, V, f, l, p) ==
    \/ f.op = "PREDICATE" /\ s.gfp[f.pred] /\ <<f.pred, l, p>> \in G
    \/ f.op = "PREDICATE" /\ ~s.gfp[f.pred] /\ p \in At(V, s.rhs[f.pred], l)
    \/ f.op = "AND" /\ p \in At(V, f.left, l) \cap At(V, f.right, l)
    \/ f.op \in {"OR", "OR_SIMPLE"} /\ p \in At(V, f.left, l) \cup At(V, f.right, l)
    \/ f.op = "FORALL" /\ Later[p] \cap Inv[l] \subseteq At(V, f.quant, l)
    \/ f.op = "EXISTS" /\ Later[p] \cap Inv[l] \cap At(V, f.quant, l) # {}
    \/ f.op = "EXISTS_REL" /\ Until(At(V, f.left, l), At(V, f.right, l), l, p)
    \/ f.op = "FORALL_REL" /\ Later[p] \cap Inv[l] \subseteq At(V, f.right, l)
    \/ f.op = "FORALL_REL" /\ Until(At(V, f.right, l),
                                    At(V, f.left, l) \cap At(V, f.right, l), l, p)
    \/ /\ f.op = "ALLACT"
       /\ \A k \in DOMAIN Transitions :
             Takes(Transitions[k], l, p) =>
                 Transitions[k].reset[p] \in At(V, f.quant, Transitions[k].dest[l])
    \/ /\ f.op = "EXISTACT"
       /\ \E k \in DOMAIN Transitions :
             /\ Takes(Transitions[k], l, p)
             /\ Transitions[k].reset[p] \in At(V, f.quant, Transitions[k].dest[l])
    \/ f.op = "IMPLY" /\ (l \in f.left.locs /\ p \in f.left.zone => p \in At(V, f.right, l))
    \/ f.op = "SUBLIST" /\ p \in At(V, f.expr, f.map[l])
    \/ f.op = "RESET" /\ f.map[p] \in At(V, f.expr, l)
    \/ f.op = "ATOMIC" /\ l \in f.locs
    \/ f.op = "CONSTRAINT" /\ p \in f.zone
    \/ f.op = "ABLEWAITINF" /\ Later[p] \cap Inv[l] \cap Beyond # {}
    \/ f.op = "UNABLEWAITINF" /\ Later[p] \cap Inv[l] \cap Beyond = {}

\* What can be derived from the claims G: every set closed under Follows has it.
Closed(s, G) ==
    {V \in SUBSET Judgement :
        \A f \in Formula, l \in Loc, p \in Point :
            Follows(s, G, V, f, l, p) => <<f, l, p>> \in V}
Derivable(s, G) ==
    LET closed == Closed(s, G) IN {j \in Judgement : \A V \in closed : j \in V}

\* Claims whose right-hand sides can be derived from themselves and from H.
Supported(s, H, E) ==
    LET derivable == Derivable(s, E \cup H)
    IN  \A e \in E : <<s.rhs[e[1]], e[2], e[3]>> \in derivable
Supportable(s, H) == UNION {E \in SUBSET Claim : Supported(s, H, E)}

\* What holds if the claims H do; and what holds.
Provable(s, H) == Derivable(s, Supportable(s, H) \cup H)
Truths(s) == Provable(s, {})

=============================================================================
