---------------------------- MODULE FullCorrect ----------------------------
(***************************************************************************)
(* The verdict of FullProver against the meaning of its input.  TLC only:  *)
(* Solution is recursive.                                                  *)
(***************************************************************************)
EXTENDS Soundness, MCFormulas

Semantics == INSTANCE Solution

TrueAt(s, X, l) == {p \in Point : <<l, p>> \in Semantics!Meaning(s)[X]}
Truth(s) == s.zone \subseteq TrueAt(s, s.start.pred, s.loc)

-----------------------------------------------------------------------------
(***************************************************************************)
(* The formulas proved with a placeholder: the operands of the splitting   *)
(* rules, and all equations reached from them.                             *)
(***************************************************************************)

Handed(f) ==
    CASE f.op \in {"OR", "EXISTS_REL", "FORALL_REL"} -> {f.left, f.right}
      [] f.op \in {"EXISTS", "EXISTACT"} -> {f.quant}
      [] OTHER -> {}

Closures(fs) == UNION {Closure(f) : f \in fs}
BodiesOf(preds, s) == Closures({s.rhs[P] : P \in preds})
HandedBy(s) == Closures(UNION {Handed(f) : f \in BodiesOf(Predicate, s)})
CalledBy(s) == Semantics!Reach(s, UNION {Semantics!Mentions(f) : f \in HandedBy(s)})

Ops(fs) == {f.op : f \in fs}
PlaceOps(s) == Ops(HandedBy(s) \cup BodiesOf(CalledBy(s), s))
AllOps(s) == Ops(BodiesOf(Predicate, s))

\* A fixpoint of the parity is met again below itself.
Loops(s, preds, gfp) ==
    \E P \in preds : s.gfp[P] = gfp /\ P \in Semantics!DependsOn(s, P)

\* Where an answer can be relied on, given the operators and the predicates
\* proved with a placeholder.  With caching a verdict may outlive the assumption
\* it rests on; the relativised quantifiers overwrite a narrowed placeholder; a
\* circularity is answered with the placeholder of the first call, or with
\* none, and not proved again for what is left of it; the other side
\* conditions give up part of one.
Reliable(s, ops, preds) ==
    /\ ~s.useCaching
    /\ ops \cap {"EXISTS_REL", "FORALL_REL"} = {}
    /\ ~Loops(s, preds, TRUE)
Decisive(s, ops, preds) ==
    /\ ~s.useCaching
    /\ "EXISTS_REL" \notin AllOps(s)
    /\ ops \cap {"FORALL_REL", "FORALL", "ALLACT", "IMPLY"} = {}
    /\ ~Loops(s, preds, FALSE)

MayAccept(s) == Reliable(s, PlaceOps(s), CalledBy(s)) => Truth(s)
MayReject(s) == Decisive(s, PlaceOps(s), CalledBy(s)) => ~Truth(s)

=============================================================================
