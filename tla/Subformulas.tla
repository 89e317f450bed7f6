----------------------------- MODULE Subformulas -----------------------------
(***************************************************************************)
(* What a formula is made of, and where its equations lead, as sets that   *)
(* are closed rather than as a recursion.                                  *)
(***************************************************************************)

Operands(f) ==
    CASE f.op \in {"AND", "OR", "OR_SIMPLE", "EXISTS_REL", "FORALL_REL"} -> {f.left, f.right}
      [] f.op \in {"FORALL", "EXISTS", "ALLACT", "EXISTACT"} -> {f.quant}
      [] f.op = "IMPLY" -> {f.right}
      [] f.op \in {"SUBLIST", "RESET"} -> {f.expr}
      [] OTHER -> {}

\* fs has the operands and the right-hand sides of what it has.
Hereditary(s, fs) ==
    \A f \in fs : IF f.op = "PREDICATE" THEN s.rhs[f.pred] \in fs ELSE Operands(f) \subseteq fs

\* fs has all that the right-hand side of X leads to.
LeadsInto(s, X, fs) == Hereditary(s, fs) /\ s.rhs[X] \in fs

Occurs(X, fs) == \E f \in fs : f.op = "PREDICATE" /\ f.pred = X

=============================================================================
