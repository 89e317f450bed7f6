------------------------------- MODULE Decided -------------------------------
(***************************************************************************)
(* The inputs of Prover on which a verdict "invalid" refutes the formula.  *)
(* A rule that cannot prove its sequent answers "invalid", also when only  *)
(* the rule was too weak: a zone may have to be split, or it is empty.     *)
(* Then those on which the verdict tables may be trusted.                  *)
(***************************************************************************)
EXTENDS Prover, Subformulas

\* The search starts from some valuation that the invariant allows, and no
\* formula changes the state to one that it forbids: no zone is ever empty.
Inhabited(s, searched) ==
    /\ s.zone # {} /\ s.zone \subseteq Inv[s.loc]
    /\ \A f \in searched, l \in Loc :
          /\ f.op = "SUBLIST" => Inv[l] \subseteq Inv[f.map[l]]
          /\ f.op = "RESET" => \A p \in Inv[l] : f.map[p] \in Inv[l]

\* No zone has to be split: it has one valuation, or the formulas are safety
\* properties, with no least fixpoint to reach and no disjunction of which each
\* side holds on a part of the zone.
Undivided(s, searched) ==
    \/ \A p, q \in Point : p = q
    \/ \A f \in searched :
          /\ f.op = "PREDICATE" => s.gfp[f.pred]
          /\ f.op = "OR_SIMPLE" => "ATOMIC" \in {f.left.op, f.right.op}

\* No least fixpoint goes round through a greatest one; below[X] has what X
\* leads to.
Unmixed(s, below) ==
    \A X, Y \in Predicate :
        ~s.gfp[X] /\ s.gfp[Y] /\ Occurs(Y, below[X]) => ~Occurs(X, below[Y])

\* searched are the formulas that the search meets.  Extrapolation adds nothing
\* that the program can tell apart.
DecidedBy(s, searched, below) ==
    /\ s.start \in searched
    /\ Hereditary(s, searched)
    /\ Inhabited(s, searched)
    /\ Undivided(s, searched)
    /\ \A X \in Predicate : LeadsInto(s, X, below[X])
    /\ Unmixed(s, below)
    /\ \A z \in Zone : Bound[z] = z
Decided == \E searched \in SUBSET Formula, below \in [Predicate -> SUBSET Formula] :
              DecidedBy(input_pes, searched, below)

-----------------------------------------------------------------------------
(***************************************************************************)
(* The inputs on which a verdict table holds no more than it may.          *)
(***************************************************************************)

\* The operands that a rule asks for first.
AskedFirst(f) == IF f.op \in {"AND", "OR_SIMPLE"} THEN {f.left} ELSE Operands(f)

\* The connectives ops have no equation in what they ask for first, so that none
\* of them is waiting, with another operand to try, when an equation is
\* answered.  plain are the formulas without equations.
OneSidedBy(s, ops, searched, plain) ==
    /\ s.start \in searched
    /\ Hereditary(s, searched)
    /\ \A f \in plain : f.op # "PREDICATE" /\ Operands(f) \subseteq plain
    /\ \A f \in searched : f.op \in ops => AskedFirst(f) \subseteq plain
OneSided(ops) == \E searched, plain \in SUBSET Formula :
                    OneSidedBy(input_pes, ops, searched, plain)

\* The first equation that fails refutes the whole formula; the first one that
\* succeeds proves it.
Disjunctions == {"OR_SIMPLE"}
Conjunctions == {"AND", "ALLACT"}
Conjunctive == OneSided(Disjunctions)
Disjunctive == OneSided(Conjunctions)

=============================================================================
