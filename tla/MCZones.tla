------------------------------ MODULE MCZones ------------------------------
(***************************************************************************)
(* Instances of DBM for TLC.  The operands are single constraints, which   *)
(* is what the parser builds guards, invariants and formulas from, and the *)
(* matrix of an empty list of zones.                                       *)
(***************************************************************************)
EXTENDS Zones

Atoms(clocks, bounds, strictness) ==
    {Single(x, 0, 2 * b + s) : x \in clocks, b \in bounds, s \in strictness}
      \cup {Single(0, x, -2 * b + s) : x \in clocks, b \in bounds, s \in strictness}

FewAtoms == Atoms({1}, {1}, {weak, strict}) \cup Atoms({2}, {1}, {weak})
AllAtoms == Atoms(Clocks, {0, 1}, {weak, strict}) \cup {makeEmpty}

=============================================================================
