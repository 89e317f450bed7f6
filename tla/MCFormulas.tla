----------------------------- MODULE MCFormulas -----------------------------
(***************************************************************************)
(* Constructors of formulas and of families of equation systems.           *)
(***************************************************************************)
EXTENDS Integers, Sequences

Var(X) == [op |-> "PREDICATE", pred |-> X]
And(f, g) == [op |-> "AND", left |-> f, right |-> g]
Or(f, g) == [op |-> "OR", left |-> f, right |-> g]
OrSimple(f, g) == [op |-> "OR_SIMPLE", left |-> f, right |-> g]
Forall(f) == [op |-> "FORALL", quant |-> f]
Exists(f) == [op |-> "EXISTS", quant |-> f]
ExistsRel(f, g) == [op |-> "EXISTS_REL", left |-> f, right |-> g]
ForallRel(f, g) == [op |-> "FORALL_REL", left |-> f, right |-> g]
AllAct(f) == [op |-> "ALLACT", quant |-> f]
ExistAct(f) == [op |-> "EXISTACT", quant |-> f]
Imply(locs, zone, f) ==
    [op |-> "IMPLY", left |-> [locs |-> locs, zone |-> zone], right |-> f]
Sublist(map, f) == [op |-> "SUBLIST", map |-> map, expr |-> f]
Reset(map, f) == [op |-> "RESET", map |-> map, expr |-> f]
Atomic(locs) == [op |-> "ATOMIC", locs |-> locs]
Constraint(zone) == [op |-> "CONSTRAINT", zone |-> zone]
AbleWaitInf == [op |-> "ABLEWAITINF"]
UnableWaitInf == [op |-> "UNABLEWAITINF"]

\* A transition whose presets are the inverse images of the invariants inv.
Edge(locs, zone, dest, reset, inv) ==
    [guard |-> [locs |-> locs, zone |-> zone], dest |-> dest, reset |-> reset,
     entering |-> [l \in DOMAIN dest |->
                      {p \in DOMAIN reset : reset[p] \in inv[dest[l]]}]]

\* A formula with all its subformulas.
RECURSIVE Closure(_)
Closure(f) ==
    {f} \cup
    CASE f.op \in {"AND", "OR", "OR_SIMPLE", "EXISTS_REL", "FORALL_REL"} ->
            Closure(f.left) \cup Closure(f.right)
      [] f.op = "IMPLY" -> Closure(f.right)
      [] f.op \in {"FORALL", "EXISTS", "ALLACT", "EXISTACT"} -> Closure(f.quant)
      [] f.op \in {"SUBLIST", "RESET"} -> Closure(f.expr)
      [] OTHER -> {}

=============================================================================
