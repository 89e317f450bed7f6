---------------------------- MODULE Constraints ----------------------------
(***************************************************************************)
(* The encoding of clock constraints (constraints.hh).  A raw constraint   *)
(* is an upper bound and a strictness in one short: the lowest bit is 1    *)
(* for <= and 0 for <, the other bits are the bound.  Comparing two raw    *)
(* constraints as integers compares their tightness.                       *)
(*                                                                         *)
(* Limit is 2^(w-1) for a short of w bits: 32768 in the program, smaller   *)
(* in the runs that look at overflow.                                      *)
(***************************************************************************)
EXTENDS Integers

CONSTANT Limit

ASSUME LimitAssumption == Limit \in Nat /\ Limit >= 8 /\ Limit % 4 = 0

Raw == (-Limit) .. (Limit - 1)

infinity_bound == (Limit \div 2) - 1
infinity == 2 * infinity_bound
zero_less == 0
zero_le == 1

strict == 0
weak == 1

\* Conversion of an int to raw_constraint_t: the value modulo 2 * Limit.
Wrap(x) == ((x + Limit) % (2 * Limit)) - Limit

constraint_to_bound(x) == x \div 2
constraint_to_strictness(x) == x % 2
bound_to_constraint(b, s) == Wrap(2 * b + s)

IsFinite(x) == x # infinity

\* Mutant: the strictnesses are joined with | instead of &.
Sum2_WeakIfAny(x, y) ==
    2 * (constraint_to_bound(x) + constraint_to_bound(y))
      + (IF constraint_to_strictness(x) + constraint_to_strictness(y) > 0 THEN weak ELSE strict)

\* The sum of two finite constraints, before it is stored in a short.
Sum2(x, y) ==
    2 * (constraint_to_bound(x) + constraint_to_bound(y))
      + constraint_to_strictness(x) * constraint_to_strictness(y)

\* Mutant: infinity is added like any other value.
add_constraints_Finite(x, y) == Wrap(Sum2(x, y))

add_constraints(x, y) ==
    IF IsFinite(x) /\ IsFinite(y) THEN Wrap(Sum2(x, y)) ELSE infinity

make_constraint_weak(x) == IF constraint_to_strictness(x) = strict THEN x + 1 ELSE x
make_constraint_strict(x) == IF constraint_to_strictness(x) = weak THEN x - 1 ELSE x

\* Mutant: the strictness is kept.
negate_constraint_SameStrictness(x) ==
    bound_to_constraint(-constraint_to_bound(x), constraint_to_strictness(x))

negate_constraint(x) ==
    bound_to_constraint(-constraint_to_bound(x), weak - constraint_to_strictness(x))

Tighter(x, y) == IF y < x THEN y ELSE x

=============================================================================
