----------------------------- MODULE Valuations ----------------------------
(***************************************************************************)
(* What a difference bound matrix stands for, and the textbook operations  *)
(* its algorithms implement: sets of clock valuations.  Nothing here uses  *)
(* those algorithms, only the matrices.                                    *)
(*                                                                         *)
(* Clock values are multiples of 1/Scale, kept as integers.  For two       *)
(* clocks the multiples of 1/3 meet every zone whose bounds are integers,  *)
(* and a valuation in 1/3 that has a witness has one in 1/6: the           *)
(* properties quantify over Coarse and look for witnesses in Fine.         *)
(***************************************************************************)
EXTENDS Matrices, TLC

CONSTANTS Inner,   \* valuations considered: clock values up to Inner
          Outer    \* witnesses: clock values up to Outer

Scale == 6

Valuations(values) == {v \in [Index -> values] : v[0] = 0}
Coarse == Valuations({2 * n : n \in 0 .. 3 * Inner})
Fine == Valuations(0 .. Scale * Outer)

Satisfies(d, c) ==
    \/ ~IsFinite(c)
    \/ d < Scale * constraint_to_bound(c)
    \/ d = Scale * constraint_to_bound(c) /\ constraint_to_strictness(c) = weak

In(v, m) == \A p, q \in Index : Satisfies(v[p] - v[q], m[p][q])

HasPoint(m) == \E v \in Fine : In(v, m)

Minimum(S) == CHOOSE n \in S : \A o \in S : n <= o

Delayed(v, d) == [p \in Index |-> IF p = 0 THEN 0 ELSE v[p] + d]
WithClocks(v, xs, n) == [p \in Index |-> IF p \in xs THEN n ELSE v[p]]
Overwritten(v, f) == [p \in Index |-> IF p \in DOMAIN f THEN f[p] ELSE v[p]]

----------------------------------------------------------------------------
(* The operations, valuation by valuation *)

Future(v, m) == \E d \in 0 .. Minimum({v[p] : p \in Clocks}) : In(Delayed(v, -d), m)

Past(v, m) == \E d \in 0 .. Scale * (Outer - Inner) : In(Delayed(v, d), m)

\* v is the result of setting the clocks of xs to 0 in a valuation of m.
ResetImage(v, m, xs) ==
    /\ \A x \in xs : v[x] = 0
    /\ \E f \in [xs -> 0 .. Scale * Outer] : In(Overwritten(v, f), m)

AssignImage(v, m, x, y) ==
    /\ v[x] = v[y]
    /\ \E n \in 0 .. Scale * Outer : In(WithClocks(v, {x}, n), m)

\* Valuations the maximal constant cannot tell apart.
Above(n) == n > Scale * MaxC
SameRegion(u, v) ==
    /\ \A p \in Clocks :
         \/ Above(u[p]) /\ Above(v[p])
         \/ /\ ~Above(u[p]) /\ ~Above(v[p])
            /\ u[p] \div Scale = v[p] \div Scale
            /\ (u[p] % Scale = 0) = (v[p] % Scale = 0)
    /\ \A p, q \in Clocks :
         ~Above(u[p]) /\ ~Above(u[q])
           => (u[p] % Scale <= u[q] % Scale) = (v[p] % Scale <= v[q] % Scale)

=============================================================================
