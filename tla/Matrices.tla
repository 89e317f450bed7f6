------------------------------ MODULE Matrices ------------------------------
(***************************************************************************)
(* Difference bound matrices (DBM.hh) and what the operations of class DBM *)
(* make of them.  Entry [p][q] bounds clock p minus clock q; clock 0 is    *)
(* the constant zero.  The loops of the code have the closed forms given   *)
(* here; cf() is in DBM.                                                   *)
(***************************************************************************)
EXTENDS Constraints

CONSTANTS N,        \* number of clocks, without the zero clock
          MaxC      \* the constant bound() is called with

ASSUME MatrixAssumption ==
    /\ N \in Nat \ {0}
    /\ MaxC \in 0 .. (Limit - 1)      \* a bound_t

Index == 0 .. N
Clocks == 1 .. N
Matrix == [Index -> [Index -> Raw]]

\* The matrix whose entries f gives.
Entries(f(_, _)) == [p \in Index |-> [q \in Index |-> f(p, q)]]

----------------------------------------------------------------------------
(* Constructors and queries *)

makeInfty == Entries(LAMBDA p, q : IF p = 0 \/ p = q THEN zero_le ELSE infinity)

makeEmpty == Entries(LAMBDA p, q : zero_less)

\* DBM(row, col, val, cs): one constraint.
Single(row, col, val) == [makeInfty EXCEPT ![row][col] = val]

\* Mutant: the loop over the diagonal stops after the zero clock.
emptiness_FirstOnly(m) == m[0][0] = zero_less \/ constraint_to_bound(m[0][0]) < 0

emptiness(m) == \E p \in Index :
                  m[p][p] = zero_less \/ constraint_to_bound(m[p][p]) < 0

Includes(m, Y) == \A p, q \in Index : m[p][q] <= Y[p][q]      \* operator<=

----------------------------------------------------------------------------
(* What the operations make of the matrix *)

intersect(m, Y) == Entries(LAMBDA p, q : Tighter(m[p][q], Y[p][q]))

suc(m) == Entries(LAMBDA p, q : IF p \in Clocks /\ q = 0 THEN infinity ELSE m[p][q])

pre(m) == Entries(LAMBDA p, q : IF p = 0 THEN zero_le ELSE m[p][q])

\* Every clock p takes over the constraints of clock source[p].
Substituted(m, source) ==
    Entries(LAMBDA p, q : IF p = q THEN m[p][q] ELSE m[source[p]][source[q]])

reset(m, rs) == Substituted(m, [p \in Index |-> IF p \in rs THEN 0 ELSE p])

\* Mutant: the arguments are swapped.
assign_Swapped(m, x, y) == Substituted(m, [p \in Index |-> IF p = y THEN x ELSE p])

assign(m, x, y) == Substituted(m, [p \in Index |-> IF p = x THEN y ELSE p])

Negative(c) == constraint_to_bound(c) < 0

\* preset(clock_set): the tests come before and between the updates, but a
\* failing test overwrites the whole matrix.
PresetIsEmpty(m, prs) ==
    \/ \E p, q \in prs : p # q /\ (Negative(m[p][q]) \/ m[p][q] = zero_less)
    \/ \E p \in prs : Negative(m[0][p]) \/ Negative(m[p][0])

Tightest(S) == CHOOSE c \in S : \A d \in S : c <= d

\* Mutant: differences with a reset clock are dropped, not moved to the other clock.
PresetEntry_Dropped(m, prs, p, q) ==
    IF p = q THEN m[p][q]
    ELSE IF p \in prs THEN infinity
    ELSE IF q \in prs THEN (IF p = 0 THEN zero_le ELSE infinity)
    ELSE m[p][q]

\* Clocks of prs become unconstrained; what bounded them against another
\* clock now bounds that clock alone.
PresetEntry(m, prs, p, q) ==
    IF p = q THEN m[p][q]
    ELSE IF p \in prs THEN infinity
    ELSE IF q \in prs THEN (IF p = 0 THEN zero_le ELSE infinity)
    ELSE IF p = 0 THEN Tightest({m[c][q] : c \in prs \cup {0}})
    ELSE IF q = 0 THEN Tightest({m[p][c] : c \in prs \cup {0}})
    ELSE m[p][q]

preset(m, prs) ==
    IF PresetIsEmpty(m, prs) THEN makeEmpty
    ELSE Entries(LAMBDA p, q : PresetEntry(m, prs, p, q))

\* Clock x becomes unconstrained; the others keep their constraints.
Free(m, x) ==
    Entries(LAMBDA p, q :
      IF p = q THEN m[p][q]
      ELSE IF p = x THEN infinity
      ELSE IF q = x THEN (IF p = 0 THEN zero_le ELSE m[p][0])
      ELSE m[p][q])

preset_clock(m, x) ==
    IF \/ Negative(m[0][x]) \/ m[0][x] = zero_less
       \/ constraint_to_bound(m[x][0]) # 0
    THEN makeEmpty
    ELSE Free(m, x)

preset_assign(m, x, y) ==
    IF \E p \in Index \ {x, y} : m[p][x] < m[p][y] \/ m[x][p] < m[y][p]
    THEN makeEmpty
    ELSE Free(m, x)

\* bound(): first the clocks above the constant, then the differences.
High(m, p) == /\ constraint_to_bound(m[p][0]) # infinity_bound
              /\ constraint_to_bound(m[p][0]) > MaxC
Low(m, p) == -constraint_to_bound(m[0][p]) > MaxC

Upper(m, p) == IF p # 0 /\ High(m, p) THEN infinity ELSE m[p][0]

\* Mutant: a lower bound above the constant is replaced by a weak one.
BoundClocks_Weak(m) ==
    Entries(LAMBDA p, q :
      IF p # q /\ q # 0 /\ Low(m, q)
        THEN IF Upper(m, p) = infinity THEN infinity
             ELSE bound_to_constraint(constraint_to_bound(Upper(m, p)) - MaxC, weak)
      ELSE IF p # q /\ p # 0 /\ High(m, p) THEN infinity
      ELSE m[p][q])

BoundClocks(m) ==
    Entries(LAMBDA p, q :
      IF p = q THEN m[p][q]
      ELSE IF q # 0 /\ Low(m, q)
        THEN IF Upper(m, p) = infinity THEN infinity
             ELSE bound_to_constraint(constraint_to_bound(Upper(m, p)) - MaxC, strict)
      ELSE IF p # 0 /\ High(m, p) THEN infinity
      ELSE m[p][q])

BoundDifference(c) ==
    IF constraint_to_bound(c) = infinity_bound THEN c
    ELSE IF constraint_to_bound(c) > MaxC THEN bound_to_constraint(MaxC, strict)
    ELSE IF -constraint_to_bound(c) > MaxC THEN bound_to_constraint(-MaxC, strict)
    ELSE c

bound(m) ==
    Entries(LAMBDA p, q :
      IF p = q \/ 0 \in {p, q} THEN BoundClocks(m)[p][q]
      ELSE BoundDifference(BoundClocks(m)[p][q]))

WithStrictness(m, rows, f(_)) ==
    Entries(LAMBDA p, q :
      IF p \in rows /\ p # q /\ IsFinite(m[p][q]) THEN f(m[p][q]) ELSE m[p][q])

\* Mutant: the outer loop starts at 1, as it does in predClosureRev.
closure_ClocksOnly(m) == WithStrictness(m, Clocks, make_constraint_weak)

closure(m) == WithStrictness(m, Index, make_constraint_weak)
closureRev(m) == WithStrictness(m, Index, make_constraint_strict)
predClosureRev(m) == WithStrictness(m, Clocks, make_constraint_strict)

----------------------------------------------------------------------------
(* Canonical form *)

\* The exact sum, which no short can overflow.
Plus(x, y) == IF IsFinite(x) /\ IsFinite(y) THEN Sum2(x, y) ELSE infinity

\* No path through an index below n is tighter than the direct entry.
ClosedBelow(m, n) ==
    \A p \in Index : p < n =>
      \A a, b \in Index : m[a][b] <= Plus(m[a][p], m[p][b])

Canonical(m) == ClosedBelow(m, N + 1)

=============================================================================
