----------------------------- MODULE DBMProofs -----------------------------
(***************************************************************************)
(* The matrix stays well typed, and the canonical-form flag is never set   *)
(* on a matrix that is not canonical, for every number of clocks, width of *)
(* a short, constant and operand.  The second is the correctness of        *)
(* Floyd-Warshall in place; it needs that no sum overflows.                *)
(***************************************************************************)
EXTENDS DBM, WellFoundedInduction, TLAPS

----------------------------------------------------------------------------
(* Constraints *)

\* The facts about the constants, with the halves of Limit spelled out.
LEMMA Width ==
    /\ Limit \in Nat /\ Limit >= 8
    /\ infinity = Limit - 2 /\ infinity \in Raw
    /\ zero_less = 0 /\ zero_le = 1 /\ zero_less \in Raw /\ zero_le \in Raw
    /\ Raw \subseteq Int
BY LimitAssumption, SMT
   DEF infinity, infinity_bound, Raw, zero_less, zero_le

\* Storing an int in a short gives a short.
LEMMA WrapInRaw == ASSUME NEW x \in Int PROVE Wrap(x) \in Raw
BY LimitAssumption, SMT DEF Wrap, Raw

\* A value that fits is stored unchanged.
LEMMA WrapIdentity == ASSUME NEW x \in Raw PROVE Wrap(x) = x
BY LimitAssumption, SMT DEF Wrap, Raw

\* Below the range a short wraps around once.
LEMMA WrapBelow ==
    ASSUME NEW x \in Int, x < -Limit, x >= -3 * Limit
    PROVE  Wrap(x) = x + 2 * Limit
BY LimitAssumption, SMT DEF Wrap

\* Exact sums: typed, symmetric, monotone, associative, and not decreased
\* by adding a constraint that is at least <= 0.
LEMMA Sum2Int == ASSUME NEW x \in Int, NEW y \in Int PROVE Sum2(x, y) \in Int
BY SMT DEF Sum2, constraint_to_bound, constraint_to_strictness

LEMMA StrictnessProduct ==
    ASSUME NEW x \in Int, NEW y \in Int
    PROVE  (x % 2) * (y % 2) = IF x % 2 = 1 /\ y % 2 = 1 THEN 1 ELSE 0
<1>1. x % 2 \in {0, 1} /\ y % 2 \in {0, 1}
  BY SMT
<1>2. CASE x % 2 = 0
  BY <1>1, <1>2, SMT
<1>3. CASE x % 2 = 1
  BY <1>1, <1>3, SMT
<1> QED BY <1>1, <1>2, <1>3

LEMMA Sum2Value ==
    ASSUME NEW x \in Int, NEW y \in Int
    PROVE  Sum2(x, y) = 2 * ((x \div 2) + (y \div 2))
                          + (IF x % 2 = 1 /\ y % 2 = 1 THEN 1 ELSE 0)
BY StrictnessProduct, Zenon DEF Sum2, constraint_to_bound, constraint_to_strictness

LEMMA Sum2Monotone ==
    ASSUME NEW x \in Int, NEW y \in Int, NEW z \in Int, x <= y
    PROVE  Sum2(x, z) <= Sum2(y, z) /\ Sum2(z, x) <= Sum2(z, y)
<1>1. /\ Sum2(x, z) = 2 * ((x \div 2) + (z \div 2))
                         + (IF x % 2 = 1 /\ z % 2 = 1 THEN 1 ELSE 0)
      /\ Sum2(z, x) = 2 * ((z \div 2) + (x \div 2))
                         + (IF z % 2 = 1 /\ x % 2 = 1 THEN 1 ELSE 0)
      /\ Sum2(y, z) = 2 * ((y \div 2) + (z \div 2))
                         + (IF y % 2 = 1 /\ z % 2 = 1 THEN 1 ELSE 0)
      /\ Sum2(z, y) = 2 * ((z \div 2) + (y \div 2))
                         + (IF z % 2 = 1 /\ y % 2 = 1 THEN 1 ELSE 0)
  BY Sum2Value
<1> QED BY <1>1, SMT

LEMMA Sum2Associative ==
    ASSUME NEW x \in Int, NEW y \in Int, NEW z \in Int
    PROVE  Sum2(Sum2(x, y), z) = Sum2(x, Sum2(y, z))
<1>1. Sum2(x, y) \in Int /\ Sum2(y, z) \in Int
  BY Sum2Int
<1>2. /\ Sum2(x, y) = 2 * ((x \div 2) + (y \div 2))
                        + (IF x % 2 = 1 /\ y % 2 = 1 THEN 1 ELSE 0)
      /\ Sum2(y, z) = 2 * ((y \div 2) + (z \div 2))
                        + (IF y % 2 = 1 /\ z % 2 = 1 THEN 1 ELSE 0)
  BY Sum2Value
<1>3. /\ Sum2(x, y) \div 2 = (x \div 2) + (y \div 2)
      /\ Sum2(x, y) % 2 = (IF x % 2 = 1 /\ y % 2 = 1 THEN 1 ELSE 0)
      /\ Sum2(y, z) \div 2 = (y \div 2) + (z \div 2)
      /\ Sum2(y, z) % 2 = (IF y % 2 = 1 /\ z % 2 = 1 THEN 1 ELSE 0)
  BY <1>1, <1>2, SMT
<1>4. /\ Sum2(Sum2(x, y), z)
           = 2 * ((Sum2(x, y) \div 2) + (z \div 2))
               + (IF Sum2(x, y) % 2 = 1 /\ z % 2 = 1 THEN 1 ELSE 0)
      /\ Sum2(x, Sum2(y, z))
           = 2 * ((x \div 2) + (Sum2(y, z) \div 2))
               + (IF x % 2 = 1 /\ Sum2(y, z) % 2 = 1 THEN 1 ELSE 0)
  BY <1>1, Sum2Value
<1> QED BY <1>3, <1>4, SMT

LEMMA Sum2Neutral ==
    ASSUME NEW x \in Int, NEW y \in Int, y >= zero_le
    PROVE  Sum2(x, y) >= x /\ Sum2(y, x) >= x
<1>1. /\ Sum2(x, y) = 2 * ((x \div 2) + (y \div 2))
                         + (IF x % 2 = 1 /\ y % 2 = 1 THEN 1 ELSE 0)
      /\ Sum2(y, x) = 2 * ((y \div 2) + (x \div 2))
                         + (IF y % 2 = 1 /\ x % 2 = 1 THEN 1 ELSE 0)
  BY Sum2Value
<1>2. y >= 1
  BY DEF zero_le
<1> QED BY <1>1, <1>2, SMT

(* The same for constraints that may be infinite *)

\* What an entry of a matrix holds: infinity is the loosest constraint.
Entry == {x \in Raw : x <= infinity}

LEMMA EntryInt == ASSUME NEW x \in Entry PROVE x \in Int /\ x \in Raw /\ x <= infinity
BY Width DEF Entry

LEMMA Transitive ==
    ASSUME NEW x \in Int, NEW y \in Int, NEW z \in Int, x <= y, y <= z
    PROVE  x <= z
BY SMT

LEMMA PlusValue ==
    ASSUME NEW x \in Int, NEW y \in Int
    PROVE  /\ Plus(x, y) \in Int
           /\ IsFinite(x) /\ IsFinite(y) => Plus(x, y) = Sum2(x, y)
           /\ ~IsFinite(x) \/ ~IsFinite(y) => Plus(x, y) = infinity
BY Sum2Int, Width DEF Plus

\* Loosening a summand does not tighten the sum, while sums fit.
LEMMA PlusMonotone ==
    ASSUME NEW x \in Entry, NEW y \in Entry, NEW z \in Entry,
           x <= y,
           IsFinite(x) /\ IsFinite(z) => Sum2(x, z) <= infinity,
           IsFinite(x) /\ IsFinite(z) => Sum2(z, x) <= infinity
    PROVE  Plus(x, z) <= Plus(y, z) /\ Plus(z, x) <= Plus(z, y)
<1>1. x \in Int /\ y \in Int /\ z \in Int /\ y <= infinity /\ infinity \in Int
  BY Width DEF Entry
<1>2. CASE ~IsFinite(z)
  <2>1. /\ Plus(x, z) = infinity /\ Plus(z, x) = infinity
        /\ Plus(y, z) = infinity /\ Plus(z, y) = infinity
    BY <1>1, <1>2, PlusValue
  <2> QED BY <1>1, <2>1, SMT
<1>3. CASE IsFinite(z) /\ ~IsFinite(y)
  <2>1. Plus(y, z) = infinity /\ Plus(z, y) = infinity
    BY <1>1, <1>3, PlusValue
  <2>2. CASE IsFinite(x)
    BY <1>1, <1>3, <2>1, <2>2, PlusValue
  <2>3. CASE ~IsFinite(x)
    <3>1. Plus(x, z) = infinity /\ Plus(z, x) = infinity
      BY <1>1, <2>3, PlusValue
    <3> QED BY <1>1, <2>1, <3>1, SMT
  <2> QED BY <2>2, <2>3
<1>4. CASE IsFinite(z) /\ IsFinite(y)
  <2>1. CASE ~IsFinite(x)
    <3>1. x = infinity /\ y = infinity
      BY <1>1, <2>1, SMT DEF IsFinite
    <3> QED BY <1>4, <3>1 DEF IsFinite
  <2>2. CASE IsFinite(x)
    <3>1. /\ Plus(x, z) = Sum2(x, z) /\ Plus(z, x) = Sum2(z, x)
          /\ Plus(y, z) = Sum2(y, z) /\ Plus(z, y) = Sum2(z, y)
      BY <1>1, <1>4, <2>2, PlusValue
    <3> QED BY <1>1, <3>1, Sum2Monotone
  <2> QED BY <2>1, <2>2
<1> QED BY <1>2, <1>3, <1>4

\* A sum computed by add_constraints is the exact one, while it fits.
LEMMA AddIsPlus ==
    ASSUME NEW x \in Entry, NEW y \in Entry,
           IsFinite(x) /\ IsFinite(y) => Sum2(x, y) \in (-Limit) .. (infinity - 1)
    PROVE  /\ add_constraints(x, y) = Plus(x, y)
           /\ Plus(x, y) \in Entry
           /\ IsFinite(Plus(x, y)) <=> IsFinite(x) /\ IsFinite(y)
<1>1. CASE IsFinite(x) /\ IsFinite(y)
  <2>1. Sum2(x, y) \in Entry /\ Sum2(x, y) # infinity
    BY <1>1, Width, SMT DEF Entry, Raw
  <2>2. Wrap(Sum2(x, y)) = Sum2(x, y)
    BY <2>1, WrapIdentity DEF Entry
  <2> QED BY <1>1, <2>1, <2>2 DEF add_constraints, Plus, IsFinite
<1>2. CASE ~(IsFinite(x) /\ IsFinite(y))
  <2>1. infinity \in Entry
    BY Width, SMT DEF Entry
  <2> QED BY <1>2, <2>1 DEF add_constraints, Plus, IsFinite
<1> QED BY <1>1, <1>2

----------------------------------------------------------------------------
(* One round of cf() *)

\* Matrices whose diagonal is at most <= 0; NoOverflow for a given matrix.
WellFormed(m) ==
    /\ m \in [Index -> [Index -> Entry]]
    /\ \A p \in Index : m[p][p] <= zero_le

Fits(m) ==
    \A a, b, p \in Index :
      IsFinite(m[a][p]) /\ IsFinite(m[p][b])
        => Sum2(m[a][p], m[p][b]) \in (-Limit) .. (infinity - 1)

\* What the entry <<a, b>> is at the end of round n.
Completed(m, n, a, b) == Tighter(m[a][b], Plus(m[a][n], m[n][b]))

CompletedClosed(m, n) ==
    \A p \in Index : p <= n =>
      \A a, b \in Index :
        Completed(m, n, a, b) <= Plus(Completed(m, n, a, p), Completed(m, n, p, b))

\* The sums of a round are entries.
LEMMA RoundSums ==
    ASSUME NEW m, WellFormed(m), Fits(m),
           NEW a \in Index, NEW b \in Index, NEW p \in Index
    PROVE  /\ m[a][p] \in Entry /\ m[p][b] \in Entry /\ m[a][b] \in Entry
           /\ add_constraints(m[a][p], m[p][b]) = Plus(m[a][p], m[p][b])
           /\ Plus(m[a][p], m[p][b]) \in Entry
           /\ IsFinite(Plus(m[a][p], m[p][b])) <=> IsFinite(m[a][p]) /\ IsFinite(m[p][b])
<1>1. m[a][p] \in Entry /\ m[p][b] \in Entry /\ m[a][b] \in Entry
  BY DEF WellFormed
<1>2. IsFinite(m[a][p]) /\ IsFinite(m[p][b])
        => Sum2(m[a][p], m[p][b]) \in (-Limit) .. (infinity - 1)
  BY DEF Fits
<1> HIDE DEF IsFinite, Fits, WellFormed
<1> QED BY <1>1, <1>2, AddIsPlus

\* Of two entries the tighter one is an entry, and no looser than either.
LEMMA TighterEntry ==
    ASSUME NEW x \in Entry, NEW y \in Entry
    PROVE  /\ Tighter(x, y) \in Entry
           /\ Tighter(x, y) <= x /\ Tighter(x, y) <= y
           /\ Tighter(x, y) = x \/ Tighter(x, y) = y
BY Width, SMT DEF Tighter, Entry

\* A round with pivot n closes the matrix under paths through n, and keeps
\* it closed under paths through the pivots before n.
LEMMA Pivot ==
    ASSUME NEW m, WellFormed(m), Fits(m), NEW n \in Index,
           m[n][n] >= zero_le, ClosedBelow(m, n)
    PROVE  CompletedClosed(m, n)
<1> SUFFICES ASSUME NEW p \in Index, p <= n, NEW a \in Index, NEW b \in Index
             PROVE  Completed(m, n, a, b)
                      <= Plus(Completed(m, n, a, p), Completed(m, n, p, b))
  BY DEF CompletedClosed
<1> DEFINE ab == m[a][b]  an == m[a][n]  nb == m[n][b]  nn == m[n][n]
           ap == m[a][p]  pb == m[p][b]  np == m[n][p]  pn == m[p][n]
           left == Completed(m, n, a, p)
           right == Completed(m, n, p, b)
<1>1. /\ ab \in Entry /\ an \in Entry /\ nb \in Entry /\ nn \in Entry
      /\ ap \in Entry /\ pb \in Entry /\ np \in Entry /\ pn \in Entry
  BY RoundSums
<1>2. /\ Plus(an, nb) \in Entry /\ (IsFinite(Plus(an, nb)) <=> IsFinite(an) /\ IsFinite(nb))
      /\ Plus(an, np) \in Entry /\ (IsFinite(Plus(an, np)) <=> IsFinite(an) /\ IsFinite(np))
      /\ Plus(pn, nb) \in Entry /\ (IsFinite(Plus(pn, nb)) <=> IsFinite(pn) /\ IsFinite(nb))
      /\ Plus(np, pb) \in Entry /\ (IsFinite(Plus(np, pb)) <=> IsFinite(np) /\ IsFinite(pb))
      /\ Plus(ap, pn) \in Entry /\ (IsFinite(Plus(ap, pn)) <=> IsFinite(ap) /\ IsFinite(pn))
      /\ Plus(np, pn) \in Entry /\ (IsFinite(Plus(np, pn)) <=> IsFinite(np) /\ IsFinite(pn))
  BY RoundSums
<1>3. nn >= zero_le
  OBVIOUS
<1>4. p < n => /\ ab <= Plus(ap, pb)
               /\ nb <= Plus(np, pb)
               /\ an <= Plus(ap, pn)
               /\ nn <= Plus(np, pn)
  BY DEF ClosedBelow
<1>5. /\ left = Tighter(ap, Plus(an, np)) /\ right = Tighter(pb, Plus(pn, nb))
      /\ Completed(m, n, a, b) = Tighter(ab, Plus(an, nb))
  BY DEF Completed
<1>6. p = n => ap = an /\ pb = nb /\ np = nn /\ pn = nn
  OBVIOUS
<1>7. p < n \/ p = n
  BY DEF Index, MatrixAssumption
<1> HIDE DEF ab, an, nb, nn, ap, pb, np, pn, left, right
<1> SUFFICES Tighter(ab, Plus(an, nb)) <= Plus(left, right)
  BY <1>5 DEF left, right
<1>8. /\ left \in Entry /\ right \in Entry
      /\ left = ap \/ left = Plus(an, np)
      /\ right = pb \/ right = Plus(pn, nb)
      /\ left <= ap /\ right <= pb
  BY <1>1, <1>2, <1>5, TighterEntry
<1>9. /\ Tighter(ab, Plus(an, nb)) \in Entry
      /\ Tighter(ab, Plus(an, nb)) <= ab
      /\ Tighter(ab, Plus(an, nb)) <= Plus(an, nb)
  BY <1>1, <1>2, TighterEntry
<1>10. CASE ~IsFinite(left) \/ ~IsFinite(right)
  <2>1. Plus(left, right) = infinity
    BY <1>10 DEF Plus
  <2> QED BY <1>9, <2>1 DEF Entry
<1>11. CASE IsFinite(left) /\ IsFinite(right) /\ p = n
  <2>1. Plus(an, np) >= an /\ Plus(pn, nb) >= nb
    <3>1. an \in Int /\ nb \in Int /\ nn \in Int
      BY <1>1, Width DEF Entry
    <3>2. Sum2(an, nn) >= an /\ Sum2(nn, nb) >= nb
      BY <1>3, <3>1, Sum2Neutral
    <3>3. an <= infinity /\ nb <= infinity
      BY <1>1 DEF Entry
    <3> QED BY <1>6, <1>11, <3>2, <3>3 DEF Plus
  <2>2. left = an /\ right = nb
    <3>1. left = Tighter(an, Plus(an, np)) /\ right = Tighter(nb, Plus(pn, nb))
      BY <1>5, <1>6, <1>11
    <3>2. an \in Int /\ nb \in Int /\ Plus(an, np) \in Int /\ Plus(pn, nb) \in Int
      BY <1>1, <1>2, EntryInt
    <3> QED BY <2>1, <3>1, <3>2, SMT DEF Tighter
  <2> QED BY <1>9, <2>2
<1>12. CASE IsFinite(left) /\ IsFinite(right) /\ p < n
  <2>1. CASE left = ap /\ right = pb
    <3>1. ab <= Plus(left, right)
      BY <1>4, <1>12, <2>1
    <3>2. Plus(left, right) \in Int
      BY <1>8, PlusValue, Width DEF Entry
    <3>3. Tighter(ab, Plus(an, nb)) \in Int /\ ab \in Int
      BY <1>1, <1>9, EntryInt
    <3> QED BY <1>9, <3>1, <3>2, <3>3, Transitive
  <2> SUFFICES ASSUME left # ap \/ right # pb
               PROVE  Plus(an, nb) <= Plus(left, right)
    <3>1. Plus(left, right) \in Int
      BY <1>8, PlusValue, Width DEF Entry
    <3>2. CASE left = ap /\ right = pb
      BY <2>1, <3>2
    <3>3. CASE ~(left = ap /\ right = pb)
      <4>1. Plus(an, nb) <= Plus(left, right)
        BY <3>3
      <4>2. Tighter(ab, Plus(an, nb)) \in Int /\ Plus(an, nb) \in Int
        BY <1>2, <1>9, EntryInt
      <4> QED BY <1>9, <3>1, <4>1, <4>2, Transitive
    <3> QED BY <3>2, <3>3
  <2>2. Plus(left, right) = Sum2(left, right)
    BY <1>12 DEF Plus
  <2>3. CASE left = Plus(an, np) /\ right = pb
    <3>1. IsFinite(an) /\ IsFinite(np) /\ IsFinite(pb)
      BY <1>2, <1>12, <2>3
    <3>2. IsFinite(nb) /\ nb <= Sum2(np, pb)
      <4>1. nb <= Plus(np, pb) /\ Plus(np, pb) \in Entry /\ IsFinite(Plus(np, pb))
        BY <1>2, <1>4, <1>12, <3>1
      <4>2. nb \in Int /\ nb <= infinity /\ Plus(np, pb) \in Int /\ Plus(np, pb) <= infinity
        BY <1>1, <4>1, EntryInt
      <4>3. Plus(np, pb) = Sum2(np, pb)
        BY <3>1 DEF Plus
      <4> QED BY <4>1, <4>2, <4>3, Width, SMT DEF IsFinite
    <3>3. left = Sum2(an, np) /\ Plus(an, nb) = Sum2(an, nb)
      BY <2>3, <3>1, <3>2 DEF Plus
    <3>4. an \in Int /\ np \in Int /\ pb \in Int /\ nb \in Int /\ Sum2(np, pb) \in Int
      BY <1>1, Sum2Int, Width DEF Entry
    <3>5. Sum2(an, nb) <= Sum2(an, Sum2(np, pb))
      BY <3>2, <3>4, Sum2Monotone
    <3>6. Sum2(an, Sum2(np, pb)) = Sum2(Sum2(an, np), pb)
      BY <3>4, Sum2Associative
    <3> QED BY <2>2, <2>3, <3>3, <3>5, <3>6
  <2>4. CASE left = ap /\ right = Plus(pn, nb)
    <3>1. IsFinite(ap) /\ IsFinite(pn) /\ IsFinite(nb)
      BY <1>2, <1>12, <2>4
    <3>2. IsFinite(an) /\ an <= Sum2(ap, pn)
      <4>1. an <= Plus(ap, pn) /\ Plus(ap, pn) \in Entry /\ IsFinite(Plus(ap, pn))
        BY <1>2, <1>4, <1>12, <3>1
      <4>2. an \in Int /\ an <= infinity /\ Plus(ap, pn) \in Int /\ Plus(ap, pn) <= infinity
        BY <1>1, <4>1, EntryInt
      <4>3. Plus(ap, pn) = Sum2(ap, pn)
        BY <3>1 DEF Plus
      <4> QED BY <4>1, <4>2, <4>3, Width, SMT DEF IsFinite
    <3>3. right = Sum2(pn, nb) /\ Plus(an, nb) = Sum2(an, nb)
      BY <2>4, <3>1, <3>2 DEF Plus
    <3>4. an \in Int /\ pn \in Int /\ ap \in Int /\ nb \in Int /\ Sum2(ap, pn) \in Int
      BY <1>1, Sum2Int, Width DEF Entry
    <3>5. Sum2(an, nb) <= Sum2(Sum2(ap, pn), nb)
      BY <3>2, <3>4, Sum2Monotone
    <3>6. Sum2(Sum2(ap, pn), nb) = Sum2(ap, Sum2(pn, nb))
      BY <3>4, Sum2Associative
    <3> QED BY <2>2, <2>4, <3>3, <3>5, <3>6
  <2>5. CASE left = Plus(an, np) /\ right = Plus(pn, nb)
    <3>1. IsFinite(an) /\ IsFinite(np) /\ IsFinite(pn) /\ IsFinite(nb)
      BY <1>2, <1>12, <2>5
    <3>2. left = Sum2(an, np) /\ right = Sum2(pn, nb) /\ Plus(an, nb) = Sum2(an, nb)
      BY <2>5, <3>1 DEF Plus
    <3>3. /\ an \in Int /\ np \in Int /\ pn \in Int /\ nb \in Int
          /\ Sum2(np, pn) \in Int /\ Sum2(pn, nb) \in Int
          /\ Sum2(Sum2(np, pn), nb) \in Int
      BY <1>1, Sum2Int, Width DEF Entry
    <3>4. Sum2(np, pn) >= zero_le
      <4>1. nn <= Sum2(np, pn)
        BY <1>4, <1>12, <3>1 DEF Plus
      <4> QED BY <1>1, <1>3, <3>3, <4>1, Width, SMT DEF Entry
    <3>5. Sum2(Sum2(np, pn), nb) >= nb
      BY <3>3, <3>4, Sum2Neutral
    <3>6. Sum2(an, nb) <= Sum2(an, Sum2(Sum2(np, pn), nb))
      BY <3>3, <3>5, Sum2Monotone
    <3>7. Sum2(Sum2(np, pn), nb) = Sum2(np, Sum2(pn, nb))
      BY <3>3, Sum2Associative
    <3>8. Sum2(an, Sum2(np, Sum2(pn, nb))) = Sum2(Sum2(an, np), Sum2(pn, nb))
      BY <3>3, Sum2Associative
    <3> QED BY <2>2, <3>2, <3>6, <3>7, <3>8
  <2> QED BY <1>8, <2>3, <2>4, <2>5
<1> QED BY <1>7, <1>10, <1>11, <1>12

----------------------------------------------------------------------------
(* The operations give well-formed matrices *)

\* emptiness() on integers.
LEMMA EmptyIff ==
    ASSUME NEW m, WellFormed(m)
    PROVE  emptiness(m) <=> \E p \in Index : m[p][p] <= zero_less
<1>1. ASSUME NEW p \in Index
      PROVE  (m[p][p] = zero_less \/ constraint_to_bound(m[p][p]) < 0)
               <=> m[p][p] <= zero_less
  <2>1. m[p][p] \in Int
    BY EntryInt DEF WellFormed
  <2> QED BY <2>1, SMT DEF constraint_to_bound, zero_less
<1> QED BY <1>1 DEF emptiness

LEMMA NonEmptyDiagonal ==
    ASSUME NEW m, WellFormed(m), ~emptiness(m), NEW p \in Index
    PROVE  m[p][p] = zero_le
<1>1. ~(m[p][p] <= zero_less) /\ m[p][p] <= zero_le
  BY EmptyIff DEF WellFormed
<1>2. m[p][p] \in Int
  BY EntryInt DEF WellFormed
<1> QED BY <1>1, <1>2, SMT DEF zero_less, zero_le

LEMMA SpecialEntries ==
    /\ zero_less \in Entry /\ zero_le \in Entry /\ infinity \in Entry
    /\ zero_less <= zero_le
    /\ 0 \in Index /\ Clocks \subseteq Index /\ Index \subseteq Int /\ N \in Index
BY Width, MatrixAssumption, SMT DEF Entry, Index, Clocks

LEMMA EmptyMatrix == WellFormed(makeEmpty) /\ emptiness(makeEmpty)
<1>1. makeEmpty \in [Index -> [Index -> Entry]]
  BY SpecialEntries DEF makeEmpty, Entries
<1>2. \A p \in Index : makeEmpty[p][p] = zero_less
  BY DEF makeEmpty, Entries
<1> QED BY <1>1, <1>2, SpecialEntries DEF WellFormed, emptiness

LEMMA InitialMatrix == WellFormed(makeInfty)
<1>1. makeInfty \in [Index -> [Index -> Entry]]
  BY SpecialEntries DEF makeInfty, Entries
<1>2. \A p \in Index : makeInfty[p][p] = zero_le
  BY DEF makeInfty, Entries
<1> QED BY <1>1, <1>2, Width DEF WellFormed

LEMMA OperandMatrix == ASSUME NEW Y \in Operands PROVE WellFormed(Y)
<1>1. Y \in [Index -> [Index -> Raw]] /\ \A p, q \in Index : Y[p][q] <= infinity
  BY DBMAssumption DEF Matrix
<1>2. Y \in [Index -> [Index -> Entry]]
  BY <1>1 DEF Entry
<1> QED BY <1>2, DBMAssumption DEF WellFormed

LEMMA IntersectMatrix ==
    ASSUME NEW m, NEW Y, WellFormed(m), WellFormed(Y)
    PROVE  WellFormed(intersect(m, Y))
<1>1. \A p, q \in Index : m[p][q] \in Entry /\ Y[p][q] \in Entry
  BY DEF WellFormed
<1>2. \A p, q \in Index : /\ Tighter(m[p][q], Y[p][q]) \in Entry
                          /\ Tighter(m[p][q], Y[p][q]) <= m[p][q]
  BY <1>1, TighterEntry
<1>3. intersect(m, Y) \in [Index -> [Index -> Entry]]
  BY <1>2 DEF intersect, Entries
<1>4. ASSUME NEW p \in Index PROVE intersect(m, Y)[p][p] <= zero_le
  <2>1. intersect(m, Y)[p][p] = Tighter(m[p][p], Y[p][p])
    BY DEF intersect, Entries
  <2>2. intersect(m, Y)[p][p] \in Int /\ m[p][p] \in Int /\ zero_le \in Int
    BY <1>1, <1>3, EntryInt, SpecialEntries
  <2>3. m[p][p] <= zero_le
    BY DEF WellFormed
  <2> QED BY <1>2, <2>1, <2>2, <2>3, Transitive
<1> QED BY <1>3, <1>4 DEF WellFormed

\* Operations that leave the diagonal alone and put entries elsewhere.
LEMMA SameDiagonal ==
    ASSUME NEW m, WellFormed(m), NEW f \in [Index -> [Index -> Entry]],
           \A p \in Index : f[p][p] = m[p][p]
    PROVE  WellFormed(f) /\ (emptiness(f) <=> emptiness(m))
BY DEF WellFormed, emptiness

LEMMA SucMatrix ==
    ASSUME NEW m, WellFormed(m)
    PROVE  WellFormed(suc(m)) /\ (emptiness(suc(m)) <=> emptiness(m))
<1>1. suc(m) \in [Index -> [Index -> Entry]]
  BY SpecialEntries DEF WellFormed, suc, Entries
<1>2. \A p \in Index : suc(m)[p][p] = m[p][p]
  BY SMT, MatrixAssumption DEF suc, Entries, Clocks, Index
<1> QED BY <1>1, <1>2, SameDiagonal

LEMMA PreMatrix == ASSUME NEW m, WellFormed(m) PROVE WellFormed(pre(m))
<1>1. pre(m) \in [Index -> [Index -> Entry]]
  BY SpecialEntries DEF WellFormed, pre, Entries
<1>2. \A p \in Index : pre(m)[p][p] = IF p = 0 THEN zero_le ELSE m[p][p]
  BY DEF pre, Entries
<1> QED BY <1>1, <1>2, Width DEF WellFormed

LEMMA SubstitutedMatrix ==
    ASSUME NEW m, WellFormed(m), NEW source \in [Index -> Index]
    PROVE  /\ WellFormed(Substituted(m, source))
           /\ emptiness(Substituted(m, source)) <=> emptiness(m)
<1>1. Substituted(m, source) \in [Index -> [Index -> Entry]]
  BY DEF WellFormed, Substituted, Entries
<1>2. \A p \in Index : Substituted(m, source)[p][p] = m[p][p]
  BY DEF Substituted, Entries
<1> QED BY <1>1, <1>2, SameDiagonal

LEMMA FreeMatrix == ASSUME NEW m, WellFormed(m), NEW x \in Clocks PROVE WellFormed(Free(m, x))
<1>1. Free(m, x) \in [Index -> [Index -> Entry]]
  BY SpecialEntries DEF WellFormed, Free, Entries
<1>2. \A p \in Index : Free(m, x)[p][p] = m[p][p]
  BY DEF Free, Entries
<1> QED BY <1>1, <1>2, SameDiagonal

\* A nonempty set of entries has a tightest one.
LEMMA TightestEntry ==
    ASSUME NEW S \in SUBSET Entry, S # {}
    PROVE  Tightest(S) \in S /\ \A d \in S : Tightest(S) <= d
<1> DEFINE T == {x + Limit : x \in S}
<1>1. T \subseteq Nat /\ T # {}
  <2>1. \A x \in S : x \in Int /\ x \in Raw
    BY EntryInt
  <2> QED BY <2>1, LimitAssumption, SMT DEF Raw
<1>2. PICK t \in T : \A u \in T : ~(<<u, t>> \in OpToRel(<, Nat))
  <2> HIDE DEF T
  <2> QED BY <1>1, NatLessThanWellFounded, WFMin
<1>3. \A u \in T : ~(u < t)
  BY <1>1, <1>2 DEF OpToRel
<1>4. PICK c \in S : t = c + Limit
  OBVIOUS
<1>5. \A d \in S : c <= d
  <2> SUFFICES ASSUME NEW d \in S PROVE c <= d
    OBVIOUS
  <2>1. ~(d + Limit < c + Limit)
    BY <1>3, <1>4
  <2>2. c \in Int /\ d \in Int /\ Limit \in Int
    BY EntryInt, LimitAssumption
  <2> QED BY <2>1, <2>2, SMT
<1> QED BY <1>5 DEF Tightest

LEMMA PresetMatrix ==
    ASSUME NEW m, WellFormed(m), NEW prs \in SUBSET Clocks
    PROVE  WellFormed(preset(m, prs))
<1>1. ASSUME NEW p \in Index, NEW q \in Index
      PROVE  PresetEntry(m, prs, p, q) \in Entry
  <2> DEFINE columns == {m[c][q] : c \in prs \cup {0}}
             rows == {m[p][c] : c \in prs \cup {0}}
  <2>1. prs \cup {0} \subseteq Index
    BY SpecialEntries
  <2>2. /\ columns \in SUBSET Entry /\ columns # {}
        /\ rows \in SUBSET Entry /\ rows # {}
    <3>1. \A c \in prs \cup {0} : m[c][q] \in Entry /\ m[p][c] \in Entry
      BY <2>1 DEF WellFormed
    <3>2. 0 \in prs \cup {0}
      OBVIOUS
    <3> QED BY <3>1, <3>2
  <2>3. Tightest(columns) \in Entry /\ Tightest(rows) \in Entry
    <3> HIDE DEF columns, rows
    <3> QED BY <2>2, TightestEntry
  <2>4. m[p][q] \in Entry
    BY DEF WellFormed
  <2> QED BY <2>3, <2>4, SpecialEntries DEF PresetEntry
<1>2. CASE PresetIsEmpty(m, prs)
  BY <1>2, EmptyMatrix DEF preset
<1>3. CASE ~PresetIsEmpty(m, prs)
  <2> DEFINE f == preset(m, prs)
  <2>1. f = [p \in Index |-> [q \in Index |-> PresetEntry(m, prs, p, q)]]
    BY <1>3 DEF preset, Entries
  <2>2. f \in [Index -> [Index -> Entry]]
    BY <1>1, <2>1
  <2>3. \A p \in Index : f[p][p] = m[p][p]
    BY <2>1 DEF PresetEntry
  <2> HIDE DEF f
  <2>4. WellFormed(f)
    BY <2>2, <2>3, SameDiagonal
  <2> QED BY <2>4 DEF f
<1> QED BY <1>2, <1>3

\* What bound() stores is an entry, although its arithmetic may wrap around.
LEMMA BoundToEntry ==
    ASSUME NEW b \in Int, 2 * b <= infinity, 2 * b >= -3 * Limit
    PROVE  bound_to_constraint(b, strict) \in Entry
<1>1. bound_to_constraint(b, strict) = Wrap(2 * b)
  BY DEF bound_to_constraint, strict
<1>2. CASE 2 * b >= -Limit
  <2>1. 2 * b \in Raw
    BY <1>2, Width, SMT DEF Raw
  <2>2. Wrap(2 * b) = 2 * b
    BY <2>1, WrapIdentity
  <2> QED BY <1>1, <2>1, <2>2 DEF Entry
<1>3. CASE 2 * b < -Limit
  <2>1. PICK h \in Int : Limit = 2 * h
    <3>1. Limit = 2 * (Limit \div 2) /\ Limit \div 2 \in Int
      BY LimitAssumption, SMT
    <3> QED BY <3>1
  <2>2. Wrap(2 * b) = 2 * b + 2 * Limit
    BY <1>3, WrapBelow
  <2>3. 2 * b + 2 * Limit <= Limit - 2 /\ 2 * b + 2 * Limit >= -Limit
    BY <1>3, <2>1, SMT
  <2> QED BY <1>1, <2>2, <2>3, Width, SMT DEF Entry, Raw
<1>4. 2 * b >= -Limit \/ 2 * b < -Limit
  BY LimitAssumption, SMT
<1> QED BY <1>2, <1>3, <1>4

LEMMA EntryBound ==
    ASSUME NEW x \in Entry
    PROVE  /\ constraint_to_bound(x) \in Int
           /\ 2 * constraint_to_bound(x) <= infinity
           /\ 2 * constraint_to_bound(x) >= -Limit
<1>1. x \in Int /\ x <= infinity /\ x >= -Limit /\ infinity \in Int
  BY EntryInt, Width DEF Raw
<1>2. PICK h \in Int : Limit = 2 * h
  <2>1. Limit = 2 * (Limit \div 2) /\ Limit \div 2 \in Int
    BY LimitAssumption, SMT
  <2> QED BY <2>1
<1> QED BY <1>1, <1>2, SMT DEF constraint_to_bound

LEMMA BoundMatrix == ASSUME NEW m, WellFormed(m) PROVE WellFormed(bound(m))
<1>1. ASSUME NEW p \in Index PROVE Upper(m, p) \in Entry
  BY SpecialEntries DEF Upper, WellFormed
<1>2. MaxC \in Int /\ MaxC >= 0 /\ MaxC <= Limit - 1 /\ Limit \in Int
  BY MatrixAssumption, LimitAssumption, SMT
<1>3. ASSUME NEW x \in Entry
      PROVE  bound_to_constraint(constraint_to_bound(x) - MaxC, strict) \in Entry
  <2> DEFINE b == constraint_to_bound(x)
  <2>1. b \in Int /\ 2 * b <= infinity /\ 2 * b >= -Limit /\ infinity \in Int
    BY EntryBound, Width
  <2>2. b - MaxC \in Int /\ 2 * (b - MaxC) <= infinity /\ 2 * (b - MaxC) >= -3 * Limit
    <3> HIDE DEF b
    <3> QED BY <1>2, <2>1, SMT
  <2> QED BY <2>2, BoundToEntry
<1>4. ASSUME NEW p \in Index, NEW q \in Index PROVE BoundClocks(m)[p][q] \in Entry
  <2>1. m[p][q] \in Entry
    BY DEF WellFormed
  <2> QED BY <1>1, <1>3, <2>1, SpecialEntries DEF BoundClocks, Entries
<1>5. ASSUME NEW x \in Entry PROVE BoundDifference(x) \in Entry
  <2> DEFINE b == constraint_to_bound(x)
  <2>1. b \in Int /\ 2 * b <= infinity /\ 2 * b >= -Limit /\ infinity \in Int
    BY EntryBound, Width
  <2>2. CASE b > MaxC
    <3>1. 2 * MaxC <= infinity /\ 2 * MaxC >= -3 * Limit
      <4> HIDE DEF b
      <4> QED BY <1>2, <2>1, <2>2, SMT
    <3>2. bound_to_constraint(MaxC, strict) \in Entry
      BY <1>2, <3>1, BoundToEntry
    <3> QED BY <2>2, <3>2 DEF BoundDifference
  <2>3. CASE ~(b > MaxC)
    <3>1. 2 * (-MaxC) <= infinity /\ 2 * (-MaxC) >= -3 * Limit /\ -MaxC \in Int
      BY <1>2, Width, SMT
    <3>2. bound_to_constraint(-MaxC, strict) \in Entry
      BY <3>1, BoundToEntry
    <3> QED BY <2>3, <3>2 DEF BoundDifference
  <2> QED BY <2>2, <2>3
<1>6. bound(m) \in [Index -> [Index -> Entry]]
  BY <1>4, <1>5 DEF bound, Entries
<1>7. \A p \in Index : bound(m)[p][p] = m[p][p]
  BY DEF bound, BoundClocks, Entries
<1> QED BY <1>6, <1>7, SameDiagonal

----------------------------------------------------------------------------
(* Type correctness *)

\* TypeOK, with the matrix well formed.
TypeInv ==
    /\ WellFormed(dbm)
    /\ m_is_cf \in BOOLEAN
    /\ pc \in {"idle", "cf"}
    /\ k \in 0 .. N + 1
    /\ i \in Index
    /\ j \in Index

LEMMA TypeInvImpliesTypeOK == TypeInv => TypeOK
BY DEF TypeInv, TypeOK, WellFormed, Matrix, Entry

LEMMA InitTypeInv == Init => TypeInv
<1>1. 0 \in 0 .. N + 1
  BY MatrixAssumption, SMT
<1>2. 0 \in Index
  BY SpecialEntries
<1> QED BY <1>1, <1>2, InitialMatrix DEF Init, TypeInv

\* The matrix after one step of the loops.
Relaxed(m, n, r, c) ==
    [m EXCEPT ![r][c] = Tighter(m[r][c], add_constraints(m[r][n], m[n][c]))]

LEMMA AddIsRaw ==
    ASSUME NEW x \in Entry, NEW y \in Entry
    PROVE  add_constraints(x, y) \in Raw
<1>1. x \in Int /\ y \in Int
  BY EntryInt
<1> QED BY <1>1, Sum2Int, WrapInRaw, Width DEF add_constraints

\* A step tightens one entry, even when the sum overflows.
LEMMA RelaxedMatrix ==
    ASSUME NEW m, WellFormed(m), NEW n \in Index, NEW r \in Index, NEW c \in Index
    PROVE  /\ WellFormed(Relaxed(m, n, r, c))
           /\ \A a, b \in Index : Relaxed(m, n, r, c)[a][b] <= m[a][b]
           /\ \A a, b \in Index : a # r \/ b # c => Relaxed(m, n, r, c)[a][b] = m[a][b]
           /\ Relaxed(m, n, r, c)[r][c] = Tighter(m[r][c], add_constraints(m[r][n], m[n][c]))
<1> DEFINE new == Tighter(m[r][c], add_constraints(m[r][n], m[n][c]))
           f == Relaxed(m, n, r, c)
<1>1. m \in [Index -> [Index -> Entry]]
  BY DEF WellFormed
<1>2. new \in Entry /\ new <= m[r][c]
  <2>1. m[r][c] \in Entry /\ m[r][n] \in Entry /\ m[n][c] \in Entry
    BY <1>1
  <2>2. add_constraints(m[r][n], m[n][c]) \in Raw
    BY <2>1, AddIsRaw
  <2>3. m[r][c] \in Int /\ m[r][c] <= infinity /\ infinity \in Int /\ Raw \subseteq Int
    BY <2>1, EntryInt, Width
  <2> DEFINE sum == add_constraints(m[r][n], m[n][c])
  <2>4. sum \in Int /\ m[r][c] \in Int
    BY <2>2, <2>3
  <2> HIDE DEF sum
  <2>5. CASE sum < m[r][c]
    <3>1. new = sum
      BY <2>5 DEF Tighter, sum
    <3>2. sum <= infinity /\ sum <= m[r][c]
      BY <2>3, <2>4, <2>5, SMT
    <3> QED BY <2>2, <3>1, <3>2 DEF Entry, sum
  <2>6. CASE ~(sum < m[r][c])
    <3>1. new = m[r][c]
      BY <2>6 DEF Tighter, sum
    <3> QED BY <2>1, <2>4, <3>1
  <2> QED BY <2>5, <2>6
<1>3. f \in [Index -> [Index -> Entry]]
  <2> HIDE DEF new
  <2>1. f = [m EXCEPT ![r][c] = new]
    BY DEF Relaxed, new
  <2> QED BY <1>1, <1>2, <2>1
<1>4. f[r][c] = new /\ \A a, b \in Index : a # r \/ b # c => f[a][b] = m[a][b]
  <2> HIDE DEF new
  <2>1. f = [m EXCEPT ![r][c] = new]
    BY DEF Relaxed, new
  <2> QED BY <1>1, <2>1
<1>5. ASSUME NEW a \in Index, NEW b \in Index PROVE f[a][b] <= m[a][b]
  <2>1. CASE a = r /\ b = c
    BY <1>2, <1>4, <2>1
  <2>2. CASE a # r \/ b # c
    <3>1. f[a][b] = m[a][b]
      BY <1>4, <2>2
    <3>2. m[a][b] \in Int
      BY <1>1, EntryInt
    <3> QED BY <3>1, <3>2
  <2> QED BY <2>1, <2>2
<1>6. ASSUME NEW p \in Index PROVE f[p][p] <= zero_le
  <2>1. f[p][p] <= m[p][p] /\ m[p][p] <= zero_le
    BY <1>5 DEF WellFormed
  <2>2. f[p][p] \in Int /\ m[p][p] \in Int /\ zero_le \in Int
    BY <1>1, <1>3, EntryInt, Width
  <2> HIDE DEF f
  <2> QED BY <2>1, <2>2, Transitive
<1> QED BY <1>3, <1>4, <1>5, <1>6 DEF WellFormed

\* An operation changes the matrix and the flag and stays out of the loops.
LEMMA OperationTypes ==
    ASSUME TypeInv, Called, WellFormed(dbm'), m_is_cf' \in BOOLEAN
    PROVE  TypeInv'
BY DEF TypeInv, Called, WellFormed

LEMMA NextTypeInv == TypeInv /\ [Next]_vars => TypeInv'
<1> SUFFICES ASSUME TypeInv, [Next]_vars PROVE TypeInv'
  OBVIOUS
<1>0. WellFormed(dbm)
  BY DEF TypeInv
<1>1. ASSUME NEW Y \in Operands, Assign(Y) PROVE TypeInv'
  <2>1. WellFormed(Y) /\ dbm' = Y
    BY <1>1, OperandMatrix DEF Assign
  <2> QED BY <1>1, <2>1, OperationTypes DEF Assign
<1>2. ASSUME NEW Y \in Operands, Intersect(Y) PROVE TypeInv'
  <2>1. WellFormed(intersect(dbm, Y))
    BY <1>0, OperandMatrix, IntersectMatrix
  <2>2. WellFormed(dbm') /\ m_is_cf' \in BOOLEAN
    BY <1>0, <1>2, <2>1 DEF Intersect, TypeInv
  <2> QED BY <1>2, <2>2, OperationTypes DEF Intersect
<1>3. CASE Suc
  BY <1>0, <1>3, SucMatrix, OperationTypes DEF Suc, Preserves, TypeInv
<1>4. CASE Pre
  BY <1>0, <1>4, PreMatrix, OperationTypes DEF Pre, Clears
<1>5. CASE Bound
  BY <1>0, <1>5, BoundMatrix, OperationTypes DEF Bound, Clears
<1>6. ASSUME NEW rs \in SUBSET Clocks, Reset(rs) PROVE TypeInv'
  <2> DEFINE source == [p \in Index |-> IF p \in rs THEN 0 ELSE p]
  <2>1. source \in [Index -> Index]
    BY SpecialEntries
  <2> HIDE DEF source
  <2>2. WellFormed(Substituted(dbm, source))
    BY <1>0, <2>1, SubstitutedMatrix
  <2>3. dbm' = Substituted(dbm, source)
    BY <1>6 DEF Reset, reset, Preserves, source
  <2> QED BY <1>6, <2>2, <2>3, OperationTypes DEF Reset, Preserves, TypeInv
<1>7. ASSUME NEW rs \in SUBSET Clocks, Preset(rs) PROVE TypeInv'
  <2>1. WellFormed(preset(dbm, rs))
    BY <1>0, PresetMatrix
  <2>2. dbm' = preset(dbm, rs) /\ m_is_cf' = PresetIsEmpty(dbm, rs) /\ Called
    BY <1>7 DEF Preset, ClearsUnless
  <2>3. m_is_cf' \in BOOLEAN
    BY <2>2 DEF PresetIsEmpty
  <2> QED BY <2>1, <2>2, <2>3, OperationTypes
<1>8. ASSUME NEW x \in Clocks, NEW y \in Clocks, ResetTo(x, y) PROVE TypeInv'
  <2> DEFINE source == [p \in Index |-> IF p = x THEN y ELSE p]
  <2>1. source \in [Index -> Index]
    BY SpecialEntries
  <2> HIDE DEF source
  <2>2. WellFormed(Substituted(dbm, source))
    BY <1>0, <2>1, SubstitutedMatrix
  <2>3. dbm' = Substituted(dbm, source)
    BY <1>8 DEF ResetTo, assign, Clears, source
  <2> QED BY <1>8, <2>2, <2>3, OperationTypes DEF ResetTo, Clears
<1>9. ASSUME NEW x \in Clocks, NEW y \in Clocks, PresetTo(x, y) PROVE TypeInv'
  <2>1. WellFormed(preset_assign(dbm, x, y))
    BY <1>0, FreeMatrix, EmptyMatrix DEF preset_assign
  <2> QED BY <1>9, <2>1, OperationTypes DEF PresetTo, ClearsUnless
<1>10. ASSUME NEW x \in Clocks, PresetClock(x) PROVE TypeInv'
  <2>1. WellFormed(preset_clock(dbm, x))
    BY <1>0, FreeMatrix, EmptyMatrix DEF preset_clock
  <2> QED BY <1>10, <2>1, OperationTypes DEF PresetClock, ClearsUnless
<1>11. CASE CfStart
  BY <1>11, SpecialEntries, MatrixAssumption, SMT DEF CfStart, TypeInv, WellFormed
<1>12. CASE CfEmpty
  <2>1. dbm' = makeEmpty /\ m_is_cf' = TRUE /\ LeaveLoops
    BY <1>12 DEF CfEmpty
  <2>2. 0 \in 0 .. N + 1
    BY MatrixAssumption, SMT
  <2> QED BY <2>1, <2>2, EmptyMatrix, SpecialEntries DEF LeaveLoops, TypeInv, WellFormed
<1>13. CASE Relax
  <2>1. dbm' = Relaxed(dbm, k, i, j) /\ k \in Index /\ i \in Index /\ j \in Index
    BY <1>13 DEF Relax, Relaxed, TypeInv
  <2>2. WellFormed(dbm')
    BY <1>0, <2>1, RelaxedMatrix
  <2>3. /\ j' = (IF j = N THEN 0 ELSE j + 1)
        /\ i' = (IF j # N THEN i ELSE IF i = N THEN 0 ELSE i + 1)
        /\ k' = (IF i = N /\ j = N THEN k + 1 ELSE k)
        /\ UNCHANGED <<m_is_cf, pc>>
    BY <1>13 DEF Relax
  <2>4. k' \in 0 .. N + 1 /\ i' \in Index /\ j' \in Index
    BY <2>1, <2>3, MatrixAssumption, SMT DEF Index
  <2> QED BY <2>2, <2>3, <2>4 DEF TypeInv, WellFormed
<1>14. CASE CfDone
  <2>1. 0 \in 0 .. N + 1
    BY MatrixAssumption, SMT
  <2> QED BY <1>14, <2>1, SpecialEntries DEF CfDone, LeaveLoops, TypeInv, WellFormed
<1>15. CASE UNCHANGED vars
  BY <1>15 DEF vars, TypeInv, WellFormed
<1> QED BY <1>1, <1>2, <1>3, <1>4, <1>5, <1>6, <1>7, <1>8, <1>9, <1>10,
           <1>11, <1>12, <1>13, <1>14, <1>15 DEF Next, Operation, Cf

(* Every entry stays a short no larger than infinity and the loop counters   *)
(* stay in range, whatever is computed, overflow included.                   *)
THEOREM DbmTypeCorrect == Spec => []TypeOK
<1>1. Spec => []TypeInv
  BY InitTypeInv, NextTypeInv, PTL DEF Spec
<1> QED BY <1>1, TypeInvImpliesTypeOK, PTL

----------------------------------------------------------------------------
(* The flag *)

\* suc() keeps a canonical matrix canonical.
LEMMA SucCanonical ==
    ASSUME NEW m, WellFormed(m), Canonical(m)
    PROVE  Canonical(suc(m))
<1> DEFINE f == suc(m)
<1> SUFFICES ASSUME NEW p \in Index, NEW a \in Index, NEW b \in Index
             PROVE  f[a][b] <= Plus(f[a][p], f[p][b])
  BY DEF Canonical, ClosedBelow
<1>1. p < N + 1
  BY MatrixAssumption, SMT DEF Index
<1>2. m[a][b] <= Plus(m[a][p], m[p][b])
  BY <1>1 DEF Canonical, ClosedBelow
<1>3. \A c, d \in Index : f[c][d] = IF c \in Clocks /\ d = 0 THEN infinity ELSE m[c][d]
  BY DEF suc, Entries
<1>4. \A c \in Index : c \in Clocks \/ c = 0
  BY MatrixAssumption, SMT DEF Index, Clocks
<1>5. f[a][b] \in Int /\ f[a][b] <= infinity /\ infinity \in Int
  <2>1. f[a][b] \in Entry
    BY <1>3, SpecialEntries DEF WellFormed
  <2> QED BY <2>1, EntryInt, Width
<1> HIDE DEF f
<1>6. CASE f[a][p] = infinity \/ f[p][b] = infinity
  <2>1. Plus(f[a][p], f[p][b]) = infinity
    BY <1>6 DEF Plus, IsFinite
  <2> QED BY <1>5, <2>1
<1>7. CASE f[a][p] # infinity /\ f[p][b] # infinity
  <2>1. ~(a \in Clocks /\ p = 0) /\ ~(p \in Clocks /\ b = 0)
    BY <1>3, <1>7
  <2>2. ~(a \in Clocks /\ b = 0)
    BY <1>4, <2>1
  <2> QED BY <1>2, <1>3, <2>1, <2>2
<1> QED BY <1>6, <1>7

\* A substitution of clocks keeps a canonical matrix canonical: its entries
\* are entries of the old one, of which the triangles were closed.
LEMMA SubstitutedCanonical ==
    ASSUME NEW m, WellFormed(m), ~emptiness(m), Canonical(m),
           NEW source \in [Index -> Index]
    PROVE  Canonical(Substituted(m, source))
<1> DEFINE f == Substituted(m, source)
<1> SUFFICES ASSUME NEW p \in Index, NEW a \in Index, NEW b \in Index
             PROVE  f[a][b] <= Plus(f[a][p], f[p][b])
  BY DEF Canonical, ClosedBelow
<1>1. ASSUME NEW c \in Index, NEW d \in Index PROVE f[c][d] = m[source[c]][source[d]]
  <2>1. CASE c = d
    <3>1. f[c][d] = m[c][c]
      BY <2>1 DEF Substituted, Entries
    <3>2. m[c][c] = zero_le /\ m[source[c]][source[c]] = zero_le
      BY NonEmptyDiagonal
    <3> QED BY <2>1, <3>1, <3>2
  <2>2. CASE c # d
    BY <2>2 DEF Substituted, Entries
  <2> QED BY <2>1, <2>2
<1>2. source[p] \in Index /\ source[p] < N + 1 /\ source[a] \in Index /\ source[b] \in Index
  <2>1. source[p] \in Index /\ source[a] \in Index /\ source[b] \in Index
    OBVIOUS
  <2> QED BY <2>1, MatrixAssumption, SMT DEF Index
<1>3. m[source[a]][source[b]] <= Plus(m[source[a]][source[p]], m[source[p]][source[b]])
  BY <1>2 DEF Canonical, ClosedBelow
<1> HIDE DEF f
<1> QED BY <1>1, <1>3

\* Position <<a, b>> comes before <<r, c>> in the two inner loops.
Before(a, b, r, c) == a < r \/ (a = r /\ b < c)

\* Round n has reached <<r, c>>.
InRound(m, n, r, c) ==
    /\ \A a, b \in Index : Before(a, b, r, c) => m[a][b] <= Plus(m[a][n], m[n][b])
    /\ CompletedClosed(m, n)

RoundInv ==
    IF k \in Index THEN InRound(dbm, k, i, j) ELSE Canonical(dbm)

FlagInv ==
    /\ pc = "idle" /\ m_is_cf => emptiness(dbm) \/ Canonical(dbm)
    /\ pc = "cf" => emptiness(dbm) \/ RoundInv

\* A round starts with nothing done.
LEMMA RoundStarts ==
    ASSUME NEW m, WellFormed(m), Fits(m), ~emptiness(m), NEW n \in Index, ClosedBelow(m, n)
    PROVE  InRound(m, n, 0, 0)
<1>1. m[n][n] >= zero_le
  <2>1. m[n][n] = zero_le
    BY NonEmptyDiagonal
  <2> QED BY <2>1, Width
<1>2. CompletedClosed(m, n)
  BY <1>1, Pivot
<1>3. \A a, b \in Index : ~Before(a, b, 0, 0)
  BY MatrixAssumption, SMT DEF Before, Index
<1> QED BY <1>2, <1>3 DEF InRound

\* A step of a round leaves the pivot row and column alone, and so what
\* every entry is going to be at the end of the round.
LEMMA RoundStep ==
    ASSUME NEW m, WellFormed(m), Fits(m),
           NEW n \in Index, NEW r \in Index, NEW c \in Index,
           InRound(m, n, r, c),
           ~emptiness(Relaxed(m, n, r, c))
    PROVE  /\ CompletedClosed(Relaxed(m, n, r, c), n)
           /\ \A a, b \in Index : Before(a, b, r, c) \/ (a = r /\ b = c) =>
                Relaxed(m, n, r, c)[a][b]
                  <= Plus(Relaxed(m, n, r, c)[a][n], Relaxed(m, n, r, c)[n][b])
<1> DEFINE f == Relaxed(m, n, r, c)
<1>1. /\ WellFormed(f)
      /\ \A a, b \in Index : f[a][b] <= m[a][b]
      /\ \A a, b \in Index : a # r \/ b # c => f[a][b] = m[a][b]
      /\ f[r][c] = Tighter(m[r][c], add_constraints(m[r][n], m[n][c]))
  <2>1. WellFormed(f)
    BY RelaxedMatrix
  <2>2. \A a, b \in Index : f[a][b] <= m[a][b]
    BY RelaxedMatrix
  <2>3. \A a, b \in Index : a # r \/ b # c => f[a][b] = m[a][b]
    BY RelaxedMatrix
  <2>4. f[r][c] = Tighter(m[r][c], add_constraints(m[r][n], m[n][c]))
    BY RelaxedMatrix
  <2> QED BY <2>1, <2>2, <2>3, <2>4
<1>2. \A a, b \in Index : /\ m[a][b] \in Entry /\ m[a][b] \in Int
                          /\ m[a][b] <= infinity /\ infinity \in Int
  <2>1. \A a, b \in Index : m[a][b] \in Entry
    BY DEF WellFormed
  <2> QED BY <2>1, EntryInt, Width
<1>3. m[n][n] = zero_le
  <2>1. f[n][n] = zero_le
    BY <1>1, NonEmptyDiagonal
  <2>2. f[n][n] <= m[n][n] /\ m[n][n] <= zero_le
    BY <1>1 DEF WellFormed
  <2>3. m[n][n] \in Int
    BY <1>2
  <2> HIDE DEF f
  <2> QED BY <2>1, <2>2, <2>3, SMT DEF zero_le
<1>4. ASSUME NEW a \in Index
      PROVE  /\ Tighter(m[a][n], Plus(m[a][n], m[n][n])) = m[a][n]
             /\ Tighter(m[n][a], Plus(m[n][n], m[n][a])) = m[n][a]
  <2> DEFINE an == m[a][n]  na == m[n][a]
  <2>1. /\ an \in Int /\ an <= infinity /\ na \in Int /\ na <= infinity
        /\ zero_le \in Int /\ infinity \in Int
    BY <1>2, Width
  <2> HIDE DEF an, na
  <2>2. Sum2(an, zero_le) >= an /\ Sum2(zero_le, na) >= na
    <3>1. zero_le >= zero_le
      BY Width
    <3> QED BY <2>1, <3>1, Sum2Neutral
  <2>3. /\ Plus(an, zero_le) \in Int /\ Plus(an, zero_le) >= an
        /\ Plus(zero_le, na) \in Int /\ Plus(zero_le, na) >= na
    BY <2>1, <2>2, PlusValue DEF Plus
  <2>4. Tighter(an, Plus(an, zero_le)) = an /\ Tighter(na, Plus(zero_le, na)) = na
    BY <2>1, <2>3, SMT DEF Tighter
  <2> QED BY <1>3, <2>4 DEF an, na
<1>5. ASSUME NEW a \in Index, NEW b \in Index
      PROVE  add_constraints(m[a][n], m[n][b]) = Plus(m[a][n], m[n][b])
  BY RoundSums
<1>6. ASSUME NEW a \in Index PROVE f[a][n] = m[a][n] /\ f[n][a] = m[n][a]
  <2>1. f[a][n] = m[a][n]
    <3>1. CASE a = r /\ n = c
      BY <1>1, <1>4, <1>5, <3>1
    <3>2. CASE a # r \/ n # c
      BY <1>1, <3>2
    <3> QED BY <3>1, <3>2
  <2>2. f[n][a] = m[n][a]
    <3>1. CASE n = r /\ a = c
      BY <1>1, <1>4, <1>5, <3>1
    <3>2. CASE n # r \/ a # c
      BY <1>1, <3>2
    <3> QED BY <3>1, <3>2
  <2> QED BY <2>1, <2>2
<1>7. f[r][c] = Completed(m, n, r, c)
  BY <1>1, <1>5 DEF Completed
<1>8. ASSUME NEW a \in Index, NEW b \in Index
      PROVE  /\ m[a][b] \in Entry /\ Plus(m[a][n], m[n][b]) \in Entry
             /\ Completed(m, n, a, b) <= Plus(m[a][n], m[n][b])
  BY RoundSums, TighterEntry DEF Completed
<1> HIDE DEF f
<1>9. ASSUME NEW a \in Index, NEW b \in Index
      PROVE  Completed(f, n, a, b) = Completed(m, n, a, b)
  <2>1. Completed(f, n, a, b) = Tighter(f[a][b], Plus(m[a][n], m[n][b]))
    BY <1>6 DEF Completed
  <2>2. CASE a = r /\ b = c
    <3> DEFINE old == m[a][b]  sum == Plus(m[a][n], m[n][b])
    <3>1. f[a][b] = Tighter(old, sum)
      BY <1>7, <2>2 DEF Completed
    <3>2. old \in Int /\ sum \in Int
      BY <1>8, EntryInt
    <3> HIDE DEF old, sum
    <3>3. Tighter(Tighter(old, sum), sum) = Tighter(old, sum)
      BY <3>2, SMT DEF Tighter
    <3> QED BY <2>1, <3>1, <3>3 DEF Completed, old, sum
  <2>3. CASE a # r \/ b # c
    BY <1>1, <2>1, <2>3 DEF Completed
  <2> QED BY <2>2, <2>3
<1>10. CompletedClosed(f, n)
  <2>1. CompletedClosed(m, n)
    BY DEF InRound
  <2> QED BY <1>9, <2>1 DEF CompletedClosed
<1>11. ASSUME NEW a \in Index, NEW b \in Index, Before(a, b, r, c) \/ (a = r /\ b = c)
       PROVE  f[a][b] <= Plus(f[a][n], f[n][b])
  <2>1. CASE a = r /\ b = c
    BY <1>6, <1>7, <1>8, <2>1
  <2>2. CASE ~(a = r /\ b = c)
    <3>1. m[a][b] <= Plus(m[a][n], m[n][b])
      BY <1>11, <2>2 DEF InRound
    <3> QED BY <1>1, <1>6, <2>2, <3>1
  <2> QED BY <2>1, <2>2
<1> QED BY <1>10, <1>11 DEF f

\* When a round has been through every entry, its pivot is done.
LEMMA RoundEnds ==
    ASSUME NEW m, WellFormed(m), Fits(m), NEW n \in Index,
           CompletedClosed(m, n),
           \A a, b \in Index : m[a][b] <= Plus(m[a][n], m[n][b])
    PROVE  ClosedBelow(m, n + 1)
<1>1. ASSUME NEW a \in Index, NEW b \in Index PROVE Completed(m, n, a, b) = m[a][b]
  <2> DEFINE old == m[a][b]  sum == Plus(m[a][n], m[n][b])
  <2>1. old \in Int /\ sum \in Int
    BY RoundSums, EntryInt
  <2>2. old <= sum
    OBVIOUS
  <2> HIDE DEF old, sum
  <2>3. Tighter(old, sum) = old
    BY <2>1, <2>2, SMT DEF Tighter
  <2> QED BY <2>3 DEF Completed, old, sum
<1>2. \A p \in Index : p < n + 1 => p <= n
  BY MatrixAssumption, SMT DEF Index
<1> QED BY <1>1, <1>2 DEF CompletedClosed, ClosedBelow

LEMMA RelaxFlagInv ==
    ASSUME TypeInv, FlagInv, NoOverflow, NoOverflow', Relax
    PROVE  FlagInv'
<1>1. /\ WellFormed(dbm) /\ Fits(dbm) /\ Fits(dbm')
      /\ pc = "cf" /\ pc' = "cf"
      /\ k \in Index /\ i \in Index /\ j \in Index
      /\ dbm' = Relaxed(dbm, k, i, j)
  BY DEF TypeInv, Relax, Relaxed, NoOverflow, Fits
<1>2. WellFormed(dbm') /\ \A a, b \in Index : dbm'[a][b] <= dbm[a][b]
  BY <1>1, RelaxedMatrix
<1> SUFFICES ASSUME ~emptiness(dbm') PROVE RoundInv'
  BY <1>1 DEF FlagInv
<1>3. ~emptiness(dbm)
  <2> SUFFICES ASSUME NEW p \in Index, dbm[p][p] <= zero_less PROVE FALSE
    BY <1>1, EmptyIff
  <2>1. dbm'[p][p] <= dbm[p][p]
    BY <1>2
  <2>2. dbm'[p][p] \in Int /\ dbm[p][p] \in Int /\ zero_less \in Int
    BY <1>1, <1>2, EntryInt, Width DEF WellFormed
  <2>3. dbm'[p][p] <= zero_less
    BY <2>1, <2>2, Transitive
  <2> QED BY <1>2, <2>3, EmptyIff
<1>4. InRound(dbm, k, i, j)
  BY <1>1, <1>3 DEF FlagInv, RoundInv
<1>5. /\ CompletedClosed(dbm', k)
      /\ \A a, b \in Index : Before(a, b, i, j) \/ (a = i /\ b = j) =>
           dbm'[a][b] <= Plus(dbm'[a][k], dbm'[k][b])
  <2>1. ~emptiness(Relaxed(dbm, k, i, j))
    BY <1>1
  <2> QED BY <1>1, <1>4, <2>1, RoundStep
<1>6. /\ j' = (IF j = N THEN 0 ELSE j + 1)
      /\ i' = (IF j # N THEN i ELSE IF i = N THEN 0 ELSE i + 1)
      /\ k' = (IF i = N /\ j = N THEN k + 1 ELSE k)
  BY DEF Relax
<1>7. CASE i = N /\ j = N
  <2>1. \A a, b \in Index : Before(a, b, i, j) \/ (a = i /\ b = j)
    BY <1>7, MatrixAssumption, SMT DEF Before, Index
  <2>2. ClosedBelow(dbm', k + 1)
    BY <1>1, <1>2, <1>5, <2>1, RoundEnds
  <2>3. k' = k + 1 /\ i' = 0 /\ j' = 0
    BY <1>6, <1>7
  <2>4. CASE k + 1 \in Index
    BY <1>1, <1>2, <2>2, <2>3, <2>4, RoundStarts DEF RoundInv
  <2>5. CASE k + 1 \notin Index
    <3>1. k + 1 = N + 1
      BY <1>1, <2>5, MatrixAssumption, SMT DEF Index
    <3> QED BY <2>2, <2>3, <2>5, <3>1 DEF RoundInv, Canonical
  <2> QED BY <2>4, <2>5
<1>8. CASE ~(i = N /\ j = N)
  <2>1. k' = k /\ k' \in Index
    BY <1>1, <1>6, <1>8
  <2>2. ASSUME NEW a \in Index, NEW b \in Index, Before(a, b, i', j')
        PROVE  Before(a, b, i, j) \/ (a = i /\ b = j)
    BY <1>1, <1>6, <1>8, <2>2, MatrixAssumption, SMT DEF Before, Index
  <2>3. InRound(dbm', k', i', j')
    BY <1>5, <2>1, <2>2 DEF InRound
  <2> QED BY <2>1, <2>3 DEF RoundInv
<1> QED BY <1>7, <1>8

\* An operation that clears the flag, or keeps it on an equal matrix, or
\* sets it on the empty one.
LEMMA UnflaggedInv ==
    ASSUME Called, m_is_cf' => emptiness(dbm') \/ Canonical(dbm')
    PROVE  FlagInv'
BY DEF Called, FlagInv

LEMMA NextFlagInv ==
    TypeInv /\ FlagInv /\ NoOverflow /\ NoOverflow' /\ [Next]_vars => FlagInv'
<1> SUFFICES ASSUME TypeInv, FlagInv, NoOverflow, NoOverflow', [Next]_vars
             PROVE  FlagInv'
  OBVIOUS
<1>0. WellFormed(dbm) /\ (pc = "idle" /\ m_is_cf => emptiness(dbm) \/ Canonical(dbm))
  BY DEF TypeInv, FlagInv
<1>1. ASSUME NEW Y \in Operands, Assign(Y) PROVE FlagInv'
  BY <1>1, UnflaggedInv DEF Assign
<1>2. ASSUME NEW Y \in Operands, Intersect(Y) PROVE FlagInv'
  <2>1. Called
    BY <1>2 DEF Intersect
  <2>2. m_is_cf' => m_is_cf /\ dbm' = dbm /\ pc = "idle"
    BY <1>2 DEF Intersect, Called
  <2> QED BY <1>0, <2>1, <2>2, UnflaggedInv
<1>3. CASE Suc
  <2>1. Called /\ dbm' = suc(dbm) /\ (m_is_cf' => m_is_cf) /\ pc = "idle"
    BY <1>3 DEF Suc, Preserves, Called
  <2>2. m_is_cf' => emptiness(suc(dbm)) \/ Canonical(suc(dbm))
    BY <1>0, <2>1, SucMatrix, SucCanonical
  <2> QED BY <2>1, <2>2, UnflaggedInv
<1>4. CASE Pre
  BY <1>4, UnflaggedInv DEF Pre, Clears
<1>5. CASE Bound
  BY <1>5, UnflaggedInv DEF Bound, Clears
<1>6. ASSUME NEW rs \in SUBSET Clocks, Reset(rs) PROVE FlagInv'
  <2> DEFINE source == [p \in Index |-> IF p \in rs THEN 0 ELSE p]
  <2>1. source \in [Index -> Index]
    BY SpecialEntries
  <2>2. Called /\ dbm' = Substituted(dbm, source) /\ (m_is_cf' => m_is_cf) /\ pc = "idle"
    BY <1>6 DEF Reset, reset, Preserves, Called
  <2> HIDE DEF source
  <2>3. m_is_cf' => emptiness(dbm') \/ Canonical(dbm')
    BY <1>0, <2>1, <2>2, SubstitutedMatrix, SubstitutedCanonical
  <2> QED BY <2>2, <2>3, UnflaggedInv
<1>7. ASSUME NEW rs \in SUBSET Clocks, Preset(rs) PROVE FlagInv'
  <2>1. Called /\ dbm' = preset(dbm, rs) /\ m_is_cf' = PresetIsEmpty(dbm, rs)
    BY <1>7 DEF Preset, ClearsUnless
  <2>2. m_is_cf' => dbm' = makeEmpty
    BY <2>1 DEF preset
  <2> QED BY <2>1, <2>2, EmptyMatrix, UnflaggedInv
<1>8. ASSUME NEW x \in Clocks, NEW y \in Clocks, ResetTo(x, y) PROVE FlagInv'
  BY <1>8, UnflaggedInv DEF ResetTo, Clears
<1>9. ASSUME NEW x \in Clocks, NEW y \in Clocks, PresetTo(x, y) PROVE FlagInv'
  <2>1. Called /\ (m_is_cf' => dbm' = makeEmpty)
    BY <1>9 DEF PresetTo, ClearsUnless
  <2> QED BY <2>1, EmptyMatrix, UnflaggedInv
<1>10. ASSUME NEW x \in Clocks, PresetClock(x) PROVE FlagInv'
  <2>1. Called /\ (m_is_cf' => dbm' = makeEmpty)
    BY <1>10 DEF PresetClock, ClearsUnless
  <2> QED BY <2>1, EmptyMatrix, UnflaggedInv
<1>11. CASE CfStart
  <2>1. /\ pc' = "cf" /\ k' = 0 /\ i' = 0 /\ j' = 0 /\ dbm' = dbm
    BY <1>11 DEF CfStart
  <2>2. ClosedBelow(dbm, 0)
    BY MatrixAssumption, SMT DEF ClosedBelow, Index
  <2>3. Fits(dbm) /\ 0 \in Index
    BY SpecialEntries DEF NoOverflow, Fits
  <2>4. ~emptiness(dbm) => InRound(dbm, 0, 0, 0)
    BY <1>0, <2>2, <2>3, RoundStarts
  <2>5. emptiness(dbm') \/ RoundInv'
    BY <2>1, <2>3, <2>4 DEF RoundInv
  <2> QED BY <2>1, <2>5 DEF FlagInv
<1>12. CASE CfEmpty
  <2>1. dbm' = makeEmpty /\ pc' = "idle"
    BY <1>12 DEF CfEmpty, LeaveLoops
  <2>2. emptiness(dbm')
    BY <2>1, EmptyMatrix
  <2> QED BY <2>1, <2>2 DEF FlagInv
<1>13. CASE Relax
  BY <1>13, RelaxFlagInv
<1>14. CASE CfDone
  <2>1. dbm' = dbm /\ pc' = "idle" /\ pc = "cf" /\ k = N + 1
    BY <1>14 DEF CfDone, LeaveLoops
  <2>2. k \notin Index
    BY <2>1, MatrixAssumption, SMT DEF Index
  <2>3. emptiness(dbm) \/ Canonical(dbm)
    BY <2>1, <2>2 DEF FlagInv, RoundInv
  <2> QED BY <2>1, <2>3 DEF FlagInv
<1>15. CASE UNCHANGED vars
  BY <1>15 DEF vars, FlagInv, RoundInv, InRound
<1> QED BY <1>1, <1>2, <1>3, <1>4, <1>5, <1>6, <1>7, <1>8, <1>9, <1>10,
           <1>11, <1>12, <1>13, <1>14, <1>15 DEF Next, Operation, Cf

(* While no sum overflows, the flag is set on canonical matrices and on      *)
(* matrices that show they are empty, and on no others: cf() computes the    *)
(* shortest paths in place, and the operations that keep the flag keep what  *)
(* it says.                                                                  *)
THEOREM FlagCorrect == Spec /\ []NoOverflow => []FlagMeansCanonical
<1>1. Init => FlagInv
  BY DEF Init, FlagInv
<1>2. FlagInv => FlagMeansCanonical
  BY DEF FlagInv, FlagMeansCanonical
<1>3. Spec => []TypeInv
  BY InitTypeInv, NextTypeInv, PTL DEF Spec
<1> QED BY <1>1, <1>2, <1>3, NextFlagInv, PTL DEF Spec

----------------------------------------------------------------------------
(* Emptiness *)

\* An empty matrix shows it at a clock.  The diagonal entry of the zero clock
\* alone would not do: pre() overwrites it.
ClockEmpty(m) == emptiness(m) => \E x \in Clocks : m[x][x] <= zero_less

\* What every operation but operator= does to the diagonal.
Sinks(m, f) ==
    \/ f = makeEmpty
    \/ /\ \A x \in Clocks : f[x][x] <= m[x][x]
       /\ emptiness(f) => emptiness(m) \/ \E x \in Clocks : f[x][x] <= zero_less

LEMMA SomeClock == 1 \in Clocks
BY MatrixAssumption, SMT DEF Clocks

LEMMA SinksKeeps ==
    ASSUME NEW m, NEW f, WellFormed(m), WellFormed(f), ClockEmpty(m), Sinks(m, f)
    PROVE  ClockEmpty(f) /\ (emptiness(m) => emptiness(f))
<1>1. CASE f = makeEmpty
  <2>1. makeEmpty[1][1] <= zero_less
    BY SomeClock, SpecialEntries, Width DEF makeEmpty, Entries
  <2> QED BY <1>1, <2>1, SomeClock, EmptyMatrix DEF ClockEmpty
<1>2. CASE f # makeEmpty
  <2>1. ASSUME emptiness(m) PROVE \E x \in Clocks : f[x][x] <= zero_less
    <3>1. PICK x \in Clocks : m[x][x] <= zero_less
      BY <2>1 DEF ClockEmpty
    <3>2. f[x][x] <= m[x][x]
      BY <1>2 DEF Sinks
    <3>3. x \in Index /\ f[x][x] \in Int /\ m[x][x] \in Int /\ zero_less \in Int
      BY SpecialEntries, EntryInt DEF WellFormed
    <3>4. f[x][x] <= zero_less
      BY <3>1, <3>2, <3>3, Transitive
    <3> QED BY <3>4
  <2>2. (\E x \in Clocks : f[x][x] <= zero_less) => emptiness(f)
    BY EmptyIff, SpecialEntries
  <2>3. emptiness(f) => emptiness(m) \/ \E x \in Clocks : f[x][x] <= zero_less
    BY <1>2 DEF Sinks
  <2> QED BY <2>1, <2>2, <2>3 DEF ClockEmpty
<1> QED BY <1>1, <1>2

\* The diagonal is left alone, at the clocks at least.
LEMMA SameClocksSink ==
    ASSUME NEW m, NEW f, WellFormed(m), WellFormed(f),
           \A x \in Clocks : f[x][x] = m[x][x],
           f[0][0] = m[0][0] \/ f[0][0] = zero_le
    PROVE  Sinks(m, f)
<1>1. \A x \in Clocks : x \in Index /\ f[x][x] \in Int /\ m[x][x] \in Int
  BY SpecialEntries, EntryInt DEF WellFormed
<1>2. \A x \in Clocks : f[x][x] <= m[x][x]
  BY <1>1, SMT
<1>3. ASSUME emptiness(f) PROVE emptiness(m)
  <2>1. PICK p \in Index : f[p][p] <= zero_less
    BY <1>3, EmptyIff
  <2>2. ~(zero_le <= zero_less)
    BY SMT DEF zero_le, zero_less
  <2>3. p \in Clocks \/ p = 0
    BY MatrixAssumption, SMT DEF Index, Clocks
  <2>4. m[p][p] <= zero_less
    BY <2>1, <2>2, <2>3
  <2> QED BY <2>4, EmptyIff
<1> QED BY <1>2, <1>3 DEF Sinks

LEMMA IntersectSinks ==
    ASSUME NEW m, WellFormed(m), NEW Y \in Operands
    PROVE  Sinks(m, intersect(m, Y))
<1> DEFINE f == intersect(m, Y)
<1>1. WellFormed(Y) /\ WellFormed(f)
  BY OperandMatrix, IntersectMatrix
<1>2. ASSUME NEW p \in Index
      PROVE  /\ f[p][p] = Tighter(m[p][p], Y[p][p])
             /\ f[p][p] \in Int /\ m[p][p] \in Int /\ Y[p][p] \in Int
             /\ f[p][p] <= m[p][p] /\ f[p][p] <= Y[p][p]
             /\ f[p][p] = m[p][p] \/ f[p][p] = Y[p][p]
  <2>1. f[p][p] = Tighter(m[p][p], Y[p][p])
    BY DEF intersect, Entries
  <2>2. m[p][p] \in Entry /\ Y[p][p] \in Entry /\ f[p][p] \in Entry
    BY <1>1 DEF WellFormed
  <2> HIDE DEF f
  <2> QED BY <2>1, <2>2, TighterEntry, EntryInt
<1> HIDE DEF f
<1>3. \A x \in Clocks : f[x][x] <= m[x][x]
  BY <1>2, SpecialEntries
<1>4. ASSUME emptiness(f), ~emptiness(m) PROVE \E x \in Clocks : f[x][x] <= zero_less
  <2>1. PICK p \in Index : f[p][p] <= zero_less
    BY <1>1, <1>4, EmptyIff
  <2>2. Y[p][p] <= zero_less
    BY <1>2, <1>4, <2>1, EmptyIff
  <2>3. PICK x \in Clocks : Y[x][x] <= zero_less
    <3>1. CASE p = 0
      <4>1. Y[0][0] # zero_le
        BY <2>2, <3>1, SMT DEF zero_le, zero_less
      <4> QED BY <4>1, DBMAssumption
    <3>2. CASE p # 0
      <4>1. p \in Clocks
        BY <3>2, MatrixAssumption, SMT DEF Index, Clocks
      <4> QED BY <2>2, <4>1
    <3> QED BY <3>1, <3>2
  <2>4. f[x][x] <= Y[x][x] /\ f[x][x] \in Int /\ Y[x][x] \in Int /\ zero_less \in Int
    BY <1>2, SpecialEntries, Width
  <2> QED BY <2>3, <2>4, Transitive
<1> QED BY <1>3, <1>4 DEF Sinks, f

\* A step of the loops never makes the entry of the zero clock negative
\* first: the round before would have left the entry of a clock negative.
LEMMA RelaxSinks ==
    ASSUME NEW m, WellFormed(m), Fits(m),
           NEW n \in Index, NEW r \in Index, NEW c \in Index,
           emptiness(m) \/ InRound(m, n, r, c)
    PROVE  Sinks(m, Relaxed(m, n, r, c))
<1> DEFINE f == Relaxed(m, n, r, c)
<1>1. /\ WellFormed(f)
      /\ \A a, b \in Index : f[a][b] <= m[a][b]
  BY RelaxedMatrix
<1>2. \A a, b \in Index : a # r \/ b # c => f[a][b] = m[a][b]
  BY RelaxedMatrix
<1>3. f[r][c] = Tighter(m[r][c], add_constraints(m[r][n], m[n][c]))
  BY RelaxedMatrix
<1> HIDE DEF f
<1>4. \A x \in Clocks : f[x][x] <= m[x][x]
  BY <1>1, SpecialEntries
<1>5. ASSUME emptiness(f), ~emptiness(m) PROVE \E x \in Clocks : f[x][x] <= zero_less
  <2>1. PICK p \in Index : f[p][p] <= zero_less
    BY <1>1, <1>5, EmptyIff
  <2>2. CASE p # 0
    <3>1. p \in Clocks
      BY <2>2, MatrixAssumption, SMT DEF Index, Clocks
    <3> QED BY <2>1, <3>1
  <2>3. CASE p = 0
    <3> DEFINE there == m[0][n]  back == m[n][0]
    <3>1. r = 0 /\ c = 0
      <4>1. ~(m[0][0] <= zero_less)
        BY <1>5, EmptyIff, SpecialEntries
      <4> QED BY <1>2, <2>1, <2>3, <4>1, SpecialEntries
    <3>2. m[0][0] = zero_le /\ m[n][n] = zero_le
      BY <1>5, NonEmptyDiagonal, SpecialEntries
    <3>3. /\ there \in Entry /\ back \in Entry
          /\ add_constraints(there, back) = Plus(there, back)
          /\ Plus(there, back) \in Entry /\ Plus(back, there) \in Entry
      BY RoundSums, SpecialEntries
    <3>4. zero_le <= Plus(back, there)
      <4>1. CASE n = 0
        <5>1. there = 1 /\ back = 1 /\ infinity # 1 /\ 1 \in Int
          BY <3>2, <4>1, Width, SMT DEF zero_le
        <5>2. Plus(1, 1) = Sum2(1, 1)
          BY <5>1 DEF Plus, IsFinite
        <5>3. Sum2(1, 1) = 2 * ((1 \div 2) + (1 \div 2)) + (IF 1 % 2 = 1 /\ 1 % 2 = 1 THEN 1 ELSE 0)
          BY Sum2Value
        <5>4. Sum2(1, 1) = 1
          BY <5>3, SMT
        <5> HIDE DEF there, back
        <5>5. Plus(back, there) = 1
          BY <5>1, <5>2, <5>4
        <5> QED BY <5>5, SMT DEF zero_le
      <4>2. CASE n # 0
        <5>1. 0 <= n
          BY MatrixAssumption, SMT DEF Index
        <5>2. Completed(m, n, n, n) <= Plus(Completed(m, n, n, 0), Completed(m, n, 0, n))
          BY <1>5, <5>1, SpecialEntries DEF InRound, CompletedClosed
        <5>3. ASSUME NEW a \in Index
              PROVE  Completed(m, n, a, n) = m[a][n] /\ Completed(m, n, n, a) = m[n][a]
          <6> DEFINE an == m[a][n]  na == m[n][a]
          <6>1. /\ an \in Int /\ an <= infinity /\ na \in Int /\ na <= infinity
                /\ zero_le \in Int /\ infinity \in Int
            BY EntryInt, Width DEF WellFormed
          <6> HIDE DEF an, na
          <6>2. Sum2(an, zero_le) >= an /\ Sum2(zero_le, na) >= na
            <7>1. zero_le >= zero_le
              BY Width
            <7> QED BY <6>1, <7>1, Sum2Neutral
          <6>3. /\ Plus(an, zero_le) \in Int /\ Plus(an, zero_le) >= an
                /\ Plus(zero_le, na) \in Int /\ Plus(zero_le, na) >= na
            BY <6>1, <6>2, PlusValue DEF Plus
          <6>4. Tighter(an, Plus(an, zero_le)) = an /\ Tighter(na, Plus(zero_le, na)) = na
            BY <6>1, <6>3, SMT DEF Tighter
          <6> QED BY <3>2, <6>4 DEF Completed, an, na
        <5> QED BY <3>2, <5>2, <5>3, SpecialEntries
      <4> QED BY <4>1, <4>2
    <3>5. Plus(there, back) = Plus(back, there)
      <4>1. there \in Int /\ back \in Int
        BY <3>3, EntryInt
      <4> HIDE DEF there, back
      <4>2. /\ Sum2(there, back) = 2 * ((there \div 2) + (back \div 2))
                                     + (IF there % 2 = 1 /\ back % 2 = 1 THEN 1 ELSE 0)
            /\ Sum2(back, there) = 2 * ((back \div 2) + (there \div 2))
                                     + (IF back % 2 = 1 /\ there % 2 = 1 THEN 1 ELSE 0)
        BY <4>1, Sum2Value
      <4>3. Sum2(there, back) = Sum2(back, there)
        BY <4>1, <4>2, SMT
      <4> QED BY <4>3 DEF Plus
    <3>6. Plus(there, back) \in Int /\ Plus(back, there) \in Int
      BY <3>3, EntryInt
    <3>7. f[0][0] = Tighter(zero_le, Plus(there, back))
      BY <1>3, <3>1, <3>2, <3>3
    <3> HIDE DEF there, back
    <3>8. f[0][0] = zero_le
      BY <3>4, <3>5, <3>6, <3>7, SMT DEF Tighter, zero_le
    <3> QED BY <2>1, <2>3, <3>8, SMT DEF zero_le, zero_less
  <2> QED BY <2>2, <2>3
<1> QED BY <1>4, <1>5 DEF Sinks, f

LEMMA NextSinks ==
    ASSUME TypeInv, FlagInv, NoOverflow, [Next]_vars,
           ~(\E Y \in Operands : Assign(Y))
    PROVE  Sinks(dbm, dbm')
<1>0. WellFormed(dbm) /\ WellFormed(dbm')
  BY NextTypeInv DEF TypeInv
<1> HIDE DEF Sinks
<1>1. CASE dbm' = makeEmpty
  BY <1>1 DEF Sinks
<1>2. CASE dbm' = dbm
  <2>1. \A x \in Clocks : dbm'[x][x] = dbm[x][x]
    BY <1>2
  <2> QED BY <1>0, <1>2, <2>1, SameClocksSink
<1>3. ASSUME NEW Y \in Operands, Intersect(Y) PROVE Sinks(dbm, dbm')
  <2>1. dbm' = dbm \/ dbm' = intersect(dbm, Y)
    BY <1>3 DEF Intersect
  <2> QED BY <1>0, <1>2, <2>1, IntersectSinks
<1>4. ASSUME \A p \in Clocks : dbm'[p][p] = dbm[p][p],
             dbm'[0][0] = dbm[0][0] \/ dbm'[0][0] = zero_le
      PROVE  Sinks(dbm, dbm')
  BY <1>0, <1>4, SameClocksSink
<1>5. CASE Suc
  <2>1. dbm' = suc(dbm)
    BY <1>5 DEF Suc, Preserves
  <2>2. \A p \in Index : dbm'[p][p] = dbm[p][p]
    BY <2>1, SMT, MatrixAssumption DEF suc, Entries, Clocks, Index
  <2> QED BY <1>4, <2>2, SpecialEntries
<1>6. CASE Pre
  <2>1. \A p \in Index : dbm'[p][p] = IF p = 0 THEN zero_le ELSE dbm[p][p]
    BY <1>6 DEF Pre, Clears, pre, Entries
  <2>2. \A p \in Clocks : p \in Index /\ p # 0
    BY MatrixAssumption, SMT DEF Clocks, Index
  <2> QED BY <1>4, <2>1, <2>2, SpecialEntries
<1>7. CASE Bound
  <2>1. \A p \in Index : dbm'[p][p] = dbm[p][p]
    BY <1>7 DEF Bound, Clears, bound, BoundClocks, Entries
  <2> QED BY <1>4, <2>1, SpecialEntries
<1>8. ASSUME NEW rs \in SUBSET Clocks, Reset(rs) PROVE Sinks(dbm, dbm')
  <2>1. \A p \in Index : dbm'[p][p] = dbm[p][p]
    BY <1>8 DEF Reset, Preserves, reset, Substituted, Entries
  <2> QED BY <1>4, <2>1, SpecialEntries
<1>9. ASSUME NEW rs \in SUBSET Clocks, Preset(rs) PROVE Sinks(dbm, dbm')
  <2>1. dbm' = preset(dbm, rs)
    BY <1>9 DEF Preset, ClearsUnless
  <2>2. CASE ~PresetIsEmpty(dbm, rs)
    <3>1. \A p \in Index : dbm'[p][p] = dbm[p][p]
      BY <2>1, <2>2 DEF preset, PresetEntry, Entries
    <3> QED BY <1>4, <3>1, SpecialEntries
  <2> QED BY <1>1, <2>1, <2>2 DEF preset
<1>10. ASSUME NEW x \in Clocks, NEW y \in Clocks, ResetTo(x, y) PROVE Sinks(dbm, dbm')
  <2>1. \A p \in Index : dbm'[p][p] = dbm[p][p]
    BY <1>10 DEF ResetTo, Clears, assign, Substituted, Entries
  <2> QED BY <1>4, <2>1, SpecialEntries
<1>11. ASSUME NEW x \in Clocks, dbm' = Free(dbm, x) PROVE Sinks(dbm, dbm')
  <2>1. \A p \in Index : dbm'[p][p] = dbm[p][p]
    BY <1>11 DEF Free, Entries
  <2> QED BY <1>4, <2>1, SpecialEntries
<1>12. ASSUME NEW x \in Clocks, NEW y \in Clocks, PresetTo(x, y) PROVE Sinks(dbm, dbm')
  <2>1. dbm' = makeEmpty \/ dbm' = Free(dbm, x)
    BY <1>12 DEF PresetTo, ClearsUnless, preset_assign
  <2> QED BY <1>1, <1>11, <2>1
<1>13. ASSUME NEW x \in Clocks, PresetClock(x) PROVE Sinks(dbm, dbm')
  <2>1. dbm' = makeEmpty \/ dbm' = Free(dbm, x)
    BY <1>13 DEF PresetClock, ClearsUnless, preset_clock
  <2> QED BY <1>1, <1>11, <2>1
<1>14. CASE Relax
  <2>1. /\ dbm' = Relaxed(dbm, k, i, j) /\ k \in Index /\ i \in Index /\ j \in Index
        /\ pc = "cf"
    BY <1>14 DEF Relax, Relaxed, TypeInv
  <2>2. Fits(dbm) /\ (emptiness(dbm) \/ InRound(dbm, k, i, j))
    BY <2>1 DEF NoOverflow, Fits, FlagInv, RoundInv
  <2> QED BY <1>0, <2>1, <2>2, RelaxSinks
<1>15. CfEmpty => dbm' = makeEmpty
  BY DEF CfEmpty
<1>16. CfStart \/ CfDone \/ UNCHANGED vars => dbm' = dbm
  BY DEF CfStart, CfDone, vars
<1> QED BY <1>1, <1>2, <1>3, <1>5, <1>6, <1>7, <1>8, <1>9, <1>10, <1>12, <1>13,
           <1>14, <1>15, <1>16 DEF Next, Operation, Cf

\* No clock of a nonempty zone is below zero.
NonNegative(m) == emptiness(m) \/ \A q \in Index : m[0][q] <= zero_le

\* The strict lower bound bound() puts in place of a higher one.
LEMMA LowBound ==
    ASSUME NEW m, WellFormed(m), ~emptiness(m), NEW q \in Index, Low(m, q)
    PROVE  /\ bound_to_constraint(constraint_to_bound(Upper(m, 0)) - MaxC, strict) = -2 * MaxC
           /\ -2 * MaxC <= zero_le /\ -2 * MaxC \in Int
           /\ Upper(m, 0) # infinity
<1>1. Upper(m, 0) = zero_le /\ zero_le # infinity
  BY NonEmptyDiagonal, SpecialEntries, Width DEF Upper
<1>2. m[0][q] \in Int /\ m[0][q] >= -Limit /\ Limit \in Nat /\ Limit % 4 = 0
  BY EntryInt, SpecialEntries, LimitAssumption DEF WellFormed, Raw
<1>3. MaxC \in Nat /\ -(m[0][q] \div 2) > MaxC
  BY MatrixAssumption DEF Low, constraint_to_bound
<1>4. -2 * MaxC \in Raw /\ -2 * MaxC <= 1 /\ -2 * MaxC \in Int
  BY <1>2, <1>3, SMT DEF Raw
<1>5. bound_to_constraint(constraint_to_bound(zero_le) - MaxC, strict) = Wrap(-2 * MaxC)
  <2>1. 2 * ((1 \div 2) - MaxC) + 0 = -2 * MaxC
    BY <1>3, SMT
  <2> QED BY <2>1 DEF bound_to_constraint, constraint_to_bound, zero_le, strict
<1>6. Wrap(-2 * MaxC) = -2 * MaxC
  BY <1>4, WrapIdentity
<1> QED BY <1>1, <1>4, <1>5, <1>6 DEF zero_le

LEMMA BoundNonNegative ==
    ASSUME NEW m, WellFormed(m), ~emptiness(m), \A q \in Index : m[0][q] <= zero_le,
           NEW q \in Index
    PROVE  bound(m)[0][q] <= zero_le
<1>1. bound(m)[0][q] = BoundClocks(m)[0][q]
  BY SpecialEntries DEF bound, Entries
<1>2. CASE q # 0 /\ Low(m, q)
  <2>1. BoundClocks(m)[0][q]
          = bound_to_constraint(constraint_to_bound(Upper(m, 0)) - MaxC, strict)
    BY <1>2, LowBound, SpecialEntries DEF BoundClocks, Entries
  <2> QED BY <1>1, <1>2, <2>1, LowBound
<1>3. CASE ~(q # 0 /\ Low(m, q))
  <2>1. BoundClocks(m)[0][q] = m[0][q]
    BY <1>3, SpecialEntries DEF BoundClocks, Entries
  <2> QED BY <1>1, <2>1
<1> QED BY <1>2, <1>3

LEMMA NextNonNegative ==
    ASSUME TypeInv, FlagInv, NoOverflow, ClockEmpty(dbm), NonNegative(dbm), [Next]_vars
    PROVE  NonNegative(dbm')
<1>0. /\ WellFormed(dbm) /\ WellFormed(dbm')
      /\ 0 \in Index /\ zero_le \in Int /\ zero_le <= zero_le
  BY NextTypeInv, SpecialEntries, Width DEF TypeInv
<1>1. ASSUME NEW Y \in Operands, Assign(Y) PROVE NonNegative(dbm')
  BY <1>1, DBMAssumption DEF Assign, NonNegative
<1>2. CASE emptiness(dbm) /\ ~(\E Y \in Operands : Assign(Y))
  <2>1. emptiness(dbm')
    BY <1>0, <1>2, NextSinks, SinksKeeps
  <2> QED BY <2>1 DEF NonNegative
<1>3. CASE ~emptiness(dbm) /\ ~(\E Y \in Operands : Assign(Y))
  <2>0. \A q \in Index : dbm[0][q] <= zero_le
    BY <1>3 DEF NonNegative
  <2>1. dbm' = makeEmpty => NonNegative(dbm')
    BY EmptyMatrix DEF NonNegative
  \* Entries that are not looser than before stay below zero.
  <2>2. ASSUME \A q \in Index : dbm'[0][q] <= dbm[0][q] \/ dbm'[0][q] <= zero_le
        PROVE  NonNegative(dbm')
    <3> SUFFICES ASSUME NEW q \in Index PROVE dbm'[0][q] <= zero_le
      BY DEF NonNegative
    <3>1. dbm'[0][q] \in Int /\ dbm[0][q] \in Int
      BY <1>0, EntryInt DEF WellFormed
    <3> QED BY <1>0, <2>0, <2>2, <3>1, Transitive
  <2>3. dbm' = dbm => NonNegative(dbm')
    BY <2>0 DEF NonNegative
  <2>4. ASSUME NEW Y \in Operands, Intersect(Y) PROVE NonNegative(dbm')
    <3>1. dbm' = dbm \/ dbm' = intersect(dbm, Y)
      BY <2>4 DEF Intersect
    <3>2. ASSUME dbm' = intersect(dbm, Y), NEW q \in Index PROVE dbm'[0][q] <= dbm[0][q]
      <4>1. dbm'[0][q] = Tighter(dbm[0][q], Y[0][q])
        BY <1>0, <3>2 DEF intersect, Entries
      <4>2. dbm[0][q] \in Entry /\ Y[0][q] \in Entry
        BY <1>0, OperandMatrix DEF WellFormed
      <4> QED BY <4>1, <4>2, TighterEntry
    <3> QED BY <2>2, <2>3, <3>1, <3>2
  <2>5. CASE Suc
    <3>1. \A q \in Index : dbm'[0][q] = dbm[0][q]
      BY <1>0, <2>5, MatrixAssumption, SMT DEF Suc, Preserves, suc, Entries, Clocks
    <3> QED BY <2>0, <2>2, <3>1
  <2>6. CASE Pre
    <3>1. \A q \in Index : dbm'[0][q] = zero_le
      BY <1>0, <2>6 DEF Pre, Clears, pre, Entries
    <3> QED BY <1>0, <2>2, <3>1
  <2>7. CASE Bound
    <3>1. dbm' = bound(dbm)
      BY <2>7 DEF Bound, Clears
    <3> QED BY <1>0, <1>3, <2>0, <2>2, <3>1, BoundNonNegative
  \* A substitution that leaves the zero clock alone.
  <2>8. ASSUME NEW source \in [Index -> Index], source[0] = 0, dbm' = Substituted(dbm, source)
        PROVE  NonNegative(dbm')
    <3>1. \A q \in Index : dbm'[0][q] = dbm[0][q] \/ dbm'[0][q] = dbm[0][source[q]]
      BY <1>0, <2>8 DEF Substituted, Entries
    <3>2. \A q \in Index : dbm'[0][q] <= zero_le
      BY <2>0, <3>1
    <3> QED BY <2>2, <3>2
  <2>9. ASSUME NEW rs \in SUBSET Clocks, Reset(rs) PROVE NonNegative(dbm')
    <3> DEFINE source == [p \in Index |-> IF p \in rs THEN 0 ELSE p]
    <3>1. source \in [Index -> Index] /\ source[0] = 0
      BY SpecialEntries
    <3>2. dbm' = Substituted(dbm, source)
      BY <2>9 DEF Reset, reset, Preserves
    <3> HIDE DEF source
    <3> QED BY <2>8, <3>1, <3>2
  <2>10. ASSUME NEW x \in Clocks, NEW y \in Clocks, ResetTo(x, y) PROVE NonNegative(dbm')
    <3> DEFINE source == [p \in Index |-> IF p = x THEN y ELSE p]
    <3>1. x # 0
      BY SMT DEF Clocks
    <3>2. source \in [Index -> Index] /\ source[0] = 0
      BY <3>1, SpecialEntries
    <3>3. dbm' = Substituted(dbm, source)
      BY <2>10 DEF ResetTo, assign, Clears
    <3> HIDE DEF source
    <3> QED BY <2>8, <3>2, <3>3
  <2>11. ASSUME NEW x \in Clocks, dbm' = Free(dbm, x) PROVE NonNegative(dbm')
    <3>1. x # 0
      BY SMT DEF Clocks
    <3>2. \A q \in Index : dbm'[0][q] = dbm[0][q] \/ dbm'[0][q] = zero_le
      BY <1>0, <2>11, <3>1 DEF Free, Entries
    <3>3. \A q \in Index : dbm'[0][q] <= zero_le
      BY <1>0, <2>0, <3>2
    <3> QED BY <2>2, <3>3
  <2>12. ASSUME NEW prs \in SUBSET Clocks, Preset(prs) PROVE NonNegative(dbm')
    <3>1. dbm' = preset(dbm, prs)
      BY <2>12 DEF Preset, ClearsUnless
    <3>2. ASSUME ~PresetIsEmpty(dbm, prs), NEW q \in Index PROVE dbm'[0][q] <= zero_le
      <4> DEFINE columns == {dbm[c][q] : c \in prs \cup {0}}
      <4>1. 0 \notin prs
        BY SMT DEF Clocks
      <4>2. dbm'[0][q] = PresetEntry(dbm, prs, 0, q)
        BY <1>0, <3>1, <3>2 DEF preset, Entries
      <4>3. \/ PresetEntry(dbm, prs, 0, q) = dbm[0][q]
            \/ PresetEntry(dbm, prs, 0, q) = zero_le
            \/ PresetEntry(dbm, prs, 0, q) = Tightest(columns)
        BY <4>1 DEF PresetEntry
      <4>4. columns \in SUBSET Entry /\ dbm[0][q] \in columns
        <5>1. prs \cup {0} \subseteq Index
          BY SpecialEntries
        <5>2. \A c \in prs \cup {0} : dbm[c][q] \in Entry
          BY <1>0, <5>1 DEF WellFormed
        <5> QED BY <5>2
      <4> HIDE DEF columns
      <4>5. Tightest(columns) \in Entry /\ Tightest(columns) <= dbm[0][q]
        BY <4>4, TightestEntry
      <4>6. Tightest(columns) \in Int /\ dbm[0][q] \in Int /\ dbm[0][q] <= zero_le
        BY <1>0, <2>0, <4>4, <4>5, EntryInt
      <4>7. Tightest(columns) <= zero_le
        BY <1>0, <4>5, <4>6, Transitive
      <4> QED BY <1>0, <4>2, <4>3, <4>6, <4>7
    <3>3. PresetIsEmpty(dbm, prs) => dbm' = makeEmpty
      BY <3>1 DEF preset
    <3> QED BY <2>1, <2>2, <3>2, <3>3
  <2>13. ASSUME NEW x \in Clocks, NEW y \in Clocks, PresetTo(x, y) PROVE NonNegative(dbm')
    <3>1. dbm' = makeEmpty \/ dbm' = Free(dbm, x)
      BY <2>13 DEF PresetTo, ClearsUnless, preset_assign
    <3> QED BY <2>1, <2>11, <3>1
  <2>14. ASSUME NEW x \in Clocks, PresetClock(x) PROVE NonNegative(dbm')
    <3>1. dbm' = makeEmpty \/ dbm' = Free(dbm, x)
      BY <2>14 DEF PresetClock, ClearsUnless, preset_clock
    <3> QED BY <2>1, <2>11, <3>1
  <2>15. CASE Relax
    <3>1. dbm' = Relaxed(dbm, k, i, j) /\ k \in Index /\ i \in Index /\ j \in Index
      BY <2>15 DEF Relax, Relaxed, TypeInv
    <3>2. \A q \in Index : dbm'[0][q] <= dbm[0][q]
      BY <1>0, <3>1, RelaxedMatrix
    <3> QED BY <2>2, <3>2
  <2>16. CfEmpty => dbm' = makeEmpty
    BY DEF CfEmpty
  <2>17. CfStart \/ CfDone \/ UNCHANGED vars => dbm' = dbm
    BY DEF CfStart, CfDone, vars
  <2> QED BY <1>1, <2>1, <2>3, <2>4, <2>5, <2>6, <2>7, <2>9, <2>10, <2>12, <2>13, <2>14,
             <2>15, <2>16, <2>17 DEF Next, Operation, Cf
<1> QED BY <1>1, <1>2, <1>3

\* What is known of the matrix in every state.
MatrixInv == TypeInv /\ FlagInv /\ ClockEmpty(dbm) /\ NonNegative(dbm)

LEMMA InitMatrixInv == Init => MatrixInv
<1>1. Init => TypeInv /\ FlagInv
  BY InitTypeInv DEF Init, FlagInv
<1>2. ClockEmpty(makeInfty)
  <2>1. ~emptiness(makeInfty)
    <3>1. \A p \in Index : makeInfty[p][p] = zero_le
      BY DEF makeInfty, Entries
    <3> QED BY <3>1, InitialMatrix, EmptyIff, SMT DEF zero_le, zero_less
  <2> QED BY <2>1 DEF ClockEmpty
<1>3. NonNegative(makeInfty)
  BY SpecialEntries, Width DEF NonNegative, makeInfty, Entries
<1> QED BY <1>1, <1>2, <1>3 DEF Init, MatrixInv

LEMMA NextMatrixInv ==
    MatrixInv /\ NoOverflow /\ NoOverflow' /\ [Next]_vars => MatrixInv'
<1> SUFFICES ASSUME MatrixInv, NoOverflow, NoOverflow', [Next]_vars PROVE MatrixInv'
  OBVIOUS
<1>1. TypeInv' /\ FlagInv' /\ NonNegative(dbm')
  BY NextTypeInv, NextFlagInv, NextNonNegative DEF MatrixInv
<1>2. WellFormed(dbm) /\ WellFormed(dbm')
  BY <1>1 DEF MatrixInv, TypeInv
<1>3. CASE \E Y \in Operands : Assign(Y)
  <2>1. PICK Y \in Operands : dbm' = Y
    BY <1>3 DEF Assign
  <2>2. ClockEmpty(Y)
    <3>1. CASE Y[0][0] = zero_le
      <4>1. ASSUME emptiness(Y) PROVE \E x \in Clocks : Y[x][x] <= zero_less
        <5>1. PICK p \in Index : Y[p][p] <= zero_less
          BY <4>1, OperandMatrix, EmptyIff
        <5>2. p # 0
          BY <3>1, <5>1, SMT DEF zero_le, zero_less
        <5>3. p \in Clocks
          BY <5>2, MatrixAssumption, SMT DEF Index, Clocks
        <5> QED BY <5>1, <5>3
      <4> QED BY <4>1 DEF ClockEmpty
    <3>2. CASE \E x \in Clocks : Y[x][x] <= zero_less
      BY <3>2 DEF ClockEmpty
    <3> QED BY <3>1, <3>2, DBMAssumption
  <2>3. ClockEmpty(dbm')
    BY <2>1, <2>2
  <2> QED BY <1>1, <2>3 DEF ClockEmpty, NonNegative, MatrixInv
<1>4. CASE ~(\E Y \in Operands : Assign(Y))
  <2>1. ClockEmpty(dbm')
    BY <1>2, <1>4, NextSinks, SinksKeeps DEF MatrixInv
  <2> QED BY <1>1, <2>1 DEF ClockEmpty, NonNegative, MatrixInv
<1> QED BY <1>3, <1>4

(* While no sum overflows, an empty zone is never brought back by a later    *)
(* operation, flagged or not: only an assignment replaces it.                *)
THEOREM EmptyStaysCorrect == Spec /\ []NoOverflow => EmptyStaysEmpty
<1>1. MatrixInv /\ NoOverflow /\ [Next]_vars
        => [\/ ~(m_is_cf /\ emptiness(dbm))
            \/ emptiness(dbm')
            \/ \E Y \in Operands : Assign(Y)]_vars
  <2> SUFFICES ASSUME MatrixInv, NoOverflow, [Next]_vars, emptiness(dbm),
                      ~(\E Y \in Operands : Assign(Y))
               PROVE  emptiness(dbm')
    OBVIOUS
  <2>1. TypeInv /\ FlagInv /\ ClockEmpty(dbm)
    BY DEF MatrixInv
  <2>2. WellFormed(dbm) /\ WellFormed(dbm')
    BY <2>1, NextTypeInv DEF TypeInv
  <2> QED BY <2>1, <2>2, NextSinks, SinksKeeps
<1> QED BY <1>1, InitMatrixInv, NextMatrixInv, PTL DEF Spec, EmptyStaysEmpty

----------------------------------------------------------------------------
(* Closures *)

LEMMA InfinityIsEven == infinity \in Int /\ infinity % 2 = 0 /\ infinity >= 6
BY LimitAssumption, SMT DEF infinity, infinity_bound

\* What closure() and closureRev() make of the bounds.
LEMMA WeakEntry ==
    ASSUME NEW m, WellFormed(m), ~emptiness(m), NEW a \in Index, NEW b \in Index
    PROVE  closure(m)[a][b] = IF IsFinite(m[a][b]) THEN 2 * (m[a][b] \div 2) + 1 ELSE infinity
<1>1. closure(m)[a][b] = IF a # b /\ IsFinite(m[a][b]) THEN make_constraint_weak(m[a][b])
                                                       ELSE m[a][b]
  BY DEF closure, WithStrictness, Entries
<1>2. m[a][b] \in Int
  BY EntryInt DEF WellFormed
<1>3. make_constraint_weak(m[a][b]) = 2 * (m[a][b] \div 2) + 1
  BY <1>2, SMT DEF make_constraint_weak, constraint_to_strictness, strict
<1>4. a = b => m[a][b] = 1 /\ 2 * (1 \div 2) + 1 = 1 /\ infinity # 1
  BY NonEmptyDiagonal, InfinityIsEven, SMT DEF zero_le
<1> QED BY <1>1, <1>3, <1>4 DEF IsFinite

LEMMA StrictEntry ==
    ASSUME NEW m, WellFormed(m), ~emptiness(m), NEW a \in Index, NEW b \in Index
    PROVE  closureRev(m)[a][b] =
             IF a = b THEN 1
             ELSE IF IsFinite(m[a][b]) THEN 2 * (m[a][b] \div 2) ELSE infinity
<1>1. closureRev(m)[a][b] = IF a # b /\ IsFinite(m[a][b]) THEN make_constraint_strict(m[a][b])
                                                          ELSE m[a][b]
  BY DEF closureRev, WithStrictness, Entries
<1>2. m[a][b] \in Int
  BY EntryInt DEF WellFormed
<1>3. make_constraint_strict(m[a][b]) = 2 * (m[a][b] \div 2)
  BY <1>2, SMT DEF make_constraint_strict, constraint_to_strictness, weak
<1>4. a = b => m[a][b] = 1
  BY NonEmptyDiagonal DEF zero_le
<1> QED BY <1>1, <1>3, <1>4 DEF IsFinite

\* In a canonical matrix the bounds alone satisfy the triangle inequality.
LEMMA TriangleOfBounds ==
    ASSUME NEW m, WellFormed(m), Fits(m), Canonical(m),
           NEW a \in Index, NEW b \in Index, NEW p \in Index,
           IsFinite(m[a][p]), IsFinite(m[p][b])
    PROVE  /\ IsFinite(m[a][b])
           /\ m[a][b] <= Sum2(m[a][p], m[p][b])
           /\ m[a][b] \div 2 <= (m[a][p] \div 2) + (m[p][b] \div 2)
<1> DEFINE x == m[a][p]  y == m[p][b]  z == m[a][b]
<1>1. x \in Int /\ y \in Int /\ z \in Int
  BY EntryInt DEF WellFormed
<1>2. z <= Sum2(x, y) /\ Sum2(x, y) \in (-Limit) .. (infinity - 1)
  <2>1. p < N + 1
    BY MatrixAssumption, SMT DEF Index
  <2>2. z <= Plus(x, y)
    BY <2>1 DEF Canonical, ClosedBelow
  <2> QED BY <2>2 DEF Plus, Fits
<1>3. Sum2(x, y) = 2 * ((x \div 2) + (y \div 2)) + (IF x % 2 = 1 /\ y % 2 = 1 THEN 1 ELSE 0)
  BY <1>1, Sum2Value
<1>4. infinity \in Int /\ Limit \in Int
  BY InfinityIsEven, LimitAssumption
<1> HIDE DEF x, y, z
<1>5. z # infinity /\ z \div 2 <= (x \div 2) + (y \div 2)
  BY <1>1, <1>2, <1>3, <1>4, SMT
<1> QED BY <1>2, <1>5 DEF x, y, z, IsFinite

LEMMA WeakKeepsCanonical ==
    ASSUME NEW m, WellFormed(m), Fits(m), ~emptiness(m), Canonical(m)
    PROVE  Canonical(closure(m))
<1> DEFINE f == closure(m)
<1> SUFFICES ASSUME NEW p \in Index, NEW a \in Index, NEW b \in Index
             PROVE  f[a][b] <= Plus(f[a][p], f[p][b])
  BY DEF Canonical, ClosedBelow
<1> DEFINE x == m[a][p]  y == m[p][b]  z == m[a][b]
<1>1. x \in Int /\ y \in Int /\ z \in Int /\ z <= infinity
  BY EntryInt DEF WellFormed
<1>2. /\ f[a][p] = IF IsFinite(x) THEN 2 * (x \div 2) + 1 ELSE infinity
      /\ f[p][b] = IF IsFinite(y) THEN 2 * (y \div 2) + 1 ELSE infinity
      /\ f[a][b] = IF IsFinite(z) THEN 2 * (z \div 2) + 1 ELSE infinity
  BY WeakEntry
<1>3. IsFinite(x) /\ IsFinite(y)
        => IsFinite(z) /\ z \div 2 <= (x \div 2) + (y \div 2)
  BY TriangleOfBounds
<1> HIDE DEF f, x, y, z
<1>4. CASE IsFinite(x) /\ IsFinite(y)
  <2> DEFINE u == 2 * (x \div 2) + 1  w == 2 * (y \div 2) + 1
  <2>1. u \in Int /\ w \in Int /\ u # infinity /\ w # infinity
        /\ u \div 2 = x \div 2 /\ w \div 2 = y \div 2 /\ u % 2 = 1 /\ w % 2 = 1
    BY <1>1, InfinityIsEven, SMT
  <2>2. Plus(f[a][p], f[p][b]) = Sum2(u, w)
    BY <1>2, <1>4, <2>1 DEF Plus, IsFinite
  <2> HIDE DEF u, w
  <2>3. Sum2(u, w) = 2 * ((x \div 2) + (y \div 2)) + 1
    BY <2>1, Sum2Value
  <2>4. f[a][b] = 2 * (z \div 2) + 1
    BY <1>2, <1>3, <1>4
  <2> QED BY <1>1, <1>3, <1>4, <2>2, <2>3, <2>4, SMT
<1>5. CASE ~(IsFinite(x) /\ IsFinite(y))
  <2>1. Plus(f[a][p], f[p][b]) = infinity
    BY <1>2, <1>5 DEF Plus, IsFinite
  <2>2. f[a][b] <= infinity
    BY <1>1, <1>2, InfinityIsEven, SMT DEF IsFinite
  <2> QED BY <2>1, <2>2
<1> QED BY <1>4, <1>5

\* The sum of two constraints made strict.
LEMMA StrictSum ==
    ASSUME NEW x \in Int, NEW y \in Int
    PROVE  Sum2(2 * (x \div 2), 2 * (y \div 2)) = 2 * ((x \div 2) + (y \div 2))
<1> DEFINE u == 2 * (x \div 2)  w == 2 * (y \div 2)
<1>1. u \in Int /\ w \in Int /\ u \div 2 = x \div 2 /\ w \div 2 = y \div 2 /\ u % 2 = 0 /\ w % 2 = 0
  BY SMT
<1> HIDE DEF u, w
<1>2. Sum2(u, w) = 2 * ((u \div 2) + (w \div 2)) + (IF u % 2 = 1 /\ w % 2 = 1 THEN 1 ELSE 0)
  BY <1>1, Sum2Value
<1>3. Sum2(u, w) = 2 * ((x \div 2) + (y \div 2))
  BY <1>1, <1>2, SMT
<1> QED BY <1>3 DEF u, w

LEMMA StrictIsFinite ==
    ASSUME NEW x \in Entry, IsFinite(x)
    PROVE  IsFinite(2 * (x \div 2)) /\ 2 * (x \div 2) \in Int
BY EntryInt, InfinityIsEven, SMT DEF IsFinite

\* Sums of constraints and their bounds.
LEMMA SumAndBounds ==
    ASSUME NEW x \in Int, NEW y \in Int
    PROVE  /\ Sum2(x, y) >= 1 => (x \div 2) + (y \div 2) >= 0
           /\ Sum2(x, y) >= 1 /\ (x \div 2) + (y \div 2) = 0 => Sum2(x, y) = 1
           /\ Sum2(x, y) = 1 => (x \div 2) + (y \div 2) = 0
<1>1. Sum2(x, y) = 2 * ((x \div 2) + (y \div 2)) + (IF x % 2 = 1 /\ y % 2 = 1 THEN 1 ELSE 0)
  BY Sum2Value
<1> QED BY <1>1, SMT

LEMMA StrictKeepsCanonical ==
    ASSUME NEW m, WellFormed(m), Fits(m), ~emptiness(m), Canonical(m)
    PROVE  Canonical(closureRev(m)) <=> ~Pinned(m)
<1> DEFINE f == closureRev(m)
<1>1. \A a, b \in Index : /\ m[a][b] \in Entry /\ m[a][b] \in Int /\ m[a][b] <= infinity
                          /\ m[a][a] = 1
  BY EntryInt, NonEmptyDiagonal DEF WellFormed, zero_le
<1>2. \A a, b \in Index :
        f[a][b] = IF a = b THEN 1
                  ELSE IF IsFinite(m[a][b]) THEN 2 * (m[a][b] \div 2) ELSE infinity
  BY StrictEntry
<1>3. IsFinite(1)
  BY InfinityIsEven, SMT DEF IsFinite
<1>4. \A p \in Index : p < N + 1
  BY MatrixAssumption, SMT DEF Index
<1> HIDE DEF f
\* The sum through a third clock, made strict.
<1>5. ASSUME NEW a \in Index, NEW b \in Index, NEW p \in Index, a # p, p # b
      PROVE  Plus(f[a][p], f[p][b])
               = IF IsFinite(m[a][p]) /\ IsFinite(m[p][b])
                 THEN 2 * ((m[a][p] \div 2) + (m[p][b] \div 2)) ELSE infinity
  <2> DEFINE x == m[a][p]  y == m[p][b]
  <2>1. x \in Entry /\ x \in Int /\ y \in Entry /\ y \in Int
    BY <1>1
  <2>2. /\ f[a][p] = IF IsFinite(x) THEN 2 * (x \div 2) ELSE infinity
        /\ f[p][b] = IF IsFinite(y) THEN 2 * (y \div 2) ELSE infinity
    BY <1>2, <1>5
  <2> HIDE DEF x, y
  <2>3. CASE IsFinite(x) /\ IsFinite(y)
    <3>1. IsFinite(2 * (x \div 2)) /\ IsFinite(2 * (y \div 2))
      BY <2>1, <2>3, StrictIsFinite
    <3>2. Plus(f[a][p], f[p][b]) = Sum2(2 * (x \div 2), 2 * (y \div 2))
      BY <2>2, <2>3, <3>1 DEF Plus
    <3> QED BY <2>1, <2>3, <3>2, StrictSum DEF x, y
  <2>4. CASE ~(IsFinite(x) /\ IsFinite(y))
    BY <2>2, <2>4 DEF Plus, IsFinite, x, y
  <2> QED BY <2>3, <2>4
<1>6. ASSUME ~Pinned(m), NEW p \in Index, NEW a \in Index, NEW b \in Index
      PROVE  f[a][b] <= Plus(f[a][p], f[p][b])
  <2>1. f[a][b] \in Int /\ f[a][b] <= infinity
    <3>1. CASE a = b
      BY <1>2, <3>1, InfinityIsEven
    <3>2. CASE a # b
      <4> DEFINE z == m[a][b]
      <4>1. z \in Int /\ z <= infinity /\ infinity \in Int
        BY <1>1, InfinityIsEven
      <4>2. f[a][b] = IF IsFinite(z) THEN 2 * (z \div 2) ELSE infinity
        BY <1>2, <3>2
      <4> HIDE DEF z
      <4>3. 2 * (z \div 2) \in Int /\ 2 * (z \div 2) <= infinity
        BY <4>1, SMT
      <4> QED BY <4>1, <4>2, <4>3
    <3> QED BY <3>1, <3>2
  <2>2. CASE a = p \/ p = b
    <3> DEFINE z == f[a][b]
    <3>1. Plus(f[a][p], f[p][b]) = Plus(1, z) \/ Plus(f[a][p], f[p][b]) = Plus(z, 1)
      BY <1>2, <2>2
    <3> HIDE DEF z
    <3>2. z \in Int /\ z <= infinity
      BY <2>1 DEF z
    <3>3. CASE IsFinite(z)
      <4>1. Sum2(1, z) >= z /\ Sum2(z, 1) >= z
        BY <3>2, Sum2Neutral, SMT DEF zero_le
      <4> QED BY <1>3, <3>1, <3>3, <4>1 DEF Plus, z
    <3>4. CASE ~IsFinite(z)
      BY <3>1, <3>2, <3>4 DEF Plus, z
    <3> QED BY <3>3, <3>4
  <2>3. CASE a # p /\ p # b
    <3> DEFINE x == m[a][p]  y == m[p][b]  z == m[a][b]
    <3>1. x \in Int /\ y \in Int /\ z \in Int
      BY <1>1
    <3>2. CASE ~(IsFinite(x) /\ IsFinite(y))
      BY <1>5, <2>1, <2>3, <3>2
    <3>3. CASE IsFinite(x) /\ IsFinite(y) /\ a # b
      <4>1. IsFinite(z) /\ z \div 2 <= (x \div 2) + (y \div 2)
        BY <3>3, TriangleOfBounds
      <4>2. f[a][b] = 2 * (z \div 2)
        BY <1>2, <3>3, <4>1
      <4>3. Plus(f[a][p], f[p][b]) = 2 * ((x \div 2) + (y \div 2))
        BY <1>5, <2>3, <3>3
      <4> HIDE DEF x, y, z
      <4> QED BY <3>1, <4>1, <4>2, <4>3, SMT
    <3>4. CASE IsFinite(x) /\ IsFinite(y) /\ a = b
      <4>1. 1 <= Sum2(x, y)
        BY <1>1, <3>4, TriangleOfBounds
      <4>2. Sum2(x, y) # 1
        BY <1>6, <2>3, <3>4 DEF Pinned, Plus, zero_le
      <4>3. Plus(f[a][p], f[p][b]) = 2 * ((x \div 2) + (y \div 2)) /\ f[a][b] = 1
        BY <1>2, <1>5, <2>3, <3>4
      <4> HIDE DEF x, y, z
      <4>4. (x \div 2) + (y \div 2) >= 0 /\ (x \div 2) + (y \div 2) # 0
        BY <3>1, <4>1, <4>2, Sum2Int, SumAndBounds
      <4> QED BY <3>1, <4>3, <4>4, SMT
    <3> QED BY <3>2, <3>3, <3>4
  <2> QED BY <2>2, <2>3
<1>7. ASSUME Pinned(m), Canonical(f) PROVE FALSE
  <2>1. PICK p \in Index, q \in Index : p # q /\ Plus(m[p][q], m[q][p]) = zero_le
    BY <1>7 DEF Pinned
  <2> DEFINE x == m[p][q]  y == m[q][p]
  <2>2. IsFinite(x) /\ IsFinite(y) /\ Sum2(x, y) = 1
    BY <1>3, <2>1 DEF Plus, zero_le, IsFinite
  <2>3. x \in Int /\ y \in Int
    BY <1>1
  <2>4. 1 <= 2 * ((x \div 2) + (y \div 2))
    <3>1. f[p][p] <= Plus(f[p][q], f[q][p])
      BY <1>4, <1>7 DEF Canonical, ClosedBelow
    <3> QED BY <1>2, <1>5, <2>1, <2>2, <3>1
  <2> HIDE DEF x, y
  <2>5. (x \div 2) + (y \div 2) = 0
    BY <2>2, <2>3, SumAndBounds
  <2> QED BY <2>4, <2>5, SMT
<1>8. ~Pinned(m) => Canonical(f)
  BY <1>6 DEF Canonical, ClosedBelow
<1> QED BY <1>7, <1>8 DEF f

(* While no sum overflows, closure() of a flagged matrix is canonical, and   *)
(* closureRev() of it is, too, exactly when no two clocks have a fixed       *)
(* difference.                                                               *)
THEOREM ClosuresCorrect == Spec /\ []NoOverflow => []ClosuresKeepCanonical
<1>1. Init => FlagInv
  BY DEF Init, FlagInv
<1>2. TypeInv /\ FlagInv /\ NoOverflow => ClosuresKeepCanonical
  <2> SUFFICES ASSUME TypeInv, FlagInv, NoOverflow, pc = "idle", m_is_cf, ~emptiness(dbm)
               PROVE  Canonical(closure(dbm)) /\ (Canonical(closureRev(dbm)) <=> ~Pinned(dbm))
    BY DEF ClosuresKeepCanonical
  <2>1. WellFormed(dbm) /\ Fits(dbm) /\ Canonical(dbm)
    BY DEF TypeInv, NoOverflow, Fits, FlagInv
  <2> QED BY <2>1, WeakKeepsCanonical, StrictKeepsCanonical
<1>3. Spec => []TypeInv
  BY InitTypeInv, NextTypeInv, PTL DEF Spec
<1> QED BY <1>1, <1>2, <1>3, NextFlagInv, PTL DEF Spec

=============================================================================
