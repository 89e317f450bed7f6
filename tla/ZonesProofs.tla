---------------------------- MODULE ZonesProofs ----------------------------
(***************************************************************************)
(* What matrices stand for, for every number of clocks and every           *)
(* valuation of integers: cf() keeps the zone, and the entry-wise          *)
(* operations on matrices are those on sets of valuations.                 *)
(***************************************************************************)
EXTENDS Zones, ZoneLists, DBMProofs

----------------------------------------------------------------------------
(* One constraint *)

\* What Satisfies says of an entry, in numbers.
LEMMA SatisfiesValue ==
    ASSUME NEW d \in Int, NEW c \in Int
    PROVE  Satisfies(d, c) <=>
             \/ c = infinity
             \/ d < 6 * (c \div 2)
             \/ d = 6 * (c \div 2) /\ c % 2 = 1
BY DEF Satisfies, IsFinite, Scale, constraint_to_bound, constraint_to_strictness, weak

\* A looser constraint is satisfied as well.
LEMMA SatisfiesLooser ==
    ASSUME NEW d \in Int, NEW b \in Entry, NEW c \in Entry, b <= c, Satisfies(d, b)
    PROVE  Satisfies(d, c)
<1>1. b \in Int /\ c \in Int /\ c <= infinity /\ infinity \in Int
  BY EntryInt, Width
<1>2. CASE c = infinity
  BY <1>1, <1>2, SatisfiesValue
<1>3. CASE c # infinity
  <2>1. b # infinity
    BY <1>1, <1>3, SMT
  <2>2. d < 6 * (b \div 2) \/ (d = 6 * (b \div 2) /\ b % 2 = 1)
    BY <1>1, <2>1, SatisfiesValue
  <2>3. d < 6 * (c \div 2) \/ (d = 6 * (c \div 2) /\ c % 2 = 1)
    BY <1>1, <2>2, SMT
  <2> QED BY <1>1, <2>3, SatisfiesValue
<1> QED BY <1>2, <1>3

\* Of two constraints the tighter one is both.
LEMMA SatisfiesTighter ==
    ASSUME NEW d \in Int, NEW b \in Entry, NEW c \in Entry
    PROVE  Satisfies(d, Tighter(b, c)) <=> Satisfies(d, b) /\ Satisfies(d, c)
<1>1. Tighter(b, c) \in Entry /\ Tighter(b, c) <= b /\ Tighter(b, c) <= c
  BY TighterEntry
<1>2. Tighter(b, c) = b \/ Tighter(b, c) = c
  BY TighterEntry
<1>3. Satisfies(d, Tighter(b, c)) => Satisfies(d, b) /\ Satisfies(d, c)
  <2> HIDE DEF Tighter, Satisfies
  <2> QED BY <1>1, SatisfiesLooser
<1> QED BY <1>2, <1>3

\* Differences add up as constraints do, as long as the sum fits.
LEMMA SatisfiesSum ==
    ASSUME NEW d \in Int, NEW e \in Int, NEW b \in Entry, NEW c \in Entry,
           Satisfies(d, b), Satisfies(e, c)
    PROVE  Satisfies(d + e, Plus(b, c))
<1>1. b \in Int /\ c \in Int /\ infinity \in Int /\ Plus(b, c) \in Int
  BY EntryInt, Width, PlusValue
<1>2. CASE b = infinity \/ c = infinity
  <2>1. Plus(b, c) = infinity
    BY <1>2 DEF Plus, IsFinite
  <2>2. d + e \in Int
    BY SMT
  <2> QED BY <1>1, <2>1, <2>2, SatisfiesValue
<1>3. CASE b # infinity /\ c # infinity
  <2>1. Plus(b, c) = 2 * ((b \div 2) + (c \div 2))
                       + (IF b % 2 = 1 /\ c % 2 = 1 THEN 1 ELSE 0)
    BY <1>1, <1>3, PlusValue, Sum2Value DEF IsFinite
  <2>2. /\ Plus(b, c) \div 2 = (b \div 2) + (c \div 2)
        /\ Plus(b, c) % 2 = (IF b % 2 = 1 /\ c % 2 = 1 THEN 1 ELSE 0)
    BY <1>1, <2>1, SMT
  <2>3. /\ d < 6 * (b \div 2) \/ (d = 6 * (b \div 2) /\ b % 2 = 1)
        /\ e < 6 * (c \div 2) \/ (e = 6 * (c \div 2) /\ c % 2 = 1)
    BY <1>1, <1>3, SatisfiesValue
  <2>4. \/ d + e < 6 * ((b \div 2) + (c \div 2))
        \/ d + e = 6 * ((b \div 2) + (c \div 2)) /\ b % 2 = 1 /\ c % 2 = 1
    BY <1>1, <2>3, SMT
  <2>5. d + e \in Int
    BY SMT
  <2> QED BY <1>1, <2>2, <2>4, <2>5, SatisfiesValue
<1> QED BY <1>2, <1>3

(* negate_constraint() is the negation of the constraint, on the opposite    *)
(* difference, which complementDBM takes apart a zone with.  The bound on c  *)
(* is tight: one below, the negation is encoded as infinity.                 *)
THEOREM NegationMeaning ==
    ASSUME NEW d \in Int, NEW c \in Entry, IsFinite(c), c > 1 - infinity
    PROVE  Satisfies(-d, negate_constraint(c)) <=> ~Satisfies(d, c)
<1> DEFINE n == 2 * (-(c \div 2)) + (1 - (c % 2))
<1>1. c \in Int /\ c <= infinity /\ c # infinity /\ infinity = Limit - 2 /\ Limit \in Nat
      /\ Limit % 4 = 0
  BY EntryInt, Width, LimitAssumption DEF IsFinite
<1>2. n \in Raw /\ n \in Int /\ n < infinity
  BY <1>1, SMT DEF Raw
<1>3. negate_constraint(c) = n
  <2>1. negate_constraint(c) = Wrap(n)
    BY DEF negate_constraint, bound_to_constraint, constraint_to_bound,
           constraint_to_strictness, weak
  <2> HIDE DEF n
  <2> QED BY <1>2, <2>1, WrapIdentity
<1>4. n \div 2 = -(c \div 2) /\ n % 2 = 1 - (c % 2) /\ -d \in Int /\ n # infinity
  BY <1>1, <1>2, SMT
<1>5. Satisfies(-d, n) <=> (-d < 6 * (-(c \div 2)) \/ (-d = 6 * (-(c \div 2)) /\ 1 - (c % 2) = 1))
  <2> HIDE DEF n
  <2> QED BY <1>2, <1>4, SatisfiesValue
<1>6. ~Satisfies(d, c) <=> ~(d < 6 * (c \div 2) \/ (d = 6 * (c \div 2) /\ c % 2 = 1))
  BY <1>1, SatisfiesValue
<1>7. (-d < 6 * (-(c \div 2)) \/ (-d = 6 * (-(c \div 2)) /\ 1 - (c % 2) = 1))
        <=> ~(d < 6 * (c \div 2) \/ (d = 6 * (c \div 2) /\ c % 2 = 1))
  BY <1>1, SMT
<1> HIDE DEF n
<1> QED BY <1>3, <1>5, <1>6, <1>7

----------------------------------------------------------------------------
(* Matrices *)

LEMMA Difference ==
    ASSUME NEW v \in [Index -> Int], NEW p \in Index, NEW q \in Index
    PROVE  v[p] - v[q] \in Int
BY SMT

(* operator<= never claims an inclusion that does not hold, canonical or     *)
(* not.                                                                      *)
THEOREM InclusionSound ==
    ASSUME NEW m, WellFormed(m), NEW Y, WellFormed(Y), Includes(m, Y),
           NEW v \in [Index -> Int], In(v, m)
    PROVE  In(v, Y)
<1> SUFFICES ASSUME NEW p \in Index, NEW q \in Index
             PROVE  Satisfies(v[p] - v[q], Y[p][q])
  BY DEF In
<1>1. Satisfies(v[p] - v[q], m[p][q]) /\ m[p][q] <= Y[p][q]
  BY DEF In, Includes
<1>2. m[p][q] \in Entry /\ Y[p][q] \in Entry
  BY DEF WellFormed
<1>3. v[p] - v[q] \in Int
  BY Difference
<1> QED BY <1>1, <1>2, <1>3, SatisfiesLooser

(* intersect() of two matrices is the intersection of their zones, canonical *)
(* or not.                                                                   *)
THEOREM IntersectionMeaning ==
    ASSUME NEW m, WellFormed(m), NEW Y, WellFormed(Y), NEW v \in [Index -> Int]
    PROVE  In(v, intersect(m, Y)) <=> In(v, m) /\ In(v, Y)
<1>1. ASSUME NEW p \in Index, NEW q \in Index
      PROVE  Satisfies(v[p] - v[q], intersect(m, Y)[p][q])
               <=> Satisfies(v[p] - v[q], m[p][q]) /\ Satisfies(v[p] - v[q], Y[p][q])
  <2>1. intersect(m, Y)[p][q] = Tighter(m[p][q], Y[p][q])
    BY DEF intersect, Entries
  <2>2. m[p][q] \in Entry /\ Y[p][q] \in Entry
    BY DEF WellFormed
  <2>3. v[p] - v[q] \in Int
    BY Difference
  <2> QED BY <2>1, <2>2, <2>3, SatisfiesTighter
<1> HIDE DEF Satisfies, intersect
<1> QED BY <1>1 DEF In

\* A matrix with a negative diagonal entry has no valuation.
LEMMA EmptyHasNoValuation ==
    ASSUME NEW m, WellFormed(m), emptiness(m), NEW v \in [Index -> Int]
    PROVE  ~In(v, m)
<1>1. PICK p \in Index : m[p][p] <= zero_less
  BY EmptyIff
<1>2. m[p][p] \in Entry /\ m[p][p] \in Int /\ zero_less \in Entry /\ 0 \in Int
  BY EntryInt, SpecialEntries DEF WellFormed
<1>3. ~Satisfies(0, zero_less)
  <2>1. zero_less = 0 /\ 0 # infinity
    BY Width, SMT
  <2>2. ~(0 < 6 * (0 \div 2)) /\ 0 % 2 = 0
    BY SMT
  <2>3. Satisfies(0, 0) <=> 0 = infinity \/ 0 < 6 * (0 \div 2) \/ (0 = 6 * (0 \div 2) /\ 0 % 2 = 1)
    BY <1>2, SatisfiesValue
  <2>4. ~(0 % 2 = 1)
    BY SMT
  <2> QED BY <2>1, <2>2, <2>3, <2>4
<1>4. ~Satisfies(0, m[p][p])
  BY <1>1, <1>2, <1>3, SatisfiesLooser
<1>5. v[p] - v[p] = 0
  BY SMT
<1> QED BY <1>4, <1>5 DEF In

\* One update of the loops: the new entry is implied by two old ones.
LEMMA RelaxKeepsZone ==
    ASSUME NEW m, WellFormed(m), Fits(m),
           NEW n \in Index, NEW r \in Index, NEW c \in Index, NEW v \in [Index -> Int]
    PROVE  In(v, Relaxed(m, n, r, c)) <=> In(v, m)
<1> DEFINE sum == Plus(m[r][n], m[n][c])
           f == Relaxed(m, n, r, c)
<1>1. /\ m[r][n] \in Entry /\ m[n][c] \in Entry /\ m[r][c] \in Entry /\ sum \in Entry
      /\ f[r][c] = Tighter(m[r][c], sum)
      /\ \A a, b \in Index : a # r \/ b # c => f[a][b] = m[a][b]
  BY RoundSums, RelaxedMatrix
<1>2. /\ v[r] - v[n] \in Int /\ v[n] - v[c] \in Int /\ v[r] - v[c] \in Int
      /\ v[r] - v[c] = (v[r] - v[n]) + (v[n] - v[c])
  BY SMT
<1> HIDE DEF sum, f
<1>3. Satisfies(v[r] - v[c], f[r][c]) <=>
        Satisfies(v[r] - v[c], m[r][c]) /\ Satisfies(v[r] - v[c], sum)
  BY <1>1, <1>2, SatisfiesTighter
<1>4. In(v, m) => Satisfies(v[r] - v[c], sum)
  <2> SUFFICES ASSUME In(v, m) PROVE Satisfies(v[r] - v[c], sum)
    OBVIOUS
  <2>1. Satisfies(v[r] - v[n], m[r][n]) /\ Satisfies(v[n] - v[c], m[n][c])
    BY DEF In
  <2>2. Satisfies((v[r] - v[n]) + (v[n] - v[c]), Plus(m[r][n], m[n][c]))
    BY <1>1, <1>2, <2>1, SatisfiesSum
  <2> QED BY <1>2, <2>2 DEF sum
<1>5. In(v, f) => In(v, m)
  <2> SUFFICES ASSUME In(v, f), NEW a \in Index, NEW b \in Index
               PROVE  Satisfies(v[a] - v[b], m[a][b])
    BY DEF In
  <2>1. Satisfies(v[a] - v[b], f[a][b])
    BY DEF In
  <2>2. CASE a = r /\ b = c
    BY <1>3, <2>1, <2>2
  <2>3. CASE a # r \/ b # c
    BY <1>1, <2>1, <2>3
  <2> QED BY <2>2, <2>3
<1>6. In(v, m) => In(v, f)
  <2> SUFFICES ASSUME In(v, m), NEW a \in Index, NEW b \in Index
               PROVE  Satisfies(v[a] - v[b], f[a][b])
    BY DEF In
  <2>1. Satisfies(v[a] - v[b], m[a][b])
    BY DEF In
  <2>2. CASE a = r /\ b = c
    BY <1>3, <1>4, <2>1, <2>2
  <2>3. CASE a # r \/ b # c
    BY <1>1, <2>1, <2>3
  <2> QED BY <2>2, <2>3
<1> QED BY <1>5, <1>6 DEF f

----------------------------------------------------------------------------
(* cf() *)

LEMMA GridValuations == ASSUME NEW v \in Coarse PROVE v \in [Index -> Int]
<1>1. {2 * n : n \in 0 .. 3 * Inner} \subseteq Int
  BY SMT
<1> QED BY <1>1 DEF Coarse, Valuations

LEMMA StepKeepsZone ==
    ASSUME TypeInv, NoOverflow, [Next]_vars, pc = "cf", dbm' # dbm,
           NEW v \in [Index -> Int]
    PROVE  In(v, dbm') <=> In(v, dbm)
<1>1. WellFormed(dbm) /\ Fits(dbm) /\ i \in Index /\ j \in Index
  BY DEF TypeInv, NoOverflow, Fits
<1>2. CASE CfEmpty
  <2>1. dbm' = makeEmpty /\ emptiness(dbm)
    BY <1>2 DEF CfEmpty, EarlyEmpty
  <2>2. ~In(v, dbm) /\ ~In(v, makeEmpty)
    BY <1>1, <2>1, EmptyHasNoValuation, EmptyMatrix
  <2> QED BY <2>1, <2>2
<1>3. CASE Relax
  <2>1. dbm' = Relaxed(dbm, k, i, j) /\ k \in Index
    BY <1>3 DEF Relax, Relaxed
  <2> QED BY <1>1, <2>1, RelaxKeepsZone
<1>4. CASE CfStart \/ CfDone
  BY <1>4 DEF CfStart, CfDone
<1>5. CASE Operation
  BY <1>5 DEF Operation, Assign, Intersect, Suc, Pre, Bound, Reset, Preset, ResetTo,
              PresetTo, PresetClock, Preserves, Clears, ClearsUnless, Called
<1>6. CASE UNCHANGED vars
  BY <1>6 DEF vars
<1> QED BY <1>2, <1>3, <1>4, <1>5, <1>6 DEF Next, Cf

(* Canonical form changes the matrix and never the zone, for every number of *)
(* clocks, as long as no sum overflows.                                      *)
THEOREM CfCorrect == Spec /\ []NoOverflow => CfKeepsZone
<1>1. TypeInv /\ NoOverflow /\ [Next]_vars
        => [pc = "cf" /\ dbm' # dbm => \A v \in Coarse : In(v, dbm') = In(v, dbm)]_vars
  <2> SUFFICES ASSUME TypeInv, NoOverflow, [Next]_vars, pc = "cf", dbm' # dbm,
                      NEW v \in Coarse
               PROVE  In(v, dbm') = In(v, dbm)
    OBVIOUS
  <2>1. In(v, dbm') <=> In(v, dbm)
    BY GridValuations, StepKeepsZone
  <2>2. In(v, dbm') \in BOOLEAN /\ In(v, dbm) \in BOOLEAN
    BY DEF In
  <2> QED BY <2>1, <2>2
<1>2. Spec => []TypeInv
  BY InitTypeInv, NextTypeInv, PTL DEF Spec
<1> QED BY <1>1, <1>2, PTL DEF Spec, CfKeepsZone

----------------------------------------------------------------------------
(* Witnesses.  A delay, or the old value of a clock that was reset, is       *)
(* bounded by the constraints of one row and one column of the matrix.  In   *)
(* a canonical matrix every lower bound is below every upper bound, and on   *)
(* the grid there is room between two strict ones.                           *)

\* The largest integer that satisfies a constraint.
Room(c) == 6 * (c \div 2) - (1 - (c % 2))

LEMMA SatisfiesRoom ==
    ASSUME NEW d \in Int, NEW c \in Int
    PROVE  /\ Satisfies(d, c) <=> c = infinity \/ d <= Room(c)
           /\ Room(c) \in Int
<1>1. Satisfies(d, c) <=>
        \/ c = infinity
        \/ d < 6 * (c \div 2)
        \/ d = 6 * (c \div 2) /\ c % 2 = 1
  BY SatisfiesValue
<1>2. (d < 6 * (c \div 2) \/ (d = 6 * (c \div 2) /\ c % 2 = 1)) <=> d <= Room(c)
  BY SMT DEF Room
<1>3. Room(c) \in Int
  BY SMT DEF Room
<1> QED BY <1>1, <1>2, <1>3

LEMMA RoomOfEntry ==
    ASSUME NEW c \in Int
    PROVE  /\ c <= zero_le => Room(c) <= 0 /\ IsFinite(c)
           /\ c >= zero_le => Room(c) >= 0
           /\ 0 <= Room(c) => c >= zero_le
<1>1. c <= 1 => Room(c) <= 0
  BY SMT DEF Room
<1>2. c >= 1 => Room(c) >= 0
  BY SMT DEF Room
<1>3. 0 <= Room(c) => c >= 1
  BY SMT DEF Room
<1>4. c <= 1 => c # infinity
  BY InfinityIsEven, SMT
<1> QED BY <1>1, <1>2, <1>3, <1>4 DEF zero_le, IsFinite

LEMMA RoomWithin ==
    ASSUME NEW c \in Int, NEW b \in Int, c \div 2 >= -b
    PROVE  Room(c) >= -6 * b - 1
BY SMT DEF Room

\* The values of Coarse.
Even(v) == v \in [Index -> Int] /\ \A p \in Index : \E n \in Int : v[p] = 2 * n

LEMMA CoarseIsEven ==
    ASSUME NEW v \in Coarse
    PROVE  /\ Even(v) /\ v \in [Index -> Int] /\ v[0] = 0
           /\ \A p \in Index : v[p] >= 0 /\ v[p] <= 6 * Inner
<1>1. v \in [Index -> {2 * n : n \in 0 .. 3 * Inner}] /\ v[0] = 0
  BY DEF Coarse, Valuations
<1>2. \A p \in Index : \E n \in 0 .. 3 * Inner : v[p] = 2 * n
  BY <1>1
<1>3. \A p \in Index : v[p] >= 0 /\ v[p] <= 6 * Inner
  BY <1>2, ZonesAssumption, SMT
<1>4. \A p \in Index : \E n \in Int : v[p] = 2 * n
  BY <1>2, ZonesAssumption, SMT
<1>5. v \in [Index -> Int]
  BY GridValuations
<1> QED BY <1>1, <1>3, <1>4, <1>5 DEF Even

\* Of the constraints through p, the lower bound that a puts on the value of
\* p is below the upper bound that b puts on it.
LEMMA RoomBetween ==
    ASSUME NEW m, WellFormed(m), Fits(m), Canonical(m), NEW v, Even(v),
           NEW a \in Index, NEW b \in Index, NEW p \in Index,
           IsFinite(m[a][p]), IsFinite(m[p][b]),
           Satisfies(v[a] - v[b], m[a][b])
    PROVE  v[a] - v[b] <= Room(m[a][p]) + Room(m[p][b])
<1> DEFINE x == m[a][p]  y == m[p][b]  z == m[a][b]  d == v[a] - v[b]
<1>1. x \in Int /\ y \in Int /\ z \in Int
  BY EntryInt DEF WellFormed
<1>2. PICK n \in Int : d = 2 * n
  <2>1. PICK n1 \in Int, n2 \in Int : v[a] = 2 * n1 /\ v[b] = 2 * n2
    BY DEF Even
  <2>2. d = 2 * (n1 - n2) /\ n1 - n2 \in Int
    BY <2>1, SMT
  <2> QED BY <2>2
<1>3. IsFinite(z) /\ z <= Sum2(x, y)
  BY TriangleOfBounds
<1>4. Satisfies(d, z)
  OBVIOUS
<1> HIDE DEF x, y, z, d
<1>5. d \in Int /\ d <= Room(z)
  BY <1>1, <1>2, <1>3, <1>4, SatisfiesRoom DEF IsFinite
<1>6. Sum2(x, y) = 2 * ((x \div 2) + (y \div 2)) + (IF x % 2 = 1 /\ y % 2 = 1 THEN 1 ELSE 0)
  BY <1>1, Sum2Value
<1> DEFINE u == x \div 2  w == y \div 2
<1>7. u \in Int /\ w \in Int /\ x % 2 \in {0, 1} /\ y % 2 \in {0, 1}
  BY <1>1, SMT
<1>8. d <= 6 * (u + w) - (IF x % 2 = 1 /\ y % 2 = 1 THEN 0 ELSE 1)
  <2>1. z <= 2 * (u + w) + (IF x % 2 = 1 /\ y % 2 = 1 THEN 1 ELSE 0)
    BY <1>3, <1>6
  <2>2. d <= 6 * (z \div 2) - (1 - (z % 2))
    BY <1>5 DEF Room
  <2> HIDE DEF u, w
  <2> QED BY <1>1, <1>5, <1>7, <2>1, <2>2, SMT
<1>9. Room(x) = 6 * u - (1 - (x % 2)) /\ Room(y) = 6 * w - (1 - (y % 2))
  BY DEF Room
<1> HIDE DEF u, w
<1>10. d <= Room(x) + Room(y)
  BY <1>2, <1>7, <1>8, <1>9, SMT
<1> QED BY <1>10 DEF d, x, y

LEMMA LeastNatural ==
    ASSUME NEW S \in SUBSET Nat, S # {}
    PROVE  Minimum(S) \in S /\ \A n \in S : Minimum(S) <= n
<1> DEFINE R == OpToRel(<, Nat)
<1>1. IsWellFoundedOn(R, Nat)
  BY NatLessThanWellFounded
<1>2. \A x, y \in Nat : <<x, y>> \in R <=> x < y
  BY DEF OpToRel
<1> HIDE DEF R
<1>3. PICK s \in S : \A n \in S : ~(<<n, s>> \in R)
  BY <1>1, WFMin
<1>4. ASSUME NEW n \in S PROVE s <= n
  <2>1. s \in Nat /\ n \in Nat /\ ~(n < s)
    BY <1>2, <1>3
  <2> QED BY <2>1
<1> QED BY <1>4 DEF Minimum

----------------------------------------------------------------------------
(* Delays *)

\* The matrices the operations are exact on.
Tight(m) ==
    /\ WellFormed(m) /\ Fits(m) /\ Canonical(m) /\ ~emptiness(m)
    /\ \A q \in Index : m[0][q] <= zero_le

LEMMA TightEntries ==
    ASSUME NEW m, Tight(m)
    PROVE  /\ WellFormed(m) /\ Fits(m) /\ Canonical(m) /\ ~emptiness(m)
           /\ \A p, q \in Index : m[p][q] \in Entry /\ m[p][q] \in Int /\ Room(m[p][q]) \in Int
           /\ \A p \in Index : m[p][p] = zero_le
           /\ \A q \in Index : /\ m[0][q] <= zero_le /\ IsFinite(m[0][q])
                               /\ Room(m[0][q]) <= 0
<1>1. \A p, q \in Index : m[p][q] \in Entry /\ m[p][q] \in Int
  BY EntryInt DEF Tight, WellFormed
<1>2. \A p, q \in Index : Room(m[p][q]) \in Int
  <2>1. 0 \in Int
    OBVIOUS
  <2> QED BY <1>1, <2>1, SatisfiesRoom
<1>3. \A p \in Index : m[p][p] = zero_le
  BY NonEmptyDiagonal DEF Tight
<1>4. \A q \in Index : /\ m[0][q] <= zero_le /\ IsFinite(m[0][q])
                       /\ Room(m[0][q]) <= 0
  BY <1>1, SpecialEntries, RoomOfEntry DEF Tight
<1> QED BY <1>1, <1>2, <1>3, <1>4 DEF Tight

\* In(v, m), clock by clock.
LEMMA InRows ==
    ASSUME NEW v, NEW m, v[0] = 0, Satisfies(0, m[0][0]),
           \A p \in Clocks : Satisfies(v[p], m[p][0]) /\ Satisfies(-v[p], m[0][p]),
           \A p, q \in Clocks : Satisfies(v[p] - v[q], m[p][q]),
           \A p \in Clocks : v[p] \in Int
    PROVE  In(v, m)
<1> SUFFICES ASSUME NEW p \in Index, NEW q \in Index
             PROVE  Satisfies(v[p] - v[q], m[p][q])
  BY DEF In
<1>1. (p = 0 \/ p \in Clocks) /\ (q = 0 \/ q \in Clocks)
  BY MatrixAssumption, SMT DEF Index, Clocks
<1> HIDE DEF Satisfies
<1>2. CASE p = 0 /\ q = 0
  <2>1. v[p] - v[q] = 0
    BY <1>2
  <2> QED BY <1>2, <2>1
<1>3. CASE p = 0 /\ q \in Clocks
  <2>1. v[p] - v[q] = -v[q]
    BY <1>3, SMT
  <2> QED BY <1>3, <2>1
<1>4. CASE p \in Clocks /\ q = 0
  <2>1. v[p] - v[q] = v[p]
    BY <1>4, SMT
  <2> QED BY <1>4, <2>1
<1>5. CASE p \in Clocks /\ q \in Clocks
  BY <1>5
<1> QED BY <1>1, <1>2, <1>3, <1>4, <1>5

LEMMA RowsOfIn ==
    ASSUME NEW v, NEW m, v[0] = 0, In(v, m), \A p \in Clocks : v[p] \in Int
    PROVE  /\ Satisfies(0, m[0][0])
           /\ \A p \in Clocks : Satisfies(v[p], m[p][0]) /\ Satisfies(-v[p], m[0][p])
           /\ \A p, q \in Clocks : Satisfies(v[p] - v[q], m[p][q])
<1> HIDE DEF Satisfies
<1>1. \A p, q \in Index : Satisfies(v[p] - v[q], m[p][q])
  BY DEF In
<1>2. 0 \in Index /\ Clocks \subseteq Index
  BY SpecialEntries
<1>3. v[0] - v[0] = 0
  BY SMT
<1>4. \A p \in Clocks : v[p] - v[0] = v[p] /\ v[0] - v[p] = -v[p]
  BY SMT
<1> QED BY <1>1, <1>2, <1>3, <1>4

\* suc() lets time pass.
LEMMA SucMeaning ==
    ASSUME NEW m, Tight(m), NEW v \in Coarse
    PROVE  In(v, suc(m)) <=> Future(v, m)
<1>1. /\ Even(v) /\ v \in [Index -> Int] /\ v[0] = 0
      /\ \A p \in Index : v[p] \in Int /\ v[p] >= 0
  BY CoarseIsEven
<1>2. /\ 0 \in Index /\ 0 \notin Clocks /\ Clocks \subseteq Index /\ 1 \in Clocks
      /\ \A p \in Clocks : v[p] \in Int /\ v[p] \in Nat /\ p # 0
  BY <1>1, SpecialEntries, SomeClock, SMT DEF Clocks
<1>3. \A p, q \in Index : suc(m)[p][q] = IF p \in Clocks /\ q = 0 THEN infinity ELSE m[p][q]
  BY DEF suc, Entries
<1> DEFINE least == Minimum({v[p] : p \in Clocks})
<1>4. least \in Nat /\ (\A p \in Clocks : least <= v[p]) /\ \E p \in Clocks : least = v[p]
  <2> DEFINE S == {v[p] : p \in Clocks}
  <2>1. S \in SUBSET Nat /\ S # {}
    BY <1>2
  <2>2. Minimum(S) \in S /\ \A n \in S : Minimum(S) <= n
    <3> HIDE DEF S
    <3> QED BY <2>1, LeastNatural
  <2> QED BY <1>2, <2>2
<1>5. ASSUME NEW d \in Nat
      PROVE  /\ Delayed(v, -d)[0] = 0
             /\ \A p \in Clocks : Delayed(v, -d)[p] = v[p] - d /\ v[p] - d \in Int
  BY <1>2 DEF Delayed
<1> HIDE DEF least, Satisfies, suc
<1>6. ASSUME Future(v, m) PROVE In(v, suc(m))
  <2>1. PICK d \in 0 .. least : In(Delayed(v, -d), m)
    BY <1>6 DEF Future, least
  <2>2. d \in Nat
    BY <1>4, <2>1
  <2> DEFINE w == Delayed(v, -d)
  <2>3. w[0] = 0 /\ \A p \in Clocks : w[p] = v[p] - d /\ w[p] \in Int
    BY <1>5, <2>2
  <2>4. In(w, m)
    BY <2>1
  <2> HIDE DEF w
  <2>5. /\ Satisfies(0, m[0][0])
        /\ \A p \in Clocks : Satisfies(w[p], m[p][0]) /\ Satisfies(-w[p], m[0][p])
        /\ \A p, q \in Clocks : Satisfies(w[p] - w[q], m[p][q])
    BY <2>3, <2>4, RowsOfIn
  <2>6. ASSUME NEW p \in Clocks
        PROVE  Satisfies(v[p], suc(m)[p][0]) /\ Satisfies(-v[p], suc(m)[0][p])
    <3>1. Satisfies(v[p], infinity)
      BY DEF Satisfies, IsFinite
    <3>2. Satisfies(-w[p], m[0][p])
      BY <2>5
    <3>3. m[0][p] \in Int /\ -w[p] \in Int /\ -v[p] \in Int /\ -v[p] <= -w[p]
      BY <1>2, <2>2, <2>3, TightEntries, SMT
    <3>4. -w[p] <= Room(m[0][p]) \/ m[0][p] = infinity
      BY <3>2, <3>3, SatisfiesRoom
    <3>5. Room(m[0][p]) \in Int
      BY <3>3, SatisfiesRoom
    <3>6. -v[p] <= Room(m[0][p]) \/ m[0][p] = infinity
      BY <3>3, <3>4, <3>5, SMT
    <3>7. Satisfies(-v[p], m[0][p])
      BY <3>3, <3>6, SatisfiesRoom
    <3> QED BY <1>2, <1>3, <3>1, <3>7
  <2>7. ASSUME NEW p \in Clocks, NEW q \in Clocks PROVE Satisfies(v[p] - v[q], suc(m)[p][q])
    <3>1. w[p] - w[q] = v[p] - v[q]
      BY <1>2, <2>2, <2>3, SMT
    <3> QED BY <1>2, <1>3, <2>5, <3>1
  <2>8. Satisfies(0, suc(m)[0][0])
    BY <1>2, <1>3, <2>5
  <2> QED BY <1>1, <1>2, <2>6, <2>7, <2>8, InRows
<1>7. ASSUME In(v, suc(m)) PROVE Future(v, m)
  <2>1. /\ Satisfies(0, m[0][0])
        /\ \A p \in Clocks : Satisfies(-v[p], m[0][p])
        /\ \A p, q \in Clocks : Satisfies(v[p] - v[q], m[p][q])
    <3>1. /\ Satisfies(0, suc(m)[0][0])
          /\ \A p \in Clocks : Satisfies(v[p], suc(m)[p][0]) /\ Satisfies(-v[p], suc(m)[0][p])
          /\ \A p, q \in Clocks : Satisfies(v[p] - v[q], suc(m)[p][q])
      BY <1>1, <1>2, <1>7, RowsOfIn
    <3> QED BY <1>2, <1>3, <3>1
  \* The longest delay the lower bounds allow.
  <2> DEFINE h(y) == v[y] + Room(m[0][y])
             H == {h(y) : y \in Clocks}
             d == Minimum(H)
  <2>2. ASSUME NEW y \in Clocks PROVE h(y) \in Nat /\ h(y) <= v[y]
    <3>1. m[0][y] \in Int /\ IsFinite(m[0][y]) /\ Room(m[0][y]) \in Int /\ Room(m[0][y]) <= 0
      BY <1>2, TightEntries
    <3>2. -v[y] <= Room(m[0][y])
      <4>1. Satisfies(-v[y], m[0][y]) /\ -v[y] \in Int
        BY <1>2, <2>1, SMT
      <4> QED BY <3>1, <4>1, SatisfiesRoom DEF IsFinite
    <3> QED BY <1>2, <3>1, <3>2, SMT
  <2>3. d \in H /\ \A n \in H : d <= n
    <3>1. H \in SUBSET Nat /\ H # {}
      BY <1>2, <2>2
    <3> HIDE DEF H
    <3> QED BY <3>1, LeastNatural
  <2>4. PICK y \in Clocks : d = v[y] + Room(m[0][y])
    BY <2>3
  <2>5. /\ d \in Nat
        /\ \A p \in Clocks : d <= v[p] + Room(m[0][p]) /\ d <= v[p]
    <3>1. \A p \in Clocks : d <= h(p)
      BY <2>3
    <3>2. d \in Nat
      BY <2>2, <2>4
    <3>3. \A p \in Clocks : h(p) \in Int /\ v[p] \in Int /\ h(p) <= v[p]
      BY <1>2, <2>2
    <3>4. \A p \in Clocks : d <= v[p]
      <4> HIDE DEF d, h
      <4> QED BY <3>1, <3>2, <3>3, SMT
    <3> QED BY <3>1, <3>2, <3>4
  <2> HIDE DEF d
  <2>6. d \in 0 .. least
    <3>1. \E p \in Clocks : least = v[p]
      BY <1>4
    <3> QED BY <1>4, <2>5, <3>1
  <2> DEFINE w == Delayed(v, -d)
  <2>7. w[0] = 0 /\ \A p \in Clocks : w[p] = v[p] - d /\ w[p] \in Int
    BY <1>5, <2>5
  <2> HIDE DEF w
  <2>8. ASSUME NEW p \in Clocks
        PROVE  Satisfies(w[p], m[p][0]) /\ Satisfies(-w[p], m[0][p])
    <3>1. /\ m[p][0] \in Int /\ Room(m[p][0]) \in Int
          /\ m[0][p] \in Int /\ Room(m[0][p]) \in Int
          /\ IsFinite(m[0][y]) /\ Room(m[0][y]) \in Int
      BY <1>2, TightEntries
    <3>2. Satisfies(w[p], m[p][0])
      <4>1. CASE ~IsFinite(m[p][0])
        BY <2>7, <3>1, <4>1, SatisfiesRoom DEF IsFinite
      <4>2. CASE IsFinite(m[p][0])
        <5>1. v[p] - v[y] <= Room(m[p][0]) + Room(m[0][y])
          BY <1>1, <1>2, <2>1, <3>1, <4>2, RoomBetween, TightEntries
        <5>2. w[p] <= Room(m[p][0])
          BY <1>2, <2>4, <2>5, <2>7, <3>1, <5>1, SMT
        <5> QED BY <2>7, <3>1, <5>2, SatisfiesRoom
      <4> QED BY <4>1, <4>2
    <3>3. Satisfies(-w[p], m[0][p])
      <4>1. -w[p] <= Room(m[0][p]) /\ -w[p] \in Int
        BY <1>2, <2>5, <2>7, <3>1, SMT
      <4> QED BY <3>1, <4>1, SatisfiesRoom
    <3> QED BY <3>2, <3>3
  <2>9. ASSUME NEW p \in Clocks, NEW q \in Clocks PROVE Satisfies(w[p] - w[q], m[p][q])
    <3>1. w[p] - w[q] = v[p] - v[q]
      BY <1>2, <2>5, <2>7, SMT
    <3> QED BY <2>1, <3>1
  <2>10. In(w, m)
    BY <2>1, <2>7, <2>8, <2>9, InRows
  <2> QED BY <2>6, <2>10 DEF Future, least, w
<1> QED BY <1>6, <1>7

\* pre() goes back in time.  The delay back is within the grid because the
\* lower bounds are within Cap.
LEMMA PreMeaning ==
    ASSUME NEW m, Tight(m), WithinCap(m), NEW v \in Coarse
    PROVE  In(v, pre(m)) <=> Past(v, m)
<1>1. /\ Even(v) /\ v \in [Index -> Int] /\ v[0] = 0
      /\ \A p \in Index : v[p] \in Int /\ v[p] >= 0
  BY CoarseIsEven
<1>2. /\ 0 \in Index /\ 0 \notin Clocks /\ Clocks \subseteq Index /\ 1 \in Clocks
      /\ \A p \in Clocks : v[p] \in Int /\ v[p] \in Nat /\ p # 0
  BY <1>1, SpecialEntries, SomeClock, SMT DEF Clocks
<1>3. \A p, q \in Index : pre(m)[p][q] = IF p = 0 THEN zero_le ELSE m[p][q]
  BY DEF pre, Entries
<1>4. ASSUME NEW d \in Nat
      PROVE  /\ Delayed(v, d)[0] = 0
             /\ \A p \in Clocks : Delayed(v, d)[p] = v[p] + d /\ v[p] + d \in Int
  BY <1>2 DEF Delayed
<1>5. ASSUME NEW n \in Int, n <= 0 PROVE Satisfies(n, zero_le)
  <2>1. zero_le \in Int /\ Room(zero_le) = 0
    BY SMT DEF zero_le, Room
  <2> QED BY <1>5, <2>1, SatisfiesRoom
<1>6. Cap \in Nat /\ Inner \in Nat /\ Outer \in Nat /\ Outer - Inner >= Cap + 1
  BY DBMAssumption, ZonesAssumption, SMT
<1> HIDE DEF Satisfies, pre
<1>7. ASSUME Past(v, m) PROVE In(v, pre(m))
  <2>1. PICK d \in 0 .. Scale * (Outer - Inner) : In(Delayed(v, d), m)
    BY <1>7 DEF Past
  <2>2. d \in Nat
    BY <1>6, <2>1 DEF Scale
  <2> DEFINE w == Delayed(v, d)
  <2>3. w[0] = 0 /\ \A p \in Clocks : w[p] = v[p] + d /\ w[p] \in Int
    BY <1>4, <2>2
  <2>4. In(w, m)
    BY <2>1
  <2> HIDE DEF w
  <2>5. /\ \A p \in Clocks : Satisfies(w[p], m[p][0])
        /\ \A p, q \in Clocks : Satisfies(w[p] - w[q], m[p][q])
    BY <2>3, <2>4, RowsOfIn
  <2>6. ASSUME NEW p \in Clocks
        PROVE  Satisfies(v[p], pre(m)[p][0]) /\ Satisfies(-v[p], pre(m)[0][p])
    <3>1. m[p][0] \in Int /\ Room(m[p][0]) \in Int
      BY <1>2, TightEntries
    <3>2. w[p] <= Room(m[p][0]) \/ m[p][0] = infinity
      BY <2>3, <2>5, <3>1, SatisfiesRoom
    <3>3. v[p] <= Room(m[p][0]) \/ m[p][0] = infinity
      BY <1>2, <2>2, <2>3, <3>1, <3>2, SMT
    <3>4. Satisfies(v[p], m[p][0])
      BY <1>2, <3>1, <3>3, SatisfiesRoom
    <3>5. -v[p] \in Int /\ -v[p] <= 0
      BY <1>2, SMT
    <3>6. Satisfies(-v[p], zero_le)
      BY <1>5, <3>5
    <3> QED BY <1>2, <1>3, <3>4, <3>6
  <2>7. ASSUME NEW p \in Clocks, NEW q \in Clocks PROVE Satisfies(v[p] - v[q], pre(m)[p][q])
    <3>1. w[p] - w[q] = v[p] - v[q]
      BY <1>2, <2>2, <2>3, SMT
    <3> QED BY <1>2, <1>3, <2>5, <3>1
  <2>8. Satisfies(0, pre(m)[0][0])
    <3>1. Satisfies(0, zero_le)
      BY <1>5
    <3> QED BY <1>2, <1>3, <3>1
  <2> QED BY <1>1, <1>2, <2>6, <2>7, <2>8, InRows
<1>8. ASSUME In(v, pre(m)) PROVE Past(v, m)
  <2>1. /\ \A p \in Clocks : Satisfies(v[p], m[p][0])
        /\ \A p, q \in Clocks : Satisfies(v[p] - v[q], m[p][q])
    <3>1. /\ \A p \in Clocks : Satisfies(v[p], pre(m)[p][0])
          /\ \A p, q \in Clocks : Satisfies(v[p] - v[q], pre(m)[p][q])
      BY <1>1, <1>2, <1>8, RowsOfIn
    <3> QED BY <1>2, <1>3, <3>1
  <2>2. ASSUME NEW y \in Clocks
        PROVE  /\ m[0][y] \in Int /\ IsFinite(m[0][y]) /\ Room(m[0][y]) \in Int
               /\ Room(m[0][y]) >= -6 * Cap - 1
    <3>1. m[0][y] \in Int /\ IsFinite(m[0][y]) /\ Room(m[0][y]) \in Int
      BY <1>2, TightEntries
    <3>2. m[0][y] \div 2 \in (-Cap) .. Cap
      BY <1>2, <3>1 DEF WithinCap, constraint_to_bound
    <3>3. m[0][y] \div 2 >= -Cap /\ Cap \in Int
      BY <1>6, <3>2
    <3> QED BY <3>1, <3>3, RoomWithin
  \* The shortest delay after which the lower bounds hold.
  <2> DEFINE G == {n \in Nat : \A y \in Clocks : -v[y] - Room(m[0][y]) <= n}
             d == Minimum(G)
  <2>3. 6 * Cap + 1 \in G
    <3>1. \A y \in Clocks : -v[y] - Room(m[0][y]) <= 6 * Cap + 1
      BY <1>2, <1>6, <2>2, SMT
    <3> QED BY <1>6, <3>1
  <2>4. d \in G /\ \A n \in G : d <= n
    <3>1. G \in SUBSET Nat /\ G # {}
      BY <2>3
    <3> HIDE DEF G
    <3> QED BY <3>1, LeastNatural
  <2>5. d \in Nat /\ (\A y \in Clocks : -v[y] - Room(m[0][y]) <= d) /\ d <= 6 * Cap + 1
    BY <2>3, <2>4
  <2>6. d = 0 \/ \E y \in Clocks : d = -v[y] - Room(m[0][y])
    <3> SUFFICES ASSUME d # 0 PROVE \E y \in Clocks : d = -v[y] - Room(m[0][y])
      OBVIOUS
    <3>1. d - 1 \in Nat /\ ~(d <= d - 1)
      <4> HIDE DEF d
      <4> QED BY <2>5, SMT
    <3>2. d - 1 \notin G
      BY <2>4, <3>1
    <3>3. PICK y \in Clocks : ~(-v[y] - Room(m[0][y]) <= d - 1)
      BY <3>1, <3>2
    <3>4. -v[y] - Room(m[0][y]) <= d /\ -v[y] - Room(m[0][y]) \in Int
      <4>1. -v[y] - Room(m[0][y]) <= d
        BY <2>5
      <4>2. v[y] \in Int /\ Room(m[0][y]) \in Int
        BY <1>2, <2>2
      <4>3. -v[y] - Room(m[0][y]) \in Int
        BY <4>2, SMT
      <4> QED BY <4>1, <4>3
    <3>5. ASSUME NEW n \in Nat, NEW low \in Int, low <= n, ~(low <= n - 1)
          PROVE  n = low
      BY <3>5, SMT
    <3>6. d = -v[y] - Room(m[0][y])
      <4> HIDE DEF d
      <4> QED BY <2>5, <3>3, <3>4, <3>5
    <3> QED BY <3>6
  <2> HIDE DEF d
  <2>7. d \in 0 .. Scale * (Outer - Inner)
    <3>1. d <= 6 * (Outer - Inner)
      BY <1>6, <2>5, SMT
    <3> QED BY <1>6, <2>5, <3>1, SMT DEF Scale
  <2> DEFINE w == Delayed(v, d)
  <2>8. w[0] = 0 /\ \A p \in Clocks : w[p] = v[p] + d /\ w[p] \in Int
    BY <1>4, <2>5
  <2> HIDE DEF w
  <2>9. ASSUME NEW p \in Clocks
        PROVE  Satisfies(w[p], m[p][0]) /\ Satisfies(-w[p], m[0][p])
    <3>1. m[p][0] \in Int /\ Room(m[p][0]) \in Int
      BY <1>2, TightEntries
    <3>2. Satisfies(w[p], m[p][0])
      <4>1. CASE ~IsFinite(m[p][0])
        BY <2>8, <3>1, <4>1, SatisfiesRoom DEF IsFinite
      <4>2. CASE d = 0
        <5>1. w[p] = v[p]
          BY <1>2, <2>8, <4>2, SMT
        <5> QED BY <2>1, <5>1
      <4>3. CASE IsFinite(m[p][0]) /\ d # 0
        <5>1. PICK y \in Clocks : d = -v[y] - Room(m[0][y])
          BY <2>6, <4>3
        <5>2. v[p] - v[y] <= Room(m[p][0]) + Room(m[0][y])
          BY <1>1, <1>2, <2>1, <2>2, <4>3, RoomBetween, TightEntries
        <5>3. w[p] <= Room(m[p][0])
          BY <1>2, <2>2, <2>8, <3>1, <5>1, <5>2, SMT
        <5> QED BY <2>8, <3>1, <5>3, SatisfiesRoom
      <4> QED BY <4>1, <4>2, <4>3
    <3>3. Satisfies(-w[p], m[0][p])
      <4>1. -w[p] <= Room(m[0][p]) /\ -w[p] \in Int
        BY <1>2, <2>2, <2>5, <2>8, SMT
      <4> QED BY <2>2, <4>1, SatisfiesRoom
    <3> QED BY <3>2, <3>3
  <2>10. ASSUME NEW p \in Clocks, NEW q \in Clocks PROVE Satisfies(w[p] - w[q], m[p][q])
    <3>1. w[p] - w[q] = v[p] - v[q]
      BY <1>2, <2>5, <2>8, SMT
    <3> QED BY <2>1, <3>1
  <2>11. Satisfies(0, m[0][0])
    <3>1. m[0][0] = zero_le
      BY <1>2, TightEntries
    <3> QED BY <1>5, <3>1
  <2>12. In(w, m)
    BY <2>8, <2>9, <2>10, <2>11, InRows
  <2> QED BY <2>7, <2>12 DEF Past, w
<1> QED BY <1>7, <1>8

LEMMA FlaggedIsTight ==
    ASSUME MatrixInv, NoOverflow, pc = "idle", m_is_cf, ~emptiness(dbm)
    PROVE  Tight(dbm)
BY DEF MatrixInv, TypeInv, FlagInv, NoOverflow, Fits, NonNegative, Tight

(* While no sum overflows, suc() and pre() of a flagged matrix are exactly   *)
(* the delays forwards and backwards, for every number of clocks.            *)
THEOREM DelaysCorrect == Spec /\ []NoOverflow => DelaysExact
<1>1. MatrixInv /\ NoOverflow /\ [Next]_vars =>
        [m_is_cf /\ ~emptiness(dbm) =>
           /\ Suc => \A v \in Coarse : In(v, dbm') = Future(v, dbm)
           /\ Pre => \A v \in Coarse : In(v, dbm') = Past(v, dbm)]_vars
  <2> SUFFICES ASSUME MatrixInv, NoOverflow, m_is_cf, ~emptiness(dbm), NEW v \in Coarse
               PROVE  /\ Suc => In(v, dbm') = Future(v, dbm)
                      /\ Pre => In(v, dbm') = Past(v, dbm)
    OBVIOUS
  <2>1. In(v, dbm') \in BOOLEAN /\ Future(v, dbm) \in BOOLEAN /\ Past(v, dbm) \in BOOLEAN
    BY DEF In, Future, Past
  <2>2. ASSUME Suc PROVE In(v, dbm') = Future(v, dbm)
    <3>1. dbm' = suc(dbm) /\ pc = "idle"
      BY <2>2 DEF Suc, Preserves, Called
    <3>2. In(v, suc(dbm)) <=> Future(v, dbm)
      BY <3>1, FlaggedIsTight, SucMeaning
    <3> QED BY <2>1, <3>1, <3>2
  <2>3. ASSUME Pre PROVE In(v, dbm') = Past(v, dbm)
    <3>1. dbm' = pre(dbm) /\ pc = "idle" /\ WithinCap(dbm)
      BY <2>3 DEF Pre, Clears, Called
    <3>2. In(v, pre(dbm)) <=> Past(v, dbm)
      BY <3>1, FlaggedIsTight, PreMeaning
    <3> QED BY <2>1, <3>1, <3>2
  <2> QED BY <2>2, <2>3
<1> QED BY <1>1, InitMatrixInv, NextMatrixInv, PTL DEF Spec, DelaysExact

----------------------------------------------------------------------------
(* Inverse images *)

\* Zero satisfies exactly the constraints that are not tighter than <= 0.
LEMMA ZeroSatisfies ==
    ASSUME NEW c \in Entry
    PROVE  Satisfies(0, c) <=> c >= zero_le
<1>1. c \in Int /\ c <= infinity /\ 0 \in Int /\ infinity >= 6 /\ infinity \in Int
  BY EntryInt, InfinityIsEven
<1>2. Satisfies(0, c) <=> c = infinity \/ 0 <= Room(c)
  BY <1>1, SatisfiesRoom
<1>3. (c >= zero_le => Room(c) >= 0) /\ (0 <= Room(c) => c >= zero_le)
  BY <1>1, RoomOfEntry
<1>4. c = infinity => c >= zero_le
  BY <1>1, SMT DEF zero_le
<1>5. Room(c) \in Int
  BY <1>1, SatisfiesRoom
<1> HIDE DEF Satisfies
<1> QED BY <1>2, <1>3, <1>4, <1>5, SMT

\* A clock bounded by 0 from both sides is bounded weakly.
LEMMA NotBelowZero ==
    ASSUME NEW m, Tight(m), NEW p \in Index, m[0][p] >= zero_le, m[p][0] >= zero_less
    PROVE  m[p][0] >= zero_le
<1> DEFINE x == m[p][0]  y == m[0][p]
<1>1. x \in Int /\ y \in Int /\ y <= 1 /\ y >= 1 /\ x >= 0 /\ IsFinite(y) /\ m[p][p] = 1
  BY TightEntries, SpecialEntries DEF zero_le, zero_less
<1>2. CASE ~IsFinite(x)
  BY <1>2, InfinityIsEven, SMT DEF IsFinite, zero_le
<1>3. CASE IsFinite(x)
  <2>1. 1 <= Sum2(x, y)
    <3>1. m[p][p] <= Sum2(m[p][0], m[0][p])
      BY <1>1, <1>3, SpecialEntries, TriangleOfBounds, TightEntries
    <3> QED BY <1>1, <3>1
  <2> HIDE DEF x, y
  <2>2. Sum2(x, y) = 2 * ((x \div 2) + (y \div 2)) + (IF x % 2 = 1 /\ y % 2 = 1 THEN 1 ELSE 0)
    BY <1>1, Sum2Value
  <2>3. x >= 1
    BY <1>1, <2>1, <2>2, SMT
  <2> QED BY <2>3 DEF x, zero_le
<1> QED BY <1>2, <1>3

LEMMA NegativeIs == ASSUME NEW c \in Int PROVE Negative(c) <=> ~(c >= zero_less)
BY SMT DEF Negative, constraint_to_bound, zero_less

LEMMA WithClocksIs ==
    ASSUME NEW v \in [Index -> Int], NEW xs \in SUBSET Clocks, NEW n \in Int
    PROVE  /\ WithClocks(v, xs, n) \in [Index -> Int]
           /\ \A p \in Index : WithClocks(v, xs, n)[p] = IF p \in xs THEN n ELSE v[p]
BY DEF WithClocks

\* preset(clock_set), where it does not give up.
Moved(m, xs) == [p \in Index |-> [q \in Index |-> PresetEntry(m, xs, p, q)]]

LEMMA PresetMoves ==
    ASSUME NEW m, Tight(m), NEW xs \in SUBSET Clocks, NEW v \in Coarse,
           \A p, q \in xs \cup {0} : m[p][q] >= zero_le
    PROVE  In(v, Moved(m, xs)) <=> In(WithClocks(v, xs, 0), m)
<1> DEFINE f == Moved(m, xs)
           w == WithClocks(v, xs, 0)
           zs == xs \cup {0}
           columns(q) == {m[c][q] : c \in zs}
           rows(p) == {m[p][c] : c \in zs}
<1>1. v \in [Index -> Int] /\ v[0] = 0 /\ \A p \in Index : v[p] \in Int /\ v[p] >= 0
  BY CoarseIsEven
<1>2. 0 \in Index /\ zs \subseteq Index /\ 0 \notin xs /\ 0 \in zs /\ xs \subseteq Index
  BY SpecialEntries, SMT DEF Clocks
<1>3. w \in [Index -> Int] /\ \A p \in Index : w[p] = IF p \in zs THEN 0 ELSE v[p]
  BY <1>1, <1>2, WithClocksIs
<1>4. \A p, q \in Index : m[p][q] \in Entry /\ m[p][q] \in Int
  BY TightEntries
<1>5. ASSUME NEW p \in Index, NEW q \in Index
      PROVE  f[p][q] =
               IF p = q THEN m[p][q]
               ELSE IF p \in xs THEN infinity
               ELSE IF q \in xs THEN (IF p = 0 THEN zero_le ELSE infinity)
               ELSE IF p = 0 THEN Tightest(columns(q))
               ELSE IF q = 0 THEN Tightest(rows(p))
               ELSE m[p][q]
  BY DEF Moved, PresetEntry
<1>6. ASSUME NEW q \in Index
      PROVE  /\ \E c \in zs : Tightest(columns(q)) = m[c][q]
             /\ \A c \in zs : Tightest(columns(q)) <= m[c][q]
             /\ \E c \in zs : Tightest(rows(q)) = m[q][c]
             /\ \A c \in zs : Tightest(rows(q)) <= m[q][c]
             /\ Tightest(columns(q)) \in Entry /\ Tightest(rows(q)) \in Entry
  <2> DEFINE C == columns(q)  R == rows(q)
  <2>1. C \in SUBSET Entry /\ C # {} /\ R \in SUBSET Entry /\ R # {}
    <3>1. \A c \in zs : m[c][q] \in Entry /\ m[q][c] \in Entry
      BY <1>2, <1>4
    <3> QED BY <1>2, <3>1
  <2>2. /\ Tightest(C) \in C /\ \A d \in C : Tightest(C) <= d
        /\ Tightest(R) \in R /\ \A d \in R : Tightest(R) <= d
    <3> HIDE DEF C, R
    <3> QED BY <2>1, TightestEntry
  <2>3. Tightest(C) \in Entry /\ Tightest(R) \in Entry
    <3> HIDE DEF C, R
    <3> QED BY <2>1, <2>2
  <2> QED BY <2>2, <2>3
<1> HIDE DEF f, w, zs, columns, rows, Satisfies
<1>7. ASSUME NEW n \in Int PROVE Satisfies(n, infinity)
  BY DEF Satisfies, IsFinite
<1>8. ASSUME In(w, m), NEW p \in Index, NEW q \in Index PROVE Satisfies(v[p] - v[q], f[p][q])
  <2>0. \A a, b \in Index : Satisfies(w[a] - w[b], m[a][b])
    BY <1>8 DEF In
  <2>d. v[p] - v[q] \in Int
    BY <1>1, Difference
  <2>1. CASE p = q
    <3>1. v[p] - v[q] = w[p] - w[q]
      BY <1>1, <1>3, <2>1, SMT
    <3> QED BY <1>5, <2>0, <2>1, <3>1
  <2>2. CASE p # q /\ p \in xs
    BY <1>5, <1>7, <2>2, <2>d
  <2>3. CASE p # q /\ p \notin xs /\ q \in xs
    <3>1. CASE p = 0
      <4>1. -v[q] <= 0 /\ v[p] - v[q] = -v[q] /\ -v[q] \in Int
        BY <1>1, <3>1, SMT
      <4>2. zero_le \in Int /\ Room(zero_le) = 0
        BY SMT DEF zero_le, Room
      <4>3. Satisfies(-v[q], zero_le)
        BY <4>1, <4>2, SatisfiesRoom
      <4> QED BY <1>5, <2>3, <3>1, <4>1, <4>3
    <3>2. CASE p # 0
      BY <1>5, <1>7, <2>3, <2>d, <3>2
    <3> QED BY <3>1, <3>2
  <2>4. CASE p # q /\ p \notin xs /\ q \notin xs /\ p = 0
    <3>1. PICK c \in zs : Tightest(columns(q)) = m[c][q]
      BY <1>6
    <3>2. w[c] - w[q] = v[p] - v[q] /\ c \in Index
      <4>1. c \in Index /\ w[c] = 0 /\ w[q] = v[q] /\ v[p] = 0
        BY <1>1, <1>2, <1>3, <2>4 DEF zs
      <4> QED BY <4>1
    <3>3. f[p][q] = m[c][q]
      BY <1>5, <2>4, <3>1
    <3> QED BY <2>0, <3>2, <3>3
  <2>5. CASE p # q /\ p \notin xs /\ q \notin xs /\ p # 0 /\ q = 0
    <3>1. PICK c \in zs : Tightest(rows(p)) = m[p][c]
      BY <1>6
    <3>2. w[p] - w[c] = v[p] - v[q] /\ c \in Index
      <4>1. c \in Index /\ w[c] = 0 /\ w[p] = v[p] /\ v[q] = 0
        BY <1>1, <1>2, <1>3, <2>5 DEF zs
      <4> QED BY <4>1
    <3>3. f[p][q] = m[p][c]
      BY <1>5, <2>5, <3>1
    <3> QED BY <2>0, <3>2, <3>3
  <2>6. CASE p # q /\ p \notin xs /\ q \notin xs /\ p # 0 /\ q # 0
    <3>1. w[p] = v[p] /\ w[q] = v[q]
      BY <1>3, <2>6 DEF zs
    <3> QED BY <1>5, <2>0, <2>6, <3>1
  <2> QED BY <2>1, <2>2, <2>3, <2>4, <2>5, <2>6
<1>9. ASSUME In(v, f), NEW p \in Index, NEW q \in Index PROVE Satisfies(w[p] - w[q], m[p][q])
  <2>0. \A a, b \in Index : Satisfies(v[a] - v[b], f[a][b])
    BY <1>9 DEF In
  <2>1. CASE p \in zs /\ q \in zs
    <3>1. Satisfies(0, m[p][q])
      BY <1>4, <2>1, ZeroSatisfies DEF zs
    <3>2. w[p] - w[q] = 0
      <4>1. w[p] = 0 /\ w[q] = 0
        BY <1>3, <2>1
      <4> QED BY <4>1
    <3> QED BY <3>1, <3>2
  <2>2. CASE p \in zs /\ q \notin zs
    <3>1. f[0][q] = Tightest(columns(q))
      BY <1>2, <1>5, <2>2 DEF zs
    <3>2. w[p] - w[q] = v[0] - v[q] /\ v[0] - v[q] \in Int
      <4>1. w[p] = 0 /\ w[q] = v[q] /\ v[0] = 0 /\ v[q] \in Int
        BY <1>1, <1>3, <2>2
      <4> QED BY <4>1, SMT
    <3>3. Satisfies(v[0] - v[q], f[0][q])
      BY <1>2, <2>0
    <3>4. Tightest(columns(q)) \in Entry /\ Tightest(columns(q)) <= m[p][q]
      BY <1>6, <2>2
    <3> QED BY <1>4, <3>1, <3>2, <3>3, <3>4, SatisfiesLooser
  <2>3. CASE p \notin zs /\ q \in zs
    <3>1. f[p][0] = Tightest(rows(p))
      BY <1>2, <1>5, <2>3 DEF zs
    <3>2. w[p] - w[q] = v[p] - v[0] /\ v[p] - v[0] \in Int
      <4>1. w[q] = 0 /\ w[p] = v[p] /\ v[0] = 0 /\ v[p] \in Int
        BY <1>1, <1>3, <2>3
      <4> QED BY <4>1, SMT
    <3>3. Satisfies(v[p] - v[0], f[p][0])
      BY <1>2, <2>0
    <3>4. Tightest(rows(p)) \in Entry /\ Tightest(rows(p)) <= m[p][q]
      BY <1>6, <2>3
    <3> QED BY <1>4, <3>1, <3>2, <3>3, <3>4, SatisfiesLooser
  <2>4. CASE p \notin zs /\ q \notin zs
    <3>1. w[p] = v[p] /\ w[q] = v[q]
      BY <1>3, <2>4
    <3>2. f[p][q] = m[p][q]
      BY <1>5, <2>4 DEF zs
    <3> QED BY <2>0, <3>1, <3>2
  <2> QED BY <2>1, <2>2, <2>3, <2>4
<1>10. In(v, f) <=> In(w, m)
  BY <1>8, <1>9 DEF In
<1> QED BY <1>10 DEF f, w

LEMMA PresetMeaning ==
    ASSUME NEW m, WellFormed(m), emptiness(m) \/ Tight(m), NEW xs \in SUBSET Clocks,
           \A x \in xs : m[0][x] # zero_less, NEW v \in Coarse
    PROVE  In(v, preset(m, xs)) <=> In(WithClocks(v, xs, 0), m)
<1> DEFINE w == WithClocks(v, xs, 0)
<1>1. v \in [Index -> Int] /\ w \in [Index -> Int]
  <2>1. v \in [Index -> Int] /\ 0 \in Int
    BY CoarseIsEven
  <2> QED BY <2>1, WithClocksIs
<1>2. xs \subseteq Index /\ 0 \in Index /\ 0 \notin xs
  BY SpecialEntries, SMT DEF Clocks
<1>3. /\ PresetIsEmpty(m, xs) => preset(m, xs) = makeEmpty
      /\ ~PresetIsEmpty(m, xs) => preset(m, xs) = Moved(m, xs)
  BY DEF preset, Moved, Entries
<1>4. WellFormed(preset(m, xs))
  BY PresetMatrix
<1>5. PresetIsEmpty(m, xs) => ~In(v, preset(m, xs))
  BY <1>1, <1>3, EmptyMatrix, EmptyHasNoValuation
<1>6. CASE emptiness(m)
  <2>1. ~In(w, m)
    BY <1>1, <1>6, EmptyHasNoValuation
  <2>2. ASSUME ~PresetIsEmpty(m, xs) PROVE ~In(v, preset(m, xs))
    <3>1. \A p \in Index : preset(m, xs)[p][p] = m[p][p]
      BY <1>3, <2>2 DEF Moved, PresetEntry
    <3>2. emptiness(preset(m, xs))
      BY <1>4, <1>6, <3>1, EmptyIff
    <3> QED BY <1>1, <1>4, <3>2, EmptyHasNoValuation
  <2> QED BY <1>5, <2>1, <2>2
<1>7. CASE Tight(m)
  <2>1. \A p, q \in Index : m[p][q] \in Entry /\ m[p][q] \in Int
    BY <1>7, TightEntries
  \* The tests look at the constraints between clocks that are to be equal.
  <2>2. ASSUME ~PresetIsEmpty(m, xs) PROVE \A p, q \in xs \cup {0} : m[p][q] >= zero_le
    <3> SUFFICES ASSUME NEW p \in xs \cup {0}, NEW q \in xs \cup {0} PROVE m[p][q] >= zero_le
      OBVIOUS
    <3>0. p \in Index /\ q \in Index /\ m[p][q] \in Int /\ zero_le >= zero_le
      BY <1>2, <2>1, Width
    <3>1. CASE p = q
      BY <1>7, <3>0, <3>1, TightEntries
    <3>2. CASE p # q /\ p \in xs /\ q \in xs
      <4>1. ~Negative(m[p][q]) /\ m[p][q] # zero_less
        BY <2>2, <3>2 DEF PresetIsEmpty
      <4> QED BY <3>0, <4>1, NegativeIs, SMT DEF zero_less, zero_le
    <3>3. CASE p = 0 /\ q \in xs
      <4>1. ~Negative(m[p][q]) /\ m[p][q] # zero_less
        BY <2>2, <3>3 DEF PresetIsEmpty
      <4> QED BY <3>0, <4>1, NegativeIs, SMT DEF zero_less, zero_le
    <3>4. CASE q = 0 /\ p \in xs
      <4>1. ~Negative(m[p][0]) /\ ~Negative(m[0][p]) /\ m[0][p] # zero_less
        BY <2>2, <3>4 DEF PresetIsEmpty
      <4>2. m[p][0] \in Int /\ m[0][p] \in Int
        BY <1>2, <2>1, <3>0
      <4>3. m[p][0] >= zero_less /\ m[0][p] >= zero_less
        BY <4>1, <4>2, NegativeIs
      <4>4. m[0][p] >= zero_le
        BY <4>1, <4>2, <4>3, SMT DEF zero_less, zero_le
      <4> QED BY <1>7, <3>0, <3>4, <4>3, <4>4, NotBelowZero
    <3> QED BY <3>1, <3>2, <3>3, <3>4
  <2>3. ASSUME PresetIsEmpty(m, xs) PROVE ~In(w, m)
    <3>1. PICK p \in xs \cup {0}, q \in xs \cup {0} : ~(m[p][q] >= zero_le)
      <4>1. ASSUME NEW c \in Int, Negative(c) \/ c = zero_less PROVE ~(c >= zero_le)
        BY <4>1, NegativeIs, SMT DEF zero_less, zero_le
      <4>2. \A p, q \in xs \cup {0} : m[p][q] \in Int
        BY <1>2, <2>1
      <4>3. \E p, q \in xs \cup {0} : Negative(m[p][q]) \/ m[p][q] = zero_less
        BY <2>3 DEF PresetIsEmpty
      <4> HIDE DEF Negative
      <4> QED BY <4>1, <4>2, <4>3
    <3>2. p \in Index /\ q \in Index /\ m[p][q] \in Entry
      BY <1>2, <2>1
    <3>3. ~Satisfies(0, m[p][q])
      BY <3>1, <3>2, ZeroSatisfies
    <3>4. w[p] - w[q] = 0
      <4>1. w[p] = 0 /\ w[q] = 0
        <5>1. v[0] = 0
          BY CoarseIsEven
        <5> QED BY <1>1, <1>2, <3>2, <5>1, WithClocksIs
      <4> QED BY <4>1
    <3> HIDE DEF Satisfies, w
    <3> QED BY <3>2, <3>3, <3>4 DEF In
  <2> QED BY <1>3, <1>5, <1>7, <2>2, <2>3, PresetMoves
<1> QED BY <1>6, <1>7

\* Clock x is freed although it was to be made equal to y: right when its
\* constraints were no tighter than those of y.
LEMMA FreeMeaning ==
    ASSUME NEW m, WellFormed(m), NEW x \in Clocks, NEW y \in Index, x # y,
           \A p \in Index \ {x} : m[p][x] >= m[p][y] /\ m[x][p] >= m[y][p],
           NEW v \in Coarse
    PROVE  In(v, Free(m, x)) <=> In(WithClocks(v, {x}, v[y]), m)
<1> DEFINE f == Free(m, x)
           w == WithClocks(v, {x}, v[y])
<1>1. v \in [Index -> Int] /\ v[0] = 0 /\ \A p \in Index : v[p] \in Int /\ v[p] >= 0
  BY CoarseIsEven
<1>2. 0 \in Index /\ x \in Index /\ x # 0
  BY SpecialEntries, SMT DEF Clocks
<1>3. \A p \in Index : w[p] = IF p = x THEN v[y] ELSE v[p]
  BY DEF WithClocks
<1>4. \A p, q \in Index : m[p][q] \in Entry /\ m[p][q] \in Int
  BY EntryInt DEF WellFormed
<1>5. \A p, q \in Index :
        f[p][q] = IF p = q THEN m[p][q]
                  ELSE IF p = x THEN infinity
                  ELSE IF q = x THEN (IF p = 0 THEN zero_le ELSE m[p][0])
                  ELSE m[p][q]
  BY DEF Free, Entries
<1> HIDE DEF f, w, Satisfies
<1>6. ASSUME NEW n \in Int PROVE Satisfies(n, infinity)
  BY DEF Satisfies, IsFinite
<1>7. ASSUME NEW n \in Int, NEW o \in Int, NEW c \in Int, o <= n, Satisfies(n, c)
      PROVE  Satisfies(o, c)
  <2>1. Room(c) \in Int /\ (c = infinity \/ n <= Room(c))
    BY <1>7, SatisfiesRoom
  <2>2. c = infinity \/ o <= Room(c)
    BY <1>7, <2>1, SMT
  <2> QED BY <2>2, SatisfiesRoom
<1>8. ASSUME In(w, m), NEW p \in Index, NEW q \in Index PROVE Satisfies(v[p] - v[q], f[p][q])
  <2>0. \A a, b \in Index : Satisfies(w[a] - w[b], m[a][b])
    BY <1>8 DEF In
  <2>d. v[p] - v[q] \in Int
    BY <1>1, Difference
  <2>1. CASE p = q
    <3>1. v[p] - v[q] = w[p] - w[q]
      BY <1>1, <1>3, <2>1, SMT
    <3> QED BY <1>5, <2>0, <2>1, <3>1
  <2>2. CASE p # q /\ p = x
    BY <1>5, <1>6, <2>2, <2>d
  <2>3. CASE p # q /\ p # x /\ q = x /\ p = 0
    <3>1. v[p] - v[q] <= 0
      <4>1. v[p] = 0 /\ v[q] \in Int /\ v[q] >= 0
        BY <1>1, <2>3
      <4> QED BY <4>1, SMT
    <3>2. zero_le \in Int /\ Room(zero_le) = 0
      BY SMT DEF zero_le, Room
    <3>3. Satisfies(v[p] - v[q], zero_le)
      BY <2>d, <3>1, <3>2, SatisfiesRoom
    <3> QED BY <1>5, <2>3, <3>3
  <2>4. CASE p # q /\ p # x /\ q = x /\ p # 0
    <3>1. w[p] - w[0] = v[p]
      <4>1. w[p] = v[p] /\ w[0] = 0 /\ v[p] \in Int
        BY <1>1, <1>2, <1>3, <2>4
      <4> QED BY <4>1, SMT
    <3>2. Satisfies(v[p], m[p][0])
      BY <1>2, <2>0, <3>1
    <3>3. v[p] - v[q] <= v[p]
      BY <1>1, SMT
    <3>4. Satisfies(v[p] - v[q], m[p][0])
      BY <1>1, <1>2, <1>4, <1>7, <2>d, <3>2, <3>3
    <3> QED BY <1>5, <2>4, <3>4
  <2>5. CASE p # q /\ p # x /\ q # x
    <3>1. w[p] = v[p] /\ w[q] = v[q]
      BY <1>3, <2>5
    <3> QED BY <1>5, <2>0, <2>5, <3>1
  <2> QED BY <2>1, <2>2, <2>3, <2>4, <2>5
<1>9. ASSUME In(v, f), NEW p \in Index, NEW q \in Index PROVE Satisfies(w[p] - w[q], m[p][q])
  <2>0. \A a, b \in Index : Satisfies(v[a] - v[b], f[a][b])
    BY <1>9 DEF In
  <2>1. CASE p = q
    <3>1. v[p] - v[q] = w[p] - w[q]
      BY <1>1, <1>3, <2>1, SMT
    <3> QED BY <1>5, <2>0, <2>1, <3>1
  <2>2. CASE p # q /\ p # x /\ q # x
    <3>1. w[p] = v[p] /\ w[q] = v[q]
      BY <1>3, <2>2
    <3> QED BY <1>5, <2>0, <2>2, <3>1
  \* The entry of y, where x takes its place.
  <2>3. ASSUME NEW a \in Index, NEW b \in Index, a # x, b # x
        PROVE  Satisfies(v[a] - v[b], m[a][b])
    BY <1>5, <2>0, <2>3
  <2>4. CASE p # q /\ p = x
    <3>1. w[p] - w[q] = v[y] - v[q] /\ v[y] - v[q] \in Int
      BY <1>1, <1>3, <2>4, Difference
    <3>2. Satisfies(v[y] - v[q], m[y][q])
      BY <2>3, <2>4
    <3>3. m[x][q] >= m[y][q]
      BY <2>4
    <3> QED BY <1>2, <1>4, <2>4, <3>1, <3>2, <3>3, SatisfiesLooser
  <2>5. CASE p # q /\ q = x
    <3>1. w[p] - w[q] = v[p] - v[y] /\ v[p] - v[y] \in Int
      BY <1>1, <1>3, <2>5, Difference
    <3>2. Satisfies(v[p] - v[y], m[p][y])
      BY <2>3, <2>5
    <3>3. m[p][x] >= m[p][y]
      BY <2>5
    <3> QED BY <1>2, <1>4, <2>5, <3>1, <3>2, <3>3, SatisfiesLooser
  <2> QED BY <2>1, <2>2, <2>4, <2>5
<1>10. In(v, f) <=> In(w, m)
  BY <1>8, <1>9 DEF In
<1> QED BY <1>10 DEF f, w

LEMMA PresetClockMeaning ==
    ASSUME NEW m, WellFormed(m), emptiness(m) \/ Tight(m), NEW x \in Clocks,
           constraint_to_bound(m[x][0]) = 0, NEW v \in Coarse
    PROVE  In(v, preset_clock(m, x)) <=> In(WithClocks(v, {x}, 0), m)
<1> DEFINE w == WithClocks(v, {x}, 0)
           Fails == Negative(m[0][x]) \/ m[0][x] = zero_less
<1>1. /\ v \in [Index -> Int] /\ w \in [Index -> Int] /\ v[0] = 0
      /\ 0 \in Index /\ x \in Index /\ x # 0
  <2>1. v \in [Index -> Int] /\ v[0] = 0 /\ 0 \in Int
    BY CoarseIsEven
  <2>2. 0 \in Index /\ x \in Index /\ x # 0
    BY SpecialEntries, SMT DEF Clocks
  <2> QED BY <2>1, <2>2, WithClocksIs
<1>2. w[0] = 0 /\ w[x] = 0
  BY <1>1 DEF WithClocks
<1>3. /\ Fails => preset_clock(m, x) = makeEmpty
      /\ ~Fails => preset_clock(m, x) = Free(m, x)
  BY DEF preset_clock
<1>4. ~In(v, makeEmpty)
  BY <1>1, EmptyMatrix, EmptyHasNoValuation
<1>5. \A p, q \in Index : m[p][q] \in Entry /\ m[p][q] \in Int /\ m[p][q] <= infinity
  BY EntryInt DEF WellFormed
<1>6. CASE emptiness(m)
  <2>1. ~In(w, m)
    BY <1>1, <1>6, EmptyHasNoValuation
  <2>2. WellFormed(Free(m, x))
    BY FreeMatrix
  <2>3. \A p \in Index : Free(m, x)[p][p] = m[p][p]
    BY DEF Free, Entries
  <2>4. emptiness(Free(m, x))
    BY <1>6, <2>2, <2>3, EmptyIff
  <2>5. ~In(v, Free(m, x))
    BY <1>1, <2>2, <2>4, EmptyHasNoValuation
  <2> QED BY <1>3, <1>4, <2>1, <2>5
<1>7. CASE Tight(m) /\ Fails
  <2>1. ~(m[0][x] >= zero_le)
    <3>1. m[0][x] \in Int
      BY <1>1, <1>5
    <3> QED BY <1>7, <3>1, NegativeIs, SMT DEF zero_less, zero_le
  <2>2. ~Satisfies(0, m[0][x])
    BY <1>1, <1>5, <2>1, ZeroSatisfies
  <2>3. w[0] - w[x] = 0
    BY <1>2
  <2>4. ~In(w, m)
    <3> HIDE DEF Satisfies, w
    <3> QED BY <1>1, <2>2, <2>3 DEF In
  <2> QED BY <1>3, <1>4, <1>7, <2>4
<1>8. CASE Tight(m) /\ ~Fails
  <2>1. m[0][x] = 1 /\ m[x][0] = 1
    <3>1. m[0][x] \in Int /\ m[x][0] \in Int /\ m[0][x] <= zero_le
      BY <1>1, <1>5, <1>8, TightEntries
    <3>2. m[0][x] >= zero_le
      BY <1>8, <3>1, NegativeIs, SMT DEF zero_less, zero_le
    <3>3. m[x][0] >= zero_less /\ m[x][0] <= zero_le
      BY <3>1, SMT DEF constraint_to_bound, zero_less, zero_le
    <3>4. m[x][0] >= zero_le
      BY <1>1, <1>8, <3>2, <3>3, NotBelowZero
    <3> QED BY <3>1, <3>2, <3>3, <3>4, SMT DEF zero_le
  <2>2. IsFinite(m[0][x]) /\ IsFinite(m[x][0])
    BY <2>1, InfinityIsEven, SMT DEF IsFinite
  \* Going through x costs nothing: x is 0.
  <2>3. ASSUME NEW c \in Int PROVE Sum2(c, 1) = c /\ Sum2(1, c) = c
    <3>1. 1 \div 2 = 0 /\ 1 % 2 = 1 /\ 1 \in Int
      BY SMT
    <3>2. /\ Sum2(c, 1) = 2 * ((c \div 2) + (1 \div 2)) + (IF c % 2 = 1 /\ 1 % 2 = 1 THEN 1 ELSE 0)
          /\ Sum2(1, c) = 2 * ((1 \div 2) + (c \div 2)) + (IF 1 % 2 = 1 /\ c % 2 = 1 THEN 1 ELSE 0)
      BY <3>1, Sum2Value
    <3> QED BY <3>1, <3>2, SMT
  <2>4. ASSUME NEW p \in Index \ {x} PROVE m[p][x] >= m[p][0] /\ m[x][p] >= m[0][p]
    <3>0. /\ p \in Index /\ m[p][x] \in Int /\ m[p][0] \in Int /\ m[x][p] \in Int /\ m[0][p] \in Int
          /\ m[p][0] <= infinity /\ m[0][p] <= infinity /\ infinity \in Int
      BY <1>1, <1>5, Width
    <3>1. m[p][x] >= m[p][0]
      <4>1. CASE IsFinite(m[p][x])
        <5>1. m[p][0] <= Sum2(m[p][x], m[x][0])
          BY <1>1, <1>8, <2>2, <3>0, <4>1, TriangleOfBounds, TightEntries
        <5> QED BY <2>1, <2>3, <3>0, <5>1
      <4>2. CASE ~IsFinite(m[p][x])
        BY <3>0, <4>2 DEF IsFinite
      <4> QED BY <4>1, <4>2
    <3>2. m[x][p] >= m[0][p]
      <4>1. CASE IsFinite(m[x][p])
        <5>1. m[0][p] <= Sum2(m[0][x], m[x][p])
          BY <1>1, <1>8, <2>2, <3>0, <4>1, TriangleOfBounds, TightEntries
        <5> QED BY <2>1, <2>3, <3>0, <5>1
      <4>2. CASE ~IsFinite(m[x][p])
        BY <3>0, <4>2 DEF IsFinite
      <4> QED BY <4>1, <4>2
    <3> QED BY <3>1, <3>2
  <2>5. In(v, Free(m, x)) <=> In(WithClocks(v, {x}, v[0]), m)
    BY <1>1, <2>4, FreeMeaning
  <2> QED BY <1>1, <1>3, <1>8, <2>5
<1> QED BY <1>6, <1>7, <1>8

\* preset(x, y) gives up where a test fails; the condition says that none does.
LEMMA PresetToMeaning ==
    ASSUME NEW m, WellFormed(m), NEW x \in Clocks, NEW y \in Clocks, x # y,
           \A p \in Index \ {x} : m[p][x] >= m[p][y] /\ m[x][p] >= m[y][p],
           NEW v \in Coarse
    PROVE  In(v, preset_assign(m, x, y)) <=> In(WithClocks(v, {x}, v[y]), m)
<1>1. x \in Index /\ y \in Index
  BY SpecialEntries
<1>2. ~\E p \in Index \ {x, y} : m[p][x] < m[p][y] \/ m[x][p] < m[y][p]
  <2> SUFFICES ASSUME NEW p \in Index \ {x, y}
               PROVE  ~(m[p][x] < m[p][y]) /\ ~(m[x][p] < m[y][p])
    OBVIOUS
  <2>1. /\ m[p][x] \in Int /\ m[p][y] \in Int /\ m[x][p] \in Int /\ m[y][p] \in Int
        /\ m[p][x] >= m[p][y] /\ m[x][p] >= m[y][p]
    BY <1>1, EntryInt DEF WellFormed
  <2> QED BY <2>1, SMT
<1>3. preset_assign(m, x, y) = Free(m, x)
  BY <1>2 DEF preset_assign
<1> QED BY <1>1, <1>3, FreeMeaning

(* While no sum overflows, the presets of a flagged matrix are inverse       *)
(* images, under the conditions of PresetsExact and for every number of      *)
(* clocks.                                                                   *)
THEOREM PresetsCorrect == Spec /\ []NoOverflow => PresetsExact
<1>1. MatrixInv /\ NoOverflow /\ [Next]_vars =>
        [/\ \A xs \in SUBSET Clocks :
              Preset(xs) /\ (\A x \in xs : dbm[0][x] # zero_less) =>
                \A v \in Coarse : In(v, dbm') = In(WithClocks(v, xs, 0), dbm)
         /\ \A x, y \in Clocks :
              /\ x # y /\ PresetTo(x, y)
              /\ \A p \in Index \ {x} : dbm[p][x] >= dbm[p][y] /\ dbm[x][p] >= dbm[y][p]
              => \A v \in Coarse : In(v, dbm') = In(WithClocks(v, {x}, v[y]), dbm)
         /\ \A x \in Clocks :
              PresetClock(x) /\ constraint_to_bound(dbm[x][0]) = 0 =>
                \A v \in Coarse : In(v, dbm') = In(WithClocks(v, {x}, 0), dbm)]_vars
  <2> SUFFICES ASSUME MatrixInv, NoOverflow
               PROVE  /\ \A xs \in SUBSET Clocks :
                           Preset(xs) /\ (\A x \in xs : dbm[0][x] # zero_less) =>
                             \A v \in Coarse : In(v, dbm') = In(WithClocks(v, xs, 0), dbm)
                      /\ \A x, y \in Clocks :
                           /\ x # y /\ PresetTo(x, y)
                           /\ \A p \in Index \ {x} :
                                dbm[p][x] >= dbm[p][y] /\ dbm[x][p] >= dbm[y][p]
                           => \A v \in Coarse : In(v, dbm') = In(WithClocks(v, {x}, v[y]), dbm)
                      /\ \A x \in Clocks :
                           PresetClock(x) /\ constraint_to_bound(dbm[x][0]) = 0 =>
                             \A v \in Coarse : In(v, dbm') = In(WithClocks(v, {x}, 0), dbm)
    OBVIOUS
  <2>1. WellFormed(dbm) /\ (m_is_cf /\ pc = "idle" => emptiness(dbm) \/ Tight(dbm))
    BY FlaggedIsTight DEF MatrixInv, TypeInv
  <2>2. ASSUME NEW a, NEW b PROVE In(a, b) \in BOOLEAN
    BY DEF In
  <2>3. ASSUME NEW xs \in SUBSET Clocks, Preset(xs), \A x \in xs : dbm[0][x] # zero_less,
               NEW v \in Coarse
        PROVE  In(v, dbm') = In(WithClocks(v, xs, 0), dbm)
    <3>1. dbm' = preset(dbm, xs) /\ m_is_cf /\ pc = "idle"
      BY <2>3 DEF Preset, ClearsUnless, Called
    <3>2. In(v, preset(dbm, xs)) <=> In(WithClocks(v, xs, 0), dbm)
      BY <2>1, <2>3, <3>1, PresetMeaning
    <3> QED BY <2>2, <3>1, <3>2
  <2>4. ASSUME NEW x \in Clocks, NEW y \in Clocks, x # y, PresetTo(x, y),
               \A p \in Index \ {x} : dbm[p][x] >= dbm[p][y] /\ dbm[x][p] >= dbm[y][p],
               NEW v \in Coarse
        PROVE  In(v, dbm') = In(WithClocks(v, {x}, v[y]), dbm)
    <3>1. dbm' = preset_assign(dbm, x, y)
      BY <2>4 DEF PresetTo, ClearsUnless
    <3>2. In(v, preset_assign(dbm, x, y)) <=> In(WithClocks(v, {x}, v[y]), dbm)
      BY <2>1, <2>4, PresetToMeaning
    <3> QED BY <2>2, <3>1, <3>2
  <2>5. ASSUME NEW x \in Clocks, PresetClock(x), constraint_to_bound(dbm[x][0]) = 0,
               NEW v \in Coarse
        PROVE  In(v, dbm') = In(WithClocks(v, {x}, 0), dbm)
    <3>1. dbm' = preset_clock(dbm, x) /\ m_is_cf /\ pc = "idle"
      BY <2>5 DEF PresetClock, ClearsUnless, Called
    <3>2. In(v, preset_clock(dbm, x)) <=> In(WithClocks(v, {x}, 0), dbm)
      BY <2>1, <2>5, <3>1, PresetClockMeaning
    <3> QED BY <2>2, <3>1, <3>2
  <2> QED BY <2>3, <2>4, <2>5
<1> QED BY <1>1, InitMatrixInv, NextMatrixInv, PTL DEF Spec, PresetsExact

----------------------------------------------------------------------------
(* The maximal constant *)

\* What NothingHigh says of dbm.
NoneHigh(m) == \A p \in Index, q \in Index :
                 IsFinite(m[p][q]) => constraint_to_bound(m[p][q]) <= MaxC

\* A difference whose bound is not above the constant is only loosened.
LEMMA DifferenceLoosened ==
    ASSUME NEW c \in Entry, IsFinite(c) => constraint_to_bound(c) <= MaxC,
           NEW d \in Int, Satisfies(d, c)
    PROVE  Satisfies(d, BoundDifference(c))
<1>1. /\ c \in Int /\ c \in Raw /\ c <= infinity /\ MaxC \in Nat
      /\ Limit \in Nat /\ Limit % 4 = 0 /\ c >= -Limit
  BY EntryInt, MatrixAssumption, LimitAssumption DEF Raw
<1>2. BoundDifference(c) = c \/ (-(c \div 2) > MaxC /\ BoundDifference(c) = Wrap(-2 * MaxC))
  <2>1. c = infinity => c \div 2 = infinity_bound
    BY LimitAssumption, SMT DEF infinity, infinity_bound
  <2>2. 2 * (-MaxC) + 0 = -2 * MaxC
    BY <1>1, SMT
  <2>3. CASE c = infinity
    BY <2>1, <2>3 DEF BoundDifference, constraint_to_bound
  <2>4. CASE c # infinity
    <3>1. ~(c \div 2 > MaxC)
      <4>1. c \div 2 <= MaxC /\ c \div 2 \in Int
        BY <1>1, <2>4, SMT DEF IsFinite, constraint_to_bound
      <4> QED BY <1>1, <4>1, SMT
    <3> QED BY <2>2, <3>1 DEF BoundDifference, constraint_to_bound, bound_to_constraint, strict
  <2> QED BY <2>3, <2>4
<1>3. CASE -(c \div 2) > MaxC /\ BoundDifference(c) = Wrap(-2 * MaxC)
  <2>1. -2 * MaxC \in Raw /\ -2 * MaxC \in Int
    BY <1>1, <1>3, SMT DEF Raw
  <2>2. BoundDifference(c) = -2 * MaxC
    BY <1>3, <2>1, WrapIdentity
  <2>3. Room(c) <= Room(-2 * MaxC)
    BY <1>1, <1>3, SMT DEF Room
  <2>4. c # infinity
    BY <1>1, <1>3, InfinityIsEven, SMT
  <2>5. d <= Room(c) /\ Room(c) \in Int /\ Room(-2 * MaxC) \in Int
    BY <1>1, <2>1, <2>4, SatisfiesRoom
  <2>6. d <= Room(-2 * MaxC)
    BY <2>3, <2>5, Transitive
  <2> QED BY <2>1, <2>2, <2>6, SatisfiesRoom
<1> QED BY <1>2, <1>3

\* The constraint bound() derives for a clock above the constant.
LEMMA AboveConstant ==
    ASSUME NEW c \in Entry, NEW u \in Entry, u # infinity, -(c \div 2) > MaxC,
           u \div 2 <= MaxC,
           NEW a \in Int, a >= 0, NEW b \in Int, Satisfies(a, u), Satisfies(-b, c)
    PROVE  LET e == bound_to_constraint(constraint_to_bound(u) - MaxC, strict)
           IN  /\ e \in Entry
               /\ constraint_to_bound(e) <= MaxC
               /\ Satisfies(a - b, e)
<1> DEFINE e == bound_to_constraint(constraint_to_bound(u) - MaxC, strict)
           o == (u \div 2) - MaxC
<1>1. /\ c \in Int /\ u \in Int /\ u <= infinity /\ MaxC \in Nat /\ infinity \in Int
      /\ Limit \in Nat /\ Limit % 4 = 0 /\ c >= -Limit /\ infinity = Limit - 2 /\ infinity >= 6
  BY EntryInt, Width, InfinityIsEven, MatrixAssumption, LimitAssumption DEF Raw
<1>2. c # infinity
  BY <1>1, SMT
<1>3. a <= Room(u) /\ -b <= Room(c)
  <2>1. -b \in Int
    BY SMT
  <2> QED BY <1>1, <1>2, <2>1, SatisfiesRoom
<1>4. u \div 2 >= 0 /\ o \in Int /\ o <= 0 /\ o >= -MaxC /\ 2 * o \in Raw /\ 2 * o <= infinity
  BY <1>1, <1>3, SMT DEF Room, Raw
<1>5. e = 2 * o
  <2>1. 2 * o + 0 = 2 * o
    BY <1>4, SMT
  <2>2. e = Wrap(2 * o)
    BY <2>1 DEF bound_to_constraint, constraint_to_bound, strict
  <2> HIDE DEF e, o
  <2> QED BY <1>4, <2>2, WrapIdentity
<1>6. a - b <= Room(2 * o) /\ a - b \in Int /\ 2 * o \in Int
  <2>1. a <= 6 * (u \div 2) /\ -b <= -6 * MaxC - 6
    BY <1>1, <1>3, SMT DEF Room
  <2>2. Room(2 * o) = 6 * o - 1
    <3> HIDE DEF o
    <3> QED BY <1>4, SMT DEF Room
  <2> QED BY <1>1, <1>4, <2>1, <2>2, SMT
<1>7. Satisfies(a - b, e)
  BY <1>5, <1>6, SatisfiesRoom
<1>8. e \in Entry /\ constraint_to_bound(e) <= MaxC
  <2>1. (2 * o) \div 2 <= MaxC
    <3> HIDE DEF o
    <3> QED BY <1>1, <1>4, SMT
  <2> QED BY <1>4, <1>5, <2>1 DEF Entry, constraint_to_bound
<1> QED BY <1>7, <1>8

(* bound() loses no valuation where no upper bound and no difference exceeds *)
(* the constant: half of BoundOfLowerBounds, and what the search relies on   *)
(* when it bounds the zone after letting time pass.  For every number of     *)
(* clocks, and for valuations of any fineness and size.                      *)
THEOREM BoundLosesNothing ==
    ASSUME NEW m, WellFormed(m), ~emptiness(m), NoneHigh(m),
           NEW v \in [Index -> Int], v[0] = 0, \A p \in Index : v[p] >= 0,
           In(v, m)
    PROVE  In(v, bound(m))
<1>1. /\ 0 \in Index
      /\ \A p, q \in Index : m[p][q] \in Entry /\ m[p][q] \in Int
      /\ \A p \in Index : v[p] \in Int
  BY SpecialEntries, EntryInt DEF WellFormed
<1>2. \A p, q \in Index : Satisfies(v[p] - v[q], m[p][q])
  BY DEF In
<1>3. ASSUME NEW p \in Index PROVE Upper(m, p) = m[p][0] /\ ~High(m, p)
  <2>1. ~High(m, p)
    <3>1. IsFinite(m[p][0]) => constraint_to_bound(m[p][0]) <= MaxC
      BY <1>1 DEF NoneHigh
    <3>2. m[p][0] = infinity => constraint_to_bound(m[p][0]) = infinity_bound
      BY LimitAssumption, SMT DEF infinity, infinity_bound, constraint_to_bound
    <3>3. constraint_to_bound(m[p][0]) \in Int /\ MaxC \in Int
      BY <1>1, EntryBound, MatrixAssumption
    <3>4. ASSUME NEW n \in Int, n <= MaxC PROVE ~(n > MaxC)
      BY <3>3, <3>4, SMT
    <3> QED BY <3>1, <3>2, <3>3, <3>4 DEF High, IsFinite
  <2> QED BY <2>1 DEF Upper
<1>4. ASSUME NEW p \in Index, NEW q \in Index
      PROVE  /\ BoundClocks(m)[p][q] \in Entry
             /\ IsFinite(BoundClocks(m)[p][q]) => constraint_to_bound(BoundClocks(m)[p][q]) <= MaxC
             /\ Satisfies(v[p] - v[q], BoundClocks(m)[p][q])
  <2> DEFINE e == bound_to_constraint(constraint_to_bound(m[p][0]) - MaxC, strict)
  <2>1. BoundClocks(m)[p][q] =
          IF p # q /\ q # 0 /\ Low(m, q)
            THEN IF m[p][0] = infinity THEN infinity ELSE e
          ELSE m[p][q]
    BY <1>3 DEF BoundClocks, Entries
  <2> HIDE DEF e
  <2>2. v[p] - v[q] \in Int /\ v[p] - v[0] = v[p] /\ v[0] - v[q] = -v[q]
    <3>1. v[p] \in Int /\ v[q] \in Int
      BY <1>1
    <3> QED BY <3>1, SMT
  <2>3. CASE ~(p # q /\ q # 0 /\ Low(m, q))
    BY <1>1, <1>2, <2>1, <2>3 DEF NoneHigh
  <2>4. CASE p # q /\ q # 0 /\ Low(m, q) /\ m[p][0] = infinity
    <3>1. BoundClocks(m)[p][q] = infinity
      BY <2>1, <2>4
    <3>2. Satisfies(v[p] - v[q], infinity)
      BY DEF Satisfies, IsFinite
    <3> QED BY <3>1, <3>2, SpecialEntries DEF IsFinite
  <2>5. CASE p # q /\ q # 0 /\ Low(m, q) /\ m[p][0] # infinity
    <3>1. -(m[0][q] \div 2) > MaxC
      BY <2>5 DEF Low, constraint_to_bound
    <3>2. m[p][0] \div 2 <= MaxC
      BY <1>1, <2>5 DEF NoneHigh, IsFinite, constraint_to_bound
    <3>3. Satisfies(v[p], m[p][0]) /\ Satisfies(-v[q], m[0][q])
      <4> HIDE DEF Satisfies
      <4> QED BY <1>1, <1>2, <2>2
    <3>4. /\ m[0][q] \in Entry /\ m[p][0] \in Entry
          /\ v[p] \in Int /\ v[q] \in Int /\ v[p] >= 0
      BY <1>1
    <3>5. e \in Entry /\ constraint_to_bound(e) <= MaxC /\ Satisfies(v[p] - v[q], e)
      <4> HIDE DEF Satisfies
      <4> QED BY <2>5, <3>1, <3>2, <3>3, <3>4, AboveConstant DEF e
    <3>6. BoundClocks(m)[p][q] = e
      BY <2>1, <2>5
    <3> QED BY <3>5, <3>6
  <2> QED BY <2>3, <2>4, <2>5
<1>5. ASSUME NEW p \in Index, NEW q \in Index
      PROVE  Satisfies(v[p] - v[q], bound(m)[p][q])
  <2>1. bound(m)[p][q] = BoundClocks(m)[p][q]
          \/ bound(m)[p][q] = BoundDifference(BoundClocks(m)[p][q])
    BY DEF bound, Entries
  <2>2. v[p] - v[q] \in Int
    BY Difference
  <2> HIDE DEF Satisfies
  <2> QED BY <1>4, <2>1, <2>2, DifferenceLoosened
<1> QED BY <1>5 DEF In

----------------------------------------------------------------------------
(* Images *)

\* A valuation that gives every clock the value of its source was not lost.
LEMMA ImageWithin ==
    ASSUME NEW m, NEW source \in [Index -> Index],
           NEW u \in [Index -> Int], In(u, m),
           NEW v \in [Index -> Int], \A p \in Index : v[p] = u[source[p]]
    PROVE  In(v, Substituted(m, source))
<1> DEFINE f == Substituted(m, source)
<1>1. \A p, q \in Index : f[p][q] = IF p = q THEN m[p][q] ELSE m[source[p]][source[q]]
  BY DEF Substituted, Entries
<1>2. \A p, q \in Index : Satisfies(u[p] - u[q], m[p][q])
  BY DEF In
<1> HIDE DEF f, Satisfies
<1>3. ASSUME NEW p \in Index, NEW q \in Index PROVE Satisfies(v[p] - v[q], f[p][q])
  <2>1. CASE p = q
    <3>1. v[p] - v[q] = u[p] - u[q]
      BY <2>1, SMT
    <3> QED BY <1>1, <1>2, <2>1, <3>1
  <2>2. CASE p # q
    <3>1. source[p] \in Index /\ source[q] \in Index
      OBVIOUS
    <3> QED BY <1>1, <1>2, <2>2, <3>1
  <2> QED BY <2>1, <2>2
<1> QED BY <1>3 DEF In, f

\* One clock takes the value of another: a value it may have had before exists,
\* because its lower bounds are below its upper bounds.
LEMMA OneClockImage ==
    ASSUME NEW m, Tight(m), WithinCap(m), NEW x \in Clocks, NEW y \in Index, x # y,
           NEW v \in Coarse
    PROVE  In(v, Substituted(m, [p \in Index |-> IF p = x THEN y ELSE p]))
             <=> /\ v[x] = v[y]
                 /\ \E n \in 0 .. Scale * Outer : In(WithClocks(v, {x}, n), m)
<1> DEFINE source == [p \in Index |-> IF p = x THEN y ELSE p]
           f == Substituted(m, source)
<1>1. /\ Even(v) /\ v \in [Index -> Int] /\ v[0] = 0
      /\ \A p \in Index : v[p] \in Int /\ v[p] >= 0 /\ v[p] <= 6 * Inner
  BY CoarseIsEven
<1>2. 0 \in Index /\ x \in Index /\ x # 0
  BY SpecialEntries, SMT DEF Clocks
<1>3. source \in [Index -> Index] /\ \A p \in Index : source[p] = IF p = x THEN y ELSE p
  OBVIOUS
<1>4. \A p, q \in Index : f[p][q] = IF p = q THEN m[p][q] ELSE m[source[p]][source[q]]
  BY DEF Substituted, Entries
<1>5. Cap \in Nat /\ Inner \in Nat /\ Outer \in Nat /\ Outer - Inner >= Cap + 1
  BY DBMAssumption, ZonesAssumption, SMT
<1>6. \A p, q \in Index : m[p][q] \in Entry /\ m[p][q] \in Int /\ Room(m[p][q]) \in Int
  BY TightEntries
<1>7. ASSUME NEW n \in Int
      PROVE  /\ WithClocks(v, {x}, n) \in [Index -> Int]
             /\ \A p \in Index : WithClocks(v, {x}, n)[p] = IF p = x THEN n ELSE v[p]
  BY <1>1, <1>7, WithClocksIs
<1> HIDE DEF f, source, Satisfies
<1>8. ASSUME v[x] = v[y], NEW n \in 0 .. Scale * Outer, In(WithClocks(v, {x}, n), m)
      PROVE  In(v, f)
  <2> DEFINE u == WithClocks(v, {x}, n)
  <2>1. n \in Int
    BY SMT
  <2>2. u \in [Index -> Int] /\ \A p \in Index : u[p] = IF p = x THEN n ELSE v[p]
    BY <1>7, <2>1
  <2>3. \A p \in Index : v[p] = u[source[p]]
    BY <1>3, <1>8, <2>2
  <2> QED BY <1>1, <1>3, <1>8, <2>2, <2>3, ImageWithin DEF f
<1>9. ASSUME In(v, f)
      PROVE  v[x] = v[y] /\ \E n \in 0 .. Scale * Outer : In(WithClocks(v, {x}, n), m)
  <2>0. \A a, b \in Index : Satisfies(v[a] - v[b], f[a][b])
    BY <1>9 DEF In
  <2>1. ASSUME NEW a \in Index, NEW b \in Index, a # x, b # x
        PROVE  Satisfies(v[a] - v[b], m[a][b])
    BY <1>3, <1>4, <2>0, <2>1
  <2>2. v[x] = v[y]
    <3>1. Satisfies(v[x] - v[y], m[y][y]) /\ Satisfies(v[y] - v[x], m[y][y])
      <4>1. f[x][y] = m[y][y] /\ f[y][x] = m[y][y]
        BY <1>2, <1>3, <1>4
      <4> QED BY <1>2, <2>0, <4>1
    <3>2. m[y][y] \in Int /\ Room(m[y][y]) = 0 /\ m[y][y] # infinity
      <4>1. m[y][y] = 1
        BY TightEntries DEF zero_le
      <4> QED BY <4>1, InfinityIsEven, SMT DEF Room
    <3>3. v[x] - v[y] \in Int /\ v[y] - v[x] \in Int
      BY <1>1, <1>2, Difference
    <3>4. v[x] - v[y] <= 0 /\ v[y] - v[x] <= 0
      BY <3>1, <3>2, <3>3, SatisfiesRoom
    <3>5. v[x] \in Int /\ v[y] \in Int
      BY <1>1, <1>2
    <3> QED BY <3>4, <3>5, SMT
  \* The least value above the lower bounds.
  <2> DEFINE Below == {q \in Index : q # x /\ IsFinite(m[q][x])}
             G == {n \in Nat : \A q \in Below : v[q] - Room(m[q][x]) <= n}
             n == Minimum(G)
  <2>3. ASSUME NEW q \in Below
        PROVE  /\ v[q] - Room(m[q][x]) <= 6 * Inner + 6 * Cap + 1
               /\ v[q] - Room(m[q][x]) \in Int
    <3>1. q \in Index /\ m[q][x] \in Int /\ Room(m[q][x]) \in Int
      BY <1>2, <1>6
    <3>2. m[q][x] \div 2 \in (-Cap) .. Cap
      BY <1>2, <3>1 DEF WithinCap, constraint_to_bound
    <3>3. m[q][x] \div 2 >= -Cap /\ Cap \in Int
      BY <1>5, <3>2
    <3>4. Room(m[q][x]) >= -6 * Cap - 1
      BY <3>1, <3>3, RoomWithin
    <3>5. v[q] \in Int /\ v[q] <= 6 * Inner
      BY <1>1, <3>1
    <3> QED BY <1>5, <3>1, <3>4, <3>5, SMT
  <2>4. 6 * Inner + 6 * Cap + 1 \in G
    BY <1>5, <2>3
  <2>5. n \in G /\ \A o \in G : n <= o
    <3>1. G \in SUBSET Nat /\ G # {}
      BY <2>4
    <3> HIDE DEF G
    <3> QED BY <3>1, LeastNatural
  <2>6. /\ n \in Nat /\ n <= 6 * Inner + 6 * Cap + 1
        /\ \A q \in Below : v[q] - Room(m[q][x]) <= n
    BY <2>4, <2>5
  <2>7. \E q \in Below : n = v[q] - Room(m[q][x])
    <3>1. CASE n = 0
      \* The lower bound of x against the zero clock.
      <4>1. 0 \in Below /\ Room(m[0][x]) <= 0 /\ Room(m[0][x]) \in Int
        BY <1>2, <1>6, TightEntries
      <4>2. v[0] - Room(m[0][x]) <= n
        BY <2>6, <4>1
      <4>3. v[0] - Room(m[0][x]) = n
        BY <1>1, <3>1, <4>1, <4>2, SMT
      <4> QED BY <4>1, <4>3
    <3>2. CASE n # 0
      <4>1. n - 1 \in Nat /\ ~(n <= n - 1)
        <5> HIDE DEF n
        <5> QED BY <2>6, <3>2, SMT
      <4>2. n - 1 \notin G
        BY <2>5, <4>1
      <4>3. PICK q \in Below : ~(v[q] - Room(m[q][x]) <= n - 1)
        BY <4>1, <4>2
      <4>4. v[q] - Room(m[q][x]) <= n /\ v[q] - Room(m[q][x]) \in Int
        BY <2>3, <2>6
      <4>5. ASSUME NEW o \in Nat, NEW low \in Int, low <= o, ~(low <= o - 1)
            PROVE  o = low
        BY <4>5, SMT
      <4>6. n = v[q] - Room(m[q][x])
        <5> HIDE DEF n, Below
        <5> QED BY <2>6, <4>3, <4>4, <4>5
      <4> QED BY <4>6
    <3> QED BY <3>1, <3>2
  <2> HIDE DEF n
  <2>8. n \in 0 .. Scale * Outer
    <3>1. n <= 6 * Outer
      BY <1>5, <2>6, SMT
    <3> QED BY <1>5, <2>6, <3>1, SMT DEF Scale
  <2> DEFINE u == WithClocks(v, {x}, n)
  <2>9. u \in [Index -> Int] /\ \A p \in Index : u[p] = IF p = x THEN n ELSE v[p]
    <3>1. n \in Int
      BY <2>6, SMT
    <3> QED BY <1>7, <3>1
  <2> HIDE DEF u
  <2>10. ASSUME NEW p \in Index, NEW q \in Index PROVE Satisfies(u[p] - u[q], m[p][q])
    <3>0. u[p] - u[q] \in Int /\ m[p][q] \in Int /\ Room(m[p][q]) \in Int
      BY <1>6, <2>9, Difference
    <3>1. CASE p # x /\ q # x
      BY <2>1, <2>9, <3>1
    <3>2. CASE p = q
      <4>1. u[p] - u[q] = 0 /\ m[p][q] = 1
        <5>1. u[p] \in Int
          BY <2>9
        <5> QED BY <3>2, <5>1, TightEntries, SMT DEF zero_le
      <4>2. Satisfies(0, zero_le)
        BY SpecialEntries, Width, ZeroSatisfies
      <4> QED BY <4>1, <4>2 DEF zero_le
    <3>3. CASE p # x /\ q = x
      <4>1. CASE ~IsFinite(m[p][q])
        BY <4>1, <3>0, SatisfiesRoom DEF IsFinite
      <4>2. CASE IsFinite(m[p][q])
        <5>1. v[p] - Room(m[p][x]) <= n
          BY <2>6, <3>3, <4>2
        <5>2. u[p] = v[p] /\ u[q] = n /\ v[p] \in Int
          BY <1>1, <2>9, <3>3
        <5>3. u[p] - u[q] <= Room(m[p][q])
          BY <2>6, <3>0, <3>3, <5>1, <5>2, SMT
        <5> QED BY <3>0, <5>3, SatisfiesRoom
      <4> QED BY <4>1, <4>2
    <3>4. CASE p = x /\ q # x
      <4>1. CASE ~IsFinite(m[p][q])
        BY <4>1, <3>0, SatisfiesRoom DEF IsFinite
      <4>2. CASE IsFinite(m[p][q])
        <5>1. PICK r \in Below : n = v[r] - Room(m[r][x])
          BY <2>7
        <5>2. r \in Index /\ r # x /\ IsFinite(m[r][x]) /\ Room(m[r][x]) \in Int
          BY <1>2, <1>6
        <5>3. v[r] - v[q] <= Room(m[r][x]) + Room(m[x][q])
          <6>1. Satisfies(v[r] - v[q], m[r][q])
            BY <2>1, <3>4, <5>2
          <6>2. WellFormed(m) /\ Fits(m) /\ Canonical(m)
            BY TightEntries
          <6> QED BY <1>1, <1>2, <3>4, <4>2, <5>2, <6>1, <6>2, RoomBetween
        <5>4. u[p] = n /\ u[q] = v[q] /\ v[q] \in Int /\ v[r] \in Int
          BY <1>1, <2>9, <3>4, <5>2
        <5>5. u[p] - u[q] <= Room(m[p][q])
          BY <2>6, <3>0, <3>4, <5>1, <5>2, <5>3, <5>4, SMT
        <5> QED BY <3>0, <5>5, SatisfiesRoom
      <4> QED BY <4>1, <4>2
    <3> QED BY <3>1, <3>2, <3>3, <3>4
  <2>11. In(u, m)
    BY <2>10 DEF In
  <2> QED BY <2>2, <2>8, <2>11 DEF u
<1> QED BY <1>8, <1>9 DEF f, source

LEMMA OverwrittenIs ==
    ASSUME NEW xs \in SUBSET Clocks, NEW v \in [Index -> Int], NEW f \in [xs -> Int]
    PROVE  /\ Overwritten(v, f) \in [Index -> Int]
           /\ \A p \in Index : Overwritten(v, f)[p] = IF p \in xs THEN f[p] ELSE v[p]
BY DEF Overwritten

LEMMA ResetWithin ==
    ASSUME NEW m, NEW xs \in SUBSET Clocks, NEW v \in Coarse, ResetImage(v, m, xs)
    PROVE  In(v, reset(m, xs))
<1> DEFINE source == [p \in Index |-> IF p \in xs THEN 0 ELSE p]
<1>1. v \in [Index -> Int] /\ v[0] = 0
  BY CoarseIsEven
<1>2. 0 \in Index /\ 0 \notin xs
  BY SpecialEntries, SMT DEF Clocks
<1>3. source \in [Index -> Index] /\ \A p \in Index : source[p] = IF p \in xs THEN 0 ELSE p
  BY <1>2
<1>4. PICK f \in [xs -> 0 .. Scale * Outer] : In(Overwritten(v, f), m)
  BY DEF ResetImage
<1>5. f \in [xs -> Int]
  BY <1>4
<1> DEFINE u == Overwritten(v, f)
<1>6. u \in [Index -> Int] /\ \A p \in Index : u[p] = IF p \in xs THEN f[p] ELSE v[p]
  BY <1>1, <1>5, OverwrittenIs
<1>7. \A p \in Index : v[p] = u[source[p]]
  <2> HIDE DEF source, u
  <2> QED BY <1>1, <1>2, <1>3, <1>6 DEF ResetImage
<1>8. In(v, Substituted(m, source))
  <2> HIDE DEF source, u
  <2> QED BY <1>1, <1>3, <1>4, <1>6, <1>7, ImageWithin DEF u
<1> QED BY <1>8 DEF reset

LEMMA OneClockReset ==
    ASSUME NEW m, Tight(m), WithinCap(m), NEW x \in Clocks, NEW v \in Coarse
    PROVE  In(v, reset(m, {x})) <=> ResetImage(v, m, {x})
<1>1. v \in [Index -> Int] /\ v[0] = 0 /\ 0 \in Index /\ x # 0 /\ x \in Index
  BY CoarseIsEven, SpecialEntries, SMT DEF Clocks
<1>2. reset(m, {x}) = Substituted(m, [p \in Index |-> IF p = x THEN 0 ELSE p])
  <2>1. [p \in Index |-> IF p \in {x} THEN 0 ELSE p] = [p \in Index |-> IF p = x THEN 0 ELSE p]
    OBVIOUS
  <2> QED BY <2>1 DEF reset
<1>3. ASSUME In(v, reset(m, {x})) PROVE ResetImage(v, m, {x})
  <2>1. v[x] = v[0] /\ \E n \in 0 .. Scale * Outer : In(WithClocks(v, {x}, n), m)
    <3>1. In(v, Substituted(m, [p \in Index |-> IF p = x THEN 0 ELSE p]))
      BY <1>2, <1>3
    <3> HIDE DEF In, Substituted
    <3> QED BY <1>1, <3>1, OneClockImage
  <2>2. PICK n \in 0 .. Scale * Outer : In(WithClocks(v, {x}, n), m)
    BY <2>1
  <2> DEFINE f == [p \in {x} |-> n]
  <2>3. f \in [{x} -> 0 .. Scale * Outer] /\ f \in [{x} -> Int] /\ f[x] = n /\ n \in Int
    <3>1. n \in Int
      BY SMT
    <3> QED BY <3>1
  <2>4. /\ Overwritten(v, f) \in [Index -> Int]
        /\ \A p \in Index : Overwritten(v, f)[p] = IF p \in {x} THEN f[p] ELSE v[p]
    <3>1. {x} \in SUBSET Clocks /\ v \in [Index -> Int] /\ f \in [{x} -> Int]
      BY <1>1, <2>3
    <3>2. DOMAIN f = {x}
      BY <3>1
    <3>3. \A p \in Index : v[p] \in Int /\ (p \in {x} => f[p] \in Int)
      BY <3>1
    <3> HIDE DEF f
    <3> QED BY <3>2, <3>3 DEF Overwritten
  <2>5. /\ WithClocks(v, {x}, n) \in [Index -> Int]
        /\ \A p \in Index : WithClocks(v, {x}, n)[p] = IF p \in {x} THEN n ELSE v[p]
    BY <1>1, <2>3, WithClocksIs
  <2>6. Overwritten(v, f) = WithClocks(v, {x}, n)
    <3> DEFINE u == Overwritten(v, f)  w == WithClocks(v, {x}, n)
    <3>1. \A p \in Index : u[p] = w[p]
      <4>1. \A p \in Index : u[p] = IF p \in {x} THEN n ELSE v[p]
        <5> HIDE DEF f
        <5> QED BY <2>3, <2>4
      <4> HIDE DEF u, w, f
      <4> QED BY <2>5, <4>1 DEF w
    <3> HIDE DEF u, w, f
    <3>2. u = w
      BY <2>4, <2>5, <3>1 DEF u, w
    <3> QED BY <3>2 DEF u, w
  <2>7. In(Overwritten(v, f), m)
    BY <2>2, <2>6
  <2>8. \A p \in {x} : v[p] = 0
    BY <1>1, <2>1
  <2> HIDE DEF f
  <2> QED BY <2>3, <2>7, <2>8 DEF ResetImage
<1> QED BY <1>3, ResetWithin

\* ResetsExact, for the resets of one clock; a set of clocks loses nothing.
OneClockResetsExact ==
    [][m_is_cf /\ ~emptiness(dbm) =>
         /\ \A xs \in SUBSET Clocks :
              Reset(xs) => \A v \in Coarse : ResetImage(v, dbm, xs) => In(v, dbm')
         /\ \A x \in Clocks :
              Reset({x}) => \A v \in Coarse : In(v, dbm') = ResetImage(v, dbm, {x})
         /\ \A x, y \in Clocks : x # y /\ ResetTo(x, y) =>
              \A v \in Coarse : In(v, dbm') = AssignImage(v, dbm, x, y)]_vars

(* While no sum overflows, the reset of one clock and the assignment of a    *)
(* flagged matrix give the image of the zone and nothing else, and the reset *)
(* of a set of clocks loses no valuation of the image, for every number of   *)
(* clocks.  (That resetting several clocks adds nothing needs witnesses on a *)
(* grid as fine as the number of clocks: the run of Zones checks it for      *)
(* two.)                                                                     *)
THEOREM ResetsCorrect == Spec /\ []NoOverflow => OneClockResetsExact
<1>1. MatrixInv /\ NoOverflow /\ [Next]_vars =>
        [m_is_cf /\ ~emptiness(dbm) =>
           /\ \A xs \in SUBSET Clocks :
                Reset(xs) => \A v \in Coarse : ResetImage(v, dbm, xs) => In(v, dbm')
           /\ \A x \in Clocks :
                Reset({x}) => \A v \in Coarse : In(v, dbm') = ResetImage(v, dbm, {x})
           /\ \A x, y \in Clocks : x # y /\ ResetTo(x, y) =>
                \A v \in Coarse : In(v, dbm') = AssignImage(v, dbm, x, y)]_vars
  <2> SUFFICES ASSUME MatrixInv, NoOverflow, m_is_cf, ~emptiness(dbm)
               PROVE  /\ \A xs \in SUBSET Clocks :
                           Reset(xs) => \A v \in Coarse : ResetImage(v, dbm, xs) => In(v, dbm')
                      /\ \A x \in Clocks :
                           Reset({x}) => \A v \in Coarse : In(v, dbm') = ResetImage(v, dbm, {x})
                      /\ \A x, y \in Clocks : x # y /\ ResetTo(x, y) =>
                           \A v \in Coarse : In(v, dbm') = AssignImage(v, dbm, x, y)
    OBVIOUS
  <2>1. pc = "idle" => Tight(dbm)
    BY FlaggedIsTight
  <2>2. ASSUME NEW a, NEW b PROVE In(a, b) \in BOOLEAN
    BY DEF In
  <2>3. ASSUME NEW xs \in SUBSET Clocks, Reset(xs), NEW v \in Coarse, ResetImage(v, dbm, xs)
        PROVE  In(v, dbm')
    <3>1. dbm' = reset(dbm, xs)
      BY <2>3 DEF Reset, Preserves
    <3> QED BY <2>3, <3>1, ResetWithin
  <2>4. ASSUME NEW x \in Clocks, Reset({x}), NEW v \in Coarse
        PROVE  In(v, dbm') = ResetImage(v, dbm, {x})
    <3>1. dbm' = reset(dbm, {x}) /\ pc = "idle" /\ WithinCap(dbm)
      BY <2>4 DEF Reset, Preserves, Called
    <3>2. In(v, reset(dbm, {x})) <=> ResetImage(v, dbm, {x})
      BY <2>1, <3>1, OneClockReset
    <3>3. ResetImage(v, dbm, {x}) \in BOOLEAN
      BY DEF ResetImage
    <3> QED BY <2>2, <3>1, <3>2, <3>3
  <2>5. ASSUME NEW x \in Clocks, NEW y \in Clocks, x # y, ResetTo(x, y), NEW v \in Coarse
        PROVE  In(v, dbm') = AssignImage(v, dbm, x, y)
    <3>1. dbm' = assign(dbm, x, y) /\ pc = "idle" /\ WithinCap(dbm)
      BY <2>5 DEF ResetTo, Clears, Called
    <3>2. y \in Index
      BY SpecialEntries
    <3>3. In(v, assign(dbm, x, y)) <=> AssignImage(v, dbm, x, y)
      BY <2>1, <2>5, <3>1, <3>2, OneClockImage DEF assign, AssignImage
    <3>4. AssignImage(v, dbm, x, y) \in BOOLEAN
      BY DEF AssignImage
    <3> QED BY <2>2, <3>1, <3>3, <3>4
  <2> QED BY <2>3, <2>4, <2>5
<1> QED BY <1>1, InitMatrixInv, NextMatrixInv, PTL DEF Spec, OneClockResetsExact

----------------------------------------------------------------------------
(* Unions of zones *)

\* Every pair of positions has a place in the product, and every place a pair.
LEMMA PairOfPlace ==
    ASSUME NEW a \in Nat, NEW b \in Nat, a > 0, b > 0, NEW n \in 1 .. a * b
    PROVE  1 + ((n - 1) \div b) \in 1 .. a /\ 1 + ((n - 1) % b) \in 1 .. b
<1>1. n \in Int /\ n - 1 >= 0 /\ n - 1 < a * b
  BY SMT
<1>2. /\ (n - 1) = b * ((n - 1) \div b) + ((n - 1) % b)
      /\ (n - 1) \div b \in Int /\ (n - 1) % b \in 0 .. b - 1
  BY <1>1, SMT
<1>3. ASSUME NEW c \in Int, NEW d \in 0 .. b - 1, b * c + d >= 0, b * c + d < a * b
      PROVE  c >= 0 /\ c < a
  <2>1. c < 0 => b * c <= -b
    BY SMT
  <2>2. c >= a => b * c >= a * b
    BY SMT
  <2> QED BY <1>3, <2>1, <2>2, SMT
<1> QED BY <1>1, <1>2, <1>3, SMT

LEMMA PlaceOfPair ==
    ASSUME NEW a \in Nat, NEW b \in Nat, NEW s \in 1 .. a, NEW t \in 1 .. b
    PROVE  LET n == (s - 1) * b + t
           IN  n \in 1 .. a * b /\ (n - 1) \div b = s - 1 /\ (n - 1) % b = t - 1
<1> DEFINE c == s - 1  d == t - 1  n == c * b + t
<1>1. c \in Nat /\ d \in Nat /\ d < b /\ c + 1 <= a /\ b > 0 /\ c * b \in Nat /\ n - 1 = c * b + d
  BY SMT
<1>2. c * b + b <= a * b
  BY SMT
<1>3. n \in 1 .. a * b
  BY <1>1, <1>2, SMT
<1>4. (c * b + d) \div b = c /\ (c * b + d) % b = d
  <2> HIDE DEF c, d
  <2> QED BY <1>1, SMT
<1> QED BY <1>1, <1>3, <1>4

\* A list as the class keeps it: never without a zone.
WellFormedList(l) ==
    /\ Len(l.dbms) \in Nat \ {0}
    /\ DOMAIN l.dbms = 1 .. Len(l.dbms)
    /\ \A n \in DOMAIN l.dbms : WellFormed(l.dbms[n].m)

\* InList of module DBMList.
InUnion(v, l) == \E n \in DOMAIN l.dbms : In(v, l.dbms[n].m)

\* The shortcut for a zone known to be empty changes nothing.
LEMMA IntersectZoneMeaning ==
    ASSUME NEW z, NEW y, WellFormed(z.m), WellFormed(y.m), NEW v \in [Index -> Int]
    PROVE  In(v, intersectZone(z, y).m) <=> In(v, z.m) /\ In(v, y.m)
<1>1. CASE z.cf /\ emptiness(z.m)
  <2>1. intersectZone(z, y) = z
    BY <1>1 DEF intersectZone
  <2>2. ~In(v, z.m)
    BY <1>1, EmptyHasNoValuation
  <2> QED BY <2>1, <2>2
<1>2. CASE ~(z.cf /\ emptiness(z.m))
  <2>1. intersectZone(z, y).m = intersect(z.m, y.m)
    BY <1>2 DEF intersectZone, Zone
  <2> QED BY <2>1, IntersectionMeaning
<1> QED BY <1>1, <1>2

(* The intersection of two lists is the intersection of their unions, in     *)
(* each of the two orders in which the code pairs the zones, canonical or    *)
(* not, and also where a zone is empty without being known to be.            *)
THEOREM ListIntersectionMeaning ==
    ASSUME NEW l, WellFormedList(l), NEW y, WellFormedList(y), NEW v \in [Index -> Int]
    PROVE  InUnion(v, intersectList(l, y)) <=> InUnion(v, l) /\ InUnion(v, y)
<1> DEFINE a == Len(l.dbms)  b == Len(y.dbms)
           c == intersectList(l, y)
<1>1. /\ a \in Nat /\ b \in Nat /\ a > 0 /\ b > 0
      /\ DOMAIN l.dbms = 1 .. a /\ DOMAIN y.dbms = 1 .. b
      /\ \A n \in 1 .. a : WellFormed(l.dbms[n].m)
      /\ \A n \in 1 .. b : WellFormed(y.dbms[n].m)
  BY SMT DEF WellFormedList
<1>2. CASE a = 1 /\ b > 1
  <2>1. c.dbms = [n \in 1 .. b |-> intersectZone(y.dbms[n], l.dbms[1])]
    BY <1>2 DEF intersectList
  <2>2. 1 \in 1 .. a /\ \A n \in 1 .. a : n = 1
    BY <1>2, SMT
  <2>3. ASSUME NEW n \in 1 .. b
        PROVE  In(v, c.dbms[n].m) <=> In(v, y.dbms[n].m) /\ In(v, l.dbms[1].m)
    <3>1. c.dbms[n] = intersectZone(y.dbms[n], l.dbms[1])
      BY <2>1
    <3> QED BY <1>1, <2>2, <3>1, IntersectZoneMeaning
  <2>4. DOMAIN c.dbms = 1 .. b
    BY <2>1
  <2> HIDE DEF a, b, c
  <2> QED BY <1>1, <2>2, <2>3, <2>4 DEF InUnion, c
<1>3. CASE ~(a = 1 /\ b > 1)
  <2> DEFINE s(n) == 1 + ((n - 1) \div b)
             t(n) == 1 + ((n - 1) % b)
  <2>1. c.dbms = [n \in 1 .. a * b |-> intersectZone(l.dbms[s(n)], y.dbms[t(n)])]
    BY <1>3 DEF intersectList
  <2>2. ASSUME NEW n \in 1 .. a * b
        PROVE  /\ s(n) \in 1 .. a /\ t(n) \in 1 .. b
               /\ In(v, c.dbms[n].m) <=> In(v, l.dbms[s(n)].m) /\ In(v, y.dbms[t(n)].m)
    <3>1. s(n) \in 1 .. a /\ t(n) \in 1 .. b
      BY <1>1, PairOfPlace
    <3>2. c.dbms[n] = intersectZone(l.dbms[s(n)], y.dbms[t(n)])
      BY <2>1
    <3> QED BY <1>1, <3>1, <3>2, IntersectZoneMeaning
  <2>3. ASSUME NEW p \in 1 .. a, NEW q \in 1 .. b
        PROVE  \E n \in 1 .. a * b : s(n) = p /\ t(n) = q
    <3> DEFINE n == (p - 1) * b + q
    <3>1. n \in 1 .. a * b /\ (n - 1) \div b = p - 1 /\ (n - 1) % b = q - 1
      BY <1>1, PlaceOfPair
    <3>2. 1 + (p - 1) = p /\ 1 + (q - 1) = q
      BY SMT
    <3> HIDE DEF n
    <3> QED BY <3>1, <3>2
  <2>4. DOMAIN c.dbms = 1 .. a * b
    BY <2>1
  <2> HIDE DEF a, b, c, s, t
  <2>5. ASSUME InUnion(v, c) PROVE InUnion(v, l) /\ InUnion(v, y)
    BY <1>1, <2>2, <2>4, <2>5 DEF InUnion
  <2>6. ASSUME InUnion(v, l), InUnion(v, y) PROVE InUnion(v, c)
    <3>1. PICK p \in 1 .. a : In(v, l.dbms[p].m)
      BY <1>1, <2>6 DEF InUnion
    <3>2. PICK q \in 1 .. b : In(v, y.dbms[q].m)
      BY <1>1, <2>6 DEF InUnion
    <3>3. PICK n \in 1 .. a * b : s(n) = p /\ t(n) = q
      BY <2>3
    <3> QED BY <2>2, <2>4, <3>1, <3>2, <3>3 DEF InUnion
  <2> QED BY <2>5, <2>6 DEF c
<1> QED BY <1>2, <1>3

=============================================================================
