------------------------- MODULE SequentStackProofs -------------------------
(***************************************************************************)
(* The bins of a table of sequents implement the table SequentTable        *)
(* specifies, for every hash function, every number of bins, predicates    *)
(* and discrete states, and every sequence of insertions and purges.       *)
(***************************************************************************)
EXTENDS SequentStack, FiniteSetTheorems, WellFoundedInduction, TLAPS

-----------------------------------------------------------------------------
(***************************************************************************)
(* Sequences.                                                              *)
(***************************************************************************)

LEMMA MinIsLeast ==
    ASSUME NEW S \in SUBSET Nat, S # {}
    PROVE  Min(S) \in S /\ \A i \in S : Min(S) <= i
<1> DEFINE R == OpToRel(<, Nat)
<1>1. IsWellFoundedOn(R, Nat)
  BY NatLessThanWellFounded
<1>2. \A x, y \in Nat : <<x, y>> \in R <=> x < y
  BY DEF OpToRel
<1> HIDE DEF R
<1>3. PICK m \in S : \A i \in S : ~(<<i, m>> \in R)
  BY <1>1, WFMin
<1>4. ASSUME NEW i \in S PROVE m <= i
  <2>1. m \in Nat /\ i \in Nat /\ ~(i < m)
    BY <1>2, <1>3
  <2> QED
    BY <2>1
<1> QED
  BY <1>4 DEF Min

LEMMA Removed ==
    ASSUME NEW T, NEW s \in Seq(T), NEW n \in 1..Len(s)
    PROVE  LET r == RemoveAt(s, n)
           IN  /\ r \in Seq(T)
               /\ Len(r) = Len(s) - 1
               /\ \A i \in 1..Len(r) : r[i] = IF i < n THEN s[i] ELSE s[i + 1]
<1> DEFINE a == SubSeq(s, 1, n - 1)
           b == SubSeq(s, n + 1, Len(s))
<1>1. a \in Seq(T) /\ Len(a) = n - 1 /\ \A i \in 1..(n - 1) : a[i] = s[i]
  OBVIOUS
<1>2. b \in Seq(T) /\ Len(b) = Len(s) - n /\ \A i \in 1..(Len(s) - n) : b[i] = s[n + i]
  OBVIOUS
<1> HIDE DEF a, b
<1> DEFINE r == a \o b
<1>3. r \in Seq(T) /\ Len(r) = Len(s) - 1
  <2>1. a \in Seq(T) /\ b \in Seq(T)
    BY <1>1, <1>2
  <2>2. r \in Seq(T) /\ Len(r) = Len(a) + Len(b)
    BY <2>1
  <2> QED
    BY <2>2, <1>1, <1>2
<1>4. ASSUME NEW i \in 1..Len(r) PROVE r[i] = IF i < n THEN s[i] ELSE s[i + 1]
  <2>1. r[i] = IF i <= Len(a) THEN a[i] ELSE b[i - Len(a)]
    BY <1>1, <1>2, <1>3
  <2>2. CASE i < n
    BY <2>1, <2>2, <1>1
  <2>3. CASE ~(i < n)
    <3>1. i - Len(a) \in 1..(Len(s) - n) /\ n + (i - Len(a)) = i + 1 /\ ~(i <= Len(a))
      BY <2>3, <1>1, <1>3
    <3> QED
      BY <2>1, <2>3, <3>1, <1>2
  <2> QED
    BY <2>2, <2>3
<1> HIDE DEF r
<1>5. r = RemoveAt(s, n)
  BY DEF r, a, b, RemoveAt
<1> QED
  BY <1>3, <1>4, <1>5

\* What is in a sequence after an element has been taken out.
LEMMA PushedRemoved ==
    ASSUME NEW T, NEW s \in Seq(T), NEW n \in 1..Len(s)
    PROVE  /\ Pushed(RemoveAt(s, n)) \subseteq Pushed(s)
           /\ Pushed(s) \subseteq Pushed(RemoveAt(s, n)) \cup {s[n]}
<1> DEFINE r == RemoveAt(s, n)
<1>1. /\ r \in Seq(T)
      /\ Len(r) = Len(s) - 1
      /\ \A i \in 1..Len(r) : r[i] = IF i < n THEN s[i] ELSE s[i + 1]
  BY Removed
<1> HIDE DEF r
<1>2. Pushed(r) = {r[i] : i \in 1..Len(r)} /\ Pushed(s) = {s[i] : i \in 1..Len(s)}
  BY <1>1 DEF Pushed
<1>3. ASSUME NEW i \in 1..Len(r) PROVE r[i] \in Pushed(s)
  <2>1. i \in 1..Len(s) /\ i + 1 \in 1..Len(s)
    BY <1>1
  <2> QED
    BY <1>1, <1>2, <2>1
<1>4. ASSUME NEW i \in 1..Len(s), i # n PROVE s[i] \in Pushed(r)
  <2>1. CASE i < n
    <3>1. i \in 1..Len(r) /\ r[i] = s[i]
      BY <2>1, <1>1
    <3> QED
      BY <3>1, <1>2
  <2>2. CASE i > n
    <3>1. i - 1 \in 1..Len(r) /\ (i - 1) + 1 = i /\ ~(i - 1 < n)
      BY <2>2, <1>1
    <3>2. r[i - 1] = s[i]
      BY <3>1, <1>1
    <3> QED
      BY <3>1, <3>2, <1>2
  <2> QED
    BY <1>4, <2>1, <2>2
<1>5. Pushed(r) \subseteq Pushed(s)
  BY <1>2, <1>3
<1>6. Pushed(s) \subseteq Pushed(r) \cup {s[n]}
  BY <1>2, <1>4
<1> QED
  BY <1>5, <1>6 DEF r

-----------------------------------------------------------------------------
(***************************************************************************)
(* A bin: the sequents in it, told apart by their discrete state.          *)
(***************************************************************************)

Stack == [discrete_state : DiscreteState, dbms : Seq(Zone)]
Apart(bin) ==
    \A i, j \in 1..Len(bin) : bin[i].discrete_state = bin[j].discrete_state => i = j
Bin == {bin \in Seq(Stack) : Apart(bin)}

Find(bin, d) == SelectInSeq(bin, LAMBDA e : e.discrete_state = d)
Shown(bin, d) == IF Find(bin, d) = 0 THEN {} ELSE Pushed(bin[Find(bin, d)].dbms)

LEMMA FindIs ==
    ASSUME NEW bin \in Bin, NEW d
    PROVE  /\ Find(bin, d) \in 0..Len(bin)
           /\ Find(bin, d) # 0 => bin[Find(bin, d)].discrete_state = d
           /\ Find(bin, d) = 0 => \A i \in 1..Len(bin) : bin[i].discrete_state # d
<1> DEFINE I == {i \in 1..Len(bin) : bin[i].discrete_state = d}
<1>1. Find(bin, d) = IF I # {} THEN Min(I) ELSE 0
  BY DEF Find, SelectInSeq
<1>2. Len(bin) \in Nat
  BY DEF Bin
<1>3. I \in SUBSET Nat
  BY <1>2
<1>4. I # {} => Min(I) \in I
  BY <1>3, MinIsLeast
<1>5. CASE I = {}
  BY <1>1, <1>2, <1>5
<1>6. CASE I # {}
  <2>1. Find(bin, d) \in I
    BY <1>1, <1>4, <1>6
  <2> QED
    BY <2>1, <1>2
<1> QED
  BY <1>5, <1>6

LEMMA Located ==
    ASSUME NEW bin \in Bin, NEW k \in 1..Len(bin)
    PROVE  Find(bin, bin[k].discrete_state) = k
<1> DEFINE n == Find(bin, bin[k].discrete_state)
<1>1. n \in 0..Len(bin) /\ (n # 0 => bin[n].discrete_state = bin[k].discrete_state) /\ n # 0
  BY FindIs
<1>2. n \in 1..Len(bin)
  BY <1>1 DEF Bin
<1> HIDE DEF n
<1>3. n = k
  BY <1>1, <1>2 DEF Bin, Apart
<1> QED
  BY <1>3 DEF n

LEMMA ShownAt ==
    ASSUME NEW bin \in Bin, NEW d
    PROVE  /\ \A k \in 1..Len(bin) :
                 bin[k].discrete_state = d => Shown(bin, d) = Pushed(bin[k].dbms)
           /\ (\A k \in 1..Len(bin) : bin[k].discrete_state # d) => Shown(bin, d) = {}
<1>1. ASSUME NEW k \in 1..Len(bin), bin[k].discrete_state = d
      PROVE  Shown(bin, d) = Pushed(bin[k].dbms)
  <2>1. Find(bin, d) = k /\ k # 0
    BY <1>1, Located DEF Bin
  <2> QED
    BY <2>1 DEF Shown
<1>2. ASSUME \A k \in 1..Len(bin) : bin[k].discrete_state # d PROVE Shown(bin, d) = {}
  <2>1. Find(bin, d) \in 1..Len(bin) => bin[Find(bin, d)].discrete_state = d
    BY FindIs DEF Bin
  <2>2. Find(bin, d) \in 0..Len(bin) /\ Len(bin) \in Nat
    BY FindIs DEF Bin
  <2>3. Find(bin, d) = 0
    BY <1>2, <2>1, <2>2
  <2> QED
    BY <2>3 DEF Shown
<1> QED
  BY <1>1, <1>2

\* A sequent added at the end of a bin.
LEMMA BinAppend ==
    ASSUME NEW bin \in Bin, NEW e \in Stack,
           \A k \in 1..Len(bin) : bin[k].discrete_state # e.discrete_state
    PROVE  LET new == Append(bin, e)
           IN  /\ new \in Bin
               /\ Shown(new, e.discrete_state) = Pushed(e.dbms)
               /\ \A d : d # e.discrete_state => Shown(new, d) = Shown(bin, d)
<1> DEFINE new == Append(bin, e)
<1>1. bin \in Seq(Stack) /\ Apart(bin) /\ Len(bin) \in Nat
  BY DEF Bin
<1>2. /\ new \in Seq(Stack)
      /\ Len(new) = Len(bin) + 1
      /\ \A k \in 1..Len(bin) : new[k] = bin[k]
      /\ new[Len(bin) + 1] = e
  BY <1>1
<1> HIDE DEF new
<1>3. \A k \in 1..Len(new) : k \in 1..Len(bin) \/ k = Len(bin) + 1
  BY <1>1, <1>2
<1>4. Apart(new)
  BY <1>1, <1>2, <1>3 DEF Apart
<1>5. new \in Bin
  BY <1>2, <1>4 DEF Bin
<1>6. Shown(new, e.discrete_state) = Pushed(e.dbms)
  <2>1. Len(bin) + 1 \in 1..Len(new)
    BY <1>1, <1>2
  <2> QED
    BY <1>2, <1>5, <2>1, ShownAt
<1>7. ASSUME NEW d, d # e.discrete_state PROVE Shown(new, d) = Shown(bin, d)
  <2>1. CASE \E k \in 1..Len(bin) : bin[k].discrete_state = d
    <3>1. PICK k \in 1..Len(bin) : bin[k].discrete_state = d
      BY <2>1
    <3>2. k \in 1..Len(new) /\ new[k] = bin[k]
      BY <1>1, <1>2
    <3>3. Shown(new, d) = Pushed(new[k].dbms) /\ Shown(bin, d) = Pushed(bin[k].dbms)
      BY <1>5, <3>1, <3>2, ShownAt
    <3> QED
      BY <3>2, <3>3
  <2>2. CASE \A k \in 1..Len(bin) : bin[k].discrete_state # d
    <3>1. \A k \in 1..Len(new) : new[k].discrete_state # d
      BY <1>2, <1>3, <1>7, <2>2
    <3> QED
      BY <1>5, <2>2, <3>1, ShownAt
  <2> QED
    BY <2>1, <2>2
<1> QED
  BY <1>5, <1>6, <1>7 DEF new

\* The zones of one sequent replaced.
LEMMA BinUpdate ==
    ASSUME NEW bin \in Bin, NEW n \in 1..Len(bin), NEW s \in Seq(Zone)
    PROVE  LET new == [bin EXCEPT ![n].dbms = s]
           IN  /\ new \in Bin
               /\ Len(new) = Len(bin)
               /\ new[n].dbms = s
               /\ Shown(new, bin[n].discrete_state) = Pushed(s)
               /\ \A d : d # bin[n].discrete_state => Shown(new, d) = Shown(bin, d)
<1> DEFINE new == [bin EXCEPT ![n].dbms = s]
<1>1. bin \in Seq(Stack) /\ Apart(bin) /\ Len(bin) \in Nat
  BY DEF Bin
<1> DEFINE e == [bin[n] EXCEPT !.dbms = s]
<1>a. bin[n] \in Stack
  BY <1>1
<1>b. e \in Stack /\ e.discrete_state = bin[n].discrete_state /\ e.dbms = s
  BY <1>a DEF Stack
<1>c. new = [bin EXCEPT ![n] = e]
  OBVIOUS
<1> HIDE DEF e
<1>2. /\ new \in Seq(Stack)
      /\ Len(new) = Len(bin)
      /\ \A k \in 1..Len(bin) : k # n => new[k] = bin[k]
      /\ new[n].discrete_state = bin[n].discrete_state /\ new[n].dbms = s
  <2> HIDE DEF new
  <2>1. new \in Seq(Stack) /\ Len(new) = Len(bin)
    BY <1>1, <1>b, <1>c
  <2>2. new[n] = e /\ \A k \in 1..Len(bin) : k # n => new[k] = bin[k]
    BY <1>1, <1>c
  <2> QED
    BY <2>1, <2>2, <1>b
<1> HIDE DEF new
<1>3. \A k \in 1..Len(bin) : new[k].discrete_state = bin[k].discrete_state
  BY <1>2
<1>4. Apart(new)
  BY <1>1, <1>2, <1>3 DEF Apart
<1>5. new \in Bin
  BY <1>2, <1>4 DEF Bin
<1>6. Shown(new, bin[n].discrete_state) = Pushed(s)
  BY <1>2, <1>5, ShownAt
<1>7. ASSUME NEW d, d # bin[n].discrete_state PROVE Shown(new, d) = Shown(bin, d)
  <2>1. CASE \E k \in 1..Len(bin) : bin[k].discrete_state = d
    <3>1. PICK k \in 1..Len(bin) : bin[k].discrete_state = d
      BY <2>1
    <3>2. k \in 1..Len(new) /\ new[k] = bin[k]
      BY <1>2, <1>7, <3>1
    <3>3. Shown(new, d) = Pushed(new[k].dbms) /\ Shown(bin, d) = Pushed(bin[k].dbms)
      BY <1>5, <3>1, <3>2, ShownAt
    <3> QED
      BY <3>2, <3>3
  <2>2. CASE \A k \in 1..Len(bin) : bin[k].discrete_state # d
    <3>1. \A k \in 1..Len(new) : new[k].discrete_state # d
      BY <1>2, <1>3, <2>2
    <3> QED
      BY <1>5, <2>2, <3>1, ShownAt
  <2> QED
    BY <2>1, <2>2
<1> QED
  BY <1>2, <1>5, <1>6, <1>7 DEF new

\* One sequent erased.
LEMMA BinRemove ==
    ASSUME NEW bin \in Bin, NEW n \in 1..Len(bin)
    PROVE  LET new == RemoveAt(bin, n)
           IN  /\ new \in Bin
               /\ Shown(new, bin[n].discrete_state) = {}
               /\ \A d : d # bin[n].discrete_state => Shown(new, d) = Shown(bin, d)
<1> DEFINE new == RemoveAt(bin, n)
<1>1. bin \in Seq(Stack) /\ Apart(bin) /\ Len(bin) \in Nat
  BY DEF Bin
<1>2. /\ new \in Seq(Stack)
      /\ Len(new) = Len(bin) - 1
      /\ \A k \in 1..Len(new) : new[k] = IF k < n THEN bin[k] ELSE bin[k + 1]
  BY <1>1, Removed
<1> HIDE DEF new
<1> DEFINE From(k) == IF k < n THEN k ELSE k + 1
<1>3. \A k \in 1..Len(new) : new[k] = bin[From(k)] /\ From(k) \in 1..Len(bin) /\ From(k) # n
  <2>1. \A k \in 1..Len(new) : From(k) \in 1..Len(bin) /\ From(k) # n
    BY <1>1, <1>2
  <2>2. \A k \in 1..Len(new) : new[k] = bin[From(k)]
    BY <1>2
  <2> QED
    BY <2>1, <2>2
<1>4. \A j, k \in 1..Len(new) : From(j) = From(k) => j = k
  BY <1>1, <1>2
<1>5. \A k \in 1..Len(bin) : k # n => \E j \in 1..Len(new) : From(j) = k
  <2>1. ASSUME NEW k \in 1..Len(bin), k # n PROVE \E j \in 1..Len(new) : From(j) = k
    <3>1. CASE k < n
      <4>1. k \in 1..Len(new) /\ From(k) = k
        BY <1>1, <1>2, <3>1
      <4> QED
        BY <4>1
    <3>2. CASE k > n
      <4>1. k - 1 \in 1..Len(new) /\ From(k - 1) = k
        BY <1>1, <1>2, <3>2
      <4> QED
        BY <4>1
    <3> QED
      BY <1>1, <2>1, <3>1, <3>2
  <2> QED
    BY <2>1
<1> HIDE DEF From
<1>6. Apart(new)
  BY <1>1, <1>3, <1>4 DEF Apart
<1>7. new \in Bin
  BY <1>2, <1>6 DEF Bin
<1>8. Shown(new, bin[n].discrete_state) = {}
  <2>1. \A k \in 1..Len(new) : new[k].discrete_state # bin[n].discrete_state
    BY <1>1, <1>3 DEF Apart
  <2> QED
    BY <1>7, <2>1, ShownAt
<1>9. ASSUME NEW d, d # bin[n].discrete_state PROVE Shown(new, d) = Shown(bin, d)
  <2>1. CASE \E k \in 1..Len(bin) : bin[k].discrete_state = d
    <3>1. PICK k \in 1..Len(bin) : bin[k].discrete_state = d
      BY <2>1
    <3>2. PICK j \in 1..Len(new) : From(j) = k
      BY <1>5, <1>9, <3>1
    <3>3. new[j] = bin[k]
      BY <1>3, <3>2
    <3>4. Shown(new, d) = Pushed(new[j].dbms) /\ Shown(bin, d) = Pushed(bin[k].dbms)
      BY <1>7, <3>1, <3>3, ShownAt
    <3> QED
      BY <3>3, <3>4
  <2>2. CASE \A k \in 1..Len(bin) : bin[k].discrete_state # d
    <3>1. \A k \in 1..Len(new) : new[k].discrete_state # d
      BY <1>3, <2>2
    <3> QED
      BY <1>7, <2>2, <3>1, ShownAt
  <2> QED
    BY <2>1, <2>2
<1> QED
  BY <1>7, <1>8, <1>9 DEF new

-----------------------------------------------------------------------------
(***************************************************************************)
(* The vector of bins.                                                     *)
(***************************************************************************)

BinIndex == 0..(Cardinality(Block) * num_hash_bins - 1)

LEMMA ProductMonotone ==
    ASSUME NEW a \in Nat, NEW b \in Nat, NEW n \in Nat, a <= b
    PROVE  a * n <= b * n
<1>1. (b - a) * n >= 0 /\ b * n = a * n + (b - a) * n
  OBVIOUS
<1> QED
  BY <1>1

\* The predicates have bins of their own.
LEMMA KeyIndex ==
    ASSUME NEW a \in Block, NEW b \in Block,
           NEW d \in DiscreteState, NEW e \in DiscreteState
    PROVE  /\ get_index(a, d) \in BinIndex
           /\ get_index(a, d) = get_index(b, e) => a = b
<1> DEFINE n == num_hash_bins
           c == Cardinality(Block)
<1>1. c \in Nat /\ Block = 1..c /\ n \in Nat \ {0}
  BY BinsAssumption, FS_CardinalityType
<1>2. hash(d) \in 0..(n - 1) /\ hash(e) \in 0..(n - 1)
  BY HashAssumption
<1> DEFINE h == hash(d)
           g == hash(e)
<1>3. /\ get_index(a, d) = (a - 1) * n + h
      /\ get_index(b, e) = (b - 1) * n + g
      /\ BinIndex = 0..(c * n - 1)
  BY DEF get_index, BinIndex
<1>4. a \in 1..c /\ b \in 1..c
  BY <1>1
<1>5. h \in 0..(n - 1) /\ g \in 0..(n - 1)
  BY <1>2
<1> HIDE DEF n, c, h, g
<1>6. ASSUME NEW i \in Nat, NEW j \in Nat, i < j PROVE i * n + n <= j * n
  <2>1. (i + 1) * n <= j * n
    BY <1>1, <1>6, ProductMonotone
  <2>2. (i + 1) * n = i * n + n
    BY <1>1
  <2> QED
    BY <2>1, <2>2
<1>7. a - 1 \in Nat /\ b - 1 \in Nat /\ c \in Nat /\ a - 1 < c
  BY <1>1, <1>4
<1>8. (a - 1) * n + n <= c * n
  BY <1>6, <1>7
<1>9. (a - 1) * n \in Nat /\ c * n \in Nat /\ (b - 1) * n \in Nat
  BY <1>1, <1>7
<1>10. get_index(a, d) \in BinIndex
  BY <1>1, <1>3, <1>5, <1>8, <1>9
<1>11. CASE a < b
  <2>1. (a - 1) * n + n <= (b - 1) * n
    BY <1>4, <1>6, <1>7, <1>11
  <2> QED
    BY <1>1, <1>3, <1>5, <1>9, <1>10, <2>1
<1>12. CASE b < a
  <2>1. (b - 1) * n + n <= (a - 1) * n
    BY <1>4, <1>6, <1>7, <1>12
  <2> QED
    BY <1>1, <1>3, <1>5, <1>9, <1>10, <2>1
<1> QED
  BY <1>4, <1>10, <1>11, <1>12

Progress == [bin : BinIndex, it : Nat \ {0}, zone : Zone, itb : Nat \ {0}]
Goes(known, z, zone) == IF known THEN zone \subseteq z ELSE z \subseteq zone
Remaining(known, zones, zone) == {z \in zones : ~Goes(known, z, zone)}

\* The table is what it should be, and a purge in progress has passed over
\* zones that stay only.
WellBuilt(known, xl, pu) ==
    /\ known \in BOOLEAN
    /\ xl \in [BinIndex -> Bin]
    /\ pu # << >> =>
          /\ pu \in Progress
          /\ pu.it \in 1..Len(xl[pu.bin])
          /\ LET dbms == xl[pu.bin][pu.it].dbms
             IN  /\ pu.itb <= Len(dbms) + 1
                 /\ \A n \in 1..(pu.itb - 1) : ~Goes(known, dbms[n], pu.zone)
StackInv == WellBuilt(tableCheck, Xlist, purging)

\* The zones of discrete state d in bin i.
Purging(xl, pu, i, d) == pu # << >> /\ pu.bin = i /\ xl[i][pu.it].discrete_state = d
ZonesIn(known, xl, pu, i, d) ==
    IF Purging(xl, pu, i, d) THEN Remaining(known, Shown(xl[i], d), pu.zone)
                             ELSE Shown(xl[i], d)

LEMMA ZonesAre ==
    ASSUME NEW known, NEW xl, NEW pu, WellBuilt(known, xl, pu), NEW i \in BinIndex, NEW d
    PROVE  LET k == Find(xl[i], d)
               zones == IF k = 0 THEN {} ELSE Pushed(xl[i][k].dbms)
           IN  ZonesIn(known, xl, pu, i, d)
                 = IF pu # << >> /\ pu.bin = i /\ pu.it = k
                   THEN {z \in zones : ~(IF known THEN pu.zone \subseteq z
                                                  ELSE z \subseteq pu.zone)}
                   ELSE zones
<1>1. xl[i] \in Bin
  BY DEF WellBuilt
<1>2. pu # << >> /\ pu.bin = i => pu.it \in 1..Len(xl[i]) /\ pu.it \in Nat \ {0}
  BY DEF WellBuilt, Progress
<1>3. ASSUME pu # << >>, pu.bin = i
      PROVE  pu.it = Find(xl[i], d) <=> xl[i][pu.it].discrete_state = d
  <2>1. xl[i][pu.it].discrete_state = d => pu.it = Find(xl[i], d)
    BY <1>1, <1>2, <1>3, Located
  <2>2. Find(xl[i], d) # 0 => xl[i][Find(xl[i], d)].discrete_state = d
    BY <1>1, FindIs
  <2> QED
    BY <1>2, <1>3, <2>1, <2>2
<1> DEFINE zones == IF Find(xl[i], d) = 0 THEN {} ELSE Pushed(xl[i][Find(xl[i], d)].dbms)
<1>4. zones = Shown(xl[i], d)
  BY DEF Shown
<1>5. Purging(xl, pu, i, d) <=> pu # << >> /\ pu.bin = i /\ pu.it = Find(xl[i], d)
  BY <1>3 DEF Purging
<1>6. Remaining(known, zones, pu.zone)
        = {z \in zones : ~(IF known THEN pu.zone \subseteq z ELSE z \subseteq pu.zone)}
  BY DEF Remaining, Goes
<1> QED
  BY <1>4, <1>5, <1>6 DEF ZonesIn

LEMMA ZonesOfState ==
    ASSUME StackInv, NEW b \in Block, NEW d \in DiscreteState
    PROVE  ZonesOf(b, d) = ZonesIn(tableCheck, Xlist, purging, get_index(b, d), d)
<1>1. get_index(b, d) \in BinIndex
  BY KeyIndex
<1>2. WellBuilt(tableCheck, Xlist, purging)
  BY DEF StackInv
<1>3. find_sequent(b, d) = Find(Xlist[get_index(b, d)], d)
  BY DEF find_sequent, Find, SelectInSeq
<1> QED
  BY <1>1, <1>2, <1>3, ZonesAre DEF ZonesOf, Matches

LEMMA ZonesOfNext ==
    ASSUME StackInv', NEW b \in Block, NEW d \in DiscreteState
    PROVE  ZonesOf(b, d)' = ZonesIn(tableCheck', Xlist', purging', get_index(b, d), d)
<1>1. get_index(b, d) \in BinIndex
  BY KeyIndex
<1>2. WellBuilt(tableCheck', Xlist', purging')
  BY DEF StackInv
<1>3. find_sequent(b, d)' = Find(Xlist'[get_index(b, d)], d)
  BY DEF find_sequent, Find, SelectInSeq
<1> QED
  BY <1>1, <1>2, <1>3, ZonesAre DEF ZonesOf, Matches

-----------------------------------------------------------------------------
(***************************************************************************)
(* The steps.                                                              *)
(***************************************************************************)

\* Nothing but discrete state d of bin i changes.
OnlyAt(xl, new, pu, pu2, i, d) ==
    /\ \A j \in BinIndex \ {i} : new[j] = xl[j]
    /\ \A e : e # d => Shown(new[i], e) = Shown(xl[i], e)
    /\ pu # << >> => Purging(xl, pu, i, d)
    /\ pu2 # << >> => Purging(new, pu2, i, d)
Same(known, xl, new, pu, pu2, j, e) == ZonesIn(known, new, pu2, j, e) = ZonesIn(known, xl, pu, j, e)

LEMMA Elsewhere ==
    ASSUME NEW known, NEW xl, NEW new, NEW pu, NEW pu2, NEW i \in BinIndex, NEW d,
           OnlyAt(xl, new, pu, pu2, i, d), NEW j \in BinIndex, NEW e, j # i \/ e # d
    PROVE  Same(known, xl, new, pu, pu2, j, e)
<1>1. ~Purging(xl, pu, j, e) /\ ~Purging(new, pu2, j, e)
  BY DEF Purging, OnlyAt
<1>2. Shown(new[j], e) = Shown(xl[j], e)
  BY DEF OnlyAt
<1> QED
  BY <1>1, <1>2 DEF ZonesIn, Same

LEMMA StoredIsRecorded ==
    ASSUME NEW dbms \in Seq(Zone), NEW zone \in Zone
    PROVE  /\ Stored(dbms, zone) \in Seq(Zone)
           /\ Table!Recorded(Pushed(dbms), Pushed(Stored(dbms, zone)), zone)
<1> DEFINE Test(z) == IF tableCheck THEN z \subseteq zone ELSE zone \subseteq z
           I == {n \in 1..Len(dbms) : Test(dbms[n])}
           first == IF I # {} THEN Min(I) ELSE 0
           stored == IF first = 0 THEN Append(dbms, zone) ELSE [dbms EXCEPT ![first] = zone]
<1>1. Stored(dbms, zone) = stored
  BY DEF Stored, SelectInSeq
<1>2. first # 0 => first \in 1..Len(dbms) /\ Test(dbms[first])
  <2>1. I \in SUBSET Nat
    OBVIOUS
  <2>2. I # {} => Min(I) \in I
    BY <2>1, MinIsLeast
  <2> QED
    BY <2>2
<1> HIDE DEF first
<1>3. Pushed(dbms) = {dbms[n] : n \in 1..Len(dbms)}
  BY DEF Pushed
<1>4. CASE first = 0
  <2>1. stored = Append(dbms, zone)
    BY <1>4
  <2>2. /\ stored \in Seq(Zone) /\ Len(stored) = Len(dbms) + 1
        /\ \A n \in 1..Len(dbms) : stored[n] = dbms[n]
        /\ stored[Len(dbms) + 1] = zone
    BY <2>1
  <2>3. Pushed(stored) = Pushed(dbms) \cup {zone}
    <3>1. Pushed(stored) = {stored[n] : n \in 1..(Len(dbms) + 1)}
      BY <2>2 DEF Pushed
    <3>2. \A n \in 1..(Len(dbms) + 1) : n \in 1..Len(dbms) \/ n = Len(dbms) + 1
      OBVIOUS
    <3>3. \A n \in 1..Len(dbms) : n \in 1..(Len(dbms) + 1)
      OBVIOUS
    <3>4. Len(dbms) + 1 \in 1..(Len(dbms) + 1)
      OBVIOUS
    <3> QED
      BY <1>3, <2>2, <3>1, <3>2, <3>3, <3>4
  <2> QED
    BY <1>1, <2>2, <2>3 DEF Table!Recorded
<1>5. CASE first # 0
  <2>1. stored = [dbms EXCEPT ![first] = zone] /\ first \in 1..Len(dbms)
    BY <1>2, <1>5
  <2>2. /\ stored \in Seq(Zone) /\ Len(stored) = Len(dbms)
        /\ \A n \in 1..Len(dbms) : stored[n] = IF n = first THEN zone ELSE dbms[n]
    BY <2>1
  <2> HIDE DEF stored
  <2>3. Pushed(stored) = {stored[n] : n \in 1..Len(dbms)}
    BY <2>2 DEF Pushed
  <2>4. zone \in Pushed(stored) /\ Pushed(stored) \subseteq Pushed(dbms) \cup {zone}
    BY <1>3, <2>1, <2>2, <2>3
  <2>5. \A z \in Pushed(dbms) \ Pushed(stored) : z = dbms[first]
    BY <1>3, <2>1, <2>2, <2>3
  <2>6. Test(dbms[first])
    BY <1>2, <1>5
  <2> QED
    BY <1>1, <2>2, <2>4, <2>5, <2>6 DEF Table!Recorded
<1> QED
  BY <1>4, <1>5

LEMMA ChangeIs ==
    ASSUME NEW old, NEW new, NEW zone \in Zone,
           \/ Table!Recorded(old, new, zone) /\ purging' = << >>
           \/ Table!Purged(old, new, zone) /\ purging' # << >>
           \/ Table!Forgotten(new) /\ purging' = << >>
    PROVE  Table!Change(old, new)
<1>1. zone \in Table!Zone
  BY DEF Zone, Table!Zone
<1> QED
  BY <1>1 DEF Table!Change

\* A call that changes one sequent as the table may change.
LEMMA OneKey ==
    ASSUME StackInv, StackInv', purging = << >>, tableCheck' = tableCheck,
           NEW b \in Block, NEW d \in DiscreteState,
           OnlyAt(Xlist, Xlist', purging, purging', get_index(b, d), d),
           Table!Change(ZonesOf(b, d), ZonesOf(b, d)')
    PROVE  Table!Call
<1>1. get_index(b, d) \in BinIndex
  BY KeyIndex
<1>2. ASSUME NEW a \in Block, NEW e \in DiscreteState, <<a, e>> # <<b, d>>
      PROVE  ZonesOf(a, e)' = ZonesOf(a, e)
  <2>1. get_index(a, e) \in BinIndex /\ (get_index(a, e) = get_index(b, d) => a = b)
    BY KeyIndex
  <2>2. get_index(a, e) # get_index(b, d) \/ e # d
    BY <1>2, <2>1
  <2>3. Same(tableCheck, Xlist, Xlist', purging, purging', get_index(a, e), e)
    BY <1>1, <2>1, <2>2, Elsewhere
  <2> QED
    BY <2>3, ZonesOfState, ZonesOfNext DEF Same
<1> DEFINE Key == Block \X DiscreteState
           table == [k \in Key |-> ZonesOf(k[1], k[2])]
<1>3. <<b, d>> \in Key /\ table[<<b, d>>] = ZonesOf(b, d) /\ table'[<<b, d>>] = ZonesOf(b, d)'
  OBVIOUS
<1>4. \A k \in Key \ {<<b, d>>} : table'[k] = table[k]
  BY <1>2
<1> QED
  BY <1>3, <1>4 DEF Table!Call

\* A call that is over in one step and changes one sequent.
LEMMA Replaced ==
    ASSUME StackInv, purging = << >>, purging' = << >>, tableCheck' = tableCheck,
           NEW b \in Block, NEW d \in DiscreteState, NEW new \in Bin,
           Xlist' = [Xlist EXCEPT ![get_index(b, d)] = new],
           \A e : e # d => Shown(new, e) = Shown(Xlist[get_index(b, d)], e)
    PROVE  /\ StackInv'
           /\ OnlyAt(Xlist, Xlist', purging, purging', get_index(b, d), d)
           /\ ZonesOf(b, d) = Shown(Xlist[get_index(b, d)], d)
           /\ ZonesOf(b, d)' = Shown(new, d)
<1> DEFINE i == get_index(b, d)
<1>1. i \in BinIndex
  BY KeyIndex
<1>2. Xlist \in [BinIndex -> Bin] /\ tableCheck \in BOOLEAN
  BY DEF StackInv, WellBuilt
<1> HIDE DEF i
<1>3. /\ Xlist' \in [BinIndex -> Bin]
      /\ Xlist'[i] = new
      /\ \A j \in BinIndex \ {i} : Xlist'[j] = Xlist[j]
  BY <1>1, <1>2 DEF i
<1>4. WellBuilt(tableCheck', Xlist', purging')
  BY <1>2, <1>3 DEF WellBuilt
<1>5. StackInv'
  BY <1>4 DEF StackInv
<1>6. OnlyAt(Xlist, Xlist', purging, purging', i, d)
  BY <1>3 DEF OnlyAt, i
<1>7. ~Purging(Xlist, purging, i, d) /\ ~Purging(Xlist', purging', i, d)
  BY DEF Purging
<1>8. ZonesIn(tableCheck, Xlist, purging, i, d) = Shown(Xlist[i], d)
      /\ ZonesIn(tableCheck', Xlist', purging', i, d) = Shown(new, d)
  BY <1>3, <1>7 DEF ZonesIn
<1> QED
  BY <1>5, <1>6, <1>8, ZonesOfState, ZonesOfNext DEF i

LEMMA CacheKeeps ==
    ASSUME StackInv, NEW b \in Block, NEW d \in DiscreteState, NEW zone \in Zone,
           CacheSequent(b, d, zone)
    PROVE  StackInv' /\ Table!Call
<1> DEFINE i == get_index(b, d)
           bin == Xlist[i]
           k == Find(bin, d)
           old == IF k = 0 THEN << >> ELSE bin[k].dbms
           stored == Stored(old, zone)
           new == IF k = 0 THEN Append(bin, Entry(d, stored))
                  ELSE [bin EXCEPT ![k].dbms = stored]
<1>1. i \in BinIndex
  BY KeyIndex
<1>2. bin \in Bin
  BY <1>1 DEF StackInv, WellBuilt
<1>3. k \in 0..Len(bin) /\ (k # 0 => k \in 1..Len(bin) /\ bin[k].discrete_state = d)
      /\ (k = 0 => \A n \in 1..Len(bin) : bin[n].discrete_state # d)
  BY <1>2, FindIs DEF Bin
<1>4. old \in Seq(Zone)
  <2>1. k # 0 => bin[k] \in Stack
    BY <1>2, <1>3 DEF Bin
  <2> QED
    BY <2>1 DEF Stack
<1>5. stored \in Seq(Zone) /\ Table!Recorded(Pushed(old), Pushed(stored), zone)
  BY <1>4, StoredIsRecorded
<1>6. find_sequent(b, d) = k
  BY DEF find_sequent, Find, SelectInSeq
<1>7. /\ purging = << >> /\ purging' = << >> /\ tableCheck' = tableCheck
      /\ Xlist' = [Xlist EXCEPT ![i] = new]
  <2>1. /\ purging = << >> /\ purging' = << >> /\ tableCheck' = tableCheck
        /\ Xlist' = IF k = 0
                    THEN [Xlist EXCEPT ![i] = Append(@, Entry(d, Stored(<< >>, zone)))]
                    ELSE [Xlist EXCEPT ![i][k].dbms = Stored(@, zone)]
    BY <1>6 DEF CacheSequent
  <2> QED
    BY <2>1
<1>8. Pushed(old) = Shown(bin, d)
  BY DEF Shown, Pushed
<1> HIDE DEF stored, k, old
<1>9. new \in Bin /\ Shown(new, d) = Pushed(stored)
      /\ \A e : e # d => Shown(new, e) = Shown(bin, e)
  <2>1. CASE k = 0
    <3> DEFINE e == Entry(d, stored)
    <3>1. e \in Stack /\ e.discrete_state = d /\ e.dbms = stored
      BY <1>5 DEF Entry, Stack
    <3>2. new = Append(bin, e)
      BY <2>1
    <3> HIDE DEF e, new
    <3> QED
      BY <1>2, <1>3, <2>1, <3>1, <3>2, BinAppend
  <2>2. CASE k # 0
    <3>1. new = [bin EXCEPT ![k].dbms = stored]
      BY <2>2
    <3>2. k \in 1..Len(bin) /\ bin[k].discrete_state = d
      BY <1>3, <2>2
    <3>3. stored \in Seq(Zone)
      BY <1>5
    <3> HIDE DEF bin
    <3>4. /\ [bin EXCEPT ![k].dbms = stored] \in Bin
          /\ Shown([bin EXCEPT ![k].dbms = stored], bin[k].discrete_state) = Pushed(stored)
          /\ \A e : e # bin[k].discrete_state =>
                Shown([bin EXCEPT ![k].dbms = stored], e) = Shown(bin, e)
      BY <1>2, <3>2, <3>3, BinUpdate
    <3> HIDE DEF new
    <3> QED
      BY <3>1, <3>2, <3>4
  <2> QED
    BY <2>1, <2>2
<1> HIDE DEF new
<1>10. /\ StackInv'
       /\ OnlyAt(Xlist, Xlist', purging, purging', i, d)
       /\ ZonesOf(b, d) = Shown(bin, d)
       /\ ZonesOf(b, d)' = Shown(new, d)
  BY <1>7, <1>9, Replaced
<1>11. Table!Change(ZonesOf(b, d), ZonesOf(b, d)')
  BY <1>5, <1>7, <1>8, <1>9, <1>10, ChangeIs
<1> QED
  BY <1>7, <1>10, <1>11, OneKey

LEMMA ForgetKeeps ==
    ASSUME StackInv, NEW b \in Block, NEW d \in DiscreteState,
           look_for_and_purge_rhs_sequent_state(b, d)
    PROVE  StackInv' /\ Table!Call
<1> DEFINE i == get_index(b, d)
           bin == Xlist[i]
           k == Find(bin, d)
           new == RemoveAt(bin, k)
<1>1. i \in BinIndex
  BY KeyIndex
<1>2. bin \in Bin
  BY <1>1 DEF StackInv, WellBuilt
<1>3. find_sequent(b, d) = k
  BY DEF find_sequent, Find, SelectInSeq
<1>4. /\ purging = << >> /\ purging' = << >> /\ tableCheck' = tableCheck
      /\ k # 0
      /\ Xlist' = [Xlist EXCEPT ![i] = new]
  BY <1>3 DEF look_for_and_purge_rhs_sequent_state
<1> HIDE DEF k
<1>5. k \in 1..Len(bin) /\ bin[k].discrete_state = d
  BY <1>2, <1>4, FindIs DEF Bin, k
<1>6. new \in Bin /\ Shown(new, d) = {} /\ \A e : e # d => Shown(new, e) = Shown(bin, e)
  BY <1>2, <1>5, BinRemove
<1> HIDE DEF new
<1>7. /\ StackInv'
      /\ OnlyAt(Xlist, Xlist', purging, purging', i, d)
      /\ ZonesOf(b, d)' = {}
  BY <1>4, <1>6, Replaced
<1>8. {} \in Zone
  BY DEF Zone
<1>9. Table!Change(ZonesOf(b, d), ZonesOf(b, d)')
  BY <1>4, <1>7, <1>8, ChangeIs DEF Table!Forgotten
<1> QED
  BY <1>4, <1>7, <1>9, OneKey

LEMMA PurgeStartKeeps ==
    ASSUME StackInv, NEW b \in Block, NEW d \in DiscreteState, NEW zone \in Zone,
           PurgeStart(b, d, zone)
    PROVE  StackInv' /\ Table!Call
<1> DEFINE i == get_index(b, d)
           bin == Xlist[i]
           k == Find(bin, d)
           pu == [bin |-> i, it |-> k, zone |-> zone, itb |-> 1]
<1>1. i \in BinIndex
  BY KeyIndex
<1>2. bin \in Bin
  BY <1>1 DEF StackInv, WellBuilt
<1>3. find_sequent(b, d) = k
  BY DEF find_sequent, Find, SelectInSeq
<1>4. /\ purging = << >> /\ purging' = pu /\ tableCheck' = tableCheck
      /\ k # 0
      /\ Xlist' = Xlist
  BY <1>3 DEF PurgeStart
<1> HIDE DEF k
<1>5. k \in 1..Len(bin) /\ bin[k].discrete_state = d /\ Len(bin) \in Nat
  BY <1>2, <1>4, FindIs DEF Bin, k
<1>6. pu # << >> /\ pu \in Progress /\ pu.bin = i /\ pu.it = k /\ pu.zone = zone /\ pu.itb = 1
  BY <1>1, <1>5 DEF Progress
<1> HIDE DEF pu
<1>7. bin[k].dbms \in Seq(Zone)
  <2>1. bin[k] \in Stack
    BY <1>2, <1>5 DEF Bin
  <2> QED
    BY <2>1 DEF Stack
<1>8. WellBuilt(tableCheck, Xlist', pu)
  BY <1>4, <1>5, <1>6, <1>7 DEF StackInv, WellBuilt
<1>9. StackInv'
  BY <1>4, <1>8 DEF StackInv
<1>10. Purging(Xlist', pu, i, d)
  BY <1>4, <1>5, <1>6 DEF Purging
<1>11. OnlyAt(Xlist, Xlist', purging, purging', i, d)
  BY <1>4, <1>10 DEF OnlyAt
<1>12. ZonesOf(b, d) = Shown(bin, d)
  BY <1>4, ZonesOfState DEF ZonesIn, Purging
<1>13. ZonesOf(b, d)' = Remaining(tableCheck, Shown(bin, d), zone)
  BY <1>4, <1>6, <1>9, <1>10, ZonesOfNext DEF ZonesIn
<1>14. Table!Purged(Shown(bin, d), Remaining(tableCheck, Shown(bin, d), zone), zone)
  BY DEF Table!Purged, Remaining, Goes, Table!RefutedBy, Table!ProvedBy
<1>15. Table!Change(ZonesOf(b, d), ZonesOf(b, d)')
  BY <1>4, <1>6, <1>12, <1>13, <1>14, ChangeIs
<1> QED
  BY <1>4, <1>9, <1>11, <1>15, OneKey

\* A step of the purge loop: what is left for one sequent stays the same.
LEMMA NothingShows ==
    ASSUME StackInv, StackInv', tableCheck' = tableCheck, NEW i \in BinIndex, NEW d,
           OnlyAt(Xlist, Xlist', purging, purging', i, d),
           Same(tableCheck, Xlist, Xlist', purging, purging', i, d)
    PROVE  \A k \in Block \X DiscreteState : ZonesOf(k[1], k[2])' = ZonesOf(k[1], k[2])
<1> SUFFICES ASSUME NEW b \in Block, NEW e \in DiscreteState
             PROVE  ZonesOf(b, e)' = ZonesOf(b, e)
  OBVIOUS
<1>1. get_index(b, e) \in BinIndex
  BY KeyIndex
<1>2. Same(tableCheck, Xlist, Xlist', purging, purging', get_index(b, e), e)
  BY <1>1, Elsewhere
<1> QED
  BY <1>2, ZonesOfState, ZonesOfNext DEF Same

\* The sequent a purge is looking at.
LEMMA PurgedSequent ==
    ASSUME StackInv, purging # << >>
    PROVE  LET i == purging.bin
               k == purging.it
           IN  /\ i \in BinIndex
               /\ Xlist \in [BinIndex -> Bin]
               /\ Xlist[i] \in Bin
               /\ k \in 1..Len(Xlist[i])
               /\ Xlist[i][k] \in Stack
               /\ Visited = Xlist[i][k].dbms
               /\ Visited \in Seq(Zone)
               /\ purging \in Progress
               /\ purging.itb \in Nat \ {0}
               /\ purging.itb <= Len(Visited) + 1
               /\ \A n \in 1..(purging.itb - 1) : ~Goes(tableCheck, Visited[n], purging.zone)
               /\ Purging(Xlist, purging, i, Xlist[i][k].discrete_state)
<1> DEFINE i == purging.bin
           k == purging.it
<1>1. /\ Xlist \in [BinIndex -> Bin]
      /\ purging \in Progress
      /\ k \in 1..Len(Xlist[i])
      /\ purging.itb <= Len(Xlist[i][k].dbms) + 1
      /\ \A n \in 1..(purging.itb - 1) : ~Goes(tableCheck, Xlist[i][k].dbms[n], purging.zone)
  BY DEF StackInv, WellBuilt
<1>2. i \in BinIndex /\ purging.itb \in Nat \ {0}
  BY <1>1 DEF Progress
<1>3. Xlist[i] \in Bin
  BY <1>1, <1>2
<1>4. Xlist[i][k] \in Stack
  BY <1>1, <1>3 DEF Bin
<1>5. Xlist[i][k].dbms \in Seq(Zone)
  BY <1>4 DEF Stack
<1>6. Visited = Xlist[i][k].dbms
  BY DEF Visited
<1>7. Purging(Xlist, purging, i, Xlist[i][k].discrete_state)
  BY DEF Purging
<1> QED
  BY <1>1, <1>2, <1>3, <1>4, <1>5, <1>6, <1>7

LEMMA PurgeKeepKeeps ==
    ASSUME StackInv, PurgeKeep
    PROVE  /\ StackInv' /\ tableCheck' = tableCheck /\ purging' # << >> /\ purging # << >>
           /\ \A k \in Block \X DiscreteState : ZonesOf(k[1], k[2])' = ZonesOf(k[1], k[2])
<1> DEFINE i == purging.bin
           d == Xlist[i][purging.it].discrete_state
           n == purging.itb
<1>1. /\ purging # << >> /\ n <= Len(Visited)
      /\ ~Goes(tableCheck, Visited[n], purging.zone)
      /\ purging' = [purging EXCEPT !.itb = n + 1]
      /\ tableCheck' = tableCheck /\ Xlist' = Xlist
  BY DEF PurgeKeep, Matches, Goes
<1>2. /\ i \in BinIndex /\ purging \in Progress /\ n \in Nat \ {0}
      /\ Visited = Xlist[i][purging.it].dbms /\ Len(Visited) \in Nat
      /\ \A m \in 1..(n - 1) : ~Goes(tableCheck, Visited[m], purging.zone)
      /\ Purging(Xlist, purging, i, d)
  BY <1>1, PurgedSequent
<1>3. /\ purging' \in Progress /\ purging' # << >>
      /\ purging'.bin = i /\ purging'.it = purging.it
      /\ purging'.zone = purging.zone /\ purging'.itb = n + 1
  BY <1>1, <1>2 DEF Progress
<1> HIDE DEF i, d, n
<1>4. \A m \in 1..((n + 1) - 1) : ~Goes(tableCheck, Visited[m], purging.zone)
  <2>1. \A m \in 1..((n + 1) - 1) : m \in 1..(n - 1) \/ m = n
    BY <1>2
  <2> QED
    BY <1>1, <1>2, <2>1
<1>5. WellBuilt(tableCheck, Xlist, purging')
  <2>1. tableCheck \in BOOLEAN /\ Xlist \in [BinIndex -> Bin]
        /\ purging.it \in 1..Len(Xlist[purging.bin])
    BY <1>1 DEF StackInv, WellBuilt
  <2>2. n + 1 <= Len(Visited) + 1
    BY <1>1, <1>2
  <2> QED
    BY <1>2, <1>3, <1>4, <2>1, <2>2 DEF WellBuilt, i
<1>6. StackInv'
  BY <1>1, <1>5 DEF StackInv
<1>7. Purging(Xlist, purging', i, d)
  BY <1>2, <1>3 DEF Purging
<1>8. OnlyAt(Xlist, Xlist', purging, purging', i, d)
  BY <1>1, <1>2, <1>7 DEF OnlyAt
<1>9. Same(tableCheck, Xlist, Xlist', purging, purging', i, d)
  BY <1>1, <1>2, <1>3, <1>7 DEF Same, ZonesIn
<1> QED
  BY <1>1, <1>2, <1>3, <1>6, <1>8, <1>9, NothingShows

LEMMA PurgeEraseKeeps ==
    ASSUME StackInv, PurgeErase
    PROVE  /\ StackInv' /\ tableCheck' = tableCheck /\ purging' # << >> /\ purging # << >>
           /\ \A k \in Block \X DiscreteState : ZonesOf(k[1], k[2])' = ZonesOf(k[1], k[2])
<1> DEFINE i == purging.bin
           k == purging.it
           bin == Xlist[i]
           d == bin[k].discrete_state
           n == purging.itb
           s == RemoveAt(Visited, n)
           new == [bin EXCEPT ![k].dbms = s]
<1>1. /\ i \in BinIndex /\ Xlist \in [BinIndex -> Bin] /\ bin \in Bin /\ k \in 1..Len(bin)
      /\ Visited = bin[k].dbms /\ Visited \in Seq(Zone)
      /\ purging \in Progress /\ n \in Nat \ {0}
      /\ \A m \in 1..(n - 1) : ~Goes(tableCheck, Visited[m], purging.zone)
      /\ Purging(Xlist, purging, i, d)
  BY PurgedSequent DEF PurgeErase
<1>2. /\ purging # << >> /\ n <= Len(Visited)
      /\ Goes(tableCheck, Visited[n], purging.zone)
      /\ tableCheck' = tableCheck
  BY DEF PurgeErase, Matches, Goes
<1>3. purging' = purging
  <2>1. purging' = [purging EXCEPT !.itb = (n - 1) + 1] /\ (n - 1) + 1 = n
    BY <1>1 DEF PurgeErase
  <2> QED
    BY <1>1, <2>1 DEF Progress
<1>4. Xlist' = [Xlist EXCEPT ![i] = new]
  BY <1>1 DEF PurgeErase
<1>5. n \in 1..Len(Visited) /\ Len(Visited) \in Nat
  BY <1>1, <1>2
<1>6. /\ s \in Seq(Zone) /\ Len(s) = Len(Visited) - 1
      /\ \A m \in 1..Len(s) : s[m] = IF m < n THEN Visited[m] ELSE Visited[m + 1]
  BY <1>1, <1>5, Removed
<1>7. /\ Pushed(s) \subseteq Pushed(Visited)
      /\ Pushed(Visited) \subseteq Pushed(s) \cup {Visited[n]}
  BY <1>1, <1>5, PushedRemoved
<1> HIDE DEF s, n, i, bin, k, d
<1>8. /\ new \in Bin /\ Len(new) = Len(bin) /\ new[k].dbms = s
      /\ Shown(new, d) = Pushed(s)
      /\ \A e : e # d => Shown(new, e) = Shown(bin, e)
  <2>1. /\ [bin EXCEPT ![k].dbms = s] \in Bin
        /\ Len([bin EXCEPT ![k].dbms = s]) = Len(bin)
        /\ [bin EXCEPT ![k].dbms = s][k].dbms = s
        /\ Shown([bin EXCEPT ![k].dbms = s], bin[k].discrete_state) = Pushed(s)
        /\ \A e : e # bin[k].discrete_state => Shown([bin EXCEPT ![k].dbms = s], e) = Shown(bin, e)
    BY <1>1, <1>6, BinUpdate
  <2> HIDE DEF new
  <2>2. new = [bin EXCEPT ![k].dbms = s]
    BY DEF new
  <2> QED
    BY <2>1, <2>2 DEF d
<1>9. new[k].discrete_state = d
  <2>1. bin \in Seq(Stack)
    BY <1>1 DEF Bin
  <2> QED
    BY <1>1, <2>1 DEF d, Stack
<1> HIDE DEF new
<1>10. Xlist' \in [BinIndex -> Bin] /\ Xlist'[i] = new /\ \A j \in BinIndex \ {i} : Xlist'[j] = Xlist[j]
  BY <1>1, <1>4, <1>8
<1>11. WellBuilt(tableCheck, Xlist', purging)
  <2>1. tableCheck \in BOOLEAN
    BY DEF StackInv, WellBuilt
  <2>2. k \in 1..Len(Xlist'[i]) /\ Xlist'[i][k].dbms = s
    BY <1>1, <1>8, <1>10
  <2>3. n <= Len(s) + 1
    BY <1>5, <1>6
  <2>4. \A m \in 1..(n - 1) : ~Goes(tableCheck, s[m], purging.zone)
    <3>1. \A m \in 1..(n - 1) : m \in 1..Len(s) /\ m < n
      BY <1>5, <1>6
    <3> QED
      BY <1>1, <1>6, <3>1
  <2> QED
    BY <1>1, <1>10, <2>1, <2>2, <2>3, <2>4 DEF WellBuilt, i, k, n
<1>12. StackInv'
  BY <1>2, <1>3, <1>11 DEF StackInv
<1>13. Purging(Xlist', purging', i, d)
  BY <1>2, <1>3, <1>9, <1>10 DEF Purging, i, k
<1>14. OnlyAt(Xlist, Xlist', purging, purging', i, d)
  BY <1>1, <1>8, <1>10, <1>13 DEF OnlyAt, bin
<1>15. Shown(bin, d) = Pushed(Visited)
  BY <1>1, ShownAt DEF d
<1>16. Remaining(tableCheck, Pushed(s), purging.zone)
         = Remaining(tableCheck, Pushed(Visited), purging.zone)
  BY <1>2, <1>7 DEF Remaining
<1>17. Same(tableCheck, Xlist, Xlist', purging, purging', i, d)
  BY <1>1, <1>3, <1>8, <1>10, <1>13, <1>15, <1>16 DEF Same, ZonesIn, bin
<1> QED
  BY <1>1, <1>2, <1>3, <1>12, <1>14, <1>17, NothingShows

LEMMA PurgeEndKeeps ==
    ASSUME StackInv, PurgeEnd
    PROVE  /\ StackInv' /\ tableCheck' = tableCheck /\ purging' = << >> /\ purging # << >>
           /\ \A k \in Block \X DiscreteState : ZonesOf(k[1], k[2])' = ZonesOf(k[1], k[2])
<1> DEFINE i == purging.bin
           k == purging.it
           bin == Xlist[i]
           d == bin[k].discrete_state
           n == purging.itb
           new == IF Visited = << >> THEN RemoveAt(bin, k) ELSE bin
<1>1. /\ i \in BinIndex /\ Xlist \in [BinIndex -> Bin] /\ bin \in Bin /\ k \in 1..Len(bin)
      /\ Visited = bin[k].dbms /\ Visited \in Seq(Zone)
      /\ n \in Nat \ {0} /\ n <= Len(Visited) + 1
      /\ \A m \in 1..(n - 1) : ~Goes(tableCheck, Visited[m], purging.zone)
      /\ Purging(Xlist, purging, i, d)
  BY PurgedSequent DEF PurgeEnd
<1>2. /\ purging # << >> /\ n > Len(Visited)
      /\ tableCheck' = tableCheck /\ purging' = << >>
      /\ Xlist' = IF Visited = << >> THEN [Xlist EXCEPT ![i] = RemoveAt(bin, k)] ELSE Xlist
  BY DEF PurgeEnd
<1>3. Xlist' = [Xlist EXCEPT ![i] = new]
  BY <1>1, <1>2
<1>4. \A m \in 1..Len(Visited) : ~Goes(tableCheck, Visited[m], purging.zone)
  <2>1. \A m \in 1..Len(Visited) : m \in 1..(n - 1)
    BY <1>1, <1>2
  <2> QED
    BY <1>1, <2>1
<1>5. Remaining(tableCheck, Pushed(Visited), purging.zone) = Pushed(Visited)
  <2>1. Pushed(Visited) = {Visited[m] : m \in 1..Len(Visited)}
    BY <1>1 DEF Pushed
  <2> QED
    BY <1>4, <2>1 DEF Remaining
<1> HIDE DEF n, i, bin, k, d
<1>6. Shown(bin, d) = Pushed(Visited)
  BY <1>1, ShownAt DEF d
<1>7. new \in Bin /\ Shown(new, d) = Pushed(Visited)
      /\ \A e : e # d => Shown(new, e) = Shown(bin, e)
  <2>1. CASE Visited = << >>
    <3>1. new = RemoveAt(bin, k)
      BY <2>1
    <3>2. /\ RemoveAt(bin, k) \in Bin
          /\ Shown(RemoveAt(bin, k), bin[k].discrete_state) = {}
          /\ \A e : e # bin[k].discrete_state => Shown(RemoveAt(bin, k), e) = Shown(bin, e)
      BY <1>1, BinRemove
    <3>3. Pushed(Visited) = {}
      BY <2>1 DEF Pushed
    <3> HIDE DEF new
    <3> QED
      BY <3>1, <3>2, <3>3 DEF d
  <2>2. CASE Visited # << >>
    BY <1>1, <1>6, <2>2
  <2> QED
    BY <2>1, <2>2
<1> HIDE DEF new
<1>8. Xlist' \in [BinIndex -> Bin] /\ Xlist'[i] = new /\ \A j \in BinIndex \ {i} : Xlist'[j] = Xlist[j]
  BY <1>1, <1>3, <1>7
<1>9. StackInv'
  <2>1. tableCheck \in BOOLEAN
    BY DEF StackInv, WellBuilt
  <2> QED
    BY <1>2, <1>8, <2>1 DEF StackInv, WellBuilt
<1>10. OnlyAt(Xlist, Xlist', purging, purging', i, d)
  BY <1>1, <1>2, <1>7, <1>8 DEF OnlyAt, bin
<1>11. ~Purging(Xlist', purging', i, d)
  BY <1>2 DEF Purging
<1>12. Same(tableCheck, Xlist, Xlist', purging, purging', i, d)
  BY <1>1, <1>5, <1>6, <1>7, <1>8, <1>11 DEF Same, ZonesIn, bin
<1> QED
  BY <1>1, <1>2, <1>9, <1>10, <1>12, NothingShows

-----------------------------------------------------------------------------
(***************************************************************************)
(* The refinement.                                                         *)
(***************************************************************************)

LEMMA StackStarts == StackInit => StackInv /\ Table!Init
<1> SUFFICES ASSUME StackInit PROVE StackInv /\ Table!Init
  OBVIOUS
<1>1. << >> \in Bin
  BY DEF Bin, Apart
<1>2. Xlist = [i \in BinIndex |-> << >>] /\ tableCheck \in BOOLEAN /\ purging = << >>
  BY DEF StackInit, BinIndex
<1>3. Xlist \in [BinIndex -> Bin]
  BY <1>1, <1>2
<1>4. StackInv
  BY <1>2, <1>3 DEF StackInv, WellBuilt
<1>5. ASSUME NEW b \in Block, NEW d \in DiscreteState PROVE ZonesOf(b, d) = {}
  <2>1. get_index(b, d) \in BinIndex
    BY KeyIndex
  <2>2. Shown(<< >>, d) = {}
    BY <1>1, ShownAt
  <2>3. ZonesIn(tableCheck, Xlist, purging, get_index(b, d), d) = {}
    BY <1>2, <2>1, <2>2 DEF ZonesIn, Purging
  <2> QED
    BY <1>4, <2>3, ZonesOfState
<1>6. Table!Init
  BY <1>2, <1>5 DEF Table!Init
<1> QED
  BY <1>4, <1>6

Mapped == <<tableCheck, purging # << >>, [k \in Block \X DiscreteState |-> ZonesOf(k[1], k[2])]>>

LEMMA StackSteps ==
    StackInv /\ [StackNext]_stackVars => StackInv' /\ [Table!Next]_Mapped
<1> SUFFICES ASSUME StackInv, [StackNext]_stackVars PROVE StackInv' /\ [Table!Next]_Mapped
  OBVIOUS
<1>1. CASE UNCHANGED stackVars
  <2>1. tableCheck' = tableCheck /\ Xlist' = Xlist /\ purging' = purging
    BY <1>1 DEF stackVars
  <2>2. StackInv'
    BY <2>1 DEF StackInv, WellBuilt
  <2>3. \A b, d : ZonesOf(b, d)' = ZonesOf(b, d)
    BY <2>1 DEF ZonesOf, find_sequent, Matches, SelectInSeq
  <2> QED
    BY <2>1, <2>2, <2>3 DEF Mapped
<1>2. ASSUME NEW b \in Block, NEW d \in DiscreteState, NEW zone \in Zone \ {{}},
             CacheSequent(b, d, zone) \/ PurgeStart(b, d, zone)
      PROVE  StackInv' /\ Table!Call
  BY <1>2, CacheKeeps, PurgeStartKeeps
<1>3. ASSUME NEW b \in Block, NEW d \in DiscreteState,
             look_for_and_purge_rhs_sequent_state(b, d)
      PROVE  StackInv' /\ Table!Call
  BY <1>3, ForgetKeeps
<1>4. CASE PurgeKeep \/ PurgeErase
  BY <1>4, PurgeKeepKeeps, PurgeEraseKeeps DEF Mapped
<1>5. CASE PurgeEnd
  <2>1. Table!PurgeReturns
    BY <1>5, PurgeEndKeeps DEF Table!PurgeReturns
  <2> QED
    BY <1>5, <2>1, PurgeEndKeeps DEF Table!Next
<1> QED
  BY <1>1, <1>2, <1>3, <1>4, <1>5 DEF StackNext, Table!Next

(* The vector of bins implements the table the prover relies on: whatever    *)
(* the hash makes collide, no two sequents share zones; a zone is overwritten *)
(* only by one that says as much; and the purge loop, which erases from the   *)
(* vector it runs over, misses none of the zones it should erase and erases   *)
(* no other (sequent_stack.hh).                                              *)
THEOREM StackImplementsTable == StackSpec => ImplementsTable
<1> QED
  BY StackStarts, StackSteps, PTL DEF StackSpec, ImplementsTable, Table!Spec, Mapped

=============================================================================
