------------------------------- MODULE Zones -------------------------------
(***************************************************************************)
(* The operations of DBM on matrices, compared with the textbook operations *)
(* on sets of valuations.                                                  *)
(***************************************************************************)
EXTENDS DBM, Valuations

\* A witness may lie further out by a difference, and strictly so.
ASSUME ZonesAssumption == Inner \in Nat /\ Outer \in Nat /\ Outer > Inner + Cap

----------------------------------------------------------------------------
(* Properties *)

(* Canonical form changes the matrix and not the zone: no update of the      *)
(* in-place loops, and neither exit, adds or removes a valuation.            *)
CfKeepsZone ==
    [][pc = "cf" /\ dbm' # dbm => \A v \in Coarse : In(v, dbm') = In(v, dbm)]_vars

(* emptiness() looks at the diagonal only.  For a flagged matrix that is     *)
(* enough: it answers true exactly when no valuation is left.                *)
EmptinessExact ==
    pc = "idle" /\ m_is_cf => (emptiness(dbm) <=> ~HasPoint(dbm))

(* operator<= compares entries.  When the left matrix is flagged and         *)
(* nonempty this decides inclusion of the zones, whatever the right one is.  *)
InclusionExact ==
    pc = "idle" /\ m_is_cf /\ ~emptiness(dbm) =>
      \A Y \in Operands :
        Includes(dbm, Y) <=> \A v \in Fine : In(v, dbm) => In(v, Y)

(* suc() and pre() are delay forwards and backwards.  suc() is right only on *)
(* canonical matrices: the entries it leaves alone must already say what the *)
(* erased bounds implied for the differences.                                *)
DelaysExact ==
    [][m_is_cf /\ ~emptiness(dbm) =>
         /\ Suc => \A v \in Coarse : In(v, dbm') = Future(v, dbm)
         /\ Pre => \A v \in Coarse : In(v, dbm') = Past(v, dbm)]_vars

(* reset() and the clock assignment give the image of the zone, and nothing  *)
(* else, on canonical matrices, although a set is reset clock by clock in    *)
(* place.                                                                    *)
ResetsExact ==
    [][m_is_cf /\ ~emptiness(dbm) =>
         /\ \A xs \in SUBSET Clocks :
              Reset(xs) => \A v \in Coarse : In(v, dbm') = ResetImage(v, dbm, xs)
         /\ \A x, y \in Clocks : x # y /\ ResetTo(x, y) =>
              \A v \in Coarse : In(v, dbm') = AssignImage(v, dbm, x, y)]_vars

(* preset() is the inverse image of resetting, except where a reset clock    *)
(* must be strictly positive; the inverse image of an assignment is right    *)
(* when the two clocks may be equal and the assigned one is the looser, that *)
(* of a single reset when the clock is bounded by 0 from above.              *)
PresetsExact ==
    [][/\ \A xs \in SUBSET Clocks :
            Preset(xs) /\ (\A x \in xs : dbm[0][x] # zero_less) =>
              \A v \in Coarse : In(v, dbm') = In(WithClocks(v, xs, 0), dbm)
       /\ \A x, y \in Clocks :
            /\ x # y /\ PresetTo(x, y)
            /\ \A p \in Index \ {x} : dbm[p][x] >= dbm[p][y] /\ dbm[x][p] >= dbm[y][p]
            => \A v \in Coarse : In(v, dbm') = In(WithClocks(v, {x}, v[y]), dbm)
       /\ \A x \in Clocks :
            PresetClock(x) /\ constraint_to_bound(dbm[x][0]) = 0 =>
              \A v \in Coarse : In(v, dbm') = In(WithClocks(v, {x}, 0), dbm)]_vars

(* bound() where only lower bounds exceed the constant, the case the search  *)
(* depends on after letting time pass: no valuation is lost, and every one   *)
(* it adds is one the constant cannot tell from a valuation that was there.  *)
NothingHigh == \A p \in Index, q \in Index :
                 IsFinite(dbm[p][q]) => constraint_to_bound(dbm[p][q]) <= MaxC

BoundOfLowerBounds ==
    [][m_is_cf /\ ~emptiness(dbm) /\ Bound /\ NothingHigh =>
         \A v \in Coarse :
           /\ In(v, dbm) => In(v, dbm')
           /\ In(v, dbm') => \E u \in Fine : In(u, dbm) /\ SameRegion(u, v)]_vars

----------------------------------------------------------------------------
(* What a comment says; see the run that refutes it *)

(* DBM.hh, preset(x, y): "computes the clock zone z', such that z'[x := y] = *)
(* DBM".                                                                     *)
PresetToIsInverse ==
    [][\A x, y \in Clocks : x # y /\ PresetTo(x, y) =>
         \A v \in Coarse : In(v, dbm') = In(WithClocks(v, {x}, v[y]), dbm)]_vars

=============================================================================
