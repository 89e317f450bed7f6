------------------------------ MODULE DBMList ------------------------------
(***************************************************************************)
(* A union of zones (class DBMList): any sequence of its operations.  What *)
(* they compute is defined in ZoneLists.                                   *)
(***************************************************************************)
EXTENDS ZoneLists

CONSTANTS Arguments,  \* the lists other variables hold
          Calls,      \* bound: number of operations applied
          MaxSize     \* bound: operations are applied to lists this long

ASSUME DBMListAssumption == Calls \in Nat /\ MaxSize \in Nat \ {0}

VARIABLES list,   \* m_dbms and m_is_cf
          calls   \* operations so far

vars == <<list, calls>>

----------------------------------------------------------------------------
(* The state machine: any sequence of calls *)

Init == list \in Arguments /\ calls = 0

\* Bound on the exploration, not a condition of the code.
Small == Len(list.dbms) <= MaxSize

Becomes(l) == /\ calls < Calls /\ Small
              /\ calls' = calls + 1
              /\ list' = l

ZoneArguments == {y.dbms[1] : y \in {y \in Arguments : Len(y.dbms) = 1}}

\* An operation on matrices that leaves the flag of the zone alone, and one
\* that clears it.
Preserving(f(_)) == Becomes(Mapped(list, LAMBDA z : Zone(f(z.m), z.cf)))
Clearing(f(_)) == Becomes(Mapped(list, LAMBDA z : Zone(f(z.m), FALSE)))

\* The presets require canonical zones; f gives the matrix and the flag.
ZonesCanonical == \A n \in DOMAIN list.dbms : list.dbms[n].cf
Inverting(f(_)) == ZonesCanonical /\ Becomes(Mapped(list, LAMBDA z : f(z.m)))

Assign(y) == Becomes(y)
AddDBMList(y) == Becomes(addDBMList(list, y))
Union(y) == list.cf /\ y.cf /\ Becomes(union(list, y))
UnionZone(z) == list.cf /\ z.cf /\ Becomes(unionZone(list, z))
Intersect(y) == Becomes(intersectList(list, y))
IntersectZone(z) == Becomes(intersectListZone(list, z))
Complement == ZonesCanonical /\ Becomes(complement(list))
Cf == Becomes(cf(list, FALSE))
MakeEmpty == Becomes(EmptyList)
SetIsCfFalse(recursive) ==
    Becomes(Mapped(list, LAMBDA z : Zone(z.m, ~recursive /\ z.cf)))

Suc == Preserving(suc)
Pre == Clearing(pre)
Bound == Clearing(bound)
Reset(rs) == Preserving(LAMBDA m : reset(m, rs))
ResetTo(x, y) == Clearing(LAMBDA m : assign(m, x, y))
Preset(prs) == Inverting(LAMBDA m : Zone(preset(m, prs), PresetIsEmpty(m, prs)))
PresetClock(x) ==
    Inverting(LAMBDA m : Zone(preset_clock(m, x), preset_clock(m, x) = makeEmpty))
PresetTo(x, y) ==
    Inverting(LAMBDA m : Zone(preset_assign(m, x, y), preset_assign(m, x, y) = makeEmpty))
Closure == Preserving(closure)
ClosureRev == Preserving(closureRev)
PredClosureRev == Preserving(predClosureRev)

Combination ==
    \/ \E y \in Arguments : Assign(y) \/ AddDBMList(y) \/ Union(y) \/ Intersect(y)
    \/ \E z \in ZoneArguments : UnionZone(z) \/ IntersectZone(z)
    \/ Complement \/ MakeEmpty

Change ==
    \/ Suc \/ Pre \/ Bound
    \/ Closure \/ ClosureRev \/ PredClosureRev
    \/ \E xs \in SUBSET Clocks : Reset(xs) \/ Preset(xs)
    \/ \E x \in Clocks : PresetClock(x)
    \/ \E x, y \in Clocks : x # y /\ (ResetTo(x, y) \/ PresetTo(x, y))

Next == Combination \/ Change \/ Cf \/ \E b \in BOOLEAN : SetIsCfFalse(b)

Spec == Init /\ [][Next]_vars

----------------------------------------------------------------------------
(* Properties *)

InList(v, l) == \E n \in DOMAIN l.dbms : In(v, l.dbms[n].m)
Subset(l, y) == \A v \in Coarse : InList(v, l) => InList(v, y)

\* The flags of the zones mean what they say (closureRev can break this).
Truthful(l) == \A n \in DOMAIN l.dbms :
    l.dbms[n].cf => emptiness(l.dbms[n].m) \/ Canonical(l.dbms[n].m)

(* The flag of a list promises that every zone is flagged, that an empty     *)
(* zone stands alone, and so that emptiness(), which looks at the first zone *)
(* only, is right about the union, although map(), the intersections and the *)
(* complement handle the two levels of flags separately.                     *)
FlagMeansNormal ==
    list.cf =>
      /\ ZonesCanonical
      /\ \A n \in DOMAIN list.dbms : emptiness(list.dbms[n].m) => Len(list.dbms) = 1
      /\ Truthful(list) => (EmptyOf(list) <=> \A v \in Coarse : ~InList(v, list))

(* cf(), the complement and the two intersections compute exactly the        *)
(* union, complement and intersection of the sets of valuations, for every   *)
(* combination of sizes and flags, also when a zone is empty and not known   *)
(* to be.                                                                    *)
CombinationsExact ==
    Small =>
      /\ LET c == cf(list, FALSE)
         IN  \A v \in Coarse : InList(v, c) = InList(v, list)
      /\ ZonesCanonical =>
           LET c == complement(list)
           IN  \A v \in Coarse : InList(v, c) = ~InList(v, list)
      /\ \A y \in Arguments :
           LET c == intersectList(list, y)
           IN  \A v \in Coarse : InList(v, c) = (InList(v, list) /\ InList(v, y))

(* union_() avoids growing the list: it compares first, and takes one side   *)
(* when it covers the other.  The result is the union, even when a           *)
(* comparison misses an inclusion.                                           *)
UnionExact ==
    Small /\ list.cf =>
      /\ \A y \in Arguments : y.cf =>
           LET u == union(list, y)
           IN  \A v \in Coarse : InList(v, u) = (InList(v, list) \/ InList(v, y))
      /\ \A z \in ZoneArguments : z.cf =>
           LET u == unionZone(list, z)
           IN  \A v \in Coarse : InList(v, u) = (InList(v, list) \/ In(v, z.m))

(* Inclusion and equality of canonical lists decide inclusion and equality   *)
(* of the unions: no zone of one list need lie within a single zone of the   *)
(* other, and the shortcuts for single zones agree with the general case.    *)
ComparisonsExact ==
    Small /\ list.cf /\ Truthful(list) =>
      \A y \in Arguments : y.cf =>
        /\ Within(list, y) = Subset(list, y)
        /\ Within(y, list) = Subset(y, list)
        /\ Equal(list, y) = (Subset(list, y) /\ Subset(y, list))

(* DBMList.hh, cf(): "we do not allow any redundant DBMs", and "this allows  *)
(* intersection to be an idempotent operation": a list brought into          *)
(* canonical form and intersected with itself has the same zones again.      *)
IntersectionIdempotent ==
    Small /\ ~list.cf =>
      LET c == cf(list, FALSE)
      IN  ToSet(cf(intersectList(c, c), FALSE).dbms) = ToSet(c.dbms)

=============================================================================
