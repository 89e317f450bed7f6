------------------------- MODULE FullSoundnessProofs -------------------------
(***************************************************************************)
(* A verdict "valid" of the whole program is right, where the search with  *)
(* placeholders can be relied on.                                          *)
(***************************************************************************)
EXTENDS SoundnessProofs

-----------------------------------------------------------------------------
(***************************************************************************)
(* The rules that narrow a placeholder.                                    *)
(***************************************************************************)

\* A is a right answer to the call: inside its placeholder and proved on its zone.
Narrowed(V, call, A) ==
    /\ A \subseteq call.place
    /\ \A p \in A \cap call.zone : <<call.formula, call.loc, p>> \in V

LEMMA NarrowedBy ==
    ASSUME NEW pes, NEW H, NEW fr \in PlaceFrame, NEW A, A \subseteq fr.place,
           \A p \in A \cap fr.zone : Follows(pes, H, Provable(pes, H), fr.formula, fr.loc, p)
    PROVE  Narrowed(Provable(pes, H), fr, A)
<1>1. fr.formula \in PlaceFormula /\ fr.loc \in Loc /\ fr.zone \subseteq Point
  BY DEF PlaceFrame, Zone
<1>2. \A p \in A \cap fr.zone : p \in Point
  BY <1>1
<1> QED
  BY <1>1, <1>2, ProvableStep DEF Narrowed

LEMMA NarrowedAt ==
    ASSUME NEW V, NEW f, NEW l, NEW z \in Zone, NEW place, NEW A,
           Narrowed(V, PlaceCall(f, l, z, place), A)
    PROVE  A \subseteq place /\ \A p \in A \cap z : p \in Point /\ p \in At(V, f, l)
  BY DEF Narrowed, PlaceCall, At, Zone

\* What the body of transition k has to hold for.
Passed(V, body, l, k, p) ==
    Takes(Transitions[k], l, p)
        => Transitions[k].reset[p] \in At(V, body, Transitions[k].dest[l])

\* A claim whose right-hand side is proved without it.
LEMMA ProvedClaim ==
    ASSUME NEW pes, NEW H, NEW X \in Predicate, NEW l \in Loc, NEW p \in Point,
           <<pes.rhs[X], l, p>> \in Provable(pes, H)
    PROVE  <<X, l, p>> \in Supportable(pes, H)
<1> DEFINE Q == {<<X, l, p>>}
<1>1. Q \in SUBSET Claim
  BY DEF Claim
<1>2. \A e \in Q : <<pes.rhs[e[1]], e[2], e[3]>> = <<pes.rhs[X], l, p>>
  OBVIOUS
<1> HIDE DEF Q
<1>3. Provable(pes, H) \subseteq Provable(pes, H \cup Q)
  BY ProvableMonotone
<1>4. Q \subseteq Supportable(pes, H)
  BY <1>1, <1>2, <1>3, Discharge
<1> QED
  BY <1>4 DEF Q

LEMMA BooleanNarrows ==
    ASSUME NEW pes, NEW H, NEW fr \in PlaceFrame
    PROVE  LET f == fr.formula
               V == Provable(pes, H)
               Same(g, place) == PlaceCall(g, fr.loc, fr.zone, place)
           IN  /\ Narrowed(V, fr, {})
               /\ \A A, B : f.op = "AND" /\ Narrowed(V, Same(f.left, fr.place), B)
                               /\ Narrowed(V, Same(f.right, B), A) => Narrowed(V, fr, A)
               /\ \A A, B : f.op \in {"OR", "OR_SIMPLE"}
                               /\ Narrowed(V, Same(f.left, fr.place), A)
                               /\ Narrowed(V, Same(f.right, fr.place), B)
                                  => Narrowed(V, fr, A) /\ Narrowed(V, fr, A \cup B)
                                                        /\ Narrowed(V, fr, B)
               /\ \A A : f.op \in {"OR", "OR_SIMPLE"} /\ Narrowed(V, Same(f.left, fr.place), A)
                               => Narrowed(V, fr, A)
               /\ f.op = "ATOMIC" /\ fr.loc \in f.locs => Narrowed(V, fr, fr.place)
               /\ f.op = "CONSTRAINT" => Narrowed(V, fr, fr.place \cap f.zone)
               /\ \A A : f.op = "PREDICATE"
                               /\ Narrowed(V, Same(pes.rhs[f.pred], fr.place), A)
                                  => Narrowed(V, fr, A)
               /\ \A A : f.op = "SUBLIST"
                               /\ Narrowed(V, PlaceCall(f.expr, f.map[fr.loc], fr.zone, fr.place), A)
                                  => Narrowed(V, fr, A)
<1> DEFINE f == fr.formula
           l == fr.loc
           z == fr.zone
           V == Provable(pes, H)
           Same(g, place) == PlaceCall(g, l, z, place)
<1>1. z \in Zone /\ fr.place \in Zone
  BY DEF PlaceFrame
<1>2. \A g, m, place, A : Narrowed(V, PlaceCall(g, m, z, place), A)
         => A \subseteq place /\ \A p \in A \cap z : p \in At(V, g, m)
  BY <1>1, NarrowedAt
<1>3. \A A : A \subseteq fr.place /\ (\A p \in A \cap z : Follows(pes, H, V, f, l, p))
         => Narrowed(V, fr, A)
  BY NarrowedBy
<1> HIDE DEF V
<1>4. Narrowed(V, fr, {})
  BY DEF Narrowed
<1>5. ASSUME NEW A, NEW B, f.op = "AND", Narrowed(V, Same(f.left, fr.place), B),
             Narrowed(V, Same(f.right, B), A)
      PROVE  Narrowed(V, fr, A)
  BY <1>2, <1>3, <1>5 DEF Follows
<1>6. ASSUME NEW A, f.op \in {"OR", "OR_SIMPLE"},
             Narrowed(V, Same(f.left, fr.place), A) \/ Narrowed(V, Same(f.right, fr.place), A)
      PROVE  Narrowed(V, fr, A)
  BY <1>2, <1>3, <1>6 DEF Follows
<1>7. ASSUME NEW A, NEW B, Narrowed(V, fr, A), Narrowed(V, fr, B)
      PROVE  Narrowed(V, fr, A \cup B)
  BY <1>7 DEF Narrowed
<1>8. ASSUME f.op = "ATOMIC", l \in f.locs PROVE Narrowed(V, fr, fr.place)
  BY <1>3, <1>8 DEF Follows
<1>9. ASSUME f.op = "CONSTRAINT" PROVE Narrowed(V, fr, fr.place \cap f.zone)
  BY <1>3, <1>9 DEF Follows
<1>10. ASSUME NEW A, f.op = "PREDICATE", Narrowed(V, Same(pes.rhs[f.pred], fr.place), A)
       PROVE  Narrowed(V, fr, A)
  <2>1. CASE ~pes.gfp[f.pred]
    BY <1>2, <1>3, <1>10, <2>1 DEF Follows
  <2>2. CASE pes.gfp[f.pred]
    <3>1. ASSUME NEW p \in A \cap z PROVE <<f, l, p>> \in V
      <4>1. p \in Point /\ l \in Loc /\ f \in PlaceFormula
        BY <1>1 DEF PlaceFrame, Zone
      <4>2. <<pes.rhs[f.pred], l, p>> \in V
        BY <1>2, <1>10 DEF At
      <4>3. f.pred \in Predicate
        BY <1>10, <4>1, PlaceFormulas, FormulaAssumption
      <4>4. <<f.pred, l, p>> \in Supportable(pes, H)
        BY <4>1, <4>2, <4>3, ProvedClaim DEF V
      <4>5. Follows(pes, Supportable(pes, H), V, f, l, p)
        BY <1>10, <2>2, <4>4 DEF Follows
      <4> QED
        BY <4>1, <4>5, ProvableStep DEF V
    <3> QED
      BY <1>2, <1>10, <3>1 DEF Narrowed
  <2> QED
    BY <2>1, <2>2
<1>11. ASSUME NEW A, f.op = "SUBLIST",
              Narrowed(V, PlaceCall(f.expr, f.map[l], z, fr.place), A)
       PROVE  Narrowed(V, fr, A)
  BY <1>2, <1>3, <1>11 DEF Follows
<1> QED
  BY <1>4, <1>5, <1>6, <1>7, <1>8, <1>9, <1>10, <1>11 DEF V

LEMMA ClockNarrows ==
    ASSUME NEW pes, NEW H, NEW fr \in PlaceFrame, NEW A \in Zone
    PROVE  LET f == fr.formula
               l == fr.loc
               z == fr.zone
               V == Provable(pes, H)
           IN  /\ f.op = "IMPLY" /\ f.left.zone \in Zone
                     /\ Narrowed(V, PlaceCall(f.right, l, Bound[z \cap f.left.zone], fr.place), A)
                        => Narrowed(V, fr, A)
               /\ f.op = "IMPLY" /\ ~comp_ph(z, f.left, l) => Narrowed(V, fr, fr.place)
               /\ f.op = "RESET" /\ Narrowed(V, PlaceCall(f.expr, l, Image(f.map, z), Point), A)
                     => \A B : B \subseteq fr.place /\ (\A p \in B \cap z : f.map[p] \in A)
                                => Narrowed(V, fr, B)
               /\ f.op = "FORALL" /\ Narrowed(V, PlaceCall(f.quant, l, Successors(z), fr.place), A)
                     => Narrowed(V, fr, A \cap establish_forall_place_sidecondition(z, l, A))
               /\ f.op = "EXISTS" /\ Narrowed(V, PlaceCall(f.quant, l, Successors(z), Inv[l]), A)
                     => Narrowed(V, fr, fr.place \cap Predecessors(A))
               /\ LET diverges == TimeDiverges(z \cap fr.place, l)
                  IN  /\ f.op = "ABLEWAITINF" /\ diverges => Narrowed(V, fr, fr.place)
                      /\ f.op = "UNABLEWAITINF" /\ ~diverges => Narrowed(V, fr, fr.place)
<1> DEFINE f == fr.formula
           l == fr.loc
           z == fr.zone
           V == Provable(pes, H)
<1>1. /\ z \in Zone /\ fr.place \in Zone /\ l \in Loc /\ f \in PlaceFormula
      /\ z \subseteq Point /\ A \subseteq Point
  BY DEF PlaceFrame, Zone
<1>2. \A B : B \subseteq fr.place /\ (\A p \in B \cap z : Follows(pes, H, V, f, l, p))
         => Narrowed(V, fr, B)
  BY NarrowedBy
<1>3. Successors(z) \in Zone
  BY <1>1, TimeIsZone
<1> HIDE DEF V
<1>4. ASSUME f.op = "IMPLY", f.left.zone \in Zone,
             Narrowed(V, PlaceCall(f.right, l, Bound[z \cap f.left.zone], fr.place), A)
      PROVE  Narrowed(V, fr, A)
  <2>1. z \cap f.left.zone \in Zone
    BY <1>1 DEF Zone
  <2>2. z \cap f.left.zone \subseteq Bound[z \cap f.left.zone] /\ Bound[z \cap f.left.zone] \in Zone
    BY <2>1, BoundAssumption, AutomatonAssumption
  <2>3. A \subseteq fr.place /\ \A p \in A \cap Bound[z \cap f.left.zone] : p \in At(V, f.right, l)
    BY <1>4, <2>2, NarrowedAt
  <2>4. \A p \in A \cap z : Follows(pes, H, V, f, l, p)
    BY <1>4, <2>2, <2>3 DEF Follows
  <2> QED
    BY <1>2, <2>3, <2>4
<1>5. ASSUME f.op = "IMPLY", ~comp_ph(z, f.left, l) PROVE Narrowed(V, fr, fr.place)
  BY <1>1, <1>2, <1>5 DEF Follows, comp_ph
<1>6. ASSUME f.op = "RESET", Narrowed(V, PlaceCall(f.expr, l, Image(f.map, z), Point), A),
             NEW B, B \subseteq fr.place, \A p \in B \cap z : f.map[p] \in A
      PROVE  Narrowed(V, fr, B)
  <2>1. f.map \in [Point -> Point] /\ Image(f.map, z) \in Zone
    BY <1>1, <1>6, PlaceFormulas, ImageIsZone
  <2>2. \A p \in A \cap Image(f.map, z) : p \in At(V, f.expr, l)
    BY <1>6, <2>1, NarrowedAt
  <2>3. \A p \in B \cap z : Follows(pes, H, V, f, l, p)
    BY <1>6, <2>2 DEF Follows, Image
  <2> HIDE DEF z, f, l
  <2> QED
    BY <1>2, <1>6, <2>3
<1>7. ASSUME f.op = "FORALL", Narrowed(V, PlaceCall(f.quant, l, Successors(z), fr.place), A)
      PROVE  Narrowed(V, fr, A \cap establish_forall_place_sidecondition(z, l, A))
  <2> DEFINE B == A \cap establish_forall_place_sidecondition(z, l, A)
  <2>1. A \subseteq fr.place /\ \A p \in A \cap Successors(z) : p \in At(V, f.quant, l)
    BY <1>3, <1>7, NarrowedAt
  <2>2. ASSUME NEW p \in B \cap z PROVE Follows(pes, H, V, f, l, p)
    <3>1. Later[p] \cap Inv[l] \subseteq A
      BY <1>1, <2>2, ForallSideConditionExact
    <3>2. Later[p] \subseteq Successors(z)
      BY <2>2 DEF Successors
    <3> QED
      BY <1>7, <2>1, <3>1, <3>2 DEF Follows
  <2> QED
    BY <1>2, <2>1, <2>2
<1>8. ASSUME f.op = "EXISTS", Narrowed(V, PlaceCall(f.quant, l, Successors(z), Inv[l]), A)
      PROVE  Narrowed(V, fr, fr.place \cap Predecessors(A))
  <2> DEFINE later == Successors(z)
             inv == Inv[l]
  <2>1. later \in Zone /\ Narrowed(V, PlaceCall(f.quant, l, later, inv), A)
    BY <1>3, <1>8
  <2> HIDE DEF later, inv
  <2>2. A \subseteq inv /\ \A p \in A \cap later : p \in At(V, f.quant, l)
    BY <2>1, NarrowedAt
  <2>3. ASSUME NEW p \in (fr.place \cap Predecessors(A)) \cap z
        PROVE  Follows(pes, H, V, f, l, p)
    <3>1. PICK q \in Later[p] : q \in A
      BY <2>3 DEF Predecessors
    <3>2. q \in later
      BY <2>3, <3>1 DEF Successors, later
    <3> QED
      BY <1>8, <2>2, <3>1, <3>2 DEF Follows, inv
  <2> QED
    BY <1>2, <2>3
<1>9. ASSUME \/ f.op = "ABLEWAITINF" /\ TimeDiverges(z \cap fr.place, l)
             \/ f.op = "UNABLEWAITINF" /\ ~TimeDiverges(z \cap fr.place, l)
      PROVE  Narrowed(V, fr, fr.place)
  <2>1. ASSUME NEW p \in fr.place \cap z
        PROVE  /\ Later[p] \cap Inv[l] \subseteq Elapse(z \cap fr.place, l)
               /\ TimeDiverges(z \cap fr.place, l) => Later[p] \cap Inv[l] \cap Beyond # {}
    BY <1>1, DivergenceAssumption DEF Elapse, TimeDiverges
  <2>2. \A p \in fr.place \cap z : Follows(pes, H, V, f, l, p)
    BY <1>9, <2>1 DEF Follows, TimeDiverges
  <2> QED
    BY <1>2, <2>2
<1> QED
  BY <1>4, <1>5, <1>6, <1>7, <1>8, <1>9 DEF V

-----------------------------------------------------------------------------
(***************************************************************************)
(* The rules that try the transitions.                                     *)
(***************************************************************************)

\* What is proved of a transition's own destination and resets around a body
\* is the body, after the transition.
LEMMA NewTransMeans ==
    ASSUME NEW pes, NEW H, NEW k \in 1..Len(Transitions), NEW body \in Bodies,
           NEW l \in Loc, NEW p \in Point,
           <<NewTrans(Transitions[k], body), l, p>> \in Provable(pes, H)
    PROVE  Transitions[k].reset[p]
               \in At(Provable(pes, H), body, Transitions[k].dest[l])
<1> DEFINE t == Transitions[k]
           V == Provable(pes, H)
           moved == [op |-> "SUBLIST", map |-> t.dest, expr |-> body]
           reset == [op |-> "RESET", map |-> t.reset, expr |-> moved]
           new == NewTrans(t, body)
<1>1. t.reset \in [Point -> Point] /\ t.reset[p] \in Point
  BY TransitionTypes
<1>2. new \in PlaceFormula
  BY NewTransIsFormula
<1>3. ASSUME NEW q \in Point, moved \in PlaceFormula, <<moved, l, q>> \in V
      PROVE  q \in At(V, body, t.dest[l])
  <2>1. moved.op = "SUBLIST" /\ moved.map = t.dest /\ moved.expr = body
    OBVIOUS
  <2> HIDE DEF moved
  <2>2. Follows(pes, H, V, moved, l, q)
    BY <1>3, <2>1, ProvableStep
  <2> QED
    BY <2>1, <2>2 DEF Follows
<1>4. CASE \A q \in Point : t.reset[q] = q
  <2>1. new = moved /\ t.reset[p] = p
    BY <1>4 DEF NewTrans
  <2> HIDE DEF moved
  <2> QED
    BY <1>2, <1>3, <2>1
<1>5. CASE ~(\A q \in Point : t.reset[q] = q)
  <2>1. new = reset
    BY <1>5 DEF NewTrans
  <2>2. reset.op = "RESET" /\ reset.map = t.reset /\ reset.expr = moved
    OBVIOUS
  <2> HIDE DEF moved, reset
  <2>3. moved \in PlaceFormula
    BY <1>2, <2>1, <2>2, PlaceFormulas
  <2>4. Follows(pes, H, V, reset, l, p)
    BY <1>2, <2>1, <2>2, ProvableStep
  <2>5. t.reset[p] \in At(V, moved, l)
    BY <2>2, <2>4 DEF Follows
  <2>6. <<moved, l, t.reset[p]>> \in V
    BY <2>5 DEF At
  <2> QED
    BY <1>1, <1>3, <2>3, <2>6
<1> QED
  BY <1>4, <1>5

\* A transition that passes its presets enters its invariant, and conversely.
LEMMA EntersByPresets ==
    ASSUME NEW k \in 1..Len(Transitions), NEW l \in Loc, NEW p \in Point
    PROVE  p \in InvariantPre(Transitions[k], l)
              <=> Transitions[k].reset[p] \in Inv[Transitions[k].dest[l]]
<1>1. k \in DOMAIN Transitions
  BY AutomatonAssumption
<1> QED
  BY <1>1, EnteringAssumption

\* What an answer to the call along transition k says.
LEMMA AlongNarrows ==
    ASSUME NEW pes, NEW H, NEW fr, fr.zone \in Zone, fr.loc \in Loc,
           fr.formula.quant \in Bodies, NEW k \in 1..Len(Transitions), NEW place \in Zone,
           NEW A, Narrowed(Provable(pes, H), AlongTransition(fr, k, place), A)
    PROVE  /\ A \subseteq place
           /\ \A p \in A \cap fr.zone :
                 /\ fr.zone \cap Transitions[k].guard.zone
                        \subseteq InvariantPre(Transitions[k], fr.loc)
                       \/ p \in InvariantPre(Transitions[k], fr.loc)
                 /\ p \in Transitions[k].guard.zone \cap InvariantPre(Transitions[k], fr.loc) =>
                       Transitions[k].reset[p]
                          \in At(Provable(pes, H), fr.formula.quant, Transitions[k].dest[fr.loc])
<1> DEFINE t == Transitions[k]
           V == Provable(pes, H)
           entering == InvariantPre(t, fr.loc)
           guarded == fr.zone \cap t.guard.zone
           new == NewTrans(t, fr.formula.quant)
           left == IF guarded \subseteq entering THEN place ELSE place \cap entering
<1>1. guarded \cap entering \in Zone
  BY DEF Zone
<1>2. guarded \cap entering \subseteq Bound[guarded \cap entering]
      /\ Bound[guarded \cap entering] \in Zone
  BY <1>1, BoundAssumption, AutomatonAssumption
<1>3. Narrowed(V, PlaceCall(new, fr.loc, Bound[guarded \cap entering], left), A)
  BY DEF AlongTransition
<1>4. \A p \in Point : <<new, fr.loc, p>> \in V => t.reset[p] \in At(V, fr.formula.quant, t.dest[fr.loc])
  BY NewTransMeans
<1> HIDE DEF entering, new, V, t
<1> DEFINE bounded == Bound[guarded \cap entering]
<1> HIDE DEF bounded, left
<1>5. A \subseteq left /\ \A p \in A \cap bounded : p \in Point /\ p \in At(V, new, fr.loc)
  <2>1. Narrowed(V, PlaceCall(new, fr.loc, bounded, left), A) /\ bounded \in Zone
    BY <1>2, <1>3 DEF bounded, left
  <2> QED
    BY <2>1, NarrowedAt
<1>6. ASSUME NEW p \in A \cap fr.zone, p \in t.guard.zone \cap entering
      PROVE  t.reset[p] \in At(V, fr.formula.quant, t.dest[fr.loc])
  BY <1>2, <1>4, <1>5, <1>6 DEF At, bounded
<1>7. A \subseteq place /\ (guarded \subseteq entering \/ A \subseteq entering)
  BY <1>5 DEF left
<1> QED
  BY <1>6, <1>7 DEF entering, V, t

LEMMA ExistactNarrows ==
    ASSUME NEW pes, NEW H, NEW fr, fr.zone \in Zone, fr.loc \in Loc,
           fr.formula \in PlaceFormula, fr.formula.op = "EXISTACT",
           NEW place \in Zone, NEW from \in Nat \ {0},
           NEW k \in ExistactPending(fr, place, from), NEW A,
           Narrowed(Provable(pes, H),
                    AlongTransition(fr, k, GuardedPlace(Transitions[k], fr.zone, place)), A)
    PROVE  \A p \in A \cap fr.zone : <<fr.formula, fr.loc, p>> \in Provable(pes, H)
<1> DEFINE t == Transitions[k]
           V == Provable(pes, H)
           guarding == GuardedPlace(t, fr.zone, place)
<1>1. k \in 1..Len(Transitions) /\ k \in DOMAIN Transitions
  <2>1. Len(Transitions) \in Nat /\ DOMAIN Transitions = 1..Len(Transitions)
    BY AutomatonAssumption, LenProperties
  <2>2. k \in from..Len(Transitions)
    BY DEF ExistactPending
  <2> QED
    BY <2>1, <2>2
<1>2. fr.formula \in Formula /\ fr.formula.quant \in Bodies
  BY PlaceFormulas DEF Bodies
<1>3. guarding \in Zone
  BY DEF GuardedPlace, Zone
<1>4. fr.loc \in t.guard.locs
  BY DEF ExistactPending, comp_ph_exist_place
<1> HIDE DEF guarding
<1>5. /\ A \subseteq guarding
      /\ \A p \in A \cap fr.zone :
            /\ fr.zone \cap t.guard.zone \subseteq InvariantPre(t, fr.loc)
                  \/ p \in InvariantPre(t, fr.loc)
            /\ p \in t.guard.zone \cap InvariantPre(t, fr.loc) =>
                  t.reset[p] \in At(V, fr.formula.quant, t.dest[fr.loc])
  <2>1. Narrowed(V, AlongTransition(fr, k, guarding), A)
    BY DEF guarding
  <2> QED
    BY <1>1, <1>2, <1>3, <2>1, AlongNarrows
<1>6. ASSUME NEW p \in A \cap fr.zone
      PROVE  p \in Point /\ Takes(t, fr.loc, p) /\ t.reset[p] \in At(V, fr.formula.quant, t.dest[fr.loc])
  <2>1. p \in Point
    BY DEF Zone
  <2>2. /\ fr.zone \cap t.guard.zone \subseteq InvariantPre(t, fr.loc)
              \/ p \in InvariantPre(t, fr.loc)
        /\ p \in t.guard.zone \cap InvariantPre(t, fr.loc) =>
              t.reset[p] \in At(V, fr.formula.quant, t.dest[fr.loc])
    BY <1>5
  <2>3. p \in t.guard.zone
    BY <1>5 DEF GuardedPlace, guarding
  <2>4. p \in InvariantPre(t, fr.loc)
    BY <2>2, <2>3
  <2>5. t.reset[p] \in Inv[t.dest[fr.loc]]
    BY <1>1, <2>1, <2>4, EntersByPresets
  <2> QED
    BY <1>4, <2>1, <2>2, <2>3, <2>4, <2>5 DEF Takes
<1> HIDE DEF V
<1>7. \A p \in A \cap fr.zone : Follows(pes, H, V, fr.formula, fr.loc, p)
  BY <1>1, <1>6 DEF Follows
<1> QED
  BY <1>6, <1>7, ProvableStep DEF V

\* A transition that is left out cannot be taken from the placeholder.
LEMMA AllactSkips ==
    ASSUME NEW k \in 1..Len(Transitions), NEW l \in Loc, NEW z \in Zone, NEW place,
           LET t == Transitions[k]
               entering == InvariantPre(t, l)
               guarded == z \cap t.guard.zone
           IN  ~(/\ comp_ph_all_place(z, place, t.guard, l)
                 /\ guarded \subseteq entering \/ guarded \cap entering # {})
    PROVE  \A p \in place \cap z : ~Takes(Transitions[k], l, p)
  BY EntersByPresets DEF comp_ph_all_place, Takes, Zone

\* What is left of the placeholder passes the transition just answered.
LEMMA AllactPasses ==
    ASSUME NEW pes, NEW H, NEW fr, fr.zone \in Zone, fr.loc \in Loc, fr.place \in Zone,
           fr.formula.quant \in Bodies, NEW k \in 1..Len(Transitions), NEW A,
           Narrowed(Provable(pes, H), AlongTransition(fr, k, fr.place), A),
           NEW p \in fr.zone,
           \/ p \in A
           \/ p \notin Transitions[k].guard.zone
           \/ p \notin InvariantPre(Transitions[k], fr.loc)
    PROVE  Passed(Provable(pes, H), fr.formula.quant, fr.loc, k, p)
<1> DEFINE V == Provable(pes, H)
           place == fr.place
           t == Transitions[k]
<1>1. place \in Zone /\ Narrowed(V, AlongTransition(fr, k, place), A)
  OBVIOUS
<1> HIDE DEF place
<1>2. \A q \in A \cap fr.zone :
         q \in t.guard.zone \cap InvariantPre(t, fr.loc) =>
             t.reset[q] \in At(V, fr.formula.quant, t.dest[fr.loc])
  BY <1>1, AlongNarrows
<1>3. p \in Point
  BY DEF Zone
<1> QED
  BY <1>2, <1>3, EntersByPresets DEF Passed, Takes

LEMMA AllactNarrows ==
    ASSUME NEW pes, NEW H, NEW fr \in PlaceFrame, fr.formula.op = "ALLACT",
           NEW A, A \subseteq fr.place,
           \A k \in 1..Len(Transitions), p \in A \cap fr.zone :
              Passed(Provable(pes, H), fr.formula.quant, fr.loc, k, p)
    PROVE  Narrowed(Provable(pes, H), fr, A)
<1>1. DOMAIN Transitions = 1..Len(Transitions)
  BY AutomatonAssumption, LenProperties
<1> DEFINE V == Provable(pes, H)
<1> HIDE DEF V
<1>2. \A p \in A \cap fr.zone : Follows(pes, H, V, fr.formula, fr.loc, p)
  BY <1>1 DEF Follows, Passed, V
<1> QED
  BY <1>2, NarrowedBy DEF V

-----------------------------------------------------------------------------
(***************************************************************************)
(* The calls of do_proof_place: what each may answer, if the call above it *)
(* answers right.                                                          *)
(***************************************************************************)

\* The call that waits has asked for this.
PAsked(pes, fr) ==
    LET f == fr.formula
        Same(g) == PlaceCall(g, fr.loc, fr.zone, fr.place)
    IN  CASE f.op = "PREDICATE" -> Same(pes.rhs[f.pred])
          [] f.op = "AND" -> Same(f.left)
          [] f.op \in {"OR", "OR_SIMPLE"} -> IF fr.next = 1 THEN Same(f.left) ELSE Same(f.right)
          [] f.op = "RESET" -> PlaceCall(f.expr, fr.loc, Image(f.map, fr.zone), Point)
          [] f.op = "FORALL" -> PlaceCall(f.quant, fr.loc, Successors(fr.zone), fr.place)
          [] f.op = "EXISTS" -> PlaceCall(f.quant, fr.loc, Successors(fr.zone), Inv[fr.loc])
          [] f.op = "ALLACT" -> AlongTransition(fr, fr.next, fr.place)
          [] f.op = "EXISTACT" ->
                AlongTransition(fr, fr.next,
                                GuardedPlace(Transitions[fr.next], fr.zone, fr.place))
          [] OTHER -> fr

\* What the call has found out from its earlier questions.
PKept(V, fr) ==
    LET f == fr.formula
    IN  /\ f.op \in {"OR", "OR_SIMPLE"} /\ fr.next = 2 =>
              Narrowed(V, PlaceCall(f.left, fr.loc, fr.zone, fr.place), fr.first)
        /\ f.op = "ALLACT" =>
              \A k \in 1..(fr.next - 1), p \in fr.place \cap fr.zone :
                 Passed(V, f.quant, fr.loc, k, p)
        /\ f.op = "EXISTACT" /\ fr.next # 0 =>
              /\ fr.next \in ExistactPending(fr, fr.place, 1)
              /\ \A p \in fr.first \cap fr.zone : <<f, fr.loc, p>> \in V

\* base is the call of the splitting rule.
Asker(pes, base, pst, j) == IF j = 0 THEN base ELSE PAsked(pes, pst[j])

PlaceJustified(pes, V, base, pst, pr) ==
    /\ \A j \in 0..(Len(pst) - 1), A \in Zone :
          Narrowed(V, pst[j + 1], A) => Narrowed(V, Asker(pes, base, pst, j), A)
    /\ \A j \in 1..Len(pst) : PKept(V, pst[j])
    /\ pr # << >> => Narrowed(V, Asker(pes, base, pst, Len(pst)), pr[1])

LEMMA PlaceJustifiedReturn ==
    ASSUME NEW pes, NEW V, NEW base, NEW s, NEW r, PlaceJustified(pes, V, base, s, r),
           Len(s) \in Nat \ {0}, NEW t, Len(t) = Len(s) - 1,
           \A i \in 1..(Len(s) - 1) : t[i] = s[i],
           NEW A \in Zone, Narrowed(V, s[Len(s)], A)
    PROVE  PlaceJustified(pes, V, base, t, <<A>>)
<1> DEFINE n == Len(s)
<1>1. \A i \in 0..(n - 1) : Asker(pes, base, t, i) = Asker(pes, base, s, i)
  BY DEF Asker
<1>2. ASSUME NEW j \in 0..(Len(t) - 1), NEW B \in Zone, Narrowed(V, t[j + 1], B)
      PROVE  Narrowed(V, Asker(pes, base, t, j), B)
  <2>1. j \in 0..(n - 1) /\ j + 1 \in 1..(n - 1)
    OBVIOUS
  <2> QED
    BY <1>1, <1>2, <2>1 DEF PlaceJustified
<1>3. \A j \in 1..Len(t) : PKept(V, t[j])
  <2>1. \A j \in 1..Len(t) : j \in 1..n /\ t[j] = s[j]
    OBVIOUS
  <2> QED
    BY <2>1 DEF PlaceJustified
<1>4. Narrowed(V, Asker(pes, base, t, Len(t)), A)
  <2>1. n - 1 \in 0..(n - 1) /\ n - 1 + 1 = n
    OBVIOUS
  <2>2. Narrowed(V, Asker(pes, base, s, n - 1), A)
    BY <2>1 DEF PlaceJustified
  <2> QED
    BY <1>1, <2>1, <2>2
<1> QED
  BY <1>2, <1>3, <1>4 DEF PlaceJustified

LEMMA PlaceJustifiedReplace ==
    ASSUME NEW pes, NEW V, NEW base, NEW s, NEW r, PlaceJustified(pes, V, base, s, r),
           Len(s) \in Nat \ {0}, NEW t, Len(t) = Len(s),
           \A i \in 1..(Len(s) - 1) : t[i] = s[i],
           PKept(V, t[Len(s)]),
           \A A \in Zone : Narrowed(V, t[Len(s)], A) => Narrowed(V, s[Len(s)], A)
    PROVE  PlaceJustified(pes, V, base, t, << >>)
<1> DEFINE n == Len(s)
<1>1. \A i \in 0..(n - 1) : Asker(pes, base, t, i) = Asker(pes, base, s, i)
  BY DEF Asker
<1>2. ASSUME NEW j \in 0..(n - 1), NEW B \in Zone, Narrowed(V, t[j + 1], B)
      PROVE  Narrowed(V, Asker(pes, base, t, j), B)
  <2>1. j + 1 = n \/ t[j + 1] = s[j + 1]
    OBVIOUS
  <2>2. Narrowed(V, s[j + 1], B)
    BY <1>2, <2>1
  <2> QED
    BY <1>1, <2>2 DEF PlaceJustified
<1>3. \A j \in 1..n : PKept(V, t[j])
  <2>1. \A j \in 1..n : j = n \/ t[j] = s[j]
    OBVIOUS
  <2> QED
    BY <2>1 DEF PlaceJustified
<1> QED
  BY <1>2, <1>3 DEF PlaceJustified

LEMMA PlaceJustifiedDescend ==
    ASSUME NEW pes, NEW V, NEW base, NEW s, NEW r, PlaceJustified(pes, V, base, s, r),
           Len(s) \in Nat \ {0}, NEW t, Len(t) = Len(s) + 1,
           \A i \in 1..(Len(s) - 1) : t[i] = s[i],
           PKept(V, t[Len(s)]), PKept(V, t[Len(s) + 1]),
           t[Len(s) + 1] = PAsked(pes, t[Len(s)]),
           \A A \in Zone : Narrowed(V, t[Len(s)], A) => Narrowed(V, s[Len(s)], A)
    PROVE  PlaceJustified(pes, V, base, t, << >>)
<1> DEFINE n == Len(s)
<1>1. \A i \in 0..(n - 1) : Asker(pes, base, t, i) = Asker(pes, base, s, i)
  BY DEF Asker
<1>2. Asker(pes, base, t, n) = t[n + 1]
  BY DEF Asker
<1>3. ASSUME NEW j \in 0..n, NEW B \in Zone, Narrowed(V, t[j + 1], B)
      PROVE  Narrowed(V, Asker(pes, base, t, j), B)
  <2>1. CASE j = n
    BY <1>2, <1>3, <2>1
  <2>2. CASE j # n
    <3>1. j \in 0..(n - 1) /\ (j + 1 = n \/ t[j + 1] = s[j + 1])
      BY <2>2
    <3>2. Narrowed(V, s[j + 1], B)
      BY <1>3, <3>1
    <3> QED
      BY <1>1, <3>1, <3>2 DEF PlaceJustified
  <2> QED
    BY <2>1, <2>2
<1>4. \A j \in 1..(n + 1) : PKept(V, t[j])
  <2>1. \A j \in 1..(n + 1) : j = n + 1 \/ j = n \/ (j \in 1..n /\ t[j] = s[j])
    OBVIOUS
  <2> QED
    BY <2>1 DEF PlaceJustified
<1> QED
  BY <1>3, <1>4 DEF PlaceJustified

\* An answer to the call is an answer to the one it stands for.
Stronger(V, c) == \A A \in Zone : Narrowed(V, c, A) => Narrowed(V, PTop, A)

\* The call waits, as fr, for the answer to c.
Asks(pes, V, fr, c) ==
    /\ c = PAsked(pes, fr)
    /\ PKept(V, fr)
    /\ PKept(V, c)
    /\ Stronger(V, fr)

LEMMA TopIsLast ==
    ASSUME PlaceTypeOK, pstack # << >>
    PROVE  Len(pstack) \in Nat \ {0} /\ PTop = pstack[Len(pstack)]
  BY EmptySeq, LenProperties DEF PlaceTypeOK, PTop

\* The moves of the search, when what they rely on has been shown.
LEMMA PlaceSteps ==
    ASSUME NEW pes, NEW V, NEW base, PlaceTypeOK, pstack # << >>,
           PlaceJustified(pes, V, base, pstack, place_ret)
    PROVE  LET Goal == PlaceJustified(pes, V, base, pstack', place_ret')
           IN  /\ \A A \in Zone : PReturn(A) /\ Narrowed(V, PTop, A) => Goal
               /\ \A c : PTailCall(c) /\ PKept(V, c) /\ Stronger(V, c) => Goal
               /\ \A fr, c : PDescend(fr, c) /\ Asks(pes, V, fr, c) => Goal
               /\ place_ret # << >> => Narrowed(V, PAsked(pes, PTop), Answer)
               /\ PKept(V, PTop)
<1> DEFINE n == Len(pstack)
           Goal == PlaceJustified(pes, V, base, pstack', place_ret')
<1>1. n \in Nat \ {0} /\ PTop = pstack[n] /\ n \in 1..n
  <2>1. n \in Nat \ {0} /\ PTop = pstack[n]
    BY TopIsLast
  <2> QED
    BY <2>1
<1>2. ASSUME NEW A \in Zone, PReturn(A), Narrowed(V, PTop, A) PROVE Goal
  <2>1. Len(pstack') = n - 1 /\ \A i \in 1..(n - 1) : pstack'[i] = pstack[i]
    BY <1>2, PlaceStacks
  <2>2. place_ret' = <<A>>
    BY <1>2 DEF PReturn
  <2> QED
    BY <1>1, <1>2, <2>1, <2>2, PlaceJustifiedReturn
<1>3. ASSUME NEW c, PTailCall(c), PKept(V, c), Stronger(V, c)
      PROVE  Goal
  <2>1. Len(pstack') = n /\ (\A i \in 1..(n - 1) : pstack'[i] = pstack[i]) /\ pstack'[n] = c
    BY <1>3, PlaceStacks
  <2>2. place_ret' = << >>
    BY <1>3 DEF PTailCall
  <2> QED
    BY <1>1, <1>3, <2>1, <2>2, PlaceJustifiedReplace DEF Stronger
<1>4. ASSUME NEW fr, NEW c, PDescend(fr, c), Asks(pes, V, fr, c)
      PROVE  Goal
  <2>1. /\ Len(pstack') = n + 1 /\ (\A i \in 1..(n - 1) : pstack'[i] = pstack[i])
        /\ pstack'[n] = fr /\ pstack'[n + 1] = c
    BY <1>4, PlaceStacks
  <2>2. place_ret' = << >>
    BY <1>4 DEF PDescend
  <2> QED
    BY <1>1, <1>4, <2>1, <2>2, PlaceJustifiedDescend DEF Asks, Stronger
<1>5. place_ret # << >> => Narrowed(V, PAsked(pes, PTop), Answer)
  BY <1>1 DEF PlaceJustified, Asker, Answer
<1>6. PKept(V, PTop)
  BY <1>1 DEF PlaceJustified
<1> HIDE DEF Goal
<1>7. \A A \in Zone : PReturn(A) /\ Narrowed(V, PTop, A) => Goal
  BY <1>2
<1>8. \A c : PTailCall(c) /\ PKept(V, c) /\ Stronger(V, c) => Goal
  BY <1>3
<1>9. \A fr, c : PDescend(fr, c) /\ Asks(pes, V, fr, c) => Goal
  BY <1>4
<1> QED
  BY <1>5, <1>6, <1>7, <1>8, <1>9 DEF Goal

LEMMA FreshKept ==
    ASSUME NEW V, NEW c, c.next = 0
    PROVE  PKept(V, c)
<1>1. 1..(c.next - 1) = {} /\ c.next # 2
  OBVIOUS
<1> QED
  BY <1>1 DEF PKept

\* A call that waits is still the same question.
LEMMA PhaseFields ==
    ASSUME PlaceTypeOK, pstack # << >>, NEW k \in Nat, NEW kpt \in Zone, NEW V
    PROVE  \A fr \in {Phase(k), PhaseKeeping(k, kpt)} :
              /\ fr.formula = PTop.formula /\ fr.loc = PTop.loc /\ fr.zone = PTop.zone
              /\ fr.place = PTop.place /\ fr.next = k
              /\ Stronger(V, fr)
<1>1. PTop \in PlaceFrame
  BY TopIsFrame
<1>2. ASSUME NEW fr \in {Phase(k), PhaseKeeping(k, kpt)}
      PROVE  /\ fr.formula = PTop.formula /\ fr.loc = PTop.loc /\ fr.zone = PTop.zone
             /\ fr.place = PTop.place /\ fr.next = k
  BY <1>1 DEF Phase, PhaseKeeping, PlaceFrame
<1> QED
  BY <1>2 DEF Narrowed, Stronger

-----------------------------------------------------------------------------
(***************************************************************************)
(* Each rule with a placeholder keeps that.                                *)
(***************************************************************************)

\* A new call has found out nothing yet.
LEMMA FreshCallKept ==
    ASSUME NEW V, NEW g, NEW l, NEW z, NEW place
    PROVE  /\ PKept(V, PlaceCall(g, l, z, place))
           /\ PKept(V, Child(g, place))
           /\ PKept(V, Delayed(g, place))
<1>1. \A m, y : PlaceCall(g, m, y, place).next = 0
  BY DEF PlaceCall
<1>2. \A m, y : PKept(V, PlaceCall(g, m, y, place))
  BY <1>1, FreshKept
<1> QED
  BY <1>2 DEF Child, Delayed

MovedChild(g, place, l) == [Child(g, place) EXCEPT !.loc = l]

LEMMA MovedChildIsCall ==
    ASSUME NEW g, NEW place, NEW l
    PROVE  MovedChild(g, place, l) = PlaceCall(g, l, PTop.zone, place)
  BY DEF MovedChild, Child, PlaceCall

\* What the rules ask for.
LEMMA RulesAsk ==
    ASSUME PlaceTypeOK, pstack # << >>, NEW pes, NEW V
    PROVE  LET f == PTop.formula
               place == PTop.place
               Rule(k, c) == Asks(pes, V, Phase(k), c)
           IN  /\ f.op \in {"AND", "OR", "OR_SIMPLE"} => Rule(1, Child(f.left, place))
               /\ f.op = "RESET" => Rule(1, [Child(f.expr, Point) EXCEPT
                                                !.zone = Image(f.map, PTop.zone)])
               /\ f.op = "FORALL" => Rule(1, Delayed(f.quant, place))
               /\ f.op = "EXISTS" => Rule(1, Delayed(f.quant, Inv[PTop.loc]))
               /\ \A left \in Zone :
                     f.op \in {"OR", "OR_SIMPLE"} /\ Narrowed(V, Child(f.left, place), left)
                        => Asks(pes, V, PhaseKeeping(2, left), Child(f.right, place))
<1> DEFINE f == PTop.formula
           place == PTop.place
<1>1. PTop \in PlaceFrame /\ {} \in Zone
  BY TopIsFrame DEF Zone
<1>2. ASSUME NEW k \in {1, 2}, NEW left \in Zone, NEW fr \in {Phase(k), PhaseKeeping(k, left)}
      PROVE  /\ fr.formula = f /\ fr.loc = PTop.loc /\ fr.zone = PTop.zone
             /\ fr.place = place /\ fr.next = k
             /\ Stronger(V, fr)
  BY PhaseFields
<1> DEFINE fr == Phase(1)
           moved == [Child(f.expr, Point) EXCEPT !.zone = Image(f.map, PTop.zone)]
<1>3. moved = PlaceCall(f.expr, PTop.loc, Image(f.map, PTop.zone), Point)
  BY DEF Child, PlaceCall
<1>4. /\ \A g, p : PKept(V, Child(g, p)) /\ PKept(V, Delayed(g, p))
      /\ \A g, l, z, p : PKept(V, PlaceCall(g, l, z, p))
  BY FreshCallKept
<1>5. /\ fr.formula = f /\ fr.loc = PTop.loc /\ fr.zone = PTop.zone
      /\ fr.place = place /\ fr.next = 1
      /\ Stronger(V, fr)
  BY <1>1, <1>2
<1> HIDE DEF fr, f, place, moved
<1>6. f.op \in {"AND", "OR", "OR_SIMPLE", "RESET", "FORALL", "EXISTS"} => PKept(V, fr)
  BY <1>5 DEF PKept
<1>7. /\ f.op \in {"AND", "OR", "OR_SIMPLE"} => PAsked(pes, fr) = Child(f.left, place)
      /\ f.op = "RESET" => PAsked(pes, fr) = moved
      /\ f.op = "FORALL" => PAsked(pes, fr) = Delayed(f.quant, place)
      /\ f.op = "EXISTS" => PAsked(pes, fr) = Delayed(f.quant, Inv[PTop.loc])
  BY <1>3, <1>5 DEF PAsked, Child, Delayed
<1>8. ASSUME NEW left \in Zone, f.op \in {"OR", "OR_SIMPLE"},
             Narrowed(V, Child(f.left, place), left)
      PROVE  Asks(pes, V, PhaseKeeping(2, left), Child(f.right, place))
  <2> DEFINE w == PhaseKeeping(2, left)
  <2>1. /\ w.formula = f /\ w.loc = PTop.loc /\ w.zone = PTop.zone
        /\ w.place = place /\ w.next = 2
        /\ Stronger(V, w)
    BY <1>2
  <2>2. w.first = left
    BY <1>1 DEF PhaseKeeping, PlaceFrame
  <2> HIDE DEF w
  <2>3. PAsked(pes, w) = Child(f.right, place)
    BY <1>8, <2>1 DEF PAsked, Child
  <2>4. PKept(V, w)
    BY <1>8, <2>1, <2>2 DEF PKept, Child
  <2> QED
    BY <1>3, <1>4, <2>1, <2>3, <2>4 DEF Asks, w
<1>9. /\ f.op \in {"AND", "OR", "OR_SIMPLE"} => Asks(pes, V, fr, Child(f.left, place))
      /\ f.op = "RESET" => Asks(pes, V, fr, moved)
      /\ f.op = "FORALL" => Asks(pes, V, fr, Delayed(f.quant, place))
      /\ f.op = "EXISTS" => Asks(pes, V, fr, Delayed(f.quant, Inv[PTop.loc]))
  BY <1>3, <1>4, <1>5, <1>6, <1>7 DEF Asks
<1> QED
  BY <1>8, <1>9 DEF f, place, fr, moved

LEMMA BooleanPlaces ==
    ASSUME PlaceTypeOK, pstack # << >>, NEW pes, NEW H, NEW base,
           PlaceJustified(pes, Provable(pes, H), base, pstack, place_ret),
           \/ do_proof_place_and
           \/ do_proof_place_or
           \/ do_proof_place_or_simple
           \/ do_proof_place_constraint
           \/ do_proof_place_atomic
           \/ do_proof_place_sublist
    PROVE  PlaceJustified(pes, Provable(pes, H), base, pstack', place_ret')
<1> DEFINE f == PTop.formula
           place == PTop.place
           V == Provable(pes, H)
           Goal == PlaceJustified(pes, V, base, pstack', place_ret')
<1>1. /\ PTop \in PlaceFrame /\ place \in Zone /\ PTop.first \in Zone /\ {} \in Zone
      /\ place_ret # << >> => Answer \in Zone
  BY TopIsFrame, AnswerIsZone DEF Zone
<1>2. PTop.place \cap PTop.formula.zone \in Zone
  BY <1>1 DEF Zone
<1>3. /\ \A A \in Zone : PReturn(A) /\ Narrowed(V, PTop, A) => Goal
      /\ \A c : PTailCall(c) /\ PKept(V, c) /\ Stronger(V, c) => Goal
      /\ \A fr, c : PDescend(fr, c) /\ Asks(pes, V, fr, c) => Goal
      /\ place_ret # << >> => Narrowed(V, PAsked(pes, PTop), Answer)
      /\ PKept(V, PTop)
  BY PlaceSteps
<1>4. \A g, l, z, p : PKept(V, Child(g, p)) /\ PKept(V, PlaceCall(g, l, z, p))
  BY FreshCallKept
<1> SUFFICES Goal
  OBVIOUS
<1> HIDE DEF Goal
<1>5. CASE do_proof_place_and
  <2>1. f.op = "AND"
    BY <1>5 DEF do_proof_place_and, PEntering, PResuming
  <2>2. CASE PDescend(Phase(1), Child(f.left, place))
    BY <1>3, <2>1, <2>2, RulesAsk
  <2>3. CASE PReturn({})
    BY <1>1, <1>3, <2>3, BooleanNarrows
  <2>4. CASE place_ret # << >> /\ PTailCall(Child(f.right, Answer))
    <3>1. Narrowed(V, Child(f.left, place), Answer)
      BY <1>3, <2>1, <2>4 DEF PAsked, Child
    <3>2. \A A \in Zone : Narrowed(V, Child(f.right, Answer), A) => Narrowed(V, PTop, A)
      BY <1>1, <2>1, <3>1, BooleanNarrows DEF Child
    <3> QED
      BY <1>3, <1>4, <2>4, <3>2 DEF Stronger
  <2> QED
    BY <1>5, <2>2, <2>3, <2>4 DEF do_proof_place_and, PResuming
<1>6. CASE do_proof_place_or \/ do_proof_place_or_simple
  <2>1. f.op \in {"OR", "OR_SIMPLE"}
    BY <1>6 DEF do_proof_place_or, do_proof_place_or_simple, PEntering, PResumingAt, PResuming
  <2>2. CASE PDescend(Phase(1), Child(f.left, place))
    BY <1>3, <2>1, <2>2, RulesAsk
  <2>3. ASSUME place_ret # << >>, PTop.next = 1
        PROVE  Narrowed(V, Child(f.left, place), Answer)
    BY <1>3, <2>1, <2>3 DEF PAsked, Child
  <2>4. CASE place_ret # << >> /\ PTop.next = 1 /\ place \subseteq Answer /\ PReturn(place)
    <3>1. Narrowed(V, Child(f.left, place), Answer)
      BY <2>3, <2>4
    <3>2. place = Answer
      BY <2>4, <3>1 DEF Narrowed, Child, PlaceCall
    <3>3. Narrowed(V, PTop, Answer)
      BY <1>1, <2>1, <3>1, BooleanNarrows DEF Child
    <3> QED
      BY <1>1, <1>3, <2>4, <3>2, <3>3
  <2>5. CASE place_ret # << >> /\ PTop.next = 1
               /\ PDescend(PhaseKeeping(2, Answer), Child(f.right, place))
    BY <1>1, <1>3, <2>1, <2>3, <2>5, RulesAsk
  <2>6. CASE /\ place_ret # << >> /\ PTop.next = 2
             /\ \E A \in {Answer \cup PTop.first, PTop.first, Answer} : PReturn(A)
    <3>1. Narrowed(V, Child(f.right, place), Answer)
      BY <1>3, <2>1, <2>6 DEF PAsked, Child
    <3>2. Narrowed(V, Child(f.left, place), PTop.first)
      BY <1>3, <2>1, <2>6 DEF PKept, Child
    <3>3. \A A \in {Answer \cup PTop.first, PTop.first, Answer} : Narrowed(V, PTop, A)
      <4>1. /\ Narrowed(V, PTop, PTop.first)
            /\ Narrowed(V, PTop, PTop.first \cup Answer)
            /\ Narrowed(V, PTop, Answer)
        BY <1>1, <2>1, <3>1, <3>2, BooleanNarrows DEF Child
      <4>2. Answer \cup PTop.first = PTop.first \cup Answer
        OBVIOUS
      <4> QED
        BY <4>1, <4>2
    <3>4. \A A \in {Answer \cup PTop.first, PTop.first, Answer} : A \in Zone
      BY <1>1, <2>6 DEF Zone
    <3> QED
      BY <1>3, <2>6, <3>3, <3>4
  <2> QED
    BY <1>6, <2>2, <2>4, <2>5, <2>6
       DEF do_proof_place_or, do_proof_place_or_simple, PResumingAt, PResuming
<1>7. CASE do_proof_place_constraint
  <2>1. f.op = "CONSTRAINT"
    BY <1>7 DEF do_proof_place_constraint, PEntering
  <2>2. Narrowed(V, PTop, {}) /\ Narrowed(V, PTop, place \cap f.zone)
    BY <1>1, <2>1, BooleanNarrows
  <2>3. PTop.zone \subseteq f.zone => Narrowed(V, PTop, place)
    BY <2>2 DEF Narrowed
  <2> QED
    BY <1>1, <1>2, <1>3, <1>7, <2>2, <2>3 DEF do_proof_place_constraint
<1>8. CASE do_proof_place_atomic
  <2>1. f.op = "ATOMIC"
    BY <1>8 DEF do_proof_place_atomic, PEntering
  <2>2. Narrowed(V, PTop, {}) /\ (PTop.loc \in f.locs => Narrowed(V, PTop, place))
    BY <1>1, <2>1, BooleanNarrows
  <2> QED
    BY <1>1, <1>3, <1>8, <2>2 DEF do_proof_place_atomic
<1>9. CASE do_proof_place_sublist
  <2> DEFINE l == f.map[PTop.loc]
             c == MovedChild(f.expr, place, l)
  <2>1. f.op = "SUBLIST" /\ PTailCall(c)
    BY <1>9 DEF do_proof_place_sublist, PEntering, MovedChild
  <2> HIDE DEF l
  <2>2. c = PlaceCall(f.expr, l, PTop.zone, place)
    BY MovedChildIsCall
  <2> HIDE DEF c
  <2>3. ASSUME NEW A \in Zone, Narrowed(V, c, A) PROVE Narrowed(V, PTop, A)
    <3>1. Narrowed(V, PlaceCall(f.expr, f.map[PTop.loc], PTop.zone, place), A)
      BY <2>2, <2>3 DEF l
    <3> QED
      BY <1>1, <2>1, <3>1, BooleanNarrows
  <2> QED
    BY <1>3, <1>4, <2>1, <2>2, <2>3 DEF Stronger
<1> QED
  BY <1>5, <1>6, <1>7, <1>8, <1>9

RestrictedChild(g, place, z) == [Child(g, place) EXCEPT !.zone = z]

LEMMA RestrictedChildIsCall ==
    ASSUME NEW g, NEW place, NEW z
    PROVE  RestrictedChild(g, place, z) = PlaceCall(g, PTop.loc, z, place)
  BY DEF RestrictedChild, Child, PlaceCall

LEMMA ClockPlaces ==
    ASSUME PlaceTypeOK, PresetAddsNothing, pstack # << >>, NEW pes, NEW H, NEW base,
           PlaceJustified(pes, Provable(pes, H), base, pstack, place_ret),
           \/ do_proof_place_imply
           \/ do_proof_place_ablewaitinf
           \/ do_proof_place_reset
           \/ do_proof_place_forall
           \/ do_proof_place_exists
    PROVE  PlaceJustified(pes, Provable(pes, H), base, pstack', place_ret')
<1> DEFINE f == PTop.formula
           place == PTop.place
           z == PTop.zone
           V == Provable(pes, H)
           Goal == PlaceJustified(pes, V, base, pstack', place_ret')
<1>1. /\ PTop \in PlaceFrame /\ place \in Zone /\ z \in Zone /\ PTop.loc \in Loc /\ {} \in Zone
      /\ place_ret # << >> => Answer \in Zone
      /\ f.op = "IMPLY" => f.left.zone \in Zone
  BY TopIsFrame, AnswerIsZone, OperandTypes DEF Zone
<1>2. /\ \A A \in Zone : PReturn(A) /\ Narrowed(V, PTop, A) => Goal
      /\ \A c : PTailCall(c) /\ PKept(V, c) /\ Stronger(V, c) => Goal
      /\ \A fr, c : PDescend(fr, c) /\ Asks(pes, V, fr, c) => Goal
      /\ place_ret # << >> => Narrowed(V, PAsked(pes, PTop), Answer)
  BY PlaceSteps
<1>3. \A g, l, y, p : PKept(V, PlaceCall(g, l, y, p))
  BY FreshCallKept
<1> SUFFICES Goal
  OBVIOUS
<1> HIDE DEF Goal
<1>4. CASE do_proof_place_imply
  <2>1. f.op = "IMPLY"
    BY <1>4 DEF do_proof_place_imply, PEntering
  <2>2. CASE comp_ph(z, f.left, PTop.loc)
    <3> DEFINE y == Bound[z \cap f.left.zone]
               c == RestrictedChild(f.right, place, y)
    <3>1. PTailCall(c)
      BY <1>4, <2>2 DEF do_proof_place_imply, RestrictedChild
    <3> HIDE DEF y
    <3>2. c = PlaceCall(f.right, PTop.loc, y, place)
      BY RestrictedChildIsCall
    <3> HIDE DEF c
    <3>3. ASSUME NEW A \in Zone, Narrowed(V, c, A) PROVE Narrowed(V, PTop, A)
      <4>1. Narrowed(V, PlaceCall(f.right, PTop.loc, Bound[z \cap f.left.zone], place), A)
        BY <3>2, <3>3 DEF y
      <4> QED
        BY <1>1, <2>1, <4>1, ClockNarrows
    <3> QED
      BY <1>2, <1>3, <3>1, <3>2, <3>3 DEF Stronger
  <2>3. CASE ~comp_ph(z, f.left, PTop.loc)
    <3>1. PReturn(place)
      BY <1>4, <2>3 DEF do_proof_place_imply
    <3>2. Narrowed(V, PTop, place)
      BY <1>1, <2>1, <2>3, ClockNarrows
    <3> QED
      BY <1>1, <1>2, <3>1, <3>2
  <2> QED
    BY <2>2, <2>3
<1>5. CASE do_proof_place_ablewaitinf
  <2> DEFINE diverges == TimeDiverges(z \cap place, PTop.loc)
  <2>1. /\ Narrowed(V, PTop, {})
        /\ f.op = "ABLEWAITINF" /\ diverges => Narrowed(V, PTop, place)
        /\ f.op = "UNABLEWAITINF" /\ ~diverges => Narrowed(V, PTop, place)
    BY <1>1, BooleanNarrows, ClockNarrows
  <2>2. \/ f.op = "ABLEWAITINF" /\ PReturn(IF diverges THEN place ELSE {})
        \/ f.op = "UNABLEWAITINF" /\ PReturn(IF diverges THEN {} ELSE place)
    BY <1>5 DEF do_proof_place_ablewaitinf, PEntering
  <2> HIDE DEF diverges
  <2> QED
    BY <1>1, <1>2, <2>1, <2>2
<1>6. CASE do_proof_place_reset
  <2>1. f.op = "RESET"
    BY <1>6 DEF do_proof_place_reset, PEntering, PResuming
  <2>2. CASE PDescend(Phase(1), [Child(f.expr, Point) EXCEPT !.zone = Image(f.map, z)])
    BY <1>2, <2>1, <2>2, RulesAsk
  <2>3. CASE PResuming("RESET") /\ Answer = {} /\ PReturn({})
    BY <1>1, <1>2, <2>3, BooleanNarrows
  <2>4. ASSUME PResuming("RESET"), Answer # {}, NEW taken \in Presets(f.map, Answer),
               PReturn(place \cap taken)
        PROVE  Goal
    <3>1. Narrowed(V, PlaceCall(f.expr, PTop.loc, Image(f.map, z), Point), Answer)
      BY <1>2, <2>1, <2>4 DEF PAsked, PResuming
    <3>2. \A p \in (place \cap taken) \cap z : f.map[p] \in Answer
      BY <2>4 DEF PresetAddsNothing, TakesPreset
    <3>3. Narrowed(V, PTop, place \cap taken)
      <4>1. \A B : B \subseteq place /\ (\A p \in B \cap z : f.map[p] \in Answer)
                      => Narrowed(V, PTop, B)
        BY <1>1, <2>1, <2>4, <3>1, ClockNarrows DEF PResuming
      <4> HIDE DEF V, z, f
      <4> QED
        BY <3>2, <4>1
    <3>4. place \cap taken \in Zone
      BY <1>1 DEF Zone
    <3> QED
      BY <1>2, <2>4, <3>3, <3>4
  <2> QED
    BY <1>6, <2>2, <2>3, <2>4 DEF do_proof_place_reset
<1>7. CASE do_proof_place_forall
  <2>1. f.op = "FORALL"
    BY <1>7 DEF do_proof_place_forall, PEntering, PResuming
  <2>2. CASE PDescend(Phase(1), Delayed(f.quant, place))
    BY <1>2, <2>1, <2>2, RulesAsk
  <2>3. CASE /\ place_ret # << >>
             /\ PReturn(Answer \cap establish_forall_place_sidecondition(z, PTop.loc, Answer))
    <3>1. Narrowed(V, PlaceCall(f.quant, PTop.loc, Successors(z), place), Answer)
      BY <1>2, <2>1, <2>3 DEF PAsked
    <3>2. Narrowed(V, PTop, Answer \cap establish_forall_place_sidecondition(z, PTop.loc, Answer))
      BY <1>1, <2>1, <2>3, <3>1, ClockNarrows
    <3>3. Answer \cap establish_forall_place_sidecondition(z, PTop.loc, Answer) \in Zone
      BY <1>1, <2>3 DEF Zone
    <3> QED
      BY <1>2, <2>3, <3>2, <3>3
  <2> QED
    BY <1>7, <2>2, <2>3 DEF do_proof_place_forall, PResuming
<1>8. CASE do_proof_place_exists
  <2>1. f.op = "EXISTS"
    BY <1>8 DEF do_proof_place_exists, PEntering, PResuming
  <2>2. CASE PDescend(Phase(1), Delayed(f.quant, Inv[PTop.loc]))
    BY <1>2, <2>1, <2>2, RulesAsk
  <2>3. CASE place_ret # << >> /\ PReturn(place \cap Predecessors(Answer))
    <3>1. Narrowed(V, PlaceCall(f.quant, PTop.loc, Successors(z), Inv[PTop.loc]), Answer)
      BY <1>2, <2>1, <2>3 DEF PAsked
    <3>2. Narrowed(V, PTop, place \cap Predecessors(Answer))
      BY <1>1, <2>1, <2>3, <3>1, ClockNarrows
    <3>3. place \cap Predecessors(Answer) \in Zone
      BY <1>1 DEF Zone
    <3> QED
      BY <1>2, <2>3, <3>2, <3>3
  <2> QED
    BY <1>8, <2>2, <2>3 DEF do_proof_place_exists, PResuming
<1> QED
  BY <1>4, <1>5, <1>6, <1>7, <1>8

\* The transitions up to the next one that is pending are passed.
LEMMA AllactUpTo ==
    ASSUME PlaceTypeOK, pstack # << >>, NEW pes, NEW H,
           PTop.formula.op = "ALLACT", PKept(Provable(pes, H), PTop),
           place_ret = << >> => PTop.next = 0,
           place_ret # << >> => Narrowed(Provable(pes, H), PAsked(pes, PTop), Answer),
           NEW left, left = IF place_ret = << >> THEN PTop.place
                            ELSE AfterAllact(PTop.next, Answer)
    PROVE  /\ left \in Zone /\ left \subseteq PTop.place
           /\ \A k \in 1..Len(Transitions), p \in left \cap PTop.zone :
                 k <= PTop.next \/ k \notin AllactPending(left, PTop.next + 1)
                    => Passed(Provable(pes, H), PTop.formula.quant, PTop.loc, k, p)
<1> DEFINE f == PTop.formula
           V == Provable(pes, H)
           n == PTop.next
<1>1. /\ PTop \in PlaceFrame /\ PTop.place \in Zone /\ PTop.zone \in Zone /\ PTop.loc \in Loc
      /\ n \in Nat /\ f.quant \in Bodies
      /\ Len(Transitions) \in Nat
  BY TopIsFrame, OperandTypes, AutomatonAssumption, LenProperties
<1>2. left \subseteq PTop.place
  BY DEF AfterAllact
<1>3. left \in Zone
  BY <1>1, <1>2 DEF Zone
<1>4. ASSUME NEW k \in 1..Len(Transitions), NEW p \in left \cap PTop.zone, k < n
      PROVE  Passed(V, f.quant, PTop.loc, k, p)
  <2>1. k \in 1..(n - 1)
    BY <1>1, <1>4
  <2> QED
    BY <1>2, <2>1 DEF PKept
<1>5. ASSUME NEW p \in left \cap PTop.zone, n \in 1..Len(Transitions)
      PROVE  Passed(V, f.quant, PTop.loc, n, p)
  <2>1. place_ret # << >> /\ left = AfterAllact(n, Answer)
    BY <1>5
  <2>2. Narrowed(V, AlongTransition(PTop, n, PTop.place), Answer)
    BY <2>1 DEF PAsked
  <2>3. \/ p \in Answer
        \/ p \notin Transitions[n].guard.zone
        \/ p \notin InvariantPre(Transitions[n], PTop.loc)
    BY <2>1 DEF AfterAllact
  <2> QED
    BY <1>1, <1>5, <2>2, <2>3, AllactPasses
<1>6. ASSUME NEW k \in 1..Len(Transitions), NEW p \in left \cap PTop.zone, k > n,
             k \notin AllactPending(left, n + 1)
      PROVE  Passed(V, f.quant, PTop.loc, k, p)
  <2>1. k \in (n + 1)..Len(Transitions)
    BY <1>1, <1>6
  <2>2. LET t == Transitions[k]
            entering == InvariantPre(t, PTop.loc)
            guarded == PTop.zone \cap t.guard.zone
        IN  ~(/\ comp_ph_all_place(PTop.zone, left, t.guard, PTop.loc)
              /\ guarded \subseteq entering \/ guarded \cap entering # {})
    BY <1>6, <2>1 DEF AllactPending
  <2>3. ~Takes(Transitions[k], PTop.loc, p)
    BY <1>1, <2>2, AllactSkips
  <2> QED
    BY <2>3 DEF Passed
<1> HIDE DEF V
<1>7. ASSUME NEW k \in 1..Len(Transitions), NEW p \in left \cap PTop.zone,
             k <= n \/ k \notin AllactPending(left, n + 1)
      PROVE  Passed(V, f.quant, PTop.loc, k, p)
  <2>1. k < n \/ (k = n /\ n \in 1..Len(Transitions)) \/ k > n
    BY <1>1
  <2>2. k > n => k \notin AllactPending(left, n + 1)
    BY <1>1, <1>7
  <2> QED
    BY <1>4, <1>5, <1>6, <2>1, <2>2
<1> QED
  BY <1>2, <1>3, <1>7 DEF V

LEMMA AllactPlaces ==
    ASSUME PlaceTypeOK, pstack # << >>, NEW pes, NEW H, NEW base,
           PlaceJustified(pes, Provable(pes, H), base, pstack, place_ret),
           do_proof_place_allact
    PROVE  PlaceJustified(pes, Provable(pes, H), base, pstack', place_ret')
<1> DEFINE f == PTop.formula
           n == PTop.next
           V == Provable(pes, H)
           left == IF place_ret = << >> THEN PTop.place ELSE AfterAllact(n, Answer)
           pending == AllactPending(left, n + 1)
           Goal == PlaceJustified(pes, V, base, pstack', place_ret')
<1>1. /\ PTop \in PlaceFrame /\ PTop.zone \in Zone /\ {} \in Zone /\ n \in Nat
      /\ Len(Transitions) \in Nat
  BY TopIsFrame, AutomatonAssumption, LenProperties DEF Zone
<1>2. /\ \A A \in Zone : PReturn(A) /\ Narrowed(V, PTop, A) => Goal
      /\ \A fr, c : PDescend(fr, c) /\ Asks(pes, V, fr, c) => Goal
      /\ place_ret # << >> => Narrowed(V, PAsked(pes, PTop), Answer)
      /\ PKept(V, PTop)
  BY PlaceSteps
<1>3. f.op = "ALLACT" /\ (place_ret = << >> => n = 0)
  BY DEF do_proof_place_allact, PEntering, PResuming
<1>4. /\ left \in Zone /\ left \subseteq PTop.place
      /\ \A k \in 1..Len(Transitions), p \in left \cap PTop.zone :
            k <= n \/ k \notin pending => Passed(V, f.quant, PTop.loc, k, p)
  BY <1>2, <1>3, AllactUpTo
<1>5. pending \subseteq (n + 1)..Len(Transitions)
  BY DEF AllactPending
<1>6. \/ PReturn({})
      \/ pending = {} /\ PReturn(left)
      \/ \E k \in pending : /\ \A j \in pending : k <= j
                            /\ PDescend([Phase(k) EXCEPT !.place = left],
                                        AlongTransition(PTop, k, left))
  BY DEF do_proof_place_allact
<1> SUFFICES Goal
  OBVIOUS
<1> HIDE DEF Goal, left, pending, V
<1>7. CASE PReturn({})
  <2>1. Narrowed(V, PTop, {})
    BY DEF Narrowed
  <2> QED
    BY <1>1, <1>2, <1>7, <2>1
<1>8. CASE pending = {} /\ PReturn(left)
  <2>1. Narrowed(V, PTop, left)
    BY <1>1, <1>3, <1>4, <1>8, AllactNarrows DEF V
  <2> QED
    BY <1>2, <1>4, <1>8, <2>1
<1>9. ASSUME NEW k \in pending, \A j \in pending : k <= j,
             PDescend([Phase(k) EXCEPT !.place = left], AlongTransition(PTop, k, left))
      PROVE  Goal
  <2> DEFINE fr == [Phase(k) EXCEPT !.place = left]
  <2>1. k \in 1..Len(Transitions) /\ k \in Nat
    BY <1>1, <1>5
  <2>2. /\ fr.formula = f /\ fr.loc = PTop.loc /\ fr.zone = PTop.zone
        /\ fr.place = left /\ fr.next = k
    BY <1>1 DEF Phase, PlaceFrame
  <2> HIDE DEF fr
  <2>3. ASSUME NEW j \in 1..(k - 1), NEW p \in left \cap PTop.zone
        PROVE  Passed(V, f.quant, PTop.loc, j, p)
    <3>1. j \in 1..Len(Transitions) /\ j < k /\ j \in Nat
      BY <1>1, <2>1
    <3>2. j \notin pending
      BY <1>9, <2>1, <3>1
    <3> QED
      BY <1>4, <3>1, <3>2
  <2>4. PKept(V, fr)
    BY <1>3, <2>2, <2>3 DEF PKept
  <2>5. PAsked(pes, fr) = AlongTransition(PTop, k, left)
    BY <1>3, <2>2 DEF PAsked, AlongTransition
  <2>6. PKept(V, AlongTransition(PTop, k, left))
    BY FreshCallKept DEF AlongTransition
  <2>7. Stronger(V, fr)
    BY <1>4, <2>2 DEF Stronger, Narrowed
  <2>8. Asks(pes, V, fr, AlongTransition(PTop, k, left))
    BY <2>4, <2>5, <2>6, <2>7 DEF Asks
  <2> QED
    BY <1>2, <1>9, <2>8 DEF fr
<1> QED
  BY <1>6, <1>7, <1>8, <1>9

LEMMA ExistactPlaces ==
    ASSUME PlaceTypeOK, pstack # << >>, NEW pes, NEW H, NEW base,
           PlaceJustified(pes, Provable(pes, H), base, pstack, place_ret),
           do_proof_place_existact
    PROVE  PlaceJustified(pes, Provable(pes, H), base, pstack', place_ret')
<1> DEFINE f == PTop.formula
           l == PTop.loc
           n == PTop.next
           place == PTop.place
           V == Provable(pes, H)
           found == IF place_ret = << >> THEN {} ELSE PTop.first \cup Answer
           pending == ExistactPending(PTop, place, n + 1)
           Goal == PlaceJustified(pes, V, base, pstack', place_ret')
           Judged(A) == \A p \in A \cap PTop.zone : <<f, l, p>> \in V
<1>1. /\ PTop \in PlaceFrame /\ f \in PlaceFormula /\ l \in Loc /\ PTop.zone \in Zone
      /\ place \in Zone /\ n \in Nat /\ PTop.first \in Zone
      /\ place_ret # << >> => Answer \in Zone
  BY TopIsFrame, AnswerIsZone
<1>2. /\ \A A \in Zone : PReturn(A) /\ Narrowed(V, PTop, A) => Goal
      /\ \A fr, c : PDescend(fr, c) /\ Asks(pes, V, fr, c) => Goal
      /\ place_ret # << >> => Narrowed(V, PAsked(pes, PTop), Answer)
      /\ PKept(V, PTop)
  BY PlaceSteps
<1>3. f.op = "EXISTACT" /\ (place_ret # << >> => n # 0)
  BY DEF do_proof_place_existact, PEntering, PResuming
<1>4. Judged(found)
  <2>1. CASE place_ret # << >>
    <3>1. n \in ExistactPending(PTop, place, 1) /\ Judged(PTop.first)
      BY <1>2, <1>3, <2>1 DEF PKept
    <3>2. Narrowed(V, AlongTransition(PTop, n,
                         GuardedPlace(Transitions[n], PTop.zone, place)), Answer)
      BY <1>2, <1>3, <2>1 DEF PAsked
    <3>3. 1 \in Nat \ {0} /\ PTop.zone \in Zone /\ place \in Zone
      BY <1>1
    <3>4. Judged(Answer)
      BY <1>1, <1>3, <3>1, <3>2, <3>3, ExistactNarrows
    <3> QED
      BY <2>1, <3>1, <3>4
  <2>2. CASE place_ret = << >>
    BY <2>2
  <2> QED
    BY <2>1, <2>2
<1>5. found \in Zone
  BY <1>1 DEF Zone
<1>6. \/ PReturn(place \cap found)
      \/ \E k \in pending :
            PDescend(PhaseKeeping(k, found),
                     AlongTransition(PTop, k, GuardedPlace(Transitions[k], PTop.zone, place)))
  BY DEF do_proof_place_existact
<1> SUFFICES Goal
  OBVIOUS
<1> HIDE DEF Goal, found, V
<1>7. CASE PReturn(place \cap found)
  <2>1. Narrowed(V, PTop, place \cap found) /\ place \cap found \in Zone
    BY <1>1, <1>4, <1>5 DEF Narrowed, Zone
  <2> QED
    BY <1>2, <1>7, <2>1
<1>8. ASSUME NEW k \in pending,
             PDescend(PhaseKeeping(k, found),
                      AlongTransition(PTop, k, GuardedPlace(Transitions[k], PTop.zone, place)))
      PROVE  Goal
  <2> DEFINE fr == PhaseKeeping(k, found)
             c == AlongTransition(PTop, k, GuardedPlace(Transitions[k], PTop.zone, place))
  <2>1. k \in Nat /\ k \in (n + 1)..Len(Transitions) /\ k \in 1..Len(Transitions)
    <3>1. Len(Transitions) \in Nat
      BY AutomatonAssumption, LenProperties
    <3>2. k \in (n + 1)..Len(Transitions)
      BY DEF ExistactPending
    <3> QED
      BY <1>1, <3>1, <3>2
  <2>2. /\ fr.formula = f /\ fr.loc = l /\ fr.zone = PTop.zone
        /\ fr.place = place /\ fr.next = k /\ fr.first = found
    BY <1>1 DEF PhaseKeeping, PlaceFrame
  <2>3. k \in ExistactPending(PTop, place, 1)
    BY <2>1 DEF ExistactPending
  <2> HIDE DEF fr
  <2>4. k \in ExistactPending(fr, place, 1)
    BY <2>2, <2>3 DEF ExistactPending
  <2>5. PKept(V, fr)
    BY <1>3, <1>4, <2>2, <2>4 DEF PKept
  <2>6. PAsked(pes, fr) = c
    BY <1>3, <2>2 DEF PAsked, AlongTransition
  <2>7. PKept(V, c)
    BY FreshCallKept DEF AlongTransition
  <2>8. Stronger(V, fr)
    BY <2>2 DEF Stronger, Narrowed
  <2>9. Asks(pes, V, fr, c)
    BY <2>5, <2>6, <2>7, <2>8 DEF Asks
  <2> QED
    BY <1>2, <1>8, <2>9 DEF fr
<1> QED
  BY <1>6, <1>7, <1>8

\* A least fixpoint that occurs below itself answers nothing, and every predicate
\* under proof what its right-hand side does.
LEMMA PredicatePlaces ==
    ASSUME PlaceTypeOK, pstack # << >>, NEW H, NEW base,
           PlaceJustified(input_pes, Provable(input_pes, H), base, pstack, place_ret),
           ~useCaching, do_proof_place_predicate, ~GfpPlaceCircularity
    PROVE  PlaceJustified(input_pes, Provable(input_pes, H), base, pstack', place_ret')
<1> DEFINE f == PTop.formula
           place == PTop.place
           V == Provable(input_pes, H)
           Goal == PlaceJustified(input_pes, V, base, pstack', place_ret')
           rhs == Child(input_pes.rhs[f.pred], place)
           fr == [Phase(1) EXCEPT !.saved = parentPlaceRef]
<1>1. /\ PTop \in PlaceFrame /\ {} \in Zone
      /\ place_ret # << >> => Answer \in Zone
  BY TopIsFrame, AnswerIsZone DEF Zone
<1>2. /\ \A A \in Zone : PReturn(A) /\ Narrowed(V, PTop, A) => Goal
      /\ \A w, c : PDescend(w, c) /\ Asks(input_pes, V, w, c) => Goal
      /\ place_ret # << >> => Narrowed(V, PAsked(input_pes, PTop), Answer)
  BY PlaceSteps
<1>3. f.op = "PREDICATE"
  BY DEF do_proof_place_predicate, KnownFalsePlaceHit, KnownTruePlaceHit,
         LfpPlaceCircularity, UnfoldPlace, LeavePlacePredicate, PEntering, PResuming
<1>4. \/ PReturn({})
      \/ PDescend(fr, rhs)
      \/ place_ret # << >> /\ PReturn(Answer)
  BY DEF do_proof_place_predicate, KnownFalsePlaceHit, KnownTruePlaceHit,
         LfpPlaceCircularity, UnfoldPlace, LeavePlacePredicate, PResuming
<1> SUFFICES Goal
  OBVIOUS
<1> HIDE DEF Goal
<1>5. CASE PReturn({})
  BY <1>1, <1>2, <1>5 DEF Narrowed
<1>6. CASE PDescend(fr, rhs)
  <2>1. /\ fr.formula = f /\ fr.loc = PTop.loc /\ fr.zone = PTop.zone
        /\ fr.place = place /\ fr.next = 1
    BY <1>1 DEF Phase, PlaceFrame
  <2> HIDE DEF fr
  <2>2. PKept(V, fr) /\ Stronger(V, fr)
    BY <1>3, <2>1 DEF PKept, Stronger, Narrowed
  <2>3. PAsked(input_pes, fr) = rhs
    BY <1>3, <2>1 DEF PAsked, Child
  <2>4. PKept(V, rhs)
    BY FreshCallKept
  <2> QED
    BY <1>2, <1>6, <2>2, <2>3, <2>4 DEF Asks
<1>7. CASE place_ret # << >> /\ PReturn(Answer)
  <2>1. Narrowed(V, PlaceCall(input_pes.rhs[f.pred], PTop.loc, PTop.zone, place), Answer)
    BY <1>2, <1>3, <1>7 DEF PAsked
  <2>2. Narrowed(V, PTop, Answer)
    BY <1>1, <1>3, <2>1, BooleanNarrows
  <2> QED
    BY <1>1, <1>2, <1>7, <2>2
<1> QED
  BY <1>4, <1>5, <1>6, <1>7

\* So one step of do_proof_place keeps it, where it can be relied on.
LEMMA PlacesKeep ==
    ASSUME PlaceTypeOK, PresetAddsNothing, NEW H, NEW base,
           PlaceJustified(input_pes, Provable(input_pes, H), base, pstack, place_ret),
           ~useCaching, do_proof_place, ~GfpPlaceCircularity,
           PTop.formula.op \notin {"EXISTS_REL", "FORALL_REL"}
    PROVE  PlaceJustified(input_pes, Provable(input_pes, H), base, pstack', place_ret')
<1>1. pstack # << >>
  BY DEF do_proof_place
<1>2. CASE do_proof_place_predicate
  BY <1>1, <1>2, PredicatePlaces
<1>3. CASE PlaceConnective
  BY <1>1, <1>3, BooleanPlaces, ClockPlaces, AllactPlaces, ExistactPlaces DEF PlaceConnective
<1>4. ~do_proof_place_exists_rel /\ ~do_proof_place_forall_rel
  BY DEF do_proof_place_exists_rel, do_proof_place_forall_rel, PEntering, PResumingAt, PResuming
<1> QED
  BY <1>2, <1>3, <1>4 DEF do_proof_place

-----------------------------------------------------------------------------
(***************************************************************************)
(* The rules that split a zone.                                            *)
(***************************************************************************)

\* Either q is p itself, or p reaches it strictly: an until that may be left
\* at q holds at p.
LEMMA UntilAt ==
    ASSUME NEW l \in Loc, NEW p \in Point, NEW q \in Later[p], NEW first, NEW second,
           q \in Inv[l] \cap second, \A r \in Later[p] : q \in Strictly[r] => r \in first
    PROVE  Until(first, second, l, p)
<1>1. q = p \/ q \in Strictly[p]
  BY StrictAssumption
<1> QED
  BY <1>1 DEF Until

\* Where the disjunction has been proved.
LEMMA OrSplits ==
    ASSUME NEW pes, NEW H, NEW fr \in Frame, fr.formula.op = "OR"
    PROVE  LET f == fr.formula
               V == Provable(pes, H)
               Here(g) == PlaceCall(g, fr.loc, fr.zone, Point)
           IN  /\ Proves(pes, H, Call(f.right, fr.loc, fr.zone)) => Proves(pes, H, fr)
               /\ \A A : Narrowed(V, Here(f.left), A) /\ fr.zone \subseteq A => Proves(pes, H, fr)
               /\ \A A, B : Narrowed(V, Here(f.left), A) /\ Narrowed(V, Here(f.right), B)
                               /\ fr.zone \subseteq B \cup A => Proves(pes, H, fr)
<1> DEFINE f == fr.formula
           V == Provable(pes, H)
           Here(g) == PlaceCall(g, fr.loc, fr.zone, Point)
<1>1. /\ f \in PlaceFormula /\ fr.loc \in Loc /\ fr.zone \in Zone /\ fr.zone \in SUBSET Point
  BY FormulasArePlaced DEF Frame, Zone
<1>2. (\A p \in fr.zone : p \in At(V, f.left, fr.loc) \cup At(V, f.right, fr.loc))
          => Proves(pes, H, fr)
  BY <1>1, StepOn DEF Proves, Follows
<1>3. \A g, A : Narrowed(V, Here(g), A) => \A p \in A \cap fr.zone : p \in At(V, g, fr.loc)
  BY <1>1, NarrowedAt
<1>4. ASSUME Proves(pes, H, Call(f.right, fr.loc, fr.zone)) PROVE Proves(pes, H, fr)
  <2>1. fr.zone \subseteq At(V, f.right, fr.loc)
    BY <1>1, <1>4, HoldsAt DEF Proves, Call
  <2> QED
    BY <1>2, <2>1
<1> DEFINE Alone == \A A : Narrowed(V, Here(f.left), A) /\ fr.zone \subseteq A
                           => Proves(pes, H, fr)
           Together == \A A, B : Narrowed(V, Here(f.left), A) /\ Narrowed(V, Here(f.right), B)
                                    /\ fr.zone \subseteq B \cup A => Proves(pes, H, fr)
           Handed == Proves(pes, H, Call(f.right, fr.loc, fr.zone)) => Proves(pes, H, fr)
<1> SUFFICES Handed /\ Alone /\ Together
  OBVIOUS
<1> HIDE DEF V, Here
<1>5. ASSUME NEW A, Narrowed(V, Here(f.left), A), fr.zone \subseteq A PROVE Proves(pes, H, fr)
  BY <1>2, <1>3, <1>5
<1>7. Handed
  BY <1>4
<1>8. Alone
  BY <1>5
<1>9. Together
  <2> SUFFICES ASSUME NEW A, NEW B, Narrowed(V, Here(f.left), A), Narrowed(V, Here(f.right), B),
                      fr.zone \subseteq B \cup A
               PROVE  Proves(pes, H, fr)
    OBVIOUS
  <2>1. \A p \in A \cap fr.zone : p \in At(V, f.left, fr.loc)
    BY <1>3
  <2>2. \A p \in B \cap fr.zone : p \in At(V, f.right, fr.loc)
    BY <1>3
  <2> QED
    BY <1>2, <2>1, <2>2
<1> HIDE DEF Handed, Alone, Together
<1> QED
  BY <1>7, <1>8, <1>9

\* What an answer to a call after a delay says.
Waited(f, l, z, place) == PlaceCall(f, l, Successors(z), place)

LEMMA WaitedAt ==
    ASSUME NEW V, NEW f, NEW l, NEW z \in Zone, NEW place, NEW A,
           Narrowed(V, Waited(f, l, z, place), A)
    PROVE  /\ A \subseteq place
           /\ \A p \in z : \A q \in Later[p] \cap A : q \in At(V, f, l)
<1>1. Successors(z) \in Zone
  BY TimeIsZone
<1>2. A \subseteq place /\ \A q \in A \cap Successors(z) : q \in At(V, f, l)
  BY <1>1, NarrowedAt DEF Waited
<1>3. \A p \in z : Later[p] \subseteq Successors(z)
  BY DEF Successors
<1> QED
  BY <1>2, <1>3

LEMMA ExistsSplits ==
    ASSUME NEW pes, NEW H, NEW fr \in Frame, fr.formula.op = "EXISTS", NEW A,
           Narrowed(Provable(pes, H), Waited(fr.formula.quant, fr.loc, fr.zone, Inv[fr.loc]), A),
           fr.zone \subseteq Predecessors(A)
    PROVE  Proves(pes, H, fr)
<1> DEFINE f == fr.formula
           V == Provable(pes, H)
<1>1. /\ f \in PlaceFormula /\ fr.loc \in Loc /\ fr.zone \in Zone /\ fr.zone \in SUBSET Point
  BY FormulasArePlaced DEF Frame, Zone
<1>2. /\ A \subseteq Inv[fr.loc]
      /\ \A p \in fr.zone : \A q \in Later[p] \cap A : q \in At(V, f.quant, fr.loc)
  BY <1>1, WaitedAt
<1> HIDE DEF V
<1>3. \A p \in fr.zone : Later[p] \cap Inv[fr.loc] \cap At(V, f.quant, fr.loc) # {}
  BY <1>2 DEF Predecessors
<1> QED
  BY <1>1, <1>3, StepOn DEF Proves, Follows, V

\* phi_2 (A2) after a delay, phi_1 (A1) until then.
LEMMA ExistsRelSplits ==
    ASSUME NEW pes, NEW H, NEW fr \in Frame, fr.formula.op = "EXISTS_REL",
           NEW A1 \in Zone, NEW A2 \in Zone,
           Narrowed(Provable(pes, H), Waited(fr.formula.right, fr.loc, fr.zone, Inv[fr.loc]), A2),
           Narrowed(Provable(pes, H), Waited(fr.formula.left, fr.loc, fr.zone, Point), A1),
           \/ fr.zone \subseteq A2 \cap fr.zone
           \/ fr.zone \subseteq Predecessors(establish_exists_rel_sidecondition(fr.zone, A1, A2))
    PROVE  Proves(pes, H, fr)
<1> DEFINE f == fr.formula
           l == fr.loc
           V == Provable(pes, H)
           left == At(V, f.left, l)
           right == At(V, f.right, l)
<1>1. /\ f \in PlaceFormula /\ l \in Loc /\ fr.zone \in Zone /\ fr.zone \in SUBSET Point
  BY FormulasArePlaced DEF Frame, Zone
<1>2. /\ A2 \subseteq Inv[l]
      /\ \A p \in fr.zone : \A q \in Later[p] \cap A2 : q \in right
      /\ \A p \in fr.zone : \A q \in Later[p] \cap A1 : q \in left
  <2>1. A2 \subseteq Inv[l] /\ \A p \in fr.zone : \A q \in Later[p] \cap A2 : q \in right
    BY <1>1, WaitedAt
  <2>2. \A p \in fr.zone : \A q \in Later[p] \cap A1 : q \in left
    BY <1>1, WaitedAt
  <2> QED
    BY <2>1, <2>2
<1>3. (\A p \in fr.zone : Until(left, right, l, p)) => Proves(pes, H, fr)
  BY <1>1, StepOn DEF Proves, Follows
<1> HIDE DEF left, right, V
<1>4. CASE fr.zone \subseteq A2 \cap fr.zone
  <2>1. \A p \in fr.zone : p \in Later[p]
    BY <1>1, TimeAssumption
  <2>2. \A p \in fr.zone : p \in Inv[l] \cap right
    BY <1>2, <1>4, <2>1
  <2> QED
    BY <1>3, <2>2 DEF Until
<1>5. CASE fr.zone \subseteq Predecessors(establish_exists_rel_sidecondition(fr.zone, A1, A2))
  <2>1. ASSUME NEW p \in fr.zone PROVE Until(left, right, l, p)
    <3>1. PICK q \in Later[p] : q \in establish_exists_rel_sidecondition(fr.zone, A1, A2)
      BY <1>5 DEF Predecessors
    <3>2. q \in A2 /\ \A r \in Successors(fr.zone) : q \in Strictly[r] => r \in A1
      BY <1>1, <3>1, ExistsRelSideConditionExact
    <3>3. q \in Inv[l] \cap right
      BY <1>2, <3>2
    <3>4. \A r \in Later[p] : q \in Strictly[r] => r \in left
      BY <1>2, <3>2 DEF Successors
    <3> QED
      BY <1>1, <3>3, <3>4, UntilAt
  <2> QED
    BY <1>3, <2>1
<1> QED
  BY <1>4, <1>5

\* phi_2 for ever, or until phi_1: A1 is the answer for phi_1, A2 for phi_2.
LEMMA ForallRelSplits ==
    ASSUME NEW pes, NEW H, NEW fr \in Frame, fr.formula.op = "FORALL_REL", NEW A1 \in Zone,
           Narrowed(Provable(pes, H), Waited(fr.formula.left, fr.loc, fr.zone, Inv[fr.loc]), A1)
    PROVE  /\ Proves(pes, H, Call(fr.formula.right, fr.loc, Elapse(fr.zone, fr.loc)))
                 => Proves(pes, H, fr)
           /\ fr.zone \subseteq A1 /\ Proves(pes, H, Call(fr.formula.right, fr.loc, fr.zone))
                 => Proves(pes, H, fr)
           /\ \A A2 \in Zone :
                 /\ Narrowed(Provable(pes, H),
                             Waited(fr.formula.right, fr.loc, fr.zone, Inv[fr.loc]), A2)
                 /\ \/ Successors(fr.zone) \subseteq A2
                    \/ fr.zone \subseteq ForeverOrUntil(fr.zone, fr.loc, A1, A2)
                 => Proves(pes, H, fr)
<1> DEFINE f == fr.formula
           l == fr.loc
           V == Provable(pes, H)
           left == At(V, f.left, l)
           right == At(V, f.right, l)
           Both(p) == Until(right, left \cap right, l, p)
<1>1. /\ f \in PlaceFormula /\ l \in Loc /\ fr.zone \in Zone /\ fr.zone \in SUBSET Point
      /\ Elapse(fr.zone, l) \in SUBSET Point
  BY FormulasArePlaced, ElapseIsZone DEF Frame, Zone
<1>2. /\ A1 \subseteq Inv[l]
      /\ \A p \in fr.zone : \A q \in Later[p] \cap A1 : q \in left
  BY <1>1, WaitedAt
<1>3. (\A p \in fr.zone : Later[p] \cap Inv[l] \subseteq right \/ Both(p)) => Proves(pes, H, fr)
  BY <1>1, StepOn DEF Proves, Follows
<1>4. \A p \in fr.zone : p \in Later[p]
  BY <1>1, TimeAssumption
<1>5. ASSUME Proves(pes, H, Call(f.right, l, Elapse(fr.zone, l))) PROVE Proves(pes, H, fr)
  <2>1. Elapse(fr.zone, l) \subseteq right
    BY <1>1, <1>5, HoldsAt DEF Proves, Call
  <2>2. \A p \in fr.zone : Later[p] \cap Inv[l] \subseteq Elapse(fr.zone, l)
    BY DEF Elapse
  <2> HIDE DEF right, V
  <2>3. \A p \in fr.zone : Later[p] \cap Inv[l] \subseteq right
    BY <2>1, <2>2
  <2> QED
    BY <1>3, <2>3
<1>6. ASSUME fr.zone \subseteq A1, Proves(pes, H, Call(f.right, l, fr.zone))
      PROVE  Proves(pes, H, fr)
  <2>1. fr.zone \subseteq right
    BY <1>1, <1>6, HoldsAt DEF Proves, Call
  <2>2. \A p \in fr.zone : p \in Inv[l] \cap (left \cap right)
    BY <1>2, <1>4, <1>6, <2>1
  <2>3. \A p \in fr.zone : Both(p)
    BY <2>2 DEF Until
  <2> QED
    BY <1>3, <2>3
<1>7. ASSUME NEW A2 \in Zone, Narrowed(V, Waited(f.right, l, fr.zone, Inv[l]), A2)
      PROVE  /\ A2 \subseteq Inv[l]
             /\ \A p \in fr.zone : \A q \in Later[p] \cap A2 : q \in right
  BY <1>1, <1>7, WaitedAt
<1> HIDE DEF left, right, V
<1>8. ASSUME NEW A2 \in Zone, Narrowed(V, Waited(f.right, l, fr.zone, Inv[l]), A2),
             Successors(fr.zone) \subseteq A2
      PROVE  Proves(pes, H, fr)
  <2>1. \A p \in fr.zone : Later[p] \subseteq right
    BY <1>7, <1>8 DEF Successors
  <2> QED
    BY <1>3, <2>1
<1>9. ASSUME NEW A2 \in Zone, Narrowed(V, Waited(f.right, l, fr.zone, Inv[l]), A2),
             fr.zone \subseteq ForeverOrUntil(fr.zone, l, A1, A2)
      PROVE  Proves(pes, H, fr)
  <2>1. A2 \cap A1 \in Zone
    BY DEF Zone
  <2>2. ASSUME NEW p \in fr.zone, p \in establish_forall_place_sidecondition(fr.zone, l, A2)
        PROVE  Later[p] \cap Inv[l] \subseteq right
    BY <1>1, <1>7, <1>9, <2>2, ForallSideConditionExact
  <2>3. ASSUME NEW p \in fr.zone,
               p \in Predecessors(establish_exists_rel_sidecondition(fr.zone, A2, A2 \cap A1))
        PROVE  Both(p)
    <3>1. PICK q \in Later[p] : q \in establish_exists_rel_sidecondition(fr.zone, A2, A2 \cap A1)
      BY <2>3 DEF Predecessors
    <3>2. q \in A2 \cap A1 /\ \A r \in Successors(fr.zone) : q \in Strictly[r] => r \in A2
      BY <1>1, <2>1, <3>1, ExistsRelSideConditionExact
    <3>3. q \in Inv[l] \cap (left \cap right)
      BY <1>2, <1>7, <1>9, <3>2
    <3>4. \A r \in Later[p] : q \in Strictly[r] => r \in right
      BY <1>7, <1>9, <3>2 DEF Successors
    <3> QED
      BY <1>1, <3>3, <3>4, UntilAt
  <2> QED
    BY <1>3, <1>9, <2>2, <2>3 DEF ForeverOrUntil
<1> QED
  BY <1>5, <1>6, <1>8, <1>9 DEF V

-----------------------------------------------------------------------------
(***************************************************************************)
(* The formulas of the two searches.                                       *)
(***************************************************************************)

\* A formula to be placed, or what a transition makes of one.
InPlaced(placed, f) ==
    \/ f \in placed
    \/ f.op \in {"SUBLIST", "RESET"} /\ f.expr \in placed
    \/ f.op \in {"SUBLIST", "RESET"} /\ f.expr.op = "SUBLIST" /\ f.expr.expr \in placed
AllPlaced(s, placed) == \A i \in 1..Len(s) : InPlaced(placed, s[i].formula)
AllSearched(s, searched) == \A i \in 1..Len(s) : s[i].formula \in searched

LEMMA NewTransIsPlaced ==
    ASSUME NEW placed, NEW f \in placed, NEW k
    PROVE  InPlaced(placed, NewTrans(Transitions[k], f))
<1> DEFINE moved == [op |-> "SUBLIST", map |-> Transitions[k].dest, expr |-> f]
           reset == [op |-> "RESET", map |-> Transitions[k].reset, expr |-> moved]
<1>1. moved.op = "SUBLIST" /\ moved.expr = f /\ reset.op = "RESET" /\ reset.expr = moved
  OBVIOUS
<1>2. NewTrans(Transitions[k], f) \in {moved, reset}
  BY DEF NewTrans
<1> HIDE DEF moved, reset
<1> QED
  BY <1>1, <1>2 DEF InPlaced

\* The calls of do_proof_place below one for f.
PChildren(pes, f) ==
    (IF f.op = "PREDICATE" THEN {pes.rhs[f.pred]} ELSE Operands(f))
        \cup {NewTrans(Transitions[k], f.quant) :
                k \in IF f.op \in {"ALLACT", "EXISTACT"} THEN 1..Len(Transitions) ELSE {}}

LEMMA ChildIsPlaced ==
    ASSUME NEW pes, NEW placed, Hereditary(pes, placed), NEW f, InPlaced(placed, f),
           NEW g \in PChildren(pes, f)
    PROVE  InPlaced(placed, g)
<1>1. CASE f \in placed
  <2>1. CASE f.op = "PREDICATE"
    BY <1>1, <2>1 DEF Hereditary, PChildren, InPlaced
  <2>2. CASE f.op # "PREDICATE"
    <3>1. Operands(f) \subseteq placed
      BY <1>1, <2>2 DEF Hereditary
    <3>2. f.op \in {"ALLACT", "EXISTACT"} => f.quant \in placed
      BY <3>1 DEF Operands
    <3>3. CASE g \in Operands(f)
      BY <3>1, <3>3 DEF InPlaced
    <3>4. CASE g \notin Operands(f)
      <4>1. PICK k : f.op \in {"ALLACT", "EXISTACT"} /\ g = NewTrans(Transitions[k], f.quant)
        BY <2>2, <3>4 DEF PChildren
      <4> QED
        BY <3>2, <4>1, NewTransIsPlaced
    <3> QED
      BY <3>3, <3>4
  <2> QED
    BY <2>1, <2>2
<1>2. CASE f.op \in {"SUBLIST", "RESET"}
  <2>1. g = f.expr
    BY <1>2 DEF PChildren, Operands
  <2>2. CASE f \in placed
    BY <1>1, <2>2
  <2>3. CASE f \notin placed
    BY <2>1, <2>3 DEF InPlaced
  <2> QED
    BY <2>2, <2>3
<1> QED
  BY <1>1, <1>2 DEF InPlaced

\* A step of do_proof_place returns or calls for a child.
PlaceAsks ==
    LET children == PChildren(input_pes, PTop.formula)
    IN  \/ \E A : PReturn(A)
        \/ \E fr, c : /\ PDescend(fr, c)
                      /\ fr.formula = PTop.formula
                      /\ c.formula \in children
        \/ \E c : PTailCall(c) /\ c.formula \in children

LEMMA PlaceChildren ==
    ASSUME PlaceTypeOK, do_proof_place, PTop.formula.op \notin {"EXISTS_REL", "FORALL_REL"}
    PROVE  PlaceAsks
<1> DEFINE f == PTop.formula
           children == PChildren(input_pes, f)
           Goal == PlaceAsks
<1>1. pstack # << >> /\ PTop \in PlaceFrame
  BY TopIsFrame DEF do_proof_place
<1>2. \A A : PReturn(A) => Goal
  BY DEF PlaceAsks
<1>3. \A fr, c : PDescend(fr, c) /\ fr.formula = f /\ c.formula \in children => Goal
  BY DEF PlaceAsks
<1>4. \A c : PTailCall(c) /\ c.formula \in children => Goal
  BY DEF PlaceAsks
<1>5. \A k, A : /\ Phase(k).formula = f
                /\ PhaseKeeping(k, A).formula = f
                /\ [Phase(k) EXCEPT !.place = A].formula = f
                /\ [Phase(k) EXCEPT !.saved = A].formula = f
  BY <1>1 DEF Phase, PhaseKeeping, PlaceFrame
<1>6. \A g, A, l, z : /\ Child(g, A).formula = g
                      /\ Delayed(g, A).formula = g
                      /\ MovedChild(g, A, l).formula = g
                      /\ RestrictedChild(g, A, z).formula = g
  BY DEF Child, Delayed, PlaceCall, MovedChild, RestrictedChild
<1>7. /\ f.op \in {"AND", "OR", "OR_SIMPLE"} => f.left \in children /\ f.right \in children
      /\ f.op = "IMPLY" => f.right \in children
      /\ f.op \in {"SUBLIST", "RESET"} => f.expr \in children
      /\ f.op \in {"FORALL", "EXISTS"} => f.quant \in children
      /\ f.op = "PREDICATE" => input_pes.rhs[f.pred] \in children
  BY DEF PChildren, Operands
<1>8. ASSUME f.op \in {"ALLACT", "EXISTACT"}, NEW k \in 1..Len(Transitions), NEW place
      PROVE  AlongTransition(PTop, k, place).formula \in children
  BY <1>8 DEF AlongTransition, PlaceCall, PChildren
<1>9. PTop.next \in Nat /\ Len(Transitions) \in Nat
  BY <1>1, TopIsFrame, AutomatonAssumption, LenProperties
<1> SUFFICES Goal
  OBVIOUS
<1> HIDE DEF Goal, children
<1>10. CASE do_proof_place_predicate
  <2>1. f.op = "PREDICATE"
    BY <1>10 DEF do_proof_place_predicate, KnownFalsePlaceHit, KnownTruePlaceHit,
                 GfpPlaceCircularity, LfpPlaceCircularity, UnfoldPlace, LeavePlacePredicate,
                 PEntering, PResuming
  <2>2. CASE UnfoldPlace
    <3> DEFINE fr == [Phase(1) EXCEPT !.saved = parentPlaceRef]
               c == Child(input_pes.rhs[f.pred], PTop.place)
    <3>1. PDescend(fr, c)
      BY <2>2 DEF UnfoldPlace
    <3>2. fr.formula = f
      BY <1>5
    <3>3. c.formula \in children
      BY <1>6, <1>7, <2>1
    <3> HIDE DEF fr, c
    <3> QED
      BY <1>3, <3>1, <3>2, <3>3
  <2>3. CASE ~UnfoldPlace
    BY <1>2, <1>10, <2>3 DEF do_proof_place_predicate, KnownFalsePlaceHit, KnownTruePlaceHit,
                 GfpPlaceCircularity, LfpPlaceCircularity, LeavePlacePredicate
  <2> QED
    BY <2>2, <2>3
<1>11. CASE do_proof_place_and \/ do_proof_place_or \/ do_proof_place_or_simple
  <2>1. f.op \in {"AND", "OR", "OR_SIMPLE"}
    BY <1>11 DEF do_proof_place_and, do_proof_place_or, do_proof_place_or_simple, PEntering,
                 PResuming, PResumingAt
  <2>2. \/ \E A : PReturn(A)
        \/ \E k, A, place : \/ PDescend(Phase(k), Child(f.left, place))
                            \/ PDescend(PhaseKeeping(k, A), Child(f.right, place))
                            \/ PTailCall(Child(f.right, place))
    BY <1>11 DEF do_proof_place_and, do_proof_place_or, do_proof_place_or_simple
  <2> QED
    BY <1>2, <1>3, <1>4, <1>5, <1>6, <1>7, <2>1, <2>2
<1>12. CASE do_proof_place_imply \/ do_proof_place_sublist \/ do_proof_place_reset
  <2>1. CASE do_proof_place_imply
    <3>1. f.op = "IMPLY"
      BY <2>1 DEF do_proof_place_imply, PEntering
    <3>2. \/ \E A : PReturn(A)
          \/ \E z : PTailCall(RestrictedChild(f.right, PTop.place, z))
      BY <2>1 DEF do_proof_place_imply, RestrictedChild
    <3> QED
      BY <1>2, <1>4, <1>6, <1>7, <3>1, <3>2
  <2>2. CASE do_proof_place_sublist
    <3>1. f.op = "SUBLIST"
      BY <2>2 DEF do_proof_place_sublist, PEntering
    <3>2. \E l : PTailCall(MovedChild(f.expr, PTop.place, l))
      BY <2>2 DEF do_proof_place_sublist, MovedChild
    <3> QED
      BY <1>4, <1>6, <1>7, <3>1, <3>2
  <2>3. CASE do_proof_place_reset
    <3>1. f.op = "RESET"
      BY <2>3 DEF do_proof_place_reset, PEntering, PResuming
    <3>2. \/ \E A : PReturn(A)
          \/ \E z : PDescend(Phase(1), RestrictedChild(f.expr, Point, z))
      BY <2>3 DEF do_proof_place_reset, RestrictedChild
    <3> QED
      BY <1>2, <1>3, <1>5, <1>6, <1>7, <3>1, <3>2
  <2> QED
    BY <1>12, <2>1, <2>2, <2>3
<1>13. CASE do_proof_place_constraint \/ do_proof_place_atomic \/ do_proof_place_ablewaitinf
  BY <1>2, <1>13 DEF do_proof_place_constraint, do_proof_place_atomic, do_proof_place_ablewaitinf
<1>14. CASE do_proof_place_forall \/ do_proof_place_exists
  BY <1>2, <1>3, <1>5, <1>6, <1>7, <1>14
     DEF do_proof_place_forall, do_proof_place_exists, PEntering, PResuming
<1>15. CASE do_proof_place_allact
  <2>1. f.op = "ALLACT"
    BY <1>15 DEF do_proof_place_allact, PEntering, PResuming
  <2>2. \A left : AllactPending(left, PTop.next + 1) \subseteq 1..Len(Transitions)
    BY <1>9 DEF AllactPending
  <2>3. \/ \E A : PReturn(A)
        \/ \E left : \E k \in AllactPending(left, PTop.next + 1) :
              PDescend([Phase(k) EXCEPT !.place = left], AlongTransition(PTop, k, left))
    BY <1>15 DEF do_proof_place_allact
  <2> QED
    BY <1>2, <1>3, <1>5, <1>8, <2>1, <2>2, <2>3
<1>16. CASE do_proof_place_existact
  <2>1. f.op = "EXISTACT"
    BY <1>16 DEF do_proof_place_existact, PEntering, PResuming
  <2>2. ExistactPending(PTop, PTop.place, PTop.next + 1) \subseteq 1..Len(Transitions)
    BY <1>9 DEF ExistactPending
  <2>3. \/ \E A : PReturn(A)
        \/ \E found : \E k \in ExistactPending(PTop, PTop.place, PTop.next + 1) : \E place :
              PDescend(PhaseKeeping(k, found), AlongTransition(PTop, k, place))
    BY <1>16 DEF do_proof_place_existact
  <2> QED
    BY <1>2, <1>3, <1>5, <1>8, <2>1, <2>2, <2>3
<1>17. ~do_proof_place_exists_rel /\ ~do_proof_place_forall_rel
  BY DEF do_proof_place_exists_rel, do_proof_place_forall_rel, PEntering, PResumingAt, PResuming
<1> QED
  BY <1>10, <1>11, <1>12, <1>13, <1>14, <1>15, <1>16, <1>17 DEF do_proof_place, PlaceConnective

LEMMA StaysPlaced ==
    ASSUME PlaceTypeOK, pstack # << >>, NEW placed, Hereditary(input_pes, placed),
           AllPlaced(pstack, placed), PlaceAsks
    PROVE  AllPlaced(pstack', placed)
<1> DEFINE n == Len(pstack)
           children == PChildren(input_pes, PTop.formula)
           Goal == AllPlaced(pstack', placed)
<1>1. n \in Nat \ {0} /\ PTop = pstack[n] /\ n \in 1..n
  <2>1. n \in Nat \ {0} /\ PTop = pstack[n]
    BY TopIsLast
  <2> QED
    BY <2>1
<1>2. /\ \A i \in 1..(n - 1) : InPlaced(placed, pstack[i].formula)
      /\ InPlaced(placed, PTop.formula)
  BY <1>1 DEF AllPlaced
<1>3. \A g \in children : InPlaced(placed, g)
  BY <1>2, ChildIsPlaced
<1> SUFFICES Goal
  OBVIOUS
<1> HIDE DEF children
<1>4. ASSUME NEW A, PReturn(A) PROVE Goal
  <2>1. Len(pstack') = n - 1 /\ \A i \in 1..(n - 1) : pstack'[i] = pstack[i]
    BY <1>4, PlaceStacks
  <2> QED
    BY <1>1, <1>2, <2>1 DEF AllPlaced
<1>5. ASSUME NEW fr, NEW c, PDescend(fr, c), fr.formula = PTop.formula, c.formula \in children
      PROVE  Goal
  <2>1. /\ Len(pstack') = n + 1 /\ (\A i \in 1..(n - 1) : pstack'[i] = pstack[i])
        /\ pstack'[n] = fr /\ pstack'[n + 1] = c
    BY <1>5, PlaceStacks
  <2>2. \A i \in 1..(n + 1) : i \in 1..(n - 1) \/ i = n \/ i = n + 1
    BY <1>1
  <2> QED
    BY <1>2, <1>3, <1>5, <2>1, <2>2 DEF AllPlaced
<1>6. ASSUME NEW c, PTailCall(c), c.formula \in children PROVE Goal
  <2>1. Len(pstack') = n /\ (\A i \in 1..(n - 1) : pstack'[i] = pstack[i]) /\ pstack'[n] = c
    BY <1>6, PlaceStacks
  <2>2. \A i \in 1..n : i \in 1..(n - 1) \/ i = n
    BY <1>1
  <2> QED
    BY <1>2, <1>3, <1>6, <2>1, <2>2 DEF AllPlaced
<1> HIDE DEF Goal
<1> QED
  BY <1>4, <1>5, <1>6 DEF PlaceAsks, children

\* What is above an open predicate are calls below its right-hand side.
Beneath(pes, s, below) ==
    \A i, j \in 1..Len(s) :
        /\ i < j
        /\ s[i].formula.op = "PREDICATE"
        /\ pes.rhs[s[i].formula.pred] \in below
        => InPlaced(below, s[j].formula)

LEMMA StaysBelow ==
    ASSUME PlaceTypeOK, pstack # << >>, NEW below, Hereditary(input_pes, below),
           Beneath(input_pes, pstack, below), PlaceAsks
    PROVE  Beneath(input_pes, pstack', below)
<1> DEFINE n == Len(pstack)
           children == PChildren(input_pes, PTop.formula)
           Leads(f) == f.op = "PREDICATE" /\ input_pes.rhs[f.pred] \in below
           Goal == Beneath(input_pes, pstack', below)
<1>1. n \in Nat \ {0} /\ PTop = pstack[n] /\ n \in 1..n /\ \A i \in 1..(n - 1) : i \in 1..n /\ i < n
  <2>1. n \in Nat \ {0} /\ PTop = pstack[n]
    BY TopIsLast
  <2> QED
    BY <2>1
<1>2. \A i \in 1..(n - 1), j \in 1..n :
         i < j /\ Leads(pstack[i].formula) => InPlaced(below, pstack[j].formula)
  BY <1>1 DEF Beneath
<1>3. \A g \in children : InPlaced(below, PTop.formula) => InPlaced(below, g)
  BY ChildIsPlaced
<1>4. \A g \in children : Leads(PTop.formula) => InPlaced(below, g)
  BY DEF PChildren, InPlaced, Operands
<1>5. \A i \in 1..(n - 1), g \in children : Leads(pstack[i].formula) => InPlaced(below, g)
  BY <1>1, <1>2, <1>3
<1> SUFFICES Goal
  OBVIOUS
<1> HIDE DEF children
<1>6. ASSUME NEW A, PReturn(A) PROVE Goal
  <2>1. Len(pstack') = n - 1 /\ \A i \in 1..(n - 1) : pstack'[i] = pstack[i]
    BY <1>6, PlaceStacks
  <2> QED
    BY <1>1, <1>2, <2>1 DEF Beneath
<1>7. ASSUME NEW fr, NEW c, PDescend(fr, c), fr.formula = PTop.formula, c.formula \in children
      PROVE  Goal
  <2>1. /\ Len(pstack') = n + 1 /\ (\A i \in 1..(n - 1) : pstack'[i] = pstack[i])
        /\ pstack'[n] = fr /\ pstack'[n + 1] = c
    BY <1>7, PlaceStacks
  <2>2. \A i, j \in 1..(n + 1) : i < j => \/ i \in 1..(n - 1) /\ j \in 1..(n - 1)
                                          \/ i \in 1..(n - 1) /\ j = n
                                          \/ i \in 1..(n - 1) /\ j = n + 1
                                          \/ i = n /\ j = n + 1
    BY <1>1
  <2>3. ASSUME NEW i \in 1..(n + 1), NEW j \in 1..(n + 1), i < j, Leads(pstack'[i].formula)
        PROVE  InPlaced(below, pstack'[j].formula)
    <3>1. CASE i \in 1..(n - 1) /\ j \in 1..(n - 1)
      BY <1>1, <1>2, <2>1, <2>3, <3>1
    <3>2. CASE i \in 1..(n - 1) /\ j = n
      BY <1>1, <1>2, <1>7, <2>1, <2>3, <3>2
    <3>3. CASE i \in 1..(n - 1) /\ j = n + 1
      BY <1>5, <1>7, <2>1, <2>3, <3>3
    <3>4. CASE i = n /\ j = n + 1
      BY <1>4, <1>7, <2>1, <2>3, <3>4
    <3> QED
      BY <2>2, <2>3, <3>1, <3>2, <3>3, <3>4
  <2> QED
    BY <2>1, <2>3 DEF Beneath
<1>8. ASSUME NEW c, PTailCall(c), c.formula \in children PROVE Goal
  <2>1. Len(pstack') = n /\ (\A i \in 1..(n - 1) : pstack'[i] = pstack[i]) /\ pstack'[n] = c
    BY <1>8, PlaceStacks
  <2>2. \A i, j \in 1..n : i < j => i \in 1..(n - 1) /\ (j \in 1..(n - 1) \/ j = n)
    BY <1>1
  <2>3. ASSUME NEW i \in 1..n, NEW j \in 1..n, i < j, Leads(pstack'[i].formula)
        PROVE  InPlaced(below, pstack'[j].formula)
    <3>1. CASE j \in 1..(n - 1)
      BY <1>2, <2>1, <2>2, <2>3, <3>1
    <3>2. CASE j = n
      BY <1>5, <1>8, <2>1, <2>2, <2>3, <3>2
    <3> QED
      BY <2>2, <2>3, <3>1, <3>2
  <2> QED
    BY <2>1, <2>3 DEF Beneath
<1> HIDE DEF Goal
<1> QED
  BY <1>6, <1>7, <1>8 DEF PlaceAsks, children

LEMMA NothingBelow ==
    ASSUME NEW pes, NEW below
    PROVE  Beneath(pes, << >>, below) /\ \A c : Beneath(pes, <<c>>, below)
<1>1. Len(<< >>) = 0 /\ 1..0 = {} /\ \A c : Len(<<c>>) = 1
  OBVIOUS
<1>2. \A i, j \in 1..1 : ~(i < j)
  OBVIOUS
<1> QED
  BY <1>1, <1>2 DEF Beneath

\* So a greatest fixpoint that does not lead back to itself never finds itself
\* under proof.
LEMMA NoCircularity ==
    ASSUME TypeOK, PlaceTypeOK, pstack # << >>, OwnNumbers, PlaceCyclesAreOpenCalls,
           PTop.formula.op = "PREDICATE" /\ IsGfp(PTop) => Once(input_pes, PTop.formula.pred),
           \A below \in SUBSET Formula :
              Hereditary(input_pes, below) => Beneath(input_pes, pstack, below)
    PROVE  ~GfpPlaceCircularity
<1> SUFFICES ASSUME GfpPlaceCircularity PROVE FALSE
  OBVIOUS
<1> DEFINE n == Len(pstack)
           X == PTop.formula.pred
<1>1. PTop.formula.op = "PREDICATE" /\ PTop.next = 0 /\ IsGfp(PTop)
      /\ GfpPlaceCycle(pbin, PTop.zone, PTop.place)
  BY DEF GfpPlaceCircularity, PEntering
<1>2. n \in Nat \ {0} /\ PTop = pstack[n] /\ n \in 1..n /\ DOMAIN pstack = 1..n
      /\ PTop \in PlaceFrame
  <2>1. n \in Nat \ {0} /\ PTop = pstack[n] /\ DOMAIN pstack = 1..n
    BY TopIsLast, PlaceStacks
  <2> QED
    BY <2>1, TopIsFrame
<1>3. PICK below \in SUBSET Formula :
         /\ Hereditary(input_pes, below) /\ input_pes.rhs[X] \in below
         /\ \A g \in below : g.op = "PREDICATE" => g.pred # X
  BY <1>1 DEF Once, Avoids
<1>4. pbin \in Bin /\ X \in Predicate
  BY <1>1, <1>2, PlacePredicateTop, PlaceFormulas, FormulaAssumption DEF PlaceFrame
<1>5. PICK i \in POpenIn(TRUE, pbin) : TRUE
  <2>1. Pushed(Xlist_pGFP_ph[pbin].dbms) # {}
    BY <1>1 DEF GfpPlaceCycle, tabled_place_gfp
  <2>2. Pushed(PlaceCycle(TRUE, pbin)) =
           {Pair(pstack[j].zone, pstack[j].place) : j \in POpenIn(TRUE, pbin)}
    BY <1>4 DEF PlaceCyclesAreOpenCalls
  <2> QED
    BY <2>1, <2>2 DEF PlaceCycle
<1>6. i \in 1..n /\ POpen(pstack[i]) /\ BinOf(pstack[i]) = pbin
  BY <1>2, <1>5 DEF POpenIn
<1>7. i < n
  BY <1>1, <1>2, <1>6 DEF POpen
<1>8. pstack[i].formula.op = "PREDICATE" /\ pstack[i].formula.pred = X
  <2>1. pstack[i] \in PlaceFrame /\ pstack[i].formula.op = "PREDICATE"
    BY <1>6, ElementOfSeq DEF PlaceTypeOK, POpen
  <2>2. pstack[i].formula.pred \in Predicate
    BY <2>1, PlaceFormulas, FormulaAssumption DEF PlaceFrame
  <2>3. input_pes.block[pstack[i].formula.pred] = input_pes.block[X]
    BY <1>6 DEF pbin, BinOf, get_index
  <2> QED
    BY <1>4, <2>1, <2>2, <2>3 DEF OwnNumbers
<1>9. InPlaced(below, PTop.formula)
  BY <1>2, <1>3, <1>6, <1>7, <1>8 DEF Beneath
<1> QED
  BY <1>1, <1>3, <1>9 DEF InPlaced

\* Likewise for do_proof, and for a rule that starts to wait for a placeholder.
Children(pes, f) == IF f.op = "PREDICATE" THEN {pes.rhs[f.pred]} ELSE Operands(f)
SearchMoves ==
    LET children == Children(input_pes, Top.formula)
    IN  \/ Popped
        \/ \E c : Replaced(c) /\ c.formula \in children \cup {Top.formula}
        \/ \E fr, c : Waits(fr, c) /\ fr.formula = Top.formula /\ c.formula \in children

LEMMA MovesOfStack ==
    ASSUME stack \in Seq(Frame), stack # << >>
    PROVE  LET n == Len(stack)
               Keeps == \A i \in 1..(n - 1) : stack'[i] = stack[i]
           IN  /\ n \in Nat \ {0} /\ Top = stack[n]
               /\ Popped => Len(stack') = n - 1 /\ Keeps
               /\ \A c : Replaced(c) => Len(stack') = n /\ Keeps /\ stack'[n] = c
               /\ \A fr, c : Waits(fr, c) => /\ Len(stack') = n + 1 /\ Keeps
                                             /\ stack'[n] = fr /\ stack'[n + 1] = c
<1> DEFINE n == Len(stack)
           Keeps == \A i \in 1..(n - 1) : stack'[i] = stack[i]
<1>1. n \in Nat \ {0} /\ Top = stack[n]
  BY StackNonempty DEF Top
<1>2. ASSUME NEW c
      PROVE  LET s == [stack EXCEPT ![n] = c]
             IN  /\ s \in Seq(Frame \cup {c}) /\ Len(s) = n
                 /\ \A i \in 1..(n - 1) : s[i] = stack[i]
                 /\ s[n] = c
  <2>1. stack \in Seq(Frame \cup {c})
    OBVIOUS
  <2> DEFINE S == Frame \cup {c}
  <2>2. stack \in Seq(S) /\ c \in S
    BY <2>1
  <2> HIDE DEF S
  <2>3. LET s == [stack EXCEPT ![n] = c]
        IN  /\ s \in Seq(S) /\ Len(s) = n
            /\ \A i \in 1..(n - 1) : s[i] = stack[i]
            /\ s[n] = c
    BY <2>2, ReplaceLast
  <2> QED
    BY <2>3 DEF S
<1>3. ASSUME Popped PROVE Len(stack') = n - 1 /\ Keeps
  BY <1>3, PoppedStack
<1>4. ASSUME NEW c, Replaced(c) PROVE Len(stack') = n /\ Keeps /\ stack'[n] = c
  BY <1>2, <1>4 DEF Replaced
<1>5. ASSUME NEW fr, NEW c, Waits(fr, c)
      PROVE  Len(stack') = n + 1 /\ Keeps /\ stack'[n] = fr /\ stack'[n + 1] = c
  <2> DEFINE s == [stack EXCEPT ![n] = fr]
             S == Frame \cup {fr} \cup {c}
  <2>1. /\ s \in Seq(Frame \cup {fr}) /\ Len(s) = n
        /\ \A i \in 1..(n - 1) : s[i] = stack[i]
        /\ s[n] = fr
    BY <1>2
  <2>2. stack' = Append(s, c)
    BY <1>5 DEF Waits
  <2> HIDE DEF s
  <2>3. s \in Seq(S) /\ c \in S
    BY <2>1
  <2> HIDE DEF S
  <2> QED
    BY <1>1, <2>1, <2>2, <2>3, PushSeq, LenProperties
<1> QED
  BY <1>1, <1>3, <1>4, <1>5

LEMMA StaysSearched ==
    ASSUME stack \in Seq(Frame), stack # << >>, NEW searched, Hereditary(input_pes, searched),
           AllSearched(stack, searched), SearchMoves
    PROVE  AllSearched(stack', searched)
<1> DEFINE n == Len(stack)
           f == Top.formula
           children == Children(input_pes, f)
           Goal == AllSearched(stack', searched)
<1>1. n \in Nat \ {0} /\ Top = stack[n] /\ n \in 1..n
  <2>1. n \in Nat \ {0} /\ Top = stack[n]
    BY MovesOfStack
  <2> QED
    BY <2>1
<1>2. (\A i \in 1..(n - 1) : stack[i].formula \in searched) /\ f \in searched
  BY <1>1 DEF AllSearched
<1>3. children \subseteq searched
  BY <1>2 DEF Hereditary, Children
<1> SUFFICES Goal
  OBVIOUS
<1>4. \/ Popped
      \/ \E c : Replaced(c) /\ c.formula \in children \cup {f}
      \/ \E fr, c : Waits(fr, c) /\ fr.formula = f /\ c.formula \in children
  BY DEF SearchMoves
<1> HIDE DEF children
<1>5. ASSUME Popped PROVE Goal
  <2>1. Len(stack') = n - 1 /\ \A i \in 1..(n - 1) : stack'[i] = stack[i]
    BY <1>5, MovesOfStack
  <2> QED
    BY <1>1, <1>2, <2>1 DEF AllSearched
<1>6. ASSUME NEW c, Replaced(c), c.formula \in children \cup {f} PROVE Goal
  <2>1. Len(stack') = n /\ (\A i \in 1..(n - 1) : stack'[i] = stack[i]) /\ stack'[n] = c
    BY <1>6, MovesOfStack
  <2>2. \A i \in 1..n : i \in 1..(n - 1) \/ i = n
    BY <1>1
  <2> QED
    BY <1>2, <1>3, <1>6, <2>1, <2>2 DEF AllSearched
<1>7. ASSUME NEW fr, NEW c, Waits(fr, c), fr.formula = f, c.formula \in children PROVE Goal
  <2>1. /\ Len(stack') = n + 1 /\ (\A i \in 1..(n - 1) : stack'[i] = stack[i])
        /\ stack'[n] = fr /\ stack'[n + 1] = c
    BY <1>7, MovesOfStack
  <2>2. \A i \in 1..(n + 1) : i \in 1..(n - 1) \/ i = n \/ i = n + 1
    BY <1>1
  <2> QED
    BY <1>2, <1>3, <1>7, <2>1, <2>2 DEF AllSearched
<1> HIDE DEF Goal
<1> QED
  BY <1>4, <1>5, <1>6, <1>7

LEMMA NextChildren ==
    ASSUME TypeOK, Next
    PROVE  SearchMoves
<1> DEFINE f == Top.formula
           children == Children(input_pes, f)
           Goal == SearchMoves
<1>1. stack # << >> /\ Top \in Frame
  BY StackNonempty DEF Next, TypeOK
<1>2. \A v : Return(v) => Goal
  BY DEF SearchMoves, Return, Popped
<1>3. ASSUME NEW g \in children, NEW l, NEW z, TailCall(Call(g, l, z)) PROVE Goal
  <2>1. Replaced(Call(g, l, z)) /\ Call(g, l, z).formula = g
    BY <1>3 DEF TailCall, Replaced, Call
  <2> QED
    BY <1>3, <2>1 DEF SearchMoves
<1>4. ASSUME NEW k, NEW c, Descend(k, c), c.formula \in children PROVE Goal
  <2> DEFINE fr == [Top EXCEPT !.next = k]
  <2>1. Waits(fr, c) /\ fr.formula = f
    BY <1>1, <1>4 DEF Descend, Waits, Top, Frame
  <2> HIDE DEF fr
  <2> QED
    BY <1>4, <2>1 DEF SearchMoves
<1>5. /\ f.op \in {"AND", "OR_SIMPLE"} => f.left \in children /\ f.right \in children
      /\ f.op = "IMPLY" => f.right \in children
      /\ f.op \in {"SUBLIST", "RESET"} => f.expr \in children
      /\ f.op \in {"FORALL", "ALLACT"} => f.quant \in children
      /\ f.op = "PREDICATE" => input_pes.rhs[f.pred] \in children
  BY DEF Children, Operands
<1>6. \A g, l, z : Call(g, l, z).formula = g
  BY DEF Call
<1>12. \A fr, c : Waits(fr, c) /\ fr.formula = f /\ c.formula \in children => Goal
  BY DEF SearchMoves
<1> SUFFICES Goal
  OBVIOUS
<1> HIDE DEF Goal, children
<1>7. CASE do_proof_predicate
  <2>1. f.op = "PREDICATE"
    BY <1>7, PredicateMoves DEF IsPredicate
  <2>2. CASE UnfoldGfp \/ UnfoldLfp
    <3> DEFINE fr == [Top EXCEPT !.next = 1, !.saved = parentRef]
               c == Call(input_pes.rhs[f.pred], Top.loc, Top.zone)
    <3>1. Waits(fr, c)
      BY <2>2, PredicateMoves DEF Unfolded
    <3>2. fr.formula = f /\ c.formula \in children
      BY <1>1, <1>5, <1>6, <2>1 DEF Frame
    <3> HIDE DEF fr, c
    <3> QED
      BY <1>12, <3>1, <3>2
  <2>3. CASE ~(UnfoldGfp \/ UnfoldLfp)
    BY <1>2, <1>7, <2>3 DEF do_proof_predicate, KnownFalseHit, KnownTrueHit, GfpCircularity,
                            LfpCircularity, LeavePredicate
  <2> QED
    BY <2>2, <2>3
<1>8. CASE do_proof_and \/ do_proof_or_simple
  <2>1. f.op \in {"AND", "OR_SIMPLE"}
    BY <1>8 DEF do_proof_and, do_proof_or_simple
  <2> QED
    BY <1>2, <1>3, <1>4, <1>5, <1>6, <1>8, <2>1 DEF do_proof_and, do_proof_or_simple
<1>9. CASE do_proof_forall \/ do_proof_imply \/ do_proof_sublist \/ do_proof_reset
  BY <1>2, <1>3, <1>5, <1>9
     DEF do_proof_forall, do_proof_imply, do_proof_sublist, do_proof_reset
<1>10. CASE do_proof_allact
  <2>1. f.op = "ALLACT" /\ \A t : AfterTransition(t).formula = f.quant
    BY <1>6, <1>10 DEF do_proof_allact, AfterTransition
  <2>2. (\E v : Return(v)) \/ (\E k, t : Descend(k, AfterTransition(t)))
    BY <1>10 DEF do_proof_allact
  <2> QED
    BY <1>2, <1>4, <1>5, <2>1, <2>2
<1>11. CASE do_proof_atomic \/ do_proof_constraint \/ do_proof_ablewaitinf
  BY <1>2, <1>11 DEF do_proof_atomic, do_proof_constraint, do_proof_ablewaitinf
<1> QED
  BY <1>7, <1>8, <1>9, <1>10, <1>11 DEF Next, Connective

-----------------------------------------------------------------------------
(***************************************************************************)
(* The whole search.                                                       *)
(***************************************************************************)

\* What a splitting rule asks for in its k-th question, and what it has found
\* out before, which it keeps in kpt.
SAsked(fr, k) ==
    LET f == fr.formula
        Wait(g, place) == Waited(g, fr.loc, fr.zone, place)
    IN  CASE f.op = "OR" -> PlaceCall(IF k = 1 THEN f.left ELSE f.right, fr.loc, fr.zone, Point)
          [] f.op = "EXISTS" -> Wait(f.quant, Inv[fr.loc])
          [] f.op = "EXISTS_REL" -> IF k = 1 THEN Wait(f.right, Inv[fr.loc])
                                    ELSE Wait(f.left, Point)
          [] f.op = "FORALL_REL" -> Wait(IF k = 1 THEN f.left ELSE f.right, Inv[fr.loc])
          [] OTHER -> AlongTransition(fr, k, GuardedPlace(Transitions[k], fr.zone, Point))
SKept(V, fr, k, kpt) ==
    LET f == fr.formula
    IN  /\ f.op = "OR" /\ k = 2 =>
              Narrowed(V, PlaceCall(f.left, fr.loc, fr.zone, Point), kpt)
        /\ f.op = "EXISTS_REL" /\ k = 2 =>
              Narrowed(V, Waited(f.right, fr.loc, fr.zone, Inv[fr.loc]), kpt)
        /\ f.op = "FORALL_REL" /\ k = 2 =>
              Narrowed(V, Waited(f.left, fr.loc, fr.zone, Inv[fr.loc]), kpt)
        /\ f.op = "EXISTACT" =>
              /\ k \in ExistactPending(fr, Point, 1)
              /\ \A p \in kpt \cap fr.zone : <<f, fr.loc, p>> \in V

Placing == pstack # << >> \/ place_ret # << >>
PlacesJustified(pes, V, fr, pst, pr, kpt) ==
    /\ PlaceJustified(pes, V, SAsked(fr, fr.next), pst, pr)
    /\ SKept(V, fr, fr.next, kpt)

FullSearch(searched, placed) ==
    /\ Search
    /\ AllSearched(stack, searched)
    /\ AllPlaced(pstack, placed)
    /\ \A below \in SUBSET Formula :
          Hereditary(input_pes, below) => Beneath(input_pes, pstack, below)
    /\ Placing => PlacesJustified(input_pes, Provable(input_pes, Claims), Top,
                                  pstack, place_ret, kept)

\* The first question put to do_proof_place.
LEMMA FirstPlace ==
    ASSUME NEW pes, NEW V, NEW fr, NEW c, c.next = 0, c = SAsked(fr, fr.next), NEW kpt,
           SKept(V, fr, fr.next, kpt)
    PROVE  PlacesJustified(pes, V, fr, <<c>>, << >>, kpt)
<1>1. Len(<<c>>) = 1 /\ <<c>>[1] = c
  OBVIOUS
<1>2. PKept(V, c)
  BY FreshKept
<1>3. PlaceJustified(pes, V, c, <<c>>, << >>)
  <2>1. \A j \in 0..(1 - 1) : j = 0 /\ j + 1 = 1
    OBVIOUS
  <2>2. \A j \in 1..1 : j = 1
    OBVIOUS
  <2>3. Asker(pes, c, <<c>>, 0) = c
    BY DEF Asker
  <2> DEFINE s == <<c>>
  <2>4. s[1] = c /\ Len(s) = 1
    BY <1>1
  <2> HIDE DEF s
  <2>5. ASSUME NEW j \in 0..(Len(s) - 1), NEW A \in Zone, Narrowed(V, s[j + 1], A)
        PROVE  Narrowed(V, Asker(pes, c, s, j), A)
    <3>1. j = 0 /\ j + 1 = 1
      BY <2>1, <2>4
    <3> QED
      BY <2>4, <2>5, <3>1 DEF Asker
  <2>6. \A j \in 1..Len(s) : PKept(V, s[j])
    BY <1>2, <2>2, <2>4
  <2>7. PlaceJustified(pes, V, c, s, << >>)
    BY <2>5, <2>6 DEF PlaceJustified
  <2> QED
    BY <2>7 DEF s
<1> QED
  BY <1>3 DEF PlacesJustified

LEMMA SplitFields ==
    ASSUME NEW fr \in Frame, NEW k \in Nat
    PROVE  LET w == [fr EXCEPT !.next = k]
           IN  /\ w \in Frame /\ w.formula = fr.formula /\ w.loc = fr.loc /\ w.zone = fr.zone
               /\ w.next = k
               /\ SAsked(w, k) = SAsked(fr, k)
               /\ \A V, kpt : SKept(V, w, k, kpt) <=> SKept(V, fr, k, kpt)
<1> DEFINE w == [fr EXCEPT !.next = k]
<1>1. w \in Frame /\ w.formula = fr.formula /\ w.loc = fr.loc /\ w.zone = fr.zone /\ w.next = k
  BY DEF Frame
<1> HIDE DEF w
<1>2. \A place : AlongTransition(w, k, place) = AlongTransition(fr, k, place)
  BY <1>1 DEF AlongTransition
<1>3. ExistactPending(w, Point, 1) = ExistactPending(fr, Point, 1)
  BY <1>1 DEF ExistactPending
<1>4. SAsked(w, k) = SAsked(fr, k)
  BY <1>1, <1>2 DEF SAsked
<1>5. \A V, kpt : SKept(V, w, k, kpt) <=> SKept(V, fr, k, kpt)
  BY <1>1, <1>3 DEF SKept
<1> QED
  BY <1>1, <1>4, <1>5 DEF w

\* The question fits the rule, and what it keeps meanwhile is right.
SplitAsks(V, k, c, kpt, placed) ==
    /\ c = SAsked(Top, k)
    /\ c.next = 0
    /\ SKept(V, Top, k, kpt)
    /\ InPlaced(placed, c.formula)

\* A call that is no predicate has the claims of its caller, before and after
\* it changes.
LEMMA ClaimsStay ==
    ASSUME TypeOK, stack # << >>, Top.formula.op # "PREDICATE", input_pes' = input_pes,
           NEW c, Replaced(c), c.formula.op # "PREDICATE"
    PROVE  Claims' = CallerClaims /\ Claims = CallerClaims /\ Top' = c /\ Len(stack') = Len(stack)
<1> DEFINE n == Len(stack)
<1>1. n \in Nat \ {0} /\ n - 1 \in Nat /\ n - 1 \in 0..(n - 1)
  BY StackNonempty DEF TypeOK
<1>2. Len(stack') = n /\ (\A i \in 1..(n - 1) : stack'[i] = stack[i]) /\ stack'[n] = c
  BY MovesOfStack DEF TypeOK
<1>3. Assumed(input_pes, stack', n - 1) = CallerClaims
  BY <1>1, <1>2, AssumedSame DEF CallerClaims
<1>4. Assumed(input_pes, stack', n) = Assumed(input_pes, stack', n - 1)
  BY <1>1, <1>2, AssumedStep
<1>5. Claims' = CallerClaims
  BY <1>2, <1>3, <1>4 DEF Claims
<1> QED
  BY <1>2, <1>5, ClaimsOfTop DEF Top

LEMMA AskingKeeps ==
    ASSUME FullTypeOK, stack # << >>, Top.formula.op \in SplittingOps, input_pes' = input_pes,
           NEW searched, NEW placed, Hereditary(input_pes, searched),
           FullSearch(searched, placed), NEW k \in Nat \ {0}, NEW c, AskPlace(k, c), ret = "none",
           SplitAsks(Provable(input_pes, CallerClaims), k, c, kept', placed)
    PROVE  FullSearch(searched, placed)'
<1> DEFINE fr == [Top EXCEPT !.next = k]
           V == Provable(input_pes, CallerClaims)
<1>1. /\ TypeOK /\ Top \in Frame /\ k \in Nat /\ stack \in Seq(Frame)
      /\ Top.formula.op \notin {"PREDICATE", "ALLACT"}
  BY StackNonempty DEF FullTypeOK, TypeOK, SplittingOps
<1>2. /\ fr \in Frame /\ fr.formula = Top.formula /\ fr.loc = Top.loc /\ fr.zone = Top.zone
      /\ fr.next = k /\ SAsked(fr, k) = SAsked(Top, k)
      /\ SKept(V, fr, k, kept') <=> SKept(V, Top, k, kept')
  BY <1>1, SplitFields
<1>3. Replaced(fr) /\ pstack' = <<c>> /\ place_ret' = << >> /\ ret' = "none"
  BY <1>2 DEF AskPlace, Replaced, Top
<1> HIDE DEF fr
<1>4. Claims' = CallerClaims /\ Top' = fr
  BY <1>1, <1>2, <1>3, ClaimsStay
<1>5. Search'
  <2>1. Proves(input_pes, CallerClaims, fr) => Proves(input_pes, CallerClaims, Top)
    BY <1>2 DEF Proves
  <2>2. ret' # Valid /\ Search
    BY <1>3 DEF Valid, FullSearch
  <2> QED
    BY <1>1, <1>2, <1>3, <2>1, <2>2, SearchReplaces
<1>6. AllSearched(stack', searched)
  <2>1. SearchMoves
    BY <1>2, <1>3 DEF SearchMoves
  <2> QED
    BY <1>1, <2>1, StaysSearched DEF FullSearch
<1>7. AllPlaced(pstack', placed)
  <2>1. Len(<<c>>) = 1 /\ \A i \in 1..1 : <<c>>[i] = c
    OBVIOUS
  <2>2. InPlaced(placed, c.formula)
    BY DEF SplitAsks
  <2> QED
    BY <1>3, <2>1, <2>2 DEF AllPlaced
<1>8. PlacesJustified(input_pes, V, fr, <<c>>, << >>, kept')
  <2>1. c = SAsked(fr, fr.next) /\ c.next = 0 /\ SKept(V, fr, fr.next, kept')
    BY <1>2 DEF SplitAsks
  <2> HIDE DEF V
  <2> QED
    BY <2>1, FirstPlace
<1>9. PlacesJustified(input_pes', Provable(input_pes', Claims'), Top', pstack', place_ret', kept')
  BY <1>3, <1>4, <1>8
<1> QED
  BY <1>3, <1>5, <1>6, <1>7, <1>9, NothingBelow DEF FullSearch

LEMMA AnsweringKeeps ==
    ASSUME FullTypeOK, FullTypeOK', stack # << >>, input_pes' = input_pes, pstack = << >>,
           NEW searched, NEW placed, Hereditary(input_pes, searched),
           FullSearch(searched, placed), NEW b, AnswerWith(b),
           b => Proves(input_pes, CallerClaims, Top)
    PROVE  FullSearch(searched, placed)'
<1>1. TypeOK /\ stack \in Seq(Frame) /\ stack' \in Seq(Frame) /\ Search
  BY DEF FullTypeOK, TypeOK, FullSearch
<1>2. Popped /\ ret' = Verdict(b) /\ pstack' = << >> /\ place_ret' = << >>
  BY DEF AnswerWith, Use, Return, Popped
<1>3. ret' = Valid => b
  BY <1>2 DEF Verdict, Valid, Invalid
<1>4. Search'
  BY <1>1, <1>2, <1>3, SearchReturns
<1>5. AllSearched(stack', searched)
  BY <1>1, <1>2, StaysSearched DEF FullSearch, SearchMoves
<1>6. AllPlaced(pstack', placed)
  <2>1. Len(<< >>) = 0 /\ 1..0 = {}
    OBVIOUS
  <2> QED
    BY <1>2, <2>1 DEF AllPlaced
<1>7. ~Placing'
  BY <1>2 DEF Placing
<1> QED
  BY <1>2, <1>4, <1>5, <1>6, <1>7, NothingBelow DEF FullSearch

LEMMA ContinuingKeeps ==
    ASSUME FullTypeOK, stack # << >>, input_pes' = input_pes, pstack = << >>,
           NEW searched, NEW placed, Hereditary(input_pes, searched),
           FullSearch(searched, placed), NEW g \in Formula, g \in Children(input_pes, Top.formula),
           NEW z \in Zone, ContinueWith(g, z),
           Proves(input_pes, CallerClaims, Call(g, Top.loc, z))
              => Proves(input_pes, CallerClaims, Top)
    PROVE  FullSearch(searched, placed)'
<1> DEFINE c == Call(g, Top.loc, z)
<1>1. TypeOK /\ stack \in Seq(Frame) /\ Search /\ Top.loc \in Loc
  BY StackNonempty DEF FullTypeOK, TypeOK, FullSearch, Frame
<1>2. c \in Frame /\ c.next = 0
  BY <1>1, CallIsFresh DEF Fresh
<1>3. c.formula = g
  BY DEF Call
<1>4. Replaced(c) /\ ret' # Valid /\ pstack' = << >> /\ place_ret' = << >>
  BY DEF ContinueWith, Use, TailCall, Replaced, Valid
<1> HIDE DEF c
<1>5. Search'
  BY <1>1, <1>2, <1>4, SearchReplaces DEF c
<1>6. AllSearched(stack', searched)
  BY <1>1, <1>3, <1>4, StaysSearched DEF FullSearch, SearchMoves
<1>7. AllPlaced(pstack', placed)
  <2>1. Len(<< >>) = 0 /\ 1..0 = {}
    OBVIOUS
  <2> QED
    BY <1>4, <2>1 DEF AllPlaced
<1>8. ~Placing'
  BY <1>4 DEF Placing
<1> QED
  BY <1>4, <1>5, <1>6, <1>7, <1>8, NothingBelow DEF FullSearch


\* What the splitting rules rely on, and what is left to show of each.
LEMMA SplitSteps ==
    ASSUME FullTypeOK, FullTypeOK', Waiting, stack # << >>, SplittingRule,
           input_pes' = input_pes, NEW searched, NEW placed,
           Splits(input_pes, searched, placed), FullSearch(searched, placed)
    PROVE  LET f == Top.formula
               H == CallerClaims
               V == Provable(input_pes, H)
               Goal == FullSearch(searched, placed)'
           IN  /\ Top \in Frame /\ f \in Formula /\ f \in PlaceFormula
               /\ Top.loc \in Loc /\ Top.zone \in Zone /\ Top.next \in Nat
               /\ \A g \in HandedOver(f) : g \in placed /\ InPlaced(placed, g)
               /\ place_ret # << >> => /\ Answer \in Zone
                                       /\ Narrowed(V, SAsked(Top, Top.next), Answer)
                                       /\ SKept(V, Top, Top.next, kept)
               /\ \A k \in Nat \ {0} : \A c :
                     AskPlace(k, c) /\ SplitAsks(V, k, c, kept', placed) => Goal
               /\ \A b : AnswerWith(b) /\ (b => Proves(input_pes, H, Top)) => Goal
               /\ \A g \in Children(input_pes, f), zone \in Zone :
                     /\ g \in Formula
                     /\ ContinueWith(g, zone)
                     /\ Proves(input_pes, H, Call(g, Top.loc, zone)) => Proves(input_pes, H, Top)
                     => Goal
<1> DEFINE f == Top.formula
           H == CallerClaims
           V == Provable(input_pes, H)
           Goal == FullSearch(searched, placed)'
<1>1. /\ Top \in Frame /\ f \in Formula /\ f \in PlaceFormula
      /\ Top.loc \in Loc /\ Top.zone \in Zone /\ Top.next \in Nat
  BY StackNonempty, FormulasArePlaced DEF FullTypeOK, TypeOK, Frame
<1>2. pstack = << >> /\ ret = "none" /\ f.op \in SplittingOps
  BY SplitCases
<1>3. Hereditary(input_pes, searched)
  BY DEF Splits
<1>4. \A g \in HandedOver(f) : g \in placed /\ InPlaced(placed, g)
  <2>1. Len(stack) \in 1..Len(stack)
    BY StackNonempty DEF FullTypeOK, TypeOK
  <2>2. f \in searched
    BY <2>1 DEF FullSearch, AllSearched, Top
  <2> QED
    BY <2>2 DEF Splits, InPlaced
<1>5. ASSUME place_ret # << >>
      PROVE  /\ Answer \in Zone
             /\ Narrowed(V, SAsked(Top, Top.next), Answer)
             /\ SKept(V, Top, Top.next, kept)
  <2>1. Answer \in Zone
    BY <1>5 DEF FullTypeOK, PlaceTypeOK, Answer
  <2>2. Claims = H
    BY <1>2, ClaimsOfTop DEF FullTypeOK, SplittingOps
  <2>3. PlacesJustified(input_pes, V, Top, pstack, place_ret, kept)
    BY <1>5, <2>2 DEF FullSearch, Placing
  <2>4. Asker(input_pes, SAsked(Top, Top.next), pstack, Len(pstack)) = SAsked(Top, Top.next)
    BY <1>2 DEF Asker
  <2> QED
    BY <1>5, <2>1, <2>3, <2>4 DEF PlacesJustified, PlaceJustified, Answer
<1>6. ASSUME NEW k \in Nat \ {0}, NEW c, AskPlace(k, c), SplitAsks(V, k, c, kept', placed)
      PROVE  Goal
  BY <1>2, <1>3, <1>6, AskingKeeps
<1>7. ASSUME NEW b, AnswerWith(b), b => Proves(input_pes, H, Top) PROVE Goal
  BY <1>2, <1>3, <1>7, AnsweringKeeps
<1>8. ASSUME NEW g \in Children(input_pes, f), NEW zone \in Zone, g \in Formula,
             ContinueWith(g, zone),
             Proves(input_pes, H, Call(g, Top.loc, zone)) => Proves(input_pes, H, Top)
      PROVE  Goal
  BY <1>2, <1>3, <1>8, ContinuingKeeps
<1> HIDE DEF Goal, V, H
<1>9. \A k \in Nat \ {0} : \A c :
      AskPlace(k, c) /\ SplitAsks(V, k, c, kept', placed) => Goal
  BY <1>6
<1>10. \A b : AnswerWith(b) /\ (b => Proves(input_pes, H, Top)) => Goal
  BY <1>7
<1>11. \A g \in Children(input_pes, f), zone \in Zone :
          /\ g \in Formula
          /\ ContinueWith(g, zone)
          /\ Proves(input_pes, H, Call(g, Top.loc, zone)) => Proves(input_pes, H, Top)
          => Goal
  BY <1>8
<1> QED
  BY <1>1, <1>4, <1>5, <1>9, <1>10, <1>11 DEF Goal, V, H

LEMMA OrKeeps ==
    ASSUME FullTypeOK, FullTypeOK', Waiting, stack # << >>, do_proof_or,
           input_pes' = input_pes, NEW searched, NEW placed,
           Splits(input_pes, searched, placed), FullSearch(searched, placed)
    PROVE  FullSearch(searched, placed)'
<1> DEFINE f == Top.formula
           H == CallerClaims
           V == Provable(input_pes, H)
           Here(g) == PlaceCall(g, Top.loc, Top.zone, Point)
           Goal == FullSearch(searched, placed)'
<1>1. /\ Top \in Frame /\ f \in Formula /\ Top.zone \in Zone
      /\ \A g \in HandedOver(f) : InPlaced(placed, g)
      /\ place_ret # << >> => /\ Answer \in Zone
                              /\ Narrowed(V, SAsked(Top, Top.next), Answer)
                              /\ SKept(V, Top, Top.next, kept)
      /\ \A k \in Nat \ {0} : \A c :
            AskPlace(k, c) /\ SplitAsks(V, k, c, kept', placed) => Goal
      /\ \A b : AnswerWith(b) /\ (b => Proves(input_pes, H, Top)) => Goal
      /\ \A g \in Children(input_pes, f), zone \in Zone :
            /\ g \in Formula
            /\ ContinueWith(g, zone)
            /\ Proves(input_pes, H, Call(g, Top.loc, zone)) => Proves(input_pes, H, Top)
            => Goal
  BY SplitSteps DEF SplittingRule
<1>2. f.op = "OR"
  BY DEF do_proof_or, Begins, PlaceDone
<1>3. /\ f.left \in HandedOver(f) /\ f.right \in HandedOver(f) /\ f.right \in Formula
      /\ f.right \in Children(input_pes, f)
  BY <1>1, <1>2, SplitAssumption DEF HandedOver, Operands, Children
<1>4. /\ Proves(input_pes, H, Call(f.right, Top.loc, Top.zone)) => Proves(input_pes, H, Top)
      /\ \A A : Narrowed(V, Here(f.left), A) /\ Top.zone \subseteq A => Proves(input_pes, H, Top)
      /\ \A A, B : Narrowed(V, Here(f.left), A) /\ Narrowed(V, Here(f.right), B)
                      /\ Top.zone \subseteq B \cup A => Proves(input_pes, H, Top)
  BY <1>1, <1>2, OrSplits
<1>5. /\ SAsked(Top, 1) = Here(f.left) /\ SAsked(Top, 2) = Here(f.right)
      /\ Here(f.left).next = 0 /\ Here(f.right).next = 0
      /\ Here(f.left).formula = f.left /\ Here(f.right).formula = f.right
  BY <1>2 DEF SAsked, PlaceCall
<1>6. /\ \A kpt : SKept(V, Top, 1, kpt)
      /\ \A kpt : SKept(V, Top, 2, kpt) <=> Narrowed(V, Here(f.left), kpt)
  BY <1>2 DEF SKept
<1> SUFFICES Goal
  OBVIOUS
<1> HIDE DEF Goal, V, H, Here
<1>7. \A kpt : SplitAsks(V, 1, Here(f.left), kpt, placed)
  BY <1>1, <1>3, <1>5, <1>6 DEF SplitAsks
<1>8. \A kpt : Narrowed(V, Here(f.left), kpt) => SplitAsks(V, 2, Here(f.right), kpt, placed)
  BY <1>1, <1>3, <1>5, <1>6 DEF SplitAsks
<1>9. 1 \in Nat \ {0} /\ 2 \in Nat \ {0}
  OBVIOUS
<1>10. CASE Begins("OR") /\ AskHere(1, f.left)
  BY <1>1, <1>7, <1>9, <1>10 DEF AskHere, Here
<1>11. ASSUME PlaceDone("OR", 1) PROVE Narrowed(V, Here(f.left), Answer)
  BY <1>1, <1>5, <1>11 DEF PlaceDone
<1>12. CASE PlaceDone("OR", 1) /\ ContinueWith(f.right, Top.zone)
  BY <1>1, <1>3, <1>4, <1>12
<1>13. CASE PlaceDone("OR", 1) /\ Top.zone \subseteq Answer /\ AnswerWith(TRUE)
  BY <1>1, <1>4, <1>11, <1>13
<1>14. CASE PlaceDone("OR", 1) /\ AskHere(2, f.right) /\ kept' = Answer
  BY <1>1, <1>8, <1>9, <1>11, <1>14 DEF AskHere, Here
<1>15. CASE PlaceDone("OR", 2) /\ AnswerWith(Top.zone \subseteq Answer \cup kept)
  <2>1. Narrowed(V, Here(f.right), Answer) /\ Narrowed(V, Here(f.left), kept)
    BY <1>1, <1>5, <1>6, <1>15 DEF PlaceDone
  <2>2. Top.zone \subseteq Answer \cup kept => Proves(input_pes, H, Top)
    BY <1>4, <2>1
  <2> DEFINE b == Top.zone \subseteq Answer \cup kept
  <2>3. AnswerWith(b) /\ (b => Proves(input_pes, H, Top))
    BY <1>15, <2>2
  <2> HIDE DEF b
  <2> QED
    BY <1>1, <2>3
<1> QED
  BY <1>10, <1>12, <1>13, <1>14, <1>15 DEF do_proof_or


LEMMA ExistsKeeps ==
    ASSUME FullTypeOK, FullTypeOK', Waiting, stack # << >>, do_proof_exists,
           input_pes' = input_pes, NEW searched, NEW placed,
           Splits(input_pes, searched, placed), FullSearch(searched, placed)
    PROVE  FullSearch(searched, placed)'
<1> DEFINE f == Top.formula
           H == CallerClaims
           V == Provable(input_pes, H)
           Wait == Waited(f.quant, Top.loc, Top.zone, Inv[Top.loc])
           Goal == FullSearch(searched, placed)'
<1>1. /\ Top \in Frame
      /\ \A g \in HandedOver(f) : InPlaced(placed, g)
      /\ place_ret # << >> => Narrowed(V, SAsked(Top, Top.next), Answer)
      /\ \A k \in Nat \ {0} : \A c :
            AskPlace(k, c) /\ SplitAsks(V, k, c, kept', placed) => Goal
      /\ \A b : AnswerWith(b) /\ (b => Proves(input_pes, H, Top)) => Goal
  BY SplitSteps DEF SplittingRule
<1>2. f.op = "EXISTS"
  BY DEF do_proof_exists, Begins, PlaceDone
<1>3. f.quant \in HandedOver(f)
  BY <1>2 DEF HandedOver, Operands
<1>4. \A A : Narrowed(V, Wait, A) /\ Top.zone \subseteq Predecessors(A) => Proves(input_pes, H, Top)
  BY <1>1, <1>2, ExistsSplits
<1>5. SAsked(Top, 1) = Wait /\ Wait.next = 0 /\ Wait.formula = f.quant
  BY <1>2 DEF SAsked, Waited, PlaceCall
<1>6. \A kpt : SKept(V, Top, 1, kpt)
  BY <1>2 DEF SKept
<1> SUFFICES Goal
  OBVIOUS
<1> HIDE DEF Goal, V, H, Wait
<1>7. \A kpt : SplitAsks(V, 1, Wait, kpt, placed)
  BY <1>1, <1>3, <1>5, <1>6 DEF SplitAsks
<1>8. 1 \in Nat \ {0}
  OBVIOUS
<1>9. CASE Begins("EXISTS") /\ AskDelayed(1, f.quant, Inv[Top.loc])
  BY <1>1, <1>7, <1>8, <1>9 DEF AskDelayed, Wait, Waited
<1>10. CASE PlaceDone("EXISTS", 1) /\ AnswerWith(Top.zone \subseteq Predecessors(Answer))
  <2>1. Narrowed(V, Wait, Answer)
    BY <1>1, <1>5, <1>10 DEF PlaceDone
  <2> DEFINE b == Top.zone \subseteq Predecessors(Answer)
  <2>2. AnswerWith(b) /\ (b => Proves(input_pes, H, Top))
    BY <1>4, <1>10, <2>1
  <2> HIDE DEF b
  <2> QED
    BY <1>1, <2>2
<1> QED
  BY <1>9, <1>10 DEF do_proof_exists

LEMMA ExistsRelKeeps ==
    ASSUME FullTypeOK, FullTypeOK', Waiting, stack # << >>, do_proof_exists_rel,
           input_pes' = input_pes, NEW searched, NEW placed,
           Splits(input_pes, searched, placed), FullSearch(searched, placed)
    PROVE  FullSearch(searched, placed)'
<1> DEFINE f == Top.formula
           H == CallerClaims
           V == Provable(input_pes, H)
           First == Waited(f.right, Top.loc, Top.zone, Inv[Top.loc])
           Second == Waited(f.left, Top.loc, Top.zone, Point)
           Goal == FullSearch(searched, placed)'
<1>1. /\ Top \in Frame
      /\ \A g \in HandedOver(f) : InPlaced(placed, g)
      /\ place_ret # << >> => /\ Answer \in Zone
                              /\ Narrowed(V, SAsked(Top, Top.next), Answer)
                              /\ SKept(V, Top, Top.next, kept)
      /\ \A k \in Nat \ {0} : \A c :
            AskPlace(k, c) /\ SplitAsks(V, k, c, kept', placed) => Goal
      /\ \A b : AnswerWith(b) /\ (b => Proves(input_pes, H, Top)) => Goal
  BY SplitSteps DEF SplittingRule
<1>2. f.op = "EXISTS_REL"
  BY DEF do_proof_exists_rel, Begins, PlaceDone
<1>3. f.left \in HandedOver(f) /\ f.right \in HandedOver(f)
  BY <1>2 DEF HandedOver, Operands
<1>4. \A A1 \in Zone, A2 \in Zone :
         /\ Narrowed(V, First, A2) /\ Narrowed(V, Second, A1)
         /\ \/ Top.zone \subseteq A2 \cap Top.zone
            \/ Top.zone \subseteq
                  Predecessors(establish_exists_rel_sidecondition(Top.zone, A1, A2))
         => Proves(input_pes, H, Top)
  BY <1>1, <1>2, ExistsRelSplits
<1>5. /\ SAsked(Top, 1) = First /\ First.next = 0 /\ First.formula = f.right
      /\ SAsked(Top, 2) = Second /\ Second.next = 0 /\ Second.formula = f.left
  BY <1>2 DEF SAsked, Waited, PlaceCall
<1>6. /\ \A kpt : SKept(V, Top, 1, kpt)
      /\ \A kpt : SKept(V, Top, 2, kpt) <=> Narrowed(V, First, kpt)
  BY <1>2 DEF SKept
<1> SUFFICES Goal
  OBVIOUS
<1> HIDE DEF Goal, V, H, First, Second
<1>7. \A kpt : SplitAsks(V, 1, First, kpt, placed)
  BY <1>1, <1>3, <1>5, <1>6 DEF SplitAsks
<1>8. \A kpt : Narrowed(V, First, kpt) => SplitAsks(V, 2, Second, kpt, placed)
  BY <1>1, <1>3, <1>5, <1>6 DEF SplitAsks
<1>9. 1 \in Nat \ {0} /\ 2 \in Nat \ {0}
  OBVIOUS
<1>10. CASE Begins("EXISTS_REL") /\ AskDelayed(1, f.right, Inv[Top.loc])
  BY <1>1, <1>7, <1>9, <1>10 DEF AskDelayed, First, Waited
<1>11. CASE PlaceDone("EXISTS_REL", 1) /\ AnswerWith(FALSE)
  BY <1>1, <1>11
<1>12. CASE PlaceDone("EXISTS_REL", 1) /\ AskDelayed(2, f.left, Point) /\ kept' = Answer
  <2>1. Narrowed(V, First, Answer)
    BY <1>1, <1>5, <1>12 DEF PlaceDone
  <2> QED
    BY <1>1, <1>8, <1>9, <1>12, <2>1 DEF AskDelayed, Second, Waited
<1>13. CASE /\ PlaceDone("EXISTS_REL", 2)
            /\ AnswerWith(/\ RelatedPlaces(Answer, kept) # {}
                          /\ Top.zone \subseteq RelatedPlaces(Answer, kept))
  <2>1. Narrowed(V, Second, Answer) /\ Narrowed(V, First, kept) /\ Answer \in Zone
    BY <1>1, <1>5, <1>6, <1>13 DEF PlaceDone
  <2>2. kept \in Zone
    BY DEF FullTypeOK
  <2> DEFINE b == RelatedPlaces(Answer, kept) # {} /\ Top.zone \subseteq RelatedPlaces(Answer, kept)
  <2>3. AnswerWith(b) /\ (b => Proves(input_pes, H, Top))
    BY <1>4, <1>13, <2>1, <2>2 DEF RelatedPlaces
  <2> HIDE DEF b
  <2> QED
    BY <1>1, <2>3
<1> QED
  BY <1>10, <1>11, <1>12, <1>13 DEF do_proof_exists_rel

LEMMA ForallRelKeeps ==
    ASSUME FullTypeOK, FullTypeOK', Waiting, stack # << >>, do_proof_forall_rel,
           input_pes' = input_pes, NEW searched, NEW placed,
           Splits(input_pes, searched, placed), FullSearch(searched, placed)
    PROVE  FullSearch(searched, placed)'
<1> DEFINE f == Top.formula
           H == CallerClaims
           V == Provable(input_pes, H)
           First == Waited(f.left, Top.loc, Top.zone, Inv[Top.loc])
           Second == Waited(f.right, Top.loc, Top.zone, Inv[Top.loc])
           elapsed == Elapse(Top.zone, Top.loc)
           Goal == FullSearch(searched, placed)'
<1>1. /\ Top \in Frame /\ f \in Formula /\ Top.zone \in Zone /\ Top.loc \in Loc
      /\ \A g \in HandedOver(f) : InPlaced(placed, g)
      /\ place_ret # << >> => /\ Answer \in Zone
                              /\ Narrowed(V, SAsked(Top, Top.next), Answer)
                              /\ SKept(V, Top, Top.next, kept)
      /\ \A k \in Nat \ {0} : \A c :
            AskPlace(k, c) /\ SplitAsks(V, k, c, kept', placed) => Goal
      /\ \A b : AnswerWith(b) /\ (b => Proves(input_pes, H, Top)) => Goal
      /\ \A g \in Children(input_pes, f), zone \in Zone :
            /\ g \in Formula
            /\ ContinueWith(g, zone)
            /\ Proves(input_pes, H, Call(g, Top.loc, zone)) => Proves(input_pes, H, Top)
            => Goal
  BY SplitSteps DEF SplittingRule
<1>2. f.op = "FORALL_REL"
  BY DEF do_proof_forall_rel, Begins, PlaceDone
<1>3. /\ f.left \in HandedOver(f) /\ f.right \in HandedOver(f) /\ f.right \in Formula
      /\ f.right \in Children(input_pes, f) /\ elapsed \in Zone
  BY <1>1, <1>2, SplitAssumption, ElapseIsZone DEF HandedOver, Operands, Children
<1>4. \A A1 \in Zone : Narrowed(V, First, A1) =>
         /\ Proves(input_pes, H, Call(f.right, Top.loc, elapsed)) => Proves(input_pes, H, Top)
         /\ Top.zone \subseteq A1 /\ Proves(input_pes, H, Call(f.right, Top.loc, Top.zone))
               => Proves(input_pes, H, Top)
         /\ \A A2 \in Zone :
               /\ Narrowed(V, Second, A2)
               /\ \/ Successors(Top.zone) \subseteq A2
                  \/ Top.zone \subseteq ForeverOrUntil(Top.zone, Top.loc, A1, A2)
               => Proves(input_pes, H, Top)
  BY <1>1, <1>2, ForallRelSplits
<1>5. /\ SAsked(Top, 1) = First /\ First.next = 0 /\ First.formula = f.left
      /\ SAsked(Top, 2) = Second /\ Second.next = 0 /\ Second.formula = f.right
  BY <1>2 DEF SAsked, Waited, PlaceCall
<1>6. /\ \A kpt : SKept(V, Top, 1, kpt)
      /\ \A kpt : SKept(V, Top, 2, kpt) <=> Narrowed(V, First, kpt)
  BY <1>2 DEF SKept
<1> SUFFICES Goal
  OBVIOUS
<1> HIDE DEF Goal, V, H, First, Second, elapsed
<1>7. \A kpt : SplitAsks(V, 1, First, kpt, placed)
  BY <1>1, <1>3, <1>5, <1>6 DEF SplitAsks
<1>8. \A kpt : Narrowed(V, First, kpt) => SplitAsks(V, 2, Second, kpt, placed)
  BY <1>1, <1>3, <1>5, <1>6 DEF SplitAsks
<1>9. 1 \in Nat \ {0} /\ 2 \in Nat \ {0}
  OBVIOUS
<1>10. CASE Begins("FORALL_REL") /\ AskDelayed(1, f.left, Inv[Top.loc])
  BY <1>1, <1>7, <1>9, <1>10 DEF AskDelayed, First, Waited
<1>11. ASSUME PlaceDone("FORALL_REL", 1) PROVE Narrowed(V, First, Answer) /\ Answer \in Zone
  BY <1>1, <1>5, <1>11 DEF PlaceDone
<1>12. CASE PlaceDone("FORALL_REL", 1) /\ ContinueWith(f.right, elapsed)
  BY <1>1, <1>3, <1>4, <1>11, <1>12
<1>13. CASE PlaceDone("FORALL_REL", 1) /\ Top.zone \subseteq Answer /\ ContinueWith(f.right, Top.zone)
  BY <1>1, <1>3, <1>4, <1>11, <1>13
<1>14. CASE PlaceDone("FORALL_REL", 1) /\ AskDelayed(2, f.right, Inv[Top.loc]) /\ kept' = Answer
  BY <1>1, <1>8, <1>9, <1>11, <1>14 DEF AskDelayed, Second, Waited
<1>15. CASE /\ PlaceDone("FORALL_REL", 2)
            /\ AnswerWith(/\ Answer # {}
                          /\ \/ Successors(Top.zone) \subseteq Answer
                             \/ Top.zone \subseteq ForeverOrUntil(Top.zone, Top.loc, kept, Answer))
  <2>1. Narrowed(V, Second, Answer) /\ Narrowed(V, First, kept) /\ Answer \in Zone
    BY <1>1, <1>5, <1>6, <1>15 DEF PlaceDone
  <2>2. kept \in Zone
    BY DEF FullTypeOK
  <2> DEFINE b == /\ Answer # {}
                  /\ \/ Successors(Top.zone) \subseteq Answer
                     \/ Top.zone \subseteq ForeverOrUntil(Top.zone, Top.loc, kept, Answer)
  <2>3. AnswerWith(b) /\ (b => Proves(input_pes, H, Top))
    BY <1>4, <1>15, <2>1, <2>2
  <2> HIDE DEF b
  <2> QED
    BY <1>1, <2>3
<1> QED
  BY <1>10, <1>12, <1>13, <1>14, <1>15 DEF do_proof_forall_rel, elapsed


\* Pending transitions come from the list.
LEMMA PendingIsIndex ==
    ASSUME NEW fr, NEW place, NEW from \in Nat \ {0}
    PROVE  /\ \A k \in ExistactPending(fr, place, from) : k \in Nat \ {0} /\ from <= k
           /\ ExistactPending(fr, place, from) \subseteq ExistactPending(fr, place, 1)
<1>1. Len(Transitions) \in Nat
  BY AutomatonAssumption, LenProperties
<1>2. from..Len(Transitions) \subseteq 1..Len(Transitions)
  BY <1>1
<1>3. ExistactPending(fr, place, from) \subseteq from..Len(Transitions)
  BY DEF ExistactPending
<1>4. \A k \in from..Len(Transitions) : k \in Nat \ {0} /\ from <= k
  BY <1>1
<1>5. ExistactPending(fr, place, from) \subseteq ExistactPending(fr, place, 1)
  BY <1>2 DEF ExistactPending
<1> QED
  BY <1>3, <1>4, <1>5

LEMMA ExistactKeeps ==
    ASSUME FullTypeOK, FullTypeOK', Waiting, stack # << >>, do_proof_existact,
           input_pes' = input_pes, NEW searched, NEW placed,
           Splits(input_pes, searched, placed), FullSearch(searched, placed)
    PROVE  FullSearch(searched, placed)'
<1> DEFINE f == Top.formula
           H == CallerClaims
           V == Provable(input_pes, H)
           Along(k) == AlongTransition(Top, k, GuardedPlace(Transitions[k], Top.zone, Point))
           Judged(found) == \A p \in found \cap Top.zone : <<f, Top.loc, p>> \in V
           Goal == FullSearch(searched, placed)'
<1>1. /\ Top \in Frame /\ f \in Formula /\ f \in PlaceFormula
      /\ Top.zone \in Zone /\ Top.loc \in Loc /\ Top.next \in Nat
      /\ \A g \in HandedOver(f) : g \in placed
      /\ place_ret # << >> => /\ Narrowed(V, SAsked(Top, Top.next), Answer)
                              /\ SKept(V, Top, Top.next, kept)
      /\ \A k \in Nat \ {0} : \A c :
            AskPlace(k, c) /\ SplitAsks(V, k, c, kept', placed) => Goal
      /\ \A b : AnswerWith(b) /\ (b => Proves(input_pes, H, Top)) => Goal
  BY SplitSteps DEF SplittingRule
<1>2. f.op = "EXISTACT"
  BY DEF do_proof_existact, Begins, PlaceDone
<1>3. f.quant \in placed
  BY <1>1, <1>2 DEF HandedOver, Operands
<1>4. /\ \A k : SAsked(Top, k) = Along(k) /\ Along(k).next = 0
      /\ \A k : Along(k).formula = NewTrans(Transitions[k], f.quant)
      /\ \A k, kpt : SKept(V, Top, k, kpt) <=>
            k \in ExistactPending(Top, Point, 1) /\ Judged(kpt)
  BY <1>2 DEF SAsked, SKept, AlongTransition, PlaceCall
<1>5. \A k : InPlaced(placed, Along(k).formula)
  BY <1>3, <1>4, NewTransIsPlaced
<1>6. \A k \in ExistactPending(Top, Point, 1) : \A A : Narrowed(V, Along(k), A) => Judged(A)
  <2>1. Point \in Zone /\ 1 \in Nat \ {0}
    BY PointAndInv
  <2> QED
    BY <1>1, <1>2, <2>1, ExistactNarrows
<1>7. \A found : Judged(found) /\ Top.zone \subseteq found => Proves(input_pes, H, Top)
  BY DEF Proves, HoldsOn
<1>8. Judged({}) /\ \A A, B : Judged(A) /\ Judged(B) => Judged(A \cup B)
  OBVIOUS
<1> SUFFICES Goal
  OBVIOUS
<1> HIDE DEF Goal, V, H, Along, Judged
<1>9. ASSUME NEW from \in Nat \ {0}, NEW found, Judged(found), TryTransitions(from, found)
      PROVE  Goal
  <2>1. CASE AnswerWith(Top.zone \subseteq found)
    <3> DEFINE b == Top.zone \subseteq found
    <3>1. AnswerWith(b) /\ (b => Proves(input_pes, H, Top))
      BY <1>7, <1>9, <2>1
    <3> HIDE DEF b
    <3> QED
      BY <1>1, <3>1
  <2>2. ASSUME NEW k \in ExistactPending(Top, Point, from), AskPlace(k, Along(k)), kept' = found
        PROVE  Goal
    <3>1. k \in Nat \ {0} /\ k \in ExistactPending(Top, Point, 1)
      BY PendingIsIndex
    <3>2. SplitAsks(V, k, Along(k), kept', placed)
      BY <1>4, <1>5, <1>9, <2>2, <3>1 DEF SplitAsks
    <3> QED
      BY <1>1, <2>2, <3>1, <3>2
  <2> QED
    BY <1>9, <2>1, <2>2 DEF TryTransitions, Along
<1>10. CASE Begins("EXISTACT") /\ TryTransitions(1, {})
  <2>1. 1 \in Nat \ {0}
    OBVIOUS
  <2> QED
    BY <1>8, <1>9, <1>10, <2>1
<1>11. ASSUME PlaceDone("EXISTACT", Top.next), Top.next # 0,
              IF Top.zone \subseteq kept \cup Answer THEN AnswerWith(TRUE)
              ELSE TryTransitions(Top.next + 1, kept \cup Answer)
       PROVE  Goal
  <2>1. /\ Narrowed(V, Along(Top.next), Answer)
        /\ Top.next \in ExistactPending(Top, Point, 1) /\ Judged(kept)
    BY <1>1, <1>4, <1>11 DEF PlaceDone
  <2>2. Judged(kept \cup Answer)
    BY <1>6, <1>8, <2>1
  <2>3. CASE Top.zone \subseteq kept \cup Answer
    BY <1>1, <1>7, <1>11, <2>2, <2>3
  <2>4. CASE ~(Top.zone \subseteq kept \cup Answer)
    <3>1. Top.next + 1 \in Nat \ {0}
      BY <1>1
    <3> QED
      BY <1>9, <1>11, <2>2, <2>4, <3>1
  <2> QED
    BY <2>3, <2>4
<1> QED
  BY <1>10, <1>11 DEF do_proof_existact

LEMMA SplitsKeep ==
    ASSUME FullTypeOK, FullTypeOK', Waiting, stack # << >>, SplittingRule,
           input_pes' = input_pes, NEW searched, NEW placed,
           Splits(input_pes, searched, placed), FullSearch(searched, placed)
    PROVE  FullSearch(searched, placed)'
  BY OrKeeps, ExistsKeeps, ExistsRelKeeps, ForallRelKeeps, ExistactKeeps DEF SplittingRule


\* What the placeholders hold stays right while do_proof_place runs.
LEMMA PlaceStepKeeps ==
    ASSUME FullTypeOK, Waiting, ~useCaching, OwnNumbers, PlaceCyclesAreOpenCalls,
           PresetAddsNothing, do_proof_place, UNCHANGED kept,
           NEW searched, NEW placed,
           Splits(input_pes, searched, placed), FullSearch(searched, placed)
    PROVE  FullSearch(searched, placed)'
<1> DEFINE H == Claims
           V == Provable(input_pes, H)
           base == SAsked(Top, Top.next)
           f == PTop.formula
<1>1. PlaceTypeOK /\ pstack # << >>
  BY DEF do_proof_place, FullTypeOK
<1>2. UNCHANGED <<input_pes, stack, ret, kept>>
  BY DEF do_proof_place
<1>3. Search' /\ Claims' = Claims /\ Top' = Top /\ AllSearched(stack', searched)
  BY <1>2 DEF FullSearch, Search, Claims, Top
<1>4. InPlaced(placed, f)
  <2>1. Len(pstack) \in 1..Len(pstack) /\ PTop = pstack[Len(pstack)]
    BY <1>1, TopIsLast
  <2> QED
    BY <2>1 DEF FullSearch, AllPlaced
<1>5. /\ f.op \notin {"EXISTS_REL", "FORALL_REL"}
      /\ f.op = "PREDICATE" /\ IsGfp(PTop) => Once(input_pes, f.pred)
  BY <1>4 DEF InPlaced, Splits, IsGfp
<1>6. PlaceJustified(input_pes, V, base, pstack, place_ret) /\ SKept(V, Top, Top.next, kept)
  BY <1>1 DEF FullSearch, PlacesJustified, Placing
<1>7. ~GfpPlaceCircularity
  BY <1>1, <1>5, NoCircularity DEF FullTypeOK, FullSearch
<1>8. PlaceJustified(input_pes, V, base, pstack', place_ret')
  <2> HIDE DEF base, H
  <2> QED
    BY <1>1, <1>5, <1>6, <1>7, PlacesKeep DEF V
<1>9. /\ AllPlaced(pstack', placed)
      /\ \A below \in SUBSET Formula :
            Hereditary(input_pes', below) => Beneath(input_pes', pstack', below)
  <2>1. PlaceAsks
    BY <1>1, <1>5, PlaceChildren
  <2> QED
    BY <1>1, <1>2, <2>1, StaysPlaced, StaysBelow DEF FullSearch, Splits
<1>10. PlacesJustified(input_pes', Provable(input_pes', Claims'), Top', pstack', place_ret', kept')
  BY <1>2, <1>3, <1>6, <1>8 DEF PlacesJustified
<1> QED
  BY <1>3, <1>9, <1>10 DEF FullSearch

\* Nothing of them is alive while the other rules run.
LEMMA NextStepKeeps ==
    ASSUME FullTypeOK, FullTypeOK', Waiting, CyclesAreOpenCalls, ~useCaching, OwnNumbers,
           Next, UNCHANGED placeVars, input_pes' = input_pes, NEW searched, NEW placed,
           Splits(input_pes, searched, placed), FullSearch(searched, placed)
    PROVE  FullSearch(searched, placed)'
<1>1. TypeOK /\ TypeOK' /\ Search /\ stack \in Seq(Frame) /\ stack # << >>
  BY DEF FullTypeOK, TypeOK, FullSearch, Next
<1>2. pstack' = << >> /\ place_ret' = << >>
  BY WaitingStopsNext DEF placeVars, searchVars
<1>3. Search'
  <2>1. ~KnownTrueHit
    BY DEF KnownTrueHit
  <2> QED
    BY <1>1, <2>1, ConnectiveKeeps, PredicateKeeps DEF Next
<1>4. AllSearched(stack', searched)
  BY <1>1, NextChildren, StaysSearched DEF FullSearch, Splits
<1>5. AllPlaced(pstack', placed)
  <2>1. Len(<< >>) = 0 /\ 1..0 = {}
    OBVIOUS
  <2> QED
    BY <1>2, <2>1 DEF AllPlaced
<1> QED
  BY <1>2, <1>3, <1>4, <1>5, NothingBelow DEF FullSearch, Placing

FullSoundInv ==
    /\ OuterInv
    /\ PlaceCyclesInv
    /\ ~useCaching /\ OwnNumbers =>
          \A searched, placed \in SUBSET Formula :
             Splits(input_pes, searched, placed) => FullSearch(searched, placed)

LEMMA FullSearchStarts ==
    ASSUME FullInit, NEW searched, NEW placed, Splits(input_pes, searched, placed)
    PROVE  FullSearch(searched, placed)
<1> DEFINE c == Asking(input_pes)
<1>1. Init /\ pstack = << >> /\ place_ret = << >>
  BY DEF FullInit, PlaceInit
<1>2. stack = <<c>> /\ c.formula = input_pes.start
  BY <1>1 DEF Init, Asking, Call
<1> HIDE DEF c
<1>3. Len(stack) = 1 /\ stack[1] = c
  BY <1>2
<1>4. AllSearched(stack, searched)
  <2>1. \A i \in 1..Len(stack) : stack[i] = c
    BY <1>3
  <2>2. c.formula \in searched
    BY <1>2 DEF Splits
  <2> QED
    BY <2>1, <2>2 DEF AllSearched
<1>5. AllPlaced(pstack, placed)
  <2>1. Len(<< >>) = 0 /\ 1..0 = {}
    OBVIOUS
  <2> QED
    BY <1>1, <2>1 DEF AllPlaced
<1> QED
  BY <1>1, <1>4, <1>5, SearchStarts, NothingBelow DEF FullSearch, Placing

\* input_pes is an input of the whole search.
LEMMA SameSystem ==
    ASSUME FullTypeOK, [FullNext]_fullVars
    PROVE  input_pes' = input_pes
<1>1. CASE Next
  BY <1>1, PredicateMoves DEF Next, FullTypeOK
<1>2. CASE do_proof_place
  BY <1>2 DEF do_proof_place
<1>3. CASE UNCHANGED fullVars
  BY <1>3 DEF fullVars, vars
<1> QED
  BY <1>1, <1>2, <1>3 DEF FullNext

LEMMA FullNextSearch ==
    FullSoundInv /\ PresetAddsNothing /\ [FullNext]_fullVars => FullSoundInv'
<1> SUFFICES ASSUME FullSoundInv, PresetAddsNothing, [FullNext]_fullVars PROVE FullSoundInv'
  OBVIOUS
<1>1. OuterInv /\ OuterInv' /\ FullTypeOK /\ FullTypeOK' /\ Waiting /\ CyclesAreOpenCalls
  BY OuterNext DEF FullSoundInv, OuterInv, CyclesInv
<1>0. PlaceCyclesAreOpenCalls /\ PlaceCyclesInv'
  BY <1>1, HoldingCalls, NextPlaceCycles DEF FullSoundInv
<1>2. input_pes' = input_pes
  BY <1>1, SameSystem
<1>3. ASSUME ~useCaching', OwnNumbers', NEW searched \in SUBSET Formula,
             NEW placed \in SUBSET Formula, Splits(input_pes', searched, placed)
      PROVE  FullSearch(searched, placed)'
  <2>1. ~useCaching /\ OwnNumbers /\ Splits(input_pes, searched, placed)
    BY <1>2, <1>3 DEF useCaching, OwnNumbers
  <2>2. FullSearch(searched, placed)
    BY <2>1 DEF FullSoundInv
  <2> DEFINE Goal == FullSearch(searched, placed)'
  <2> SUFFICES Goal
    OBVIOUS
  <2>3. CASE Next /\ UNCHANGED <<placeVars, kept>>
    BY <1>1, <1>2, <2>1, <2>2, <2>3, NextStepKeeps
  <2>4. CASE do_proof_place /\ UNCHANGED kept
    BY <1>0, <1>1, <2>1, <2>2, <2>4, PlaceStepKeeps
  <2>5. CASE stack # << >> /\ SplittingRule
    BY <1>1, <1>2, <2>1, <2>2, <2>5, SplitsKeep
  <2>6. CASE UNCHANGED fullVars
    <3>1. UNCHANGED <<input_pes, stack, ret, pstack, place_ret, kept>>
      BY <2>6 DEF fullVars, vars, placeVars, searchVars
    <3> QED
      BY <2>2, <3>1 DEF FullSearch, Search, Claims, Top, Placing
  <2> HIDE DEF Goal
  <2> QED
    BY <2>3, <2>4, <2>5, <2>6 DEF FullNext
<1> QED
  BY <1>0, <1>1, <1>3 DEF FullSoundInv

\* The whole search never proves what is false, as long as it uses no verdict
\* table, every equation has its own number, the search with placeholders meets
\* no greatest fixpoint below itself and no relativised quantifier, and no
\* preset it takes of a placeholder adds a valuation of the sequent to the
\* inverse image: the zones it splits a question into are each judged to hold,
\* and together they cover it.  In each of these cases do_proof_place may answer
\* with too much (proof.hh, do_proof_place_predicate, the _rel rules, and
\* do_proof_place_reset and _assign, whose preset drops a strict bound).
THEOREM SplitValidIsRight ==
    FullSpec /\ []PresetAddsNothing => [](~useCaching /\ OwnNumbers /\ Tame => ValidHolds)
<1>1. FullInit => FullSoundInv
  BY OuterInit, InitPlaceCycles, FullSearchStarts DEF FullSoundInv
<1>2. FullSoundInv => (~useCaching /\ OwnNumbers /\ Tame => ValidHolds)
  <2> SUFFICES ASSUME FullSoundInv, ~useCaching, OwnNumbers, Tame PROVE ValidHolds
    OBVIOUS
  <2>1. PICK searched \in SUBSET Formula :
           \E placed \in SUBSET Formula : Splits(input_pes, searched, placed)
    BY DEF Tame
  <2>2. PICK placed \in SUBSET Formula : Splits(input_pes, searched, placed)
    BY <2>1
  <2>3. Search
    BY <2>2 DEF FullSoundInv, FullSearch
  <2> QED
    BY <2>3, SearchAnswers
<1> QED
  BY <1>1, <1>2, FullNextSearch, PTL DEF FullSpec

=============================================================================
