----------------------------- MODULE PlaceProofs -----------------------------
(***************************************************************************)
(* Theorems about the whole proof search (FullProver), for every equation  *)
(* system, automaton, abstraction and depth bound.                         *)
(***************************************************************************)
EXTENDS FullProver, ProverProofs

-----------------------------------------------------------------------------
(***************************************************************************)
(* Sets of valuations.                                                     *)
(***************************************************************************)

LEMMA TimeIsZone ==
    ASSUME NEW zone \in Zone
    PROVE  /\ Successors(zone) \in Zone
           /\ StrictSuccessors(zone) \in Zone
           /\ Predecessors(zone) \in Zone
           /\ StrictPredecessors(zone) \in Zone
<1>1. \A p \in zone : Later[p] \subseteq Point /\ Strictly[p] \subseteq Point
  BY AutomatonAssumption, TimeAssumption DEF Zone
<1>2. Successors(zone) \subseteq Point
  BY <1>1 DEF Successors
<1>3. StrictSuccessors(zone) \subseteq Point
  BY <1>1 DEF StrictSuccessors
<1>4. Predecessors(zone) \subseteq Point
  BY DEF Predecessors
<1>5. StrictPredecessors(zone) \subseteq Point
  BY DEF StrictPredecessors
<1> QED
  BY <1>2, <1>3, <1>4, <1>5 DEF Zone

LEMMA SideConditionsAreZones ==
    ASSUME NEW zone \in Zone, NEW l \in Loc, NEW p1 \in Zone, NEW p2 \in Zone
    PROVE  /\ establish_exists_rel_sidecondition(zone, p1, p2) \in Zone
           /\ establish_forall_place_sidecondition(zone, l, p2) \in Zone
           /\ ForeverOrUntil(zone, l, p1, p2) \in Zone
<1>1. ASSUME NEW q1 \in Zone, NEW q2 \in Zone
      PROVE  establish_exists_rel_sidecondition(zone, q1, q2) \in Zone
  BY <1>1 DEF establish_exists_rel_sidecondition, Zone
<1>2. establish_forall_place_sidecondition(zone, l, p2) \in Zone
  <2>1. Allowed(l, p2) \subseteq Point
    BY DEF Allowed, Zone
  <2>2. Restricted(zone, Allowed(l, p2)) \subseteq Point
    BY <2>1 DEF Restricted
  <2> QED
    BY <2>1, <2>2 DEF establish_forall_place_sidecondition, Zone
<1>3. p2 \cap p1 \in Zone
  BY DEF Zone
<1>4. Predecessors(establish_exists_rel_sidecondition(zone, p2, p2 \cap p1)) \in Zone
  BY <1>1, <1>3, TimeIsZone
<1> QED
  BY <1>1, <1>2, <1>4 DEF ForeverOrUntil, Zone

-----------------------------------------------------------------------------
(***************************************************************************)
(* Formulas: those of the input, and those transitions make of them.       *)
(***************************************************************************)

LEMMA BodiesAreFormulas == Bodies \subseteq Formula
  BY FormulaAssumption, SplitAssumption DEF Bodies

LEMMA NewTransIsFormula ==
    ASSUME NEW k \in 1..Len(Transitions), NEW f \in Bodies
    PROVE  NewTrans(Transitions[k], f) \in PlaceFormula
  BY DEF PlaceFormula, AlongTransitions

\* The shapes of formulas proved with a placeholder.
LEMMA PlaceFormulas ==
    ASSUME NEW f \in PlaceFormula
    PROVE  /\ f.op \notin {"SUBLIST", "RESET"} => f \in Formula
           /\ f.op = "SUBLIST" => f.map \in [Loc -> Loc] /\ f.expr \in PlaceFormula
           /\ f.op = "RESET" => f.map \in [Point -> Point] /\ f.expr \in PlaceFormula
<1>1. CASE f \in Formula
  BY <1>1, FormulaAssumption DEF PlaceFormula
<1>2. ASSUME NEW k \in 1..Len(Transitions), NEW g \in Bodies
      PROVE  LET moved == [op |-> "SUBLIST", map |-> Transitions[k].dest, expr |-> g]
                 reset == [op |-> "RESET", map |-> Transitions[k].reset, expr |-> moved]
             IN  /\ NewTrans(Transitions[k], g) \in {moved, reset}
                 /\ moved.map \in [Loc -> Loc] /\ moved.expr \in PlaceFormula
                 /\ reset.map \in [Point -> Point]
                 /\ NewTrans(Transitions[k], g) = reset => moved \in PlaceFormula
  <2> DEFINE moved == [op |-> "SUBLIST", map |-> Transitions[k].dest, expr |-> g]
             reset == [op |-> "RESET", map |-> Transitions[k].reset, expr |-> moved]
  <2>1. Transitions[k].dest \in [Loc -> Loc] /\ Transitions[k].reset \in [Point -> Point]
    BY TransitionTypes
  <2>2. g \in PlaceFormula
    BY BodiesAreFormulas DEF PlaceFormula
  <2>3. NewTrans(Transitions[k], g) \in {moved, reset}
    BY DEF NewTrans
  <2>4. NewTrans(Transitions[k], g) \in AlongTransitions
    BY DEF AlongTransitions
  <2>5. ASSUME NEW e \in AlongTransitions, e.op = "RESET"
        PROVE  e.expr \in PlaceFormula
    BY <2>5 DEF PlaceFormula
  <2>6. reset.op = "RESET" /\ reset.expr = moved
    OBVIOUS
  <2>7. NewTrans(Transitions[k], g) = reset => moved \in PlaceFormula
    <3> HIDE DEF reset
    <3> QED
      BY <2>4, <2>5, <2>6
  <2> QED
    BY <2>1, <2>2, <2>3, <2>7
<1>3. CASE f \in AlongTransitions
  <2>1. PICK k \in 1..Len(Transitions), g \in Bodies : f = NewTrans(Transitions[k], g)
    BY <1>3 DEF AlongTransitions
  <2> DEFINE moved == [op |-> "SUBLIST", map |-> Transitions[k].dest, expr |-> g]
             reset == [op |-> "RESET", map |-> Transitions[k].reset, expr |-> moved]
  <2>2. CASE f = moved
    <3>1. moved.op = "SUBLIST"
      OBVIOUS
    <3>2. moved.map \in [Loc -> Loc] /\ moved.expr \in PlaceFormula
      BY <1>2
    <3> HIDE DEF moved
    <3> QED
      BY <2>2, <3>1, <3>2
  <2>3. CASE f = reset
    <3>1. reset.op = "RESET" /\ reset.expr = moved
      OBVIOUS
    <3>2. reset.map \in [Point -> Point]
      BY <1>2
    <3>3. moved \in PlaceFormula
      BY <1>2, <2>1, <2>3
    <3> HIDE DEF reset, moved
    <3> QED
      BY <2>3, <3>1, <3>2, <3>3
  <2>4. f \in {moved, reset}
    BY <1>2, <2>1
  <2> QED
    BY <2>2, <2>3, <2>4
<1>4. CASE f \in {e.expr : e \in {g \in AlongTransitions : g.op = "RESET"}}
  <2>1. PICK e \in AlongTransitions : e.op = "RESET" /\ f = e.expr
    BY <1>4
  <2>2. PICK k \in 1..Len(Transitions), g \in Bodies : e = NewTrans(Transitions[k], g)
    BY <2>1 DEF AlongTransitions
  <2> DEFINE moved == [op |-> "SUBLIST", map |-> Transitions[k].dest, expr |-> g]
             reset == [op |-> "RESET", map |-> Transitions[k].reset, expr |-> moved]
  <2>3. e \in {moved, reset}
    BY <1>2, <2>2
  <2>4. moved.op = "SUBLIST" /\ reset.expr = moved
    OBVIOUS
  <2>5. moved.map \in [Loc -> Loc] /\ moved.expr \in PlaceFormula
    BY <1>2
  <2> HIDE DEF moved, reset
  <2> QED
    BY <2>1, <2>3, <2>4, <2>5
<1> QED
  BY <1>1, <1>3, <1>4 DEF PlaceFormula

LEMMA FormulasArePlaceFormulas == Formula \subseteq PlaceFormula
  BY DEF PlaceFormula

-----------------------------------------------------------------------------
(***************************************************************************)
(* The calls with a placeholder.                                           *)
(***************************************************************************)

Searching == /\ pstack' \in Seq(PlaceFrame)
             /\ place_ret' \in {<< >>} \cup {<<z>> : z \in Zone}

LEMMA AnswerIsZone ==
    ASSUME PlaceTypeOK, place_ret # << >>
    PROVE  Answer \in Zone
  BY DEF PlaceTypeOK, Answer

LEMMA CallIsFrame ==
    ASSUME NEW f \in PlaceFormula, NEW l \in Loc, NEW zone \in Zone, NEW place \in Zone
    PROVE  PlaceCall(f, l, zone, place) \in PlaceFrame
  BY DEF PlaceCall, PlaceFrame, Parent, Zone

LEMMA TopIsFrame ==
    ASSUME PlaceTypeOK, pstack # << >>
    PROVE  /\ PTop \in PlaceFrame
           /\ PTop.formula \in PlaceFormula
           /\ PTop.loc \in Loc
           /\ PTop.zone \in Zone
           /\ PTop.place \in Zone
           /\ PTop.next \in Nat
           /\ PTop.saved \in Parent
           /\ PTop.first \in Zone
<1>1. Len(pstack) \in Nat \ {0}
  BY EmptySeq, LenProperties DEF PlaceTypeOK
<1>2. PTop \in PlaceFrame
  BY <1>1, ElementOfSeq DEF PlaceTypeOK, PTop
<1> QED
  BY <1>2 DEF PlaceFrame

LEMMA PlaceMoves ==
    ASSUME PlaceTypeOK, pstack # << >>
    PROVE  /\ \A z \in Zone : PReturn(z) => Searching
           /\ \A fr, c \in PlaceFrame : PDescend(fr, c) => Searching
           /\ \A c \in PlaceFrame : PTailCall(c) => Searching
<1>1. PBelow \in Seq(PlaceFrame)
  BY PopSeq DEF PlaceTypeOK, PBelow
<1>2. ASSUME NEW fr \in PlaceFrame, NEW c \in PlaceFrame
      PROVE  PBelow \o <<fr, c>> \in Seq(PlaceFrame)
  <2>1. <<fr, c>> \in Seq(PlaceFrame)
    OBVIOUS
  <2> QED
    BY <1>1, <2>1, ConcatProperties
<1>3. ASSUME NEW c \in PlaceFrame
      PROVE  Append(PBelow, c) \in Seq(PlaceFrame)
  BY <1>1, AppendProperties
<1> QED
  BY <1>1, <1>2, <1>3 DEF Searching, PReturn, PDescend, PTailCall

LEMMA ChildIsFrame ==
    ASSUME PlaceTypeOK, pstack # << >>, NEW f \in PlaceFormula, NEW place \in Zone
    PROVE  /\ Child(f, place) \in PlaceFrame
           /\ Delayed(f, place) \in PlaceFrame
  BY TopIsFrame, TimeIsZone, CallIsFrame DEF Child, Delayed

LEMMA PhaseIsFrame ==
    ASSUME PlaceTypeOK, pstack # << >>, NEW k \in Nat, NEW place \in Zone
    PROVE  /\ Phase(k) \in PlaceFrame
           /\ [Phase(k) EXCEPT !.place = place] \in PlaceFrame
           /\ PhaseKeeping(k, place) \in PlaceFrame
  BY TopIsFrame DEF Phase, PhaseKeeping, PlaceFrame

LEMMA PointAndInv == Point \in Zone /\ \A l \in Loc : Inv[l] \in Zone
  BY AutomatonAssumption DEF Zone

LEMMA OperandTypes ==
    ASSUME PlaceTypeOK, pstack # << >>
    PROVE  LET f == PTop.formula
           IN  /\ f.op \in {"AND", "OR", "OR_SIMPLE", "EXISTS_REL", "FORALL_REL"} =>
                     f.left \in PlaceFormula /\ f.right \in PlaceFormula
               /\ f.op \in {"FORALL", "EXISTS"} => f.quant \in PlaceFormula
               /\ f.op \in {"ALLACT", "EXISTACT"} => f.quant \in Bodies
               /\ f.op = "IMPLY" => /\ f.left \in [locs : SUBSET Loc, zone : Zone]
                                    /\ f.right \in PlaceFormula
               /\ f.op = "CONSTRAINT" => f.zone \in Zone
               /\ f.op = "SUBLIST" => f.map \in [Loc -> Loc] /\ f.expr \in PlaceFormula
               /\ f.op = "RESET" => f.map \in [Point -> Point] /\ f.expr \in PlaceFormula
               /\ f.op = "PREDICATE" => f.pred \in Predicate
<1> DEFINE f == PTop.formula
<1>1. f \in PlaceFormula
  BY TopIsFrame
<1> HIDE DEF f
<1>2. f.op \in {"ALLACT", "EXISTACT"} => f.quant \in Bodies
  BY <1>1, PlaceFormulas DEF Bodies
<1>3. /\ f.op \in {"AND", "OR", "OR_SIMPLE", "EXISTS_REL", "FORALL_REL"} =>
             f.left \in Formula /\ f.right \in Formula
      /\ f.op \in {"FORALL", "EXISTS"} => f.quant \in Formula
      /\ f.op = "IMPLY" => /\ f.left \in [locs : SUBSET Loc, zone : Zone]
                           /\ f.right \in Formula
      /\ f.op = "CONSTRAINT" => f.zone \in Zone
      /\ f.op = "PREDICATE" => f.pred \in Predicate
  <2>1. f.op \notin {"SUBLIST", "RESET"} => f \in Formula
    BY <1>1, PlaceFormulas
  <2> QED
    BY <2>1, FormulaAssumption, SplitAssumption
<1>4. /\ f.op = "SUBLIST" => f.map \in [Loc -> Loc] /\ f.expr \in PlaceFormula
      /\ f.op = "RESET" => f.map \in [Point -> Point] /\ f.expr \in PlaceFormula
  BY <1>1, PlaceFormulas
<1> QED
  BY <1>2, <1>3, <1>4, FormulasArePlaceFormulas DEF f

\* The zone and the placeholder with which a transition is taken.
LEMMA AlongIsFrame ==
    ASSUME NEW fr, fr.zone \in Zone, fr.loc \in Loc, fr.formula.quant \in Bodies,
           NEW k \in 1..Len(Transitions), NEW place \in Zone
    PROVE  /\ AlongTransition(fr, k, place) \in PlaceFrame
           /\ GuardedPlace(Transitions[k], fr.zone, place) \in Zone
<1> DEFINE t == Transitions[k]
           entering == InvariantPre(t, fr.loc)
           guarded == fr.zone \cap t.guard.zone
<1>1. guarded \subseteq Point /\ place \subseteq Point
  BY DEF Zone
<1>2. NewTrans(t, fr.formula.quant) \in PlaceFormula
  BY NewTransIsFormula
<1>3. GuardedPlace(t, fr.zone, place) \in Zone
  BY DEF GuardedPlace, Zone
<1> HIDE DEF entering, guarded, t
<1>4. Bound[guarded \cap entering] \in Zone
  <2>1. guarded \cap entering \in Zone
    BY <1>1 DEF Zone
  <2> QED
    BY <2>1, AutomatonAssumption
<1>5. (IF guarded \subseteq entering THEN place ELSE place \cap entering) \in Zone
  BY <1>1 DEF Zone
<1>6. AlongTransition(fr, k, place)
        = PlaceCall(NewTrans(t, fr.formula.quant), fr.loc, Bound[guarded \cap entering],
                    IF guarded \subseteq entering THEN place ELSE place \cap entering)
  BY DEF AlongTransition, t, entering, guarded
<1> QED
  BY <1>2, <1>3, <1>4, <1>5, <1>6, CallIsFrame DEF t

LEMMA ConnectivePlaceTypes ==
    ASSUME PlaceTypeOK, pstack # << >>, PlaceConnective
    PROVE  Searching
<1> DEFINE f == PTop.formula
<1>1. /\ f \in PlaceFormula
      /\ PTop.loc \in Loc
      /\ PTop.zone \in Zone
      /\ PTop.place \in Zone
      /\ PTop.next \in Nat
      /\ PTop.first \in Zone
  BY TopIsFrame
<1>2. \A z \in Zone : PReturn(z) => Searching
  BY PlaceMoves
<1>3. \A fr, c \in PlaceFrame : PDescend(fr, c) => Searching
  BY PlaceMoves
<1>4. \A c \in PlaceFrame : PTailCall(c) => Searching
  BY PlaceMoves
<1>5. \A g \in PlaceFormula, place \in Zone :
          Child(g, place) \in PlaceFrame /\ Delayed(g, place) \in PlaceFrame
  BY ChildIsFrame
<1>6. /\ Phase(1) \in PlaceFrame
      /\ \A k \in Nat, place \in Zone : PhaseKeeping(k, place) \in PlaceFrame
  BY PhaseIsFrame, PointAndInv
<1>7. place_ret # << >> => Answer \in Zone
  BY AnswerIsZone
<1>8. {} \in Zone /\ Point \in Zone /\ Inv[PTop.loc] \in Zone
  BY <1>1, PointAndInv DEF Zone
<1>9. CASE do_proof_place_and
  <2>1. f.left \in PlaceFormula /\ f.right \in PlaceFormula
    BY <1>9, OperandTypes DEF do_proof_place_and, PEntering, PResuming
  <2>2. Child(f.left, PTop.place) \in PlaceFrame
    BY <1>1, <1>5, <2>1
  <2>3. place_ret # << >> => Child(f.right, Answer) \in PlaceFrame
    BY <1>5, <1>7, <2>1
  <2> QED
    BY <1>2, <1>3, <1>4, <1>6, <1>8, <1>9, <2>2, <2>3 DEF do_proof_place_and, PResuming
<1>10. CASE do_proof_place_or \/ do_proof_place_or_simple
  <2>1. f.left \in PlaceFormula /\ f.right \in PlaceFormula
    BY <1>10, OperandTypes
       DEF do_proof_place_or, do_proof_place_or_simple, PEntering, PResuming, PResumingAt
  <2>2. Child(f.left, PTop.place) \in PlaceFrame /\ Child(f.right, PTop.place) \in PlaceFrame
    BY <1>1, <1>5, <2>1
  <2>3. place_ret # << >> =>
           /\ Answer \cup PTop.first \in Zone
           /\ (IF Answer = {} THEN PTop.first ELSE Answer) \in Zone
           /\ PhaseKeeping(2, Answer) \in PlaceFrame
    BY <1>1, <1>6, <1>7 DEF Zone
  <2> QED
    BY <1>1, <1>2, <1>3, <1>6, <1>10, <2>2, <2>3
       DEF do_proof_place_or, do_proof_place_or_simple, PResuming, PResumingAt
<1>11. CASE do_proof_place_imply
  <2>1. /\ f.left \in [locs : SUBSET Loc, zone : Zone]
        /\ f.right \in PlaceFormula
    BY <1>11, OperandTypes DEF do_proof_place_imply, PEntering
  <2>2. PTop.zone \cap f.left.zone \in Zone
    BY <1>1 DEF Zone
  <2>3. Bound[PTop.zone \cap f.left.zone] \in Zone
    BY <2>2, AutomatonAssumption
  <2>4. [Child(f.right, PTop.place) EXCEPT !.zone = Bound[PTop.zone \cap f.left.zone]]
           \in PlaceFrame
    BY <1>1, <1>5, <2>1, <2>3 DEF PlaceFrame
  <2> QED
    BY <1>1, <1>2, <1>4, <1>11, <2>4 DEF do_proof_place_imply
<1>12. CASE do_proof_place_constraint
  <2>1. PTop.place \cap f.zone \in Zone
    BY <1>1 DEF Zone
  <2> QED
    BY <1>1, <1>2, <1>8, <1>12, <2>1 DEF do_proof_place_constraint
<1>13. CASE do_proof_place_atomic \/ do_proof_place_ablewaitinf
  BY <1>1, <1>2, <1>8, <1>13 DEF do_proof_place_atomic, do_proof_place_ablewaitinf
<1>14. CASE do_proof_place_sublist
  <2>1. f.map \in [Loc -> Loc] /\ f.expr \in PlaceFormula
    BY <1>14, OperandTypes DEF do_proof_place_sublist, PEntering
  <2>2. [Child(f.expr, PTop.place) EXCEPT !.loc = f.map[PTop.loc]] \in PlaceFrame
    BY <1>1, <1>5, <2>1 DEF PlaceFrame
  <2> QED
    BY <1>4, <1>14, <2>2 DEF do_proof_place_sublist
<1>15. CASE do_proof_place_reset
  <2>1. f.map \in [Point -> Point] /\ f.expr \in PlaceFormula
    BY <1>15, OperandTypes DEF do_proof_place_reset, PEntering, PResuming
  <2>2. Image(f.map, PTop.zone) \in Zone
    BY <1>1, <2>1, ImageIsZone
  <2>3. [Child(f.expr, Point) EXCEPT !.zone = Image(f.map, PTop.zone)] \in PlaceFrame
    BY <1>5, <1>8, <2>1, <2>2 DEF PlaceFrame
  <2>4. ASSUME place_ret # << >>, NEW taken \in Presets(f.map, Answer)
        PROVE  PTop.place \cap taken \in Zone
    BY <1>1 DEF Zone
  <2> QED
    BY <1>2, <1>3, <1>6, <1>8, <1>15, <2>3, <2>4 DEF do_proof_place_reset, PResuming
<1>16. CASE do_proof_place_forall \/ do_proof_place_exists
  <2>1. f.quant \in PlaceFormula
    BY <1>16, OperandTypes DEF do_proof_place_forall, do_proof_place_exists, PEntering, PResuming
  <2>2. Delayed(f.quant, PTop.place) \in PlaceFrame /\ Delayed(f.quant, Inv[PTop.loc]) \in PlaceFrame
    BY <1>1, <1>5, <1>8, <2>1
  <2>3. place_ret # << >> =>
           Answer \cap establish_forall_place_sidecondition(PTop.zone, PTop.loc, Answer) \in Zone
    BY <1>7 DEF Zone
  <2>4. PTop.place \cap Predecessors(Answer) \in Zone
    BY <1>1 DEF Zone
  <2> QED
    BY <1>2, <1>3, <1>6, <1>8, <1>16, <2>2, <2>3, <2>4
       DEF do_proof_place_forall, do_proof_place_exists, PResuming
<1>17. CASE do_proof_place_allact
  <2> DEFINE left == IF place_ret = << >> THEN PTop.place ELSE AfterAllact(PTop.next, Answer)
  <2>1. f.quant \in Bodies
    BY <1>17, OperandTypes DEF do_proof_place_allact, PEntering, PResuming
  <2>2. left \in Zone
    BY <1>1 DEF AfterAllact, Zone
  <2> HIDE DEF left
  <2>3. ASSUME NEW k \in AllactPending(left, PTop.next + 1),
               PDescend([Phase(k) EXCEPT !.place = left], AlongTransition(PTop, k, left))
        PROVE  Searching
    <3>1. k \in 1..Len(Transitions)
      <4>1. k \in (PTop.next + 1)..Len(Transitions)
        BY <2>3 DEF AllactPending
      <4>2. Len(Transitions) \in Nat
        BY AutomatonAssumption, LenProperties
      <4> QED
        BY <1>1, <4>1, <4>2
    <3>2. AlongTransition(PTop, k, left) \in PlaceFrame
      BY <1>1, <2>1, <2>2, <3>1, AlongIsFrame
    <3>3. [Phase(k) EXCEPT !.place = left] \in PlaceFrame
      BY <2>2, <3>1, PhaseIsFrame
    <3> QED
      BY <1>3, <2>3, <3>2, <3>3
  <2> QED
    BY <1>2, <1>8, <1>17, <2>2, <2>3 DEF do_proof_place_allact, left
<1>18. CASE do_proof_place_existact
  <2> DEFINE found == IF place_ret = << >> THEN {} ELSE PTop.first \cup Answer
  <2>1. f.quant \in Bodies
    BY <1>18, OperandTypes DEF do_proof_place_existact, PEntering, PResuming
  <2>2. found \in Zone
    BY <1>1, <1>7, <1>8 DEF Zone
  <2>3. PTop.place \cap found \in Zone
    BY <1>1 DEF Zone
  <2> HIDE DEF found
  <2>4. ASSUME NEW k \in ExistactPending(PTop, PTop.place, PTop.next + 1),
               PDescend(PhaseKeeping(k, found),
                        AlongTransition(PTop, k, GuardedPlace(Transitions[k], PTop.zone, PTop.place)))
        PROVE  Searching
    <3>1. k \in 1..Len(Transitions)
      <4>1. k \in (PTop.next + 1)..Len(Transitions)
        BY <2>4 DEF ExistactPending
      <4>2. Len(Transitions) \in Nat
        BY AutomatonAssumption, LenProperties
      <4> QED
        BY <1>1, <4>1, <4>2
    <3>2. GuardedPlace(Transitions[k], PTop.zone, PTop.place) \in Zone
      BY <1>1, <2>1, <3>1, AlongIsFrame
    <3>3. AlongTransition(PTop, k, GuardedPlace(Transitions[k], PTop.zone, PTop.place))
             \in PlaceFrame
      BY <1>1, <2>1, <3>1, <3>2, AlongIsFrame
    <3>4. PhaseKeeping(k, found) \in PlaceFrame
      <4>1. k \in Nat
        BY <3>1
      <4> QED
        BY <1>6, <2>2, <4>1
    <3> QED
      BY <1>3, <2>4, <3>3, <3>4
  <2> QED
    BY <1>2, <1>18, <2>3, <2>4 DEF do_proof_place_existact, found
<1> QED
  BY <1>9, <1>10, <1>11, <1>12, <1>13, <1>14, <1>15, <1>16, <1>17, <1>18 DEF PlaceConnective

LEMMA RelativisedPlaceTypes ==
    ASSUME PlaceTypeOK, pstack # << >>,
           do_proof_place_exists_rel \/ do_proof_place_forall_rel
    PROVE  Searching /\ parentPlaceRef' \in Parent
<1> DEFINE f == PTop.formula
<1>1. /\ PTop.loc \in Loc
      /\ PTop.zone \in Zone
      /\ PTop.place \in Zone
      /\ PTop.first \in Zone
  BY TopIsFrame
<1>2. \A z \in Zone : PReturn(z) => Searching
  BY PlaceMoves
<1>3. \A fr, c \in PlaceFrame : PDescend(fr, c) => Searching
  BY PlaceMoves
<1>4. \A c \in PlaceFrame : PTailCall(c) => Searching
  BY PlaceMoves
<1>5. /\ Phase(1) \in PlaceFrame /\ Phase(2) \in PlaceFrame
      /\ \A k \in Nat, place \in Zone : PhaseKeeping(k, place) \in PlaceFrame
  BY PhaseIsFrame, PointAndInv
<1>6. place_ret # << >> => Answer \in Zone
  BY AnswerIsZone
<1>7. {} \in Zone /\ Point \in Zone /\ Inv[PTop.loc] \in Zone
  BY <1>1, PointAndInv DEF Zone
<1>8. f.left \in PlaceFormula /\ f.right \in PlaceFormula
  BY OperandTypes
     DEF do_proof_place_exists_rel, do_proof_place_forall_rel, PEntering, PResumingAt, PResuming
<1>9. \A place \in Zone : /\ Delayed(f.left, place) \in PlaceFrame
                          /\ Delayed(f.right, place) \in PlaceFrame
                          /\ Child(f.right, place) \in PlaceFrame
  BY <1>8, ChildIsFrame
<1>10. /\ parentPlaceRef \in Parent
       /\ NoParent \in Parent
  BY DEF PlaceTypeOK, Parent
<1>11. CASE do_proof_place_exists_rel
  <2>1. PTop.first \cap PTop.zone \in Zone /\ \A z : PTop.place \cap z \in Zone
    BY <1>1 DEF Zone
  <2> QED
    BY <1>2, <1>3, <1>5, <1>6, <1>7, <1>9, <1>10, <1>11, <2>1
       DEF do_proof_place_exists_rel, PResumingAt, PResuming
<1>12. CASE do_proof_place_forall_rel
  <2>1. place_ret # << >> =>
           /\ establish_forall_place_sidecondition(PTop.zone, PTop.loc, Answer) \in Zone
           /\ ForeverOrUntil(PTop.zone, PTop.loc, PTop.first, Answer) \in Zone
    BY <1>1, <1>6, SideConditionsAreZones
  <2> QED
    BY <1>1, <1>2, <1>3, <1>4, <1>5, <1>6, <1>7, <1>9, <1>10, <1>12, <2>1
       DEF do_proof_place_forall_rel, PResumingAt, PResuming
<1> QED
  BY <1>11, <1>12

-----------------------------------------------------------------------------
(***************************************************************************)
(* The tables of sequents with placeholders.                               *)
(***************************************************************************)

PlaceCycleTable == [Bin -> PlaceEntry(Seq(SequentPlace))]
PlaceVerdictTable == [Bin -> PlaceEntry(SUBSET SequentPlace)]

LEMMA AddPlaceParentType ==
    ASSUME NEW b \in Bin, NEW p \in Parent, NEW pp \in Parent, NEW D,
           NEW table \in [Bin -> PlaceEntry(D)]
    PROVE  /\ addPlaceParent(table, b, p, pp) \in [Bin -> PlaceEntry(D)]
           /\ \A c \in Bin : addPlaceParent(table, b, p, pp)[c].dbms = table[c].dbms
<1>1. pp # NoParent => pp \in Bin
  BY DEF Parent
<1>2. table[b] \in PlaceEntry(D)
  OBVIOUS
<1>3. table[b].parents_with_placeholders \subseteq Bin /\ table[b].parents \subseteq Parent
  BY <1>2 DEF PlaceEntry
<1>4. CASE pp # NoParent
  <2> DEFINE entry == [table[b] EXCEPT !.parents_with_placeholders = @ \cup {pp}]
  <2>1. entry \in PlaceEntry(D) /\ entry.dbms = table[b].dbms
    BY <1>1, <1>2, <1>3, <1>4 DEF PlaceEntry
  <2>2. addPlaceParent(table, b, p, pp) = [table EXCEPT ![b] = entry]
    BY <1>4 DEF addPlaceParent
  <2> HIDE DEF entry
  <2> QED
    BY <2>1, <2>2
<1>5. CASE pp = NoParent
  <2> DEFINE entry == [table[b] EXCEPT !.parents = @ \cup {p}]
  <2>1. entry \in PlaceEntry(D) /\ entry.dbms = table[b].dbms
    BY <1>2, <1>3, <1>5 DEF PlaceEntry
  <2>2. addPlaceParent(table, b, p, pp) = [table EXCEPT ![b] = entry]
    BY <1>5 DEF addPlaceParent
  <2> HIDE DEF entry
  <2> QED
    BY <2>1, <2>2
<1> QED
  BY <1>4, <1>5

\* A verdict recorded: the table keeps its shape, and the pairs of the bin are
\* those an update can lead to.
LEMMA CachePlaceType ==
    ASSUME NEW b \in Bin, NEW zone \in Zone, NEW place \in Zone,
           NEW table \in PlaceVerdictTable
    PROVE  /\ cache_true_place(table, b, zone, place) \subseteq PlaceVerdictTable
           /\ cache_false_place(table, b, zone) \subseteq PlaceVerdictTable
<1>1. table[b] \in PlaceEntry(SUBSET SequentPlace)
  BY DEF PlaceVerdictTable
<1>2. table[b].dbms \subseteq SequentPlace
  BY <1>1 DEF PlaceEntry
<1>3. {} \in Zone
  BY DEF Zone
<1>4. Pair(zone, place) \in SequentPlace /\ Pair(zone, {}) \in SequentPlace
  BY <1>3 DEF Pair, SequentPlace
<1>5. \A e \in table[b].dbms : Pair(zone, e.place) \in SequentPlace
  BY <1>2 DEF Pair, SequentPlace
<1>6. update_place(table[b].dbms, zone, place) \subseteq SUBSET SequentPlace
  BY <1>2, <1>4 DEF update_place
<1>7. update_false_place(table[b].dbms, zone) \subseteq SUBSET SequentPlace
  BY <1>2, <1>4, <1>5 DEF update_false_place
<1>8. ASSUME NEW d \in SUBSET SequentPlace
      PROVE  [table EXCEPT ![b].dbms = d] \in PlaceVerdictTable
  BY <1>1, <1>8 DEF PlaceVerdictTable, PlaceEntry
<1> QED
  BY <1>6, <1>7, <1>8 DEF cache_true_place, cache_false_place

LEMMA WithoutPlacesType ==
    ASSUME NEW entry \in PlaceEntry(SUBSET SequentPlace), NEW removed
    PROVE  WithoutPlaces(entry, removed) \in PlaceEntry(SUBSET SequentPlace)
  BY DEF WithoutPlaces, NoPlaceSequent, PlaceEntry

LEMMA ErasePlacesType ==
    ASSUME NEW table \in PlaceVerdictTable, NEW bins
    PROVE  ErasePlaces(table, bins) \in PlaceVerdictTable
  BY DEF ErasePlaces, NoPlaceSequent, PlaceEntry, PlaceVerdictTable

Purging(purged) == /\ purged.true_ph \in PlaceVerdictTable
                   /\ purged.false_ph \in PlaceVerdictTable
                   /\ purged.true \in VerdictTable
                   /\ purged.false \in VerdictTable

LEMMA PurgePlaceType ==
    ASSUME NEW b \in Bin, NEW zone \in Zone, TypeOK, PlaceTypeOK
    PROVE  Purging(purge_true_place(b, zone)) /\ Purging(purge_false_place(b, zone))
<1>1. /\ Xlist_true_ph \in PlaceVerdictTable /\ Xlist_false_ph \in PlaceVerdictTable
      /\ Xlist_true \in VerdictTable /\ Xlist_false \in VerdictTable
  BY DEF TypeOK, CacheTypeOK, PlaceTypeOK, PlaceCacheTypeOK, PlaceVerdictTable, VerdictTable
<1>2. ASSUME NEW entry, NEW removed,
             NEW trues \in PlaceVerdictTable, NEW falses \in PlaceVerdictTable
      PROVE  Purging(PurgePlaceParents(entry, removed, trues, falses))
  BY <1>1, <1>2, EraseType, ErasePlacesType DEF Purging, PurgePlaceParents
<1>3. ASSUME NEW table \in PlaceVerdictTable, NEW removed
      PROVE  [table EXCEPT ![b] = WithoutPlaces(@, removed)] \in PlaceVerdictTable
  <2>1. WithoutPlaces(table[b], removed) \in PlaceEntry(SUBSET SequentPlace)
    BY WithoutPlacesType DEF PlaceVerdictTable
  <2> QED
    BY <2>1 DEF PlaceVerdictTable
<1> QED
  BY <1>1, <1>2, <1>3 DEF purge_true_place, purge_false_place

-----------------------------------------------------------------------------
(***************************************************************************)
(* Type correctness.                                                       *)
(***************************************************************************)

LEMMA PlacePredicateTop ==
    ASSUME TypeOK, PlaceTypeOK, pstack # << >>, PTop.formula.op = "PREDICATE"
    PROVE  /\ pbin \in Bin
           /\ Pair(PTop.zone, PTop.place) \in SequentPlace
           /\ Child(input_pes.rhs[PTop.formula.pred], PTop.place) \in PlaceFrame
<1>1. PTop.formula.pred \in Predicate
  BY OperandTypes
<1>2. /\ input_pes.block[PTop.formula.pred] \in Block
      /\ input_pes.rhs[PTop.formula.pred] \in PlaceFormula
  BY <1>1, SystemsAssumption, FormulasArePlaceFormulas DEF TypeOK
<1> QED
  BY <1>2, TopIsFrame, ChildIsFrame
     DEF pbin, BinOf, get_index, Bin, Pair, SequentPlace

LEMMA PopPlaceType ==
    ASSUME TypeOK, PlaceTypeOK, pstack # << >>, PTop.formula.op = "PREDICATE",
           PopPlaceCircularity
    PROVE  Xlist_pGFP_ph' \in PlaceCycleTable /\ Xlist_pLFP_ph' \in PlaceCycleTable
<1>1. Xlist_pGFP_ph \in PlaceCycleTable /\ Xlist_pLFP_ph \in PlaceCycleTable
  BY DEF PlaceTypeOK, PlaceCacheTypeOK, PlaceCycleTable
<1>2. pbin \in Bin
  BY PlacePredicateTop
<1>3. ASSUME NEW s \in Seq(SequentPlace)
      PROVE  pop_sequent(s) \in Seq(SequentPlace)
  <2>1. CASE s = << >>
    BY <2>1 DEF pop_sequent
  <2>2. CASE s # << >>
    BY <2>2, PopSeq DEF pop_sequent
  <2> QED
    BY <2>1, <2>2
<1>4. ASSUME NEW table \in PlaceCycleTable, NEW b \in Bin
      PROVE  [table EXCEPT ![b] = PopPlace(@)] \in PlaceCycleTable
  <2>1. table[b] \in PlaceEntry(Seq(SequentPlace))
    BY DEF PlaceCycleTable
  <2>2. pop_sequent(table[b].dbms) \in Seq(SequentPlace)
    BY <1>3, <2>1 DEF PlaceEntry
  <2>3. PopPlace(table[b]) \in PlaceEntry(Seq(SequentPlace))
    BY <2>1, <2>2 DEF PopPlace, PlaceEntry
  <2> QED
    BY <2>3 DEF PlaceCycleTable
<1> QED
  BY <1>1, <1>2, <1>4 DEF PopPlaceCircularity

LEMMA PushPlaceType ==
    ASSUME TypeOK, PlaceTypeOK, pstack # << >>, PTop.formula.op = "PREDICATE",
           NEW table \in PlaceCycleTable
    PROVE  [table EXCEPT ![pbin] = PushPlace(@)] \in PlaceCycleTable
<1>1. pbin \in Bin /\ Pair(PTop.zone, PTop.place) \in SequentPlace
  BY PlacePredicateTop
<1>2. table[pbin] \in PlaceEntry(Seq(SequentPlace))
  BY <1>1 DEF PlaceCycleTable
<1>3. Append(table[pbin].dbms, Pair(PTop.zone, PTop.place)) \in Seq(SequentPlace)
  BY <1>1, <1>2, AppendProperties DEF PlaceEntry
<1>4. PushPlace(table[pbin]) \in PlaceEntry(Seq(SequentPlace))
  BY <1>2, <1>3 DEF PushPlace, PlaceEntry
<1> QED
  BY <1>1, <1>4 DEF PlaceCycleTable

LEMMA UpdatePlaceType ==
    ASSUME TypeOK, PlaceTypeOK, pstack # << >>, PTop.formula.op = "PREDICATE",
           place_ret # << >>, UpdatePlaceCaches
    PROVE  /\ Xlist_true_ph' \in PlaceVerdictTable /\ Xlist_false_ph' \in PlaceVerdictTable
           /\ Xlist_true' \in VerdictTable /\ Xlist_false' \in VerdictTable
<1>1. pbin \in Bin /\ PTop.zone \in Zone /\ Answer \in Zone
  BY PlacePredicateTop, TopIsFrame, AnswerIsZone
<1>2. CASE ~useCaching
  BY <1>2 DEF UpdatePlaceCaches, placeTables, tables, TypeOK, CacheTypeOK, PlaceTypeOK,
              PlaceCacheTypeOK, PlaceVerdictTable, VerdictTable
<1>3. CASE useCaching /\ Answer # {}
  <2> DEFINE purged == purge_false_place(pbin, PTop.zone)
  <2>1. Purging(purged)
    BY <1>1, PurgePlaceType
  <2>2. /\ Xlist_true' = purged.true /\ Xlist_false' = purged.false
        /\ Xlist_true_ph' \in cache_true_place(purged.true_ph, pbin, PTop.zone, Answer)
        /\ Xlist_false_ph' = purged.false_ph
    BY <1>3 DEF UpdatePlaceCaches
  <2> HIDE DEF purged
  <2> QED
    BY <1>1, <2>1, <2>2, CachePlaceType DEF Purging
<1>4. CASE useCaching /\ Answer = {}
  <2> DEFINE purged == purge_true_place(pbin, PTop.zone)
  <2>1. Purging(purged)
    BY <1>1, PurgePlaceType
  <2>2. /\ Xlist_true' = purged.true /\ Xlist_false' = purged.false
        /\ Xlist_true_ph' = purged.true_ph
        /\ Xlist_false_ph' \in cache_false_place(purged.false_ph, pbin, PTop.zone)
    BY <1>4 DEF UpdatePlaceCaches
  <2> HIDE DEF purged
  <2>3. {} \in Zone
    BY DEF Zone
  <2> QED
    BY <1>1, <2>1, <2>2, <2>3, CachePlaceType DEF Purging
<1> QED
  BY <1>2, <1>3, <1>4

LEMMA PredicatePlaceTypes ==
    ASSUME TypeOK, PlaceTypeOK, pstack # << >>, do_proof_place_predicate
    PROVE  /\ Searching
           /\ parentPlaceRef' \in Parent
           /\ Xlist_pGFP_ph' \in PlaceCycleTable /\ Xlist_pLFP_ph' \in PlaceCycleTable
           /\ Xlist_true_ph' \in PlaceVerdictTable /\ Xlist_false_ph' \in PlaceVerdictTable
           /\ Xlist_true' \in VerdictTable /\ Xlist_false' \in VerdictTable
<1> DEFINE Goal == /\ Searching
                   /\ parentPlaceRef' \in Parent
                   /\ Xlist_pGFP_ph' \in PlaceCycleTable /\ Xlist_pLFP_ph' \in PlaceCycleTable
                   /\ Xlist_true_ph' \in PlaceVerdictTable /\ Xlist_false_ph' \in PlaceVerdictTable
                   /\ Xlist_true' \in VerdictTable /\ Xlist_false' \in VerdictTable
<1> SUFFICES Goal
  OBVIOUS
<1>1. PTop.formula.op = "PREDICATE"
  BY DEF do_proof_place_predicate, KnownFalsePlaceHit, KnownTruePlaceHit, GfpPlaceCircularity,
         LfpPlaceCircularity, UnfoldPlace, LeavePlacePredicate, PEntering, PResuming
<1>2. /\ pbin \in Bin
      /\ PTop.zone \in Zone /\ PTop.place \in Zone /\ PTop.saved \in Parent
      /\ Child(input_pes.rhs[PTop.formula.pred], PTop.place) \in PlaceFrame
      /\ {} \in Zone
  BY <1>1, PlacePredicateTop, TopIsFrame DEF Zone
<1>3. /\ Xlist_true_ph \in PlaceVerdictTable /\ Xlist_false_ph \in PlaceVerdictTable
      /\ Xlist_pGFP_ph \in PlaceCycleTable /\ Xlist_pLFP_ph \in PlaceCycleTable
      /\ Xlist_true \in VerdictTable /\ Xlist_false \in VerdictTable
      /\ parentPlaceRef \in Parent /\ parentRef \in Parent
  BY DEF TypeOK, CacheTypeOK, PlaceTypeOK, PlaceCacheTypeOK, PlaceVerdictTable, PlaceCycleTable,
         VerdictTable
<1>4. /\ \A table \in PlaceVerdictTable : PlaceUser(table) \in PlaceVerdictTable
      /\ \A table \in PlaceCycleTable : PlaceUser(table) \in PlaceCycleTable
  BY <1>2, <1>3, AddPlaceParentType DEF PlaceUser, PlaceVerdictTable, PlaceCycleTable
<1>5. \A z \in Zone : PReturn(z) => Searching
  BY PlaceMoves
<1>6. place_ret # << >> => Answer \in Zone
  BY AnswerIsZone
<1>7. CASE KnownFalsePlaceHit
  BY <1>2, <1>3, <1>4, <1>5, <1>7 DEF KnownFalsePlaceHit, tables
<1>8. CASE KnownTruePlaceHit
  <2>1. KnownTruePlaces(pbin, PTop.zone) \subseteq Zone
    <3>1. Xlist_true_ph[pbin].dbms \subseteq SequentPlace
      BY <1>2, <1>3 DEF PlaceVerdictTable, PlaceEntry
    <3> QED
      BY <3>1 DEF KnownTruePlaces, tabled_places, SequentPlace
  <2> QED
    BY <1>3, <1>4, <1>5, <1>8, <2>1 DEF KnownTruePlaceHit, tables
<1>9. CASE GfpPlaceCircularity
  BY <1>2, <1>3, <1>4, <1>5, <1>9, CachePlaceType DEF GfpPlaceCircularity, tables
<1>10. CASE LfpPlaceCircularity
  BY <1>2, <1>3, <1>4, <1>5, <1>10, CachePlaceType DEF LfpPlaceCircularity, tables
<1>11. CASE UnfoldPlace
  <2>1. [Phase(1) EXCEPT !.saved = parentPlaceRef] \in PlaceFrame
    <3>1. Phase(1) \in PlaceFrame
      BY PhaseIsFrame, PointAndInv
    <3> QED
      BY <1>3, <3>1 DEF PlaceFrame
  <2>2. Searching
    BY <1>2, <1>11, <2>1, PlaceMoves DEF UnfoldPlace
  <2>3. Xlist_pGFP_ph' \in PlaceCycleTable /\ Xlist_pLFP_ph' \in PlaceCycleTable
    BY <1>1, <1>3, <1>11, PushPlaceType DEF UnfoldPlace
  <2>4. parentPlaceRef' \in Parent
    BY <1>2, <1>11 DEF UnfoldPlace, Parent
  <2> QED
    BY <1>3, <1>11, <2>2, <2>3, <2>4 DEF UnfoldPlace, placeTables, tables
<1>12. CASE LeavePlacePredicate
  <2>1. place_ret # << >>
    BY <1>12 DEF LeavePlacePredicate, PResuming
  <2> QED
    BY <1>1, <1>2, <1>5, <1>6, <1>12, <2>1, PopPlaceType, UpdatePlaceType
       DEF LeavePlacePredicate
<1> HIDE DEF Goal
<1> QED
  BY <1>7, <1>8, <1>9, <1>10, <1>11, <1>12 DEF do_proof_place_predicate

-----------------------------------------------------------------------------
(***************************************************************************)
(* A zone is never both known true and known false.                        *)
(***************************************************************************)

Apart(true, false) ==
    \A c \in Bin : \A t \in true[c].dbms, e \in false[c].dbms : t.zone # e.zone

\* No pair of new is in another entry than in old, but for pairs of the zone.
Within(new, old, b, zone) ==
    \A c \in Bin : \A e \in new[c].dbms : e \in old[c].dbms \/ (c = b /\ e.zone = zone)

LEMMA AddPlaceParentKeeps ==
    ASSUME NEW table \in PlaceVerdictTable, NEW b \in Bin, NEW parent, NEW parentPlace
    PROVE  \A c \in Bin : addPlaceParent(table, b, parent, parentPlace)[c].dbms = table[c].dbms
<1>1. \A c \in Bin : DOMAIN table[c] = {"dbms", "parents", "parents_with_placeholders"}
  BY DEF PlaceVerdictTable, PlaceEntry
<1> QED
  BY <1>1 DEF addPlaceParent, PlaceVerdictTable

LEMMA CacheTrueWithin ==
    ASSUME NEW table \in PlaceVerdictTable, NEW b \in Bin, NEW zone \in Zone,
           NEW place \in Zone, NEW new \in cache_true_place(table, b, zone, place)
    PROVE  Within(new, table, b, zone)
<1>1. PICK d \in update_place(table[b].dbms, zone, place) :
          new = [table EXCEPT ![b].dbms = d]
  BY DEF cache_true_place
<1>2. \A e \in d : e \in table[b].dbms \/ e.zone = zone
  BY <1>1 DEF update_place, Pair
<1>3. new[b].dbms = d /\ \A c \in Bin \ {b} : new[c] = table[c]
  BY <1>1 DEF PlaceVerdictTable, PlaceEntry
<1> QED
  BY <1>2, <1>3 DEF Within

LEMMA CacheFalseWithin ==
    ASSUME NEW table \in PlaceVerdictTable, NEW b \in Bin, NEW zone \in Zone,
           NEW new \in cache_false_place(table, b, zone)
    PROVE  Within(new, table, b, zone)
<1>1. PICK d \in update_false_place(table[b].dbms, zone) :
          new = [table EXCEPT ![b].dbms = d]
  BY DEF cache_false_place
<1>2. \A e \in d : e \in table[b].dbms \/ e.zone = zone
  BY <1>1 DEF update_false_place, Pair
<1>3. new[b].dbms = d /\ \A c \in Bin \ {b} : new[c] = table[c]
  BY <1>1 DEF PlaceVerdictTable, PlaceEntry
<1> QED
  BY <1>2, <1>3 DEF Within

LEMMA ErasePlacesShrinks ==
    ASSUME NEW table \in PlaceVerdictTable, NEW bins
    PROVE  \A c \in Bin : ErasePlaces(table, bins)[c].dbms \subseteq table[c].dbms
  BY DEF ErasePlaces, NoPlaceSequent

\* The entry a purge starts from loses the pairs it is about, the others at most
\* shrink.
LEMMA WithoutPlacesShrinks ==
    ASSUME NEW table \in PlaceVerdictTable, NEW b \in Bin, NEW removed
    PROVE  LET new == [table EXCEPT ![b] = WithoutPlaces(@, removed)]
           IN  /\ new \in PlaceVerdictTable
               /\ \A c \in Bin : new[c].dbms \subseteq table[c].dbms
               /\ new[b].dbms \cap removed = {}
<1> DEFINE entry == WithoutPlaces(table[b], removed)
<1>1. table[b] \in PlaceEntry(SUBSET SequentPlace)
  BY DEF PlaceVerdictTable
<1>2. entry \in PlaceEntry(SUBSET SequentPlace)
  BY <1>1 DEF WithoutPlaces, PlaceEntry, NoPlaceSequent
<1>3. entry.dbms = table[b].dbms \ removed
  BY <1>1 DEF WithoutPlaces, PlaceEntry, NoPlaceSequent
<1> HIDE DEF entry
<1>4. [table EXCEPT ![b] = WithoutPlaces(@, removed)] = [table EXCEPT ![b] = entry]
  BY DEF entry
<1> QED
  BY <1>2, <1>3, <1>4 DEF PlaceVerdictTable

LEMMA PurgesSeparate ==
    ASSUME PlaceTypeOK, NEW b \in Bin, NEW zone \in Zone
    PROVE  /\ LET purged == purge_true_place(b, zone)
              IN  /\ \A c \in Bin : /\ purged.true_ph[c].dbms \subseteq Xlist_true_ph[c].dbms
                                    /\ purged.false_ph[c].dbms \subseteq Xlist_false_ph[c].dbms
                  /\ \A e \in purged.true_ph[b].dbms : e.zone # zone
           /\ LET purged == purge_false_place(b, zone)
              IN  /\ \A c \in Bin : /\ purged.true_ph[c].dbms \subseteq Xlist_true_ph[c].dbms
                                    /\ purged.false_ph[c].dbms \subseteq Xlist_false_ph[c].dbms
                  /\ \A e \in purged.false_ph[b].dbms : e.zone # zone
<1>1. Xlist_true_ph \in PlaceVerdictTable /\ Xlist_false_ph \in PlaceVerdictTable
  BY DEF PlaceTypeOK, PlaceCacheTypeOK, PlaceVerdictTable
<1> DEFINE refuted == RefutedPlaces(Xlist_true_ph[b].dbms, zone)
           proved == ProvedPlaces(Xlist_false_ph[b].dbms, zone)
           trues == [Xlist_true_ph EXCEPT ![b] = WithoutPlaces(@, refuted)]
           falses == [Xlist_false_ph EXCEPT ![b] = WithoutPlaces(@, proved)]
<1>2. /\ trues \in PlaceVerdictTable /\ falses \in PlaceVerdictTable
      /\ \A c \in Bin : /\ trues[c].dbms \subseteq Xlist_true_ph[c].dbms
                        /\ falses[c].dbms \subseteq Xlist_false_ph[c].dbms
      /\ trues[b].dbms \cap refuted = {} /\ falses[b].dbms \cap proved = {}
  BY <1>1, WithoutPlacesShrinks
<1>3. \A e \in Xlist_true_ph[b].dbms \ refuted : e.zone # zone
  BY DEF RefutedPlaces
<1>4. \A e \in Xlist_false_ph[b].dbms \ proved : e.zone # zone
  BY DEF ProvedPlaces
<1>5. PICK users : /\ purge_true_place(b, zone).true_ph = ErasePlaces(trues, users)
                   /\ purge_true_place(b, zone).false_ph = ErasePlaces(Xlist_false_ph, users)
  BY DEF purge_true_place, PurgePlaceParents
<1>6. PICK parents : /\ purge_false_place(b, zone).true_ph = ErasePlaces(Xlist_true_ph, parents)
                     /\ purge_false_place(b, zone).false_ph = ErasePlaces(falses, parents)
  BY DEF purge_false_place, PurgePlaceParents
<1> HIDE DEF refuted, proved, trues, falses
<1>7. \A c \in Bin : /\ ErasePlaces(trues, users)[c].dbms \subseteq trues[c].dbms
                     /\ ErasePlaces(Xlist_false_ph, users)[c].dbms \subseteq Xlist_false_ph[c].dbms
                     /\ ErasePlaces(Xlist_true_ph, parents)[c].dbms \subseteq Xlist_true_ph[c].dbms
                     /\ ErasePlaces(falses, parents)[c].dbms \subseteq falses[c].dbms
  BY <1>1, <1>2, ErasePlacesShrinks
<1>8. \A e \in trues[b].dbms : e.zone # zone
  BY <1>2, <1>3
<1>9. \A e \in falses[b].dbms : e.zone # zone
  BY <1>2, <1>4
<1> QED
  BY <1>2, <1>5, <1>6, <1>7, <1>8, <1>9

LEMMA UpdatePlaceApart ==
    ASSUME TypeOK, PlaceTypeOK, PlaceCachesConsistent, pbin \in Bin, PTop.zone \in Zone,
           Answer \in Zone, UpdatePlaceCaches
    PROVE  PlaceCachesConsistent'
<1> DEFINE zone == PTop.zone
<1>1. Xlist_true_ph \in PlaceVerdictTable /\ Xlist_false_ph \in PlaceVerdictTable
  BY DEF PlaceTypeOK, PlaceCacheTypeOK, PlaceVerdictTable
<1>2. SUFFICES Apart(Xlist_true_ph', Xlist_false_ph')
  BY DEF Apart, PlaceCachesConsistent
<1>3. Apart(Xlist_true_ph, Xlist_false_ph)
  BY DEF Apart, PlaceCachesConsistent
<1>4. CASE ~useCaching
  BY <1>3, <1>4 DEF UpdatePlaceCaches, placeTables
<1>5. CASE useCaching /\ Answer # {}
  <2> DEFINE purged == purge_false_place(pbin, zone)
  <2>1. purged.true_ph \in PlaceVerdictTable
    BY PurgePlaceType DEF Purging
  <2>2. /\ Xlist_true_ph' \in cache_true_place(purged.true_ph, pbin, zone, Answer)
        /\ Xlist_false_ph' = purged.false_ph
    BY <1>5 DEF UpdatePlaceCaches
  <2>3. /\ \A c \in Bin : /\ purged.true_ph[c].dbms \subseteq Xlist_true_ph[c].dbms
                          /\ purged.false_ph[c].dbms \subseteq Xlist_false_ph[c].dbms
        /\ \A e \in purged.false_ph[pbin].dbms : e.zone # zone
    BY PurgesSeparate
  <2> HIDE DEF purged
  <2>4. Within(Xlist_true_ph', purged.true_ph, pbin, zone)
    BY <2>1, <2>2, CacheTrueWithin
  <2> QED
    BY <1>3, <2>2, <2>3, <2>4 DEF Apart, Within
<1>6. CASE useCaching /\ Answer = {}
  <2> DEFINE purged == purge_true_place(pbin, zone)
  <2>1. purged.false_ph \in PlaceVerdictTable
    BY PurgePlaceType DEF Purging
  <2>2. /\ Xlist_false_ph' \in cache_false_place(purged.false_ph, pbin, zone)
        /\ Xlist_true_ph' = purged.true_ph
    BY <1>6 DEF UpdatePlaceCaches
  <2>3. /\ \A c \in Bin : /\ purged.true_ph[c].dbms \subseteq Xlist_true_ph[c].dbms
                          /\ purged.false_ph[c].dbms \subseteq Xlist_false_ph[c].dbms
        /\ \A e \in purged.true_ph[pbin].dbms : e.zone # zone
    BY PurgesSeparate
  <2> HIDE DEF purged
  <2>4. Within(Xlist_false_ph', purged.false_ph, pbin, zone)
    BY <2>1, <2>2, CacheFalseWithin
  <2> QED
    BY <1>3, <2>2, <2>3, <2>4 DEF Apart, Within
<1> QED
  BY <1>4, <1>5, <1>6

\* The circularity rules insert without purging: that no pair for the zone is
\* known (PlaceKnown) is what keeps the tables apart.
LEMMA PredicateApart ==
    ASSUME TypeOK, PlaceTypeOK, PlaceCachesConsistent, pstack # << >>, do_proof_place_predicate
    PROVE  PlaceCachesConsistent'
<1>1. PTop.formula.op = "PREDICATE"
  BY DEF do_proof_place_predicate, KnownFalsePlaceHit, KnownTruePlaceHit, GfpPlaceCircularity,
         LfpPlaceCircularity, UnfoldPlace, LeavePlacePredicate, PEntering, PResuming
<1>2. pbin \in Bin /\ PTop.zone \in Zone /\ PTop.place \in Zone
  BY <1>1, PlacePredicateTop, TopIsFrame
<1>3. Xlist_true_ph \in PlaceVerdictTable /\ Xlist_false_ph \in PlaceVerdictTable
  BY DEF PlaceTypeOK, PlaceCacheTypeOK, PlaceVerdictTable
<1>4. SUFFICES Apart(Xlist_true_ph', Xlist_false_ph')
  BY DEF Apart, PlaceCachesConsistent
<1>5. Apart(Xlist_true_ph, Xlist_false_ph)
  BY DEF Apart, PlaceCachesConsistent
<1>6. /\ \A c \in Bin : PlaceUser(Xlist_true_ph)[c].dbms = Xlist_true_ph[c].dbms
      /\ \A c \in Bin : PlaceUser(Xlist_false_ph)[c].dbms = Xlist_false_ph[c].dbms
  BY <1>2, <1>3, AddPlaceParentKeeps DEF PlaceUser
<1>7. CASE KnownFalsePlaceHit
  BY <1>5, <1>6, <1>7 DEF KnownFalsePlaceHit, Apart
<1>8. CASE KnownTruePlaceHit
  <2>1. /\ Xlist_false_ph' = Xlist_false_ph
        /\ Xlist_true_ph' \in {Xlist_true_ph, PlaceUser(Xlist_true_ph)}
    BY <1>8 DEF KnownTruePlaceHit
  <2> QED
    BY <1>5, <1>6, <2>1 DEF Apart
<1>9. CASE GfpPlaceCircularity
  <2>1. CASE useCaching
    <3>1. Within(Xlist_true_ph', Xlist_true_ph, pbin, PTop.zone)
      BY <1>2, <1>3, <1>9, <2>1, CacheTrueWithin DEF GfpPlaceCircularity
    <3>2. \A e \in Xlist_false_ph[pbin].dbms : e.zone # PTop.zone
      BY <1>9, <2>1 DEF GfpPlaceCircularity, PlaceKnown, KnownFalsePlace, tabled_false_place
    <3>3. Xlist_false_ph' = Xlist_false_ph
      BY <1>9 DEF GfpPlaceCircularity
    <3> QED
      BY <1>5, <3>1, <3>2, <3>3 DEF Apart, Within
  <2> QED
    BY <1>5, <1>9, <2>1 DEF GfpPlaceCircularity
<1>10. CASE LfpPlaceCircularity
  <2>1. CASE useCaching
    <3>1. Within(Xlist_false_ph', Xlist_false_ph, pbin, PTop.zone)
      BY <1>2, <1>3, <1>10, <2>1, CacheFalseWithin DEF LfpPlaceCircularity
    <3>2. \A e \in Xlist_true_ph[pbin].dbms : e.zone # PTop.zone
      BY <1>10, <2>1 DEF LfpPlaceCircularity, PlaceKnown, KnownTruePlaces, tabled_places
    <3>3. Xlist_true_ph' = Xlist_true_ph
      BY <1>10 DEF LfpPlaceCircularity
    <3> QED
      BY <1>5, <3>1, <3>2, <3>3 DEF Apart, Within
  <2> QED
    BY <1>5, <1>10, <2>1 DEF LfpPlaceCircularity
<1>11. CASE UnfoldPlace
  BY <1>5, <1>11 DEF UnfoldPlace, placeTables
<1>12. CASE LeavePlacePredicate
  <2>1. Answer \in Zone
    BY <1>12, AnswerIsZone DEF LeavePlacePredicate, PResuming
  <2>2. PlaceCachesConsistent'
    BY <1>2, <1>12, <2>1, UpdatePlaceApart DEF LeavePlacePredicate
  <2> QED
    BY <2>2 DEF PlaceCachesConsistent, Apart
<1> QED
  BY <1>7, <1>8, <1>9, <1>10, <1>11, <1>12 DEF do_proof_place_predicate

-----------------------------------------------------------------------------
\* A splitting rule asks for a placeholder, returns or hands on.
Splitting == /\ TypeOK'
             /\ Searching
             /\ kept' \in Zone
             /\ parentPlaceRef' \in Parent

LEMMA SplitMoves ==
    ASSUME FullTypeOK, stack # << >>, parentPlaceRef' \in Parent, kept' \in Zone,
           UNCHANGED <<input_pes, parentRef, cacheVars>>
    PROVE  /\ \A k \in Nat, call \in PlaceFrame : AskPlace(k, call) => Splitting
           /\ \A b \in BOOLEAN : AnswerWith(b) => Splitting
           /\ \A f \in Formula, zone \in Zone : ContinueWith(f, zone) => Splitting
<1>1. /\ stack \in Seq(Frame) /\ Top \in Frame /\ Top.loc \in Loc
      /\ ret \in {"none", Valid, Invalid}
      /\ pstack \in Seq(PlaceFrame)
  BY StackNonempty DEF FullTypeOK, TypeOK, PlaceTypeOK, Frame
<1>2. /\ input_pes' \in Systems /\ parentRef' \in Parent /\ CacheTypeOK'
  BY DEF FullTypeOK, TypeOK, CacheTypeOK, cacheVars, tables
<1>3. stack' \in Seq(Frame) /\ ret' \in {"none", Valid, Invalid} /\ Searching => Splitting
  BY <1>2 DEF Splitting, TypeOK
<1>4. ASSUME NEW k \in Nat, NEW call \in PlaceFrame, AskPlace(k, call)
      PROVE  Splitting
  <2>1. [Top EXCEPT !.next = k] \in Frame
    BY <1>1 DEF Frame
  <2>2. stack' = [stack EXCEPT ![Len(stack)] = [Top EXCEPT !.next = k]]
    BY <1>4 DEF AskPlace, Top
  <2>3. stack' \in Seq(Frame)
    BY <1>1, <2>1, <2>2, ReplaceLast
  <2>4. <<call>> \in Seq(PlaceFrame)
    OBVIOUS
  <2> QED
    BY <1>1, <1>3, <1>4, <2>3, <2>4 DEF AskPlace, Searching
<1>5. ASSUME NEW b \in BOOLEAN, AnswerWith(b)
      PROVE  Splitting
  <2>1. Popped /\ ret' = Verdict(b) /\ place_ret' = << >> /\ pstack' = pstack
    BY <1>5 DEF AnswerWith, Use, Return, Popped
  <2>2. stack' \in Seq(Frame)
    BY <1>1, <2>1, PoppedStack
  <2> QED
    BY <1>1, <1>3, <2>1, <2>2 DEF Verdict, Searching
<1>6. ASSUME NEW f \in Formula, NEW zone \in Zone, ContinueWith(f, zone)
      PROVE  Splitting
  <2>1. Call(f, Top.loc, zone) \in Frame
    BY <1>1, CallIsFresh DEF Fresh
  <2>2. /\ Replaced(Call(f, Top.loc, zone)) /\ ret' = "none"
        /\ place_ret' = << >> /\ pstack' = pstack
    BY <1>6 DEF ContinueWith, Use, TailCall, Replaced
  <2>3. stack' \in Seq(Frame)
    BY <1>1, <2>1, <2>2, ReplacedStack
  <2> QED
    BY <1>1, <1>3, <2>2, <2>3 DEF Searching
<1> QED
  BY <1>4, <1>5, <1>6

LEMMA SplittingTypes ==
    ASSUME FullTypeOK, stack # << >>, SplittingRule,
           UNCHANGED <<input_pes, parentRef, cacheVars>>
    PROVE  Splitting
<1> DEFINE f == Top.formula
<1>1. /\ f \in Formula /\ Top.loc \in Loc /\ Top.zone \in Zone /\ Top.next \in Nat
      /\ Inv[Top.loc] \in Zone /\ Point \in Zone /\ {} \in Zone
  BY StackNonempty, PointAndInv DEF FullTypeOK, TypeOK, Frame, Zone
<1>2. kept \in Zone /\ parentPlaceRef \in Parent /\ NoParent \in Parent
  BY DEF FullTypeOK, PlaceTypeOK, Parent
<1>3. place_ret # << >> => Answer \in Zone
  BY AnswerIsZone DEF FullTypeOK
<1>4. /\ f.op \in {"OR", "EXISTS_REL", "FORALL_REL"} => f.left \in Formula /\ f.right \in Formula
      /\ f.op = "EXISTS" => f.quant \in Formula
      /\ f.op = "EXISTACT" => f.quant \in Bodies
  BY <1>1, SplitAssumption DEF Bodies
<1>5. ASSUME NEW g \in Formula, NEW place \in Zone
      PROVE  /\ PlaceCall(g, Top.loc, Top.zone, place) \in PlaceFrame
             /\ PlaceCall(g, Top.loc, Successors(Top.zone), place) \in PlaceFrame
  BY <1>1, FormulasArePlaceFormulas, TimeIsZone, CallIsFrame
<1>6. parentPlaceRef' \in Parent
  BY <1>2 DEF SplittingRule, do_proof_or, do_proof_exists, do_proof_exists_rel,
              do_proof_forall_rel, do_proof_existact
<1>7. ASSUME kept' \in Zone
      PROVE  /\ \A k \in Nat, call \in PlaceFrame : AskPlace(k, call) => Splitting
             /\ \A b \in BOOLEAN : AnswerWith(b) => Splitting
             /\ \A g \in Formula, zone \in Zone : ContinueWith(g, zone) => Splitting
  BY <1>6, <1>7, SplitMoves
<1>8. ASSUME kept' \in Zone
      PROVE  \A k \in Nat, g \in Formula, place \in Zone :
                 AskHere(k, g) \/ AskDelayed(k, g, place) => Splitting
  BY <1>1, <1>5, <1>7, <1>8 DEF AskHere, AskDelayed
<1>9. Elapse(Top.zone, Top.loc) \in Zone
  BY <1>1, ElapseIsZone
<1>10. CASE do_proof_or
  <2>1. f.left \in Formula /\ f.right \in Formula /\ kept' \in Zone
    BY <1>1, <1>2, <1>3, <1>4, <1>10 DEF do_proof_or, Begins, PlaceDone
  <2>2. \/ \E b \in BOOLEAN : AnswerWith(b)
        \/ ContinueWith(f.right, Top.zone)
        \/ AskHere(1, f.left)
        \/ AskHere(2, f.right)
    BY <1>10 DEF do_proof_or
  <2> QED
    BY <1>1, <1>7, <1>8, <2>1, <2>2
<1>11. CASE do_proof_exists
  <2>1. f.quant \in Formula /\ kept' \in Zone
    BY <1>2, <1>4, <1>11 DEF do_proof_exists, Begins, PlaceDone
  <2>2. \/ \E b \in BOOLEAN : AnswerWith(b)
        \/ AskDelayed(1, f.quant, Inv[Top.loc])
    BY <1>11 DEF do_proof_exists
  <2> QED
    BY <1>1, <1>7, <1>8, <2>1, <2>2
<1>12. CASE do_proof_exists_rel
  <2>1. f.left \in Formula /\ f.right \in Formula /\ kept' \in Zone
    BY <1>1, <1>2, <1>3, <1>4, <1>12 DEF do_proof_exists_rel, Begins, PlaceDone
  <2>2. \/ \E b \in BOOLEAN : AnswerWith(b)
        \/ AskDelayed(1, f.right, Inv[Top.loc])
        \/ AskDelayed(2, f.left, Point)
    BY <1>12 DEF do_proof_exists_rel
  <2> QED
    BY <1>1, <1>7, <1>8, <2>1, <2>2
<1>13. CASE do_proof_forall_rel
  <2>1. f.left \in Formula /\ f.right \in Formula /\ kept' \in Zone
    BY <1>1, <1>2, <1>3, <1>4, <1>13 DEF do_proof_forall_rel, Begins, PlaceDone
  <2>2. \/ \E b \in BOOLEAN : AnswerWith(b)
        \/ ContinueWith(f.right, Elapse(Top.zone, Top.loc))
        \/ ContinueWith(f.right, Top.zone)
        \/ AskDelayed(1, f.left, Inv[Top.loc])
        \/ AskDelayed(2, f.right, Inv[Top.loc])
    BY <1>13 DEF do_proof_forall_rel
  <2> QED
    BY <1>1, <1>7, <1>8, <1>9, <2>1, <2>2
<1>14. CASE do_proof_existact
  <2>1. f.quant \in Bodies
    BY <1>4, <1>14 DEF do_proof_existact, Begins, PlaceDone
  <2>2. ASSUME NEW from \in Nat \ {0}, NEW found \in Zone, TryTransitions(from, found)
        PROVE  Splitting
    <3>1. kept' \in Zone
      BY <1>1, <2>2 DEF TryTransitions
    <3>2. CASE AnswerWith(Top.zone \subseteq found)
      BY <1>7, <3>1, <3>2
    <3>3. ASSUME NEW k \in ExistactPending(Top, Point, from),
                 AskPlace(k, AlongTransition(Top, k,
                               GuardedPlace(Transitions[k], Top.zone, Point)))
          PROVE  Splitting
      <4>1. k \in 1..Len(Transitions)
        <5>1. k \in from..Len(Transitions)
          BY <3>3 DEF ExistactPending
        <5>2. Len(Transitions) \in Nat
          BY AutomatonAssumption, LenProperties
        <5> QED
          BY <5>1, <5>2
      <4>2. GuardedPlace(Transitions[k], Top.zone, Point) \in Zone
        BY <1>1, <2>1, <4>1, AlongIsFrame
      <4>3. AlongTransition(Top, k, GuardedPlace(Transitions[k], Top.zone, Point)) \in PlaceFrame
        BY <1>1, <2>1, <4>1, <4>2, AlongIsFrame
      <4>4. k \in Nat
        BY <4>1
      <4> QED
        BY <1>7, <3>1, <3>3, <4>3, <4>4
    <3> QED
      BY <2>2, <3>2, <3>3 DEF TryTransitions
  <2>3. CASE TryTransitions(1, {})
    BY <1>1, <2>2, <2>3
  <2>4. CASE place_ret # << >> /\ AnswerWith(TRUE) /\ kept' = {}
    BY <1>1, <1>7, <2>4
  <2>5. CASE place_ret # << >> /\ TryTransitions(Top.next + 1, kept \cup Answer)
    <3>1. kept \cup Answer \in Zone
      BY <1>2, <1>3, <2>5 DEF Zone
    <3>2. Top.next + 1 \in Nat \ {0}
      BY <1>1
    <3> QED
      BY <2>2, <2>5, <3>1, <3>2
  <2> QED
    BY <1>14, <2>3, <2>4, <2>5 DEF do_proof_existact, PlaceDone
<1> QED
  BY <1>10, <1>11, <1>12, <1>13, <1>14 DEF SplittingRule

LEMMA FullInitTypes == FullInit => FullTypeOK
<1> SUFFICES ASSUME FullInit PROVE FullTypeOK
  OBVIOUS
<1>1. TypeOK
  BY InitTypes DEF FullInit
<1>2. PlaceTypeOK
  <2>1. /\ NoPlaceSequent \in PlaceEntry(SUBSET SequentPlace)
        /\ NoPlaceCycle \in PlaceEntry(Seq(SequentPlace))
    <3>1. << >> \in Seq(SequentPlace)
      OBVIOUS
    <3> QED
      BY <3>1 DEF NoPlaceSequent, NoPlaceCycle, PlaceEntry
  <2>2. << >> \in Seq(PlaceFrame)
    OBVIOUS
  <2> QED
    BY <2>1, <2>2 DEF FullInit, PlaceInit, PlaceTypeOK, PlaceCacheInit, PlaceCacheTypeOK, Parent
<1> QED
  BY <1>1, <1>2 DEF FullInit, FullTypeOK, Zone

LEMMA FullNextTypes == FullTypeOK /\ [FullNext]_fullVars => FullTypeOK'
<1> SUFFICES ASSUME FullTypeOK, [FullNext]_fullVars
             PROVE  FullTypeOK'
  OBVIOUS
<1>1. TypeOK /\ PlaceTypeOK /\ kept \in Zone
  BY DEF FullTypeOK
<1>2. ASSUME UNCHANGED placeVars PROVE PlaceTypeOK'
  BY <1>1, <1>2 DEF PlaceTypeOK, PlaceCacheTypeOK, placeVars, searchVars, placeCacheVars, placeTables
<1>3. CASE UNCHANGED fullVars
  BY <1>1, <1>2, <1>3, NextTypes DEF FullTypeOK, fullVars
<1>4. CASE Next /\ UNCHANGED <<placeVars, kept>>
  BY <1>1, <1>2, <1>4, NextTypes DEF FullTypeOK
<1>5. CASE do_proof_place /\ UNCHANGED kept
  <2>1. /\ pstack # << >>
        /\ UNCHANGED <<input_pes, stack, ret, parentRef, Xlist_pGFP, Xlist_pLFP>>
    BY <1>5 DEF do_proof_place
  <2>2. \/ do_proof_place_predicate
        \/ PlaceConnective /\ UNCHANGED <<parentPlaceRef, placeCacheVars, tables>>
        \/ /\ do_proof_place_exists_rel \/ do_proof_place_forall_rel
           /\ UNCHANGED <<placeCacheVars, tables>>
    BY <1>5 DEF do_proof_place
  <2>3. UNCHANGED placeCacheVars => PlaceCacheTypeOK'
    BY <1>1 DEF PlaceTypeOK, PlaceCacheTypeOK, placeCacheVars, placeTables
  <2>4. Xlist_true' \in VerdictTable /\ Xlist_false' \in VerdictTable => TypeOK'
    BY <1>1, <2>1 DEF TypeOK, CacheTypeOK, VerdictTable
  <2>5. UNCHANGED tables => TypeOK'
    BY <1>1, <2>1 DEF TypeOK, CacheTypeOK, tables
  <2>6. CASE do_proof_place_predicate
    <3>1. /\ Searching
          /\ parentPlaceRef' \in Parent
          /\ Xlist_pGFP_ph' \in PlaceCycleTable /\ Xlist_pLFP_ph' \in PlaceCycleTable
          /\ Xlist_true_ph' \in PlaceVerdictTable /\ Xlist_false_ph' \in PlaceVerdictTable
          /\ Xlist_true' \in VerdictTable /\ Xlist_false' \in VerdictTable
      BY <1>1, <2>1, <2>6, PredicatePlaceTypes
    <3>2. PlaceTypeOK'
      BY <3>1 DEF PlaceTypeOK, PlaceCacheTypeOK, PlaceCycleTable, PlaceVerdictTable, Searching
    <3> QED
      BY <1>1, <1>5, <2>4, <3>1, <3>2 DEF FullTypeOK
  <2>7. CASE PlaceConnective /\ UNCHANGED <<parentPlaceRef, placeCacheVars, tables>>
    <3>1. Searching
      BY <1>1, <2>1, <2>7, ConnectivePlaceTypes
    <3>2. PlaceTypeOK'
      BY <1>1, <2>3, <2>7, <3>1 DEF PlaceTypeOK, Searching
    <3> QED
      BY <1>1, <1>5, <2>5, <2>7, <3>2 DEF FullTypeOK
  <2>8. CASE /\ do_proof_place_exists_rel \/ do_proof_place_forall_rel
             /\ UNCHANGED <<placeCacheVars, tables>>
    <3>1. Searching /\ parentPlaceRef' \in Parent
      BY <1>1, <2>1, <2>8, RelativisedPlaceTypes
    <3>2. PlaceTypeOK'
      BY <2>3, <2>8, <3>1 DEF PlaceTypeOK, Searching
    <3> QED
      BY <1>1, <1>5, <2>5, <2>8, <3>2 DEF FullTypeOK
  <2> QED
    BY <2>2, <2>6, <2>7, <2>8
<1>6. CASE /\ stack # << >>
           /\ SplittingRule
           /\ UNCHANGED <<input_pes, parentRef, cacheVars, placeCacheVars>>
  <2>1. Splitting
    BY <1>6, SplittingTypes
  <2>2. PlaceCacheTypeOK'
    BY <1>1, <1>6 DEF PlaceTypeOK, PlaceCacheTypeOK, placeCacheVars, placeTables
  <2> QED
    BY <2>1, <2>2 DEF Splitting, Searching, PlaceTypeOK, FullTypeOK
<1> QED
  BY <1>3, <1>4, <1>5, <1>6 DEF FullNext

(* The whole search keeps its state well typed, whatever the input: every    *)
(* zone and placeholder a rule computes is a set of valuations, every child  *)
(* call is one of a subformula or of what a transition makes of one, and no  *)
(* null parent enters a list of parents with placeholders (proof.hh,         *)
(* do_proof and do_proof_place).                                             *)
THEOREM FullTypeCorrect == FullSpec => []FullTypeOK
<1>1. FullInit => FullTypeOK
  BY FullInitTypes
<1>2. FullTypeOK /\ [FullNext]_fullVars => FullTypeOK'
  BY FullNextTypes
<1> QED
  BY <1>1, <1>2, PTL DEF FullSpec

(* No zone is both known true and known false with a placeholder, whatever   *)
(* the input: an answer purges the opposite table before it is inserted, and *)
(* a circularity is only inserted where the opposite table has nothing for   *)
(* the zone (proof.hh, do_proof_place_predicate; sequent_cache.hh).          *)
THEOREM ConsistentPlaceTables == FullSpec => []PlaceCachesConsistent
<1>1. FullInit => PlaceCachesConsistent
  BY DEF FullInit, PlaceInit, PlaceCacheInit, NoPlaceSequent, PlaceCachesConsistent
<1>2. FullTypeOK /\ PlaceCachesConsistent /\ [FullNext]_fullVars => PlaceCachesConsistent'
  <2> SUFFICES ASSUME FullTypeOK, PlaceCachesConsistent, [FullNext]_fullVars
               PROVE  PlaceCachesConsistent'
    OBVIOUS
  <2>1. CASE UNCHANGED placeTables
    BY <2>1 DEF PlaceCachesConsistent, placeTables
  <2>2. CASE do_proof_place_predicate /\ pstack # << >>
    BY <2>2, PredicateApart DEF FullTypeOK
  <2>3. UNCHANGED placeTables \/ (do_proof_place_predicate /\ pstack # << >>)
    BY DEF FullNext, fullVars, placeVars, placeCacheVars, placeTables, do_proof_place
  <2> QED
    BY <2>1, <2>2, <2>3
<1>3. FullTypeOK /\ [FullNext]_fullVars => FullTypeOK'
  BY FullNextTypes
<1> QED
  BY <1>1, <1>2, <1>3, FullInitTypes, PTL DEF FullSpec

-----------------------------------------------------------------------------
(***************************************************************************)
(* What the two side conditions compute, for every automaton and every     *)
(* placeholder.                                                            *)
(***************************************************************************)

(* The side condition of the existential until keeps exactly the valuations  *)
(* that are reached from the zone through placeholder1 only: whatever delay  *)
(* leads there starts in placeholder1.  Cutting off the strict successors of *)
(* the bad valuations loses nothing else (proof.hh,                          *)
(* establish_exists_rel_sidecondition).                                      *)
THEOREM ExistsRelSideConditionExact ==
    ASSUME NEW zone \in Zone, NEW placeholder1 \in Zone, NEW placeholder2 \in Zone
    PROVE  establish_exists_rel_sidecondition(zone, placeholder1, placeholder2)
             = {q \in placeholder2 : \A r \in Successors(zone) :
                                        q \in Strictly[r] => r \in placeholder1}
<1> DEFINE bad == (Successors(zone) \cap StrictPredecessors(placeholder2)) \ placeholder1
<1>1. Successors(zone) \subseteq Point
  BY AutomatonAssumption DEF Successors, Zone
<1>2. ASSUME NEW q \in placeholder2, NEW r \in Successors(zone), q \in Strictly[r]
      PROVE  r \in bad <=> r \notin placeholder1
  BY <1>1, <1>2 DEF StrictPredecessors
<1>3. ASSUME NEW q \in placeholder2
      PROVE  q \notin StrictSuccessors(bad)
               <=> \A r \in Successors(zone) : q \in Strictly[r] => r \in placeholder1
  <2>1. q \in StrictSuccessors(bad) <=> \E r \in bad : q \in Strictly[r]
    BY DEF StrictSuccessors
  <2>2. bad \subseteq Successors(zone)
    OBVIOUS
  <2>. QED
    BY <1>2, <2>1, <2>2
<1>4. bad = {} => StrictSuccessors(bad) = {}
  BY DEF StrictSuccessors
<1>5. establish_exists_rel_sidecondition(zone, placeholder1, placeholder2)
        = placeholder2 \ StrictSuccessors(bad)
  BY <1>4 DEF establish_exists_rel_sidecondition
<1>. HIDE DEF bad
<1>. QED
  BY <1>3, <1>5

-----------------------------------------------------------------------------
(* What must not be reached from an allowed valuation of the zone. *)
LEMMA RestrictedPoints ==
    ASSUME NEW zone \in Zone, NEW allowed \in Zone, NEW p \in zone
    PROVE  p \in Restricted(zone, allowed) <=> Later[p] \subseteq allowed
<1> DEFINE reached == Successors(zone \cap allowed)
<1>1. p \in Point /\ p \in Later[p] /\ Later[p] \subseteq Point
  BY AutomatonAssumption, TimeAssumption DEF Zone
<1>2. p \in Successors(zone)
  BY <1>1 DEF Successors
<1>3. p \in allowed => Later[p] \subseteq reached
  BY DEF Successors
<1>4. p \in Predecessors(reached \ allowed) <=> Later[p] \cap (reached \ allowed) # {}
  BY <1>1 DEF Predecessors
<1>5. p \in Restricted(zone, allowed)
        <=> p \in allowed /\ Later[p] \cap (reached \ allowed) = {}
  BY <1>2, <1>4 DEF Restricted
<1>. HIDE DEF reached
<1>. QED
  BY <1>1, <1>3, <1>5

(* The second attempt of the side condition of the universal quantifier      *)
(* cannot fail: what is left after removing the predecessors of the          *)
(* forbidden valuations reaches none of them.  The last branch, which gives  *)
(* up and answers the empty placeholder, is never taken (proof.hh,           *)
(* establish_forall_place_sidecondition).                                    *)
THEOREM ForallSideConditionNeverGivesUp ==
    ASSUME NEW zone \in Zone, NEW allowed \in Zone
    PROVE  Successors(zone \cap Restricted(zone, allowed)) \subseteq allowed
BY RestrictedPoints DEF Successors

(* The side condition of the universal quantifier keeps exactly the          *)
(* valuations of the zone all of whose delays, as long as the invariant      *)
(* lasts, stay in the placeholder.                                           *)
THEOREM ForallSideConditionExact ==
    ASSUME NEW zone \in Zone, NEW discrete_state \in Loc, NEW placeholder2 \in Zone
    PROVE  zone \cap establish_forall_place_sidecondition(zone, discrete_state, placeholder2)
             = {p \in zone : Later[p] \cap Inv[discrete_state] \subseteq placeholder2}
<1> DEFINE allowed == Allowed(discrete_state, placeholder2)
<1>1. allowed \in Zone
  BY DEF Allowed, Zone
<1>2. ASSUME NEW p \in zone
      PROVE  /\ p \in Later[p] /\ Later[p] \subseteq Point
             /\ Later[p] \subseteq allowed
                  <=> Later[p] \cap Inv[discrete_state] \subseteq placeholder2
  BY AutomatonAssumption, TimeAssumption DEF Allowed, Zone
<1>3. CASE Successors(zone \cap allowed) \subseteq allowed
  <2>1. establish_forall_place_sidecondition(zone, discrete_state, placeholder2) = allowed
    BY <1>3 DEF establish_forall_place_sidecondition
  <2>2. ASSUME NEW p \in zone
        PROVE  p \in allowed <=> Later[p] \subseteq allowed
    BY <1>2, <1>3 DEF Successors
  <2>. HIDE DEF allowed
  <2>. QED
    BY <1>2, <2>1, <2>2
<1>4. CASE ~(Successors(zone \cap allowed) \subseteq allowed)
  <2>1. establish_forall_place_sidecondition(zone, discrete_state, placeholder2)
          = Restricted(zone, allowed)
    BY <1>1, <1>4, ForallSideConditionNeverGivesUp DEF establish_forall_place_sidecondition
  <2>. HIDE DEF allowed
  <2>. QED
    BY <1>1, <1>2, <2>1, RestrictedPoints
<1>. QED
  BY <1>3, <1>4

=============================================================================
