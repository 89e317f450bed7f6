---------------------------- MODULE ProverProofs ----------------------------
(***************************************************************************)
(* Theorems about the proof search of Prover, for every equation system,   *)
(* automaton, abstraction and depth bound.                                 *)
(***************************************************************************)
EXTENDS Prover, SequenceTheorems, TLAPS

-----------------------------------------------------------------------------
(***************************************************************************)
(* What the three moves of a call do to a sequence.                        *)
(***************************************************************************)

\* Removing the last element.
LEMMA PopSeq ==
    ASSUME NEW S, NEW s \in Seq(S), s # << >>
    PROVE  /\ SubSeq(s, 1, Len(s) - 1) \in Seq(S)
           /\ Len(SubSeq(s, 1, Len(s) - 1)) = Len(s) - 1
           /\ \A i \in 1..(Len(s) - 1) : SubSeq(s, 1, Len(s) - 1)[i] = s[i]
<1>1. Len(s) \in Nat \ {0}
  BY EmptySeq, LenProperties
<1>2. \A i \in 1..(Len(s) - 1) : s[i] \in S
  BY <1>1, ElementOfSeq
<1>3. /\ 1 \in Int
      /\ Len(s) - 1 \in Int
      /\ \A i \in 1..(Len(s) - 1) : 1 + i - 1 = i
      /\ (Len(s) - 1) - 1 + 1 = Len(s) - 1
  BY <1>1
<1> DEFINE n == Len(s) - 1
<1>4. /\ SubSeq(s, 1, n) \in Seq(S)
      /\ Len(SubSeq(s, 1, n)) = IF 1 <= n THEN n - 1 + 1 ELSE 0
      /\ \A i \in 1..(n - 1 + 1) : SubSeq(s, 1, n)[i] = s[1 + i - 1]
  <2> HIDE DEF n
  <2> QED
    BY <1>2, <1>3, SubSeqProperties DEF n
<1> QED
  BY <1>1, <1>3, <1>4

\* Adding one.
LEMMA PushSeq ==
    ASSUME NEW S, NEW s \in Seq(S), NEW e \in S
    PROVE  /\ Append(s, e) \in Seq(S)
           /\ Len(Append(s, e)) = Len(s) + 1
           /\ \A i \in 1..Len(s) : Append(s, e)[i] = s[i]
           /\ Append(s, e)[Len(s) + 1] = e
  OBVIOUS

\* Changing the last one.
LEMMA ReplaceLast ==
    ASSUME NEW S, NEW s \in Seq(S), s # << >>, NEW e \in S
    PROVE  /\ [s EXCEPT ![Len(s)] = e] \in Seq(S)
           /\ Len([s EXCEPT ![Len(s)] = e]) = Len(s)
           /\ \A i \in 1..(Len(s) - 1) : [s EXCEPT ![Len(s)] = e][i] = s[i]
           /\ [s EXCEPT ![Len(s)] = e][Len(s)] = e
<1>1. Len(s) \in Nat \ {0}
  BY EmptySeq, LenProperties
<1> QED
  BY <1>1, ExceptSeq

-----------------------------------------------------------------------------
(***************************************************************************)
(* The moves of the call stack.                                            *)
(***************************************************************************)

Fresh == {fr \in Frame : fr.next = 0}

\* The innermost call returns, is replaced by one of its children, or waits
\* for one.
Popped == stack' = Below
Replaced(c) == stack' = [stack EXCEPT ![Len(stack)] = c]
Waits(fr, c) == stack' = Append([stack EXCEPT ![Len(stack)] = fr], c)

LEMMA StackNonempty ==
    ASSUME stack \in Seq(Frame), stack # << >>
    PROVE  /\ Len(stack) \in Nat \ {0}
           /\ DOMAIN stack = 1..Len(stack)
           /\ Top \in Frame
  BY EmptySeq, LenProperties, ElementOfSeq DEF Top

LEMMA PoppedStack ==
    ASSUME stack \in Seq(Frame), stack # << >>, Popped
    PROVE  /\ stack' \in Seq(Frame)
           /\ Len(stack') = Len(stack) - 1
           /\ DOMAIN stack' = 1..(Len(stack) - 1)
           /\ \A i \in 1..(Len(stack) - 1) : stack'[i] = stack[i]
  BY PopSeq, LenProperties, StackNonempty DEF Popped, Below

LEMMA ReplacedStack ==
    ASSUME stack \in Seq(Frame), stack # << >>, NEW c \in Frame, Replaced(c)
    PROVE  /\ stack' \in Seq(Frame)
           /\ Len(stack') = Len(stack)
           /\ DOMAIN stack' = 1..Len(stack)
           /\ \A i \in 1..(Len(stack) - 1) : stack'[i] = stack[i]
           /\ stack'[Len(stack)] = c
<1> DEFINE s == [stack EXCEPT ![Len(stack)] = c]
<1>1. /\ s \in Seq(Frame)
      /\ Len(s) = Len(stack)
      /\ \A i \in 1..(Len(stack) - 1) : s[i] = stack[i]
      /\ s[Len(stack)] = c
  BY ReplaceLast
<1>2. stack' = s
  BY DEF Replaced
<1> HIDE DEF s
<1> QED
  BY <1>1, <1>2, LenProperties

LEMMA WaitingStack ==
    ASSUME stack \in Seq(Frame), stack # << >>,
           NEW fr \in Frame, NEW c \in Frame, Waits(fr, c)
    PROVE  /\ stack' \in Seq(Frame)
           /\ Len(stack') = Len(stack) + 1
           /\ DOMAIN stack' = 1..(Len(stack) + 1)
           /\ \A i \in 1..(Len(stack) - 1) : stack'[i] = stack[i]
           /\ stack'[Len(stack)] = fr
           /\ stack'[Len(stack) + 1] = c
<1> DEFINE s == [stack EXCEPT ![Len(stack)] = fr]
<1>1. /\ s \in Seq(Frame)
      /\ Len(s) = Len(stack)
      /\ \A i \in 1..(Len(stack) - 1) : s[i] = stack[i]
      /\ s[Len(stack)] = fr
  BY ReplaceLast
<1>2. stack' = Append(s, c)
  BY DEF Waits
<1>3. Len(stack) \in Nat \ {0}
  BY StackNonempty
<1> HIDE DEF s
<1> QED
  BY <1>1, <1>2, <1>3, PushSeq, LenProperties

-----------------------------------------------------------------------------
(***************************************************************************)
(* The rules stay within zones, discrete states and subformulas.           *)
(***************************************************************************)

LEMMA CallIsFresh ==
    ASSUME NEW f \in Formula, NEW l \in Loc, NEW z \in Zone
    PROVE  Call(f, l, z) \in Fresh
  BY DEF Call, Fresh, Frame, Parent

LEMMA TransitionTypes ==
    ASSUME NEW k \in 1..Len(Transitions)
    PROVE  Transitions[k] \in [guard : [locs : SUBSET Loc, zone : Zone],
                               dest : [Loc -> Loc], reset : [Point -> Point],
                               entering : [Loc -> Zone]]
  BY AutomatonAssumption, ElementOfSeq

LEMMA ElapseIsZone ==
    ASSUME NEW zone \in Zone, NEW l \in Loc
    PROVE  Elapse(zone, l) \in Zone
<1>1. Inv[l] \in Zone
  BY AutomatonAssumption
<1> DEFINE A == UNION {Later[p] : p \in zone}
<1> HIDE DEF A
<1>2. A \cap Inv[l] \in Zone
  BY <1>1 DEF Zone
<1> QED
  BY <1>2 DEF A, Elapse

LEMMA ImageIsZone ==
    ASSUME NEW map \in [Point -> Point], NEW zone \in Zone
    PROVE  Image(map, zone) \in Zone
  BY DEF Image, Zone

\* Whatever a connective does, the call stack makes one of three moves and
\* the call that moves is not a predicate's.
LEMMA ConnectiveMoves ==
    ASSUME TypeOK, Connective
    PROVE  /\ stack # << >>
           /\ ~IsPredicate(Top)
           /\ ret' \in {"none", Valid, Invalid}
           /\ \/ Popped
              \/ \E c \in Fresh : Replaced(c)
              \/ \E c \in Fresh, k \in Nat \ {0} : Waits([Top EXCEPT !.next = k], c)
<1> DEFINE Goal == /\ stack # << >>
                   /\ ~IsPredicate(Top)
                   /\ ret' \in {"none", Valid, Invalid}
                   /\ \/ Popped
                      \/ \E c \in Fresh : Replaced(c)
                      \/ \E c \in Fresh, k \in Nat \ {0} :
                            Waits([Top EXCEPT !.next = k], c)
<1> SUFFICES Goal
  OBVIOUS
<1>1. stack # << >>
  BY DEF Connective, do_proof_and, do_proof_or_simple, do_proof_forall,
         do_proof_allact, do_proof_imply, do_proof_sublist, do_proof_reset,
         do_proof_atomic, do_proof_constraint, do_proof_ablewaitinf,
         Entering, Resuming
<1>2. Top \in Frame
  BY <1>1, StackNonempty DEF TypeOK
<1>3. /\ Top.formula \in Formula
      /\ Top.loc \in Loc
      /\ Top.zone \in Zone
      /\ Top.next \in Nat
  BY <1>2 DEF Frame
<1>4. ASSUME NEW v \in {Valid, Invalid}, Return(v), ~IsPredicate(Top)
      PROVE  Goal
  BY <1>1, <1>4 DEF Return, Popped
<1>5. ASSUME NEW c \in Fresh, TailCall(c), ~IsPredicate(Top)
      PROVE  Goal
  BY <1>1, <1>5 DEF TailCall, Replaced
<1>6. ASSUME NEW c \in Fresh, NEW k \in Nat \ {0}, Descend(k, c), ~IsPredicate(Top)
      PROVE  Goal
  BY <1>1, <1>6 DEF Descend, Waits, Top
<1>7. ret \in {"none", Valid, Invalid}
  BY DEF TypeOK
<1> HIDE DEF Goal
<1>8. CASE do_proof_and
  <2>1. ~IsPredicate(Top) /\ Top.formula.left \in Formula /\ Top.formula.right \in Formula
    BY <1>3, <1>8, FormulaAssumption DEF do_proof_and, IsPredicate
  <2>2. /\ Call(Top.formula.left, Top.loc, Top.zone) \in Fresh
        /\ Call(Top.formula.right, Top.loc, Top.zone) \in Fresh
    BY <1>3, <2>1, CallIsFresh
  <2> QED
    BY <1>4, <1>5, <1>6, <1>8, <2>1, <2>2 DEF do_proof_and
<1>9. CASE do_proof_or_simple
  <2>1. ~IsPredicate(Top) /\ Top.formula.left \in Formula /\ Top.formula.right \in Formula
    BY <1>3, <1>9, FormulaAssumption DEF do_proof_or_simple, IsPredicate
  <2>2. /\ Call(Top.formula.left, Top.loc, Top.zone) \in Fresh
        /\ Call(Top.formula.right, Top.loc, Top.zone) \in Fresh
    BY <1>3, <2>1, CallIsFresh
  <2> QED
    BY <1>4, <1>5, <1>6, <1>9, <2>1, <2>2 DEF do_proof_or_simple
<1>10. CASE do_proof_forall
  <2>1. ~IsPredicate(Top) /\ Top.formula.quant \in Formula
    BY <1>3, <1>10, FormulaAssumption DEF do_proof_forall, IsPredicate
  <2>2. Call(Top.formula.quant, Top.loc, Elapse(Top.zone, Top.loc)) \in Fresh
    BY <1>3, <2>1, ElapseIsZone, CallIsFresh
  <2> QED
    BY <1>5, <1>10, <2>1, <2>2 DEF do_proof_forall
<1>11. CASE do_proof_allact
  <2>1. ~IsPredicate(Top) /\ Top.formula.quant \in Formula
    BY <1>3, <1>11, FormulaAssumption DEF do_proof_allact, IsPredicate
  <2>2. CASE \E v \in {Valid, Invalid} : Return(v)
    BY <1>4, <2>1, <2>2
  <2>3. ASSUME NEW k \in 1..Len(Transitions), k > Top.next,
               Descend(k, AfterTransition(Transitions[k]))
        PROVE  Goal
    <3> DEFINE t == Transitions[k]
    <3>1. /\ t.dest \in [Loc -> Loc]
          /\ t.reset \in [Point -> Point]
      BY TransitionTypes
    <3> HIDE DEF t
    <3>2. EnabledPart(t, Top.loc, Top.zone) \in Zone
      BY <1>3 DEF EnabledPart, Zone
    <3>3. Bound[EnabledPart(t, Top.loc, Top.zone)] \in Zone
      BY <3>2, AutomatonAssumption
    <3>4. Image(t.reset, Bound[EnabledPart(t, Top.loc, Top.zone)]) \in Zone
      BY <3>1, <3>3, ImageIsZone
    <3>5. t.dest[Top.loc] \in Loc
      BY <1>3, <3>1
    <3>6. AfterTransition(t) \in Fresh
      BY <2>1, <3>4, <3>5, CallIsFresh DEF AfterTransition
    <3>7. k \in Nat \ {0} /\ Descend(k, AfterTransition(t))
      BY <2>3 DEF t
    <3> QED
      BY <1>6, <2>1, <3>6, <3>7
  <2>4. Len(Transitions) \in Nat
    BY AutomatonAssumption, LenProperties
  <2>5. \A k \in (Top.next + 1)..Len(Transitions) :
            k \in 1..Len(Transitions) /\ k > Top.next
    BY <1>3, <2>4
  <2> QED
    BY <1>11, <2>2, <2>3, <2>5 DEF do_proof_allact
<1>12. CASE do_proof_imply
  <2>1. /\ ~IsPredicate(Top)
        /\ Top.formula.left \in [locs : SUBSET Loc, zone : Zone]
        /\ Top.formula.right \in Formula
    BY <1>3, <1>12, FormulaAssumption DEF do_proof_imply, IsPredicate
  <2>2. Top.zone \cap Top.formula.left.zone \in Zone
    BY <1>3 DEF Zone
  <2>3. Bound[Top.zone \cap Top.formula.left.zone] \in Zone
    BY <2>2, AutomatonAssumption
  <2>4. Call(Top.formula.right, Top.loc, Bound[Top.zone \cap Top.formula.left.zone])
            \in Fresh
    BY <1>3, <2>1, <2>3, CallIsFresh
  <2> QED
    BY <1>4, <1>5, <1>12, <2>1, <2>4 DEF do_proof_imply
<1>13. CASE do_proof_sublist
  <2>1. /\ ~IsPredicate(Top)
        /\ Top.formula.map \in [Loc -> Loc]
        /\ Top.formula.expr \in Formula
    BY <1>3, <1>13, FormulaAssumption DEF do_proof_sublist, IsPredicate
  <2>2. Top.formula.map[Top.loc] \in Loc
    BY <1>3, <2>1
  <2>3. Call(Top.formula.expr, Top.formula.map[Top.loc], Top.zone) \in Fresh
    BY <1>3, <2>1, <2>2, CallIsFresh
  <2> QED
    BY <1>5, <1>13, <2>1, <2>3 DEF do_proof_sublist
<1>14. CASE do_proof_reset
  <2>1. /\ ~IsPredicate(Top)
        /\ Top.formula.map \in [Point -> Point]
        /\ Top.formula.expr \in Formula
    BY <1>3, <1>14, FormulaAssumption DEF do_proof_reset, IsPredicate
  <2>2. Call(Top.formula.expr, Top.loc, Image(Top.formula.map, Top.zone)) \in Fresh
    BY <1>3, <2>1, ImageIsZone, CallIsFresh
  <2> QED
    BY <1>5, <1>14, <2>1, <2>2 DEF do_proof_reset
<1>15. \/ Verdict(Top.loc \in Top.formula.locs) = Valid
       \/ Verdict(Top.loc \in Top.formula.locs) = Invalid
  BY DEF Verdict
<1>16. CASE do_proof_atomic
  BY <1>4, <1>15, <1>16 DEF do_proof_atomic, IsPredicate
<1>17. CASE do_proof_constraint
  BY <1>4, <1>17 DEF do_proof_constraint, IsPredicate, Verdict
<1>18. CASE do_proof_ablewaitinf
  BY <1>4, <1>18 DEF do_proof_ablewaitinf, IsPredicate, Verdict
<1> QED
  BY <1>8, <1>9, <1>10, <1>11, <1>12, <1>13, <1>14, <1>16, <1>17, <1>18
     DEF Connective, Goal

-----------------------------------------------------------------------------
(***************************************************************************)
(* The operations on the tables.                                           *)
(***************************************************************************)

CycleTable == [Bin -> [dbms : Seq(Zone), parents : SUBSET Parent]]
VerdictTable == [Bin -> [dbms : SUBSET Zone, parents : SUBSET Parent]]

LEMMA AddParentType ==
    ASSUME NEW b \in Bin, NEW p \in Parent
    PROVE  /\ \A table \in CycleTable : addParent(table, b, p) \in CycleTable
           /\ \A table \in VerdictTable : addParent(table, b, p) \in VerdictTable
  BY DEF addParent, CycleTable, VerdictTable

LEMMA CacheTrueType ==
    ASSUME NEW b \in Bin, NEW zone \in Zone, NEW table \in VerdictTable
    PROVE  cache_true_sequent(table, b, zone) \subseteq VerdictTable
<1>1. update_sequent(table[b].dbms, zone) \subseteq SUBSET Zone
  BY DEF update_sequent, ReplaceOrAdd, VerdictTable
<1>2. ASSUME NEW d \in SUBSET Zone
      PROVE  [table EXCEPT ![b].dbms = d] \in VerdictTable
  BY <1>2 DEF VerdictTable
<1> QED
  BY <1>1, <1>2 DEF cache_true_sequent

LEMMA CacheFalseType ==
    ASSUME NEW b \in Bin, NEW zone \in Zone, NEW table \in VerdictTable
    PROVE  cache_false_sequent(table, b, zone) \subseteq VerdictTable
<1>1. update_false_sequent(table[b].dbms, zone) \subseteq SUBSET Zone
  BY DEF update_false_sequent, ReplaceOrAdd, VerdictTable
<1>2. ASSUME NEW d \in SUBSET Zone
      PROVE  [table EXCEPT ![b].dbms = d] \in VerdictTable
  BY <1>2 DEF VerdictTable
<1> QED
  BY <1>1, <1>2 DEF cache_false_sequent

LEMMA WithoutType ==
    ASSUME NEW entry \in [dbms : SUBSET Zone, parents : SUBSET Parent], NEW removed
    PROVE  Without(entry, removed) \in [dbms : SUBSET Zone, parents : SUBSET Parent]
  BY DEF Without, NoSequent

LEMMA EraseType ==
    ASSUME NEW table \in VerdictTable, NEW bins
    PROVE  look_for_and_purge_rhs_sequent_state(table, bins) \in VerdictTable
  BY DEF look_for_and_purge_rhs_sequent_state, NoSequent, VerdictTable

LEMMA PurgeType ==
    ASSUME NEW b \in Bin, NEW zone \in Zone,
           Xlist_true \in VerdictTable, Xlist_false \in VerdictTable
    PROVE  /\ purge_true_sequent(b, zone).true \in VerdictTable
           /\ purge_true_sequent(b, zone).false \in VerdictTable
           /\ purge_false_sequent(b, zone).true \in VerdictTable
           /\ purge_false_sequent(b, zone).false \in VerdictTable
<1>1. ASSUME NEW table \in VerdictTable, NEW removed
      PROVE  [table EXCEPT ![b] = Without(@, removed)] \in VerdictTable
  <2>1. Without(table[b], removed) \in [dbms : SUBSET Zone, parents : SUBSET Parent]
    BY WithoutType DEF VerdictTable
  <2> QED
    BY <2>1 DEF VerdictTable
<1> QED
  BY <1>1, EraseType DEF purge_true_sequent, purge_false_sequent

-----------------------------------------------------------------------------
(***************************************************************************)
(* Type correctness.                                                       *)
(***************************************************************************)

LEMMA TopPredicate ==
    ASSUME TypeOK, stack # << >>, IsPredicate(Top)
    PROVE  /\ bin \in Bin
           /\ Top \in Frame
           /\ Top.zone \in Zone
           /\ Top.loc \in Loc
           /\ Top.formula \in Formula
           /\ Top.formula.pred \in Predicate
<1>1. Top \in Frame
  BY StackNonempty DEF TypeOK
<1>2. Top.formula.pred \in Predicate
  BY <1>1, FormulaAssumption DEF Frame, IsPredicate
<1> QED
  BY <1>1, <1>2, SystemsAssumption DEF TypeOK, bin, BinOf, get_index, Bin, Frame

\* The three ways a predicate moves: it is answered at once, it waits for its
\* right-hand side, or it returns what that gave.
Answered == /\ Top.next = 0
            /\ Popped
            /\ ret' \in {Valid, Invalid}
            /\ parentRef' = parentRef
Unfolded == /\ Top.next = 0
            /\ Waits([Top EXCEPT !.next = 1, !.saved = parentRef],
                     Call(input_pes.rhs[Top.formula.pred], Top.loc, Top.zone))
            /\ ret' = "none"
            /\ parentRef' = bin
Left == /\ Top.next # 0
        /\ Popped
        /\ ret' = ret
        /\ ret \in {Valid, Invalid}
        /\ parentRef' = Top.saved

LEMMA PredicateMoves ==
    ASSUME TypeOK
    PROVE  /\ KnownFalseHit \/ KnownTrueHit \/ GfpCircularity \/ LfpCircularity => Answered
           /\ UnfoldGfp \/ UnfoldLfp => Unfolded
           /\ LeavePredicate => Left
           /\ do_proof_predicate => stack # << >> /\ IsPredicate(Top) /\ UNCHANGED input_pes
  BY DEF TypeOK, KnownFalseHit, KnownTrueHit, GfpCircularity, LfpCircularity, UnfoldGfp, UnfoldLfp,
         LeavePredicate, do_proof_predicate, EnterPredicate, Entering, Resuming,
         Return, StartRhs, Answered, Unfolded, Left, Popped, Waits, Top, bin

LEMMA UnfoldedTypes ==
    ASSUME TypeOK, stack # << >>, IsPredicate(Top)
    PROVE  /\ [Top EXCEPT !.next = 1, !.saved = parentRef] \in Frame
           /\ Call(input_pes.rhs[Top.formula.pred], Top.loc, Top.zone) \in Fresh
<1>1. input_pes.rhs[Top.formula.pred] \in Formula
  BY TopPredicate, SystemsAssumption DEF TypeOK
<1>2. Top \in Frame /\ parentRef \in Parent
  BY TopPredicate DEF TypeOK
<1> QED
  BY <1>1, <1>2, TopPredicate, CallIsFresh DEF Frame

LEMMA InitTypes == Init => TypeOK
<1> SUFFICES ASSUME Init PROVE TypeOK
  OBVIOUS
<1>1. /\ input_pes.start \in Formula
      /\ input_pes.loc \in Loc
      /\ input_pes.zone \in Zone
  BY SystemsAssumption DEF Init
<1>2. Call(input_pes.start, input_pes.loc, input_pes.zone) \in Frame
  BY <1>1, CallIsFresh DEF Fresh
<1>3. CacheTypeOK
  BY DEF Init, CacheInit, CacheTypeOK, NoCycle, NoSequent
<1> QED
  BY <1>2, <1>3 DEF Init, TypeOK, Parent

CallTypes == /\ stack \in Seq(Frame)
             /\ ret \in {"none", Valid, Invalid}
             /\ parentRef \in Parent

LEMMA ConnectiveTypes ==
    ASSUME TypeOK, Connective, UNCHANGED parentRef
    PROVE  CallTypes'
<1>1. /\ stack # << >>
      /\ ret' \in {"none", Valid, Invalid}
      /\ parentRef' \in Parent
  BY ConnectiveMoves DEF TypeOK
<1>2. Top \in Frame /\ stack \in Seq(Frame)
  BY <1>1, StackNonempty DEF TypeOK
<1>3. CASE Popped
  BY <1>1, <1>2, <1>3, PoppedStack DEF CallTypes
<1>4. CASE \E c \in Fresh : Replaced(c)
  BY <1>1, <1>2, <1>4, ReplacedStack DEF CallTypes, Fresh
<1>5. CASE \E c \in Fresh, k \in Nat \ {0} : Waits([Top EXCEPT !.next = k], c)
  <2>1. PICK c \in Fresh, k \in Nat \ {0} : Waits([Top EXCEPT !.next = k], c)
    BY <1>5
  <2>2. [Top EXCEPT !.next = k] \in Frame /\ c \in Frame
    BY <1>2 DEF Frame, Fresh
  <2> QED
    BY <1>1, <1>2, <2>1, <2>2, WaitingStack DEF CallTypes
<1> QED
  BY <1>3, <1>4, <1>5, ConnectiveMoves

LEMMA PredicateTypes ==
    ASSUME TypeOK, stack # << >>, IsPredicate(Top), Answered \/ Unfolded \/ Left
    PROVE  CallTypes'
<1>1. stack \in Seq(Frame) /\ Top \in Frame /\ Top.saved \in Parent /\ parentRef \in Parent
  BY TopPredicate DEF TypeOK, Frame
<1>2. CASE Answered
  BY <1>1, <1>2, PoppedStack DEF CallTypes, Answered
<1>3. CASE Unfolded
  <2>1. bin \in Parent
    BY TopPredicate DEF Parent
  <2>2. /\ [Top EXCEPT !.next = 1, !.saved = parentRef] \in Frame
        /\ Call(input_pes.rhs[Top.formula.pred], Top.loc, Top.zone) \in Frame
    BY UnfoldedTypes DEF Fresh
  <2> QED
    BY <1>1, <1>3, <2>1, <2>2, WaitingStack DEF CallTypes, Unfolded
<1>4. CASE Left
  BY <1>1, <1>4, PoppedStack DEF CallTypes, Left
<1> QED
  BY <1>2, <1>3, <1>4

LEMMA PopCircularityType ==
    ASSUME TypeOK, stack # << >>, IsPredicate(Top), PopCircularity
    PROVE  Xlist_pGFP' \in CycleTable /\ Xlist_pLFP' \in CycleTable
<1>1. bin \in Bin
  BY TopPredicate
<1>2. ASSUME NEW table \in CycleTable
      PROVE  [table EXCEPT ![bin].dbms = pop_sequent(@)] \in CycleTable
  <2>1. table[bin].dbms \in Seq(Zone)
    BY <1>1 DEF CycleTable
  <2>2. pop_sequent(table[bin].dbms) \in Seq(Zone)
    <3>1. CASE table[bin].dbms = << >>
      BY <3>1, SubSeqEmpty, EmptySeq DEF pop_sequent
    <3>2. CASE table[bin].dbms # << >>
      BY <2>1, <3>2, PopSeq DEF pop_sequent
    <3> QED
      BY <3>1, <3>2
  <2> QED
    BY <1>1, <2>2 DEF CycleTable
<1>3. Xlist_pGFP \in CycleTable /\ Xlist_pLFP \in CycleTable
  BY DEF TypeOK, CacheTypeOK, CycleTable
<1> QED
  BY <1>2, <1>3 DEF PopCircularity

LEMMA PushType ==
    ASSUME NEW table \in CycleTable, NEW b \in Bin, NEW zone \in Zone
    PROVE  [table EXCEPT ![b].dbms = push_sequent(@, zone)] \in CycleTable
<1>1. push_sequent(table[b].dbms, zone) \in Seq(Zone)
  BY PushSeq DEF CycleTable, push_sequent
<1> QED
  BY <1>1 DEF CycleTable

LEMMA PredicateCacheTypes ==
    ASSUME TypeOK, do_proof_predicate
    PROVE  CacheTypeOK'
<1>1. stack # << >> /\ IsPredicate(Top)
  BY PredicateMoves
<1>2. bin \in Bin /\ Top.zone \in Zone /\ parentRef \in Parent
  BY <1>1, TopPredicate DEF TypeOK
<1>3. /\ Xlist_pGFP \in CycleTable
      /\ Xlist_pLFP \in CycleTable
      /\ Xlist_true \in VerdictTable
      /\ Xlist_false \in VerdictTable
  BY DEF TypeOK, CacheTypeOK, CycleTable, VerdictTable
<1> SUFFICES /\ Xlist_pGFP' \in CycleTable
             /\ Xlist_pLFP' \in CycleTable
             /\ Xlist_true' \in VerdictTable
             /\ Xlist_false' \in VerdictTable
  BY DEF CacheTypeOK, CycleTable, VerdictTable
<1>4. CASE KnownFalseHit
  BY <1>2, <1>3, <1>4, AddParentType DEF KnownFalseHit, is_known_false_sequent
<1>5. CASE KnownTrueHit
  BY <1>2, <1>3, <1>5, AddParentType DEF KnownTrueHit, is_known_true_sequent
<1>6. CASE GfpCircularity
  BY <1>2, <1>3, <1>6, AddParentType, CacheTrueType DEF GfpCircularity, completes_gfp_cycle
<1>7. CASE LfpCircularity
  BY <1>2, <1>3, <1>7, AddParentType, CacheFalseType DEF LfpCircularity, completes_lfp_cycle
<1>8. CASE UnfoldGfp
  BY <1>2, <1>3, <1>8, PushType DEF UnfoldGfp, tables
<1>9. CASE UnfoldLfp
  BY <1>2, <1>3, <1>9, PushType DEF UnfoldLfp, tables
<1>10. CASE LeavePredicate
  <2>1. Xlist_pGFP' \in CycleTable /\ Xlist_pLFP' \in CycleTable
    BY <1>1, <1>10, PopCircularityType DEF LeavePredicate
  <2>2. UpdateCaches
    BY <1>10 DEF LeavePredicate
  <2>3. Xlist_true' \in VerdictTable /\ Xlist_false' \in VerdictTable
    BY <1>2, <1>3, <2>2, PurgeType, CacheTrueType, CacheFalseType DEF UpdateCaches, tables
  <2> QED
    BY <2>1, <2>3
<1> QED
  BY <1>4, <1>5, <1>6, <1>7, <1>8, <1>9, <1>10 DEF do_proof_predicate

LEMMA NextTypes == TypeOK /\ [Next]_vars => TypeOK'
<1> SUFFICES ASSUME TypeOK, [Next]_vars PROVE TypeOK'
  OBVIOUS
<1>1. CASE do_proof_predicate
  <2>1. CallTypes'
    BY <1>1, PredicateMoves, PredicateTypes DEF do_proof_predicate
  <2> QED
    BY <1>1, <2>1, PredicateMoves, PredicateCacheTypes DEF TypeOK, CallTypes
<1>2. CASE Connective /\ UNCHANGED <<input_pes, parentRef, cacheVars>>
  BY <1>2, ConnectiveTypes DEF TypeOK, CallTypes, CacheTypeOK, cacheVars, tables
<1>3. CASE UNCHANGED vars
  BY <1>3 DEF vars, TypeOK, CacheTypeOK, cacheVars, tables
<1> QED
  BY <1>1, <1>2, <1>3 DEF Next

\* Every state of every run is well typed: in particular no rule leaves the
\* zones and the discrete states, no call is made on anything but a
\* subformula, and a parent is a bin of the tables or null.
THEOREM TypeCorrect == Spec => []TypeOK
<1>1. Init => TypeOK
  BY InitTypes
<1>2. TypeOK /\ [Next]_vars => TypeOK'
  BY NextTypes
<1> QED
  BY <1>1, <1>2, PTL DEF Spec

-----------------------------------------------------------------------------
(***************************************************************************)
(* The two verdict tables.                                                 *)
(***************************************************************************)

ConsistentAt(trues, falses) == \A t \in trues, f \in falses : ~(f \subseteq t)

LEMMA UpdateAdds ==
    ASSUME NEW dbms, NEW zone
    PROVE  /\ \A d \in update_sequent(dbms, zone) : d \subseteq dbms \cup {zone}
           /\ \A d \in update_false_sequent(dbms, zone) : d \subseteq dbms \cup {zone}
  BY DEF update_sequent, update_false_sequent, ReplaceOrAdd

\* Purging only removes, and leaves nothing in the way of the new verdict.
LEMMA PurgeRemoves ==
    ASSUME Xlist_true \in VerdictTable, Xlist_false \in VerdictTable,
           NEW b \in Bin, NEW zone
    PROVE  /\ \A c \in Bin :
                 /\ purge_true_sequent(b, zone).true[c].dbms \subseteq Xlist_true[c].dbms
                 /\ purge_true_sequent(b, zone).false[c].dbms \subseteq Xlist_false[c].dbms
                 /\ purge_false_sequent(b, zone).true[c].dbms \subseteq Xlist_true[c].dbms
                 /\ purge_false_sequent(b, zone).false[c].dbms \subseteq Xlist_false[c].dbms
           /\ \A t \in purge_true_sequent(b, zone).true[b].dbms : ~(zone \subseteq t)
           /\ \A f \in purge_false_sequent(b, zone).false[b].dbms : ~(f \subseteq zone)
<1>1. ASSUME NEW table \in VerdictTable, NEW bins, NEW c \in Bin
      PROVE  look_for_and_purge_rhs_sequent_state(table, bins)[c].dbms
                \subseteq table[c].dbms
  BY DEF look_for_and_purge_rhs_sequent_state, NoSequent, VerdictTable
<1>2. ASSUME NEW table \in VerdictTable, NEW removed
      PROVE  /\ [table EXCEPT ![b] = Without(@, removed)] \in VerdictTable
             /\ \A c \in Bin : [table EXCEPT ![b] = Without(@, removed)][c].dbms
                                 \subseteq table[c].dbms
             /\ [table EXCEPT ![b] = Without(@, removed)][b].dbms \cap removed = {}
  <2>1. /\ Without(table[b], removed) \in [dbms : SUBSET Zone, parents : SUBSET Parent]
        /\ Without(table[b], removed).dbms \subseteq table[b].dbms \ removed
    <3>1. table[b] \in [dbms : SUBSET Zone, parents : SUBSET Parent]
      BY DEF VerdictTable
    <3> QED
      BY <3>1, WithoutType DEF Without, NoSequent
  <2> QED
    BY <2>1 DEF VerdictTable
<1>3. \A c \in Bin :
         /\ purge_true_sequent(b, zone).true[c].dbms \subseteq Xlist_true[c].dbms
         /\ purge_true_sequent(b, zone).false[c].dbms \subseteq Xlist_false[c].dbms
         /\ purge_false_sequent(b, zone).true[c].dbms \subseteq Xlist_true[c].dbms
         /\ purge_false_sequent(b, zone).false[c].dbms \subseteq Xlist_false[c].dbms
  <2> TAKE c \in Bin
  <2>1. purge_true_sequent(b, zone).true[c].dbms \subseteq Xlist_true[c].dbms
    <3> DEFINE table == [Xlist_true EXCEPT ![b] = Without(@, RefutedBy(Xlist_true[b].dbms, zone))]
               bins == Dependents(Xlist_true[b], RefutedBy(Xlist_true[b].dbms, zone))
    <3>1. table \in VerdictTable /\ table[c].dbms \subseteq Xlist_true[c].dbms
      BY <1>2
    <3>2. purge_true_sequent(b, zone).true = look_for_and_purge_rhs_sequent_state(table, bins)
      BY DEF purge_true_sequent
    <3> HIDE DEF table, bins
    <3> QED
      BY <1>1, <3>1, <3>2
  <2>2. purge_false_sequent(b, zone).false[c].dbms \subseteq Xlist_false[c].dbms
    <3> DEFINE table == [Xlist_false EXCEPT ![b] = Without(@, ProvedBy(Xlist_false[b].dbms, zone))]
               bins == Dependents(Xlist_false[b], ProvedBy(Xlist_false[b].dbms, zone))
    <3>1. table \in VerdictTable /\ table[c].dbms \subseteq Xlist_false[c].dbms
      BY <1>2
    <3>2. purge_false_sequent(b, zone).false = look_for_and_purge_rhs_sequent_state(table, bins)
      BY DEF purge_false_sequent
    <3> HIDE DEF table, bins
    <3> QED
      BY <1>1, <3>1, <3>2
  <2>3. /\ purge_true_sequent(b, zone).false[c].dbms \subseteq Xlist_false[c].dbms
        /\ purge_false_sequent(b, zone).true[c].dbms \subseteq Xlist_true[c].dbms
    BY <1>1 DEF purge_true_sequent, purge_false_sequent
  <2> QED
    BY <2>1, <2>2, <2>3
<1>4. \A t \in purge_true_sequent(b, zone).true[b].dbms : ~(zone \subseteq t)
  <2> DEFINE removed == RefutedBy(Xlist_true[b].dbms, zone)
             table == [Xlist_true EXCEPT ![b] = Without(@, removed)]
             bins == Dependents(Xlist_true[b], removed)
  <2>1. table \in VerdictTable /\ table[b].dbms \cap removed = {}
    BY <1>2
  <2>2. purge_true_sequent(b, zone).true = look_for_and_purge_rhs_sequent_state(table, bins)
    BY DEF purge_true_sequent
  <2>3. \A t \in purge_true_sequent(b, zone).true[b].dbms :
            t \in Xlist_true[b].dbms /\ t \notin removed
    <3> HIDE DEF table, bins, removed
    <3> QED
      BY <1>1, <1>3, <2>1, <2>2
  <2> QED
    BY <2>3 DEF RefutedBy
<1>5. \A f \in purge_false_sequent(b, zone).false[b].dbms : ~(f \subseteq zone)
  <2> DEFINE removed == ProvedBy(Xlist_false[b].dbms, zone)
             table == [Xlist_false EXCEPT ![b] = Without(@, removed)]
             bins == Dependents(Xlist_false[b], removed)
  <2>1. table \in VerdictTable /\ table[b].dbms \cap removed = {}
    BY <1>2
  <2>2. purge_false_sequent(b, zone).false = look_for_and_purge_rhs_sequent_state(table, bins)
    BY DEF purge_false_sequent
  <2>3. \A f \in purge_false_sequent(b, zone).false[b].dbms :
            f \in Xlist_false[b].dbms /\ f \notin removed
    <3> HIDE DEF table, bins, removed
    <3> QED
      BY <1>1, <1>3, <2>1, <2>2
  <2> QED
    BY <2>3 DEF ProvedBy
<1> QED
  BY <1>3, <1>4, <1>5

\* Caching adds the zone to one entry and nothing else.
LEMMA CacheAdds ==
    ASSUME NEW table \in VerdictTable, NEW b \in Bin, NEW zone, NEW c \in Bin
    PROVE  /\ \A new \in cache_true_sequent(table, b, zone) :
                 new[c].dbms \subseteq table[c].dbms \cup (IF c = b THEN {zone} ELSE {})
           /\ \A new \in cache_false_sequent(table, b, zone) :
                 new[c].dbms \subseteq table[c].dbms \cup (IF c = b THEN {zone} ELSE {})
<1>1. ASSUME NEW d, d \subseteq table[b].dbms \cup {zone}
      PROVE  [table EXCEPT ![b].dbms = d][c].dbms
                \subseteq table[c].dbms \cup (IF c = b THEN {zone} ELSE {})
  BY <1>1 DEF VerdictTable
<1>2. ASSUME NEW new \in cache_true_sequent(table, b, zone)
      PROVE  new[c].dbms \subseteq table[c].dbms \cup (IF c = b THEN {zone} ELSE {})
  <2>1. PICK d \in update_sequent(table[b].dbms, zone) : new = [table EXCEPT ![b].dbms = d]
    BY <1>2 DEF cache_true_sequent
  <2>2. d \subseteq table[b].dbms \cup {zone}
    BY <2>1, UpdateAdds
  <2> QED
    BY <1>1, <2>1, <2>2
<1>3. ASSUME NEW new \in cache_false_sequent(table, b, zone)
      PROVE  new[c].dbms \subseteq table[c].dbms \cup (IF c = b THEN {zone} ELSE {})
  <2>1. PICK d \in update_false_sequent(table[b].dbms, zone) : new = [table EXCEPT ![b].dbms = d]
    BY <1>3 DEF cache_false_sequent
  <2>2. d \subseteq table[b].dbms \cup {zone}
    BY <2>1, UpdateAdds
  <2> QED
    BY <1>1, <2>1, <2>2
<1> QED
  BY <1>2, <1>3

LEMMA CacheTrueConsistent ==
    ASSUME NEW trues \in VerdictTable, NEW falses \in VerdictTable,
           NEW b \in Bin, NEW zone,
           \A c \in Bin : ConsistentAt(trues[c].dbms, falses[c].dbms),
           \A f \in falses[b].dbms : ~(f \subseteq zone),
           NEW new \in cache_true_sequent(trues, b, zone)
    PROVE  \A c \in Bin : ConsistentAt(new[c].dbms, falses[c].dbms)
<1> TAKE c \in Bin
<1>1. new[c].dbms \subseteq trues[c].dbms \cup (IF c = b THEN {zone} ELSE {})
  BY CacheAdds
<1> QED
  BY <1>1 DEF ConsistentAt

LEMMA CacheFalseConsistent ==
    ASSUME NEW trues \in VerdictTable, NEW falses \in VerdictTable,
           NEW b \in Bin, NEW zone,
           \A c \in Bin : ConsistentAt(trues[c].dbms, falses[c].dbms),
           \A t \in trues[b].dbms : ~(zone \subseteq t),
           NEW new \in cache_false_sequent(falses, b, zone)
    PROVE  \A c \in Bin : ConsistentAt(trues[c].dbms, new[c].dbms)
<1> TAKE c \in Bin
<1>1. new[c].dbms \subseteq falses[c].dbms \cup (IF c = b THEN {zone} ELSE {})
  BY CacheAdds
<1> QED
  BY <1>1 DEF ConsistentAt

LEMMA AddParentDbms ==
    ASSUME NEW table \in VerdictTable, NEW b \in Bin, NEW p, NEW c \in Bin
    PROVE  addParent(table, b, p)[c].dbms = table[c].dbms
  BY DEF addParent, VerdictTable

LEMMA NextConsistent == TypeOK /\ CachesConsistent /\ [Next]_vars => CachesConsistent'
<1> SUFFICES ASSUME TypeOK, CachesConsistent, [Next]_vars
             PROVE  \A c \in Bin : ConsistentAt(Xlist_true'[c].dbms, Xlist_false'[c].dbms)
  BY DEF CachesConsistent, ConsistentAt
<1>1. \A c \in Bin : ConsistentAt(Xlist_true[c].dbms, Xlist_false[c].dbms)
  BY DEF CachesConsistent, ConsistentAt
<1>2. Xlist_true \in VerdictTable /\ Xlist_false \in VerdictTable
  BY DEF TypeOK, CacheTypeOK, VerdictTable
<1>3. CASE UNCHANGED tables
  BY <1>1, <1>3 DEF tables
<1>4. CASE do_proof_predicate
  <2>1. /\ bin \in Bin /\ Top.zone \in Zone
        /\ stack # << >> /\ IsPredicate(Top)
    BY <1>4, PredicateMoves, TopPredicate
  <2>2. CASE KnownFalseHit
    <3>1. /\ Xlist_true' = Xlist_true
          /\ Xlist_false' = addParent(Xlist_false, bin, parentRef)
      BY <2>2 DEF KnownFalseHit, is_known_false_sequent
    <3> QED
      BY <1>1, <1>2, <2>1, <3>1, AddParentDbms
  <2>3. CASE KnownTrueHit
    <3>1. /\ Xlist_false' = Xlist_false
          /\ Xlist_true' = addParent(Xlist_true, bin, parentRef)
      BY <2>3 DEF KnownTrueHit, is_known_true_sequent
    <3> QED
      BY <1>1, <1>2, <2>1, <3>1, AddParentDbms
  <2>4. CASE GfpCircularity
    <3>1. CASE ~useCaching
      BY <1>3, <2>4, <3>1 DEF GfpCircularity, tables
    <3>2. CASE useCaching
      <4>1. /\ Xlist_false' = Xlist_false
            /\ Xlist_true' \in cache_true_sequent(Xlist_true, bin, Top.zone)
            /\ ~KnownFalse(bin, Top.zone)
        BY <2>4, <3>2 DEF GfpCircularity, Unknown
      <4>2. \A f \in Xlist_false[bin].dbms : ~(f \subseteq Top.zone)
        BY <4>1 DEF KnownFalse, tabled_false_sequent
      <4> QED
        BY <1>1, <1>2, <2>1, <4>1, <4>2, CacheTrueConsistent
    <3> QED
      BY <3>1, <3>2
  <2>5. CASE LfpCircularity
    <3>1. CASE ~useCaching
      BY <1>3, <2>5, <3>1 DEF LfpCircularity, tables
    <3>2. CASE useCaching
      <4>1. /\ Xlist_true' = Xlist_true
            /\ Xlist_false' \in cache_false_sequent(Xlist_false, bin, Top.zone)
            /\ ~KnownTrue(bin, Top.zone)
        BY <2>5, <3>2 DEF LfpCircularity, Unknown
      <4>2. \A t \in Xlist_true[bin].dbms : ~(Top.zone \subseteq t)
        BY <4>1 DEF KnownTrue, tabled_sequent
      <4> QED
        BY <1>1, <1>2, <2>1, <4>1, <4>2, CacheFalseConsistent
    <3> QED
      BY <3>1, <3>2
  <2>6. CASE UnfoldGfp \/ UnfoldLfp
    BY <1>3, <2>6 DEF UnfoldGfp, UnfoldLfp
  <2>7. CASE LeavePredicate
    <3>1. UpdateCaches
      BY <2>7 DEF LeavePredicate
    <3>2. CASE ~useCaching
      BY <1>3, <3>1, <3>2 DEF UpdateCaches
    <3>3. CASE useCaching /\ ret = Valid
      <4> DEFINE purged == purge_false_sequent(bin, Top.zone)
      <4>1. /\ Xlist_true' \in cache_true_sequent(purged.true, bin, Top.zone)
            /\ Xlist_false' = purged.false
        BY <3>1, <3>3 DEF UpdateCaches, Valid, Invalid
      <4>2. /\ purged.true \in VerdictTable
            /\ purged.false \in VerdictTable
        BY <1>2, <2>1, PurgeType
      <4>3. /\ \A c \in Bin : /\ purged.true[c].dbms \subseteq Xlist_true[c].dbms
                              /\ purged.false[c].dbms \subseteq Xlist_false[c].dbms
            /\ \A f \in purged.false[bin].dbms : ~(f \subseteq Top.zone)
        BY <1>2, <2>1, PurgeRemoves
      <4> HIDE DEF purged
      <4>4. \A c \in Bin : ConsistentAt(purged.true[c].dbms, purged.false[c].dbms)
        BY <1>1, <4>3 DEF ConsistentAt
      <4> QED
        BY <2>1, <4>1, <4>2, <4>3, <4>4, CacheTrueConsistent
    <3>4. CASE useCaching /\ ret = Invalid
      <4> DEFINE purged == purge_true_sequent(bin, Top.zone)
      <4>1. /\ Xlist_true' = purged.true
            /\ Xlist_false' \in cache_false_sequent(purged.false, bin, Top.zone)
        BY <3>1, <3>4 DEF UpdateCaches, Valid, Invalid
      <4>2. /\ purged.true \in VerdictTable
            /\ purged.false \in VerdictTable
        BY <1>2, <2>1, PurgeType
      <4>3. /\ \A c \in Bin : /\ purged.true[c].dbms \subseteq Xlist_true[c].dbms
                              /\ purged.false[c].dbms \subseteq Xlist_false[c].dbms
            /\ \A t \in purged.true[bin].dbms : ~(Top.zone \subseteq t)
        BY <1>2, <2>1, PurgeRemoves
      <4> HIDE DEF purged
      <4>4. \A c \in Bin : ConsistentAt(purged.true[c].dbms, purged.false[c].dbms)
        BY <1>1, <4>3 DEF ConsistentAt
      <4> QED
        BY <2>1, <4>1, <4>2, <4>3, <4>4, CacheFalseConsistent
    <3> QED
      BY <3>1, <3>2, <3>3, <3>4 DEF UpdateCaches
  <2> QED
    BY <1>4, <2>2, <2>3, <2>4, <2>5, <2>6, <2>7 DEF do_proof_predicate
<1>5. UNCHANGED tables \/ do_proof_predicate
  BY DEF Next, vars, cacheVars
<1> QED
  BY <1>3, <1>4, <1>5

\* No sequent is ever known true while a part of it is known false: the purge
\* that precedes every insertion, and the lookups that precede a circularity,
\* leave no contradiction between the tables.
THEOREM ConsistentTables == Spec => []CachesConsistent
<1>1. Init => CachesConsistent
  BY DEF Init, CacheInit, CachesConsistent, NoSequent
<1>2. Init => TypeOK
  BY InitTypes
<1>3. TypeOK /\ CachesConsistent /\ [Next]_vars => (TypeOK /\ CachesConsistent)'
  BY NextTypes, NextConsistent
<1> QED
  BY <1>1, <1>2, <1>3, PTL DEF Spec

-----------------------------------------------------------------------------
(***************************************************************************)
(* parentRef, as a function of a call stack.                               *)
(***************************************************************************)

\* PointsTo for any input and any stack.
Pointing(pes, st, p, n) ==
    \/ p = NoParent /\ \A i \in 1..n : ~Open(st[i])
    \/ \E i \in 1..n : /\ Open(st[i])
                      /\ p = <<pes.block[st[i].formula.pred], st[i].loc>>
                      /\ \A j \in (i + 1)..n : ~Open(st[j])

Linked(pes, st, p) ==
    /\ Pointing(pes, st, p, Len(st))
    /\ \A i \in 1..Len(st) : Open(st[i]) => Pointing(pes, st, st[i].saved, i - 1)

LEMMA LinkedIsInvariant ==
    ASSUME stack \in Seq(Frame)
    PROVE  ParentIsInnermost <=> Linked(input_pes, stack, parentRef)
  BY LenProperties DEF ParentIsInnermost, PointsTo, Linked, Pointing, BinOf, get_index

LEMMA PointingSame ==
    ASSUME NEW pes, NEW s, NEW t, NEW p, NEW n \in Nat, \A i \in 1..n : s[i] = t[i]
    PROVE  Pointing(pes, s, p, n) => Pointing(pes, t, p, n)
  BY DEF Pointing

LEMMA PointingShorter ==
    ASSUME NEW pes, NEW s, NEW p, NEW n \in Nat \ {0}, ~Open(s[n])
    PROVE  Pointing(pes, s, p, n) <=> Pointing(pes, s, p, n - 1)
  BY DEF Pointing

LEMMA PointingSelf ==
    ASSUME NEW pes, NEW s, NEW n \in Nat \ {0}, Open(s[n])
    PROVE  Pointing(pes, s, <<pes.block[s[n].formula.pred], s[n].loc>>, n)
  BY DEF Pointing

\* The frames below n keep what they point to when only the frames from n on
\* change.
LEMMA LinkedBelow ==
    ASSUME NEW pes, NEW s, NEW t, NEW n \in Nat, \A i \in 1..n : s[i] = t[i],
           \A i \in 1..n : Open(s[i]) => Pointing(pes, s, s[i].saved, i - 1)
    PROVE  \A i \in 1..n : Open(t[i]) => Pointing(pes, t, t[i].saved, i - 1)
<1> SUFFICES ASSUME NEW i \in 1..n, Open(t[i])
             PROVE  Pointing(pes, t, t[i].saved, i - 1)
  OBVIOUS
<1>1. Pointing(pes, s, t[i].saved, i - 1)
  OBVIOUS
<1>2. i - 1 \in Nat /\ \A j \in 1..(i - 1) : s[j] = t[j]
  OBVIOUS
<1> QED
  BY <1>1, <1>2, PointingSame

LEMMA LinkedStep ==
    ASSUME NEW pes, NEW s \in Seq(Frame), s # << >>, NEW p, Linked(pes, s, p)
    PROVE  LET n == Len(s)
           IN  /\ \A t \in Seq(Frame) :
                     (Len(t) = n - 1 /\ (\A i \in 1..(n - 1) : t[i] = s[i])) =>
                         /\ Open(s[n]) => Linked(pes, t, s[n].saved)
                         /\ ~Open(s[n]) => Linked(pes, t, p)
               /\ \A t \in Seq(Frame) :
                     (/\ Len(t) = n
                      /\ \A i \in 1..(n - 1) : t[i] = s[i]
                      /\ ~Open(s[n])
                      /\ ~Open(t[n])) => Linked(pes, t, p)
               /\ \A t \in Seq(Frame) :
                     (/\ Len(t) = n + 1
                      /\ \A i \in 1..(n - 1) : t[i] = s[i]
                      /\ ~Open(s[n])
                      /\ ~Open(t[n + 1])) =>
                         /\ ~Open(t[n]) => Linked(pes, t, p)
                         /\ (Open(t[n]) /\ t[n].saved = p) =>
                               Linked(pes, t, <<pes.block[t[n].formula.pred], t[n].loc>>)
<1> DEFINE n == Len(s)
<1>1. n \in Nat \ {0}
  BY EmptySeq, LenProperties
<1>2. /\ Pointing(pes, s, p, n)
      /\ \A i \in 1..n : Open(s[i]) => Pointing(pes, s, s[i].saved, i - 1)
  BY DEF Linked
<1>3. ~Open(s[n]) => Pointing(pes, s, p, n - 1)
  BY <1>1, <1>2, PointingShorter
<1>4. ASSUME NEW t \in Seq(Frame), \A i \in 1..(n - 1) : t[i] = s[i]
      PROVE  /\ \A i \in 1..(n - 1) : Open(t[i]) => Pointing(pes, t, t[i].saved, i - 1)
             /\ \A q : Pointing(pes, s, q, n - 1) => Pointing(pes, t, q, n - 1)
  <2>1. n - 1 \in Nat /\ 1..(n - 1) \subseteq 1..n
    BY <1>1
  <2> HIDE DEF n
  <2> QED
    BY <1>2, <1>4, <2>1, LinkedBelow, PointingSame
<1> HIDE DEF n
<1>5. ASSUME NEW t \in Seq(Frame), Len(t) = n - 1, \A i \in 1..(n - 1) : t[i] = s[i]
      PROVE  /\ Open(s[n]) => Linked(pes, t, s[n].saved)
             /\ ~Open(s[n]) => Linked(pes, t, p)
  BY <1>1, <1>2, <1>3, <1>4, <1>5 DEF Linked
<1>6. ASSUME NEW t \in Seq(Frame), Len(t) = n, \A i \in 1..(n - 1) : t[i] = s[i],
             ~Open(s[n]), ~Open(t[n])
      PROVE  Linked(pes, t, p)
  <2>1. Pointing(pes, t, p, n)
    BY <1>1, <1>3, <1>4, <1>6, PointingShorter
  <2>2. \A i \in 1..n : Open(t[i]) => i \in 1..(n - 1)
    BY <1>1, <1>6
  <2> QED
    BY <1>4, <1>6, <2>1, <2>2 DEF Linked
<1>7. ASSUME NEW t \in Seq(Frame), Len(t) = n + 1, \A i \in 1..(n - 1) : t[i] = s[i],
             ~Open(s[n]), ~Open(t[n + 1])
      PROVE  /\ ~Open(t[n]) => Linked(pes, t, p)
             /\ (Open(t[n]) /\ t[n].saved = p) =>
                   Linked(pes, t, <<pes.block[t[n].formula.pred], t[n].loc>>)
  <2>1. Pointing(pes, t, p, n - 1)
    BY <1>3, <1>4, <1>7
  <2>2. n + 1 \in Nat \ {0} /\ (n + 1) - 1 = n
    BY <1>1
  <2>3. \A q : Pointing(pes, t, q, n) => Pointing(pes, t, q, n + 1)
    BY <1>7, <2>2, PointingShorter
  <2>4. CASE ~Open(t[n])
    <3>1. Pointing(pes, t, p, n + 1)
      BY <1>1, <2>1, <2>3, <2>4, PointingShorter
    <3>2. \A i \in 1..(n + 1) : Open(t[i]) => i \in 1..(n - 1)
      BY <1>1, <1>7, <2>4
    <3> QED
      BY <1>4, <1>7, <2>4, <3>1, <3>2 DEF Linked
  <2>5. CASE Open(t[n]) /\ t[n].saved = p
    <3>1. Pointing(pes, t, <<pes.block[t[n].formula.pred], t[n].loc>>, n + 1)
      BY <1>1, <2>3, <2>5, PointingSelf
    <3>2. \A i \in 1..(n + 1) : Open(t[i]) => i \in 1..(n - 1) \/ i = n
      BY <1>1, <1>7
    <3> QED
      BY <1>4, <1>7, <2>1, <2>5, <3>1, <3>2 DEF Linked
  <2> QED
    BY <2>4, <2>5
<1> QED
  BY <1>5, <1>6, <1>7 DEF n

LEMMA NextParent == TypeOK /\ ParentIsInnermost /\ [Next]_vars => ParentIsInnermost'
<1> SUFFICES ASSUME TypeOK, ParentIsInnermost, [Next]_vars
             PROVE  ParentIsInnermost'
  OBVIOUS
<1>1. stack \in Seq(Frame) /\ stack' \in Seq(Frame) /\ Linked(input_pes, stack, parentRef)
  BY NextTypes, LinkedIsInvariant DEF TypeOK
<1>2. SUFFICES Linked(input_pes', stack', parentRef')
  BY <1>1, LenProperties
     DEF ParentIsInnermost, PointsTo, Linked, Pointing, BinOf, get_index
<1>3. CASE UNCHANGED vars
  BY <1>1, <1>3 DEF vars
<1>4. CASE Connective /\ UNCHANGED <<input_pes, parentRef, cacheVars>>
  <2>1. /\ stack # << >>
        /\ ~Open(Top)
        /\ input_pes' = input_pes
        /\ parentRef' = parentRef
    BY <1>4, ConnectiveMoves DEF Open
  <2>2. Top \in Frame /\ Top = stack[Len(stack)]
    BY <1>1, <2>1, StackNonempty DEF Top
  <2>3. CASE Popped
    BY <1>1, <2>1, <2>2, <2>3, PoppedStack, LinkedStep
  <2>4. CASE \E c \in Fresh : Replaced(c)
    <3>1. PICK c \in Fresh : Replaced(c)
      BY <2>4
    <3>2. c \in Frame /\ ~Open(c)
      BY DEF Fresh, Open
    <3> QED
      BY <1>1, <2>1, <2>2, <3>1, <3>2, ReplacedStack, LinkedStep
  <2>5. CASE \E c \in Fresh, k \in Nat \ {0} : Waits([Top EXCEPT !.next = k], c)
    <3>1. PICK c \in Fresh, k \in Nat \ {0} : Waits([Top EXCEPT !.next = k], c)
      BY <2>5
    <3>2. /\ c \in Frame /\ ~Open(c)
          /\ [Top EXCEPT !.next = k] \in Frame
          /\ ~IsPredicate([Top EXCEPT !.next = k])
      BY <1>4, <2>2, ConnectiveMoves DEF Fresh, Open, Frame, IsPredicate
    <3>3. ~Open([Top EXCEPT !.next = k])
      BY <3>2 DEF Open
    <3> QED
      BY <1>1, <2>1, <2>2, <3>1, <3>2, <3>3, WaitingStack, LinkedStep
  <2> QED
    BY <1>4, <2>3, <2>4, <2>5, ConnectiveMoves
<1>5. CASE do_proof_predicate
  <2>1. stack # << >> /\ IsPredicate(Top) /\ input_pes' = input_pes
    BY <1>5, PredicateMoves
  <2>2. Top \in Frame /\ Top = stack[Len(stack)]
    BY <1>1, <2>1, StackNonempty DEF Top
  <2>3. CASE Answered
    BY <1>1, <2>1, <2>2, <2>3, PoppedStack, LinkedStep DEF Answered, Open
  <2>4. CASE Left
    BY <1>1, <2>1, <2>2, <2>4, PoppedStack, LinkedStep DEF Left, Open
  <2>5. CASE Unfolded
    <3> DEFINE fr == [Top EXCEPT !.next = 1, !.saved = parentRef]
               c == Call(input_pes.rhs[Top.formula.pred], Top.loc, Top.zone)
    <3>1. fr \in Frame /\ c \in Frame /\ ~Open(c)
      BY <2>1, UnfoldedTypes DEF Fresh, Open
    <3>2. /\ Open(fr)
          /\ fr.saved = parentRef
          /\ <<input_pes.block[fr.formula.pred], fr.loc>> = bin
      BY <2>1, <2>2 DEF Frame, Open, IsPredicate, bin, BinOf, get_index
    <3>3. ~Open(Top) /\ Waits(fr, c) /\ parentRef' = bin
      BY <2>5 DEF Unfolded, Open
    <3> HIDE DEF fr, c
    <3>4. /\ Len(stack') = Len(stack) + 1
          /\ \A i \in 1..(Len(stack) - 1) : stack'[i] = stack[i]
          /\ stack'[Len(stack)] = fr
          /\ stack'[Len(stack) + 1] = c
      BY <1>1, <2>1, <3>1, <3>3, WaitingStack
    <3> QED
      BY <1>1, <2>1, <2>2, <3>1, <3>2, <3>3, <3>4, LinkedStep
  <2> QED
    BY <1>5, <2>3, <2>4, <2>5, PredicateMoves DEF do_proof_predicate
<1> QED
  BY <1>3, <1>4, <1>5 DEF Next

LEMMA InitParent == Init => ParentIsInnermost
<1> SUFFICES ASSUME Init PROVE ParentIsInnermost
  OBVIOUS
<1>1. /\ stack = <<Call(input_pes.start, input_pes.loc, input_pes.zone)>>
      /\ parentRef = NoParent
  BY DEF Init
<1>2. ~Open(stack[1]) /\ Len(stack) = 1 /\ DOMAIN stack = {1}
  BY <1>1 DEF Open, Call
<1> QED
  BY <1>1, <1>2 DEF ParentIsInnermost, PointsTo

\* parentRef is right in every state: it and every saved copy of it name the
\* innermost predicate under proof, so that a verdict taken from a table is
\* charged to the sequent that used it.
THEOREM ParentCorrect == Spec => []ParentIsInnermost
<1>1. Init => TypeOK /\ ParentIsInnermost
  BY InitTypes, InitParent
<1>2. (TypeOK /\ ParentIsInnermost) /\ [Next]_vars => (TypeOK /\ ParentIsInnermost)'
  BY NextTypes, NextParent
<1> QED
  BY <1>1, <1>2, PTL DEF Spec

-----------------------------------------------------------------------------
(***************************************************************************)
(* A null parent is never recorded.                                        *)
(***************************************************************************)

\* Until the first equation has been unfolded there is nothing in the tables;
\* from then on a predicate is under proof until the search is over.
FirstCall ==
    (stack # << >> /\ ~Open(stack[1])) =>
        /\ Len(stack) = 1
        /\ IsPredicate(stack[1])
        /\ \A b \in Bin : /\ Xlist_true[b].dbms = {}
                          /\ Xlist_false[b].dbms = {}
                          /\ Xlist_pGFP[b].dbms = << >>
                          /\ Xlist_pLFP[b].dbms = << >>

LEMMA NextFirstCall == TypeOK /\ FirstCall /\ [Next]_vars => FirstCall'
<1> SUFFICES ASSUME TypeOK, FirstCall, [Next]_vars
             PROVE  FirstCall'
  OBVIOUS
<1>1. CASE UNCHANGED vars
  BY <1>1 DEF vars, FirstCall, cacheVars, tables, Open, IsPredicate
<1>2. stack \in Seq(Frame) /\ stack' \in Seq(Frame)
  BY NextTypes DEF TypeOK
<1>3. ASSUME Next, stack' # << >>
      PROVE  Open(stack'[1])
  <2>1. stack # << >>
    BY <1>3 DEF Next
  <2>2. Len(stack) \in Nat \ {0} /\ Top = stack[Len(stack)]
    BY <1>2, <2>1, StackNonempty DEF Top
  <2>3. Len(stack') \in Nat \ {0}
    BY <1>2, <1>3, EmptySeq
  <2>4. ~Open(stack[1]) => Len(stack) = 1 /\ IsPredicate(Top)
    BY <2>1, <2>2 DEF FirstCall
  <2>5. CASE Connective
    <3>1. ~IsPredicate(Top) /\ ~Open(Top)
      BY <2>5, ConnectiveMoves DEF Open
    <3>2. Open(stack[1]) /\ 1 \in 1..(Len(stack) - 1)
      BY <2>2, <2>4, <3>1
    <3>3. stack'[1] = stack[1]
      <4>1. CASE Popped
        BY <1>2, <2>1, <3>2, <4>1, PoppedStack
      <4>2. CASE \E c \in Fresh : Replaced(c)
        BY <1>2, <2>1, <3>2, <4>2, ReplacedStack DEF Fresh
      <4>3. CASE \E c \in Fresh, k \in Nat \ {0} : Waits([Top EXCEPT !.next = k], c)
        <5>1. PICK c \in Fresh, k \in Nat \ {0} : Waits([Top EXCEPT !.next = k], c)
          BY <4>3
        <5>2. c \in Frame /\ [Top EXCEPT !.next = k] \in Frame
          BY <1>2, <2>1, StackNonempty DEF Fresh, Frame
        <5> QED
          BY <1>2, <2>1, <3>2, <5>1, <5>2, WaitingStack
      <4> QED
        BY <2>5, <4>1, <4>2, <4>3, ConnectiveMoves
    <3> QED
      BY <3>2, <3>3
  <2>6. CASE do_proof_predicate
    <3>1. IsPredicate(Top)
      BY <2>6, PredicateMoves
    <3>2. CASE Answered \/ Left
      <4>1. Popped
        BY <3>2 DEF Answered, Left
      <4>2. Len(stack) # 1 /\ stack'[1] = stack[1]
        BY <1>2, <2>1, <2>2, <2>3, <4>1, PoppedStack
      <4> QED
        BY <2>4, <4>2
    <3>3. CASE Unfolded
      <4> DEFINE fr == [Top EXCEPT !.next = 1, !.saved = parentRef]
                 c == Call(input_pes.rhs[Top.formula.pred], Top.loc, Top.zone)
      <4>1. fr \in Frame /\ c \in Frame /\ Waits(fr, c)
        BY <2>1, <3>1, <3>3, UnfoldedTypes DEF Fresh, Unfolded
      <4>2. Open(fr)
        BY <1>2, <2>1, <3>1, StackNonempty DEF Frame, Open, IsPredicate
      <4> HIDE DEF fr, c
      <4>3. /\ \A i \in 1..(Len(stack) - 1) : stack'[i] = stack[i]
            /\ stack'[Len(stack)] = fr
        BY <1>2, <2>1, <4>1, WaitingStack
      <4>4. CASE Len(stack) = 1
        BY <4>2, <4>3, <4>4
      <4>5. CASE Len(stack) # 1
        <5>1. 1 \in 1..(Len(stack) - 1)
          BY <2>2, <4>5
        <5>2. Open(stack[1])
          BY <2>4, <4>5
        <5> QED
          BY <4>3, <5>1, <5>2
      <4> QED
        BY <4>4, <4>5
    <3> QED
      BY <2>6, <3>2, <3>3, PredicateMoves DEF do_proof_predicate
  <2> QED
    BY <1>3, <2>5, <2>6 DEF Next
<1> QED
  BY <1>1, <1>3 DEF FirstCall, Open, IsPredicate

\* parentRef is a sequent whenever a lookup can succeed.
LEMMA HitHasParent ==
    ASSUME TypeOK, ParentIsInnermost, FirstCall, stack # << >>, IsPredicate(Top),
           \/ KnownFalse(bin, Top.zone)
           \/ KnownTrue(bin, Top.zone)
           \/ GfpCycle(bin, Top.zone)
           \/ LfpCycle(bin, Top.zone)
    PROVE  parentRef # NoParent
<1>1. bin \in Bin
  BY TopPredicate
<1>2. Len(stack) \in Nat \ {0} /\ DOMAIN stack = 1..Len(stack)
  BY StackNonempty DEF TypeOK
<1>3. SUFFICES ASSUME parentRef = NoParent
               PROVE  FALSE
  OBVIOUS
<1>4. Open(stack[1])
  <2>1. SUFFICES ASSUME ~Open(stack[1]) PROVE FALSE
    OBVIOUS
  <2>2. /\ Xlist_true[bin].dbms = {}
        /\ Xlist_false[bin].dbms = {}
        /\ Xlist_pGFP[bin].dbms = << >>
        /\ Xlist_pLFP[bin].dbms = << >>
    BY <1>1, <2>1 DEF FirstCall
  <2> QED
    BY <2>2 DEF KnownFalse, KnownTrue, GfpCycle, LfpCycle, tabled_false_sequent,
                tabled_sequent, tabled_sequent_lfp, Pushed
<1>5. PICK i \in 1..Len(stack) : Open(stack[i]) /\ NoParent = BinOf(stack[i])
  BY <1>2, <1>3, <1>4 DEF ParentIsInnermost, PointsTo
<1>6. stack[i].formula.pred \in Predicate /\ stack[i].loc \in Loc
  <2>1. stack[i] \in Frame
    BY ElementOfSeq DEF TypeOK
  <2> QED
    BY <1>5, <2>1, FormulaAssumption DEF Frame, Open, IsPredicate
<1>7. BinOf(stack[i]) \in Block \X Loc
  BY <1>6, SystemsAssumption DEF TypeOK, BinOf, get_index
<1> QED
  BY <1>5, <1>7, NoParentAssumption

HasNoNull(table) == \A b \in Bin : NoParent \notin table[b].parents

LEMMA PurgeParents ==
    ASSUME Xlist_true \in VerdictTable, Xlist_false \in VerdictTable,
           HasNoNull(Xlist_true), HasNoNull(Xlist_false),
           NEW b \in Bin, NEW zone
    PROVE  /\ HasNoNull(purge_true_sequent(b, zone).true)
           /\ HasNoNull(purge_true_sequent(b, zone).false)
           /\ HasNoNull(purge_false_sequent(b, zone).true)
           /\ HasNoNull(purge_false_sequent(b, zone).false)
<1>1. ASSUME NEW table \in VerdictTable, HasNoNull(table), NEW bins
      PROVE  HasNoNull(look_for_and_purge_rhs_sequent_state(table, bins))
  BY <1>1 DEF HasNoNull, look_for_and_purge_rhs_sequent_state, NoSequent
<1>2. ASSUME NEW table \in VerdictTable, HasNoNull(table), NEW removed
      PROVE  /\ [table EXCEPT ![b] = Without(@, removed)] \in VerdictTable
             /\ HasNoNull([table EXCEPT ![b] = Without(@, removed)])
  <2>1. /\ table[b] \in [dbms : SUBSET Zone, parents : SUBSET Parent]
        /\ NoParent \notin table[b].parents
    BY <1>2 DEF VerdictTable, HasNoNull
  <2>2. /\ Without(table[b], removed) \in [dbms : SUBSET Zone, parents : SUBSET Parent]
        /\ NoParent \notin Without(table[b], removed).parents
    BY <2>1, WithoutType DEF Without, NoSequent
  <2> QED
    BY <1>2, <2>2 DEF VerdictTable, HasNoNull
<1> QED
  BY <1>1, <1>2 DEF purge_true_sequent, purge_false_sequent

LEMMA CacheParents ==
    ASSUME NEW table \in VerdictTable, HasNoNull(table), NEW b \in Bin, NEW zone
    PROVE  /\ \A new \in cache_true_sequent(table, b, zone) : HasNoNull(new)
           /\ \A new \in cache_false_sequent(table, b, zone) : HasNoNull(new)
<1>1. ASSUME NEW d
      PROVE  HasNoNull([table EXCEPT ![b].dbms = d])
  BY DEF HasNoNull, VerdictTable
<1> QED
  BY <1>1 DEF cache_true_sequent, cache_false_sequent

LEMMA NextParents ==
    TypeOK /\ ParentIsInnermost /\ FirstCall /\ ParentsAreSequents /\ [Next]_vars
        => ParentsAreSequents'
<1> SUFFICES ASSUME TypeOK, ParentIsInnermost, FirstCall, ParentsAreSequents, [Next]_vars
             PROVE  /\ HasNoNull(Xlist_pGFP') /\ HasNoNull(Xlist_pLFP')
                    /\ HasNoNull(Xlist_true') /\ HasNoNull(Xlist_false')
  BY DEF ParentsAreSequents, HasNoNull
<1>1. /\ HasNoNull(Xlist_pGFP) /\ HasNoNull(Xlist_pLFP)
      /\ HasNoNull(Xlist_true) /\ HasNoNull(Xlist_false)
  BY DEF ParentsAreSequents, HasNoNull
<1>2. CASE UNCHANGED cacheVars
  BY <1>1, <1>2 DEF cacheVars, tables
<1>3. CASE do_proof_predicate
  <2>1. stack # << >> /\ IsPredicate(Top) /\ bin \in Bin
    BY <1>3, PredicateMoves, TopPredicate
  <2>2. /\ Xlist_pGFP \in CycleTable
        /\ Xlist_pLFP \in CycleTable
        /\ Xlist_true \in VerdictTable
        /\ Xlist_false \in VerdictTable
    BY DEF TypeOK, CacheTypeOK, CycleTable, VerdictTable
  <2>3. ASSUME NEW table \in CycleTable \cup VerdictTable, HasNoNull(table),
               parentRef # NoParent
        PROVE  HasNoNull(addParent(table, bin, parentRef))
    BY <2>1, <2>3 DEF HasNoNull, addParent, CycleTable, VerdictTable
  <2>4. ASSUME NEW table \in CycleTable, HasNoNull(table), NEW d
        PROVE  HasNoNull([table EXCEPT ![bin].dbms = d])
    BY <2>1, <2>4 DEF HasNoNull, CycleTable
  <2>5. CASE KnownFalseHit
    <3>1. parentRef # NoParent
      BY <2>1, <2>5, HitHasParent DEF KnownFalseHit, is_known_false_sequent
    <3> QED
      BY <1>1, <2>2, <2>3, <2>5, <3>1 DEF KnownFalseHit, is_known_false_sequent
  <2>6. CASE KnownTrueHit
    <3>1. parentRef # NoParent
      BY <2>1, <2>6, HitHasParent DEF KnownTrueHit, is_known_true_sequent
    <3> QED
      BY <1>1, <2>2, <2>3, <2>6, <3>1 DEF KnownTrueHit, is_known_true_sequent
  <2>7. CASE GfpCircularity
    <3>1. parentRef # NoParent
      BY <2>1, <2>7, HitHasParent DEF GfpCircularity, completes_gfp_cycle
    <3> QED
      BY <1>1, <2>1, <2>2, <2>3, <2>7, <3>1, CacheParents
         DEF GfpCircularity, completes_gfp_cycle
  <2>8. CASE LfpCircularity
    <3>1. parentRef # NoParent
      BY <2>1, <2>8, HitHasParent DEF LfpCircularity, completes_lfp_cycle
    <3> QED
      BY <1>1, <2>1, <2>2, <2>3, <2>8, <3>1, CacheParents
         DEF LfpCircularity, completes_lfp_cycle
  <2>9. CASE UnfoldGfp
    BY <1>1, <2>2, <2>4, <2>9 DEF UnfoldGfp, tables
  <2>10. CASE UnfoldLfp
    BY <1>1, <2>2, <2>4, <2>10 DEF UnfoldLfp, tables
  <2>11. CASE LeavePredicate
    <3>1. HasNoNull(Xlist_pGFP') /\ HasNoNull(Xlist_pLFP')
      BY <1>1, <2>2, <2>4, <2>11 DEF LeavePredicate, PopCircularity
    <3>2. UpdateCaches /\ Top.zone \in Zone
      BY <2>1, <2>11, TopPredicate DEF LeavePredicate
    <3>3. HasNoNull(Xlist_true') /\ HasNoNull(Xlist_false')
      BY <1>1, <2>1, <2>2, <3>2, PurgeType, PurgeParents, CacheParents
         DEF UpdateCaches, tables
    <3> QED
      BY <3>1, <3>3
  <2> QED
    BY <1>3, <2>5, <2>6, <2>7, <2>8, <2>9, <2>10, <2>11 DEF do_proof_predicate
<1> QED
  BY <1>2, <1>3 DEF Next, vars

\* No table ever records a null parent, so that the purge, which follows every
\* recorded parent, never follows a null one.
THEOREM NoNullParent == Spec => []ParentsAreSequents
<1> DEFINE Inv0 == TypeOK /\ ParentIsInnermost /\ FirstCall /\ ParentsAreSequents
<1>1. Init => Inv0
  <2> SUFFICES ASSUME Init PROVE FirstCall /\ ParentsAreSequents
    BY InitTypes, InitParent
  <2>1. Len(stack) = 1 /\ IsPredicate(stack[1])
    BY SystemsAssumption DEF Init, Call, IsPredicate
  <2> QED
    BY <2>1 DEF Init, CacheInit, FirstCall, ParentsAreSequents, NoCycle, NoSequent
<1>2. Inv0 /\ [Next]_vars => Inv0'
  BY NextTypes, NextParent, NextFirstCall, NextParents
<1>3. Inv0 => ParentsAreSequents
  OBVIOUS
<1> QED
  BY <1>1, <1>2, <1>3, PTL DEF Spec

-----------------------------------------------------------------------------
(***************************************************************************)
(* The circularity tables against the call stack.                          *)
(***************************************************************************)

\* seq holds the zones of the calls of st at the positions in open, in order.
Matches(seq, open, st) ==
    /\ Pushed(seq) = {st[i].zone : i \in open}
    /\ \A i, j \in open, m, n \in DOMAIN seq :
          (seq[m] = st[i].zone /\ seq[n] = st[j].zone) => (m < n <=> i < j)

Growing(seq) == \A m, n \in DOMAIN seq : m < n => ~(seq[n] \subseteq seq[m])
Distinct(seq) == \A m, n \in DOMAIN seq : seq[m] = seq[n] => m = n

LEMMA GrowingIsDistinct ==
    ASSUME NEW seq \in Seq(Zone), Growing(seq)
    PROVE  Distinct(seq)
  BY LenProperties DEF Growing, Distinct

LEMMA MatchesAll ==
    /\ CyclesAreOpenCalls <=> \A b \in Bin, gfp \in BOOLEAN :
                                  Matches(Cycle(gfp, b), OpenIn(gfp, b), stack)
    /\ CyclesMakeProgress <=> \A b \in Bin, gfp \in BOOLEAN : Growing(Cycle(gfp, b))
  BY DEF CyclesAreOpenCalls, CyclesMakeProgress, Matches, Growing

LEMMA MatchesSame ==
    ASSUME NEW seq, NEW open, NEW s, NEW t, \A i \in open : s[i] = t[i],
           Matches(seq, open, s)
    PROVE  Matches(seq, open, t)
<1>1. {s[i].zone : i \in open} = {t[i].zone : i \in open}
  OBVIOUS
<1> QED
  BY <1>1 DEF Matches

LEMMA MatchesPush ==
    ASSUME NEW S, NEW seq \in Seq(S), NEW open, NEW s, NEW t, NEW k \in Nat, NEW z \in S,
           open \subseteq 1..(k - 1),
           \A i \in open : s[i] = t[i],
           Matches(seq, open, s),
           t[k].zone = z,
           z \notin Pushed(seq)
    PROVE  Matches(push_sequent(seq, z), open \cup {k}, t)
<1> DEFINE new == push_sequent(seq, z)
<1>1. /\ new \in Seq(S)
      /\ Len(new) = Len(seq) + 1
      /\ \A i \in 1..Len(seq) : new[i] = seq[i]
      /\ new[Len(seq) + 1] = z
      /\ DOMAIN new = 1..(Len(seq) + 1)
      /\ DOMAIN seq = 1..Len(seq)
      /\ Len(seq) \in Nat
  BY PushSeq, LenProperties DEF push_sequent
<1> HIDE DEF new
<1>2. Matches(seq, open, t)
  BY MatchesSame
<1>3. Pushed(new) = {t[i].zone : i \in open \cup {k}}
  <2>1. Pushed(new) = Pushed(seq) \cup {z}
    BY <1>1 DEF Pushed
  <2>2. {t[i].zone : i \in open \cup {k}} = {t[i].zone : i \in open} \cup {z}
    OBVIOUS
  <2> QED
    BY <1>2, <2>1, <2>2 DEF Matches
<1>4. ASSUME NEW i \in open \cup {k}, NEW j \in open \cup {k},
             NEW m \in DOMAIN new, NEW n \in DOMAIN new,
             new[m] = t[i].zone, new[n] = t[j].zone
      PROVE  m < n <=> i < j
  <2>1. \A x \in open : t[x].zone \in Pushed(seq) /\ t[x].zone # z
    BY <1>2 DEF Matches
  <2>2. \A x \in 1..Len(seq) : seq[x] # z
    BY <1>1 DEF Pushed
  <2>3. /\ i \in open => m \in 1..Len(seq)
        /\ j \in open => n \in 1..Len(seq)
        /\ i = k => m = Len(seq) + 1
        /\ j = k => n = Len(seq) + 1
    BY <1>1, <1>4, <2>1, <2>2
  <2>4. CASE i \in open /\ j \in open
    BY <1>1, <1>2, <1>4, <2>3, <2>4 DEF Matches
  <2>5. CASE i \in open /\ j = k
    BY <1>1, <2>3, <2>5
  <2>6. CASE i = k /\ j \in open
    BY <1>1, <2>3, <2>6
  <2>7. CASE i = k /\ j = k
    BY <1>1, <2>3, <2>7
  <2> QED
    BY <2>4, <2>5, <2>6, <2>7
<1> QED
  BY <1>3, <1>4 DEF Matches, new

LEMMA MatchesPop ==
    ASSUME NEW S, NEW seq \in Seq(S), NEW open, NEW s, NEW t, NEW k \in Nat,
           open \subseteq 1..k, k \in open,
           \A i \in open \ {k} : s[i] = t[i],
           Matches(seq, open, s), Distinct(seq)
    PROVE  Matches(pop_sequent(seq), open \ {k}, t)
<1> DEFINE new == pop_sequent(seq)
           L == Len(seq)
<1>1. PICK x \in DOMAIN seq : seq[x] = s[k].zone
  <2>1. s[k].zone \in Pushed(seq)
    BY DEF Matches
  <2> QED
    BY <2>1 DEF Pushed
<1>2. /\ DOMAIN seq = 1..L
      /\ L \in Nat \ {0}
  BY <1>1, LenProperties
<1>3. /\ new \in Seq(S)
      /\ \A i \in 1..(L - 1) : new[i] = seq[i]
      /\ DOMAIN new = 1..(L - 1)
  <2>1. seq # << >>
    BY <1>1
  <2> QED
    BY <2>1, PopSeq, LenProperties DEF pop_sequent
<1> HIDE DEF new, L
<1>4. \A m, n \in 1..L : seq[m] = seq[n] => m = n
  BY <1>2 DEF Distinct
<1>5. x = L
  <2>1. PICK j \in open : seq[L] = s[j].zone
    BY <1>2 DEF Matches, Pushed
  <2>2. x < L <=> k < j
    BY <1>1, <1>2, <2>1 DEF Matches
  <2> QED
    BY <1>1, <1>2, <2>1, <2>2
<1>6. \A i \in open \ {k} : s[i].zone # seq[L]
  <2> SUFFICES ASSUME NEW i \in open \ {k}, s[i].zone = seq[L]
               PROVE  FALSE
    OBVIOUS
  <2>1. L < L <=> i < k
    BY <1>1, <1>2, <1>5 DEF Matches
  <2> QED
    BY <1>2, <2>1
<1>7. Pushed(new) = {t[i].zone : i \in open \ {k}}
  <2>1. Pushed(new) = Pushed(seq) \ {seq[L]}
    BY <1>2, <1>3, <1>4 DEF Pushed
  <2>2. {t[i].zone : i \in open \ {k}} = {s[i].zone : i \in open} \ {seq[L]}
    BY <1>1, <1>5, <1>6
  <2> QED
    BY <2>1, <2>2 DEF Matches
<1>8. ASSUME NEW i \in open \ {k}, NEW j \in open \ {k},
             NEW m \in DOMAIN new, NEW n \in DOMAIN new,
             new[m] = t[i].zone, new[n] = t[j].zone
      PROVE  m < n <=> i < j
  BY <1>2, <1>3, <1>8 DEF Matches
<1> QED
  BY <1>7, <1>8 DEF Matches, new

LEMMA GrowingPush ==
    ASSUME NEW seq \in Seq(Zone), NEW z \in Zone, Growing(seq),
           ~tabled_sequent(Pushed(seq), z)
    PROVE  Growing(push_sequent(seq, z)) /\ z \notin Pushed(seq)
<1>1. \A x \in DOMAIN seq : ~(z \subseteq seq[x])
  BY DEF tabled_sequent, Pushed
<1>2. z \notin Pushed(seq)
  BY <1>1 DEF Pushed
<1> DEFINE new == push_sequent(seq, z)
<1>3. /\ Len(new) = Len(seq) + 1
      /\ \A i \in 1..Len(seq) : new[i] = seq[i]
      /\ new[Len(seq) + 1] = z
      /\ DOMAIN new = 1..(Len(seq) + 1)
      /\ DOMAIN seq = 1..Len(seq)
      /\ Len(seq) \in Nat
  BY PushSeq, LenProperties DEF push_sequent
<1> HIDE DEF new
<1>4. Growing(new)
  BY <1>1, <1>3 DEF Growing
<1> QED
  BY <1>2, <1>4 DEF new

LEMMA GrowingPop ==
    ASSUME NEW seq \in Seq(Zone), seq # << >>, Growing(seq)
    PROVE  Growing(pop_sequent(seq))
<1>1. /\ \A i \in 1..(Len(seq) - 1) : pop_sequent(seq)[i] = seq[i]
      /\ DOMAIN pop_sequent(seq) = 1..(Len(seq) - 1)
      /\ DOMAIN seq = 1..Len(seq)
      /\ Len(seq) \in Nat
  BY PopSeq, LenProperties DEF pop_sequent
<1> QED
  BY <1>1 DEF Growing

\* The call at the end of the stack belongs to one cycle at most.
LEMMA OpenInBounds ==
    ASSUME TypeOK, NEW b, NEW gfp
    PROVE  OpenIn(gfp, b) \subseteq 1..Len(stack)
  BY LenProperties DEF OpenIn, TypeOK

\* A step after which the same calls are open, in the same places.
LEMMA OpenInSame ==
    ASSUME TypeOK, stack # << >>, input_pes' = input_pes, ~Open(Top),
           1..(Len(stack) - 1) \subseteq DOMAIN stack',
           \A i \in DOMAIN stack' : Open(stack'[i]) => i \in 1..(Len(stack) - 1),
           \A i \in 1..(Len(stack) - 1) : stack'[i] = stack[i],
           NEW b \in Bin, NEW gfp \in BOOLEAN
    PROVE  /\ OpenIn(gfp, b)' = OpenIn(gfp, b)
           /\ \A i \in OpenIn(gfp, b) : stack'[i] = stack[i]
<1>1. /\ Len(stack) \in Nat \ {0}
      /\ DOMAIN stack = 1..Len(stack)
      /\ Top = stack[Len(stack)]
  BY StackNonempty DEF TypeOK, Top
<1>2. \A i \in DOMAIN stack : Open(stack[i]) => i \in 1..(Len(stack) - 1)
  BY <1>1
<1>3. \A i \in DOMAIN stack' : Open(stack'[i]) => i \in 1..(Len(stack) - 1)
  OBVIOUS
<1>4. 1..(Len(stack) - 1) \subseteq DOMAIN stack \cap DOMAIN stack'
  BY <1>1
<1>5. OpenIn(gfp, b) = {i \in 1..(Len(stack) - 1) : /\ Open(stack[i])
                                                   /\ IsGfp(stack[i]) = gfp
                                                   /\ BinOf(stack[i]) = b}
  BY <1>2, <1>4 DEF OpenIn
<1>6. OpenIn(gfp, b)' = {i \in 1..(Len(stack) - 1) : /\ Open(stack'[i])
                                                    /\ IsGfp(stack[i])' = gfp
                                                    /\ BinOf(stack[i])' = b}
  BY <1>3, <1>4 DEF OpenIn
<1>7. \A i \in 1..(Len(stack) - 1) : /\ Open(stack'[i]) <=> Open(stack[i])
                                     /\ IsGfp(stack[i])' = IsGfp(stack[i])
                                     /\ BinOf(stack[i])' = BinOf(stack[i])
  BY DEF IsGfp, BinOf, get_index
<1>8. OpenIn(gfp, b)' = OpenIn(gfp, b)
  BY <1>5, <1>6, <1>7
<1> QED
  BY <1>5, <1>8

\* Every move but the unfolding and the return of a predicate is such a step.
LEMMA QuietMove ==
    ASSUME TypeOK, stack # << >>, ~Open(Top),
           \/ Popped
           \/ \E c \in Fresh : Replaced(c)
           \/ \E fr \in Frame, c \in Fresh : ~Open(fr) /\ Waits(fr, c)
    PROVE  /\ 1..(Len(stack) - 1) \subseteq DOMAIN stack'
           /\ \A i \in DOMAIN stack' : Open(stack'[i]) => i \in 1..(Len(stack) - 1)
           /\ \A i \in 1..(Len(stack) - 1) : stack'[i] = stack[i]
<1>1. stack \in Seq(Frame) /\ Len(stack) \in Nat \ {0}
  BY StackNonempty DEF TypeOK
<1>2. CASE Popped
  BY <1>1, <1>2, PoppedStack
<1>3. CASE \E c \in Fresh : Replaced(c)
  <2>1. PICK c \in Fresh : Replaced(c)
    BY <1>3
  <2>2. c \in Frame /\ ~Open(c)
    BY DEF Fresh, Open
  <2>3. /\ DOMAIN stack' = 1..Len(stack)
        /\ \A i \in 1..(Len(stack) - 1) : stack'[i] = stack[i]
        /\ stack'[Len(stack)] = c
    BY <1>1, <2>1, <2>2, ReplacedStack
  <2>4. \A i \in 1..Len(stack) : i # Len(stack) => i \in 1..(Len(stack) - 1)
    BY <1>1
  <2>5. 1..(Len(stack) - 1) \subseteq 1..Len(stack)
    BY <1>1
  <2> QED
    BY <2>2, <2>3, <2>4, <2>5
<1>4. CASE \E fr \in Frame, c \in Fresh : ~Open(fr) /\ Waits(fr, c)
  <2>1. PICK fr \in Frame, c \in Fresh : ~Open(fr) /\ Waits(fr, c)
    BY <1>4
  <2>2. c \in Frame /\ ~Open(c)
    BY DEF Fresh, Open
  <2>3. /\ DOMAIN stack' = 1..(Len(stack) + 1)
        /\ \A i \in 1..(Len(stack) - 1) : stack'[i] = stack[i]
        /\ stack'[Len(stack)] = fr
        /\ stack'[Len(stack) + 1] = c
    BY <1>1, <2>1, <2>2, WaitingStack
  <2>4. \A i \in 1..(Len(stack) + 1) :
            i # Len(stack) /\ i # Len(stack) + 1 => i \in 1..(Len(stack) - 1)
    BY <1>1
  <2>5. 1..(Len(stack) - 1) \subseteq 1..(Len(stack) + 1)
    BY <1>1
  <2> QED
    BY <2>1, <2>2, <2>3, <2>4, <2>5
<1> QED
  BY <1>2, <1>3, <1>4

CyclesInv == CyclesAreOpenCalls /\ CyclesMakeProgress

\* The open calls of one table after a quiet step.
LEMMA QuietCycles ==
    ASSUME TypeOK, CyclesInv, stack # << >>, input_pes' = input_pes, ~Open(Top),
           1..(Len(stack) - 1) \subseteq DOMAIN stack',
           \A i \in DOMAIN stack' : Open(stack'[i]) => i \in 1..(Len(stack) - 1),
           \A i \in 1..(Len(stack) - 1) : stack'[i] = stack[i],
           \A b \in Bin, gfp \in BOOLEAN : Cycle(gfp, b)' = Cycle(gfp, b)
    PROVE  CyclesInv'
<1>1. ASSUME NEW b \in Bin, NEW gfp \in BOOLEAN
      PROVE  Matches(Cycle(gfp, b), OpenIn(gfp, b), stack)' /\ Growing(Cycle(gfp, b))'
  <2>1. Matches(Cycle(gfp, b), OpenIn(gfp, b), stack) /\ Growing(Cycle(gfp, b))
    BY MatchesAll DEF CyclesInv
  <2>2. /\ OpenIn(gfp, b)' = OpenIn(gfp, b)
        /\ \A i \in OpenIn(gfp, b) : stack'[i] = stack[i]
    BY OpenInSame
  <2>3. Cycle(gfp, b)' = Cycle(gfp, b)
    OBVIOUS
  <2>4. Matches(Cycle(gfp, b), OpenIn(gfp, b), stack')
    BY <2>1, <2>2, MatchesSame
  <2> QED
    BY <2>1, <2>2, <2>3, <2>4
<1> QED
  BY <1>1 DEF CyclesInv, CyclesAreOpenCalls, CyclesMakeProgress, Matches, Growing

\* A predicate opens: its zone goes on top of its own table.
LEMMA UnfoldCycles ==
    ASSUME TypeOK, CyclesInv, UnfoldGfp \/ UnfoldLfp
    PROVE  CyclesInv'
<1> DEFINE fr == [Top EXCEPT !.next = 1, !.saved = parentRef]
           c == Call(input_pes.rhs[Top.formula.pred], Top.loc, Top.zone)
           k == Len(stack)
<1>1. /\ stack # << >> /\ IsPredicate(Top)
      /\ input_pes' = input_pes
      /\ Unfolded
  BY PredicateMoves DEF do_proof_predicate
<1>2. stack \in Seq(Frame) /\ Top \in Frame /\ Top.zone \in Zone /\ bin \in Bin
  BY <1>1, TopPredicate DEF TypeOK
<1>3. /\ fr \in Frame /\ c \in Frame /\ Waits(fr, c)
      /\ Open(fr) /\ ~Open(c) /\ ~Open(Top)
      /\ fr.zone = Top.zone
      /\ fr.formula = Top.formula
      /\ fr.loc = Top.loc
  BY <1>1, <1>2, UnfoldedTypes DEF Unfolded, Fresh, Open, IsPredicate, Frame
<1>4. IsGfp(Top) \in BOOLEAN
  BY <1>1, TopPredicate, SystemsAssumption DEF TypeOK, IsGfp
<1>5. k \in Nat \ {0} /\ DOMAIN stack = 1..k /\ Top = stack[k]
  BY <1>1, <1>2, StackNonempty DEF Top
<1> HIDE DEF fr, c
<1>6. /\ DOMAIN stack' = 1..(k + 1)
      /\ \A i \in 1..(k - 1) : stack'[i] = stack[i]
      /\ stack'[k] = fr
      /\ stack'[k + 1] = c
  BY <1>1, <1>2, <1>3, WaitingStack
<1>7. \A b \in Bin, gfp \in BOOLEAN :
         /\ OpenIn(gfp, b) \subseteq 1..(k - 1)
         /\ OpenIn(gfp, b)' = OpenIn(gfp, b)
                \cup (IF gfp = IsGfp(Top) /\ b = bin THEN {k} ELSE {})
  <2> SUFFICES ASSUME NEW b \in Bin, NEW gfp \in BOOLEAN
               PROVE  /\ OpenIn(gfp, b) \subseteq 1..(k - 1)
                      /\ OpenIn(gfp, b)' = OpenIn(gfp, b)
                            \cup (IF gfp = IsGfp(Top) /\ b = bin THEN {k} ELSE {})
    OBVIOUS
  <2>1. ASSUME NEW i \in 1..k, Open(stack[i])
        PROVE  i \in 1..(k - 1)
    BY <1>3, <1>5, <2>1
  <2>2. \A i \in 1..(k - 1) : /\ Open(stack'[i]) <=> Open(stack[i])
                              /\ IsGfp(stack[i])' = IsGfp(stack[i])
                              /\ BinOf(stack[i])' = BinOf(stack[i])
    BY <1>1, <1>6 DEF IsGfp, BinOf, get_index
  <2>3. \A i \in {k} : IsGfp(stack[i])' = IsGfp(Top) /\ BinOf(stack[i])' = bin
    BY <1>1, <1>3, <1>6 DEF IsGfp, BinOf, bin, get_index
  <2>4. OpenIn(gfp, b) = {i \in 1..(k - 1) : /\ Open(stack[i])
                                            /\ IsGfp(stack[i]) = gfp
                                            /\ BinOf(stack[i]) = b}
    BY <1>5, <2>1 DEF OpenIn
  <2>5. \A i \in 1..(k + 1) : i \in 1..(k - 1) \/ i = k \/ i = k + 1
    <3>1. k \in Nat \ {0}
      BY <1>5
    <3> HIDE DEF k
    <3> QED
      BY <3>1
  <2>6. OpenIn(gfp, b)' = {i \in 1..(k + 1) : /\ Open(stack'[i])
                                             /\ IsGfp(stack[i])' = gfp
                                             /\ BinOf(stack[i])' = b}
    BY <1>6 DEF OpenIn
  <2>7. 1..(k - 1) \subseteq 1..(k + 1) /\ k \in 1..(k + 1)
    BY <1>5
  <2> HIDE DEF k
  <2>8. ASSUME NEW i
        PROVE  i \in OpenIn(gfp, b)' <=> \/ i \in OpenIn(gfp, b)
                                         \/ i = k /\ gfp = IsGfp(Top) /\ b = bin
    <3>1. CASE i \in 1..(k - 1)
      <4>1. i # k
        BY <1>5, <3>1
      <4> QED
        BY <2>2, <2>4, <2>6, <2>7, <3>1, <4>1
    <3>2. CASE i = k
      <4>1. i \notin 1..(k - 1)
        BY <1>5, <3>2
      <4> QED
        BY <1>3, <1>6, <2>3, <2>4, <2>6, <2>7, <3>2, <4>1
    <3>3. CASE i = k + 1
      <4>1. i \notin 1..(k - 1) /\ i # k
        BY <1>5, <3>3
      <4> QED
        BY <1>3, <1>6, <2>4, <2>6, <3>3, <4>1
    <3>4. CASE i \notin 1..(k - 1) /\ i # k /\ i # k + 1
      BY <2>4, <2>5, <2>6, <3>4
    <3> QED
      BY <3>1, <3>2, <3>3, <3>4
  <2> QED
    BY <2>4, <2>8
<1>8. \A b \in Bin, gfp \in BOOLEAN :
         /\ Cycle(gfp, b) \in Seq(Zone)
         /\ Cycle(gfp, b)' = IF gfp = IsGfp(Top) /\ b = bin
                             THEN push_sequent(Cycle(gfp, b), Top.zone)
                             ELSE Cycle(gfp, b)
         /\ gfp = IsGfp(Top) /\ b = bin => ~tabled_sequent(Pushed(Cycle(gfp, b)), Top.zone)
  <2>1. CASE UnfoldGfp
    BY <1>2, <2>1 DEF UnfoldGfp, TypeOK, CacheTypeOK, Cycle, GfpCycle
  <2>2. CASE UnfoldLfp
    BY <1>2, <1>4, <2>2
       DEF UnfoldLfp, TypeOK, CacheTypeOK, Cycle, LfpCycle, tabled_sequent_lfp
  <2> QED
    BY <2>1, <2>2
<1>9. ASSUME NEW b \in Bin, NEW gfp \in BOOLEAN
      PROVE  Matches(Cycle(gfp, b)', OpenIn(gfp, b)', stack') /\ Growing(Cycle(gfp, b)')
  <2>1. Matches(Cycle(gfp, b), OpenIn(gfp, b), stack) /\ Growing(Cycle(gfp, b))
    BY MatchesAll DEF CyclesInv
  <2>2. \A i \in OpenIn(gfp, b) : stack[i] = stack'[i]
    BY <1>6, <1>7
  <2>3. CASE gfp = IsGfp(Top) /\ b = bin
    <3>1. /\ Growing(push_sequent(Cycle(gfp, b), Top.zone))
          /\ Top.zone \notin Pushed(Cycle(gfp, b))
      BY <1>2, <1>8, <2>1, <2>3, GrowingPush
    <3>2. Matches(push_sequent(Cycle(gfp, b), Top.zone), OpenIn(gfp, b) \cup {k}, stack')
      <4>1. stack'[k].zone = Top.zone
        BY <1>3, <1>6
      <4>2. OpenIn(gfp, b) \subseteq 1..(k - 1) /\ k \in Nat /\ Cycle(gfp, b) \in Seq(Zone)
        BY <1>5, <1>7, <1>8
      <4> HIDE DEF k
      <4> QED
        BY <1>2, <2>1, <2>2, <3>1, <4>1, <4>2, MatchesPush
    <3>3. /\ Cycle(gfp, b)' = push_sequent(Cycle(gfp, b), Top.zone)
          /\ OpenIn(gfp, b)' = OpenIn(gfp, b) \cup {k}
      BY <1>7, <1>8, <2>3
    <3> QED
      BY <3>1, <3>2, <3>3
  <2>4. CASE ~(gfp = IsGfp(Top) /\ b = bin)
    <3>1. /\ Cycle(gfp, b)' = Cycle(gfp, b)
          /\ OpenIn(gfp, b)' = OpenIn(gfp, b)
      BY <1>7, <1>8, <2>4
    <3>2. Matches(Cycle(gfp, b), OpenIn(gfp, b), stack')
      BY <2>1, <2>2, MatchesSame
    <3> QED
      BY <2>1, <3>1, <3>2
  <2> QED
    BY <2>3, <2>4
<1> QED
  BY <1>9 DEF CyclesInv, CyclesAreOpenCalls, CyclesMakeProgress, Matches, Growing

\* A predicate returns: its zone is the last of its own table, and goes.
LEMMA LeaveCycles ==
    ASSUME TypeOK, CyclesInv, LeavePredicate
    PROVE  CyclesInv'
<1> DEFINE k == Len(stack)
<1>1. /\ stack # << >> /\ IsPredicate(Top)
      /\ input_pes' = input_pes
      /\ Popped
      /\ Open(Top)
  BY PredicateMoves DEF do_proof_predicate, Left, Open
<1>2. stack \in Seq(Frame) /\ bin \in Bin /\ IsGfp(Top) \in BOOLEAN
  BY <1>1, TopPredicate, SystemsAssumption DEF TypeOK, IsGfp
<1>3. k \in Nat \ {0} /\ DOMAIN stack = 1..k /\ Top = stack[k]
  BY <1>1, <1>2, StackNonempty DEF Top
<1>4. DOMAIN stack' = 1..(k - 1) /\ \A i \in 1..(k - 1) : stack'[i] = stack[i]
  BY <1>1, <1>2, PoppedStack
<1>5. \A i \in {k} : IsGfp(stack[i]) = IsGfp(Top) /\ BinOf(stack[i]) = bin /\ Open(stack[i])
  BY <1>1, <1>3 DEF bin
<1>6. \A i \in 1..(k - 1) : /\ Open(stack'[i]) <=> Open(stack[i])
                            /\ IsGfp(stack[i])' = IsGfp(stack[i])
                            /\ BinOf(stack[i])' = BinOf(stack[i])
  BY <1>1, <1>4 DEF IsGfp, BinOf, get_index
<1>7. ASSUME NEW b \in Bin, NEW gfp \in BOOLEAN
      PROVE  /\ OpenIn(gfp, b) = {i \in 1..k : /\ Open(stack[i])
                                              /\ IsGfp(stack[i]) = gfp
                                              /\ BinOf(stack[i]) = b}
             /\ OpenIn(gfp, b)' = {i \in 1..(k - 1) : /\ Open(stack'[i])
                                                     /\ IsGfp(stack[i])' = gfp
                                                     /\ BinOf(stack[i])' = b}
  BY <1>3, <1>4 DEF OpenIn
<1>8. \A b \in Bin, gfp \in BOOLEAN :
         /\ Cycle(gfp, b) \in Seq(Zone)
         /\ Cycle(gfp, b)' = IF gfp = IsGfp(Top) /\ b = bin
                             THEN pop_sequent(Cycle(gfp, b))
                             ELSE Cycle(gfp, b)
  BY <1>2 DEF LeavePredicate, PopCircularity, TypeOK, CacheTypeOK, Cycle
<1> HIDE DEF k
<1>9. /\ \A i \in 1..k : i \in 1..(k - 1) \/ i = k
      /\ 1..(k - 1) \subseteq 1..k
      /\ k \in 1..k
      /\ k \notin 1..(k - 1)
  <2>1. k \in Nat \ {0}
    BY <1>3
  <2> QED
    BY <2>1
<1>10. ASSUME NEW b \in Bin, NEW gfp \in BOOLEAN
       PROVE  /\ OpenIn(gfp, b) \subseteq 1..k
              /\ OpenIn(gfp, b)' = OpenIn(gfp, b) \ {k}
              /\ k \in OpenIn(gfp, b) <=> gfp = IsGfp(Top) /\ b = bin
  <2>1. ASSUME NEW i
        PROVE  i \in OpenIn(gfp, b)' <=> i \in OpenIn(gfp, b) /\ i # k
    BY <1>6, <1>7, <1>9
  <2>2. k \in OpenIn(gfp, b) <=> gfp = IsGfp(Top) /\ b = bin
    BY <1>5, <1>7, <1>9
  <2> QED
    BY <1>7, <2>1, <2>2
<1>11. ASSUME NEW b \in Bin, NEW gfp \in BOOLEAN
       PROVE  Matches(Cycle(gfp, b)', OpenIn(gfp, b)', stack') /\ Growing(Cycle(gfp, b)')
  <2>1. Matches(Cycle(gfp, b), OpenIn(gfp, b), stack) /\ Growing(Cycle(gfp, b))
    BY MatchesAll DEF CyclesInv
  <2>2. \A i \in OpenIn(gfp, b) \ {k} : stack[i] = stack'[i]
    BY <1>4, <1>9, <1>10
  <2>3. CASE gfp = IsGfp(Top) /\ b = bin
    <3>1. /\ Cycle(gfp, b) \in Seq(Zone)
          /\ Cycle(gfp, b)' = pop_sequent(Cycle(gfp, b))
      BY <1>8, <2>3
    <3>2. /\ OpenIn(gfp, b) \subseteq 1..k
          /\ k \in OpenIn(gfp, b)
          /\ OpenIn(gfp, b)' = OpenIn(gfp, b) \ {k}
          /\ k \in Nat
      BY <1>3, <1>10, <2>3
    <3>3. Matches(pop_sequent(Cycle(gfp, b)), OpenIn(gfp, b) \ {k}, stack')
      BY <2>1, <2>2, <3>1, <3>2, MatchesPop, GrowingIsDistinct
    <3>4. Cycle(gfp, b) # << >>
      <4>1. stack[k].zone \in Pushed(Cycle(gfp, b))
        BY <2>1, <3>2 DEF Matches
      <4> QED
        BY <4>1 DEF Pushed
    <3>5. Growing(pop_sequent(Cycle(gfp, b)))
      BY <2>1, <3>1, <3>4, GrowingPop
    <3> QED
      BY <3>1, <3>2, <3>3, <3>5
  <2>4. CASE ~(gfp = IsGfp(Top) /\ b = bin)
    <3>1. /\ Cycle(gfp, b)' = Cycle(gfp, b)
          /\ OpenIn(gfp, b)' = OpenIn(gfp, b)
          /\ \A i \in OpenIn(gfp, b) : stack[i] = stack'[i]
      <4>1. Cycle(gfp, b)' = Cycle(gfp, b)
        BY <1>8, <2>4
      <4>2. /\ k \notin OpenIn(gfp, b)
            /\ OpenIn(gfp, b)' = OpenIn(gfp, b) \ {k}
        BY <1>10, <2>4
      <4>3. OpenIn(gfp, b) \ {k} = OpenIn(gfp, b)
        BY <4>2
      <4> QED
        BY <2>2, <4>1, <4>2, <4>3
    <3>2. Matches(Cycle(gfp, b), OpenIn(gfp, b), stack')
      BY <2>1, <3>1, MatchesSame
    <3> QED
      BY <2>1, <3>1, <3>2
  <2> QED
    BY <2>3, <2>4
<1> QED
  BY <1>11 DEF CyclesInv, CyclesAreOpenCalls, CyclesMakeProgress, Matches, Growing

LEMMA NextCycles == TypeOK /\ CyclesInv /\ [Next]_vars => CyclesInv'
<1> SUFFICES ASSUME TypeOK, CyclesInv, [Next]_vars
             PROVE  CyclesInv'
  OBVIOUS
<1>1. CASE UNCHANGED vars
  BY <1>1 DEF vars, cacheVars, CyclesInv, CyclesAreOpenCalls, CyclesMakeProgress,
              Cycle, OpenIn, Open, IsPredicate, IsGfp, BinOf, get_index
<1>2. ASSUME NEW table \in CycleTable, NEW b \in Bin, NEW p, NEW c \in Bin
      PROVE  addParent(table, b, p)[c].dbms = table[c].dbms
  BY DEF addParent, CycleTable
<1>3. Xlist_pGFP \in CycleTable /\ Xlist_pLFP \in CycleTable
  BY DEF TypeOK, CacheTypeOK, CycleTable
<1>4. CASE Connective /\ UNCHANGED <<input_pes, parentRef, cacheVars>>
  <2>1. /\ stack # << >> /\ ~IsPredicate(Top) /\ ~Open(Top)
        /\ input_pes' = input_pes
    BY <1>4, ConnectiveMoves DEF Open
  <2>2. Top \in Frame
    BY <2>1, StackNonempty DEF TypeOK
  <2>3. \/ Popped
        \/ \E c \in Fresh : Replaced(c)
        \/ \E fr \in Frame, c \in Fresh : ~Open(fr) /\ Waits(fr, c)
    <3>1. ASSUME NEW j \in Nat \ {0}
          PROVE  [Top EXCEPT !.next = j] \in Frame /\ ~Open([Top EXCEPT !.next = j])
      BY <2>1, <2>2 DEF Frame, Open, IsPredicate
    <3> QED
      BY <1>4, <3>1, ConnectiveMoves
  <2>4. /\ 1..(Len(stack) - 1) \subseteq DOMAIN stack'
        /\ \A i \in DOMAIN stack' : Open(stack'[i]) => i \in 1..(Len(stack) - 1)
        /\ \A i \in 1..(Len(stack) - 1) : stack'[i] = stack[i]
    BY <2>1, <2>3, QuietMove
  <2>5. \A b \in Bin, gfp \in BOOLEAN : Cycle(gfp, b)' = Cycle(gfp, b)
    BY <1>4 DEF Cycle, cacheVars
  <2> QED
    BY <2>1, <2>4, <2>5, QuietCycles
<1>5. CASE KnownFalseHit \/ KnownTrueHit \/ GfpCircularity \/ LfpCircularity
  <2>1. /\ stack # << >> /\ IsPredicate(Top) /\ bin \in Bin
        /\ input_pes' = input_pes
        /\ Answered
    BY <1>5, PredicateMoves, TopPredicate DEF do_proof_predicate
  <2>2. ~Open(Top) /\ Popped
    BY <2>1 DEF Answered, Open
  <2>3. /\ 1..(Len(stack) - 1) \subseteq DOMAIN stack'
        /\ \A i \in DOMAIN stack' : Open(stack'[i]) => i \in 1..(Len(stack) - 1)
        /\ \A i \in 1..(Len(stack) - 1) : stack'[i] = stack[i]
    BY <2>1, <2>2, QuietMove
  <2>4. ASSUME NEW b \in Bin
        PROVE  /\ Xlist_pGFP'[b].dbms = Xlist_pGFP[b].dbms
               /\ Xlist_pLFP'[b].dbms = Xlist_pLFP[b].dbms
    BY <1>2, <1>3, <1>5, <2>1
       DEF KnownFalseHit, KnownTrueHit, GfpCircularity, LfpCircularity,
           is_known_false_sequent, is_known_true_sequent,
           completes_gfp_cycle, completes_lfp_cycle
  <2>5. \A b \in Bin, gfp \in BOOLEAN : Cycle(gfp, b)' = Cycle(gfp, b)
    BY <2>4 DEF Cycle
  <2> QED
    BY <2>1, <2>2, <2>3, <2>5, QuietCycles
<1>6. CASE UnfoldGfp \/ UnfoldLfp
  BY <1>6, UnfoldCycles
<1>7. CASE LeavePredicate
  BY <1>7, LeaveCycles
<1> QED
  BY <1>1, <1>4, <1>5, <1>6, <1>7 DEF Next, do_proof_predicate

LEMMA InitCycles == Init => CyclesInv
<1> SUFFICES ASSUME Init, NEW b \in Bin, NEW gfp \in BOOLEAN
             PROVE  Cycle(gfp, b) = << >> /\ OpenIn(gfp, b) = {}
  BY DEF CyclesInv, CyclesAreOpenCalls, CyclesMakeProgress, Pushed
<1>1. DOMAIN stack = {1} /\ ~Open(stack[1])
  BY DEF Init, Open, Call
<1> QED
  BY <1>1 DEF Init, CacheInit, NoCycle, Cycle, OpenIn

\* The circularity tables are exactly the chain of predicate calls under
\* proof, in order: what do_proof_predicate takes for an ancestor of the
\* sequent is one.
THEOREM CyclesCorrect == Spec => []CyclesAreOpenCalls
<1>1. Init => TypeOK /\ CyclesInv
  BY InitTypes, InitCycles
<1>2. (TypeOK /\ CyclesInv) /\ [Next]_vars => (TypeOK /\ CyclesInv)'
  BY NextTypes, NextCycles
<1>3. CyclesInv => CyclesAreOpenCalls
  BY DEF CyclesInv
<1> QED
  BY <1>1, <1>2, <1>3, PTL DEF Spec

\* In one table no zone is pushed on top of one that contains it, so that a
\* bin holds at most as many open calls as there are zones: the reason why
\* the recursion through the equations cannot go on for ever.
THEOREM ProgressCorrect == Spec => []CyclesMakeProgress
<1>1. Init => TypeOK /\ CyclesInv
  BY InitTypes, InitCycles
<1>2. (TypeOK /\ CyclesInv) /\ [Next]_vars => (TypeOK /\ CyclesInv)'
  BY NextTypes, NextCycles
<1>3. CyclesInv => CyclesMakeProgress
  BY DEF CyclesInv
<1> QED
  BY <1>1, <1>2, <1>3, PTL DEF Spec

=============================================================================
