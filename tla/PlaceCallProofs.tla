--------------------------- MODULE PlaceCallProofs ---------------------------
(***************************************************************************)
(* Theorems about the calls of the whole proof search (FullProver): what    *)
(* holds of the tables and parents of do_proof while do_proof_place runs in *)
(* between, and the same of do_proof_place itself.                          *)
(***************************************************************************)
EXTENDS PlaceProofs, FiniteSetTheorems

-----------------------------------------------------------------------------
(***************************************************************************)
(* A splitting rule that waits for a placeholder waits alone.              *)
(***************************************************************************)

SplittingOps == {"OR", "EXISTS", "EXISTS_REL", "FORALL_REL", "EXISTACT"}

\* While a placeholder is sought or has just come back, the innermost call of
\* do_proof is a splitting rule that has started and not returned.
Waiting ==
    (pstack # << >> \/ place_ret # << >>) =>
        /\ stack # << >>
        /\ ret = "none"
        /\ Top.next # 0
        /\ Top.formula.op \in SplittingOps

\* do_proof does nothing on its own meanwhile.
LEMMA WaitingStopsNext ==
    ASSUME Waiting, Next
    PROVE  pstack = << >> /\ place_ret = << >>
<1>1. Entering \/ Resuming
  BY DEF Next, Connective, do_proof_and, do_proof_or_simple, do_proof_forall,
         do_proof_allact, do_proof_imply, do_proof_sublist, do_proof_reset,
         do_proof_atomic, do_proof_constraint, do_proof_ablewaitinf,
         do_proof_predicate, KnownFalseHit, KnownTrueHit, GfpCircularity, LfpCircularity,
         UnfoldGfp, UnfoldLfp, LeavePredicate, EnterPredicate
<1> QED
  BY <1>1 DEF Waiting, Entering, Resuming

\* What a splitting rule does: it asks for a placeholder, returns, or hands on.
LEMMA SplitCases ==
    ASSUME FullTypeOK, Waiting, stack # << >>, SplittingRule
    PROVE  /\ pstack = << >>
           /\ ret = "none"
           /\ Top.formula.op \in SplittingOps
           /\ parentPlaceRef' \in {NoParent, parentPlaceRef}
           /\ \/ \E k \in Nat \ {0} : \E f, z, place :
                    AskPlace(k, PlaceCall(f, Top.loc, z, place))
              \/ \E b \in BOOLEAN : AnswerWith(b)
              \/ \E f \in Formula, zone \in Zone : ContinueWith(f, zone)
<1> DEFINE f == Top.formula
           Asks == \E k \in Nat \ {0} : \E g, z, place :
                       AskPlace(k, PlaceCall(g, Top.loc, z, place))
           Answers == \E b \in BOOLEAN : AnswerWith(b)
           Continues == \E g \in Formula, zone \in Zone : ContinueWith(g, zone)
<1>1. /\ f \in Formula /\ Top.loc \in Loc /\ Top.zone \in Zone /\ Top.next \in Nat
  BY StackNonempty DEF FullTypeOK, TypeOK, Frame
<1>2. /\ pstack = << >>
      /\ ret = "none"
      /\ f.op \in SplittingOps
      /\ parentPlaceRef' \in {NoParent, parentPlaceRef}
  BY DEF SplittingRule, do_proof_or, do_proof_exists, do_proof_exists_rel, do_proof_forall_rel,
         do_proof_existact, Begins, PlaceDone, Entering, Waiting, SplittingOps
<1>3. \A k \in {1, 2} : \A g, place : AskHere(k, g) \/ AskDelayed(k, g, place) => Asks
  BY DEF AskHere, AskDelayed
<1>4. f.op \in {"OR", "FORALL_REL"} => f.right \in Formula
  BY <1>1, SplitAssumption
<1>5. ASSUME NEW from \in Nat \ {0}, NEW found, TryTransitions(from, found)
      PROVE  Asks \/ Answers
  <2>1. \A k \in ExistactPending(Top, Point, from) : k \in Nat \ {0}
    <3>1. Len(Transitions) \in Nat
      BY AutomatonAssumption, LenProperties
    <3>2. ExistactPending(Top, Point, from) \subseteq from..Len(Transitions)
      BY DEF ExistactPending
    <3> QED
      BY <3>1, <3>2
  <2>2. ASSUME NEW k \in ExistactPending(Top, Point, from), NEW place,
               AskPlace(k, AlongTransition(Top, k, place))
        PROVE  Asks
    <3>1. \E g, z, pl : AlongTransition(Top, k, place) = PlaceCall(g, Top.loc, z, pl)
      BY DEF AlongTransition
    <3> QED
      BY <2>1, <2>2, <3>1
  <2> QED
    BY <1>5, <2>2 DEF TryTransitions
<1> HIDE DEF Asks, Answers, Continues
<1>6. ASSUME NEW b \in BOOLEAN, AnswerWith(b) PROVE Answers
  BY <1>6 DEF Answers
<1>7. ASSUME NEW g \in Formula, NEW zone \in Zone, ContinueWith(g, zone) PROVE Continues
  BY <1>7 DEF Continues
<1>8. CASE do_proof_or
  <2>1. f.right \in Formula
    BY <1>4, <1>8 DEF do_proof_or, Begins, PlaceDone
  <2> QED
    BY <1>1, <1>2, <1>3, <1>6, <1>7, <1>8, <2>1 DEF do_proof_or, Asks, Answers, Continues
<1>9. CASE do_proof_exists
  BY <1>2, <1>3, <1>6, <1>9 DEF do_proof_exists, Asks, Answers, Continues
<1>10. CASE do_proof_exists_rel
  BY <1>2, <1>3, <1>6, <1>10 DEF do_proof_exists_rel, Asks, Answers, Continues
<1>11. CASE do_proof_forall_rel
  <2>1. f.right \in Formula /\ Elapse(Top.zone, Top.loc) \in Zone
    BY <1>1, <1>4, <1>11, ElapseIsZone DEF do_proof_forall_rel, Begins, PlaceDone
  <2> QED
    BY <1>1, <1>2, <1>3, <1>6, <1>7, <1>11, <2>1
       DEF do_proof_forall_rel, Asks, Answers, Continues
<1>12. CASE do_proof_existact
  <2>1. CASE TryTransitions(1, {})
    BY <1>2, <1>5, <2>1 DEF Asks, Answers, Continues
  <2>2. CASE AnswerWith(TRUE)
    BY <1>2, <1>6, <2>2 DEF Asks, Answers, Continues
  <2>3. CASE TryTransitions(Top.next + 1, kept \cup Answer)
    BY <1>1, <1>2, <1>5, <2>3 DEF Asks, Answers, Continues
  <2> QED
    BY <1>12, <2>1, <2>2, <2>3 DEF do_proof_existact
<1> QED
  BY <1>8, <1>9, <1>10, <1>11, <1>12 DEF SplittingRule

\* For the stack of do_proof that is a quiet step: no predicate opens or closes.
LEMMA SplitQuiet ==
    ASSUME FullTypeOK, Waiting, stack # << >>, SplittingRule
    PROVE  /\ ~IsPredicate(Top)
           /\ \/ Popped
              \/ \E c \in Frame : ~Open(c) /\ Replaced(c)
<1>1. Top \in Frame
  BY StackNonempty DEF FullTypeOK, TypeOK
<1>2. ~IsPredicate(Top)
  BY SplitCases DEF SplittingOps, IsPredicate
<1>3. ASSUME NEW k \in Nat \ {0}, NEW call, AskPlace(k, call)
      PROVE  \E c \in Frame : ~Open(c) /\ Replaced(c)
  <2>1. /\ [Top EXCEPT !.next = k] \in Frame
        /\ ~Open([Top EXCEPT !.next = k])
    BY <1>1, <1>2 DEF Frame, Open, IsPredicate
  <2>2. Replaced([Top EXCEPT !.next = k])
    BY <1>3 DEF AskPlace, Replaced, Top
  <2> QED
    BY <2>1, <2>2
<1>4. ASSUME NEW b \in BOOLEAN, AnswerWith(b)
      PROVE  Popped
  BY <1>4 DEF AnswerWith, Use, Return, Popped
<1>5. ASSUME NEW f \in Formula, NEW zone \in Zone, ContinueWith(f, zone)
      PROVE  \E c \in Frame : ~Open(c) /\ Replaced(c)
  <2>1. Call(f, Top.loc, zone) \in Frame /\ ~Open(Call(f, Top.loc, zone))
    BY <1>1, CallIsFresh DEF Fresh, Frame, Open
  <2> QED
    BY <1>5, <2>1 DEF ContinueWith, Use, TailCall, Replaced
<1> QED
  BY <1>2, <1>3, <1>4, <1>5, SplitCases

LEMMA FullNextWaiting == FullTypeOK /\ Waiting /\ [FullNext]_fullVars => Waiting'
<1> SUFFICES ASSUME FullTypeOK, Waiting, [FullNext]_fullVars
             PROVE  Waiting'
  OBVIOUS
<1>1. CASE UNCHANGED fullVars
  BY <1>1 DEF fullVars, vars, placeVars, searchVars, Waiting, Top
<1>2. CASE Next /\ UNCHANGED <<placeVars, kept>>
  BY <1>2, WaitingStopsNext DEF placeVars, searchVars, Waiting
<1>3. CASE do_proof_place /\ UNCHANGED kept
  BY <1>3 DEF do_proof_place, Waiting, Top
<1>4. CASE /\ stack # << >>
           /\ SplittingRule
           /\ UNCHANGED <<input_pes, parentRef, cacheVars, placeCacheVars>>
  <2>1. /\ pstack = << >> /\ ret = "none" /\ Top.formula.op \in SplittingOps
    BY <1>4, SplitCases
  <2>2. CASE \E k \in Nat \ {0} : \E f, z, place : AskPlace(k, PlaceCall(f, Top.loc, z, place))
    <3>1. PICK k \in Nat \ {0} : stack' = [stack EXCEPT ![Len(stack)].next = k] /\ ret' = ret
      BY <2>2 DEF AskPlace
    <3>2. Top \in Frame /\ stack \in Seq(Frame)
      BY <1>4, StackNonempty DEF FullTypeOK, TypeOK
    <3>3. [Top EXCEPT !.next = k] \in Frame
      BY <3>2 DEF Frame
    <3>4. Replaced([Top EXCEPT !.next = k])
      BY <3>1 DEF Replaced, Top
    <3>5. /\ Len(stack') = Len(stack) /\ stack'[Len(stack)] = [Top EXCEPT !.next = k]
          /\ DOMAIN stack' = 1..Len(stack) /\ Len(stack) \in Nat \ {0}
      BY <1>4, <3>2, <3>3, <3>4, ReplacedStack, StackNonempty
    <3>6. Top' = [Top EXCEPT !.next = k] /\ stack' # << >>
      BY <3>5 DEF Top
    <3> QED
      BY <2>1, <3>1, <3>2, <3>6 DEF Waiting, Frame
  <2>3. CASE (\E b \in BOOLEAN : AnswerWith(b))
               \/ \E f \in Formula, zone \in Zone : ContinueWith(f, zone)
    BY <2>1, <2>3 DEF AnswerWith, ContinueWith, Use, Waiting
  <2> QED
    BY <1>4, <2>2, <2>3, SplitCases
<1> QED
  BY <1>1, <1>2, <1>3, <1>4 DEF FullNext

-----------------------------------------------------------------------------
(***************************************************************************)
(* The tables and parents of do_proof, with do_proof_place in between.     *)
(***************************************************************************)

\* The part of the state that do_proof_place and the splitting rules leave alone.
LEMMA OuterStep ==
    ASSUME FullTypeOK, Waiting, [FullNext]_fullVars
    PROVE  \/ [Next]_vars
           \/ /\ UNCHANGED <<input_pes, parentRef, Xlist_pGFP, Xlist_pLFP>>
              /\ \/ UNCHANGED stack
                 \/ /\ stack # << >>
                    /\ ~IsPredicate(Top)
                    /\ Popped \/ \E c \in Frame : ~Open(c) /\ Replaced(c)
<1>1. CASE UNCHANGED fullVars \/ Next
  BY <1>1 DEF fullVars
<1>2. CASE do_proof_place
  BY <1>2 DEF do_proof_place
<1>3. CASE stack # << >> /\ SplittingRule /\ UNCHANGED <<input_pes, parentRef, cacheVars>>
  BY <1>3, SplitQuiet DEF cacheVars
<1> QED
  BY <1>1, <1>2, <1>3 DEF FullNext

LEMMA FullNextParent ==
    FullTypeOK /\ Waiting /\ ParentIsInnermost /\ [FullNext]_fullVars => ParentIsInnermost'
<1> SUFFICES ASSUME FullTypeOK, Waiting, ParentIsInnermost, [FullNext]_fullVars
             PROVE  ParentIsInnermost'
  OBVIOUS
<1>1. TypeOK /\ stack \in Seq(Frame) /\ stack' \in Seq(Frame)
  BY FullNextTypes DEF FullTypeOK, TypeOK
<1>2. CASE [Next]_vars
  BY <1>1, <1>2, NextParent
<1>3. Linked(input_pes, stack, parentRef)
  BY <1>1, LinkedIsInvariant
<1>4. Linked(input_pes', stack', parentRef') => ParentIsInnermost'
  BY <1>1, LenProperties
     DEF ParentIsInnermost, PointsTo, Linked, Pointing, BinOf, get_index
<1>5. CASE UNCHANGED <<input_pes, parentRef, stack>>
  BY <1>3, <1>4, <1>5
<1>6. CASE /\ UNCHANGED <<input_pes, parentRef>>
           /\ stack # << >>
           /\ ~IsPredicate(Top)
           /\ Popped \/ \E c \in Frame : ~Open(c) /\ Replaced(c)
  <2>1. Top = stack[Len(stack)] /\ ~Open(Top)
    BY <1>6 DEF Top, Open
  <2>2. CASE Popped
    BY <1>1, <1>3, <1>4, <1>6, <2>1, <2>2, PoppedStack, LinkedStep
  <2>3. CASE \E c \in Frame : ~Open(c) /\ Replaced(c)
    BY <1>1, <1>3, <1>4, <1>6, <2>1, <2>3, ReplacedStack, LinkedStep
  <2> QED
    BY <1>6, <2>2, <2>3
<1>7. \/ [Next]_vars
      \/ /\ UNCHANGED <<input_pes, parentRef>>
         /\ \/ UNCHANGED stack
            \/ /\ stack # << >>
               /\ ~IsPredicate(Top)
               /\ Popped \/ \E c \in Frame : ~Open(c) /\ Replaced(c)
  BY OuterStep
<1> QED
  BY <1>2, <1>5, <1>6, <1>7

\* A step of do_proof_place or of a splitting rule removes verdicts at most.
LEMMA OuterShrinks ==
    ASSUME FullTypeOK, FullNext, ~Next
    PROVE  \A b \in Bin : /\ Xlist_true'[b].dbms \subseteq Xlist_true[b].dbms
                          /\ Xlist_false'[b].dbms \subseteq Xlist_false[b].dbms
                          /\ Xlist_true'[b].parents \subseteq Xlist_true[b].parents
                          /\ Xlist_false'[b].parents \subseteq Xlist_false[b].parents
<1>1. CASE UNCHANGED tables
  BY <1>1 DEF tables
<1>2. ASSUME NEW table \in VerdictTable, NEW bins
      PROVE  \A b \in Bin :
                LET new == look_for_and_purge_rhs_sequent_state(table, bins)[b]
                IN  new.dbms \subseteq table[b].dbms /\ new.parents \subseteq table[b].parents
  BY DEF look_for_and_purge_rhs_sequent_state, NoSequent
<1>3. Xlist_true \in VerdictTable /\ Xlist_false \in VerdictTable
  BY DEF FullTypeOK, TypeOK, CacheTypeOK, VerdictTable
<1>4. CASE UpdatePlaceCaches
  <2>1. \/ UNCHANGED tables
        \/ \E bins : /\ Xlist_true' = look_for_and_purge_rhs_sequent_state(Xlist_true, bins)
                     /\ Xlist_false' = look_for_and_purge_rhs_sequent_state(Xlist_false, bins)
    <3>1. \A b, zone : \E bins :
             /\ purge_true_place(b, zone).true
                   = look_for_and_purge_rhs_sequent_state(Xlist_true, bins)
             /\ purge_true_place(b, zone).false
                   = look_for_and_purge_rhs_sequent_state(Xlist_false, bins)
      BY DEF purge_true_place, PurgePlaceParents
    <3>2. \A b, zone : \E bins :
             /\ purge_false_place(b, zone).true
                   = look_for_and_purge_rhs_sequent_state(Xlist_true, bins)
             /\ purge_false_place(b, zone).false
                   = look_for_and_purge_rhs_sequent_state(Xlist_false, bins)
      BY DEF purge_false_place, PurgePlaceParents
    <3> QED
      BY <1>4, <3>1, <3>2 DEF UpdatePlaceCaches
  <2> QED
    BY <1>1, <1>2, <1>3, <2>1
<1>5. UNCHANGED tables \/ UpdatePlaceCaches
  BY DEF FullNext, do_proof_place, do_proof_place_predicate, KnownFalsePlaceHit, KnownTruePlaceHit,
         GfpPlaceCircularity, LfpPlaceCircularity, UnfoldPlace, LeavePlacePredicate, cacheVars
<1> QED
  BY <1>1, <1>4, <1>5

LEMMA FullNextFirstCall ==
    FullTypeOK /\ Waiting /\ FirstCall /\ [FullNext]_fullVars => FirstCall'
<1> SUFFICES ASSUME FullTypeOK, Waiting, FirstCall, [FullNext]_fullVars
             PROVE  FirstCall'
  OBVIOUS
<1>1. TypeOK /\ stack \in Seq(Frame) /\ stack' \in Seq(Frame)
  BY FullNextTypes DEF FullTypeOK, TypeOK
<1>2. CASE [Next]_vars
  BY <1>1, <1>2, NextFirstCall
<1>3. CASE stack # << >> /\ ~IsPredicate(Top) /\ (UNCHANGED stack \/ Popped
               \/ \E c \in Frame : ~Open(c) /\ Replaced(c))
  <2>1. Len(stack) \in Nat \ {0} /\ Top = stack[Len(stack)] /\ ~Open(Top)
    BY <1>1, <1>3, StackNonempty DEF Top, Open
  <2>2. Open(stack[1]) /\ 1 \in 1..(Len(stack) - 1)
    BY <1>3, <2>1 DEF FirstCall
  <2>3. stack'[1] = stack[1]
    BY <1>1, <1>3, <2>2, PoppedStack, ReplacedStack
  <2> QED
    BY <2>2, <2>3 DEF FirstCall, Open, IsPredicate
<1>4. CASE UNCHANGED stack /\ stack = << >>
  BY <1>4 DEF FirstCall
<1>5. CASE do_proof_place
  <2>1. stack # << >> /\ UNCHANGED stack /\ ~IsPredicate(Top)
    BY <1>5 DEF do_proof_place, Waiting, SplittingOps, IsPredicate
  <2> QED
    BY <1>3, <2>1
<1>6. CASE UNCHANGED fullVars \/ Next
  BY <1>2, <1>6 DEF fullVars
<1>7. CASE stack # << >> /\ SplittingRule
  BY <1>3, <1>7, SplitQuiet
<1> QED
  BY <1>5, <1>6, <1>7 DEF FullNext

LEMMA FullNextConsistent ==
    FullTypeOK /\ Waiting /\ CachesConsistent /\ [FullNext]_fullVars => CachesConsistent'
<1> SUFFICES ASSUME FullTypeOK, CachesConsistent, [FullNext]_fullVars
             PROVE  CachesConsistent'
  OBVIOUS
<1>1. CASE [Next]_vars
  BY <1>1, NextConsistent DEF FullTypeOK
<1>2. CASE FullNext /\ ~Next
  BY <1>2, OuterShrinks DEF CachesConsistent
<1> QED
  BY <1>1, <1>2 DEF fullVars

LEMMA FullNextCycles ==
    FullTypeOK /\ Waiting /\ CyclesInv /\ [FullNext]_fullVars => CyclesInv'
<1> SUFFICES ASSUME FullTypeOK, Waiting, CyclesInv, [FullNext]_fullVars
             PROVE  CyclesInv'
  OBVIOUS
<1>1. TypeOK /\ stack \in Seq(Frame)
  BY DEF FullTypeOK, TypeOK
<1>2. CASE [Next]_vars
  BY <1>1, <1>2, NextCycles
<1>3. CASE UNCHANGED <<input_pes, stack, Xlist_pGFP, Xlist_pLFP>>
  BY <1>3 DEF CyclesInv, CyclesAreOpenCalls, CyclesMakeProgress,
              Cycle, OpenIn, Open, IsPredicate, IsGfp, BinOf, get_index
<1>4. CASE /\ UNCHANGED <<input_pes, parentRef, Xlist_pGFP, Xlist_pLFP>>
           /\ stack # << >>
           /\ ~IsPredicate(Top)
           /\ Popped \/ \E c \in Frame : ~Open(c) /\ Replaced(c)
  <2>1. ~Open(Top) /\ Len(stack) \in Nat \ {0}
    BY <1>1, <1>4, StackNonempty DEF Open
  <2>2. /\ 1..(Len(stack) - 1) \subseteq DOMAIN stack'
        /\ \A i \in DOMAIN stack' : Open(stack'[i]) => i \in 1..(Len(stack) - 1)
        /\ \A i \in 1..(Len(stack) - 1) : stack'[i] = stack[i]
    <3>1. CASE Popped
      BY <1>1, <1>4, <3>1, PoppedStack
    <3>2. CASE \E c \in Frame : ~Open(c) /\ Replaced(c)
      <4>1. PICK c \in Frame : ~Open(c) /\ Replaced(c)
        BY <3>2
      <4>2. /\ DOMAIN stack' = 1..Len(stack)
            /\ \A i \in 1..(Len(stack) - 1) : stack'[i] = stack[i]
            /\ stack'[Len(stack)] = c
        BY <1>1, <1>4, <4>1, ReplacedStack
      <4>3. /\ \A i \in 1..Len(stack) : i # Len(stack) => i \in 1..(Len(stack) - 1)
            /\ 1..(Len(stack) - 1) \subseteq 1..Len(stack)
        BY <2>1
      <4> QED
        BY <4>1, <4>2, <4>3
    <3> QED
      BY <1>4, <3>1, <3>2
  <2>3. \A b \in Bin, gfp \in BOOLEAN : Cycle(gfp, b)' = Cycle(gfp, b)
    BY <1>4 DEF Cycle
  <2> QED
    BY <1>1, <1>4, <2>1, <2>2, <2>3, QuietCycles
<1> QED
  BY <1>2, <1>3, <1>4, OuterStep

LEMMA FullNextParents ==
    FullTypeOK /\ Waiting /\ ParentIsInnermost /\ FirstCall /\ ParentsAreSequents
        /\ [FullNext]_fullVars => ParentsAreSequents'
<1> SUFFICES ASSUME FullTypeOK, Waiting, ParentIsInnermost, FirstCall, ParentsAreSequents,
                    [FullNext]_fullVars
             PROVE  ParentsAreSequents'
  OBVIOUS
<1>1. CASE [Next]_vars
  BY <1>1, NextParents DEF FullTypeOK
<1>2. CASE FullNext /\ ~Next
  <2>1. UNCHANGED <<Xlist_pGFP, Xlist_pLFP>>
    BY <1>2 DEF FullNext, do_proof_place, cacheVars
  <2> QED
    BY <1>2, <2>1, OuterShrinks DEF ParentsAreSequents
<1> QED
  BY <1>1, <1>2 DEF fullVars

\* What the proof search without placeholders keeps on its own, and the rule
\* that waits.
OuterInv ==
    /\ FullTypeOK
    /\ Waiting
    /\ ParentIsInnermost
    /\ FirstCall
    /\ ParentsAreSequents
    /\ CyclesInv
    /\ CachesConsistent

LEMMA OuterInit == FullInit => OuterInv
<1> SUFFICES ASSUME FullInit PROVE OuterInv
  OBVIOUS
<1>1. FullTypeOK /\ Init /\ pstack = << >> /\ place_ret = << >>
  BY FullInitTypes DEF FullInit, PlaceInit
<1>2. Waiting
  BY <1>1 DEF Waiting
<1>3. ParentIsInnermost /\ CyclesInv
  BY <1>1, InitParent, InitCycles
<1>4. Len(stack) = 1 /\ IsPredicate(stack[1])
  BY <1>1, SystemsAssumption DEF Init, Call, IsPredicate
<1>5. FirstCall /\ ParentsAreSequents /\ CachesConsistent
  BY <1>1, <1>4 DEF Init, CacheInit, FirstCall, ParentsAreSequents, CachesConsistent,
                    NoCycle, NoSequent
<1> QED
  BY <1>1, <1>2, <1>3, <1>5 DEF OuterInv

LEMMA OuterNext == OuterInv /\ [FullNext]_fullVars => OuterInv'
  BY FullNextTypes, FullNextWaiting, FullNextParent, FullNextFirstCall, FullNextParents,
     FullNextCycles, FullNextConsistent DEF OuterInv

\* The tables and parents of do_proof stay right in the whole search: the
\* circularity tables are its open calls in order and growing, parentRef and its
\* saved copies name the innermost one, no null parent is recorded and no zone is
\* both known true and known false, although the splitting rules suspend it and
\* the purges of do_proof_place erase its verdicts in between (proof.hh).
THEOREM CallsStayCorrect ==
    FullSpec => [](/\ CyclesAreOpenCalls
                   /\ CyclesMakeProgress
                   /\ ParentIsInnermost
                   /\ ParentsAreSequents
                   /\ CachesConsistent)
<1>1. OuterInv => /\ CyclesAreOpenCalls
                  /\ CyclesMakeProgress
                  /\ ParentIsInnermost
                  /\ ParentsAreSequents
                  /\ CachesConsistent
  BY DEF OuterInv, CyclesInv
<1> QED
  BY <1>1, OuterInit, OuterNext, PTL DEF FullSpec

-----------------------------------------------------------------------------
(***************************************************************************)
(* The moves of the calls with placeholders.                               *)
(***************************************************************************)

\* The stack afterwards when the innermost call returns, waits or hands on.
LEMMA PlaceStacks ==
    ASSUME PlaceTypeOK, pstack # << >>
    PROVE  LET n == Len(pstack)
               Keeps(s) == \A i \in 1..(n - 1) : s[i] = pstack[i]
           IN  /\ n \in Nat \ {0} /\ DOMAIN pstack = 1..n /\ PTop = pstack[n]
               /\ \A z : PReturn(z) => /\ DOMAIN pstack' = 1..(n - 1)
                                       /\ Len(pstack') = n - 1
                                       /\ Keeps(pstack')
               /\ \A fr, c : PDescend(fr, c) => /\ DOMAIN pstack' = 1..(n + 1)
                                                /\ Len(pstack') = n + 1
                                                /\ Keeps(pstack')
                                                /\ pstack'[n] = fr
                                                /\ pstack'[n + 1] = c
               /\ \A c : PTailCall(c) => /\ DOMAIN pstack' = 1..n
                                         /\ Len(pstack') = n
                                         /\ Keeps(pstack')
                                         /\ pstack'[n] = c
<1> DEFINE n == Len(pstack)
<1>1. n \in Nat \ {0} /\ DOMAIN pstack = 1..n /\ PTop = pstack[n]
  BY EmptySeq, LenProperties DEF PlaceTypeOK, PTop
<1>2. /\ PBelow \in Seq(PlaceFrame)
      /\ Len(PBelow) = n - 1
      /\ \A i \in 1..(n - 1) : PBelow[i] = pstack[i]
  BY PopSeq DEF PlaceTypeOK, PBelow
<1> HIDE DEF n
<1>3. DOMAIN PBelow = 1..(n - 1)
  BY <1>2, LenProperties
<1>4. ASSUME NEW c
      PROVE  LET s == Append(PBelow, c)
             IN  /\ DOMAIN s = 1..n /\ Len(s) = n
                 /\ \A i \in 1..(n - 1) : s[i] = pstack[i]
                 /\ s[n] = c
  <2>1. PBelow \in Seq(PlaceFrame \cup {c}) /\ c \in PlaceFrame \cup {c}
    BY <1>2
  <2>2. /\ Append(PBelow, c) \in Seq(PlaceFrame \cup {c})
        /\ Len(Append(PBelow, c)) = n
        /\ \A i \in 1..(n - 1) : Append(PBelow, c)[i] = PBelow[i]
        /\ Append(PBelow, c)[n] = c
    BY <1>1, <1>2, <2>1, PushSeq
  <2> QED
    BY <1>2, <2>2, LenProperties
<1> DEFINE Two(fr, c) == PBelow \o <<fr, c>>
<1>5. ASSUME NEW fr, NEW c, NEW s, s = Two(fr, c)
      PROVE  /\ DOMAIN s = 1..(n + 1)
             /\ Len(s) = n + 1
             /\ \A i \in 1..(n - 1) : s[i] = pstack[i]
             /\ s[n] = fr
             /\ s[n + 1] = c
  <2> DEFINE S == PlaceFrame \cup {fr, c}
  <2>1. PBelow \in Seq(S) /\ <<fr, c>> \in Seq(S) /\ Len(<<fr, c>>) = 2
    BY <1>2
  <2>2. /\ s \in Seq(S)
        /\ Len(s) = (n - 1) + 2
        /\ \A i \in 1..(n - 1 + 2) : s[i] = IF i <= n - 1 THEN PBelow[i] ELSE <<fr, c>>[i - (n - 1)]
    BY <1>1, <1>2, <1>5, <2>1, ConcatProperties
  <2>3. DOMAIN s = 1..(n + 1) /\ Len(s) = n + 1
    BY <1>1, <2>2, LenProperties
  <2>4. \A i \in 1..(n - 1) : s[i] = pstack[i]
    BY <1>1, <1>2, <2>2
  <2>5. s[n] = fr /\ s[n + 1] = c
    <3>1. /\ n \in 1..(n - 1 + 2) /\ ~(n <= n - 1) /\ n - (n - 1) = 1
          /\ n + 1 \in 1..(n - 1 + 2) /\ ~(n + 1 <= n - 1) /\ n + 1 - (n - 1) = 2
      BY <1>1
    <3> QED
      BY <2>2, <3>1
  <2> QED
    BY <2>3, <2>4, <2>5
<1> HIDE DEF Two
<1>6. ASSUME NEW z, PReturn(z)
      PROVE  /\ DOMAIN pstack' = 1..(n - 1)
             /\ Len(pstack') = n - 1
             /\ \A i \in 1..(n - 1) : pstack'[i] = pstack[i]
  BY <1>2, <1>3, <1>6 DEF PReturn
<1>7. ASSUME NEW fr, NEW c, PDescend(fr, c)
      PROVE  /\ DOMAIN pstack' = 1..(n + 1)
             /\ Len(pstack') = n + 1
             /\ \A i \in 1..(n - 1) : pstack'[i] = pstack[i]
             /\ pstack'[n] = fr
             /\ pstack'[n + 1] = c
  <2>1. pstack' = Two(fr, c)
    BY <1>7 DEF PDescend, Two
  <2> QED
    BY <1>5, <2>1
<1>8. ASSUME NEW c, PTailCall(c)
      PROVE  /\ DOMAIN pstack' = 1..n
             /\ Len(pstack') = n
             /\ \A i \in 1..(n - 1) : pstack'[i] = pstack[i]
             /\ pstack'[n] = c
  BY <1>4, <1>8 DEF PTailCall
<1> QED
  BY <1>1, <1>6, <1>7, <1>8 DEF n

\* Outside predicates no call opens and none closes.
LEMMA QuietPlaces ==
    ASSUME PlaceTypeOK, pstack # << >>,
           PlaceConnective \/ do_proof_place_exists_rel \/ do_proof_place_forall_rel
    PROVE  /\ PTop.formula.op # "PREDICATE"
           /\ \/ \E z : PReturn(z)
              \/ \E fr, c : ~POpen(fr) /\ ~POpen(c) /\ PDescend(fr, c)
              \/ \E c : ~POpen(c) /\ PTailCall(c)
<1> DEFINE Goal == \/ \E z : PReturn(z)
                   \/ \E fr, c : ~POpen(fr) /\ ~POpen(c) /\ PDescend(fr, c)
                   \/ \E c : ~POpen(c) /\ PTailCall(c)
<1>1. PTop.formula.op # "PREDICATE"
  BY DEF PlaceConnective, do_proof_place_and, do_proof_place_or, do_proof_place_or_simple,
         do_proof_place_imply, do_proof_place_constraint, do_proof_place_atomic,
         do_proof_place_ablewaitinf, do_proof_place_sublist, do_proof_place_reset,
         do_proof_place_forall, do_proof_place_exists, do_proof_place_allact,
         do_proof_place_existact, do_proof_place_exists_rel, do_proof_place_forall_rel,
         PEntering, PResuming, PResumingAt
<1>2. PTop \in PlaceFrame
  BY PlaceStacks, ElementOfSeq DEF PlaceTypeOK
<1>3. ASSUME NEW k, NEW place
      PROVE  /\ ~POpen(Phase(k)) /\ ~POpen(PhaseKeeping(k, place))
             /\ ~POpen([Phase(k) EXCEPT !.place = place])
  BY <1>1, <1>2 DEF POpen, Phase, PhaseKeeping, PlaceFrame
<1>4. ASSUME NEW f, NEW place, NEW x
      PROVE  /\ ~POpen(Child(f, place)) /\ ~POpen(Delayed(f, place))
             /\ ~POpen([Child(f, place) EXCEPT !.zone = x])
             /\ ~POpen([Child(f, place) EXCEPT !.loc = x])
             /\ ~POpen(AlongTransition(PTop, x, place))
  BY DEF POpen, Child, Delayed, PlaceCall, AlongTransition
<1>5. ASSUME NEW z, PReturn(z) PROVE Goal
  BY <1>5
<1>6. ASSUME NEW fr, NEW c, ~POpen(fr), ~POpen(c), PDescend(fr, c) PROVE Goal
  BY <1>6
<1>7. ASSUME NEW c, ~POpen(c), PTailCall(c) PROVE Goal
  BY <1>7
<1> SUFFICES Goal
  BY <1>1
<1> HIDE DEF Goal
<1>8. CASE do_proof_place_and \/ do_proof_place_or \/ do_proof_place_or_simple
  BY <1>3, <1>4, <1>5, <1>6, <1>7, <1>8
     DEF do_proof_place_and, do_proof_place_or, do_proof_place_or_simple
<1>9. CASE \/ do_proof_place_imply \/ do_proof_place_constraint \/ do_proof_place_atomic
           \/ do_proof_place_ablewaitinf \/ do_proof_place_sublist \/ do_proof_place_reset
  BY <1>3, <1>4, <1>5, <1>6, <1>7, <1>9
     DEF do_proof_place_imply, do_proof_place_constraint, do_proof_place_atomic,
         do_proof_place_ablewaitinf, do_proof_place_sublist, do_proof_place_reset
<1>10. CASE do_proof_place_forall \/ do_proof_place_exists
  BY <1>3, <1>4, <1>5, <1>6, <1>10 DEF do_proof_place_forall, do_proof_place_exists
<1>11. CASE do_proof_place_allact \/ do_proof_place_existact
  BY <1>3, <1>4, <1>5, <1>6, <1>11 DEF do_proof_place_allact, do_proof_place_existact
<1>12. CASE do_proof_place_exists_rel \/ do_proof_place_forall_rel
  BY <1>3, <1>4, <1>5, <1>6, <1>7, <1>12 DEF do_proof_place_exists_rel, do_proof_place_forall_rel
<1> QED
  BY <1>8, <1>9, <1>10, <1>11, <1>12 DEF PlaceConnective

-----------------------------------------------------------------------------
(***************************************************************************)
(* The pairs under proof are those of the open calls.                      *)
(***************************************************************************)

\* The pairs of the calls, in the form Matches compares.
Held(st) == [i \in DOMAIN st |-> [zone |-> Pair(st[i].zone, st[i].place)]]

Holding(seq, open, st) ==
    /\ Matches(seq, open, Held(st))
    /\ Distinct(seq)
    /\ IsFiniteSet(open)
    /\ Len(seq) = Cardinality(open)

PlaceCyclesInv ==
    \A b \in Bin, gfp \in BOOLEAN :
        Holding(PlaceCycle(gfp, b), POpenIn(gfp, b), pstack)

LEMMA HoldingCalls == PlaceCyclesInv => PlaceCyclesAreOpenCalls
<1> SUFFICES ASSUME PlaceCyclesInv, NEW b \in Bin, NEW gfp \in BOOLEAN
             PROVE  /\ Pushed(PlaceCycle(gfp, b)) =
                          {Pair(pstack[i].zone, pstack[i].place) : i \in POpenIn(gfp, b)}
                    /\ Len(PlaceCycle(gfp, b)) = Cardinality(POpenIn(gfp, b))
  BY DEF PlaceCyclesAreOpenCalls
<1>1. Holding(PlaceCycle(gfp, b), POpenIn(gfp, b), pstack)
  BY DEF PlaceCyclesInv
<1>2. \A i \in POpenIn(gfp, b) :
          Held(pstack)[i].zone = Pair(pstack[i].zone, pstack[i].place)
  BY DEF Held, POpenIn
<1>3. {Held(pstack)[i].zone : i \in POpenIn(gfp, b)}
        = {Pair(pstack[i].zone, pstack[i].place) : i \in POpenIn(gfp, b)}
  BY <1>2
<1> QED
  BY <1>1, <1>3 DEF Holding, Matches

LEMMA HoldingSame ==
    ASSUME NEW seq, NEW open, NEW s, NEW t,
           open \subseteq DOMAIN s, open \subseteq DOMAIN t,
           \A i \in open : s[i] = t[i],
           Holding(seq, open, s)
    PROVE  Holding(seq, open, t)
<1>1. \A i \in open : Held(s)[i] = Held(t)[i]
  BY DEF Held
<1> QED
  BY <1>1, MatchesSame DEF Holding

LEMMA HoldingPush ==
    ASSUME NEW seq \in Seq(SequentPlace), NEW open, NEW s, NEW t, NEW k \in Nat,
           NEW z \in SequentPlace,
           open \subseteq 1..(k - 1),
           open \subseteq DOMAIN s, open \subseteq DOMAIN t, k \in DOMAIN t,
           \A i \in open : s[i] = t[i],
           Holding(seq, open, s),
           Pair(t[k].zone, t[k].place) = z,
           z \notin Pushed(seq)
    PROVE  Holding(Append(seq, z), open \cup {k}, t)
<1>1. \A i \in open : Held(s)[i] = Held(t)[i]
  BY DEF Held
<1>2. Held(t)[k].zone = z
  BY DEF Held
<1>3. Matches(Append(seq, z), open \cup {k}, Held(t))
  BY <1>1, <1>2, MatchesPush DEF Holding, push_sequent
<1>4. /\ Append(seq, z) \in Seq(SequentPlace)
      /\ Len(Append(seq, z)) = Len(seq) + 1
      /\ \A i \in 1..Len(seq) : Append(seq, z)[i] = seq[i]
      /\ Append(seq, z)[Len(seq) + 1] = z
      /\ DOMAIN Append(seq, z) = 1..(Len(seq) + 1)
      /\ DOMAIN seq = 1..Len(seq)
      /\ Len(seq) \in Nat
  BY PushSeq, LenProperties
<1>5. \A i \in 1..Len(seq) : seq[i] # z
  BY <1>4 DEF Pushed
<1>6. Distinct(Append(seq, z))
  <2> SUFFICES ASSUME NEW m \in 1..(Len(seq) + 1), NEW n \in 1..(Len(seq) + 1),
                      Append(seq, z)[m] = Append(seq, z)[n]
               PROVE  m = n
    BY <1>4 DEF Distinct
  <2>1. \A i \in 1..(Len(seq) + 1) : i \in 1..Len(seq) \/ i = Len(seq) + 1
    BY <1>4
  <2>2. \A i, j \in 1..Len(seq) : seq[i] = seq[j] => i = j
    BY <1>4 DEF Holding, Distinct
  <2> QED
    BY <1>4, <1>5, <2>1, <2>2
<1>7. k \notin open
  BY DEF Holding
<1>8. IsFiniteSet(open \cup {k}) /\ Cardinality(open \cup {k}) = Cardinality(open) + 1
  BY <1>7, FS_AddElement DEF Holding
<1> QED
  BY <1>3, <1>4, <1>6, <1>8 DEF Holding

LEMMA HoldingPop ==
    ASSUME NEW seq \in Seq(SequentPlace), NEW open, NEW s, NEW t, NEW k \in Nat,
           open \subseteq 1..k, k \in open,
           open \subseteq DOMAIN s, open \ {k} \subseteq DOMAIN t,
           \A i \in open \ {k} : s[i] = t[i],
           Holding(seq, open, s)
    PROVE  Holding(pop_sequent(seq), open \ {k}, t)
<1>1. \A i \in open \ {k} : Held(s)[i] = Held(t)[i]
  BY DEF Held
<1>2. Matches(pop_sequent(seq), open \ {k}, Held(t))
  BY <1>1, MatchesPop DEF Holding
<1>3. seq # << >>
  <2>1. Held(s)[k].zone \in Pushed(seq)
    BY DEF Holding, Matches
  <2> QED
    BY <2>1 DEF Pushed
<1>4. /\ Len(pop_sequent(seq)) = Len(seq) - 1
      /\ \A i \in 1..(Len(seq) - 1) : pop_sequent(seq)[i] = seq[i]
      /\ DOMAIN pop_sequent(seq) = 1..(Len(seq) - 1)
      /\ DOMAIN seq = 1..Len(seq)
      /\ Len(seq) \in Nat
  BY <1>3, PopSeq, LenProperties DEF pop_sequent
<1>5. Distinct(pop_sequent(seq))
  BY <1>4 DEF Holding, Distinct
<1>6. IsFiniteSet(open \ {k}) /\ Cardinality(open \ {k}) = Cardinality(open) - 1
  BY FS_RemoveElement DEF Holding
<1> QED
  BY <1>2, <1>4, <1>5, <1>6 DEF Holding

\* A call that stays where it is stays open, or not.
LEMMA StaysOpen ==
    ASSUME NEW i, i \in DOMAIN pstack, i \in DOMAIN pstack', pstack'[i] = pstack[i],
           input_pes' = input_pes, NEW gfp, NEW b
    PROVE  i \in POpenIn(gfp, b)' <=> i \in POpenIn(gfp, b)
<1>1. /\ POpen(pstack[i])' <=> POpen(pstack[i])
      /\ IsGfp(pstack[i])' = IsGfp(pstack[i])
      /\ BinOf(pstack[i])' = BinOf(pstack[i])
  BY DEF POpen, IsGfp, BinOf, get_index
<1> QED
  BY <1>1 DEF POpenIn

LEMMA POpenBounds ==
    ASSUME PlaceTypeOK, pstack # << >>
    PROVE  /\ \A i : i \in 1..Len(pstack) <=> i \in 1..(Len(pstack) - 1) \/ i = Len(pstack)
           /\ \A i : i \in 1..(Len(pstack) + 1) <=> \/ i \in 1..(Len(pstack) - 1)
                                                  \/ i = Len(pstack)
                                                  \/ i = Len(pstack) + 1
           /\ Len(pstack) \notin 1..(Len(pstack) - 1)
           /\ Len(pstack) + 1 \notin 1..(Len(pstack) - 1)
           /\ Len(pstack) + 1 # Len(pstack)
<1> DEFINE n == Len(pstack)
<1>1. n \in Nat \ {0}
  BY PlaceStacks
<1> HIDE DEF n
<1>2. /\ \A i : i \in 1..n <=> i \in 1..(n - 1) \/ i = n
      /\ \A i : i \in 1..(n + 1) <=> i \in 1..(n - 1) \/ i = n \/ i = n + 1
      /\ n \notin 1..(n - 1) /\ n + 1 \notin 1..(n - 1) /\ n + 1 # n
  BY <1>1
<1> QED
  BY <1>2 DEF n

\* A step in which no call opens or closes.
QuietSearch ==
    \/ \E z : PReturn(z)
    \/ \E fr, c : ~POpen(fr) /\ ~POpen(c) /\ PDescend(fr, c)
    \/ \E c : ~POpen(c) /\ PTailCall(c)

LEMMA QuietOpen ==
    ASSUME PlaceTypeOK, pstack # << >>, input_pes' = input_pes,
           ~POpen(PTop), QuietSearch, NEW gfp, NEW b
    PROVE  /\ POpenIn(gfp, b)' = POpenIn(gfp, b)
           /\ POpenIn(gfp, b) \subseteq 1..(Len(pstack) - 1)
           /\ 1..(Len(pstack) - 1) \subseteq DOMAIN pstack \cap DOMAIN pstack'
           /\ \A i \in 1..(Len(pstack) - 1) : pstack'[i] = pstack[i]
           /\ \A i \in DOMAIN pstack' : POpen(pstack'[i]) => i \in 1..(Len(pstack) - 1)
<1> DEFINE n == Len(pstack)
<1>1. /\ n \in Nat \ {0} /\ DOMAIN pstack = 1..n /\ PTop = pstack[n]
      /\ \A z : PReturn(z) => /\ DOMAIN pstack' = 1..(n - 1)
                              /\ \A i \in 1..(n - 1) : pstack'[i] = pstack[i]
      /\ \A fr, c : PDescend(fr, c) => /\ DOMAIN pstack' = 1..(n + 1)
                                       /\ \A i \in 1..(n - 1) : pstack'[i] = pstack[i]
                                       /\ pstack'[n] = fr
                                       /\ pstack'[n + 1] = c
      /\ \A c : PTailCall(c) => /\ DOMAIN pstack' = 1..n
                                /\ \A i \in 1..(n - 1) : pstack'[i] = pstack[i]
                                /\ pstack'[n] = c
  BY PlaceStacks
<1>2. /\ \A i : i \in 1..n <=> i \in 1..(n - 1) \/ i = n
      /\ \A i : i \in 1..(n + 1) <=> i \in 1..(n - 1) \/ i = n \/ i = n + 1
  BY POpenBounds
<1> HIDE DEF n
<1>3. /\ 1..(n - 1) \subseteq DOMAIN pstack \cap DOMAIN pstack'
      /\ \A i \in 1..(n - 1) : pstack'[i] = pstack[i]
      /\ \A i \in DOMAIN pstack' : POpen(pstack'[i]) => i \in 1..(n - 1)
  <2>1. CASE \E z : PReturn(z)
    BY <1>1, <1>2, <2>1
  <2>2. CASE \E fr, c : ~POpen(fr) /\ ~POpen(c) /\ PDescend(fr, c)
    <3>1. PICK fr, c : ~POpen(fr) /\ ~POpen(c) /\ PDescend(fr, c)
      BY <2>2
    <3>2. /\ DOMAIN pstack' = 1..(n + 1)
          /\ \A i \in 1..(n - 1) : pstack'[i] = pstack[i]
          /\ pstack'[n] = fr
          /\ pstack'[n + 1] = c
      BY <1>1, <3>1
    <3> QED
      BY <1>1, <1>2, <3>1, <3>2
  <2>3. CASE \E c : ~POpen(c) /\ PTailCall(c)
    <3>1. PICK c : ~POpen(c) /\ PTailCall(c)
      BY <2>3
    <3> QED
      BY <1>1, <1>2, <3>1
  <2> QED
    BY <2>1, <2>2, <2>3 DEF QuietSearch
<1>4. \A i \in DOMAIN pstack : POpen(pstack[i]) => i \in 1..(n - 1)
  BY <1>1, <1>2
<1>5. \A i \in 1..(n - 1) : i \in POpenIn(gfp, b)' <=> i \in POpenIn(gfp, b)
  BY <1>3, StaysOpen
<1>6. POpenIn(gfp, b) \subseteq 1..(n - 1) /\ POpenIn(gfp, b)' \subseteq 1..(n - 1)
  BY <1>3, <1>4 DEF POpenIn
<1> QED
  BY <1>3, <1>5, <1>6 DEF n

LEMMA QuietPlaceCycles ==
    ASSUME PlaceTypeOK, PlaceCyclesInv, pstack # << >>, input_pes' = input_pes,
           ~POpen(PTop), QuietSearch,
           \A b \in Bin, gfp \in BOOLEAN : PlaceCycle(gfp, b)' = PlaceCycle(gfp, b)
    PROVE  PlaceCyclesInv'
<1>1. ASSUME NEW b \in Bin, NEW gfp \in BOOLEAN
      PROVE  Holding(PlaceCycle(gfp, b)', POpenIn(gfp, b)', pstack')
  <2>1. Holding(PlaceCycle(gfp, b), POpenIn(gfp, b), pstack)
    BY DEF PlaceCyclesInv
  <2>2. /\ POpenIn(gfp, b)' = POpenIn(gfp, b)
        /\ POpenIn(gfp, b) \subseteq DOMAIN pstack
        /\ POpenIn(gfp, b) \subseteq DOMAIN pstack'
        /\ \A i \in POpenIn(gfp, b) : pstack[i] = pstack'[i]
    BY QuietOpen
  <2> QED
    BY <2>1, <2>2, HoldingSame
<1> QED
  BY <1>1 DEF PlaceCyclesInv, Holding, Matches, Distinct, Held

LEMMA UnfoldPlaceCycles ==
    ASSUME TypeOK, PlaceTypeOK, PlaceCyclesInv, pstack # << >>, input_pes' = input_pes,
           UnfoldPlace
    PROVE  PlaceCyclesInv'
<1> DEFINE n == Len(pstack)
           fr == [Phase(1) EXCEPT !.saved = parentPlaceRef]
           c == Child(input_pes.rhs[PTop.formula.pred], PTop.place)
           z == Pair(PTop.zone, PTop.place)
           mine(gfp, b) == gfp = IsGfp(PTop) /\ b = pbin
<1>1. PTop.formula.op = "PREDICATE" /\ PTop.next = 0 /\ PDescend(fr, c)
  BY DEF UnfoldPlace, PEntering
<1>2. PTop \in PlaceFrame /\ pbin \in Bin /\ z \in SequentPlace
  BY <1>1, TopIsFrame, PlacePredicateTop
<1>3. /\ POpen(fr) /\ ~POpen(c) /\ ~POpen(PTop)
      /\ fr.formula = PTop.formula /\ fr.loc = PTop.loc
      /\ fr.zone = PTop.zone /\ fr.place = PTop.place
  BY <1>1, <1>2 DEF Phase, PlaceFrame, POpen, Child, PlaceCall
<1> HIDE DEF fr, c
<1>4. /\ n \in Nat \ {0} /\ DOMAIN pstack = 1..n /\ PTop = pstack[n]
      /\ DOMAIN pstack' = 1..(n + 1)
      /\ \A i \in 1..(n - 1) : pstack'[i] = pstack[i]
      /\ pstack'[n] = fr
      /\ pstack'[n + 1] = c
  BY <1>1, PlaceStacks
<1>5. /\ \A i : i \in 1..n <=> i \in 1..(n - 1) \/ i = n
      /\ \A i : i \in 1..(n + 1) <=> i \in 1..(n - 1) \/ i = n \/ i = n + 1
      /\ n \notin 1..(n - 1) /\ n + 1 \notin 1..(n - 1) /\ n + 1 # n
  BY POpenBounds
<1> HIDE DEF n
<1>6. ASSUME NEW b \in Bin, NEW gfp \in BOOLEAN
      PROVE  /\ POpenIn(gfp, b) \subseteq 1..(n - 1)
             /\ POpenIn(gfp, b)' = POpenIn(gfp, b) \cup (IF mine(gfp, b) THEN {n} ELSE {})
  <2>1. POpenIn(gfp, b) \subseteq 1..(n - 1)
    BY <1>3, <1>4, <1>5 DEF POpenIn
  <2>2. \A i \in 1..(n - 1) : i \in POpenIn(gfp, b)' <=> i \in POpenIn(gfp, b)
    BY <1>4, <1>5, StaysOpen
  <2>3. n + 1 \notin POpenIn(gfp, b)'
    BY <1>3, <1>4 DEF POpenIn, POpen
  <2>4. \A i \in {n} : /\ IsGfp(pstack[i])' = IsGfp(PTop)
                       /\ BinOf(pstack[i])' = pbin
                       /\ POpen(pstack[i])'
    BY <1>3, <1>4 DEF IsGfp, BinOf, get_index, pbin, POpen
  <2>5. \A i \in {n} : i \in DOMAIN pstack'
    BY <1>4, <1>5
  <2>6. \A i \in {n} : i \in POpenIn(gfp, b)' <=> mine(gfp, b)
    BY <2>4, <2>5 DEF POpenIn
  <2>7. \A i \in POpenIn(gfp, b)' : i \in 1..(n + 1)
    BY <1>4 DEF POpenIn
  <2> QED
    BY <1>5, <2>1, <2>2, <2>3, <2>6, <2>7
<1>7. Xlist_pGFP_ph \in PlaceCycleTable /\ Xlist_pLFP_ph \in PlaceCycleTable
  BY DEF PlaceTypeOK, PlaceCacheTypeOK, PlaceCycleTable
<1>8. IsGfp(PTop) \in BOOLEAN
  <2>1. PTop.formula.pred \in Predicate
    BY <1>1, OperandTypes
  <2> QED
    BY <2>1, SystemsAssumption DEF TypeOK, IsGfp
<1>9. ASSUME NEW table \in PlaceCycleTable, NEW b \in Bin
      PROVE  /\ table[b].dbms \in Seq(SequentPlace)
             /\ [table EXCEPT ![pbin] = PushPlace(@)][b].dbms
                   = IF b = pbin THEN Append(table[b].dbms, z) ELSE table[b].dbms
  <2>1. table[b] \in PlaceEntry(Seq(SequentPlace))
    BY DEF PlaceCycleTable
  <2>2. PushPlace(table[b]).dbms = Append(table[b].dbms, z)
    BY <2>1 DEF PushPlace, PlaceEntry
  <2> QED
    BY <1>2, <2>1, <2>2 DEF PlaceCycleTable, PlaceEntry
<1>10. ASSUME NEW b \in Bin, NEW gfp \in BOOLEAN
       PROVE  /\ PlaceCycle(gfp, b) \in Seq(SequentPlace)
              /\ PlaceCycle(gfp, b)' = IF mine(gfp, b) THEN Append(PlaceCycle(gfp, b), z)
                                       ELSE PlaceCycle(gfp, b)
              /\ mine(gfp, b) => z \notin Pushed(PlaceCycle(gfp, b))
  <2>1. /\ \A pairs : tabled_place_gfp(pairs, PTop.zone, PTop.place) \/ z \notin pairs
        /\ \A pairs : tabled_place_lfp(pairs, PTop.zone, PTop.place) \/ z \notin pairs
    BY DEF tabled_place_gfp, tabled_place_lfp, Pair
  <2> HIDE DEF z
  <2>2. CASE IsGfp(PTop)
    BY <1>2, <1>7, <1>9, <2>1, <2>2 DEF UnfoldPlace, PlaceCycle, GfpPlaceCycle
  <2>3. CASE ~IsGfp(PTop)
    BY <1>2, <1>7, <1>8, <1>9, <2>1, <2>3 DEF UnfoldPlace, PlaceCycle, LfpPlaceCycle
  <2> QED
    BY <2>2, <2>3
<1>11. Pair(pstack'[n].zone, pstack'[n].place) = z
  BY <1>3, <1>4
<1> HIDE DEF z, mine
<1>12. ASSUME NEW b \in Bin, NEW gfp \in BOOLEAN
       PROVE  Holding(PlaceCycle(gfp, b)', POpenIn(gfp, b)', pstack')
  <2>1. Holding(PlaceCycle(gfp, b), POpenIn(gfp, b), pstack)
    BY DEF PlaceCyclesInv
  <2>2. /\ POpenIn(gfp, b) \subseteq 1..(n - 1)
        /\ POpenIn(gfp, b) \subseteq DOMAIN pstack
        /\ POpenIn(gfp, b) \subseteq DOMAIN pstack'
        /\ \A i \in POpenIn(gfp, b) : pstack[i] = pstack'[i]
    BY <1>4, <1>5, <1>6
  <2>3. CASE mine(gfp, b)
    <3>1. Holding(Append(PlaceCycle(gfp, b), z), POpenIn(gfp, b) \cup {n}, pstack')
      BY <1>2, <1>4, <1>5, <1>10, <1>11, <2>1, <2>2, <2>3, HoldingPush
    <3> QED
      BY <1>6, <1>10, <2>3, <3>1
  <2>4. CASE ~mine(gfp, b)
    <3>1. Holding(PlaceCycle(gfp, b), POpenIn(gfp, b), pstack')
      BY <2>1, <2>2, HoldingSame
    <3> QED
      BY <1>6, <1>10, <2>4, <3>1
  <2> QED
    BY <2>3, <2>4
<1> QED
  BY <1>12 DEF PlaceCyclesInv, Holding, Matches, Distinct, Held

LEMMA LeavePlaceCycles ==
    ASSUME TypeOK, PlaceTypeOK, PlaceCyclesInv, pstack # << >>, input_pes' = input_pes,
           LeavePlacePredicate
    PROVE  PlaceCyclesInv'
<1> DEFINE n == Len(pstack)
           mine(gfp, b) == gfp = IsGfp(PTop) /\ b = pbin
<1>1. PTop.formula.op = "PREDICATE" /\ POpen(PTop) /\ PReturn(Answer) /\ PopPlaceCircularity
  BY DEF LeavePlacePredicate, PResuming, POpen
<1>2. pbin \in Bin
  BY <1>1, PlacePredicateTop
<1>3. /\ n \in Nat \ {0} /\ DOMAIN pstack = 1..n /\ PTop = pstack[n]
      /\ DOMAIN pstack' = 1..(n - 1)
      /\ \A i \in 1..(n - 1) : pstack'[i] = pstack[i]
  BY <1>1, PlaceStacks
<1>4. /\ \A i : i \in 1..n <=> i \in 1..(n - 1) \/ i = n
      /\ n \notin 1..(n - 1)
  BY POpenBounds
<1> HIDE DEF n
<1>5. ASSUME NEW b \in Bin, NEW gfp \in BOOLEAN
      PROVE  /\ POpenIn(gfp, b) \subseteq 1..n
             /\ POpenIn(gfp, b)' = POpenIn(gfp, b) \ {n}
             /\ n \in POpenIn(gfp, b) <=> mine(gfp, b)
  <2>1. POpenIn(gfp, b) \subseteq 1..n /\ POpenIn(gfp, b)' \subseteq 1..(n - 1)
    BY <1>3 DEF POpenIn
  <2>2. \A i \in 1..(n - 1) : i \in POpenIn(gfp, b)' <=> i \in POpenIn(gfp, b)
    BY <1>3, <1>4, StaysOpen
  <2>3. n \in POpenIn(gfp, b) <=> mine(gfp, b)
    BY <1>1, <1>3, <1>4 DEF POpenIn, pbin
  <2> QED
    BY <1>4, <2>1, <2>2, <2>3
<1>6. Xlist_pGFP_ph \in PlaceCycleTable /\ Xlist_pLFP_ph \in PlaceCycleTable
  BY DEF PlaceTypeOK, PlaceCacheTypeOK, PlaceCycleTable
<1>7. IsGfp(PTop) \in BOOLEAN
  <2>1. PTop.formula.pred \in Predicate
    BY <1>1, OperandTypes
  <2> QED
    BY <2>1, SystemsAssumption DEF TypeOK, IsGfp
<1>8. ASSUME NEW table \in PlaceCycleTable, NEW b \in Bin
      PROVE  /\ table[b].dbms \in Seq(SequentPlace)
             /\ [table EXCEPT ![pbin] = PopPlace(@)][b].dbms
                   = IF b = pbin THEN pop_sequent(table[b].dbms) ELSE table[b].dbms
  <2>1. table[b] \in PlaceEntry(Seq(SequentPlace))
    BY DEF PlaceCycleTable
  <2>2. PopPlace(table[b]).dbms = pop_sequent(table[b].dbms)
    BY <2>1 DEF PopPlace, PlaceEntry
  <2> QED
    BY <1>2, <2>1, <2>2 DEF PlaceCycleTable, PlaceEntry
<1>9. ASSUME NEW b \in Bin, NEW gfp \in BOOLEAN
      PROVE  /\ PlaceCycle(gfp, b) \in Seq(SequentPlace)
             /\ PlaceCycle(gfp, b)' = IF mine(gfp, b) THEN pop_sequent(PlaceCycle(gfp, b))
                                      ELSE PlaceCycle(gfp, b)
  <2>1. CASE IsGfp(PTop)
    BY <1>1, <1>2, <1>6, <1>8, <2>1 DEF PopPlaceCircularity, PlaceCycle
  <2>2. CASE ~IsGfp(PTop)
    BY <1>1, <1>2, <1>6, <1>7, <1>8, <2>2 DEF PopPlaceCircularity, PlaceCycle
  <2> QED
    BY <2>1, <2>2
<1> HIDE DEF mine
<1>10. ASSUME NEW b \in Bin, NEW gfp \in BOOLEAN
       PROVE  Holding(PlaceCycle(gfp, b)', POpenIn(gfp, b)', pstack')
  <2>1. Holding(PlaceCycle(gfp, b), POpenIn(gfp, b), pstack)
    BY DEF PlaceCyclesInv
  <2>2. /\ POpenIn(gfp, b) \subseteq DOMAIN pstack
        /\ POpenIn(gfp, b) \ {n} \subseteq DOMAIN pstack'
        /\ \A i \in POpenIn(gfp, b) \ {n} : pstack[i] = pstack'[i]
    BY <1>3, <1>4, <1>5
  <2>3. CASE mine(gfp, b)
    <3>1. n \in POpenIn(gfp, b) /\ n \in Nat /\ POpenIn(gfp, b) \subseteq 1..n
      BY <1>3, <1>5, <2>3
    <3>2. Holding(pop_sequent(PlaceCycle(gfp, b)), POpenIn(gfp, b) \ {n}, pstack')
      BY <1>9, <2>1, <2>2, <3>1, HoldingPop
    <3> QED
      BY <1>5, <1>9, <2>3, <3>2
  <2>4. CASE ~mine(gfp, b)
    <3>1. POpenIn(gfp, b) \ {n} = POpenIn(gfp, b)
      BY <1>5, <2>4
    <3>2. Holding(PlaceCycle(gfp, b), POpenIn(gfp, b), pstack')
      BY <2>1, <2>2, <3>1, HoldingSame
    <3> QED
      BY <1>5, <1>9, <2>4, <3>1, <3>2
  <2> QED
    BY <2>3, <2>4
<1> QED
  BY <1>10 DEF PlaceCyclesInv, Holding, Matches, Distinct, Held

\* One step of do_proof_place outside the unfolding and the return of a predicate.
LEMMA SearchSteps ==
    ASSUME TypeOK, PlaceTypeOK, do_proof_place, ~UnfoldPlace, ~LeavePlacePredicate
    PROVE  /\ ~POpen(PTop)
           /\ QuietSearch
           /\ \A b \in Bin, gfp \in BOOLEAN : PlaceCycle(gfp, b)' = PlaceCycle(gfp, b)
<1>1. pstack # << >>
  BY DEF do_proof_place
<1>2. CASE /\ PlaceConnective \/ do_proof_place_exists_rel \/ do_proof_place_forall_rel
           /\ UNCHANGED placeCacheVars
  <2>1. ~POpen(PTop) /\ QuietSearch
    BY <1>1, <1>2, QuietPlaces DEF QuietSearch, POpen
  <2> QED
    BY <1>2, <2>1 DEF PlaceCycle, placeCacheVars
<1>3. CASE KnownFalsePlaceHit \/ KnownTruePlaceHit \/ GfpPlaceCircularity \/ LfpPlaceCircularity
  <2>1. PTop.formula.op = "PREDICATE" /\ ~POpen(PTop) /\ QuietSearch
    BY <1>3 DEF KnownFalsePlaceHit, KnownTruePlaceHit, GfpPlaceCircularity, LfpPlaceCircularity,
                PEntering, POpen, QuietSearch
  <2>2. pbin \in Bin
    BY <1>1, <2>1, PlacePredicateTop
  <2>3. ASSUME NEW table \in PlaceCycleTable, NEW b \in Bin
        PROVE  PlaceUser(table)[b].dbms = table[b].dbms
    BY <2>2, AddPlaceParentType DEF PlaceUser, PlaceCycleTable, TypeOK, PlaceTypeOK
  <2>4. Xlist_pGFP_ph \in PlaceCycleTable /\ Xlist_pLFP_ph \in PlaceCycleTable
    BY DEF PlaceTypeOK, PlaceCacheTypeOK, PlaceCycleTable
  <2>5. \A b \in Bin : /\ Xlist_pGFP_ph'[b].dbms = Xlist_pGFP_ph[b].dbms
                       /\ Xlist_pLFP_ph'[b].dbms = Xlist_pLFP_ph[b].dbms
    BY <1>3, <2>3, <2>4 DEF KnownFalsePlaceHit, KnownTruePlaceHit, GfpPlaceCircularity,
                            LfpPlaceCircularity
  <2> QED
    BY <2>1, <2>5 DEF PlaceCycle
<1> QED
  BY <1>2, <1>3 DEF do_proof_place, do_proof_place_predicate

LEMMA AskedStack ==
    ASSUME FullTypeOK, Waiting, stack # << >>, SplittingRule
    PROVE  \/ UNCHANGED pstack
           \/ /\ DOMAIN pstack = {}
              /\ DOMAIN pstack' = {1} /\ Len(pstack') = 1
              /\ ~POpen(pstack'[1])
<1>1. ASSUME NEW k, NEW f, NEW z, NEW place, AskPlace(k, PlaceCall(f, Top.loc, z, place))
      PROVE  /\ DOMAIN pstack' = {1} /\ Len(pstack') = 1
             /\ ~POpen(pstack'[1])
  BY <1>1 DEF AskPlace, PlaceCall, POpen
<1>2. pstack = << >>
  BY SplitCases
<1>3. \/ \E k, f, z, place : AskPlace(k, PlaceCall(f, Top.loc, z, place))
      \/ UNCHANGED pstack
  BY SplitCases DEF AnswerWith, ContinueWith, Use
<1> QED
  BY <1>1, <1>2, <1>3

LEMMA NextPlaceCycles ==
    FullTypeOK /\ Waiting /\ PlaceCyclesInv /\ [FullNext]_fullVars => PlaceCyclesInv'
<1> SUFFICES ASSUME FullTypeOK, Waiting, PlaceCyclesInv, [FullNext]_fullVars
             PROVE  PlaceCyclesInv'
  OBVIOUS
<1>1. TypeOK /\ PlaceTypeOK
  BY DEF FullTypeOK
<1>2. CASE UNCHANGED <<input_pes, pstack, placeCacheVars>>
  <2>1. ASSUME NEW b \in Bin, NEW gfp \in BOOLEAN
        PROVE  PlaceCycle(gfp, b)' = PlaceCycle(gfp, b) /\ POpenIn(gfp, b)' = POpenIn(gfp, b)
    BY <1>2 DEF PlaceCycle, placeCacheVars, POpenIn, POpen, IsGfp, BinOf, get_index
  <2>2. \A b \in Bin, gfp \in BOOLEAN :
            Holding(PlaceCycle(gfp, b)', POpenIn(gfp, b)', pstack')
    BY <1>2, <2>1 DEF PlaceCyclesInv
  <2> QED
    BY <2>2 DEF PlaceCyclesInv, Holding, Matches, Distinct, Held
<1>3. CASE do_proof_place
  <2>1. pstack # << >> /\ input_pes' = input_pes
    BY <1>3 DEF do_proof_place
  <2> QED
    BY <1>1, <1>3, <2>1, UnfoldPlaceCycles, LeavePlaceCycles, SearchSteps, QuietPlaceCycles
<1>4. CASE stack # << >> /\ SplittingRule /\ UNCHANGED <<input_pes, placeCacheVars>>
  <2>1. CASE UNCHANGED pstack
    BY <1>2, <1>4, <2>1
  <2>2. CASE DOMAIN pstack = {} /\ DOMAIN pstack' = {1} /\ ~POpen(pstack'[1])
    <3>1. ASSUME NEW b \in Bin, NEW gfp \in BOOLEAN
          PROVE  Holding(PlaceCycle(gfp, b)', POpenIn(gfp, b)', pstack')
      <4>1. POpenIn(gfp, b) = {} /\ POpenIn(gfp, b)' = {}
        BY <2>2 DEF POpenIn, POpen
      <4>2. PlaceCycle(gfp, b)' = PlaceCycle(gfp, b)
        BY <1>4 DEF PlaceCycle, placeCacheVars
      <4>3. Holding(PlaceCycle(gfp, b), {}, pstack)
        BY <4>1 DEF PlaceCyclesInv
      <4> QED
        BY <4>1, <4>2, <4>3, HoldingSame
    <3> QED
      BY <3>1 DEF PlaceCyclesInv, Holding, Matches, Distinct, Held
  <2> QED
    BY <1>4, <2>1, <2>2, AskedStack
<1>5. CASE Next /\ UNCHANGED placeVars
  <2>1. input_pes' = input_pes
    BY <1>1, <1>5, PredicateMoves DEF Next
  <2> QED
    BY <1>2, <1>5, <2>1 DEF placeVars, searchVars
<1>6. CASE UNCHANGED fullVars
  BY <1>2, <1>6 DEF fullVars, vars, placeVars, searchVars
<1> QED
  BY <1>3, <1>4, <1>5, <1>6 DEF FullNext

LEMMA InitPlaceCycles == FullInit => PlaceCyclesInv
<1> SUFFICES ASSUME FullInit, NEW b \in Bin, NEW gfp \in BOOLEAN
             PROVE  Holding(PlaceCycle(gfp, b), POpenIn(gfp, b), pstack)
  BY DEF PlaceCyclesInv
<1>1. PlaceCycle(gfp, b) = << >> /\ POpenIn(gfp, b) = {}
  BY DEF FullInit, PlaceInit, PlaceCacheInit, NoPlaceCycle, PlaceCycle, POpenIn
<1>2. IsFiniteSet({}) /\ Cardinality({}) = 0 /\ Pushed(<< >>) = {} /\ DOMAIN << >> = {}
  BY FS_EmptySet DEF Pushed
<1> QED
  BY <1>1, <1>2 DEF Holding, Matches, Distinct

\* The pairs on the circularity tables with placeholders are those of the open
\* calls of do_proof_place, one for one, at every moment: what is pushed when a
\* predicate is unfolded is what is popped when it returns, and nothing is left
\* when do_proof takes the answer (proof.hh, do_proof_place_predicate).
THEOREM PlaceCyclesCorrect == FullSpec => []PlaceCyclesAreOpenCalls
<1>1. FullInit => FullTypeOK /\ Waiting /\ PlaceCyclesInv
  BY OuterInit, InitPlaceCycles DEF OuterInv
<1>2. FullTypeOK /\ Waiting /\ PlaceCyclesInv /\ [FullNext]_fullVars
        => (FullTypeOK /\ Waiting /\ PlaceCyclesInv)'
  BY FullNextTypes, FullNextWaiting, NextPlaceCycles
<1> QED
  BY <1>1, <1>2, HoldingCalls, PTL DEF FullSpec

-----------------------------------------------------------------------------
(***************************************************************************)
(* parentPlaceRef and the parents without a placeholder.                   *)
(***************************************************************************)

\* p is null or the bin of the innermost open call among the first n of st.
PPointing(pes, st, p, n) ==
    \/ p = NoParent
    \/ \E i \in 1..n : /\ POpen(st[i])
                      /\ p = <<pes.block[st[i].formula.pred], st[i].loc>>
                      /\ \A j \in (i + 1)..n : ~POpen(st[j])

PLinked ==
    /\ PPointing(input_pes, pstack, parentPlaceRef, Len(pstack))
    /\ \A i \in 1..Len(pstack) :
          POpen(pstack[i]) => PPointing(input_pes, pstack, pstack[i].saved, i - 1)

\* Calls that are not open, at the end of either stack, do not matter.
LEMMA PPointingMoves ==
    ASSUME NEW pes, NEW s, NEW t, NEW p, NEW k \in Nat, NEW m \in Nat, NEW n \in Nat,
           k <= m, k <= n,
           \A i \in 1..k : s[i] = t[i],
           \A i \in (k + 1)..m : ~POpen(s[i]),
           \A i \in (k + 1)..n : ~POpen(t[i]),
           PPointing(pes, s, p, m)
    PROVE  PPointing(pes, t, p, n)
<1>1. CASE p = NoParent
  BY <1>1 DEF PPointing
<1>2. CASE p # NoParent
  <2>1. PICK i \in 1..m : /\ POpen(s[i])
                          /\ p = <<pes.block[s[i].formula.pred], s[i].loc>>
                          /\ \A j \in (i + 1)..m : ~POpen(s[j])
    BY <1>2 DEF PPointing
  <2>2. i \in 1..k /\ i \in 1..n
    BY <2>1
  <2>3. POpen(t[i]) /\ p = <<pes.block[t[i].formula.pred], t[i].loc>>
    BY <2>1, <2>2
  <2>4. ASSUME NEW j \in (i + 1)..n PROVE ~POpen(t[j])
    <3>1. CASE j <= k
      <4>1. j \in (i + 1)..m /\ j \in 1..k
        BY <3>1
      <4> QED
        BY <2>1, <4>1
    <3>2. CASE ~(j <= k)
      BY <3>2
    <3> QED
      BY <3>1, <3>2
  <2> QED
    BY <2>2, <2>3, <2>4 DEF PPointing
<1> QED
  BY <1>1, <1>2

LEMMA PPointingSame ==
    ASSUME NEW pes, NEW s, NEW t, NEW p, NEW n \in Nat, \A i \in 1..n : s[i] = t[i],
           PPointing(pes, s, p, n)
    PROVE  PPointing(pes, t, p, n)
  BY DEF PPointing

LEMMA PPointingShorter ==
    ASSUME NEW pes, NEW s, NEW p, NEW n \in Nat \ {0}, ~POpen(s[n]),
           PPointing(pes, s, p, n)
    PROVE  PPointing(pes, s, p, n - 1)
  BY DEF PPointing

\* The saved copies of the calls that stay.
LEMMA SavedStays ==
    ASSUME NEW pes, NEW s, NEW t, NEW k \in Nat, \A i \in 1..k : s[i] = t[i],
           \A i \in 1..k : POpen(s[i]) => PPointing(pes, s, s[i].saved, i - 1)
    PROVE  \A i \in 1..k : POpen(t[i]) => PPointing(pes, t, t[i].saved, i - 1)
<1> SUFFICES ASSUME NEW i \in 1..k, POpen(t[i])
             PROVE  PPointing(pes, t, t[i].saved, i - 1)
  OBVIOUS
<1>1. PPointing(pes, s, t[i].saved, i - 1)
  OBVIOUS
<1>2. i - 1 \in Nat /\ \A j \in 1..(i - 1) : s[j] = t[j]
  OBVIOUS
<1> QED
  BY <1>1, <1>2, PPointingSame

LEMMA QuietLinked ==
    ASSUME PlaceTypeOK, PlaceTypeOK', PLinked, pstack # << >>, input_pes' = input_pes,
           ~POpen(PTop), QuietSearch, parentPlaceRef' \in {NoParent, parentPlaceRef}
    PROVE  PLinked'
<1> DEFINE n == Len(pstack)
           m == Len(pstack')
<1>1. n \in Nat \ {0} /\ DOMAIN pstack = 1..n /\ PTop = pstack[n]
  BY PlaceStacks
<1>2. m \in Nat /\ DOMAIN pstack' = 1..m
  BY LenProperties DEF PlaceTypeOK
<1>3. /\ 1..(n - 1) \subseteq DOMAIN pstack'
      /\ \A i \in 1..(n - 1) : pstack'[i] = pstack[i]
      /\ \A i \in DOMAIN pstack' : POpen(pstack'[i]) => i \in 1..(n - 1)
  BY QuietOpen
<1>4. /\ PPointing(input_pes, pstack, parentPlaceRef, n)
      /\ \A i \in 1..n : POpen(pstack[i]) => PPointing(input_pes, pstack, pstack[i].saved, i - 1)
  BY DEF PLinked
<1> HIDE DEF n, m
<1>5. n - 1 \in Nat /\ n - 1 <= n /\ n - 1 <= m
  <2>1. n - 1 = 0 \/ n - 1 \in 1..(n - 1)
    BY <1>1
  <2> QED
    BY <1>1, <1>2, <1>3, <2>1
<1>6. PPointing(input_pes, pstack', parentPlaceRef, m)
  <2>1. \A i \in ((n - 1) + 1)..n : ~POpen(pstack[i])
    BY <1>1
  <2>2. \A i \in ((n - 1) + 1)..m : ~POpen(pstack'[i])
    BY <1>1, <1>2, <1>3
  <2> QED
    BY <1>1, <1>2, <1>3, <1>4, <1>5, <2>1, <2>2, PPointingMoves
<1>7. \A i \in 1..(n - 1) : POpen(pstack'[i]) =>
          PPointing(input_pes, pstack', pstack'[i].saved, i - 1)
  <2>1. 1..(n - 1) \subseteq 1..n
    BY <1>1
  <2> QED
    BY <1>3, <1>4, <1>5, <2>1, SavedStays
<1>8. PPointing(input_pes, pstack', parentPlaceRef', m)
  BY <1>6 DEF PPointing
<1> QED
  BY <1>2, <1>3, <1>7, <1>8 DEF PLinked, PPointing, POpen, m

LEMMA UnfoldLinked ==
    ASSUME TypeOK, PlaceTypeOK, PLinked, pstack # << >>, input_pes' = input_pes, UnfoldPlace
    PROVE  PLinked'
<1> DEFINE n == Len(pstack)
           fr == [Phase(1) EXCEPT !.saved = parentPlaceRef]
           c == Child(input_pes.rhs[PTop.formula.pred], PTop.place)
<1>1. PTop.formula.op = "PREDICATE" /\ PTop.next = 0 /\ PDescend(fr, c)
  BY DEF UnfoldPlace, PEntering
<1>2. PTop \in PlaceFrame /\ parentPlaceRef' = pbin
  BY TopIsFrame DEF UnfoldPlace
<1>3. /\ POpen(fr) /\ ~POpen(c) /\ ~POpen(PTop)
      /\ pbin = <<input_pes.block[fr.formula.pred], fr.loc>>
      /\ fr.saved = parentPlaceRef
  BY <1>1, <1>2 DEF Phase, PlaceFrame, POpen, Child, PlaceCall, pbin, BinOf, get_index
<1> HIDE DEF fr, c
<1>4. /\ n \in Nat \ {0} /\ DOMAIN pstack = 1..n /\ PTop = pstack[n]
      /\ Len(pstack') = n + 1
      /\ \A i \in 1..(n - 1) : pstack'[i] = pstack[i]
      /\ pstack'[n] = fr
      /\ pstack'[n + 1] = c
  BY <1>1, PlaceStacks
<1>5. /\ PPointing(input_pes, pstack, parentPlaceRef, n)
      /\ \A i \in 1..n : POpen(pstack[i]) => PPointing(input_pes, pstack, pstack[i].saved, i - 1)
  BY DEF PLinked
<1> HIDE DEF n
<1>6. PPointing(input_pes, pstack', parentPlaceRef, n - 1)
  <2>1. PPointing(input_pes, pstack, parentPlaceRef, n - 1)
    BY <1>3, <1>4, <1>5, PPointingShorter
  <2>2. n - 1 \in Nat
    BY <1>4
  <2> QED
    BY <1>4, <2>1, <2>2, PPointingSame
<1>7. \A i \in 1..(n - 1) : POpen(pstack'[i]) =>
          PPointing(input_pes, pstack', pstack'[i].saved, i - 1)
  <2>1. 1..(n - 1) \subseteq 1..n /\ n - 1 \in Nat
    BY <1>4
  <2> QED
    BY <1>4, <1>5, <2>1, SavedStays
<1>8. PPointing(input_pes, pstack', parentPlaceRef', n + 1)
  <2>1. n \in 1..(n + 1) /\ \A j \in (n + 1)..(n + 1) : j = n + 1
    BY <1>4
  <2> QED
    BY <1>2, <1>3, <1>4, <2>1 DEF PPointing
<1>9. ASSUME NEW i \in 1..(n + 1), POpen(pstack'[i])
      PROVE  PPointing(input_pes, pstack', pstack'[i].saved, i - 1)
  <2>1. i \in 1..(n - 1) \/ i = n \/ i = n + 1
    BY <1>4
  <2> QED
    BY <1>3, <1>4, <1>6, <1>7, <1>9, <2>1
<1> QED
  BY <1>4, <1>8, <1>9 DEF PLinked, PPointing, POpen

LEMMA LeaveLinked ==
    ASSUME PlaceTypeOK, PLinked, pstack # << >>, input_pes' = input_pes, LeavePlacePredicate
    PROVE  PLinked'
<1> DEFINE n == Len(pstack)
<1>1. POpen(PTop) /\ PReturn(Answer) /\ parentPlaceRef' = PTop.saved
  BY DEF LeavePlacePredicate, PResuming, POpen
<1>2. /\ n \in Nat \ {0} /\ PTop = pstack[n]
      /\ Len(pstack') = n - 1
      /\ \A i \in 1..(n - 1) : pstack'[i] = pstack[i]
  BY <1>1, PlaceStacks
<1>3. \A i \in 1..n : POpen(pstack[i]) => PPointing(input_pes, pstack, pstack[i].saved, i - 1)
  BY DEF PLinked
<1> HIDE DEF n
<1>4. n - 1 \in Nat /\ n \in 1..n /\ 1..(n - 1) \subseteq 1..n
  BY <1>2
<1>5. PPointing(input_pes, pstack', parentPlaceRef', n - 1)
  <2>1. PPointing(input_pes, pstack, parentPlaceRef', n - 1)
    BY <1>1, <1>2, <1>3, <1>4
  <2> QED
    BY <1>2, <1>4, <2>1, PPointingSame
<1>6. \A i \in 1..(n - 1) : POpen(pstack'[i]) =>
          PPointing(input_pes, pstack', pstack'[i].saved, i - 1)
  BY <1>2, <1>3, <1>4, SavedStays
<1> QED
  BY <1>2, <1>5, <1>6 DEF PLinked, PPointing, POpen

LEMMA SearchParentRef ==
    ASSUME do_proof_place, ~UnfoldPlace, ~LeavePlacePredicate
    PROVE  parentPlaceRef' \in {NoParent, parentPlaceRef}
  BY DEF do_proof_place, do_proof_place_predicate, KnownFalsePlaceHit, KnownTruePlaceHit,
         GfpPlaceCircularity, LfpPlaceCircularity, do_proof_place_exists_rel,
         do_proof_place_forall_rel

LEMMA NextLinked == FullTypeOK /\ Waiting /\ PLinked /\ [FullNext]_fullVars => PLinked'
<1> SUFFICES ASSUME FullTypeOK, Waiting, PLinked, [FullNext]_fullVars
             PROVE  PLinked'
  OBVIOUS
<1>1. TypeOK /\ PlaceTypeOK /\ PlaceTypeOK'
  BY FullNextTypes DEF FullTypeOK
<1>2. ASSUME UNCHANGED <<input_pes, pstack>>, parentPlaceRef' \in {NoParent, parentPlaceRef}
      PROVE  PLinked'
  BY <1>2 DEF PLinked, PPointing, POpen
<1>3. CASE do_proof_place
  <2>1. pstack # << >> /\ input_pes' = input_pes
    BY <1>3 DEF do_proof_place
  <2>2. CASE UnfoldPlace
    BY <1>1, <2>1, <2>2, UnfoldLinked
  <2>3. CASE LeavePlacePredicate
    BY <1>1, <2>1, <2>3, LeaveLinked
  <2>4. CASE ~UnfoldPlace /\ ~LeavePlacePredicate
    BY <1>1, <1>3, <2>1, <2>4, SearchSteps, SearchParentRef, QuietLinked
  <2> QED
    BY <2>2, <2>3, <2>4
<1>4. CASE stack # << >> /\ SplittingRule /\ UNCHANGED input_pes
  <2>1. parentPlaceRef' \in {NoParent, parentPlaceRef}
    BY <1>4, SplitCases
  <2>2. CASE UNCHANGED pstack
    BY <1>2, <1>4, <2>1, <2>2
  <2>3. CASE DOMAIN pstack = {} /\ DOMAIN pstack' = {1} /\ Len(pstack') = 1 /\ ~POpen(pstack'[1])
    <3>1. parentPlaceRef = NoParent
      <4>1. pstack = << >>
        BY <1>4, SplitCases
      <4>2. 1..Len(pstack) = {}
        BY <4>1
      <4> QED
        BY <4>2 DEF PLinked, PPointing
    <3>2. parentPlaceRef' = NoParent /\ 1..Len(pstack') = {1}
      BY <2>1, <2>3, <3>1
    <3> QED
      BY <2>3, <3>2 DEF PLinked, PPointing, POpen
  <2> QED
    BY <1>4, <2>2, <2>3, AskedStack
<1>5. CASE Next /\ UNCHANGED placeVars
  <2>1. input_pes' = input_pes
    BY <1>1, <1>5, PredicateMoves DEF Next
  <2> QED
    BY <1>2, <1>5, <2>1 DEF placeVars, searchVars
<1>6. CASE UNCHANGED fullVars
  BY <1>2, <1>6 DEF fullVars, vars, placeVars, searchVars
<1> QED
  BY <1>3, <1>4, <1>5, <1>6 DEF FullNext

\* While a placeholder is sought a predicate is under proof without one.
LEMMA SearchHasParent ==
    ASSUME FullTypeOK, Waiting, ParentIsInnermost, FirstCall, pstack # << >>
    PROVE  parentRef # NoParent
<1>1. stack # << >> /\ Top.formula.op \in SplittingOps
  BY DEF Waiting
<1>2. stack \in Seq(Frame) /\ Len(stack) \in Nat \ {0} /\ Top = stack[Len(stack)]
  BY <1>1, StackNonempty DEF FullTypeOK, TypeOK, Top
<1>3. ~IsPredicate(Top)
  BY <1>1 DEF SplittingOps, IsPredicate
<1>4. Open(stack[1]) /\ 1 \in 1..Len(stack)
  BY <1>1, <1>2, <1>3 DEF FirstCall
<1>5. PICK i \in 1..Len(stack) : Open(stack[i]) /\ (parentRef = NoParent => NoParent = BinOf(stack[i]))
  BY <1>4 DEF ParentIsInnermost, PointsTo
<1>6. stack[i].formula.pred \in Predicate /\ stack[i].loc \in Loc
  <2>1. stack[i] \in Frame
    BY <1>2, ElementOfSeq
  <2> QED
    BY <1>5, <2>1, FormulaAssumption DEF Frame, Open, IsPredicate
<1>7. BinOf(stack[i]) \in Block \X Loc
  BY <1>6, SystemsAssumption DEF FullTypeOK, TypeOK, BinOf, get_index
<1> QED
  BY <1>5, <1>7, NoParentAssumption

LEMMA UserHasNoNull ==
    ASSUME NEW table \in PlaceVerdictTable, HasNoNull(table), parentRef # NoParent,
           pbin \in Bin
    PROVE  HasNoNull(PlaceUser(table))
<1>1. \A b \in Bin : table[b] \in PlaceEntry(SUBSET SequentPlace) /\ NoParent \notin table[b].parents
  BY DEF PlaceVerdictTable, HasNoNull
<1>2. CASE parentPlaceRef # NoParent
  BY <1>1, <1>2 DEF PlaceUser, addPlaceParent, HasNoNull, PlaceVerdictTable, PlaceEntry
<1>3. CASE parentPlaceRef = NoParent
  BY <1>1, <1>3 DEF PlaceUser, addPlaceParent, HasNoNull, PlaceVerdictTable, PlaceEntry
<1> QED
  BY <1>2, <1>3

LEMMA CachedHasNoNull ==
    ASSUME NEW table \in PlaceVerdictTable, HasNoNull(table), NEW b \in Bin, NEW zone, NEW place
    PROVE  /\ \A new \in cache_true_place(table, b, zone, place) : HasNoNull(new)
           /\ \A new \in cache_false_place(table, b, zone) : HasNoNull(new)
<1>1. ASSUME NEW d PROVE HasNoNull([table EXCEPT ![b].dbms = d])
  BY DEF HasNoNull, PlaceVerdictTable, PlaceEntry
<1> QED
  BY <1>1 DEF cache_true_place, cache_false_place

LEMMA PurgedHasNoNull ==
    ASSUME TypeOK, PlaceTypeOK, HasNoNull(Xlist_true_ph), HasNoNull(Xlist_false_ph),
           NEW b \in Bin, NEW zone
    PROVE  /\ HasNoNull(purge_true_place(b, zone).true_ph)
           /\ HasNoNull(purge_true_place(b, zone).false_ph)
           /\ HasNoNull(purge_false_place(b, zone).true_ph)
           /\ HasNoNull(purge_false_place(b, zone).false_ph)
<1>1. Xlist_true_ph \in PlaceVerdictTable /\ Xlist_false_ph \in PlaceVerdictTable
  BY DEF PlaceTypeOK, PlaceCacheTypeOK, PlaceVerdictTable
<1>2. ASSUME NEW table \in PlaceVerdictTable, HasNoNull(table), NEW bins
      PROVE  HasNoNull(ErasePlaces(table, bins))
  BY <1>2 DEF HasNoNull, ErasePlaces, NoPlaceSequent
<1>3. ASSUME NEW table \in PlaceVerdictTable, HasNoNull(table), NEW removed
      PROVE  /\ [table EXCEPT ![b] = WithoutPlaces(@, removed)] \in PlaceVerdictTable
             /\ HasNoNull([table EXCEPT ![b] = WithoutPlaces(@, removed)])
  <2>1. /\ WithoutPlaces(table[b], removed) \in PlaceEntry(SUBSET SequentPlace)
        /\ NoParent \notin WithoutPlaces(table[b], removed).parents
    <3>1. table[b] \in PlaceEntry(SUBSET SequentPlace) /\ NoParent \notin table[b].parents
      BY <1>3 DEF PlaceVerdictTable, HasNoNull
    <3> QED
      BY <3>1, WithoutPlacesType DEF WithoutPlaces, NoPlaceSequent, PlaceEntry
  <2> QED
    BY <1>3, <2>1 DEF PlaceVerdictTable, HasNoNull
<1> QED
  BY <1>1, <1>2, <1>3 DEF purge_true_place, purge_false_place, PurgePlaceParents

NoNullPlaces == HasNoNull(Xlist_true_ph) /\ HasNoNull(Xlist_false_ph)

LEMMA PredicateHasNoNull ==
    ASSUME TypeOK, PlaceTypeOK, pstack # << >>, parentRef # NoParent, NoNullPlaces,
           do_proof_place_predicate
    PROVE  NoNullPlaces'
<1>1. PTop.formula.op = "PREDICATE"
  BY DEF do_proof_place_predicate, KnownFalsePlaceHit, KnownTruePlaceHit, GfpPlaceCircularity,
         LfpPlaceCircularity, UnfoldPlace, LeavePlacePredicate, PEntering, PResuming
<1>2. /\ pbin \in Bin
      /\ Xlist_true_ph \in PlaceVerdictTable /\ Xlist_false_ph \in PlaceVerdictTable
      /\ HasNoNull(Xlist_true_ph) /\ HasNoNull(Xlist_false_ph)
  BY <1>1, PlacePredicateTop DEF PlaceTypeOK, PlaceCacheTypeOK, PlaceVerdictTable, NoNullPlaces
<1> SUFFICES HasNoNull(Xlist_true_ph') /\ HasNoNull(Xlist_false_ph')
  BY DEF NoNullPlaces, HasNoNull
<1>3. CASE KnownFalsePlaceHit
  BY <1>2, <1>3, UserHasNoNull DEF KnownFalsePlaceHit
<1>4. CASE KnownTruePlaceHit
  BY <1>2, <1>4, UserHasNoNull DEF KnownTruePlaceHit
<1>5. CASE GfpPlaceCircularity
  BY <1>2, <1>5, CachedHasNoNull DEF GfpPlaceCircularity
<1>6. CASE LfpPlaceCircularity
  BY <1>2, <1>6, CachedHasNoNull DEF LfpPlaceCircularity
<1>7. CASE UnfoldPlace
  BY <1>2, <1>7 DEF UnfoldPlace, placeTables
<1>8. CASE LeavePlacePredicate
  <2>1. UpdatePlaceCaches /\ PTop.zone \in Zone
    BY <1>8, TopIsFrame DEF LeavePlacePredicate
  <2>2. CASE ~useCaching
    BY <1>2, <2>1, <2>2 DEF UpdatePlaceCaches, placeTables
  <2>3. CASE useCaching /\ Answer # {}
    <3> DEFINE purged == purge_false_place(pbin, PTop.zone)
    <3>1. /\ purged.true_ph \in PlaceVerdictTable
          /\ HasNoNull(purged.true_ph) /\ HasNoNull(purged.false_ph)
      BY <1>2, <2>1, PurgePlaceType, PurgedHasNoNull DEF Purging
    <3>2. /\ Xlist_true_ph' \in cache_true_place(purged.true_ph, pbin, PTop.zone, Answer)
          /\ Xlist_false_ph' = purged.false_ph
      BY <2>1, <2>3 DEF UpdatePlaceCaches
    <3> HIDE DEF purged
    <3> QED
      BY <1>2, <3>1, <3>2, CachedHasNoNull
  <2>4. CASE useCaching /\ Answer = {}
    <3> DEFINE purged == purge_true_place(pbin, PTop.zone)
    <3>1. /\ purged.false_ph \in PlaceVerdictTable
          /\ HasNoNull(purged.true_ph) /\ HasNoNull(purged.false_ph)
      BY <1>2, <2>1, PurgePlaceType, PurgedHasNoNull DEF Purging
    <3>2. /\ Xlist_false_ph' \in cache_false_place(purged.false_ph, pbin, PTop.zone)
          /\ Xlist_true_ph' = purged.true_ph
      BY <2>1, <2>4 DEF UpdatePlaceCaches
    <3> HIDE DEF purged
    <3> QED
      BY <1>2, <3>1, <3>2, CachedHasNoNull
  <2> QED
    BY <2>2, <2>3, <2>4
<1> QED
  BY <1>3, <1>4, <1>5, <1>6, <1>7, <1>8 DEF do_proof_place_predicate

LEMMA NextNoNullPlaces == OuterInv /\ NoNullPlaces /\ [FullNext]_fullVars => NoNullPlaces'
<1> SUFFICES ASSUME OuterInv, NoNullPlaces, [FullNext]_fullVars
             PROVE  NoNullPlaces'
  OBVIOUS
<1>1. CASE UNCHANGED placeTables
  BY <1>1 DEF NoNullPlaces, HasNoNull, placeTables
<1>2. CASE pstack # << >> /\ do_proof_place_predicate
  <2>1. parentRef # NoParent
    BY <1>2, SearchHasParent DEF OuterInv
  <2> QED
    BY <1>2, <2>1, PredicateHasNoNull DEF OuterInv, FullTypeOK
<1>3. UNCHANGED placeTables \/ (do_proof_place_predicate /\ pstack # << >>)
  BY DEF FullNext, fullVars, placeVars, placeCacheVars, placeTables, do_proof_place
<1> QED
  BY <1>1, <1>2, <1>3

\* parentPlaceRef names the innermost predicate under proof with a placeholder
\* or is null, which it is whenever no placeholder is sought: it is saved and
\* restored by hand around every recursive call, and reset in the middle of the
\* rules of EXISTS_REL and FORALL_REL.  Where it is null there is a parent
\* without a placeholder, so no null pointer is ever recorded (proof.hh,
\* do_proof_place_predicate; sequent_cache.hh, addParent).
THEOREM PlaceParentCorrect == FullSpec => []PlaceParentIsOpen
<1>1. FullInit => OuterInv /\ PLinked /\ NoNullPlaces
  <2> SUFFICES ASSUME FullInit PROVE PLinked /\ NoNullPlaces
    BY OuterInit
  <2>1. pstack = << >> /\ parentPlaceRef = NoParent /\ 1..Len(pstack) = {}
    BY DEF FullInit, PlaceInit
  <2>2. NoNullPlaces
    BY DEF FullInit, PlaceInit, PlaceCacheInit, NoPlaceSequent, NoNullPlaces, HasNoNull
  <2> QED
    BY <2>1, <2>2 DEF PLinked, PPointing
<1>2. (OuterInv /\ PLinked /\ NoNullPlaces) /\ [FullNext]_fullVars
        => (OuterInv /\ PLinked /\ NoNullPlaces)'
  BY OuterNext, NextLinked, NextNoNullPlaces DEF OuterInv
<1>3. OuterInv /\ PLinked /\ NoNullPlaces => PlaceParentIsOpen
  <2> SUFFICES ASSUME OuterInv, PLinked, NoNullPlaces PROVE PlaceParentIsOpen
    OBVIOUS
  <2>1. DOMAIN pstack = 1..Len(pstack)
    BY LenProperties DEF OuterInv, FullTypeOK, PlaceTypeOK
  <2>2. pstack = << >> => parentPlaceRef = NoParent
    <3>1. pstack = << >> => 1..Len(pstack) = {}
      OBVIOUS
    <3> QED
      BY <3>1 DEF PLinked, PPointing
  <2>3. \/ parentPlaceRef = NoParent
        \/ \E i \in DOMAIN pstack : /\ POpen(pstack[i])
                                    /\ parentPlaceRef = BinOf(pstack[i])
                                    /\ \A j \in (i + 1)..Len(pstack) : ~POpen(pstack[j])
    BY <2>1 DEF PLinked, PPointing, BinOf, get_index
  <2> QED
    BY <2>2, <2>3 DEF PlaceParentIsOpen, NoNullPlaces, HasNoNull
<1> QED
  BY <1>1, <1>2, <1>3, PTL DEF FullSpec

=============================================================================
