--------------------------- MODULE SoundnessProofs ---------------------------
(***************************************************************************)
(* A verdict "valid" is right: without the verdict tables, and where the   *)
(* search with placeholders can be relied on.                              *)
(***************************************************************************)
EXTENDS Soundness, PlaceCallProofs

-----------------------------------------------------------------------------
(***************************************************************************)
(* Derivations.                                                            *)
(***************************************************************************)

\* More claims and more judgements never invalidate a step.
LEMMA FollowsMonotone ==
    ASSUME NEW s, NEW G, NEW H, G \subseteq H, NEW V, NEW W, V \subseteq W,
           NEW f, NEW l, NEW p, Follows(s, G, V, f, l, p)
    PROVE  Follows(s, H, W, f, l, p)
<1>1. \A g, m : At(V, g, m) \subseteq At(W, g, m)
  BY DEF At
<1> HIDE DEF At
<1>2. \A first, second, first2, second2 :
         first \subseteq first2 /\ second \subseteq second2 /\ Until(first, second, l, p)
            => Until(first2, second2, l, p)
  BY DEF Until
<1>3. At(V, f.left, l) \cap At(V, f.right, l) \subseteq At(W, f.left, l) \cap At(W, f.right, l)
  BY <1>1
<1>4. /\ Until(At(V, f.left, l), At(V, f.right, l), l, p)
            => Until(At(W, f.left, l), At(W, f.right, l), l, p)
      /\ Until(At(V, f.right, l), At(V, f.left, l) \cap At(V, f.right, l), l, p)
            => Until(At(W, f.right, l), At(W, f.left, l) \cap At(W, f.right, l), l, p)
  BY <1>1, <1>2, <1>3
<1> QED
  BY <1>1, <1>4 DEF Follows

LEMMA DerivableClosed ==
    ASSUME NEW s, NEW G
    PROVE  /\ Derivable(s, G) \in Closed(s, G)
           /\ \A V \in Closed(s, G) : Derivable(s, G) \subseteq V
<1> DEFINE D == Derivable(s, G)
<1>1. D \subseteq Judgement /\ \A V \in Closed(s, G) : D \subseteq V
  BY DEF Derivable
<1>2. ASSUME NEW f \in PlaceFormula, NEW l \in Loc, NEW p \in Point, Follows(s, G, D, f, l, p)
      PROVE  <<f, l, p>> \in D
  <2>1. ASSUME NEW V \in Closed(s, G) PROVE <<f, l, p>> \in V
    <3>1. Follows(s, G, V, f, l, p)
      BY <1>1, <1>2, FollowsMonotone
    <3> QED
      BY <3>1 DEF Closed
  <2> QED
    BY <2>1 DEF Derivable, Judgement
<1> HIDE DEF D
<1>3. D \in Closed(s, G)
  BY <1>1, <1>2 DEF Closed
<1> QED
  BY <1>1, <1>3 DEF D

\* A derivable judgement has a last step.
LEMMA Inversion ==
    ASSUME NEW s, NEW G, NEW f \in PlaceFormula, NEW l \in Loc, NEW p \in Point,
           <<f, l, p>> \in Derivable(s, G)
    PROVE  Follows(s, G, Derivable(s, G), f, l, p)
<1> DEFINE D == Derivable(s, G)
           Lasting == {j \in D : Follows(s, G, D, j[1], j[2], j[3])}
<1>1. D \in Closed(s, G) /\ \A V \in Closed(s, G) : D \subseteq V
  BY DerivableClosed
<1>2. Lasting \subseteq D /\ D \subseteq Judgement
  BY <1>1 DEF Closed
<1>3. ASSUME NEW g \in PlaceFormula, NEW m \in Loc, NEW q \in Point,
             Follows(s, G, Lasting, g, m, q)
      PROVE  <<g, m, q>> \in Lasting
  <2>1. Follows(s, G, D, g, m, q)
    BY <1>2, <1>3, FollowsMonotone
  <2>2. <<g, m, q>> \in D
    BY <1>1, <2>1 DEF Closed
  <2> QED
    BY <2>1, <2>2
<1> HIDE DEF Lasting
<1>4. Lasting \in Closed(s, G)
  BY <1>2, <1>3 DEF Closed
<1>5. <<f, l, p>> \in Lasting
  BY <1>1, <1>4
<1> QED
  BY <1>5 DEF Lasting

LEMMA DerivableMonotone ==
    ASSUME NEW s, NEW G, NEW H, G \subseteq H
    PROVE  Derivable(s, G) \subseteq Derivable(s, H)
<1>1. ASSUME NEW V \in Closed(s, H) PROVE V \in Closed(s, G)
  <2>1. ASSUME NEW f \in PlaceFormula, NEW l \in Loc, NEW p \in Point, Follows(s, G, V, f, l, p)
        PROVE  <<f, l, p>> \in V
    <3>1. Follows(s, H, V, f, l, p)
      BY <2>1, FollowsMonotone
    <3> QED
      BY <3>1 DEF Closed
  <2> QED
    BY <2>1 DEF Closed
<1> QED
  BY <1>1, DerivableClosed

\* The claims that can be supported support each other.
LEMMA SupportableIsSupported ==
    ASSUME NEW s, NEW H
    PROVE  Supportable(s, H) \in SUBSET Claim /\ Supported(s, H, Supportable(s, H))
<1> DEFINE S == Supportable(s, H)
<1>1. S \in SUBSET Claim
  BY DEF Supportable
<1>2. ASSUME NEW e \in S
      PROVE  <<s.rhs[e[1]], e[2], e[3]>> \in Derivable(s, S \cup H)
  <2>1. PICK E \in SUBSET Claim : e \in E /\ Supported(s, H, E)
    BY DEF Supportable
  <2>2. E \subseteq S
    BY <2>1 DEF Supportable
  <2>3. Derivable(s, E \cup H) \subseteq Derivable(s, S \cup H)
    BY <2>2, DerivableMonotone
  <2> QED
    BY <2>1, <2>3 DEF Supported
<1> QED
  BY <1>1, <1>2 DEF Supported

LEMMA ProvableMonotone ==
    ASSUME NEW s, NEW H, NEW K, H \subseteq K
    PROVE  Provable(s, H) \subseteq Provable(s, K)
<1>1. ASSUME NEW E \in SUBSET Claim, Supported(s, H, E)
      PROVE  Supported(s, K, E)
  <2>1. Derivable(s, E \cup H) \subseteq Derivable(s, E \cup K)
    BY DerivableMonotone
  <2> QED
    BY <1>1, <2>1 DEF Supported
<1>2. Supportable(s, H) \subseteq Supportable(s, K)
  BY <1>1 DEF Supportable
<1> QED
  BY <1>2, DerivableMonotone DEF Provable

\* Claims whose right-hand sides are proved from the claims themselves need
\* not be assumed: the rule for greatest fixpoints.
LEMMA Discharge ==
    ASSUME NEW s, NEW H, NEW Q \in SUBSET Claim,
           \A e \in Q : <<s.rhs[e[1]], e[2], e[3]>> \in Provable(s, H \cup Q)
    PROVE  /\ Q \subseteq Supportable(s, H)
           /\ Provable(s, H \cup Q) \subseteq Provable(s, H)
<1> DEFINE S == Supportable(s, H \cup Q)
           E == S \cup Q
<1>1. S \in SUBSET Claim /\ Supported(s, H \cup Q, S)
  BY SupportableIsSupported
<1>2. S \cup (H \cup Q) = E \cup H
  OBVIOUS
<1>3. Provable(s, H \cup Q) = Derivable(s, E \cup H)
  BY <1>2 DEF Provable
<1>4. \A e \in S : <<s.rhs[e[1]], e[2], e[3]>> \in Derivable(s, E \cup H)
  BY <1>1, <1>2 DEF Supported
<1> HIDE DEF S
<1>5. Supported(s, H, E)
  BY <1>3, <1>4 DEF Supported
<1>6. E \in SUBSET Claim
  BY <1>1
<1> HIDE DEF E
<1>7. E \subseteq Supportable(s, H)
  BY <1>5, <1>6 DEF Supportable
<1>8. Derivable(s, E \cup H) \subseteq Provable(s, H)
  BY <1>7, DerivableMonotone DEF Provable
<1> QED
  BY <1>3, <1>7, <1>8 DEF E

\* What a step proves is provable, and what is provable has a last step.
LEMMA ProvableStep ==
    ASSUME NEW s, NEW H, NEW f \in PlaceFormula, NEW l \in Loc, NEW p \in Point
    PROVE  /\ Follows(s, H, Provable(s, H), f, l, p) => <<f, l, p>> \in Provable(s, H)
           /\ Follows(s, Supportable(s, H), Provable(s, H), f, l, p)
                 => <<f, l, p>> \in Provable(s, H)
           /\ (f.op # "PREDICATE" /\ <<f, l, p>> \in Provable(s, H))
                 => Follows(s, H, Provable(s, H), f, l, p)
<1> DEFINE G == Supportable(s, H) \cup H
<1>1. ASSUME NEW C, C \subseteq G, Follows(s, C, Provable(s, H), f, l, p)
      PROVE  <<f, l, p>> \in Provable(s, H)
  <2>1. Follows(s, G, Derivable(s, G), f, l, p)
    BY <1>1, FollowsMonotone DEF Provable
  <2> HIDE DEF G
  <2>2. <<f, l, p>> \in Derivable(s, G)
    BY <2>1, DerivableClosed DEF Closed
  <2> QED
    BY <2>2 DEF Provable, G
<1>2. ASSUME f.op # "PREDICATE", <<f, l, p>> \in Provable(s, H)
      PROVE  Follows(s, H, Provable(s, H), f, l, p)
  <2>1. Follows(s, G, Provable(s, H), f, l, p)
    BY <1>2, Inversion DEF Provable
  <2> QED
    BY <1>2, <2>1 DEF Follows
<1> HIDE DEF G
<1>3. H \subseteq G /\ Supportable(s, H) \subseteq G
  BY DEF G
<1> QED
  BY <1>1, <1>2, <1>3

-----------------------------------------------------------------------------
(***************************************************************************)
(* Sequents.                                                               *)
(***************************************************************************)

Proves(pes, H, c) == HoldsOn(Provable(pes, H), c.formula, c.loc, c.zone)

LEMMA HoldsAt ==
    ASSUME NEW V, NEW f, NEW l, NEW z \in SUBSET Point
    PROVE  HoldsOn(V, f, l, z) <=> z \subseteq At(V, f, l)
  BY DEF HoldsOn, At

LEMMA StepOn ==
    ASSUME NEW pes, NEW H, NEW f \in PlaceFormula, NEW l \in Loc, NEW z \in SUBSET Point,
           \A p \in z : Follows(pes, H, Provable(pes, H), f, l, p)
    PROVE  HoldsOn(Provable(pes, H), f, l, z)
  BY ProvableStep DEF HoldsOn

LEMMA FormulasArePlaced == Formula \subseteq PlaceFormula
  BY DEF PlaceFormula

\* The sequent after transition t, from the one of the quantified formula.
After(fr, t) ==
    Call(fr.formula.quant, t.dest[fr.loc],
         Image(t.reset, Bound[EnabledPart(t, fr.loc, fr.zone)]))

\* The zone that goes into a transition is the part that can take it.
LEMMA EnabledPartExact ==
    ASSUME NEW k \in 1..Len(Transitions), NEW l \in Loc, NEW z \in SUBSET Point
    PROVE  LET t == Transitions[k]
           IN  EnabledPart(t, l, z) = {p \in z \cap t.guard.zone : t.reset[p] \in Inv[t.dest[l]]}
<1> DEFINE t == Transitions[k]
<1>1. k \in DOMAIN Transitions
  BY AutomatonAssumption
<1>2. InvariantPre(t, l) = {p \in Point : t.reset[p] \in Inv[t.dest[l]]}
  BY <1>1, EnteringAssumption
<1> HIDE DEF t
<1>3. EnabledPart(t, l, z) = {p \in z \cap t.guard.zone : t.reset[p] \in Inv[t.dest[l]]}
  BY <1>2 DEF EnabledPart
<1> QED
  BY <1>3 DEF t

\* The rules of the connectives, from the premises they prove to their sequent.
LEMMA ConnectiveRules ==
    ASSUME NEW pes, NEW H, NEW fr \in Frame
    PROVE  LET f == fr.formula
               l == fr.loc
               z == fr.zone
               V == Provable(pes, H)
           IN  /\ f.op = "AND" /\ HoldsOn(V, f.left, l, z) /\ HoldsOn(V, f.right, l, z)
                     => Proves(pes, H, fr)
               /\ f.op \in {"OR", "OR_SIMPLE"}
                       /\ (HoldsOn(V, f.left, l, z) \/ HoldsOn(V, f.right, l, z))
                     => Proves(pes, H, fr)
               /\ f.op = "FORALL" /\ HoldsOn(V, f.quant, l, Elapse(z, l))
                     => Proves(pes, H, fr)
               /\ f.op = "SUBLIST" /\ HoldsOn(V, f.expr, f.map[l], z)
                     => Proves(pes, H, fr)
               /\ f.op = "RESET" /\ HoldsOn(V, f.expr, l, Image(f.map, z))
                     => Proves(pes, H, fr)
               /\ f.op = "ATOMIC" /\ l \in f.locs => Proves(pes, H, fr)
               /\ f.op = "CONSTRAINT" /\ z \subseteq f.zone => Proves(pes, H, fr)
<1> DEFINE f == fr.formula
           l == fr.loc
           z == fr.zone
           V == Provable(pes, H)
<1>1. /\ f \in PlaceFormula /\ l \in Loc /\ z \in SUBSET Point
      /\ f.op = "RESET" => f.map \in [Point -> Point]
  BY FormulasArePlaced, FormulaAssumption DEF Frame, Zone
<1>2. (\A p \in z : Follows(pes, H, V, f, l, p)) => Proves(pes, H, fr)
  BY <1>1, StepOn DEF Proves
<1>3. \A g, m : HoldsOn(V, g, m, z) => z \subseteq At(V, g, m)
  BY <1>1, HoldsAt
<1> HIDE DEF V
<1>4. ASSUME f.op = "AND", HoldsOn(V, f.left, l, z), HoldsOn(V, f.right, l, z)
      PROVE  Proves(pes, H, fr)
  BY <1>2, <1>3, <1>4 DEF Follows
<1>5. ASSUME f.op \in {"OR", "OR_SIMPLE"}, HoldsOn(V, f.left, l, z) \/ HoldsOn(V, f.right, l, z)
      PROVE  Proves(pes, H, fr)
  BY <1>2, <1>3, <1>5 DEF Follows
<1>6. ASSUME f.op = "FORALL", HoldsOn(V, f.quant, l, Elapse(z, l))
      PROVE  Proves(pes, H, fr)
  <2>1. ASSUME NEW p \in z PROVE Later[p] \cap Inv[l] \subseteq At(V, f.quant, l)
    <3>1. Later[p] \cap Inv[l] \subseteq Elapse(z, l) /\ Later[p] \subseteq Point
      BY <1>1, AutomatonAssumption DEF Elapse, Zone
    <3> QED
      BY <1>6, <3>1 DEF HoldsOn, At
  <2> QED
    BY <1>2, <1>6, <2>1 DEF Follows
<1>7. ASSUME f.op = "SUBLIST", HoldsOn(V, f.expr, f.map[l], z)
      PROVE  Proves(pes, H, fr)
  BY <1>2, <1>3, <1>7 DEF Follows
<1>8. ASSUME f.op = "RESET", HoldsOn(V, f.expr, l, Image(f.map, z))
      PROVE  Proves(pes, H, fr)
  <2>1. ASSUME NEW p \in z PROVE f.map[p] \in At(V, f.expr, l)
    BY <1>1, <1>8 DEF HoldsOn, At, Image
  <2> QED
    BY <1>2, <1>8, <2>1 DEF Follows
<1>9. /\ f.op = "ATOMIC" /\ l \in f.locs => Proves(pes, H, fr)
      /\ f.op = "CONSTRAINT" /\ z \subseteq f.zone => Proves(pes, H, fr)
  BY <1>2 DEF Follows
<1> QED
  BY <1>4, <1>5, <1>6, <1>7, <1>8, <1>9 DEF V

LEMMA ImplyRule ==
    ASSUME NEW pes, NEW H, NEW fr \in Frame, fr.formula.op = "IMPLY",
           comp_ph(fr.zone, fr.formula.left, fr.loc)
              => HoldsOn(Provable(pes, H), fr.formula.right, fr.loc,
                         Bound[fr.zone \cap fr.formula.left.zone])
    PROVE  Proves(pes, H, fr)
<1> DEFINE f == fr.formula
           l == fr.loc
           z == fr.zone
           V == Provable(pes, H)
<1>1. /\ f \in PlaceFormula /\ l \in Loc /\ z \in SUBSET Point
      /\ z \cap f.left.zone \in Zone
  BY FormulasArePlaced DEF Frame, Zone
<1>2. z \cap f.left.zone \subseteq Bound[z \cap f.left.zone]
  BY <1>1, BoundAssumption
<1>3. ASSUME NEW p \in z PROVE Follows(pes, H, V, f, l, p)
  <2>1. ASSUME l \in f.left.locs, p \in f.left.zone
        PROVE  p \in At(V, f.right, l)
    <3>1. comp_ph(z, f.left, l)
      BY <1>3, <2>1 DEF comp_ph
    <3>2. <<f.right, l, p>> \in V
      BY <1>2, <1>3, <2>1, <3>1 DEF HoldsOn
    <3> QED
      BY <1>1, <3>2 DEF At
  <2> QED
    BY <2>1 DEF Follows
<1> QED
  BY <1>1, <1>3, StepOn DEF Proves

\* Every transition that can be taken anywhere in the zone is tried.
LEMMA AllactRule ==
    ASSUME NEW pes, NEW H, NEW fr \in Frame, fr.formula.op = "ALLACT",
           \A k \in 1..Len(Transitions) :
              CanTake(Transitions[k], fr.loc, fr.zone) => Proves(pes, H, After(fr, Transitions[k]))
    PROVE  Proves(pes, H, fr)
<1> DEFINE f == fr.formula
           l == fr.loc
           z == fr.zone
           V == Provable(pes, H)
<1>1. f \in PlaceFormula /\ l \in Loc /\ z \in SUBSET Point
  BY FormulasArePlaced DEF Frame, Zone
<1>2. ASSUME NEW p \in z, NEW k \in DOMAIN Transitions, Takes(Transitions[k], l, p)
      PROVE  Transitions[k].reset[p] \in At(V, f.quant, Transitions[k].dest[l])
  <2> DEFINE t == Transitions[k]
             part == EnabledPart(t, l, z)
  <2>1. k \in 1..Len(Transitions)
    BY AutomatonAssumption
  <2>2. t.reset \in [Point -> Point] /\ t.reset[p] \in Point
    BY <1>1, <2>1, TransitionTypes
  <2>3. part \in Zone /\ p \in part
    BY <1>1, <1>2, <2>1, EnabledPartExact DEF Takes, Zone
  <2>4. CanTake(t, l, z)
    BY <1>2, <2>3 DEF CanTake, comp_ph, Takes
  <2>5. Proves(pes, H, After(fr, t))
    BY <2>1, <2>4
  <2>6. t.reset[p] \in Image(t.reset, Bound[part])
    BY <2>3, BoundAssumption DEF Image
  <2> QED
    BY <2>2, <2>5, <2>6 DEF Proves, HoldsOn, After, Call, At
<1>3. ASSUME NEW p \in z PROVE Follows(pes, H, V, f, l, p)
  BY <1>2 DEF Follows
<1> QED
  BY <1>1, <1>3, StepOn DEF Proves

\* Divergence is the same for the whole zone.
LEMMA WaitRule ==
    ASSUME NEW pes, NEW H, NEW fr \in Frame,
           \/ fr.formula.op = "ABLEWAITINF" /\ TimeDiverges(fr.zone, fr.loc)
           \/ fr.formula.op = "UNABLEWAITINF" /\ ~TimeDiverges(fr.zone, fr.loc)
    PROVE  Proves(pes, H, fr)
<1> DEFINE f == fr.formula
           l == fr.loc
           z == fr.zone
<1>1. f \in PlaceFormula /\ l \in Loc /\ z \in SUBSET Point
  BY FormulasArePlaced DEF Frame, Zone
<1>2. ASSUME NEW p \in z
      PROVE  /\ Later[p] \cap Inv[l] \subseteq Elapse(z, l)
             /\ TimeDiverges(z, l) => Later[p] \cap Inv[l] \cap Beyond # {}
  BY <1>1, DivergenceAssumption DEF Elapse, TimeDiverges
<1>3. ASSUME NEW p \in z PROVE Follows(pes, H, Provable(pes, H), f, l, p)
  BY <1>2 DEF Follows, TimeDiverges
<1> QED
  BY <1>1, <1>3, StepOn DEF Proves

-----------------------------------------------------------------------------
(***************************************************************************)
(* The calls of do_proof: what each proves if the call above it succeeds,  *)
(* from the claims of the greatest fixpoints under proof.                  *)
(***************************************************************************)

GfpClaims(pes, fr) ==
    {c \in Claim : /\ fr.formula.op = "PREDICATE" /\ fr.next # 0
                   /\ fr.formula.pred = c[1] /\ pes.gfp[c[1]]
                   /\ fr.loc = c[2] /\ c[3] \in fr.zone}
\* The claims of the first n calls.
Assumed(pes, st, n) == UNION {GfpClaims(pes, st[i]) : i \in 1..n}

\* The sequent a call that waits has asked for first.
Awaited(pes, fr) ==
    CASE fr.formula.op = "PREDICATE" -> Call(pes.rhs[fr.formula.pred], fr.loc, fr.zone)
      [] fr.formula.op \in {"AND", "OR_SIMPLE"} -> Call(fr.formula.left, fr.loc, fr.zone)
      [] fr.formula.op = "ALLACT" -> After(fr, Transitions[fr.next])
      [] OTHER -> fr
\* The transitions before the one under proof are proved.
Tried(pes, H, fr) ==
    fr.formula.op = "ALLACT" =>
        \A k \in 1..(fr.next - 1) :
            CanTake(Transitions[k], fr.loc, fr.zone) => Proves(pes, H, After(fr, Transitions[k]))
Asking(pes) == Call(pes.start, pes.loc, pes.zone)

Justified(pes, st, r) ==
    /\ \A i \in 1..(Len(st) - 1) :
          Proves(pes, Assumed(pes, st, i), st[i + 1])
             => Proves(pes, Assumed(pes, st, i), Awaited(pes, st[i]))
    /\ st # << >> /\ Proves(pes, {}, st[1]) => Proves(pes, {}, Asking(pes))
    /\ \A i \in 1..Len(st) : Tried(pes, Assumed(pes, st, i), st[i])
    /\ r = Valid /\ st = << >> => Proves(pes, {}, Asking(pes))
    /\ r = Valid /\ st # << >>
          => Proves(pes, Assumed(pes, st, Len(st)), Awaited(pes, st[Len(st)]))

LEMMA OneWithin == \A n \in Nat \ {0, 1} : 1 \in 1..(n - 1)
  OBVIOUS

LEMMA AssumedSame ==
    ASSUME NEW pes, NEW s, NEW t, NEW n \in Nat, \A i \in 1..n : t[i] = s[i]
    PROVE  \A i \in 0..n : Assumed(pes, t, i) = Assumed(pes, s, i)
<1> SUFFICES ASSUME NEW i \in 0..n
             PROVE  Assumed(pes, t, i) = Assumed(pes, s, i)
  OBVIOUS
<1>1. \A j \in 1..i : t[j] = s[j]
  OBVIOUS
<1> QED
  BY <1>1 DEF Assumed

\* A call that is not a greatest fixpoint under proof adds no claims.
LEMMA AssumedStep ==
    ASSUME NEW pes, NEW s, NEW n \in Nat \ {0}
    PROVE  /\ Assumed(pes, s, 0) = {}
           /\ Assumed(pes, s, n) = Assumed(pes, s, n - 1) \cup GfpClaims(pes, s[n])
           /\ (s[n].formula.op # "PREDICATE" \/ s[n].next = 0 \/ ~pes.gfp[s[n].formula.pred])
                 => Assumed(pes, s, n) = Assumed(pes, s, n - 1)
           /\ Assumed(pes, s, n) \in SUBSET Claim
<1>1. 1..0 = {} /\ 1..n = (1..(n - 1)) \cup {n}
  OBVIOUS
<1>2. Assumed(pes, s, n) = Assumed(pes, s, n - 1) \cup GfpClaims(pes, s[n])
  BY <1>1 DEF Assumed
<1>3. Assumed(pes, s, 0) = {}
  BY <1>1 DEF Assumed
<1>4. (s[n].formula.op # "PREDICATE" \/ s[n].next = 0 \/ ~pes.gfp[s[n].formula.pred])
         => GfpClaims(pes, s[n]) = {}
  BY DEF GfpClaims
<1>5. Assumed(pes, s, n) \in SUBSET Claim
  BY DEF Assumed, GfpClaims
<1> QED
  BY <1>2, <1>3, <1>4, <1>5

\* The innermost call returns, is replaced, or waits for another.
LEMMA JustifiedReturn ==
    ASSUME NEW pes, NEW s \in Seq(Frame), s # << >>, NEW r, Justified(pes, s, r),
           NEW t \in Seq(Frame), Len(t) = Len(s) - 1, \A i \in 1..(Len(s) - 1) : t[i] = s[i],
           NEW q, q = Valid => Proves(pes, Assumed(pes, s, Len(s) - 1), s[Len(s)])
    PROVE  Justified(pes, t, q)
<1>1. Len(s) \in Nat \ {0} /\ (t = << >> <=> Len(s) = 1)
  BY EmptySeq, LenProperties
<1>2. \A i \in 0..(Len(s) - 1) : Assumed(pes, t, i) = Assumed(pes, s, i)
  <2>1. Len(s) - 1 \in Nat
    BY <1>1
  <2> QED
    BY <2>1, AssumedSame
<1>3. Assumed(pes, s, 0) = {}
  BY <1>1, AssumedStep
<1>4. ASSUME NEW i \in 1..(Len(t) - 1), Proves(pes, Assumed(pes, t, i), t[i + 1])
      PROVE  Proves(pes, Assumed(pes, t, i), Awaited(pes, t[i]))
  <2>1. i \in 1..(Len(s) - 1) /\ i + 1 \in 1..(Len(s) - 1)
    BY <1>1
  <2>2. t[i] = s[i] /\ t[i + 1] = s[i + 1] /\ Assumed(pes, t, i) = Assumed(pes, s, i)
    BY <1>1, <1>2, <2>1
  <2> QED
    BY <1>4, <2>1, <2>2 DEF Justified
<1>5. t # << >> /\ Proves(pes, {}, t[1]) => Proves(pes, {}, Asking(pes))
  <2>1. t # << >> => t[1] = s[1]
    BY <1>1
  <2> QED
    BY <2>1 DEF Justified
<1>6. ASSUME NEW i \in 1..Len(t) PROVE Tried(pes, Assumed(pes, t, i), t[i])
  <2>1. t[i] = s[i] /\ Assumed(pes, t, i) = Assumed(pes, s, i) /\ i \in 1..Len(s)
    BY <1>1, <1>2
  <2> QED
    BY <2>1 DEF Justified
<1>7. q = Valid /\ t = << >> => Proves(pes, {}, Asking(pes))
  BY <1>1, <1>3 DEF Justified
<1>8. ASSUME q = Valid, t # << >>
      PROVE  Proves(pes, Assumed(pes, t, Len(t)), Awaited(pes, t[Len(t)]))
  <2>1. /\ Len(t) \in 1..(Len(s) - 1) /\ Len(t) + 1 = Len(s)
        /\ t[Len(t)] = s[Len(t)] /\ Assumed(pes, t, Len(t)) = Assumed(pes, s, Len(t))
    BY <1>1, <1>2, <1>8
  <2>2. Proves(pes, Assumed(pes, s, Len(t)), s[Len(t) + 1])
    BY <1>8, <2>1
  <2>3. Proves(pes, Assumed(pes, s, Len(t)), Awaited(pes, s[Len(t)]))
    BY <2>1, <2>2 DEF Justified
  <2> QED
    BY <2>1, <2>3
<1> QED
  BY <1>4, <1>5, <1>6, <1>7, <1>8 DEF Justified

LEMMA JustifiedReplace ==
    ASSUME NEW pes, NEW s \in Seq(Frame), s # << >>, NEW r, Justified(pes, s, r),
           NEW t \in Seq(Frame), Len(t) = Len(s), \A i \in 1..(Len(s) - 1) : t[i] = s[i],
           Proves(pes, Assumed(pes, s, Len(s) - 1), t[Len(s)])
              => Proves(pes, Assumed(pes, s, Len(s) - 1), s[Len(s)]),
           Tried(pes, Assumed(pes, t, Len(s)), t[Len(s)]),
           NEW q, q # Valid
    PROVE  Justified(pes, t, q)
<1>1. Len(s) \in Nat \ {0} /\ t # << >>
  BY EmptySeq, LenProperties
<1>2. \A i \in 0..(Len(s) - 1) : Assumed(pes, t, i) = Assumed(pes, s, i)
  <2>1. Len(s) - 1 \in Nat
    BY <1>1
  <2> QED
    BY <2>1, AssumedSame
<1>3. Assumed(pes, s, 0) = {}
  BY <1>1, AssumedStep
<1>4. ASSUME NEW i \in 1..(Len(t) - 1), Proves(pes, Assumed(pes, t, i), t[i + 1])
      PROVE  Proves(pes, Assumed(pes, t, i), Awaited(pes, t[i]))
  <2>1. /\ t[i] = s[i] /\ Assumed(pes, t, i) = Assumed(pes, s, i)
        /\ i + 1 \in 1..(Len(s) - 1) \/ (i = Len(s) - 1 /\ i + 1 = Len(s))
    BY <1>1, <1>2
  <2>2. Proves(pes, Assumed(pes, s, i), s[i + 1])
    BY <1>4, <2>1
  <2> QED
    BY <2>1, <2>2 DEF Justified
<1>5. ASSUME Proves(pes, {}, t[1]) PROVE Proves(pes, {}, Asking(pes))
  <2>1. CASE Len(s) = 1
    <3>1. Len(s) - 1 = 0
      BY <2>1
    <3>2. Proves(pes, {}, s[1])
      BY <1>3, <1>5, <2>1, <3>1
    <3> QED
      BY <3>2 DEF Justified
  <2>2. CASE Len(s) # 1
    <3>1. t[1] = s[1]
      BY <1>1, <2>2
    <3> QED
      BY <1>5, <3>1 DEF Justified
  <2> QED
    BY <2>1, <2>2
<1>6. ASSUME NEW i \in 1..Len(t) PROVE Tried(pes, Assumed(pes, t, i), t[i])
  <2>1. i = Len(s) \/ (t[i] = s[i] /\ Assumed(pes, t, i) = Assumed(pes, s, i) /\ i \in 1..Len(s))
    BY <1>1, <1>2
  <2> QED
    BY <2>1 DEF Justified
<1> QED
  BY <1>4, <1>5, <1>6 DEF Justified

LEMMA JustifiedWait ==
    ASSUME NEW pes, NEW s \in Seq(Frame), s # << >>, NEW r, Justified(pes, s, r),
           NEW t \in Seq(Frame), Len(t) = Len(s) + 1, \A i \in 1..(Len(s) - 1) : t[i] = s[i],
           t[Len(s)].formula = s[Len(s)].formula, t[Len(s)].loc = s[Len(s)].loc,
           t[Len(s)].zone = s[Len(s)].zone,
           t[Len(s) + 1] = Awaited(pes, t[Len(s)]), t[Len(s) + 1].next = 0,
           Tried(pes, Assumed(pes, t, Len(s)), t[Len(s)]),
           NEW q, q # Valid
    PROVE  Justified(pes, t, q)
<1> DEFINE n == Len(s)
<1>1. n \in Nat \ {0} /\ t # << >>
  BY EmptySeq, LenProperties
<1>2. \A i \in 0..(n - 1) : Assumed(pes, t, i) = Assumed(pes, s, i)
  <2>1. n - 1 \in Nat
    BY <1>1
  <2> QED
    BY <2>1, AssumedSame
<1>3. \A H : Proves(pes, H, t[n]) <=> Proves(pes, H, s[n])
  BY DEF Proves
<1>4. ASSUME NEW i \in 1..(Len(t) - 1), Proves(pes, Assumed(pes, t, i), t[i + 1])
      PROVE  Proves(pes, Assumed(pes, t, i), Awaited(pes, t[i]))
  <2>1. CASE i = n
    BY <1>4, <2>1
  <2>2. CASE i # n
    <3>1. t[i] = s[i] /\ Assumed(pes, t, i) = Assumed(pes, s, i) /\ i \in 1..(n - 1)
      BY <1>1, <1>2, <2>2
    <3>2. i + 1 = n \/ t[i + 1] = s[i + 1]
      BY <1>1, <2>2
    <3>3. Proves(pes, Assumed(pes, s, i), s[i + 1])
      BY <1>3, <1>4, <3>1, <3>2
    <3> QED
      BY <3>1, <3>3 DEF Justified
  <2> QED
    BY <2>1, <2>2
<1>5. ASSUME Proves(pes, {}, t[1]) PROVE Proves(pes, {}, Asking(pes))
  <2>1. n = 1 \/ t[1] = s[1]
    <3>1. CASE n # 1
      <4>1. 1 \in 1..(n - 1)
        BY <1>1, <3>1, OneWithin
      <4> QED
        BY <4>1
    <3> QED
      BY <3>1
  <2>2. Proves(pes, {}, s[1])
    BY <1>3, <1>5, <2>1
  <2> QED
    BY <2>2 DEF Justified
<1>6. ASSUME NEW i \in 1..Len(t) PROVE Tried(pes, Assumed(pes, t, i), t[i])
  <2>1. CASE i = n
    BY <2>1
  <2>2. CASE i = n + 1
    <3>1. 1..(t[i].next - 1) = {}
      BY <2>2
    <3> QED
      BY <3>1 DEF Tried
  <2>3. CASE i \in 1..(n - 1)
    <3>1. t[i] = s[i] /\ Assumed(pes, t, i) = Assumed(pes, s, i) /\ i \in 1..n
      BY <1>1, <1>2, <2>3
    <3> QED
      BY <3>1 DEF Justified
  <2> QED
    BY <1>1, <2>1, <2>2, <2>3
<1> QED
  BY <1>4, <1>5, <1>6 DEF Justified

\* The same for the search's own stack.
Search == Justified(input_pes, stack, ret)
Claims == Assumed(input_pes, stack, Len(stack))
CallerClaims == Assumed(input_pes, stack, Len(stack) - 1)

LEMMA ClaimsOfTop ==
    ASSUME TypeOK, stack # << >>
    PROVE  /\ Claims = CallerClaims \cup GfpClaims(input_pes, Top)
           /\ Top.formula.op # "PREDICATE" \/ Top.next = 0 \/ ~input_pes.gfp[Top.formula.pred]
                 => Claims = CallerClaims
           /\ Claims \in SUBSET Claim
           /\ ret = Valid /\ Search => Proves(input_pes, Claims, Awaited(input_pes, Top))
           /\ Search => Tried(input_pes, Claims, Top)
<1>1. Len(stack) \in Nat \ {0}
  BY StackNonempty DEF TypeOK
<1>2. Len(stack) \in 1..Len(stack)
  BY <1>1
<1> QED
  BY <1>1, <1>2, AssumedStep DEF Claims, CallerClaims, Top, Search, Justified

LEMMA SearchReturns ==
    ASSUME TypeOK, stack # << >>, Search, Popped, input_pes' = input_pes, stack' \in Seq(Frame),
           ret' = Valid => Proves(input_pes, CallerClaims, Top)
    PROVE  Search'
<1>1. /\ Len(stack') = Len(stack) - 1
      /\ \A i \in 1..(Len(stack) - 1) : stack'[i] = stack[i]
  BY PoppedStack DEF TypeOK
<1>2. /\ stack \in Seq(Frame)
      /\ Justified(input_pes, stack, ret)
      /\ ret' = Valid => Proves(input_pes, Assumed(input_pes, stack, Len(stack) - 1),
                                stack[Len(stack)])
  BY DEF TypeOK, Search, CallerClaims, Top
<1>3. Justified(input_pes, stack', ret')
  BY <1>1, <1>2, JustifiedReturn
<1> QED
  BY <1>3 DEF Search

LEMMA SearchReplaces ==
    ASSUME TypeOK, stack # << >>, Search, input_pes' = input_pes,
           NEW c \in Frame, Replaced(c), ret' # Valid,
           c.next = 0 \/ c.formula.op # "ALLACT",
           Proves(input_pes, CallerClaims, c) => Proves(input_pes, CallerClaims, Top)
    PROVE  Search'
<1>1. /\ stack' \in Seq(Frame)
      /\ Len(stack') = Len(stack)
      /\ \A i \in 1..(Len(stack) - 1) : stack'[i] = stack[i]
      /\ stack'[Len(stack)] = c
  BY ReplacedStack DEF TypeOK
<1>2. \A H : Tried(input_pes, H, c)
  <2>1. c.next = 0 => 1..(c.next - 1) = {}
    OBVIOUS
  <2> QED
    BY <2>1 DEF Tried
<1>3. /\ stack \in Seq(Frame)
      /\ Justified(input_pes, stack, ret)
      /\ Proves(input_pes, Assumed(input_pes, stack, Len(stack) - 1), stack'[Len(stack)])
            => Proves(input_pes, Assumed(input_pes, stack, Len(stack) - 1), stack[Len(stack)])
      /\ Tried(input_pes, Assumed(input_pes, stack', Len(stack)), stack'[Len(stack)])
  BY <1>1, <1>2 DEF TypeOK, Search, CallerClaims, Top
<1>4. Justified(input_pes, stack', ret')
  BY <1>1, <1>3, JustifiedReplace
<1> QED
  BY <1>4 DEF Search

LEMMA SearchWaits ==
    ASSUME TypeOK, stack # << >>, Search, input_pes' = input_pes,
           NEW fr \in Frame, NEW c \in Fresh, Waits(fr, c), ret' # Valid,
           fr.formula = Top.formula, fr.loc = Top.loc, fr.zone = Top.zone,
           c = Awaited(input_pes, fr),
           Top.formula.op = "ALLACT" => Tried(input_pes, CallerClaims, fr)
    PROVE  Search'
<1>1. /\ stack' \in Seq(Frame)
      /\ Len(stack') = Len(stack) + 1
      /\ \A i \in 1..(Len(stack) - 1) : stack'[i] = stack[i]
      /\ stack'[Len(stack)] = fr
      /\ stack'[Len(stack) + 1] = c
  BY WaitingStack DEF TypeOK, Fresh
<1>2. Len(stack) \in Nat \ {0} /\ Len(stack) - 1 \in Nat /\ Len(stack) - 1 \in 0..(Len(stack) - 1)
  BY StackNonempty DEF TypeOK
<1>3. Assumed(input_pes, stack', Len(stack) - 1) = CallerClaims
  BY <1>1, <1>2, AssumedSame DEF CallerClaims
<1>4. Tried(input_pes, Assumed(input_pes, stack', Len(stack)), fr)
  <2>1. CASE Top.formula.op = "ALLACT"
    <3>1. Assumed(input_pes, stack', Len(stack)) = Assumed(input_pes, stack', Len(stack) - 1)
      BY <1>1, <1>2, <2>1, AssumedStep
    <3> QED
      BY <1>3, <2>1, <3>1
  <2>2. CASE Top.formula.op # "ALLACT"
    BY <2>2 DEF Tried
  <2> QED
    BY <2>1, <2>2
<1>5. /\ stack \in Seq(Frame)
      /\ Justified(input_pes, stack, ret)
      /\ stack'[Len(stack)].formula = stack[Len(stack)].formula
      /\ stack'[Len(stack)].loc = stack[Len(stack)].loc
      /\ stack'[Len(stack)].zone = stack[Len(stack)].zone
      /\ stack'[Len(stack) + 1] = Awaited(input_pes, stack'[Len(stack)])
      /\ stack'[Len(stack) + 1].next = 0
      /\ Tried(input_pes, Assumed(input_pes, stack', Len(stack)), stack'[Len(stack)])
  BY <1>1, <1>4 DEF TypeOK, Search, Top, Fresh
<1>6. Justified(input_pes, stack', ret')
  BY <1>1, <1>5, JustifiedWait
<1> QED
  BY <1>6 DEF Search

LEMMA ConnectiveKeeps ==
    ASSUME TypeOK, TypeOK', Search, Connective, input_pes' = input_pes
    PROVE  Search'
<1> DEFINE H == CallerClaims
           f == Top.formula
           l == Top.loc
           z == Top.zone
           V == Provable(input_pes, H)
<1>1. stack # << >> /\ f.op # "PREDICATE"
  BY ConnectiveMoves DEF IsPredicate
<1>2. Top \in Frame /\ f \in Formula /\ l \in Loc /\ z \in Zone /\ Top.next \in Nat
  BY <1>1, StackNonempty DEF TypeOK, Frame
<1>3. /\ Claims = H
      /\ ret = Valid => Proves(input_pes, H, Awaited(input_pes, Top))
      /\ Tried(input_pes, H, Top)
  BY <1>1, ClaimsOfTop
<1>4. stack' \in Seq(Frame)
  BY DEF TypeOK
<1>5. ASSUME NEW v, Return(v), v = Valid => Proves(input_pes, H, Top)
      PROVE  Search'
  BY <1>1, <1>4, <1>5, SearchReturns DEF Return, Popped
<1>6. ASSUME NEW g \in Formula, NEW m \in Loc, NEW y \in Zone, TailCall(Call(g, m, y)),
             HoldsOn(V, g, m, y) => Proves(input_pes, H, Top)
      PROVE  Search'
  <2> DEFINE c == Call(g, m, y)
  <2>1. c \in Frame /\ c.next = 0
    BY CallIsFresh DEF Fresh
  <2>2. Proves(input_pes, H, c) => Proves(input_pes, H, Top)
    BY <1>6 DEF Proves, Call
  <2>3. Replaced(c) /\ ret' # Valid
    BY <1>6 DEF TailCall, Replaced, Valid
  <2> HIDE DEF c
  <2> QED
    BY <1>1, <2>1, <2>2, <2>3, SearchReplaces
<1>7. ASSUME NEW g \in Formula, NEW m \in Loc, NEW y \in Zone, NEW k \in Nat,
             Descend(k, Call(g, m, y)),
             Call(g, m, y) = Awaited(input_pes, [Top EXCEPT !.next = k]),
             f.op = "ALLACT" => Tried(input_pes, H, [Top EXCEPT !.next = k])
      PROVE  Search'
  <2> DEFINE c == Call(g, m, y)
             fr == [Top EXCEPT !.next = k]
  <2>1. c \in Fresh
    BY CallIsFresh
  <2>2. fr \in Frame /\ fr.formula = f /\ fr.loc = l /\ fr.zone = z
    BY <1>2 DEF Frame
  <2>3. Waits(fr, c) /\ ret' # Valid
    BY <1>7 DEF Descend, Waits, Top, Valid
  <2>4. c = Awaited(input_pes, fr) /\ (f.op = "ALLACT" => Tried(input_pes, H, fr))
    BY <1>7
  <2> HIDE DEF c, fr
  <2> QED
    BY <1>1, <2>1, <2>2, <2>3, <2>4, SearchWaits
<1>8. /\ f.op = "AND" /\ HoldsOn(V, f.left, l, z) /\ HoldsOn(V, f.right, l, z)
            => Proves(input_pes, H, Top)
      /\ f.op = "OR_SIMPLE" /\ (HoldsOn(V, f.left, l, z) \/ HoldsOn(V, f.right, l, z))
            => Proves(input_pes, H, Top)
      /\ f.op = "FORALL" /\ HoldsOn(V, f.quant, l, Elapse(z, l)) => Proves(input_pes, H, Top)
      /\ f.op = "SUBLIST" /\ HoldsOn(V, f.expr, f.map[l], z) => Proves(input_pes, H, Top)
      /\ f.op = "RESET" /\ HoldsOn(V, f.expr, l, Image(f.map, z)) => Proves(input_pes, H, Top)
      /\ f.op = "ATOMIC" /\ l \in f.locs => Proves(input_pes, H, Top)
      /\ f.op = "CONSTRAINT" /\ z \subseteq f.zone => Proves(input_pes, H, Top)
  BY <1>2, ConnectiveRules
<1>9. ASSUME f.op \in {"AND", "OR_SIMPLE"}
      PROVE  /\ f.left \in Formula /\ f.right \in Formula
             /\ Awaited(input_pes, [Top EXCEPT !.next = 1]) = Call(f.left, l, z)
             /\ ret = Valid => HoldsOn(V, f.left, l, z)
  <2>1. Awaited(input_pes, Top) = Call(f.left, l, z)
    BY <1>9 DEF Awaited
  <2>2. f.left \in Formula /\ f.right \in Formula
    BY <1>2, <1>9, FormulaAssumption
  <2>3. DEFINE fr == [Top EXCEPT !.next = 1]
  <2>4. fr.formula = f /\ fr.loc = l /\ fr.zone = z
    BY <1>2 DEF Frame
  <2> HIDE DEF fr
  <2>5. Awaited(input_pes, fr) = Call(f.left, l, z)
    BY <1>9, <2>4 DEF Awaited
  <2>6. ret = Valid => HoldsOn(V, f.left, l, z)
    BY <1>3, <2>1 DEF Proves, Call
  <2> QED
    BY <2>2, <2>5, <2>6 DEF fr
<1>10. Valid # Invalid
  BY DEF Valid, Invalid
<1> HIDE DEF V, H
<1>11. CASE do_proof_and
  BY <1>2, <1>5, <1>6, <1>7, <1>8, <1>9, <1>10, <1>11 DEF do_proof_and
<1>12. CASE do_proof_or_simple
  BY <1>2, <1>5, <1>6, <1>7, <1>8, <1>9, <1>10, <1>12 DEF do_proof_or_simple
<1>13. CASE do_proof_forall
  BY <1>2, <1>6, <1>8, <1>13, ElapseIsZone, FormulaAssumption DEF do_proof_forall
<1>14. CASE do_proof_allact
  <2>1. f.op = "ALLACT" /\ f.quant \in Formula
    BY <1>2, <1>14, FormulaAssumption DEF do_proof_allact
  <2>2. Len(Transitions) \in Nat
    BY AutomatonAssumption, LenProperties
  <2> DEFINE Pending == {k \in (Top.next + 1)..Len(Transitions) : CanTake(Transitions[k], l, z)}
             Proved(k) == CanTake(Transitions[k], l, z)
                             => Proves(input_pes, H, After(Top, Transitions[k]))
  <2>3. ASSUME Entering \/ (Resuming /\ ret = Valid)
        PROVE  \A k \in 1..Top.next : Proved(k)
    <3>1. CASE Entering
      BY <3>1 DEF Entering
    <3>2. CASE Resuming /\ ret = Valid
      <4>1. Proves(input_pes, H, After(Top, Transitions[Top.next]))
        BY <1>3, <2>1, <3>2 DEF Awaited
      <4>2. \A k \in 1..(Top.next - 1) : Proved(k)
        BY <1>3, <2>1 DEF Tried
      <4>3. \A k \in 1..Top.next : k = Top.next \/ k \in 1..(Top.next - 1)
        BY <1>2
      <4> QED
        BY <4>1, <4>2, <4>3
    <3> QED
      BY <2>3, <3>1, <3>2
  <2>4. CASE (Entering \/ (Resuming /\ ret = Valid)) /\ Pending = {} /\ Return(Valid)
    <3>1. \A k \in 1..Len(Transitions) : k \in 1..Top.next \/ k \in (Top.next + 1)..Len(Transitions)
      BY <1>2, <2>2
    <3>2. \A k \in 1..Len(Transitions) : Proved(k)
      BY <2>3, <2>4, <3>1
    <3>3. Proves(input_pes, H, Top)
      BY <1>2, <2>1, <3>2, AllactRule
    <3> QED
      BY <1>5, <2>4, <3>3
  <2>5. ASSUME NEW k \in Pending, Entering \/ (Resuming /\ ret = Valid),
               \A j \in Pending : k <= j, Descend(k, AfterTransition(Transitions[k]))
        PROVE  Search'
    <3> DEFINE t == Transitions[k]
               fr == [Top EXCEPT !.next = k]
    <3>1. k \in 1..Len(Transitions) /\ k \in Nat
      BY <1>2, <2>2, <2>5
    <3>2. t.dest \in [Loc -> Loc] /\ t.reset \in [Point -> Point]
      BY <3>1, TransitionTypes
    <3>3. EnabledPart(t, l, z) \in Zone
      BY <1>2 DEF EnabledPart, Zone
    <3>4. Image(t.reset, Bound[EnabledPart(t, l, z)]) \in Zone /\ t.dest[l] \in Loc
      BY <1>2, <3>2, <3>3, ImageIsZone, AutomatonAssumption
    <3>5. /\ fr.formula = f /\ fr.loc = l /\ fr.zone = z /\ fr.next = k
      BY <1>2 DEF Frame
    <3>6. \A j \in 1..Len(Transitions) : After(fr, Transitions[j]) = After(Top, Transitions[j])
      BY <3>5 DEF After
    <3>7. AfterTransition(t) = After(Top, t)
      BY DEF AfterTransition, After
    <3>8. \A j \in 1..(k - 1) :
             j \in 1..Len(Transitions) /\ (j \in 1..Top.next \/ j \in (Top.next + 1)..Len(Transitions))
      BY <1>2, <2>2, <3>1
    <3>9. \A j \in 1..(k - 1) : j \notin Pending
      BY <2>2, <2>5, <3>1
    <3>10. \A j \in 1..(k - 1) : Proved(j)
      BY <2>3, <2>5, <3>8, <3>9
    <3>11. Tried(input_pes, H, fr)
      BY <2>1, <3>5, <3>6, <3>8, <3>10 DEF Tried
    <3>12. Awaited(input_pes, fr) = After(Top, t)
      BY <2>1, <3>1, <3>5, <3>6 DEF Awaited
    <3> QED
      BY <1>7, <2>1, <2>5, <3>1, <3>4, <3>7, <3>11, <3>12 DEF After
  <2>6. CASE Resuming /\ Return(Invalid)
    BY <1>5, <1>10, <2>6
  <2> QED
    BY <1>14, <2>4, <2>5, <2>6 DEF do_proof_allact
<1>15. CASE do_proof_imply
  <2>1. /\ f.op = "IMPLY" /\ f.left \in [locs : SUBSET Loc, zone : Zone] /\ f.right \in Formula
    BY <1>2, <1>15, FormulaAssumption DEF do_proof_imply
  <2>2. Bound[z \cap f.left.zone] \in Zone
    BY <1>2, <2>1, AutomatonAssumption DEF Zone
  <2>3. (comp_ph(z, f.left, l) => HoldsOn(V, f.right, l, Bound[z \cap f.left.zone]))
           => Proves(input_pes, H, Top)
    BY <1>2, <2>1, ImplyRule DEF V
  <2> QED
    BY <1>2, <1>5, <1>6, <1>15, <2>1, <2>2, <2>3 DEF do_proof_imply
<1>16. CASE do_proof_sublist
  <2>1. f.op = "SUBLIST" /\ f.map[l] \in Loc /\ f.expr \in Formula
    BY <1>2, <1>16, FormulaAssumption DEF do_proof_sublist
  <2> QED
    BY <1>2, <1>6, <1>8, <1>16, <2>1 DEF do_proof_sublist
<1>17. CASE do_proof_reset
  <2>1. f.op = "RESET" /\ f.map \in [Point -> Point] /\ f.expr \in Formula
    BY <1>2, <1>17, FormulaAssumption DEF do_proof_reset
  <2>2. Image(f.map, z) \in Zone
    BY <1>2, <2>1, ImageIsZone
  <2> QED
    BY <1>2, <1>6, <1>8, <1>17, <2>1, <2>2 DEF do_proof_reset
<1>19. CASE do_proof_atomic
  <2>1. f.op = "ATOMIC" /\ Return(Verdict(l \in f.locs))
    BY <1>19 DEF do_proof_atomic
  <2>2. Verdict(l \in f.locs) = Valid => l \in f.locs
    BY <1>10 DEF Verdict
  <2> QED
    BY <1>5, <1>8, <2>1, <2>2
<1>20. CASE do_proof_constraint
  <2>1. f.op = "CONSTRAINT" /\ Return(Verdict(z \subseteq f.zone))
    BY <1>20 DEF do_proof_constraint
  <2>2. Verdict(z \subseteq f.zone) = Valid => z \subseteq f.zone
    BY <1>10 DEF Verdict
  <2> QED
    BY <1>5, <1>8, <2>1, <2>2
<1>21. CASE do_proof_ablewaitinf
  <2> DEFINE able == (f.op = "ABLEWAITINF") <=> TimeDiverges(z, l)
  <2>1. f.op \in {"ABLEWAITINF", "UNABLEWAITINF"} /\ Return(Verdict(able))
    BY <1>21 DEF do_proof_ablewaitinf
  <2>2. Verdict(able) = Valid => able
    BY <1>10 DEF Verdict
  <2>3. able => Proves(input_pes, H, Top)
    BY <1>2, <2>1, WaitRule
  <2> HIDE DEF able
  <2> QED
    BY <1>5, <2>1, <2>2, <2>3
<1> QED
  BY <1>11, <1>12, <1>13, <1>14, <1>15, <1>16, <1>17, <1>19, <1>20, <1>21 DEF Connective, Search

\* A circularity of a greatest fixpoint asks for claims already made.
LEMMA CircularityIsClaimed ==
    ASSUME TypeOK, OwnNumbers, CyclesAreOpenCalls, stack # << >>, IsPredicate(Top), Top.next = 0,
           IsGfp(Top), GfpCycle(bin, Top.zone)
    PROVE  \A p \in Top.zone : <<Top.formula.pred, Top.loc, p>> \in CallerClaims
<1>1. /\ bin \in Bin /\ Top.zone \in Zone /\ Top.loc \in Loc /\ Top.formula.pred \in Predicate
  BY TopPredicate
<1>2. PICK z \in Pushed(Xlist_pGFP[bin].dbms) : Top.zone \subseteq z
  BY DEF GfpCycle, tabled_sequent
<1>3. Pushed(Cycle(TRUE, bin)) = {stack[i].zone : i \in OpenIn(TRUE, bin)}
  BY <1>1 DEF CyclesAreOpenCalls
<1>4. PICK i \in OpenIn(TRUE, bin) : z = stack[i].zone
  BY <1>2, <1>3 DEF Cycle
<1> DEFINE fr == stack[i]
<1>5. /\ i \in 1..Len(stack) /\ Open(fr) /\ IsGfp(fr) /\ BinOf(fr) = bin
      /\ Len(stack) \in Nat \ {0}
  BY <1>4, StackNonempty DEF OpenIn, TypeOK
<1>6. i # Len(stack)
  BY <1>5 DEF Open, Top
<1>7. i \in 1..(Len(stack) - 1)
  BY <1>5, <1>6
<1>8. fr \in Frame
  BY <1>5, ElementOfSeq DEF TypeOK
<1>9. fr.formula.op = "PREDICATE" /\ fr.formula.pred \in Predicate
  BY <1>5, <1>8, FormulaAssumption DEF Open, IsPredicate, Frame
<1>10. /\ input_pes.block[fr.formula.pred] = input_pes.block[Top.formula.pred]
       /\ fr.loc = Top.loc
  BY <1>5 DEF bin, BinOf, get_index
<1>11. fr.formula.pred = Top.formula.pred
  BY <1>1, <1>9, <1>10 DEF OwnNumbers
<1>12. ASSUME NEW p \in Top.zone
       PROVE  <<Top.formula.pred, Top.loc, p>> \in GfpClaims(input_pes, fr)
  <2>1. p \in fr.zone /\ p \in Point
    BY <1>1, <1>2, <1>4, <1>12 DEF Zone
  <2>2. <<Top.formula.pred, Top.loc, p>> \in Claim
    BY <1>1, <2>1 DEF Claim
  <2> QED
    BY <1>5, <1>9, <1>10, <1>11, <2>1, <2>2 DEF GfpClaims, Open, IsGfp
<1> QED
  BY <1>7, <1>12 DEF CallerClaims, Assumed

LEMMA CircularityProves ==
    ASSUME TypeOK, OwnNumbers, CyclesAreOpenCalls, GfpCircularity
    PROVE  Proves(input_pes, CallerClaims, Top)
<1> DEFINE H == CallerClaims
           f == Top.formula
           V == Provable(input_pes, H)
<1>1. /\ stack # << >> /\ IsPredicate(Top) /\ Top.next = 0 /\ IsGfp(Top)
      /\ GfpCycle(bin, Top.zone)
  BY DEF GfpCircularity, EnterPredicate, Entering, completes_gfp_cycle
<1>2. /\ f.pred \in Predicate /\ Top.loc \in Loc /\ Top.zone \in SUBSET Point
      /\ f \in PlaceFormula /\ f.op = "PREDICATE"
  BY <1>1, TopPredicate, FormulasArePlaced DEF Zone, IsPredicate
<1>3. \A p \in Top.zone : <<f.pred, Top.loc, p>> \in H
  BY <1>1, CircularityIsClaimed
<1>4. \A p \in Top.zone : Follows(input_pes, H, V, f, Top.loc, p)
  BY <1>1, <1>2, <1>3 DEF Follows, IsGfp
<1> QED
  BY <1>2, <1>4, StepOn DEF Proves

\* A predicate whose right-hand side succeeds is proved, and what was proved
\* from its claims no longer needs them.
LEMMA LeavingProves ==
    ASSUME TypeOK, Search, LeavePredicate, ret = Valid
    PROVE  /\ Proves(input_pes, CallerClaims, Top)
           /\ Provable(input_pes, Claims) \subseteq Provable(input_pes, CallerClaims)
<1> DEFINE H == CallerClaims
           f == Top.formula
           V == Provable(input_pes, H)
           rhs == input_pes.rhs[f.pred]
<1>1. stack # << >> /\ IsPredicate(Top) /\ Top.next # 0
  BY PredicateMoves DEF do_proof_predicate, Left
<1>2. /\ Top \in Frame /\ f \in Formula /\ f.pred \in Predicate /\ Top.loc \in Loc
      /\ Top.zone \in SUBSET Point /\ f \in PlaceFormula /\ f.op = "PREDICATE"
  BY <1>1, TopPredicate, FormulasArePlaced DEF Zone, IsPredicate
<1>3. Proves(input_pes, Claims, Call(rhs, Top.loc, Top.zone))
  BY <1>1, <1>2, ClaimsOfTop DEF Awaited
<1>4. \A p \in Top.zone : <<rhs, Top.loc, p>> \in Provable(input_pes, Claims)
  BY <1>3 DEF Proves, HoldsOn, Call
<1>5. CASE ~input_pes.gfp[f.pred]
  <2>1. Claims = H
    BY <1>1, <1>5, ClaimsOfTop
  <2>2. rhs \in Formula
    BY <1>2, SystemsAssumption DEF TypeOK
  <2>3. \A p \in Top.zone : p \in At(V, rhs, Top.loc)
    BY <1>2, <1>4, <2>1 DEF At
  <2>4. \A p \in Top.zone : Follows(input_pes, H, V, f, Top.loc, p)
    BY <1>2, <1>5, <2>3 DEF Follows
  <2> QED
    BY <1>2, <2>1, <2>4, StepOn DEF Proves
<1>6. CASE input_pes.gfp[f.pred]
  <2> DEFINE Q == GfpClaims(input_pes, Top)
  <2>1. Claims = H \cup Q /\ Q \in SUBSET Claim
    BY <1>1, ClaimsOfTop DEF GfpClaims
  <2>2. \A e \in Q : <<input_pes.rhs[e[1]], e[2], e[3]>> \in Provable(input_pes, H \cup Q)
    BY <1>4, <2>1 DEF GfpClaims
  <2>3. /\ Q \subseteq Supportable(input_pes, H)
        /\ Provable(input_pes, H \cup Q) \subseteq Provable(input_pes, H)
    BY <2>1, <2>2, Discharge
  <2>4. ASSUME NEW p \in Top.zone
        PROVE  Follows(input_pes, Supportable(input_pes, H), V, f, Top.loc, p)
    <3>1. <<f.pred, Top.loc, p>> \in Claim
      BY <1>2 DEF Claim
    <3>2. <<f.pred, Top.loc, p>> \in Q
      BY <1>1, <1>2, <1>6, <3>1 DEF GfpClaims
    <3> QED
      BY <1>2, <1>6, <2>3, <3>2 DEF Follows
  <2>5. Proves(input_pes, H, Top)
    BY <1>2, <2>4, ProvableStep DEF Proves, HoldsOn
  <2> QED
    BY <2>1, <2>3, <2>5
<1> QED
  BY <1>5, <1>6

\* What the known-true table answers is taken on trust here.
LEMMA PredicateKeeps ==
    ASSUME TypeOK, TypeOK', Search, KnownTrueHit => Proves(input_pes, CallerClaims, Top),
           OwnNumbers, CyclesAreOpenCalls, do_proof_predicate, input_pes' = input_pes
    PROVE  Search'
<1> DEFINE H == CallerClaims
           f == Top.formula
           rhs == input_pes.rhs[f.pred]
<1>1. stack # << >> /\ IsPredicate(Top)
  BY PredicateMoves
<1>2. /\ Top \in Frame /\ f \in Formula /\ f.pred \in Predicate /\ Top.loc \in Loc
      /\ f.op = "PREDICATE"
  BY <1>1, TopPredicate DEF IsPredicate
<1>3. stack' \in Seq(Frame)
  BY DEF TypeOK
<1>4. Valid # Invalid /\ Valid # "none"
  BY DEF Valid, Invalid
<1>5. ASSUME Popped, ret' = Valid => Proves(input_pes, H, Top)
      PROVE  Search'
  BY <1>1, <1>3, <1>5, SearchReturns
<1>6. CASE KnownFalseHit \/ LfpCircularity
  BY <1>4, <1>5, <1>6 DEF KnownFalseHit, LfpCircularity, Return, Popped
<1>7. CASE KnownTrueHit
  BY <1>5, <1>7 DEF KnownTrueHit, Return, Popped
<1>8. CASE GfpCircularity
  BY <1>5, <1>8, CircularityProves DEF GfpCircularity, Return, Popped
<1>9. CASE UnfoldGfp \/ UnfoldLfp
  <2> DEFINE fr == [Top EXCEPT !.next = 1, !.saved = parentRef]
             c == Call(rhs, Top.loc, Top.zone)
  <2>1. Waits(fr, c) /\ ret' = "none"
    BY <1>9, PredicateMoves DEF Unfolded
  <2>2. fr \in Frame /\ c \in Fresh
    BY <1>1, UnfoldedTypes
  <2>3. fr.formula = f /\ fr.loc = Top.loc /\ fr.zone = Top.zone
    BY <1>2 DEF Frame
  <2> HIDE DEF fr
  <2>4. c = Awaited(input_pes, fr)
    BY <1>2, <2>3 DEF Awaited
  <2> HIDE DEF c
  <2> QED
    BY <1>1, <1>2, <1>4, <2>1, <2>2, <2>3, <2>4, SearchWaits
<1>10. CASE LeavePredicate
  <2>1. Popped /\ ret' = ret
    BY <1>10, PredicateMoves DEF Left
  <2> QED
    BY <1>5, <1>10, <2>1, LeavingProves
<1> QED
  BY <1>6, <1>7, <1>8, <1>9, <1>10 DEF do_proof_predicate

LEMMA SearchStarts == Init => Search
<1> SUFFICES ASSUME Init PROVE Search
  OBVIOUS
<1> DEFINE c == Asking(input_pes)
<1>1. stack = <<c>> /\ c.next = 0 /\ ret # Valid
  BY DEF Init, Asking, Call, Valid
<1> HIDE DEF c
<1>2. Len(stack) = 1 /\ stack[1] = c
  BY <1>1
<1>3. \A i \in 1..Len(stack) : Tried(input_pes, Assumed(input_pes, stack, i), stack[i])
  <2>1. \A i \in 1..Len(stack) : stack[i] = c
    BY <1>2
  <2>2. 1..(c.next - 1) = {}
    BY <1>1
  <2> QED
    BY <2>1, <2>2 DEF Tried
<1>4. 1..(Len(stack) - 1) = {}
  BY <1>2
<1> QED
  BY <1>1, <1>2, <1>3, <1>4 DEF Search, Justified, c

SoundInv == TypeOK /\ CyclesInv /\ (~useCaching /\ OwnNumbers => Search)

LEMMA NextSearch == SoundInv /\ [Next]_vars => SoundInv'
<1> SUFFICES ASSUME SoundInv, [Next]_vars PROVE SoundInv'
  OBVIOUS
<1>1. TypeOK' /\ CyclesInv'
  BY NextTypes, NextCycles DEF SoundInv
<1>2. ASSUME ~useCaching', OwnNumbers' PROVE Search'
  <2>1. CASE Next
    <3>1. input_pes' = input_pes
      BY <2>1, PredicateMoves DEF Next, SoundInv
    <3>2. ~useCaching /\ OwnNumbers
      BY <1>2, <3>1 DEF useCaching, OwnNumbers
    <3>3. Search /\ CyclesAreOpenCalls
      BY <3>2 DEF SoundInv, CyclesInv
    <3>4. ~KnownTrueHit
      BY <3>2 DEF KnownTrueHit
    <3> QED
      BY <1>1, <2>1, <3>1, <3>2, <3>3, <3>4, ConnectiveKeeps, PredicateKeeps DEF Next, SoundInv
  <2>2. CASE UNCHANGED vars
    BY <1>2, <2>2 DEF vars, SoundInv, useCaching, OwnNumbers, Search
  <2> QED
    BY <2>1, <2>2
<1> QED
  BY <1>1, <1>2 DEF SoundInv

LEMMA SearchAnswers == Search => ValidHolds
<1>1. Search /\ ret = Valid /\ stack = << >> => Proves(input_pes, {}, Asking(input_pes))
  BY DEF Search, Justified
<1>2. Proves(input_pes, {}, Asking(input_pes))
         => HoldsOn(Truths(input_pes), input_pes.start, input_pes.loc, input_pes.zone)
  BY DEF Proves, Asking, Call, Truths
<1> QED
  BY <1>1, <1>2 DEF ValidHolds, Done

\* The search without placeholders never proves what is false, as long as it
\* uses no verdict table and every equation has its own number: a circularity
\* counts as a proof for greatest fixpoints only, and only below the sequent
\* that it repeats.
THEOREM ValidIsRight == Spec => [](~useCaching /\ OwnNumbers => ValidHolds)
<1>1. Init => SoundInv
  BY InitTypes, InitCycles, SearchStarts DEF SoundInv
<1>2. SoundInv => (~useCaching /\ OwnNumbers => ValidHolds)
  BY SearchAnswers DEF SoundInv
<1> QED
  BY <1>1, <1>2, NextSearch, PTL DEF Spec

-----------------------------------------------------------------------------
(***************************************************************************)
(* Derivations that may not unfold the least fixpoints of the claims F:    *)
(* those under proof, below which the same claim counts as refuted.        *)
(***************************************************************************)

FollowsBut(s, F, G, V, f, l, p) ==
    /\ Follows(s, G, V, f, l, p)
    /\ f.op = "PREDICATE" /\ ~s.gfp[f.pred] => <<f.pred, l, p>> \notin F

ClosedBut(s, F, G) ==
    {V \in SUBSET Judgement :
        \A f \in PlaceFormula, l \in Loc, p \in Point :
            FollowsBut(s, F, G, V, f, l, p) => <<f, l, p>> \in V}
DerivableBut(s, F, G) ==
    LET closed == ClosedBut(s, F, G) IN {j \in Judgement : \A V \in closed : j \in V}
SupportedBut(s, F, E) ==
    LET derivable == DerivableBut(s, F, E)
    IN  \A e \in E : <<s.rhs[e[1]], e[2], e[3]>> \in derivable
SupportableBut(s, F) == UNION {E \in SUBSET Claim : SupportedBut(s, F, E)}
TruthsBut(s, F) == DerivableBut(s, F, SupportableBut(s, F))

LEMMA DerivableButClosed ==
    ASSUME NEW s, NEW F, NEW G
    PROVE  /\ DerivableBut(s, F, G) \in ClosedBut(s, F, G)
           /\ \A V \in ClosedBut(s, F, G) : DerivableBut(s, F, G) \subseteq V
<1> DEFINE D == DerivableBut(s, F, G)
<1>1. D \subseteq Judgement /\ \A V \in ClosedBut(s, F, G) : D \subseteq V
  BY DEF DerivableBut
<1>2. ASSUME NEW f \in PlaceFormula, NEW l \in Loc, NEW p \in Point,
             FollowsBut(s, F, G, D, f, l, p)
      PROVE  <<f, l, p>> \in D
  <2>1. ASSUME NEW V \in ClosedBut(s, F, G) PROVE <<f, l, p>> \in V
    <3>1. Follows(s, G, V, f, l, p)
      BY <1>1, <1>2, FollowsMonotone DEF FollowsBut
    <3>2. FollowsBut(s, F, G, V, f, l, p)
      BY <1>2, <3>1 DEF FollowsBut
    <3> QED
      BY <3>2 DEF ClosedBut
  <2> QED
    BY <2>1 DEF DerivableBut, Judgement
<1> HIDE DEF D
<1>3. D \in ClosedBut(s, F, G)
  BY <1>1, <1>2 DEF ClosedBut
<1> QED
  BY <1>1, <1>3 DEF D

LEMMA InversionBut ==
    ASSUME NEW s, NEW F, NEW G, NEW f \in PlaceFormula, NEW l \in Loc, NEW p \in Point,
           <<f, l, p>> \in DerivableBut(s, F, G)
    PROVE  FollowsBut(s, F, G, DerivableBut(s, F, G), f, l, p)
<1> DEFINE D == DerivableBut(s, F, G)
           Lasting == {j \in D : FollowsBut(s, F, G, D, j[1], j[2], j[3])}
<1>1. D \in ClosedBut(s, F, G) /\ \A V \in ClosedBut(s, F, G) : D \subseteq V
  BY DerivableButClosed
<1>2. Lasting \subseteq D /\ D \subseteq Judgement
  BY <1>1 DEF ClosedBut
<1>3. ASSUME NEW g \in PlaceFormula, NEW m \in Loc, NEW q \in Point,
             FollowsBut(s, F, G, Lasting, g, m, q)
      PROVE  <<g, m, q>> \in Lasting
  <2>1. Follows(s, G, D, g, m, q)
    BY <1>2, <1>3, FollowsMonotone DEF FollowsBut
  <2>2. FollowsBut(s, F, G, D, g, m, q)
    BY <1>3, <2>1 DEF FollowsBut
  <2>3. <<g, m, q>> \in D
    BY <1>1, <2>2 DEF ClosedBut
  <2> QED
    BY <2>2, <2>3
<1> HIDE DEF Lasting
<1>4. Lasting \in ClosedBut(s, F, G)
  BY <1>2, <1>3 DEF ClosedBut
<1>5. <<f, l, p>> \in Lasting
  BY <1>1, <1>4
<1> QED
  BY <1>5 DEF Lasting

LEMMA DerivableButMonotone ==
    ASSUME NEW s, NEW F, NEW G, NEW H, G \subseteq H
    PROVE  DerivableBut(s, F, G) \subseteq DerivableBut(s, F, H)
<1>1. ASSUME NEW V \in ClosedBut(s, F, H) PROVE V \in ClosedBut(s, F, G)
  <2>1. ASSUME NEW f \in PlaceFormula, NEW l \in Loc, NEW p \in Point,
               FollowsBut(s, F, G, V, f, l, p)
        PROVE  <<f, l, p>> \in V
    <3>1. Follows(s, H, V, f, l, p)
      BY <2>1, FollowsMonotone DEF FollowsBut
    <3>2. FollowsBut(s, F, H, V, f, l, p)
      BY <2>1, <3>1 DEF FollowsBut
    <3> QED
      BY <3>2 DEF ClosedBut
  <2> QED
    BY <2>1 DEF ClosedBut
<1> QED
  BY <1>1, DerivableButClosed

LEMMA SupportableIsSupportedBut ==
    ASSUME NEW s, NEW F
    PROVE  SupportableBut(s, F) \in SUBSET Claim /\ SupportedBut(s, F, SupportableBut(s, F))
<1> DEFINE S == SupportableBut(s, F)
<1>1. S \in SUBSET Claim
  BY DEF SupportableBut
<1>2. ASSUME NEW e \in S
      PROVE  <<s.rhs[e[1]], e[2], e[3]>> \in DerivableBut(s, F, S)
  <2>1. PICK E \in SUBSET Claim : e \in E /\ SupportedBut(s, F, E)
    BY DEF SupportableBut
  <2>2. E \subseteq S
    BY <2>1 DEF SupportableBut
  <2>3. DerivableBut(s, F, E) \subseteq DerivableBut(s, F, S)
    BY <2>2, DerivableButMonotone
  <2> QED
    BY <2>1, <2>3 DEF SupportedBut
<1> QED
  BY <1>1, <1>2 DEF SupportedBut

\* With nothing under proof they are the derivations of Truth.
LEMMA NothingBlocked ==
    ASSUME NEW s
    PROVE  TruthsBut(s, {}) = Truths(s)
<1>1. \A G, V, f, l, p : FollowsBut(s, {}, G, V, f, l, p) <=> Follows(s, G, V, f, l, p)
  BY DEF FollowsBut
<1>2. \A G : ClosedBut(s, {}, G) = Closed(s, G)
  BY <1>1 DEF ClosedBut, Closed
<1>3. \A G : DerivableBut(s, {}, G) = Derivable(s, G)
  BY <1>2 DEF DerivableBut, Derivable
<1>4. \A E : E \cup {} = E
  OBVIOUS
<1>5. \A E : SupportedBut(s, {}, E) <=> Supported(s, {}, E)
  BY <1>3, <1>4 DEF SupportedBut, Supported
<1>6. SupportableBut(s, {}) = Supportable(s, {})
  BY <1>5 DEF SupportableBut, Supportable
<1> QED
  BY <1>3, <1>4, <1>6 DEF TruthsBut, Truths, Provable

\* A step uses what is judged of the operands, or of the right-hand side, and
\* nothing else.
LEMMA FollowsWithin ==
    ASSUME NEW s, NEW fs, NEW g, NEW l, NEW p, NEW G, NEW E, NEW V, NEW W,
           IF g.op = "PREDICATE" THEN s.rhs[g.pred] \in fs ELSE Operands(g) \subseteq fs,
           \A h \in fs, m \in Loc, q \in Point : <<h, m, q>> \in V => <<h, m, q>> \in W,
           l \in Loc,
           g.op = "SUBLIST" => g.map[l] \in Loc,
           g.op = "PREDICATE" /\ s.gfp[g.pred] /\ <<g.pred, l, p>> \in G => <<g.pred, l, p>> \in E,
           Follows(s, G, V, g, l, p)
    PROVE  Follows(s, E, W, g, l, p)
<1>1. ASSUME NEW h \in fs, NEW m \in Loc PROVE At(V, h, m) \subseteq At(W, h, m)
  BY DEF At
<1>2. g.op \in {"AND", "OR", "OR_SIMPLE", "EXISTS_REL", "FORALL_REL"}
         => /\ At(V, g.left, l) \subseteq At(W, g.left, l)
            /\ At(V, g.right, l) \subseteq At(W, g.right, l)
  BY <1>1 DEF Operands
<1>3. g.op \in {"FORALL", "EXISTS", "ALLACT", "EXISTACT"}
         => \A m \in Loc : At(V, g.quant, m) \subseteq At(W, g.quant, m)
  BY <1>1 DEF Operands
<1>4. /\ g.op = "IMPLY" => At(V, g.right, l) \subseteq At(W, g.right, l)
      /\ g.op = "SUBLIST" => At(V, g.expr, g.map[l]) \subseteq At(W, g.expr, g.map[l])
      /\ g.op = "RESET" => At(V, g.expr, l) \subseteq At(W, g.expr, l)
      /\ g.op = "PREDICATE" => At(V, s.rhs[g.pred], l) \subseteq At(W, s.rhs[g.pred], l)
  BY <1>1 DEF Operands
<1>5. \A k \in DOMAIN Transitions : Transitions[k].dest[l] \in Loc
  <2>1. DOMAIN Transitions = 1..Len(Transitions)
    BY AutomatonAssumption
  <2> QED
    BY <2>1, TransitionTypes
<1> HIDE DEF At
<1>6. \A first, second, first2, second2 :
         first \subseteq first2 /\ second \subseteq second2 /\ Until(first, second, l, p)
            => Until(first2, second2, l, p)
  BY DEF Until
<1>7. CASE g.op = "PREDICATE"
  BY <1>4, <1>7 DEF Follows
<1>8. CASE g.op \in {"AND", "OR", "OR_SIMPLE"}
  BY <1>2, <1>8 DEF Follows
<1>9. CASE g.op \in {"EXISTS_REL", "FORALL_REL"}
  <2>1. /\ At(V, g.left, l) \subseteq At(W, g.left, l)
        /\ At(V, g.right, l) \subseteq At(W, g.right, l)
        /\ At(V, g.left, l) \cap At(V, g.right, l) \subseteq At(W, g.left, l) \cap At(W, g.right, l)
    BY <1>2, <1>9
  <2>2. /\ Until(At(V, g.left, l), At(V, g.right, l), l, p)
              => Until(At(W, g.left, l), At(W, g.right, l), l, p)
        /\ Until(At(V, g.right, l), At(V, g.left, l) \cap At(V, g.right, l), l, p)
              => Until(At(W, g.right, l), At(W, g.left, l) \cap At(W, g.right, l), l, p)
    BY <1>6, <2>1
  <2> QED
    BY <1>9, <2>1, <2>2 DEF Follows
<1>10. CASE g.op \in {"FORALL", "EXISTS", "ALLACT", "EXISTACT"}
  BY <1>3, <1>5, <1>10 DEF Follows
<1>11. CASE g.op \in {"IMPLY", "SUBLIST", "RESET"}
  BY <1>4, <1>11 DEF Follows
<1>12. CASE g.op \in {"ATOMIC", "CONSTRAINT", "ABLEWAITINF", "UNABLEWAITINF"}
  BY <1>12 DEF Follows
<1> QED
  BY <1>7, <1>8, <1>9, <1>10, <1>11, <1>12 DEF Follows

\* The more is blocked, the less can be derived.
LEMMA BlockedDerivesLess ==
    ASSUME NEW s, NEW E, NEW F, E \subseteq F
    PROVE  /\ \A G : DerivableBut(s, F, G) \subseteq DerivableBut(s, E, G)
           /\ TruthsBut(s, F) \subseteq TruthsBut(s, E)
<1>1. ASSUME NEW G PROVE DerivableBut(s, F, G) \subseteq DerivableBut(s, E, G)
  <2>1. \A V, f, l, p : FollowsBut(s, F, G, V, f, l, p) => FollowsBut(s, E, G, V, f, l, p)
    BY DEF FollowsBut
  <2>2. ClosedBut(s, E, G) \subseteq ClosedBut(s, F, G)
    BY <2>1 DEF ClosedBut
  <2> QED
    BY <2>2, DerivableButClosed
<1> DEFINE S == SupportableBut(s, F)
<1>2. S \in SUBSET Claim /\ SupportedBut(s, F, S)
  BY SupportableIsSupportedBut
<1> HIDE DEF S
<1>3. SupportedBut(s, E, S)
  BY <1>1, <1>2 DEF SupportedBut
<1>4. S \subseteq SupportableBut(s, E)
  BY <1>2, <1>3 DEF SupportableBut
<1>5. DerivableBut(s, E, S) \subseteq TruthsBut(s, E)
  BY <1>4, DerivableButMonotone DEF TruthsBut
<1>6. TruthsBut(s, F) = DerivableBut(s, F, S)
  BY DEF TruthsBut, S
<1> QED
  BY <1>1, <1>5, <1>6

\* Claims that are false may be blocked: nothing is derived from them.
LEMMA Withheld ==
    ASSUME NEW s, NEW F, NEW C,
           \A f \in PlaceFormula, l \in Loc, p \in Point :
              f.op = "PREDICATE" /\ <<f.pred, l, p>> \in C => <<f, l, p>> \notin TruthsBut(s, F)
    PROVE  TruthsBut(s, F) \subseteq TruthsBut(s, F \cup C)
<1> DEFINE S == SupportableBut(s, F)
           D == DerivableBut(s, F, S)
           W == DerivableBut(s, F \cup C, S)
<1>1. S \in SUBSET Claim /\ SupportedBut(s, F, S) /\ TruthsBut(s, F) = D
  BY SupportableIsSupportedBut DEF TruthsBut
<1>2. /\ D \in ClosedBut(s, F, S) /\ \A V \in ClosedBut(s, F, S) : D \subseteq V
      /\ W \in ClosedBut(s, F \cup C, S) /\ W \subseteq D
  BY DerivableButClosed, BlockedDerivesLess
<1> HIDE DEF S, D, W
<1>3. ASSUME NEW f \in PlaceFormula, NEW l \in Loc, NEW p \in Point,
             FollowsBut(s, F, S, W, f, l, p)
      PROVE  <<f, l, p>> \in W
  <2>1. Follows(s, S, D, f, l, p)
    BY <1>2, <1>3, FollowsMonotone DEF FollowsBut
  <2>2. FollowsBut(s, F, S, D, f, l, p)
    BY <1>3, <2>1 DEF FollowsBut
  <2>3. <<f, l, p>> \in D
    BY <1>2, <2>2 DEF ClosedBut
  <2>4. FollowsBut(s, F \cup C, S, W, f, l, p)
    BY <1>1, <1>3, <2>3 DEF FollowsBut
  <2> QED
    BY <1>2, <2>4 DEF ClosedBut
<1>4. W \in ClosedBut(s, F, S)
  BY <1>2, <1>3 DEF ClosedBut
<1>5. D = W
  BY <1>2, <1>4
<1>6. SupportedBut(s, F \cup C, S)
  BY <1>1, <1>5 DEF SupportedBut, D, W
<1>7. S \subseteq SupportableBut(s, F \cup C)
  BY <1>1, <1>6 DEF SupportableBut
<1>8. W \subseteq TruthsBut(s, F \cup C)
  BY <1>7, DerivableButMonotone DEF TruthsBut, W
<1> QED
  BY <1>1, <1>5, <1>8

\* Two formulas that name one equation are refuted alike.
LEMMA SamePredicateBut ==
    ASSUME NEW s, NEW F, NEW f \in PlaceFormula, NEW g \in PlaceFormula,
           f.op = "PREDICATE", g.op = "PREDICATE", f.pred = g.pred,
           NEW l \in Loc, NEW p \in Point, <<f, l, p>> \in TruthsBut(s, F)
    PROVE  <<g, l, p>> \in TruthsBut(s, F)
<1> DEFINE S == SupportableBut(s, F)
           D == DerivableBut(s, F, S)
<1>1. TruthsBut(s, F) = D
  BY DEF TruthsBut
<1>2. FollowsBut(s, F, S, D, f, l, p)
  BY <1>1, InversionBut
<1>3. FollowsBut(s, F, S, D, g, l, p)
  BY <1>2 DEF FollowsBut, Follows
<1> HIDE DEF S
<1>4. D \in ClosedBut(s, F, S)
  BY DerivableButClosed
<1>5. <<g, l, p>> \in D
  BY <1>3, <1>4 DEF ClosedBut
<1> QED
  BY <1>1, <1>5

\* Formulas that do not lead to X are judged the same when claims of X are
\* blocked, and so are the greatest fixpoints that lead to such formulas only.
LEMMA ClaimsApart ==
    ASSUME NEW s, NEW F, NEW X, NEW C, \A c \in C : c[1] = X,
           NEW fs \in SUBSET Formula, Hereditary(s, fs), ~Occurs(X, fs),
           NEW e \in SupportableBut(s, F), s.rhs[e[1]] \in fs
    PROVE  e \in SupportableBut(s, F \cup C)
<1> DEFINE G == SupportableBut(s, F)
           E == {c \in G : s.rhs[c[1]] \in fs}
           D == DerivableBut(s, F \cup C, E)
           V == {j \in Judgement : j[1] \in fs => j \in D}
<1>1. G \in SUBSET Claim /\ SupportedBut(s, F, G)
  BY SupportableIsSupportedBut
<1>2. D \in ClosedBut(s, F \cup C, E)
  BY DerivableButClosed
<1> HIDE DEF G, D
<1>3. ASSUME NEW g \in PlaceFormula, NEW l \in Loc, NEW p \in Point,
             FollowsBut(s, F, G, V, g, l, p)
      PROVE  <<g, l, p>> \in V
  <2>1. ASSUME g \in fs PROVE <<g, l, p>> \in D
    <3>1. IF g.op = "PREDICATE" THEN s.rhs[g.pred] \in fs ELSE Operands(g) \subseteq fs
      BY <2>1 DEF Hereditary
    <3>2. g.op = "SUBLIST" => g.map[l] \in Loc
      BY <2>1, FormulaAssumption
    <3>3. g.op = "PREDICATE" /\ s.gfp[g.pred] /\ <<g.pred, l, p>> \in G
             => <<g.pred, l, p>> \in E
      BY <3>1
    <3>4. \A h \in fs, m \in Loc, q \in Point : <<h, m, q>> \in V => <<h, m, q>> \in D
      OBVIOUS
    <3>5. Follows(s, G, V, g, l, p)
      BY <1>3 DEF FollowsBut
    <3> HIDE DEF E, V
    <3>6. Follows(s, E, D, g, l, p)
      BY <3>1, <3>2, <3>3, <3>4, <3>5, FollowsWithin
    <3>7. g.op = "PREDICATE" => g.pred # X
      BY <2>1 DEF Occurs
    <3>8. g.op = "PREDICATE" /\ ~s.gfp[g.pred] => <<g.pred, l, p>> \notin F \cup C
      BY <1>3, <3>7 DEF FollowsBut
    <3>9. FollowsBut(s, F \cup C, E, D, g, l, p)
      BY <3>6, <3>8 DEF FollowsBut
    <3> QED
      BY <1>2, <3>9 DEF ClosedBut
  <2> QED
    BY <2>1 DEF Judgement
<1>4. V \in ClosedBut(s, F, G)
  <2>1. V \in SUBSET Judgement
    OBVIOUS
  <2> HIDE DEF V
  <2> QED
    BY <1>3, <2>1 DEF ClosedBut
<1>5. DerivableBut(s, F, G) \subseteq V
  BY <1>4, DerivableButClosed
<1>6. \A c \in E : <<s.rhs[c[1]], c[2], c[3]>> \in D
  BY <1>1, <1>5 DEF SupportedBut
<1>7. E \in SUBSET Claim /\ e \in E
  BY <1>1 DEF G
<1> HIDE DEF E
<1>8. SupportedBut(s, F \cup C, E)
  BY <1>6 DEF SupportedBut, D
<1> QED
  BY <1>7, <1>8 DEF SupportableBut

\* The rule for least fixpoints: a claim is refuted if its right-hand side is
\* when the claim itself may not be unfolded again.
LEMMA LfpRefuted ==
    ASSUME NEW s, NEW F, NEW f \in Formula, f.op = "PREDICATE", ~s.gfp[f.pred],
           NEW below \in [Predicate -> SUBSET Formula],
           \A X \in Predicate : LeadsInto(s, X, below[X]), Unmixed(s, below),
           NEW l \in Loc, NEW p \in Point, NEW C, C \subseteq {<<f.pred, l, p>>},
           <<s.rhs[f.pred], l, p>> \notin TruthsBut(s, F \cup C)
    PROVE  <<f, l, p>> \notin TruthsBut(s, F)
<1> DEFINE X == f.pred
           G == SupportableBut(s, F)
           H == SupportableBut(s, F \cup C)
           D == DerivableBut(s, F \cup C, H)
           fs == below[X]
           V == {j \in Judgement : (j[1] \in fs => j \in D) /\ j # <<f, l, p>>}
<1>1. /\ X \in Predicate /\ f \in PlaceFormula
      /\ fs \in SUBSET Formula /\ Hereditary(s, fs) /\ s.rhs[X] \in fs
  BY FormulaAssumption, FormulasArePlaced DEF LeadsInto
<1>2. D \in ClosedBut(s, F \cup C, H) /\ <<s.rhs[X], l, p>> \notin D
  BY DerivableButClosed DEF TruthsBut
<1>3. G \in SUBSET Claim
  BY SupportableIsSupportedBut
<1>4. ASSUME NEW g \in fs, g.op = "PREDICATE", s.gfp[g.pred],
             NEW m \in Loc, NEW q \in Point, <<g.pred, m, q>> \in G
      PROVE  <<g.pred, m, q>> \in H
  <2> DEFINE e == <<g.pred, m, q>>
  <2>1. g.pred \in Predicate /\ Occurs(g.pred, fs)
    BY <1>1, <1>4, FormulaAssumption DEF Occurs
  <2>2. ~Occurs(X, below[g.pred])
    BY <1>1, <1>4, <2>1 DEF Unmixed
  <2>3. /\ below[g.pred] \in SUBSET Formula /\ Hereditary(s, below[g.pred])
        /\ s.rhs[e[1]] \in below[g.pred] /\ e \in SupportableBut(s, F)
    BY <1>4, <2>1 DEF LeadsInto
  <2>4. \A c \in C : c[1] = X
    OBVIOUS
  <2> HIDE DEF e, X
  <2>5. e \in SupportableBut(s, F \cup C)
    BY <2>2, <2>3, <2>4, ClaimsApart
  <2> QED
    BY <2>5 DEF e
<1> HIDE DEF G, H, D, fs
<1>5. ASSUME NEW g \in PlaceFormula, NEW m \in Loc, NEW q \in Point,
             FollowsBut(s, F, G, V, g, m, q)
      PROVE  <<g, m, q>> \in V
  <2>1. Follows(s, G, V, g, m, q)
    BY <1>5 DEF FollowsBut
  <2>2. ~(g.op = "PREDICATE" /\ g.pred = X /\ m = l /\ q = p)
    <3>1. SUFFICES ASSUME g.op = "PREDICATE", g.pred = X, m = l, q = p PROVE FALSE
      OBVIOUS
    <3>2. q \in At(V, s.rhs[X], m)
      BY <2>1, <3>1 DEF Follows
    <3>3. <<s.rhs[X], l, p>> \in V
      BY <3>1, <3>2 DEF At
    <3> QED
      BY <1>1, <1>2, <3>3
  <2>3. ASSUME g \in fs PROVE <<g, m, q>> \in D
    <3>1. IF g.op = "PREDICATE" THEN s.rhs[g.pred] \in fs ELSE Operands(g) \subseteq fs
      BY <1>1, <2>3 DEF Hereditary
    <3>2. g.op = "SUBLIST" => g.map[m] \in Loc
      BY <1>1, <2>3, FormulaAssumption
    <3>3. g.op = "PREDICATE" /\ s.gfp[g.pred] /\ <<g.pred, m, q>> \in G
             => <<g.pred, m, q>> \in H
      BY <1>4, <2>3
    <3>4. \A h \in fs, n \in Loc, r \in Point : <<h, n, r>> \in V => <<h, n, r>> \in D
      OBVIOUS
    <3> HIDE DEF V
    <3>5. Follows(s, H, D, g, m, q)
      BY <2>1, <3>1, <3>2, <3>3, <3>4, FollowsWithin
    <3>6. g.op = "PREDICATE" /\ ~s.gfp[g.pred] => <<g.pred, m, q>> \notin F \cup C
      BY <1>5, <2>2 DEF FollowsBut
    <3>7. FollowsBut(s, F \cup C, H, D, g, m, q)
      BY <3>5, <3>6 DEF FollowsBut
    <3> QED
      BY <1>2, <3>7 DEF ClosedBut
  <2>4. <<g, m, q>> # <<f, l, p>>
    BY <2>2
  <2> QED
    BY <2>3, <2>4 DEF Judgement
<1>6. V \in ClosedBut(s, F, G)
  <2>1. V \in SUBSET Judgement
    OBVIOUS
  <2> HIDE DEF V
  <2> QED
    BY <1>5, <2>1 DEF ClosedBut
<1>7. DerivableBut(s, F, G) \subseteq V
  BY <1>6, DerivableButClosed
<1> QED
  BY <1>7 DEF TruthsBut, G

-----------------------------------------------------------------------------
(***************************************************************************)
(* The rules of do_proof backwards: where a sequent is true, so is what    *)
(* its rule asks for.                                                      *)
(***************************************************************************)

Believed(pes, F, c) == HoldsOn(TruthsBut(pes, F), c.formula, c.loc, c.zone)

LEMMA StepBack ==
    ASSUME NEW pes, NEW F, NEW f \in PlaceFormula, NEW l \in Loc, NEW z \in SUBSET Point,
           HoldsOn(TruthsBut(pes, F), f, l, z), NEW p \in z
    PROVE  FollowsBut(pes, F, SupportableBut(pes, F), TruthsBut(pes, F), f, l, p)
<1>1. <<f, l, p>> \in DerivableBut(pes, F, SupportableBut(pes, F)) /\ p \in Point
  BY DEF HoldsOn, TruthsBut
<1> QED
  BY <1>1, InversionBut DEF TruthsBut

LEMMA ConnectivesBack ==
    ASSUME NEW pes, NEW F, NEW fr \in Frame, Believed(pes, F, fr),
           \A z \in Zone : Bound[z] = z
    PROVE  LET f == fr.formula
               l == fr.loc
               z == fr.zone
               V == TruthsBut(pes, F)
           IN  /\ f.op = "AND" => HoldsOn(V, f.left, l, z) /\ HoldsOn(V, f.right, l, z)
               /\ f.op = "FORALL" => HoldsOn(V, f.quant, l, Elapse(z, l))
               /\ f.op = "SUBLIST" => HoldsOn(V, f.expr, f.map[l], z)
               /\ f.op = "RESET" => HoldsOn(V, f.expr, l, Image(f.map, z))
               /\ f.op = "IMPLY" /\ comp_ph(z, f.left, l)
                     => HoldsOn(V, f.right, l, Bound[z \cap f.left.zone])
               /\ f.op = "ATOMIC" /\ z # {} => l \in f.locs
               /\ f.op = "CONSTRAINT" => z \subseteq f.zone
               /\ f.op = "ABLEWAITINF" => TimeDiverges(z, l)
               /\ f.op = "UNABLEWAITINF" /\ z # {} => ~TimeDiverges(z, l)
<1> DEFINE f == fr.formula
           l == fr.loc
           z == fr.zone
           V == TruthsBut(pes, F)
           G == SupportableBut(pes, F)
<1>1. /\ f \in PlaceFormula /\ l \in Loc /\ z \in SUBSET Point /\ z \in Zone
  BY FormulasArePlaced DEF Frame, Zone
<1>2. \A p \in z : Follows(pes, G, V, f, l, p)
  BY <1>1, StepBack DEF FollowsBut, Believed
<1> HIDE DEF V, G
<1>3. \A g, m, p : p \in At(V, g, m) => <<g, m, p>> \in V
  BY DEF At
<1>4. f.op = "AND" => HoldsOn(V, f.left, l, z) /\ HoldsOn(V, f.right, l, z)
  BY <1>2, <1>3 DEF Follows, HoldsOn
<1>5. ASSUME f.op = "FORALL" PROVE HoldsOn(V, f.quant, l, Elapse(z, l))
  <2>1. \A p \in z : Later[p] \cap Inv[l] \subseteq At(V, f.quant, l)
    BY <1>2, <1>5 DEF Follows
  <2> QED
    BY <1>3, <2>1 DEF Elapse, HoldsOn
<1>6. f.op = "SUBLIST" => HoldsOn(V, f.expr, f.map[l], z)
  BY <1>2, <1>3 DEF Follows, HoldsOn
<1>7. ASSUME f.op = "RESET" PROVE HoldsOn(V, f.expr, l, Image(f.map, z))
  <2>1. \A p \in z : f.map[p] \in At(V, f.expr, l)
    BY <1>2, <1>7 DEF Follows
  <2> QED
    BY <1>3, <2>1 DEF Image, HoldsOn
<1>8. ASSUME f.op = "IMPLY", comp_ph(z, f.left, l)
      PROVE  HoldsOn(V, f.right, l, Bound[z \cap f.left.zone])
  <2>1. \A p \in z : l \in f.left.locs /\ p \in f.left.zone => p \in At(V, f.right, l)
    BY <1>2, <1>8 DEF Follows
  <2>2. l \in f.left.locs
    BY <1>8 DEF comp_ph
  <2>3. Bound[z \cap f.left.zone] = z \cap f.left.zone
    BY <1>1 DEF Zone
  <2> QED
    BY <1>3, <2>1, <2>2, <2>3 DEF HoldsOn
<1>9. /\ f.op = "ATOMIC" /\ z # {} => l \in f.locs
      /\ f.op = "CONSTRAINT" => z \subseteq f.zone
  BY <1>2 DEF Follows
<1>10. /\ f.op = "ABLEWAITINF" => TimeDiverges(z, l)
       /\ f.op = "UNABLEWAITINF" /\ z # {} => ~TimeDiverges(z, l)
  <2>1. /\ f.op = "ABLEWAITINF" => \A p \in z : Later[p] \cap Inv[l] \cap Beyond # {}
        /\ f.op = "UNABLEWAITINF" => \A p \in z : Later[p] \cap Inv[l] \cap Beyond = {}
    BY <1>2 DEF Follows
  <2> QED
    BY <2>1 DEF Elapse, TimeDiverges
<1> QED
  BY <1>4, <1>5, <1>6, <1>7, <1>8, <1>9, <1>10 DEF V

LEMMA AllactBack ==
    ASSUME NEW pes, NEW F, NEW fr \in Frame, fr.formula.op = "ALLACT", Believed(pes, F, fr),
           \A z \in Zone : Bound[z] = z,
           NEW k \in 1..Len(Transitions), CanTake(Transitions[k], fr.loc, fr.zone)
    PROVE  Believed(pes, F, After(fr, Transitions[k]))
<1> DEFINE f == fr.formula
           l == fr.loc
           z == fr.zone
           V == TruthsBut(pes, F)
           t == Transitions[k]
           part == EnabledPart(t, l, z)
<1>1. /\ f \in PlaceFormula /\ l \in Loc /\ z \in SUBSET Point
      /\ k \in DOMAIN Transitions
  BY FormulasArePlaced, AutomatonAssumption DEF Frame, Zone
<1>2. Bound[part] = part
  BY <1>1 DEF EnabledPart, Zone
<1>3. l \in t.guard.locs
  BY DEF CanTake, comp_ph
<1>4. ASSUME NEW p \in part PROVE <<f.quant, t.dest[l], t.reset[p]>> \in V
  <2>1. p \in z /\ Takes(t, l, p)
    BY <1>1, <1>3, <1>4, EnabledPartExact DEF Takes
  <2>2. Follows(pes, SupportableBut(pes, F), V, f, l, p)
    BY <1>1, <2>1, StepBack DEF FollowsBut, Believed
  <2> HIDE DEF V
  <2>3. t.reset[p] \in At(V, f.quant, t.dest[l])
    BY <1>1, <2>1, <2>2 DEF Follows
  <2> QED
    BY <2>3 DEF At
<1> HIDE DEF V, part
<1>5. HoldsOn(V, f.quant, t.dest[l], Image(t.reset, part))
  BY <1>4 DEF HoldsOn, Image
<1> QED
  BY <1>2, <1>5 DEF V, Believed, After, Call, part

\* Neither side of the disjunction holds on the zone, and the zone need not be
\* split.
LEMMA OrSimpleBack ==
    ASSUME NEW pes, NEW F, NEW searched, NEW fr \in Frame, fr.formula.op = "OR_SIMPLE",
           fr.formula \in searched, Undivided(pes, searched), fr.zone # {}, Believed(pes, F, fr)
    PROVE  \/ HoldsOn(TruthsBut(pes, F), fr.formula.left, fr.loc, fr.zone)
           \/ HoldsOn(TruthsBut(pes, F), fr.formula.right, fr.loc, fr.zone)
<1> DEFINE f == fr.formula
           l == fr.loc
           z == fr.zone
           V == TruthsBut(pes, F)
<1>1. /\ f \in PlaceFormula /\ l \in Loc /\ z \in SUBSET Point
      /\ f.left \in PlaceFormula /\ f.right \in PlaceFormula
  BY FormulasArePlaced, FormulaAssumption DEF Frame, Zone
<1>2. ASSUME NEW p \in z PROVE <<f.left, l, p>> \in V \/ <<f.right, l, p>> \in V
  <2>1. Follows(pes, SupportableBut(pes, F), V, f, l, p)
    BY <1>1, StepBack DEF FollowsBut, Believed
  <2> HIDE DEF V
  <2>2. p \in At(V, f.left, l) \cup At(V, f.right, l)
    BY <2>1 DEF Follows
  <2> QED
    BY <2>2 DEF At
<1>3. PICK q \in z : TRUE
  OBVIOUS
<1>4. CASE \A p, r \in Point : p = r
  <2>1. \A p \in z : p = q
    BY <1>1, <1>4
  <2> QED
    BY <1>2, <1>3, <2>1 DEF HoldsOn
<1>5. ASSUME NEW g \in {f.left, f.right}, g.op = "ATOMIC",
             NEW p \in z, <<g, l, p>> \in V, NEW r \in z
      PROVE  <<g, l, r>> \in V
  <2>1. g \in PlaceFormula /\ p \in Point /\ r \in Point
    BY <1>1
  <2>2. FollowsBut(pes, F, SupportableBut(pes, F), V, g, l, p)
    BY <1>1, <1>5, <2>1, InversionBut DEF TruthsBut
  <2>3. DerivableBut(pes, F, SupportableBut(pes, F))
           \in ClosedBut(pes, F, SupportableBut(pes, F))
    BY DerivableButClosed
  <2>4. V \in ClosedBut(pes, F, SupportableBut(pes, F))
    BY <2>3 DEF TruthsBut
  <2> HIDE DEF V
  <2>5. l \in g.locs
    BY <1>5, <2>2 DEF FollowsBut, Follows
  <2>6. FollowsBut(pes, F, SupportableBut(pes, F), V, g, l, r)
    BY <1>5, <2>5 DEF FollowsBut, Follows
  <2> QED
    BY <1>1, <2>1, <2>4, <2>6 DEF ClosedBut
<1>6. CASE "ATOMIC" \in {f.left.op, f.right.op}
  <2> HIDE DEF V
  <2>1. PICK g \in {f.left, f.right} : g.op = "ATOMIC"
    BY <1>6
  <2>2. CASE \E p \in z : <<g, l, p>> \in V
    <3>1. \A r \in z : <<g, l, r>> \in V
      BY <1>5, <2>1, <2>2
    <3> QED
      BY <3>1 DEF HoldsOn, V
  <2>3. CASE \A p \in z : <<g, l, p>> \notin V
    <3>1. CASE g = f.left
      BY <1>2, <2>3, <3>1 DEF HoldsOn, V
    <3>2. CASE g = f.right
      BY <1>2, <2>3, <3>2 DEF HoldsOn, V
    <3> QED
      BY <3>1, <3>2
  <2> QED
    BY <2>2, <2>3
<1> QED
  BY <1>4, <1>6 DEF Undivided

-----------------------------------------------------------------------------
(***************************************************************************)
(* The calls of do_proof again: if one is refuted so is the one above it,  *)
(* while the least fixpoints under proof may not be unfolded.              *)
(***************************************************************************)

LfpClaims(pes, fr) ==
    {c \in Claim : /\ fr.formula.op = "PREDICATE" /\ fr.next # 0
                   /\ fr.formula.pred = c[1] /\ ~pes.gfp[c[1]]
                   /\ fr.loc = c[2] /\ c[3] \in fr.zone}
Blocked(pes, st, n) == UNION {LfpClaims(pes, st[i]) : i \in 1..n}

Refuting(pes, st, r) ==
    /\ \A i \in 1..(Len(st) - 1) :
          Believed(pes, Blocked(pes, st, i), Awaited(pes, st[i]))
             => Believed(pes, Blocked(pes, st, i), st[i + 1])
    /\ st # << >> /\ Believed(pes, {}, Asking(pes)) => Believed(pes, {}, st[1])
    /\ r = Invalid /\ st = << >> => ~Believed(pes, {}, Asking(pes))
    /\ r = Invalid /\ st # << >>
          => ~Believed(pes, Blocked(pes, st, Len(st)), Awaited(pes, st[Len(st)]))

LEMMA BlockedSame ==
    ASSUME NEW pes, NEW s, NEW t, NEW n \in Nat, \A i \in 1..n : t[i] = s[i]
    PROVE  \A i \in 0..n : Blocked(pes, t, i) = Blocked(pes, s, i)
<1> SUFFICES ASSUME NEW i \in 0..n
             PROVE  Blocked(pes, t, i) = Blocked(pes, s, i)
  OBVIOUS
<1>1. \A j \in 1..i : t[j] = s[j]
  OBVIOUS
<1> QED
  BY <1>1 DEF Blocked

\* A call that is not a least fixpoint under proof blocks nothing.
LEMMA BlockedStep ==
    ASSUME NEW pes, NEW s, NEW n \in Nat \ {0}
    PROVE  /\ Blocked(pes, s, 0) = {}
           /\ Blocked(pes, s, n) = Blocked(pes, s, n - 1) \cup LfpClaims(pes, s[n])
           /\ (s[n].formula.op # "PREDICATE" \/ s[n].next = 0 \/ pes.gfp[s[n].formula.pred])
                 => Blocked(pes, s, n) = Blocked(pes, s, n - 1)
<1>1. 1..0 = {} /\ 1..n = (1..(n - 1)) \cup {n}
  OBVIOUS
<1>2. Blocked(pes, s, n) = Blocked(pes, s, n - 1) \cup LfpClaims(pes, s[n])
  BY <1>1 DEF Blocked
<1>3. Blocked(pes, s, 0) = {}
  BY <1>1 DEF Blocked
<1>4. (s[n].formula.op # "PREDICATE" \/ s[n].next = 0 \/ pes.gfp[s[n].formula.pred])
         => LfpClaims(pes, s[n]) = {}
  BY DEF LfpClaims
<1> QED
  BY <1>2, <1>3, <1>4

LEMMA RefutingReturn ==
    ASSUME NEW pes, NEW s \in Seq(Frame), s # << >>, NEW r, Refuting(pes, s, r),
           NEW t \in Seq(Frame), Len(t) = Len(s) - 1, \A i \in 1..(Len(s) - 1) : t[i] = s[i],
           NEW q, q = Invalid => ~Believed(pes, Blocked(pes, s, Len(s) - 1), s[Len(s)])
    PROVE  Refuting(pes, t, q)
<1>1. Len(s) \in Nat \ {0} /\ (t = << >> <=> Len(s) = 1)
  BY EmptySeq, LenProperties
<1>2. \A i \in 0..(Len(s) - 1) : Blocked(pes, t, i) = Blocked(pes, s, i)
  <2>1. Len(s) - 1 \in Nat
    BY <1>1
  <2> QED
    BY <2>1, BlockedSame
<1>3. Blocked(pes, s, 0) = {}
  BY <1>1, BlockedStep
<1>4. ASSUME NEW i \in 1..(Len(t) - 1),
             Believed(pes, Blocked(pes, t, i), Awaited(pes, t[i]))
      PROVE  Believed(pes, Blocked(pes, t, i), t[i + 1])
  <2>1. i \in 1..(Len(s) - 1) /\ i + 1 \in 1..(Len(s) - 1)
    BY <1>1
  <2>2. t[i] = s[i] /\ t[i + 1] = s[i + 1] /\ Blocked(pes, t, i) = Blocked(pes, s, i)
    BY <1>1, <1>2, <2>1
  <2> QED
    BY <1>4, <2>1, <2>2 DEF Refuting
<1>5. t # << >> /\ Believed(pes, {}, Asking(pes)) => Believed(pes, {}, t[1])
  <2>1. t # << >> => t[1] = s[1]
    BY <1>1
  <2> QED
    BY <2>1 DEF Refuting
<1>6. q = Invalid /\ t = << >> => ~Believed(pes, {}, Asking(pes))
  BY <1>1, <1>3 DEF Refuting
<1>7. ASSUME q = Invalid, t # << >>
      PROVE  ~Believed(pes, Blocked(pes, t, Len(t)), Awaited(pes, t[Len(t)]))
  <2>1. /\ Len(t) \in 1..(Len(s) - 1) /\ Len(t) + 1 = Len(s)
        /\ t[Len(t)] = s[Len(t)] /\ Blocked(pes, t, Len(t)) = Blocked(pes, s, Len(t))
    BY <1>1, <1>2, <1>7
  <2>2. ~Believed(pes, Blocked(pes, s, Len(t)), s[Len(t) + 1])
    BY <1>7, <2>1
  <2>3. ~Believed(pes, Blocked(pes, s, Len(t)), Awaited(pes, s[Len(t)]))
    BY <2>1, <2>2 DEF Refuting
  <2> QED
    BY <2>1, <2>3
<1> QED
  BY <1>4, <1>5, <1>6, <1>7 DEF Refuting

LEMMA RefutingReplace ==
    ASSUME NEW pes, NEW s \in Seq(Frame), s # << >>, NEW r, Refuting(pes, s, r),
           NEW t \in Seq(Frame), Len(t) = Len(s), \A i \in 1..(Len(s) - 1) : t[i] = s[i],
           Believed(pes, Blocked(pes, s, Len(s) - 1), s[Len(s)])
              => Believed(pes, Blocked(pes, s, Len(s) - 1), t[Len(s)]),
           NEW q, q # Invalid
    PROVE  Refuting(pes, t, q)
<1>1. Len(s) \in Nat \ {0} /\ t # << >>
  BY EmptySeq, LenProperties
<1>2. \A i \in 0..(Len(s) - 1) : Blocked(pes, t, i) = Blocked(pes, s, i)
  <2>1. Len(s) - 1 \in Nat
    BY <1>1
  <2> QED
    BY <2>1, BlockedSame
<1>3. Blocked(pes, s, 0) = {}
  BY <1>1, BlockedStep
<1>4. ASSUME NEW i \in 1..(Len(t) - 1),
             Believed(pes, Blocked(pes, t, i), Awaited(pes, t[i]))
      PROVE  Believed(pes, Blocked(pes, t, i), t[i + 1])
  <2>1. /\ t[i] = s[i] /\ Blocked(pes, t, i) = Blocked(pes, s, i)
        /\ i + 1 \in 1..(Len(s) - 1) \/ (i = Len(s) - 1 /\ i + 1 = Len(s))
    BY <1>1, <1>2
  <2>2. Believed(pes, Blocked(pes, s, i), s[i + 1])
    BY <1>4, <2>1 DEF Refuting
  <2> QED
    BY <2>1, <2>2
<1>5. ASSUME Believed(pes, {}, Asking(pes)) PROVE Believed(pes, {}, t[1])
  <2>1. Believed(pes, {}, s[1])
    BY <1>5 DEF Refuting
  <2>2. CASE Len(s) = 1
    <3>1. Len(s) - 1 = 0
      BY <2>2
    <3> QED
      BY <1>3, <2>1, <2>2, <3>1
  <2>3. CASE Len(s) # 1
    <3>1. t[1] = s[1]
      BY <1>1, <2>3
    <3> QED
      BY <2>1, <3>1
  <2> QED
    BY <2>2, <2>3
<1> QED
  BY <1>1, <1>4, <1>5 DEF Refuting

LEMMA RefutingWait ==
    ASSUME NEW pes, NEW s \in Seq(Frame), s # << >>, NEW r, Refuting(pes, s, r),
           NEW t \in Seq(Frame), Len(t) = Len(s) + 1, \A i \in 1..(Len(s) - 1) : t[i] = s[i],
           t[Len(s)].formula = s[Len(s)].formula, t[Len(s)].loc = s[Len(s)].loc,
           t[Len(s)].zone = s[Len(s)].zone,
           t[Len(s) + 1] = Awaited(pes, t[Len(s)]),
           NEW q, q # Invalid
    PROVE  Refuting(pes, t, q)
<1> DEFINE n == Len(s)
<1>1. n \in Nat \ {0} /\ t # << >>
  BY EmptySeq, LenProperties
<1>2. \A i \in 0..(n - 1) : Blocked(pes, t, i) = Blocked(pes, s, i)
  <2>1. n - 1 \in Nat
    BY <1>1
  <2> QED
    BY <2>1, BlockedSame
<1>3. \A F : Believed(pes, F, t[n]) <=> Believed(pes, F, s[n])
  BY DEF Believed
<1>4. ASSUME NEW i \in 1..(Len(t) - 1),
             Believed(pes, Blocked(pes, t, i), Awaited(pes, t[i]))
      PROVE  Believed(pes, Blocked(pes, t, i), t[i + 1])
  <2>1. CASE i = n
    BY <1>4, <2>1
  <2>2. CASE i # n
    <3>1. t[i] = s[i] /\ Blocked(pes, t, i) = Blocked(pes, s, i) /\ i \in 1..(n - 1)
      BY <1>1, <1>2, <2>2
    <3>2. i + 1 = n \/ t[i + 1] = s[i + 1]
      BY <1>1, <2>2
    <3>3. Believed(pes, Blocked(pes, s, i), s[i + 1])
      BY <1>4, <3>1 DEF Refuting
    <3> QED
      BY <1>3, <3>1, <3>2, <3>3
  <2> QED
    BY <2>1, <2>2
<1>5. ASSUME Believed(pes, {}, Asking(pes)) PROVE Believed(pes, {}, t[1])
  <2>1. Believed(pes, {}, s[1])
    BY <1>5 DEF Refuting
  <2>2. CASE n = 1
    BY <1>3, <2>1, <2>2
  <2>3. CASE n # 1
    <3>1. 1 \in 1..(n - 1)
      BY <1>1, <2>3, OneWithin
    <3> QED
      BY <2>1, <3>1
  <2> QED
    BY <2>2, <2>3
<1> QED
  BY <1>1, <1>4, <1>5 DEF Refuting

\* The search's own stack, of sequents of the formulas searched, on zones that
\* are not empty.
Met(searched, c) == c.formula \in searched /\ c.zone # {} /\ c.zone \subseteq Inv[c.loc]
\* ALLACT waits for a transition that it found it can take.
Taking(c) ==
    c.formula.op = "ALLACT" /\ c.next # 0
       => /\ c.next \in 1..Len(Transitions)
          /\ CanTake(Transitions[c.next], c.loc, c.zone)
Refutation(searched) ==
    /\ \A i \in 1..Len(stack) : Met(searched, stack[i]) /\ Taking(stack[i])
    /\ Refuting(input_pes, stack, ret)
NowBlocked == Blocked(input_pes, stack, Len(stack))
CallerBlocked == Blocked(input_pes, stack, Len(stack) - 1)

LEMMA BlockedOfTop ==
    ASSUME TypeOK, stack # << >>, NEW searched, Refutation(searched)
    PROVE  /\ NowBlocked = CallerBlocked \cup LfpClaims(input_pes, Top)
           /\ Top.formula.op # "PREDICATE" \/ Top.next = 0 \/ input_pes.gfp[Top.formula.pred]
                 => NowBlocked = CallerBlocked
           /\ ret = Invalid => ~Believed(input_pes, NowBlocked, Awaited(input_pes, Top))
           /\ Met(searched, Top) /\ Taking(Top)
<1>1. Len(stack) \in Nat \ {0} /\ Len(stack) \in 1..Len(stack)
  BY StackNonempty DEF TypeOK
<1> QED
  BY <1>1, BlockedStep DEF NowBlocked, CallerBlocked, Top, Refutation, Refuting

LEMMA RefutationReturns ==
    ASSUME TypeOK, stack # << >>, NEW searched, Refutation(searched),
           Popped, input_pes' = input_pes, stack' \in Seq(Frame),
           ret' = Invalid => ~Believed(input_pes, CallerBlocked, Top)
    PROVE  Refutation(searched)'
<1>1. /\ Len(stack') = Len(stack) - 1
      /\ \A i \in 1..(Len(stack) - 1) : stack'[i] = stack[i]
      /\ Len(stack) \in Nat \ {0}
  BY PoppedStack, StackNonempty DEF TypeOK
<1>2. /\ stack \in Seq(Frame)
      /\ Refuting(input_pes, stack, ret)
      /\ ret' = Invalid => ~Believed(input_pes, Blocked(input_pes, stack, Len(stack) - 1),
                                     stack[Len(stack)])
  BY DEF TypeOK, Refutation, CallerBlocked, Top
<1>3. Refuting(input_pes, stack', ret')
  BY <1>1, <1>2, RefutingReturn
<1>4. \A i \in 1..Len(stack') : Met(searched, stack'[i]) /\ Taking(stack'[i])
  BY <1>1 DEF Refutation
<1> QED
  BY <1>3, <1>4 DEF Refutation

LEMMA RefutationReplaces ==
    ASSUME TypeOK, stack # << >>, NEW searched, Refutation(searched), input_pes' = input_pes,
           NEW c \in Fresh, Replaced(c), ret' # Invalid, Met(searched, c),
           Believed(input_pes, CallerBlocked, Top) => Believed(input_pes, CallerBlocked, c)
    PROVE  Refutation(searched)'
<1>1. /\ stack' \in Seq(Frame)
      /\ Len(stack') = Len(stack)
      /\ \A i \in 1..(Len(stack) - 1) : stack'[i] = stack[i]
      /\ stack'[Len(stack)] = c
      /\ Len(stack) \in Nat \ {0}
  BY ReplacedStack, StackNonempty DEF TypeOK, Fresh
<1>2. /\ stack \in Seq(Frame)
      /\ Refuting(input_pes, stack, ret)
      /\ Believed(input_pes, Blocked(input_pes, stack, Len(stack) - 1), stack[Len(stack)])
            => Believed(input_pes, Blocked(input_pes, stack, Len(stack) - 1), stack'[Len(stack)])
  BY <1>1 DEF TypeOK, Refutation, CallerBlocked, Top
<1>3. Refuting(input_pes, stack', ret')
  BY <1>1, <1>2, RefutingReplace
<1>4. Taking(c)
  BY DEF Taking, Fresh
<1>5. \A i \in 1..Len(stack') : Met(searched, stack'[i]) /\ Taking(stack'[i])
  <2>1. \A i \in 1..Len(stack) : i \in 1..(Len(stack) - 1) \/ i = Len(stack)
    BY <1>1
  <2> QED
    BY <1>1, <1>4, <2>1 DEF Refutation
<1> QED
  BY <1>3, <1>5 DEF Refutation

LEMMA RefutationWaits ==
    ASSUME TypeOK, stack # << >>, NEW searched, Refutation(searched), input_pes' = input_pes,
           NEW fr \in Frame, NEW c \in Fresh, Waits(fr, c), ret' # Invalid,
           fr.formula = Top.formula, fr.loc = Top.loc, fr.zone = Top.zone,
           c = Awaited(input_pes, fr), Met(searched, c), Taking(fr)
    PROVE  Refutation(searched)'
<1>1. /\ stack' \in Seq(Frame)
      /\ Len(stack') = Len(stack) + 1
      /\ \A i \in 1..(Len(stack) - 1) : stack'[i] = stack[i]
      /\ stack'[Len(stack)] = fr
      /\ stack'[Len(stack) + 1] = c
      /\ Len(stack) \in Nat \ {0}
  BY WaitingStack, StackNonempty DEF TypeOK, Fresh
<1>2. /\ stack \in Seq(Frame)
      /\ Refuting(input_pes, stack, ret)
      /\ stack'[Len(stack)].formula = stack[Len(stack)].formula
      /\ stack'[Len(stack)].loc = stack[Len(stack)].loc
      /\ stack'[Len(stack)].zone = stack[Len(stack)].zone
      /\ stack'[Len(stack) + 1] = Awaited(input_pes, stack'[Len(stack)])
  BY <1>1 DEF TypeOK, Refutation, Top
<1>3. Refuting(input_pes, stack', ret')
  BY <1>1, <1>2, RefutingWait
<1>4. Met(searched, fr) /\ Taking(c)
  BY BlockedOfTop DEF Met, Taking, Fresh
<1>5. \A i \in 1..Len(stack') : Met(searched, stack'[i]) /\ Taking(stack'[i])
  <2>1. \A i \in 1..Len(stack') : i \in 1..(Len(stack) - 1) \/ i = Len(stack) \/ i = Len(stack) + 1
    BY <1>1
  <2> QED
    BY <1>1, <1>4, <2>1 DEF Refutation
<1> QED
  BY <1>3, <1>5 DEF Refutation

\* The sequents that a rule asks for are on zones that are not empty.
LEMMA RulesStayInside ==
    ASSUME NEW s, NEW searched \in SUBSET Formula, Inhabited(s, searched),
           Hereditary(s, searched), \A z \in Zone : Bound[z] = z,
           NEW fr \in Frame, Met(searched, fr)
    PROVE  LET f == fr.formula
               l == fr.loc
               z == fr.zone
           IN  /\ f.op \in {"AND", "OR_SIMPLE"}
                     => Met(searched, Call(f.left, l, z)) /\ Met(searched, Call(f.right, l, z))
               /\ f.op = "FORALL" => Met(searched, Call(f.quant, l, Elapse(z, l)))
               /\ f.op = "SUBLIST" => Met(searched, Call(f.expr, f.map[l], z))
               /\ f.op = "RESET" => Met(searched, Call(f.expr, l, Image(f.map, z)))
               /\ f.op = "IMPLY" /\ comp_ph(z, f.left, l)
                     => Met(searched, Call(f.right, l, Bound[z \cap f.left.zone]))
               /\ \A k \in 1..Len(Transitions) :
                     f.op = "ALLACT" /\ CanTake(Transitions[k], l, z)
                        => Met(searched, After(fr, Transitions[k]))
<1> DEFINE f == fr.formula
           l == fr.loc
           z == fr.zone
<1>1. /\ f \in searched /\ f \in Formula /\ l \in Loc /\ z \in Zone
      /\ z # {} /\ z \subseteq Inv[l]
  BY DEF Met, Frame
<1>2. f.op # "PREDICATE" => Operands(f) \subseteq searched
  BY <1>1 DEF Hereditary
<1>3. f.op \in {"AND", "OR_SIMPLE"}
         => Met(searched, Call(f.left, l, z)) /\ Met(searched, Call(f.right, l, z))
  BY <1>1, <1>2 DEF Met, Call, Operands
<1>4. ASSUME f.op = "FORALL" PROVE Met(searched, Call(f.quant, l, Elapse(z, l)))
  <2>1. z \subseteq Elapse(z, l)
    BY <1>1, TimeAssumption DEF Elapse, Zone
  <2>2. Elapse(z, l) \subseteq Inv[l]
    BY DEF Elapse
  <2>3. f.quant \in searched
    BY <1>2, <1>4 DEF Operands
  <2> QED
    BY <1>1, <2>1, <2>2, <2>3 DEF Met, Call
<1>5. ASSUME f.op = "SUBLIST" PROVE Met(searched, Call(f.expr, f.map[l], z))
  <2>1. Inv[l] \subseteq Inv[f.map[l]] /\ f.expr \in searched
    BY <1>1, <1>2, <1>5 DEF Inhabited, Operands
  <2> QED
    BY <1>1, <2>1 DEF Met, Call
<1>6. ASSUME f.op = "RESET" PROVE Met(searched, Call(f.expr, l, Image(f.map, z)))
  <2>1. (\A p \in Inv[l] : f.map[p] \in Inv[l]) /\ f.expr \in searched
    BY <1>1, <1>2, <1>6 DEF Inhabited, Operands
  <2> QED
    BY <1>1, <2>1 DEF Met, Call, Image
<1>7. ASSUME f.op = "IMPLY", comp_ph(z, f.left, l)
      PROVE  Met(searched, Call(f.right, l, Bound[z \cap f.left.zone]))
  <2>1. f.right \in searched
    BY <1>2, <1>7 DEF Operands
  <2>2. Bound[z \cap f.left.zone] = z \cap f.left.zone
    BY <1>1 DEF Zone
  <2>3. z \cap f.left.zone # {}
    BY <1>1, <1>7 DEF comp_ph, Zone
  <2> QED
    BY <1>1, <2>1, <2>2, <2>3 DEF Met, Call
<1>8. ASSUME NEW k \in 1..Len(Transitions), f.op = "ALLACT", CanTake(Transitions[k], l, z)
      PROVE  Met(searched, After(fr, Transitions[k]))
  <2> DEFINE t == Transitions[k]
             part == EnabledPart(t, l, z)
  <2>1. t.reset \in [Point -> Point] /\ t.dest \in [Loc -> Loc]
    BY TransitionTypes
  <2>2. Bound[part] = part
    BY <1>1 DEF EnabledPart, Zone
  <2>3. part # {}
    <3>1. CASE Inv[t.dest[l]] = Point
      <4>1. part = z \cap t.guard.zone
        BY <1>1, <3>1 DEF EnabledPart, InvariantPre, Zone
      <4>2. t.guard.zone = Point \/ z \cap t.guard.zone # {}
        BY <1>8 DEF CanTake, comp_ph
      <4> QED
        BY <1>1, <4>1, <4>2 DEF Zone
    <3>2. CASE Inv[t.dest[l]] # Point
      BY <1>8, <3>2 DEF CanTake
    <3> QED
      BY <3>1, <3>2
  <2>4. Image(t.reset, part) # {} /\ Image(t.reset, part) \subseteq Inv[t.dest[l]]
    <3>1. part = {p \in z \cap t.guard.zone : t.reset[p] \in Inv[t.dest[l]]}
      <4>1. z \in SUBSET Point /\ l \in Loc
        BY <1>1 DEF Zone
      <4> HIDE DEF z, l
      <4> QED
        BY <4>1, EnabledPartExact
    <3> HIDE DEF part
    <3> QED
      BY <2>3, <3>1 DEF Image
  <2>5. f.quant \in searched
    BY <1>2, <1>8 DEF Operands
  <2> HIDE DEF part
  <2> QED
    BY <2>2, <2>4, <2>5 DEF Met, After, Call, part
<1> QED
  BY <1>3, <1>4, <1>5, <1>6, <1>7, <1>8

LEMMA ConnectiveRefutes ==
    ASSUME TypeOK, TypeOK', NEW searched \in SUBSET Formula, NEW below,
           DecidedBy(input_pes, searched, below), Refutation(searched),
           Connective, input_pes' = input_pes
    PROVE  Refutation(searched)'
<1> DEFINE F == CallerBlocked
           f == Top.formula
           l == Top.loc
           z == Top.zone
           V == TruthsBut(input_pes, F)
           Holds == Believed(input_pes, F, Top)
<1>1. stack # << >> /\ f.op # "PREDICATE"
  BY ConnectiveMoves DEF IsPredicate
<1>2. Top \in Frame /\ f \in Formula /\ l \in Loc /\ z \in Zone /\ Top.next \in Nat
  BY <1>1, StackNonempty DEF TypeOK, Frame
<1>3. /\ ret = Invalid => ~Believed(input_pes, F, Awaited(input_pes, Top))
      /\ Met(searched, Top) /\ Taking(Top) /\ f \in searched /\ z # {}
  BY <1>1, BlockedOfTop DEF Met
<1>4. stack' \in Seq(Frame)
  BY DEF TypeOK
<1>5. /\ Hereditary(input_pes, searched) /\ Inhabited(input_pes, searched)
      /\ Undivided(input_pes, searched) /\ \A y \in Zone : Bound[y] = y
  BY DEF DecidedBy
<1>6. ASSUME NEW v, Return(v), v = Invalid => ~Holds
      PROVE  Refutation(searched)'
  BY <1>1, <1>4, <1>6, RefutationReturns DEF Return, Popped
<1>7. ASSUME NEW g \in Formula, NEW m \in Loc, NEW y \in Zone, TailCall(Call(g, m, y)),
             Met(searched, Call(g, m, y)), Holds => HoldsOn(V, g, m, y)
      PROVE  Refutation(searched)'
  <2> DEFINE c == Call(g, m, y)
  <2>1. c \in Fresh
    BY CallIsFresh
  <2>2. Holds => Believed(input_pes, F, c)
    BY <1>7 DEF Believed, Call
  <2>3. Replaced(c) /\ ret' # Invalid /\ Met(searched, c)
    BY <1>7 DEF TailCall, Replaced, Invalid
  <2> HIDE DEF c
  <2> QED
    BY <1>1, <2>1, <2>2, <2>3, RefutationReplaces
<1>8. ASSUME NEW g \in Formula, NEW m \in Loc, NEW y \in Zone, NEW k \in Nat,
             Descend(k, Call(g, m, y)), Met(searched, Call(g, m, y)),
             Call(g, m, y) = Awaited(input_pes, [Top EXCEPT !.next = k]),
             f.op = "ALLACT" => k \in 1..Len(Transitions) /\ CanTake(Transitions[k], l, z)
      PROVE  Refutation(searched)'
  <2> DEFINE c == Call(g, m, y)
             fr == [Top EXCEPT !.next = k]
  <2>1. c \in Fresh
    BY CallIsFresh
  <2>2. fr \in Frame /\ fr.formula = f /\ fr.loc = l /\ fr.zone = z
    BY <1>2 DEF Frame
  <2>3. Waits(fr, c) /\ ret' # Invalid /\ Met(searched, c)
    BY <1>8 DEF Descend, Waits, Top, Invalid
  <2>4. c = Awaited(input_pes, fr)
    BY <1>8
  <2>5. Taking(fr)
    BY <1>2, <1>8, <2>2 DEF Frame, Taking
  <2> HIDE DEF c, fr
  <2> QED
    BY <1>1, <2>1, <2>2, <2>3, <2>4, <2>5, RefutationWaits
<1>9. Holds =>
         /\ f.op = "AND" => HoldsOn(V, f.left, l, z) /\ HoldsOn(V, f.right, l, z)
         /\ f.op = "FORALL" => HoldsOn(V, f.quant, l, Elapse(z, l))
         /\ f.op = "SUBLIST" => HoldsOn(V, f.expr, f.map[l], z)
         /\ f.op = "RESET" => HoldsOn(V, f.expr, l, Image(f.map, z))
         /\ f.op = "IMPLY" /\ comp_ph(z, f.left, l)
               => HoldsOn(V, f.right, l, Bound[z \cap f.left.zone])
         /\ f.op = "ATOMIC" => l \in f.locs
         /\ f.op = "CONSTRAINT" => z \subseteq f.zone
         /\ f.op = "ABLEWAITINF" => TimeDiverges(z, l)
         /\ f.op = "UNABLEWAITINF" => ~TimeDiverges(z, l)
  BY <1>2, <1>3, <1>5, ConnectivesBack
<1>10. Holds /\ f.op = "OR_SIMPLE" => HoldsOn(V, f.left, l, z) \/ HoldsOn(V, f.right, l, z)
  BY <1>2, <1>3, <1>5, OrSimpleBack
<1>11. /\ f.op \in {"AND", "OR_SIMPLE"}
             => Met(searched, Call(f.left, l, z)) /\ Met(searched, Call(f.right, l, z))
       /\ f.op = "FORALL" => Met(searched, Call(f.quant, l, Elapse(z, l)))
       /\ f.op = "SUBLIST" => Met(searched, Call(f.expr, f.map[l], z))
       /\ f.op = "RESET" => Met(searched, Call(f.expr, l, Image(f.map, z)))
       /\ f.op = "IMPLY" /\ comp_ph(z, f.left, l)
             => Met(searched, Call(f.right, l, Bound[z \cap f.left.zone]))
       /\ \A k \in 1..Len(Transitions) :
             f.op = "ALLACT" /\ CanTake(Transitions[k], l, z)
                => Met(searched, After(Top, Transitions[k]))
  BY <1>2, <1>3, <1>5, RulesStayInside
<1>12. ASSUME f.op \in {"AND", "OR_SIMPLE"}
       PROVE  /\ f.left \in Formula /\ f.right \in Formula
              /\ Awaited(input_pes, [Top EXCEPT !.next = 1]) = Call(f.left, l, z)
              /\ ret = Invalid => ~HoldsOn(V, f.left, l, z)
  <2>1. Awaited(input_pes, Top) = Call(f.left, l, z)
    BY <1>12 DEF Awaited
  <2>2. f.left \in Formula /\ f.right \in Formula
    BY <1>2, <1>12, FormulaAssumption
  <2> DEFINE fr == [Top EXCEPT !.next = 1]
  <2>3. fr.formula = f /\ fr.loc = l /\ fr.zone = z
    BY <1>2 DEF Frame
  <2> HIDE DEF fr
  <2>4. Awaited(input_pes, fr) = Call(f.left, l, z)
    BY <1>12, <2>3 DEF Awaited
  <2>5. ret = Invalid => ~HoldsOn(V, f.left, l, z)
    BY <1>3, <2>1 DEF Believed, Call
  <2> QED
    BY <2>2, <2>4, <2>5 DEF fr
<1>13. Valid # Invalid /\ ret \in {"none", Valid, Invalid} /\ "none" # Invalid
  BY DEF Valid, Invalid, TypeOK
<1> HIDE DEF V, F, Holds
<1>14. CASE do_proof_and
  BY <1>2, <1>6, <1>7, <1>8, <1>9, <1>11, <1>12, <1>13, <1>14 DEF do_proof_and
<1>15. CASE do_proof_or_simple
  BY <1>2, <1>6, <1>7, <1>8, <1>10, <1>11, <1>12, <1>13, <1>15 DEF do_proof_or_simple
<1>16. CASE do_proof_forall
  BY <1>2, <1>7, <1>9, <1>11, <1>16, ElapseIsZone, FormulaAssumption DEF do_proof_forall
<1>17. CASE do_proof_allact
  <2>1. f.op = "ALLACT" /\ f.quant \in Formula
    BY <1>2, <1>17, FormulaAssumption DEF do_proof_allact
  <2>2. Len(Transitions) \in Nat
    BY AutomatonAssumption, LenProperties
  <2> DEFINE Pending == {k \in (Top.next + 1)..Len(Transitions) : CanTake(Transitions[k], l, z)}
  <2>3. CASE Return(Valid)
    BY <1>6, <1>13, <2>3
  <2>4. ASSUME NEW k \in Pending, Descend(k, AfterTransition(Transitions[k]))
        PROVE  Refutation(searched)'
    <3> DEFINE t == Transitions[k]
               fr == [Top EXCEPT !.next = k]
    <3>1. k \in 1..Len(Transitions) /\ k \in Nat /\ CanTake(t, l, z)
      BY <1>2, <2>2
    <3>2. t.dest \in [Loc -> Loc] /\ t.reset \in [Point -> Point]
      BY <3>1, TransitionTypes
    <3>3. EnabledPart(t, l, z) \in Zone
      BY <1>2 DEF EnabledPart, Zone
    <3>4. Image(t.reset, Bound[EnabledPart(t, l, z)]) \in Zone /\ t.dest[l] \in Loc
      BY <1>2, <3>2, <3>3, ImageIsZone, AutomatonAssumption
    <3>5. fr.formula = f /\ fr.loc = l /\ fr.zone = z /\ fr.next = k
      BY <1>2 DEF Frame
    <3>6. After(fr, t) = After(Top, t) /\ AfterTransition(t) = After(Top, t)
      BY <3>5 DEF After, AfterTransition
    <3>7. Awaited(input_pes, fr) = After(Top, t)
      BY <2>1, <3>5, <3>6 DEF Awaited
    <3>8. Met(searched, After(Top, t))
      BY <1>11, <2>1, <3>1
    <3> QED
      BY <1>8, <2>1, <2>4, <3>1, <3>4, <3>6, <3>7, <3>8 DEF After
  <2>5. CASE Resuming /\ ret = Invalid /\ Return(Invalid)
    <3>1. Awaited(input_pes, Top) = After(Top, Transitions[Top.next])
      BY <2>1 DEF Awaited
    <3>2. Top.next \in 1..Len(Transitions) /\ CanTake(Transitions[Top.next], l, z)
      BY <1>3, <2>1, <2>5 DEF Resuming, Taking
    <3>3. Holds => Believed(input_pes, F, After(Top, Transitions[Top.next]))
      BY <1>2, <1>5, <2>1, <3>2, AllactBack DEF Holds
    <3> QED
      BY <1>3, <1>6, <2>5, <3>1, <3>3
  <2> QED
    BY <1>17, <2>3, <2>4, <2>5 DEF do_proof_allact
<1>18. CASE do_proof_imply
  <2>1. /\ f.op = "IMPLY" /\ f.left \in [locs : SUBSET Loc, zone : Zone] /\ f.right \in Formula
    BY <1>2, <1>18, FormulaAssumption DEF do_proof_imply
  <2>2. Bound[z \cap f.left.zone] \in Zone
    BY <1>2, <2>1, AutomatonAssumption DEF Zone
  <2> QED
    BY <1>6, <1>7, <1>9, <1>11, <1>13, <1>18, <1>2, <2>1, <2>2 DEF do_proof_imply
<1>19. CASE do_proof_sublist
  <2>1. f.op = "SUBLIST" /\ f.map[l] \in Loc /\ f.expr \in Formula
    BY <1>2, <1>19, FormulaAssumption DEF do_proof_sublist
  <2> QED
    BY <1>2, <1>7, <1>9, <1>11, <1>19, <2>1 DEF do_proof_sublist
<1>20. CASE do_proof_reset
  <2>1. f.op = "RESET" /\ f.map \in [Point -> Point] /\ f.expr \in Formula
    BY <1>2, <1>20, FormulaAssumption DEF do_proof_reset
  <2>2. Image(f.map, z) \in Zone
    BY <1>2, <2>1, ImageIsZone
  <2> QED
    BY <1>2, <1>7, <1>9, <1>11, <1>20, <2>1, <2>2 DEF do_proof_reset
<1>21. CASE do_proof_atomic
  <2>1. f.op = "ATOMIC" /\ Return(Verdict(l \in f.locs))
    BY <1>21 DEF do_proof_atomic
  <2>2. Verdict(l \in f.locs) = Invalid => l \notin f.locs
    BY <1>13 DEF Verdict
  <2> QED
    BY <1>6, <1>9, <2>1, <2>2
<1>22. CASE do_proof_constraint
  <2>1. f.op = "CONSTRAINT" /\ Return(Verdict(z \subseteq f.zone))
    BY <1>22 DEF do_proof_constraint
  <2>2. Verdict(z \subseteq f.zone) = Invalid => ~(z \subseteq f.zone)
    BY <1>13 DEF Verdict
  <2> QED
    BY <1>6, <1>9, <2>1, <2>2
<1>23. CASE do_proof_ablewaitinf
  <2> DEFINE able == (f.op = "ABLEWAITINF") <=> TimeDiverges(z, l)
  <2>1. f.op \in {"ABLEWAITINF", "UNABLEWAITINF"} /\ Return(Verdict(able))
    BY <1>23 DEF do_proof_ablewaitinf
  <2>2. Verdict(able) = Invalid => ~able
    BY <1>13 DEF Verdict
  <2>3. Holds => able
    BY <1>9, <2>1
  <2> HIDE DEF able
  <2> QED
    BY <1>6, <2>1, <2>2, <2>3
<1> QED
  BY <1>14, <1>15, <1>16, <1>17, <1>18, <1>19, <1>20, <1>21, <1>22, <1>23 DEF Connective

\* A circularity of a least fixpoint asks for claims under proof.
LEMMA CircularityIsBlocked ==
    ASSUME TypeOK, OwnNumbers, CyclesAreOpenCalls, stack # << >>, IsPredicate(Top), Top.next = 0,
           ~IsGfp(Top), LfpCycle(bin, Top.zone)
    PROVE  \A p \in Top.zone : <<Top.formula.pred, Top.loc, p>> \in CallerBlocked
<1>1. /\ bin \in Bin /\ Top.zone \in Zone /\ Top.loc \in Loc /\ Top.formula.pred \in Predicate
  BY TopPredicate
<1>2. PICK z \in Pushed(Xlist_pLFP[bin].dbms) : Top.zone \subseteq z
  BY DEF LfpCycle, tabled_sequent_lfp, tabled_sequent
<1>3. Pushed(Cycle(FALSE, bin)) = {stack[i].zone : i \in OpenIn(FALSE, bin)}
  BY <1>1 DEF CyclesAreOpenCalls
<1>4. PICK i \in OpenIn(FALSE, bin) : z = stack[i].zone
  BY <1>2, <1>3 DEF Cycle
<1> DEFINE fr == stack[i]
<1>5. /\ i \in 1..Len(stack) /\ Open(fr) /\ IsGfp(fr) = FALSE /\ BinOf(fr) = bin
      /\ Len(stack) \in Nat \ {0}
  BY <1>4, StackNonempty DEF OpenIn, TypeOK
<1>6. i # Len(stack)
  BY <1>5 DEF Open, Top
<1>7. i \in 1..(Len(stack) - 1)
  BY <1>5, <1>6
<1>8. fr \in Frame
  BY <1>5, ElementOfSeq DEF TypeOK
<1>9. fr.formula.op = "PREDICATE" /\ fr.formula.pred \in Predicate
  BY <1>5, <1>8, FormulaAssumption DEF Open, IsPredicate, Frame
<1>10. /\ input_pes.block[fr.formula.pred] = input_pes.block[Top.formula.pred]
       /\ fr.loc = Top.loc
  BY <1>5 DEF bin, BinOf, get_index
<1>11. fr.formula.pred = Top.formula.pred
  BY <1>1, <1>9, <1>10 DEF OwnNumbers
<1>12. ASSUME NEW p \in Top.zone
       PROVE  <<Top.formula.pred, Top.loc, p>> \in LfpClaims(input_pes, fr)
  <2>1. p \in fr.zone /\ p \in Point
    BY <1>1, <1>2, <1>4, <1>12 DEF Zone
  <2>2. <<Top.formula.pred, Top.loc, p>> \in Claim
    BY <1>1, <2>1 DEF Claim
  <2> QED
    BY <1>5, <1>9, <1>10, <1>11, <2>1, <2>2 DEF LfpClaims, Open, IsGfp
<1> QED
  BY <1>7, <1>12 DEF CallerBlocked, Blocked

\* An unfolded predicate fails where its right-hand side does.
LEMMA UnfoldedFails ==
    ASSUME TypeOK, stack # << >>, IsPredicate(Top),
           NEW searched \in SUBSET Formula, NEW below \in [Predicate -> SUBSET Formula],
           DecidedBy(input_pes, searched, below), Refutation(searched), ret = Invalid
    PROVE  ~Believed(input_pes, CallerBlocked, Top)
<1> DEFINE F == CallerBlocked
           f == Top.formula
           l == Top.loc
           z == Top.zone
           rhs == input_pes.rhs[f.pred]
           C == LfpClaims(input_pes, Top)
<1>1. /\ f \in Formula /\ f.pred \in Predicate /\ l \in Loc /\ z \in SUBSET Point
      /\ f \in PlaceFormula /\ f.op = "PREDICATE" /\ Top \in Frame
  BY TopPredicate, FormulasArePlaced DEF Zone, IsPredicate
<1>2. /\ NowBlocked = F \cup C /\ Met(searched, Top)
      /\ input_pes.gfp[f.pred] => NowBlocked = F
      /\ ~Believed(input_pes, NowBlocked, Awaited(input_pes, Top))
  BY BlockedOfTop
<1>3. Awaited(input_pes, Top) = Call(rhs, l, z)
  BY <1>1 DEF Awaited
<1>4. PICK p \in z : <<rhs, l, p>> \notin TruthsBut(input_pes, NowBlocked)
  <2> DEFINE c == Call(rhs, l, z)
  <2>1. c.formula = rhs /\ c.loc = l /\ c.zone = z
    BY DEF Call
  <2>2. ~Believed(input_pes, NowBlocked, c)
    BY <1>2, <1>3
  <2> HIDE DEF c, rhs
  <2> QED
    BY <2>1, <2>2 DEF Believed, HoldsOn
<1>5. p \in Point
  BY <1>1
<1> HIDE DEF F, C
<1>6. CASE input_pes.gfp[f.pred]
  <2> DEFINE G == SupportableBut(input_pes, F)
  <2>1. SUFFICES ASSUME Believed(input_pes, F, Top) PROVE FALSE
    BY DEF F
  <2>2. FollowsBut(input_pes, F, G, TruthsBut(input_pes, F), f, l, p)
    BY <1>1, <2>1, StepBack DEF Believed
  <2> HIDE DEF G
  <2>3. <<f.pred, l, p>> \in G
    BY <1>1, <1>6, <2>2 DEF FollowsBut, Follows
  <2>4. SupportedBut(input_pes, F, G)
    BY SupportableIsSupportedBut DEF G
  <2>5. <<rhs, l, p>> \in DerivableBut(input_pes, F, G)
    BY <2>3, <2>4 DEF SupportedBut
  <2> QED
    BY <1>2, <1>4, <1>6, <2>5 DEF TruthsBut, G
<1>7. CASE ~input_pes.gfp[f.pred]
  <2>1. \A q, r \in Point : q = r
    BY <1>1, <1>2, <1>7 DEF DecidedBy, Undivided, Met
  <2>2. C \subseteq {<<f.pred, l, p>>}
    <3>1. ASSUME NEW c \in C PROVE c = <<f.pred, l, p>>
      <4>1. c \in Claim /\ c[1] = f.pred /\ c[2] = l
        BY <3>1 DEF C, LfpClaims
      <4>2. c[3] = p
        BY <1>5, <2>1, <4>1 DEF Claim
      <4> QED
        BY <4>1, <4>2 DEF Claim
    <3> QED
      BY <3>1
  <2>3. (\A X \in Predicate : LeadsInto(input_pes, X, below[X])) /\ Unmixed(input_pes, below)
    BY DEF DecidedBy
  <2>4. <<rhs, l, p>> \notin TruthsBut(input_pes, F \cup C)
    BY <1>2, <1>4
  <2>5. <<f, l, p>> \notin TruthsBut(input_pes, F)
    BY <1>1, <1>5, <1>7, <2>2, <2>3, <2>4, LfpRefuted
  <2> QED
    BY <2>5 DEF Believed, HoldsOn, F
<1> QED
  BY <1>6, <1>7

\* A circularity of a least fixpoint fails on the whole zone.
LEMMA CircularityRefutes ==
    ASSUME TypeOK, OwnNumbers, CyclesAreOpenCalls, LfpCircularity,
           NEW searched, Refutation(searched)
    PROVE  ~Believed(input_pes, CallerBlocked, Top)
<1> DEFINE F == CallerBlocked
           f == Top.formula
<1>1. /\ stack # << >> /\ IsPredicate(Top) /\ Top.next = 0 /\ ~IsGfp(Top)
      /\ LfpCycle(bin, Top.zone)
  BY DEF LfpCircularity, EnterPredicate, Entering, completes_lfp_cycle
<1>2. /\ f.pred \in Predicate /\ Top.loc \in Loc /\ Top.zone \in SUBSET Point
      /\ f \in PlaceFormula /\ f.op = "PREDICATE"
  BY <1>1, TopPredicate, FormulasArePlaced DEF Zone, IsPredicate
<1>3. \A p \in Top.zone : <<f.pred, Top.loc, p>> \in F
  BY <1>1, CircularityIsBlocked
<1>4. PICK p \in Top.zone : TRUE
  BY <1>1, BlockedOfTop DEF Met
<1>5. SUFFICES ASSUME Believed(input_pes, F, Top) PROVE FALSE
  OBVIOUS
<1> HIDE DEF F
<1>6. FollowsBut(input_pes, F, SupportableBut(input_pes, F), TruthsBut(input_pes, F),
                 f, Top.loc, p)
  BY <1>2, <1>5, StepBack DEF Believed
<1> QED
  BY <1>1, <1>2, <1>3, <1>6 DEF FollowsBut, IsGfp

\* What the known-false table answers is taken on trust here.
LEMMA PredicateRefutes ==
    ASSUME TypeOK, TypeOK', NEW searched \in SUBSET Formula,
           NEW below \in [Predicate -> SUBSET Formula],
           DecidedBy(input_pes, searched, below), Refutation(searched),
           KnownFalseHit => ~Believed(input_pes, CallerBlocked, Top),
           OwnNumbers, CyclesAreOpenCalls, do_proof_predicate, input_pes' = input_pes
    PROVE  Refutation(searched)'
<1> DEFINE F == CallerBlocked
           f == Top.formula
           rhs == input_pes.rhs[f.pred]
<1>1. stack # << >> /\ IsPredicate(Top)
  BY PredicateMoves
<1>2. /\ Top \in Frame /\ f \in Formula /\ f.pred \in Predicate /\ Top.loc \in Loc
      /\ Top.zone \in SUBSET Point /\ f \in PlaceFormula /\ f.op = "PREDICATE"
  BY <1>1, TopPredicate, FormulasArePlaced DEF Zone, IsPredicate
<1>3. Met(searched, Top)
  BY <1>1, BlockedOfTop
<1>4. stack' \in Seq(Frame) /\ Valid # Invalid /\ "none" # Invalid
  BY DEF TypeOK, Valid, Invalid
<1>5. ASSUME Popped, ret' = Invalid => ~Believed(input_pes, F, Top)
      PROVE  Refutation(searched)'
  BY <1>1, <1>4, <1>5, RefutationReturns
<1>6. CASE KnownFalseHit
  BY <1>5, <1>6 DEF KnownFalseHit, Return, Popped
<1>7. CASE KnownTrueHit \/ GfpCircularity
  BY <1>4, <1>5, <1>7 DEF KnownTrueHit, GfpCircularity, Return, Popped
<1>8. CASE LfpCircularity
  BY <1>5, <1>8, CircularityRefutes DEF LfpCircularity, Return, Popped
<1>9. CASE UnfoldGfp \/ UnfoldLfp
  <2> DEFINE fr == [Top EXCEPT !.next = 1, !.saved = parentRef]
             c == Call(rhs, Top.loc, Top.zone)
  <2>1. Waits(fr, c) /\ ret' = "none"
    BY <1>9, PredicateMoves DEF Unfolded
  <2>2. fr \in Frame /\ c \in Fresh
    BY <1>1, UnfoldedTypes
  <2>3. fr.formula = f /\ fr.loc = Top.loc /\ fr.zone = Top.zone
    BY <1>2 DEF Frame
  <2>4. Met(searched, c)
    BY <1>2, <1>3 DEF Met, Call, DecidedBy, Hereditary
  <2> HIDE DEF fr
  <2>5. c = Awaited(input_pes, fr) /\ Taking(fr)
    BY <1>2, <2>3 DEF Awaited, Taking
  <2> HIDE DEF c
  <2> QED
    BY <1>1, <1>4, <2>1, <2>2, <2>3, <2>4, <2>5, RefutationWaits
<1>10. CASE LeavePredicate
  <2>1. Popped /\ ret' = ret
    BY <1>10, PredicateMoves DEF Left
  <2> QED
    BY <1>1, <1>5, <2>1, UnfoldedFails
<1> QED
  BY <1>6, <1>7, <1>8, <1>9, <1>10 DEF do_proof_predicate

LEMMA RefutationStarts ==
    ASSUME Init, NEW searched, NEW below, DecidedBy(input_pes, searched, below)
    PROVE  Refutation(searched)
<1> DEFINE c == Asking(input_pes)
<1>1. stack = <<c>> /\ c.next = 0 /\ ret # Invalid
  BY DEF Init, Asking, Call, Invalid
<1>2. Met(searched, c) /\ Taking(c)
  BY DEF DecidedBy, Inhabited, Met, Taking, Asking, Call
<1> HIDE DEF c
<1>3. Len(stack) = 1 /\ stack[1] = c
  BY <1>1
<1>4. \A i \in 1..Len(stack) : stack[i] = c
  BY <1>3
<1>5. 1..(Len(stack) - 1) = {}
  BY <1>3
<1> QED
  BY <1>1, <1>2, <1>3, <1>4, <1>5 DEF Refutation, Refuting, c

RefutationInv ==
    /\ TypeOK
    /\ CyclesInv
    /\ ~useCaching /\ OwnNumbers =>
          \A searched \in SUBSET Formula, below \in [Predicate -> SUBSET Formula] :
             DecidedBy(input_pes, searched, below) => Refutation(searched)

LEMMA NextRefutation == RefutationInv /\ [Next]_vars => RefutationInv'
<1> SUFFICES ASSUME RefutationInv, [Next]_vars PROVE RefutationInv'
  OBVIOUS
<1>1. TypeOK' /\ CyclesInv'
  BY NextTypes, NextCycles DEF RefutationInv
<1>2. ASSUME ~useCaching', OwnNumbers',
             NEW searched \in SUBSET Formula, NEW below \in [Predicate -> SUBSET Formula],
             DecidedBy(input_pes, searched, below)'
      PROVE  Refutation(searched)'
  <2>1. CASE Next
    <3>1. input_pes' = input_pes
      BY <2>1, PredicateMoves DEF Next, RefutationInv
    <3>2. ~useCaching /\ OwnNumbers /\ DecidedBy(input_pes, searched, below)
      BY <1>2, <3>1 DEF useCaching, OwnNumbers
    <3>3. Refutation(searched) /\ CyclesAreOpenCalls /\ TypeOK
      BY <3>2 DEF RefutationInv, CyclesInv
    <3>4. ~KnownFalseHit
      BY <3>2 DEF KnownFalseHit
    <3> QED
      BY <1>1, <2>1, <3>1, <3>2, <3>3, <3>4, ConnectiveRefutes, PredicateRefutes DEF Next
  <2>2. CASE UNCHANGED vars
    <3>1. UNCHANGED <<input_pes, stack, ret>>
      BY <2>2 DEF vars
    <3>2. ~useCaching /\ OwnNumbers /\ DecidedBy(input_pes, searched, below)
      BY <1>2, <3>1 DEF useCaching, OwnNumbers
    <3>3. Refutation(searched)
      BY <3>2 DEF RefutationInv
    <3> QED
      BY <3>1, <3>3 DEF Refutation
  <2> QED
    BY <2>1, <2>2
<1> QED
  BY <1>1, <1>2 DEF RefutationInv

LEMMA RefutationAnswers ==
    ASSUME NEW searched, Refutation(searched)
    PROVE  InvalidHolds
<1> SUFFICES ASSUME Done, ret = Invalid
             PROVE  ~HoldsOn(Truths(input_pes), input_pes.start, input_pes.loc, input_pes.zone)
  BY DEF InvalidHolds
<1>1. ~Believed(input_pes, {}, Asking(input_pes))
  BY DEF Refutation, Refuting, Done
<1> QED
  BY <1>1, NothingBlocked DEF Believed, Asking, Call

\* The search without placeholders never refutes what is true, on the inputs
\* that it decides: safety properties of any automaton, and all properties
\* without alternation of a system without clocks.  A circularity counts as a
\* refutation for least fixpoints only, and only below the sequent that it
\* repeats; and no rule gives up a zone of which a part would do.
THEOREM InvalidIsRight == Spec => [](~useCaching /\ OwnNumbers /\ Decided => InvalidHolds)
<1>1. Init => RefutationInv
  BY InitTypes, InitCycles, RefutationStarts DEF RefutationInv
<1>2. RefutationInv => (~useCaching /\ OwnNumbers /\ Decided => InvalidHolds)
  BY RefutationAnswers DEF RefutationInv, Decided
<1> QED
  BY <1>1, <1>2, NextRefutation, PTL DEF Spec

-----------------------------------------------------------------------------
(***************************************************************************)
(* The verdict tables, in a search that the first equation to fail, or the  *)
(* first one to succeed, ends.                                             *)
(***************************************************************************)

\* The calls stay among the formulas searched, and below one of the connectives
\* ops that waits there are no equations.
Nested(ops, searched, plain) ==
    \A i \in 1..Len(stack) :
        /\ stack[i].formula \in searched
        /\ stack[i].formula.op \in ops =>
              \A j \in (i + 1)..Len(stack) : stack[j].formula \in plain

\* The verdict v is handed on to the end: no call that waits has another operand
\* to try after it.
OpsAgainst(v) == IF v = Invalid THEN Disjunctions ELSE Conjunctions
Final(v) == ret = v /\ \A i \in 1..Len(stack) : stack[i].formula.op \notin OpsAgainst(v)

\* What is known to be true is proved from the claims of the greatest fixpoints
\* under proof.
TrueIsProved ==
    \A f \in Formula, l \in Loc : f.op = "PREDICATE" =>
        \A z \in Xlist_true[get_index(input_pes.block[f.pred], l)].dbms :
            HoldsOn(Provable(input_pes, Claims), f, l, z)
NothingIsFalse == \A b \in Bin : Xlist_false[b].dbms = {}
TablesProved == Final(Invalid) \/ (NothingIsFalse /\ TrueIsProved)

\* The rules ask for the operands of their formula.
LEMMA ChildIsOperand ==
    ASSUME TypeOK, Connective
    PROVE  \/ Popped
           \/ \E c \in Fresh : Replaced(c) /\ c.formula \in Operands(Top.formula)
           \/ \E c \in Fresh, fr \in Frame :
                 /\ Waits(fr, c) /\ c.formula \in Operands(Top.formula)
                 /\ fr.formula = Top.formula
                 /\ c.formula \in AskedFirst(Top.formula)
<1> DEFINE f == Top.formula
           Goal == \/ Popped
                   \/ \E c \in Fresh : Replaced(c) /\ c.formula \in Operands(f)
                   \/ \E c \in Fresh, fr \in Frame :
                         /\ Waits(fr, c) /\ c.formula \in Operands(f)
                         /\ fr.formula = f
                         /\ c.formula \in AskedFirst(f)
<1> SUFFICES Goal
  OBVIOUS
<1>1. stack # << >> /\ f.op # "PREDICATE"
  BY ConnectiveMoves DEF IsPredicate
<1>2. Top \in Frame /\ f \in Formula /\ Top.loc \in Loc /\ Top.zone \in Zone
  BY <1>1, StackNonempty DEF TypeOK, Frame
<1>3. ASSUME NEW v, Return(v) PROVE Goal
  BY <1>3 DEF Return, Popped
<1>4. ASSUME NEW g \in Operands(f), g \in Formula, NEW m \in Loc, NEW y \in Zone,
             TailCall(Call(g, m, y))
      PROVE  Goal
  <2> DEFINE c == Call(g, m, y)
  <2>1. c \in Fresh /\ c.formula = g /\ Replaced(c)
    BY <1>4, CallIsFresh DEF TailCall, Replaced, Call
  <2> HIDE DEF c
  <2> QED
    BY <2>1
<1>5. ASSUME NEW g \in Operands(f), g \in Formula, NEW m \in Loc, NEW y \in Zone, NEW k \in Nat,
             Descend(k, Call(g, m, y)), g \in AskedFirst(f)
      PROVE  Goal
  <2> DEFINE c == Call(g, m, y)
             fr == [Top EXCEPT !.next = k]
  <2>1. c \in Fresh /\ c.formula = g
    BY <1>5, CallIsFresh DEF Call
  <2>2. fr \in Frame /\ fr.formula = f
    BY <1>2 DEF Frame
  <2>3. Waits(fr, c)
    BY <1>5 DEF Descend, Waits, Top
  <2> HIDE DEF c, fr
  <2> QED
    BY <1>5, <2>1, <2>2, <2>3
<1> HIDE DEF Goal
<1>6. CASE do_proof_and \/ do_proof_or_simple
  <2>1. /\ f.op \in {"AND", "OR_SIMPLE"} /\ f.left \in Formula /\ f.right \in Formula
        /\ f.left \in Operands(f) /\ f.right \in Operands(f) /\ f.left \in AskedFirst(f)
    BY <1>2, <1>6, FormulaAssumption DEF do_proof_and, do_proof_or_simple, Operands, AskedFirst
  <2> QED
    BY <1>2, <1>3, <1>4, <1>5, <1>6, <2>1 DEF do_proof_and, do_proof_or_simple
<1>7. CASE do_proof_forall
  <2>1. f.quant \in Formula /\ f.quant \in Operands(f)
    BY <1>2, <1>7, FormulaAssumption DEF do_proof_forall, Operands
  <2> QED
    BY <1>2, <1>4, <1>7, <2>1, ElapseIsZone DEF do_proof_forall
<1>8. CASE do_proof_allact
  <2>1. f.quant \in Formula /\ f.quant \in Operands(f) /\ f.quant \in AskedFirst(f)
    BY <1>2, <1>8, FormulaAssumption DEF do_proof_allact, Operands, AskedFirst
  <2>2. ASSUME NEW k \in (Top.next + 1)..Len(Transitions), Descend(k, AfterTransition(Transitions[k]))
        PROVE  Goal
    <3> DEFINE t == Transitions[k]
    <3>1. k \in 1..Len(Transitions) /\ k \in Nat
      BY <1>2, AutomatonAssumption, LenProperties DEF Frame
    <3>2. t.dest \in [Loc -> Loc] /\ t.reset \in [Point -> Point]
      BY <3>1, TransitionTypes
    <3>3. EnabledPart(t, Top.loc, Top.zone) \in Zone
      BY <1>2 DEF EnabledPart, Zone
    <3>4. /\ Image(t.reset, Bound[EnabledPart(t, Top.loc, Top.zone)]) \in Zone
          /\ t.dest[Top.loc] \in Loc
      BY <1>2, <3>2, <3>3, ImageIsZone, AutomatonAssumption
    <3> QED
      BY <1>5, <2>1, <2>2, <3>1, <3>4 DEF AfterTransition
  <2> QED
    BY <1>3, <1>8, <2>2 DEF do_proof_allact
<1>9. CASE do_proof_imply
  <2>1. /\ f.left \in [locs : SUBSET Loc, zone : Zone] /\ f.right \in Formula
        /\ f.right \in Operands(f)
    BY <1>2, <1>9, FormulaAssumption DEF do_proof_imply, Operands
  <2>2. Bound[Top.zone \cap f.left.zone] \in Zone
    BY <1>2, <2>1, AutomatonAssumption DEF Zone
  <2> QED
    BY <1>2, <1>3, <1>4, <1>9, <2>1, <2>2 DEF do_proof_imply
<1>10. CASE do_proof_sublist
  <2>1. f.map[Top.loc] \in Loc /\ f.expr \in Formula /\ f.expr \in Operands(f)
    BY <1>2, <1>10, FormulaAssumption DEF do_proof_sublist, Operands
  <2> QED
    BY <1>2, <1>4, <1>10, <2>1 DEF do_proof_sublist
<1>11. CASE do_proof_reset
  <2>1. f.map \in [Point -> Point] /\ f.expr \in Formula /\ f.expr \in Operands(f)
    BY <1>2, <1>11, FormulaAssumption DEF do_proof_reset, Operands
  <2>2. Image(f.map, Top.zone) \in Zone
    BY <1>2, <2>1, ImageIsZone
  <2> QED
    BY <1>2, <1>4, <1>11, <2>1, <2>2 DEF do_proof_reset
<1>12. CASE do_proof_atomic \/ do_proof_constraint \/ do_proof_ablewaitinf
  BY <1>3, <1>12 DEF do_proof_atomic, do_proof_constraint, do_proof_ablewaitinf
<1>13. Goal
  BY <1>6, <1>7, <1>8, <1>9, <1>10, <1>11, <1>12 DEF Connective
<1> QED
  BY <1>13

LEMMA NestedNext ==
    ASSUME TypeOK, Connective \/ do_proof_predicate, input_pes' = input_pes,
           NEW ops \in {Disjunctions, Conjunctions}, NEW searched, NEW plain,
           OneSidedBy(input_pes, ops, searched, plain), Nested(ops, searched, plain)
    PROVE  Nested(ops, searched, plain)'
<1> DEFINE n == Len(stack)
           f == Top.formula
<1>1. stack # << >> /\ stack \in Seq(Frame)
  BY ConnectiveMoves, PredicateMoves DEF TypeOK
<1>2. n \in Nat \ {0} /\ f \in searched
  BY <1>1, StackNonempty DEF Nested, Top
<1>3. \A i \in 1..(n - 1) : stack[i].formula.op \in ops => f \in plain
  <2>1. \A i \in 1..(n - 1) : i \in 1..n /\ n \in (i + 1)..n
    BY <1>2
  <2> QED
    BY <2>1 DEF Nested, Top
<1>4. CASE Popped
  <2>1. Len(stack') = n - 1 /\ \A i \in 1..(n - 1) : stack'[i] = stack[i]
    BY <1>1, <1>4, PoppedStack
  <2>2. \A i \in 1..(n - 1) : \A j \in (i + 1)..(n - 1) : i \in 1..n /\ j \in (i + 1)..n /\ j \in 1..(n - 1)
    BY <1>2
  <2>3. \A i \in 1..(n - 1) : i \in 1..n
    BY <1>2
  <2> QED
    BY <2>1, <2>2, <2>3 DEF Nested
<1>5. ASSUME NEW c \in Fresh, Replaced(c), c.formula \in Operands(f)
      PROVE  Nested(ops, searched, plain)'
  <2>1. Len(stack') = n /\ stack'[n] = c /\ \A i \in 1..(n - 1) : stack'[i] = stack[i]
    BY <1>1, <1>5, ReplacedStack DEF Fresh
  <2>2. c.formula \in searched /\ (f \in plain => c.formula \in plain)
    BY <1>2, <1>5 DEF OneSidedBy, Hereditary, Operands
  <2>3. \A i \in 1..n : i \in 1..(n - 1) \/ (i = n /\ (i + 1)..n = {})
    BY <1>2
  <2>4. \A i \in 1..n : \A j \in (i + 1)..n : j = n \/ j \in 1..(n - 1)
    BY <1>2
  <2> HIDE DEF n, f
  <2>5. \A i \in 1..n : stack'[i].formula \in searched
    BY <2>1, <2>2, <2>3 DEF Nested, n
  <2>6. ASSUME NEW i \in 1..n, stack'[i].formula.op \in ops, NEW j \in (i + 1)..n
        PROVE  stack'[j].formula \in plain
    <3>1. i \in 1..(n - 1) /\ stack[i].formula.op \in ops /\ f \in plain
      BY <1>3, <2>1, <2>3, <2>6
    <3>2. stack[j].formula \in plain
      BY <2>6, <3>1 DEF Nested, n
    <3> QED
      BY <2>1, <2>2, <2>4, <3>1, <3>2
  <2> QED
    BY <2>1, <2>5, <2>6 DEF Nested
<1>6. ASSUME NEW c \in Fresh, NEW fr \in Frame, Waits(fr, c), fr.formula = f,
             c.formula \in searched, f \in plain => c.formula \in plain,
             f.op \in ops => c.formula \in plain
      PROVE  Nested(ops, searched, plain)'
  <2>1. /\ Len(stack') = n + 1 /\ stack'[n] = fr /\ stack'[n + 1] = c
        /\ \A i \in 1..(n - 1) : stack'[i] = stack[i]
    BY <1>1, <1>6, WaitingStack DEF Fresh
  <2>2. \A i \in 1..n : stack'[i].formula = stack[i].formula
    <3>1. \A i \in 1..n : i \in 1..(n - 1) \/ i = n
      BY <1>2
    <3> QED
      BY <1>6, <2>1, <3>1 DEF Top
  <2>3. \A i \in 1..(n + 1) : i \in 1..n \/ (i = n + 1 /\ (i + 1)..(n + 1) = {})
    BY <1>2
  <2>4. \A i \in 1..n : \A j \in (i + 1)..(n + 1) : j = n + 1 \/ (j \in (i + 1)..n /\ j \in 1..n)
    BY <1>2
  <2>5. \A i \in 1..n : i \in 1..(n - 1) \/ i = n
    BY <1>2
  <2>6. \A i \in 1..n : stack[i].formula.op \in ops => c.formula \in plain
    BY <1>3, <1>6, <2>5 DEF Top
  <2> HIDE DEF n, f
  <2>7. \A i \in 1..(n + 1) : stack'[i].formula \in searched
    BY <1>6, <2>1, <2>2, <2>3 DEF Nested, n
  <2>8. ASSUME NEW i \in 1..(n + 1), stack'[i].formula.op \in ops, NEW j \in (i + 1)..(n + 1)
        PROVE  stack'[j].formula \in plain
    <3>1. i \in 1..n /\ stack[i].formula.op \in ops
      BY <2>2, <2>3, <2>8
    <3>2. j \in (i + 1)..n => stack[j].formula \in plain
      BY <3>1 DEF Nested, n
    <3> QED
      BY <2>1, <2>2, <2>4, <2>6, <2>8, <3>1, <3>2
  <2> QED
    BY <2>1, <2>7, <2>8 DEF Nested
<1>7. CASE Connective
  <2>1. f.op # "PREDICATE"
    BY <1>7, ConnectiveMoves DEF IsPredicate
  <2>2. \A g \in Operands(f) : g \in searched /\ (f \in plain => g \in plain)
    BY <1>2, <2>1 DEF OneSidedBy, Hereditary
  <2>3. f.op \in ops => AskedFirst(f) \subseteq plain
    BY <1>2 DEF OneSidedBy
  <2> HIDE DEF f
  <2> QED
    BY <1>4, <1>5, <1>6, <1>7, <2>2, <2>3, ChildIsOperand DEF f
<1>8. CASE do_proof_predicate
  <2>1. IsPredicate(Top)
    BY <1>8, PredicateMoves
  <2>2. f.op = "PREDICATE" /\ f \notin plain /\ f.op \notin ops
    BY <2>1 DEF IsPredicate, OneSidedBy, Disjunctions, Conjunctions
  <2>3. CASE UnfoldGfp \/ UnfoldLfp
    <3> DEFINE fr == [Top EXCEPT !.next = 1, !.saved = parentRef]
               c == Call(input_pes.rhs[f.pred], Top.loc, Top.zone)
    <3>1. Waits(fr, c) /\ fr \in Frame /\ c \in Fresh
      BY <1>1, <2>1, <2>3, PredicateMoves, UnfoldedTypes DEF Unfolded
    <3>2. fr.formula = f
      BY <1>1, StackNonempty DEF Frame
    <3>3. c.formula \in searched
      BY <1>2, <2>2 DEF Call, OneSidedBy, Hereditary
    <3> HIDE DEF fr, c
    <3> QED
      BY <1>6, <2>2, <3>1, <3>2, <3>3
  <2> QED
    BY <1>4, <1>8, <2>3, PredicateMoves DEF do_proof_predicate, Answered, Left
<1> QED
  BY <1>7, <1>8

\* An equation has none of these connectives above it, so that what it answers is
\* final.
LEMMA AnswerIsFinal ==
    ASSUME TypeOK, do_proof_predicate, NEW v \in {Valid, Invalid}, ret' = v,
           NEW searched, NEW plain, OneSidedBy(input_pes, OpsAgainst(v), searched, plain),
           Nested(OpsAgainst(v), searched, plain)
    PROVE  Final(v)'
<1>1. stack # << >> /\ IsPredicate(Top) /\ stack \in Seq(Frame)
  BY PredicateMoves DEF TypeOK
<1>2. Len(stack) \in Nat \ {0}
  BY <1>1, StackNonempty
<1>3. \A i \in 1..Len(stack) : i = Len(stack) \/ Len(stack) \in (i + 1)..Len(stack)
  BY <1>2
<1>4. Top.formula.op \notin OpsAgainst(v) /\ Top.formula \notin plain
  BY <1>1 DEF IsPredicate, OneSidedBy, OpsAgainst, Disjunctions, Conjunctions
<1>5. \A i \in 1..Len(stack) : stack[i].formula.op \notin OpsAgainst(v)
  BY <1>3, <1>4 DEF Nested, Top
<1>6. Popped
  BY PredicateMoves DEF do_proof_predicate, Answered, Left, Unfolded, Invalid, Valid
<1>7. Len(stack') = Len(stack) - 1 /\ \A i \in 1..(Len(stack) - 1) : stack'[i] = stack[i]
  BY <1>1, <1>6, PoppedStack
<1>8. \A i \in 1..(Len(stack) - 1) : i \in 1..Len(stack)
  BY <1>2
<1> QED
  BY <1>5, <1>7, <1>8 DEF Final

LEMMA StaysFinal ==
    ASSUME TypeOK, Connective \/ do_proof_predicate, NEW v \in {Valid, Invalid}, Final(v)
    PROVE  Final(v)'
<1>1. stack # << >> /\ stack \in Seq(Frame)
  BY ConnectiveMoves, PredicateMoves DEF TypeOK
<1>2. Len(stack) \in Nat \ {0} /\ Top.formula.op \notin OpsAgainst(v)
  BY <1>1, StackNonempty DEF Final, Top
<1>3. ret = v /\ ret # "none" /\ Valid # Invalid
  BY DEF Final, Valid, Invalid
<1>4. /\ v = Invalid => Top.formula.op # "OR_SIMPLE"
      /\ v = Valid => Top.formula.op \notin {"AND", "ALLACT"}
  BY <1>2, <1>3 DEF OpsAgainst, Disjunctions, Conjunctions
<1>5. Return(v)
  <2>1. CASE Connective
    BY <1>3, <1>4, <2>1 DEF Connective, Entering, do_proof_and, do_proof_or_simple,
          do_proof_forall, do_proof_allact, do_proof_imply, do_proof_sublist, do_proof_reset,
          do_proof_atomic, do_proof_constraint, do_proof_ablewaitinf
  <2>2. CASE do_proof_predicate
    BY <1>3, <2>2 DEF do_proof_predicate, KnownFalseHit, KnownTrueHit, GfpCircularity,
          LfpCircularity, UnfoldGfp, UnfoldLfp, EnterPredicate, Entering, LeavePredicate
  <2> QED
    BY <2>1, <2>2
<1>6. Len(stack') = Len(stack) - 1 /\ \A i \in 1..(Len(stack) - 1) : stack'[i] = stack[i]
  BY <1>1, <1>5, PoppedStack DEF Return, Popped
<1>7. \A i \in 1..(Len(stack) - 1) : i \in 1..Len(stack)
  BY <1>2
<1> QED
  BY <1>5, <1>6, <1>7 DEF Final, Return

\* The claims after a move.
LEMMA ClaimsMove ==
    ASSUME TypeOK, stack # << >>, input_pes' = input_pes
    PROVE  /\ Popped => Claims' = CallerClaims
           /\ \A c \in Fresh : Replaced(c) => Claims' = CallerClaims
           /\ \A c \in Fresh, fr \in Frame : Waits(fr, c) => CallerClaims \subseteq Claims'
<1> DEFINE n == Len(stack)
<1>1. n \in Nat \ {0} /\ n - 1 \in Nat /\ stack \in Seq(Frame) /\ n - 1 \in 0..(n - 1)
  BY StackNonempty DEF TypeOK
<1>2. ASSUME \A i \in 1..(n - 1) : stack'[i] = stack[i]
      PROVE  Assumed(input_pes, stack', n - 1) = CallerClaims
  BY <1>1, <1>2, AssumedSame DEF CallerClaims
<1>3. ASSUME Popped PROVE Claims' = CallerClaims
  <2>1. Len(stack') = n - 1 /\ \A i \in 1..(n - 1) : stack'[i] = stack[i]
    BY <1>1, <1>3, PoppedStack
  <2> QED
    BY <1>2, <2>1 DEF Claims
<1>4. ASSUME NEW c \in Fresh, Replaced(c) PROVE Claims' = CallerClaims
  <2>1. /\ Len(stack') = n /\ stack'[n].next = 0
        /\ \A i \in 1..(n - 1) : stack'[i] = stack[i]
    BY <1>1, <1>4, ReplacedStack DEF Fresh
  <2>2. Assumed(input_pes, stack', n) = Assumed(input_pes, stack', n - 1)
    BY <1>1, <2>1, AssumedStep
  <2> QED
    BY <1>2, <2>1, <2>2 DEF Claims
<1>5. ASSUME NEW c \in Fresh, NEW fr \in Frame, Waits(fr, c) PROVE CallerClaims \subseteq Claims'
  <2>1. Len(stack') = n + 1 /\ \A i \in 1..(n - 1) : stack'[i] = stack[i]
    BY <1>1, <1>5, WaitingStack DEF Fresh
  <2>2. \A i \in 1..(n - 1) : i \in 1..(n + 1)
    BY <1>1
  <2>3. Assumed(input_pes, stack', n - 1) \subseteq Assumed(input_pes, stack', n + 1)
    BY <2>2 DEF Assumed
  <2> QED
    BY <1>2, <2>1, <2>3 DEF Claims
<1> QED
  BY <1>3, <1>4, <1>5

\* Two formulas that name one equation are proved alike.
LEMMA SamePredicate ==
    ASSUME NEW pes, NEW H, NEW f \in PlaceFormula, NEW g \in PlaceFormula,
           f.op = "PREDICATE", g.op = "PREDICATE", f.pred = g.pred,
           NEW l \in Loc, NEW p \in Point, <<f, l, p>> \in Provable(pes, H)
    PROVE  <<g, l, p>> \in Provable(pes, H)
<1> DEFINE G == Supportable(pes, H) \cup H
           V == Derivable(pes, G)
<1>1. Provable(pes, H) = V
  BY DEF Provable
<1>2. Follows(pes, G, V, f, l, p)
  BY <1>1, Inversion
<1>3. Follows(pes, G, V, g, l, p)
  BY <1>2 DEF Follows
<1> HIDE DEF G
<1>4. V \in Closed(pes, G)
  BY DerivableClosed
<1>5. <<g, l, p>> \in V
  BY <1>3, <1>4 DEF Closed
<1> QED
  BY <1>1, <1>5

\* The known-true table gains at most the sequent of the innermost call.
LEMMA TrueStaysProved ==
    ASSUME TypeOK, TypeOK', OwnNumbers, input_pes' = input_pes, TrueIsProved,
           Provable(input_pes, Claims) \subseteq Provable(input_pes, Claims'),
           \A b \in Bin : \A z \in Xlist_true'[b].dbms :
              \/ z \in Xlist_true[b].dbms
              \/ /\ stack # << >> /\ IsPredicate(Top) /\ b = bin /\ z = Top.zone
                 /\ Proves(input_pes, Claims', Top)
    PROVE  TrueIsProved'
<1> SUFFICES ASSUME NEW f \in Formula, NEW l \in Loc, f.op = "PREDICATE",
                    NEW z \in Xlist_true'[get_index(input_pes.block[f.pred], l)].dbms,
                    NEW p \in z
             PROVE  <<f, l, p>> \in Provable(input_pes, Claims')
  BY DEF TrueIsProved, HoldsOn
<1> DEFINE b == get_index(input_pes.block[f.pred], l)
<1>1. f.pred \in Predicate /\ b \in Bin /\ f \in PlaceFormula
  BY FormulaAssumption, SystemsAssumption, FormulasArePlaced DEF TypeOK, get_index, Bin
<1>2. CASE z \in Xlist_true[b].dbms
  <2>1. <<f, l, p>> \in Provable(input_pes, Claims)
    BY <1>2 DEF TrueIsProved, HoldsOn
  <2> QED
    BY <2>1
<1>3. CASE /\ stack # << >> /\ IsPredicate(Top) /\ b = bin /\ z = Top.zone
           /\ Proves(input_pes, Claims', Top)
  <2>1. /\ Top.formula \in PlaceFormula /\ Top.formula.op = "PREDICATE"
        /\ Top.formula.pred \in Predicate /\ Top.zone \in Zone
    BY <1>3, TopPredicate, FormulasArePlaced DEF IsPredicate
  <2>2. input_pes.block[f.pred] = input_pes.block[Top.formula.pred] /\ l = Top.loc
    BY <1>3 DEF bin, BinOf, get_index
  <2>3. f.pred = Top.formula.pred
    BY <1>1, <2>1, <2>2 DEF OwnNumbers
  <2>4. <<Top.formula, l, p>> \in Provable(input_pes, Claims')
    BY <1>3, <2>2 DEF Proves, HoldsOn
  <2>5. p \in Point
    BY <1>3, <2>1 DEF Zone
  <2> QED
    BY <1>1, <2>1, <2>3, <2>4, <2>5, SamePredicate
<1> QED
  BY <1>1, <1>2, <1>3

\* A hit in the known-true table answers what is proved.
LEMMA HitIsProved ==
    ASSUME TypeOK, TrueIsProved, KnownTrueHit
    PROVE  Proves(input_pes, CallerClaims, Top)
<1>1. stack # << >> /\ IsPredicate(Top) /\ Top.next = 0 /\ KnownTrue(bin, Top.zone)
  BY DEF KnownTrueHit, EnterPredicate, Entering, is_known_true_sequent
<1>2. Top.formula \in Formula /\ Top.loc \in Loc /\ Top.formula.op = "PREDICATE"
  BY <1>1, TopPredicate DEF IsPredicate
<1>3. PICK z \in Xlist_true[bin].dbms : Top.zone \subseteq z
  BY <1>1 DEF KnownTrue, tabled_sequent
<1>4. HoldsOn(Provable(input_pes, Claims), Top.formula, Top.loc, z)
  BY <1>2, <1>3 DEF TrueIsProved, bin, BinOf
<1>5. Claims = CallerClaims
  BY <1>1, ClaimsOfTop
<1> QED
  BY <1>3, <1>4, <1>5 DEF Proves, HoldsOn

\* A hit in the known-false table does not occur: what is there ended the search.
LEMMA NothingFalseIsHit ==
    ASSUME TypeOK, TablesProved
    PROVE  ~KnownFalseHit
<1> SUFFICES ASSUME KnownFalseHit PROVE FALSE
  OBVIOUS
<1>1. /\ stack # << >> /\ IsPredicate(Top) /\ ret = "none"
      /\ \E z \in Xlist_false[bin].dbms : z \subseteq Top.zone
  BY DEF KnownFalseHit, EnterPredicate, Entering, is_known_false_sequent, KnownFalse,
         tabled_false_sequent
<1>2. bin \in Bin
  BY <1>1, TopPredicate
<1> QED
  BY <1>1, <1>2 DEF TablesProved, Final, NothingIsFalse, Invalid

\* What a predicate does to the verdict tables, unless it refutes.
LEMMA PredicateTables ==
    ASSUME TypeOK, do_proof_predicate, NothingIsFalse, ret' # Invalid
    PROVE  /\ NothingIsFalse'
           /\ \A b \in Bin : \A z \in Xlist_true'[b].dbms :
                 \/ z \in Xlist_true[b].dbms
                 \/ /\ b = bin /\ z = Top.zone
                    /\ GfpCircularity \/ (LeavePredicate /\ ret = Valid)
<1> DEFINE Gains == GfpCircularity \/ (LeavePredicate /\ ret = Valid)
           Goal == /\ NothingIsFalse'
                   /\ \A b \in Bin : \A z \in Xlist_true'[b].dbms :
                         z \in Xlist_true[b].dbms \/ (b = bin /\ z = Top.zone /\ Gains)
<1> SUFFICES Goal
  OBVIOUS
<1>1. stack # << >> /\ IsPredicate(Top)
  BY PredicateMoves
<1>2. bin \in Bin /\ Top.zone \in Zone
  BY <1>1, TopPredicate
<1>3. Xlist_true \in VerdictTable /\ Xlist_false \in VerdictTable
  BY DEF TypeOK, CacheTypeOK, VerdictTable
<1>4. CASE UNCHANGED tables
  BY <1>4 DEF tables, NothingIsFalse
<1>5. ~KnownFalseHit /\ ~LfpCircularity
  BY DEF KnownFalseHit, LfpCircularity, Return
<1>6. CASE KnownTrueHit
  <2>1. Xlist_true' = addParent(Xlist_true, bin, parentRef) /\ Xlist_false' = Xlist_false
    BY <1>6 DEF KnownTrueHit, is_known_true_sequent
  <2>2. \A b \in Bin : Xlist_true'[b].dbms = Xlist_true[b].dbms
    BY <1>2, <1>3, <2>1, AddParentDbms
  <2> QED
    BY <2>1, <2>2 DEF NothingIsFalse
<1>7. CASE GfpCircularity /\ useCaching
  <2>1. Xlist_true' \in cache_true_sequent(Xlist_true, bin, Top.zone) /\ Xlist_false' = Xlist_false
    BY <1>7 DEF GfpCircularity
  <2>2. \A b \in Bin : Xlist_true'[b].dbms
                          \subseteq Xlist_true[b].dbms \cup (IF b = bin THEN {Top.zone} ELSE {})
    BY <1>2, <1>3, <2>1, CacheAdds
  <2> HIDE DEF Gains
  <2>3. Gains
    BY <1>7 DEF Gains
  <2> QED
    BY <2>1, <2>2, <2>3 DEF NothingIsFalse
<1>8. CASE LeavePredicate /\ useCaching
  <2> DEFINE purged == purge_false_sequent(bin, Top.zone)
  <2>1. ret = Valid /\ UpdateCaches
    BY <1>8 DEF LeavePredicate, Return, UpdateCaches
  <2>2. /\ Xlist_true' \in cache_true_sequent(purged.true, bin, Top.zone)
        /\ Xlist_false' = purged.false
    BY <1>8, <2>1 DEF UpdateCaches, Valid, Invalid
  <2>3. purged.true \in VerdictTable
    BY <1>2, <1>3, PurgeType
  <2>4. \A b \in Bin : /\ purged.true[b].dbms \subseteq Xlist_true[b].dbms
                       /\ purged.false[b].dbms \subseteq Xlist_false[b].dbms
    BY <1>2, <1>3, PurgeRemoves
  <2> HIDE DEF purged, Gains
  <2>5. \A b \in Bin : Xlist_true'[b].dbms
                          \subseteq purged.true[b].dbms \cup (IF b = bin THEN {Top.zone} ELSE {})
    BY <1>2, <2>2, <2>3, CacheAdds
  <2>6. Gains
    BY <1>8, <2>1 DEF Gains
  <2>7. NothingIsFalse'
    BY <2>2, <2>4 DEF NothingIsFalse
  <2> QED
    BY <2>4, <2>5, <2>6, <2>7
<1>9. CASE ~useCaching \/ UnfoldGfp \/ UnfoldLfp
  <2>1. UNCHANGED tables
    BY <1>5, <1>9 DEF do_proof_predicate, KnownTrueHit, GfpCircularity, UnfoldGfp, UnfoldLfp,
          LeavePredicate, UpdateCaches, tables
  <2> QED
    BY <1>4, <2>1
<1> HIDE DEF Goal
<1> QED
  BY <1>5, <1>6, <1>7, <1>8, <1>9 DEF do_proof_predicate

LEMMA TablesNext ==
    ASSUME TypeOK, TypeOK', OwnNumbers, CyclesAreOpenCalls, Search, input_pes' = input_pes,
           NEW searched, NEW plain, OneSidedBy(input_pes, Disjunctions, searched, plain),
           Nested(Disjunctions, searched, plain), TablesProved,
           do_proof_predicate \/ (Connective /\ UNCHANGED cacheVars)
    PROVE  TablesProved'
<1>1. CASE Final(Invalid)
  BY <1>1, StaysFinal DEF TablesProved
<1>2. CASE ~Final(Invalid) /\ Connective /\ UNCHANGED cacheVars
  <2>1. UNCHANGED tables /\ NothingIsFalse /\ TrueIsProved
    BY <1>2 DEF cacheVars, TablesProved
  <2>2. stack # << >> /\ Top.formula.op # "PREDICATE"
    BY <1>2, ConnectiveMoves DEF IsPredicate
  <2>3. CallerClaims \subseteq Claims'
    BY <1>2, <2>2, ChildIsOperand, ClaimsMove
  <2>4. Claims = CallerClaims
    BY <2>2, ClaimsOfTop
  <2>5. Provable(input_pes, Claims) \subseteq Provable(input_pes, Claims')
    BY <2>3, <2>4, ProvableMonotone
  <2>6. \A b \in Bin : \A z \in Xlist_true'[b].dbms : z \in Xlist_true[b].dbms
    BY <2>1 DEF tables
  <2>7. TrueIsProved'
    BY <2>1, <2>5, <2>6, TrueStaysProved
  <2> QED
    BY <2>1, <2>7 DEF TablesProved, NothingIsFalse, tables
<1>3. CASE ~Final(Invalid) /\ do_proof_predicate
  <2>1. stack # << >> /\ IsPredicate(Top) /\ NothingIsFalse /\ TrueIsProved
    BY <1>3, PredicateMoves DEF TablesProved
  <2>2. CASE ret' = Invalid
    BY <1>3, <2>2, AnswerIsFinal DEF TablesProved, OpsAgainst
  <2>3. CASE ret' # Invalid
    <3>1. /\ NothingIsFalse'
          /\ \A b \in Bin : \A z \in Xlist_true'[b].dbms :
                \/ z \in Xlist_true[b].dbms
                \/ /\ b = bin /\ z = Top.zone
                   /\ GfpCircularity \/ (LeavePredicate /\ ret = Valid)
      BY <1>3, <2>1, <2>3, PredicateTables
    <3>2. CallerClaims \subseteq Claims' /\ (Popped => Claims' = CallerClaims)
      <4>1. Popped => Claims' = CallerClaims
        BY <2>1, ClaimsMove
      <4>2. CASE Popped
        BY <4>1, <4>2
      <4>3. CASE UnfoldGfp \/ UnfoldLfp
        <5> DEFINE fr == [Top EXCEPT !.next = 1, !.saved = parentRef]
                   c == Call(input_pes.rhs[Top.formula.pred], Top.loc, Top.zone)
        <5>1. Waits(fr, c) /\ fr \in Frame /\ c \in Fresh
          BY <2>1, <4>3, PredicateMoves, UnfoldedTypes DEF Unfolded
        <5> HIDE DEF fr, c
        <5> QED
          BY <2>1, <4>1, <5>1, ClaimsMove
      <4> QED
        BY <1>3, <4>2, <4>3, PredicateMoves DEF do_proof_predicate, Answered, Left
    <3>3. Provable(input_pes, Claims) \subseteq Provable(input_pes, CallerClaims)
      <4>1. CASE LeavePredicate
        <5>1. ret = Valid
          BY <2>3, <4>1, PredicateMoves DEF Left
        <5> QED
          BY <4>1, <5>1, LeavingProves
      <4>2. CASE ~LeavePredicate
        <5>1. Top.next = 0
          BY <1>3, <4>2, PredicateMoves DEF do_proof_predicate, Answered, Unfolded
        <5> QED
          BY <2>1, <5>1, ClaimsOfTop
      <4> QED
        BY <4>1, <4>2
    <3>4. Provable(input_pes, CallerClaims) \subseteq Provable(input_pes, Claims')
      BY <3>2, ProvableMonotone
    <3>5. GfpCircularity \/ (LeavePredicate /\ ret = Valid) => Proves(input_pes, CallerClaims, Top)
      BY CircularityProves, LeavingProves
    <3>6. Proves(input_pes, CallerClaims, Top) => Proves(input_pes, Claims', Top)
      BY <3>4 DEF Proves, HoldsOn
    <3>7. Provable(input_pes, Claims) \subseteq Provable(input_pes, Claims')
      BY <3>3, <3>4
    <3>8. \A b \in Bin : \A z \in Xlist_true'[b].dbms :
             \/ z \in Xlist_true[b].dbms
             \/ /\ stack # << >> /\ IsPredicate(Top) /\ b = bin /\ z = Top.zone
                /\ Proves(input_pes, Claims', Top)
      BY <2>1, <3>1, <3>5, <3>6
    <3>9. TrueIsProved'
      BY <2>1, <3>7, <3>8, TrueStaysProved
    <3> QED
      BY <3>1, <3>9 DEF TablesProved
  <2> QED
    BY <2>2, <2>3
<1> QED
  BY <1>1, <1>2, <1>3

LEMMA TablesStart == Init => TablesProved
<1> SUFFICES ASSUME Init PROVE NothingIsFalse /\ TrueIsProved
  BY DEF TablesProved
<1>1. /\ \A b \in Bin : Xlist_true[b].dbms = {} /\ Xlist_false[b].dbms = {}
      /\ input_pes \in Systems
  BY DEF Init, CacheInit, NoSequent
<1>2. \A f \in Formula, l \in Loc : f.op = "PREDICATE" => get_index(input_pes.block[f.pred], l) \in Bin
  BY <1>1, FormulaAssumption, SystemsAssumption DEF get_index, Bin
<1> QED
  BY <1>1, <1>2 DEF NothingIsFalse, TrueIsProved

LEMMA NestedStarts ==
    ASSUME Init, NEW ops, NEW searched, NEW plain, OneSidedBy(input_pes, ops, searched, plain)
    PROVE  Nested(ops, searched, plain)
<1> DEFINE c == Call(input_pes.start, input_pes.loc, input_pes.zone)
<1>1. stack = <<c>> /\ c.formula \in searched
  BY DEF Init, Call, OneSidedBy
<1> HIDE DEF c
<1>2. Len(stack) = 1 /\ stack[1] = c /\ 2..1 = {}
  BY <1>1
<1>3. \A i \in 1..Len(stack) : i = 1 /\ (i + 1)..Len(stack) = {}
  BY <1>2
<1> QED
  BY <1>1, <1>2, <1>3 DEF Nested

TableInv ==
    /\ TypeOK
    /\ CyclesInv
    /\ OwnNumbers /\ Conjunctive =>
          /\ Search
          /\ TablesProved
          /\ \A searched, plain \in SUBSET Formula :
                OneSidedBy(input_pes, Disjunctions, searched, plain) => Nested(Disjunctions, searched, plain)
          /\ \A searched \in SUBSET Formula, below \in [Predicate -> SUBSET Formula] :
                DecidedBy(input_pes, searched, below) => Refutation(searched)

LEMMA NextTables == TableInv /\ [Next]_vars => TableInv'
<1> SUFFICES ASSUME TableInv, [Next]_vars PROVE TableInv'
  OBVIOUS
<1>1. TypeOK' /\ CyclesInv' /\ TypeOK /\ CyclesAreOpenCalls
  BY NextTypes, NextCycles DEF TableInv, CyclesInv
<1>2. input_pes' = input_pes
  BY <1>1, PredicateMoves DEF Next, vars
<1>3. SUFFICES ASSUME OwnNumbers, Conjunctive
               PROVE  /\ Search' /\ TablesProved'
                      /\ \A searched, plain \in SUBSET Formula :
                            OneSidedBy(input_pes, Disjunctions, searched, plain) => Nested(Disjunctions, searched, plain)'
                      /\ \A searched \in SUBSET Formula, below \in [Predicate -> SUBSET Formula] :
                            DecidedBy(input_pes, searched, below) => Refutation(searched)'
  BY <1>1, <1>2 DEF TableInv, OwnNumbers, Conjunctive, OneSided
<1>4. /\ Search /\ TablesProved
      /\ \A searched, plain \in SUBSET Formula :
            OneSidedBy(input_pes, Disjunctions, searched, plain) => Nested(Disjunctions, searched, plain)
      /\ \A searched \in SUBSET Formula, below \in [Predicate -> SUBSET Formula] :
            DecidedBy(input_pes, searched, below) => Refutation(searched)
  BY <1>3 DEF TableInv
<1>5. PICK searched \in SUBSET Formula, plain \in SUBSET Formula :
         OneSidedBy(input_pes, Disjunctions, searched, plain)
  BY <1>3 DEF Conjunctive, OneSided
<1>6. CASE Next
  <2>1. do_proof_predicate \/ (Connective /\ UNCHANGED cacheVars)
    BY <1>6 DEF Next
  <2>2. TablesProved'
    BY <1>1, <1>2, <1>3, <1>4, <1>5, <2>1, TablesNext
  <2>3. KnownTrueHit => Proves(input_pes, CallerClaims, Top)
    <3>1. KnownTrueHit => TrueIsProved
      BY <1>4 DEF KnownTrueHit, EnterPredicate, Entering, TablesProved, Final, Invalid
    <3> QED
      BY <1>1, <3>1, HitIsProved
  <2>4. Search'
    BY <1>1, <1>2, <1>3, <1>4, <2>1, <2>3, ConnectiveKeeps, PredicateKeeps
  <2>5. ASSUME NEW s \in SUBSET Formula, NEW p \in SUBSET Formula, OneSidedBy(input_pes, Disjunctions, s, p)
        PROVE  Nested(Disjunctions, s, p)'
    BY <1>1, <1>2, <1>4, <2>1, <2>5, NestedNext
  <2>6. ~KnownFalseHit
    BY <1>1, <1>4, NothingFalseIsHit
  <2>7. ASSUME NEW s \in SUBSET Formula, NEW below \in [Predicate -> SUBSET Formula],
               DecidedBy(input_pes, s, below)
        PROVE  Refutation(s)'
    BY <1>1, <1>2, <1>3, <1>4, <2>1, <2>6, <2>7, ConnectiveRefutes, PredicateRefutes
  <2> QED
    BY <2>2, <2>4, <2>5, <2>7
<1>7. CASE UNCHANGED vars
  <2>1. UNCHANGED <<input_pes, stack, ret, Xlist_true, Xlist_false>>
    BY <1>7 DEF vars, cacheVars, tables
  <2>2. Search' /\ TablesProved'
    BY <1>4, <2>1 DEF Search, TablesProved, Final, NothingIsFalse,
          TrueIsProved, Claims
  <2>3. \A s, p : Nested(Disjunctions, s, p) => Nested(Disjunctions, s, p)'
    BY <2>1 DEF Nested
  <2>4. \A s : Refutation(s) => Refutation(s)'
    BY <2>1 DEF Refutation
  <2> QED
    BY <1>4, <2>2, <2>3, <2>4
<1> QED
  BY <1>6, <1>7

\* Assumptions that are true may be made.
LEMMA TrueClaims ==
    ASSUME TypeOK,
           \A i \in 1..Len(stack) : Open(stack[i]) /\ IsGfp(stack[i])
              => HoldsOn(Truths(input_pes), stack[i].formula, stack[i].loc, stack[i].zone)
    PROVE  Provable(input_pes, Claims) \subseteq Truths(input_pes)
<1> DEFINE S == Supportable(input_pes, {})
<1>1. ASSUME NEW c \in Claims PROVE c \in S
  <2>1. PICK i \in 1..Len(stack) : c \in GfpClaims(input_pes, stack[i])
    BY DEF Claims, Assumed
  <2> DEFINE fr == stack[i]
  <2>2. /\ c \in Claim /\ Open(fr) /\ IsGfp(fr) /\ fr.formula.op = "PREDICATE"
        /\ c[1] = fr.formula.pred /\ c[2] = fr.loc /\ c[3] \in fr.zone
    BY <2>1 DEF GfpClaims, Open, IsPredicate, IsGfp
  <2>3. fr \in Frame
    BY ElementOfSeq DEF TypeOK
  <2>4. /\ fr.formula \in PlaceFormula /\ fr.loc \in Loc /\ c[3] \in Point
        /\ c = <<fr.formula.pred, fr.loc, c[3]>>
    BY <2>2, <2>3, FormulasArePlaced DEF Frame, Claim
  <2>5. <<fr.formula, fr.loc, c[3]>> \in Derivable(input_pes, S \cup {})
    BY <2>2 DEF HoldsOn, Truths, Provable
  <2>6. Follows(input_pes, S \cup {}, Derivable(input_pes, S \cup {}), fr.formula, fr.loc, c[3])
    BY <2>4, <2>5, Inversion
  <2> HIDE DEF fr, S
  <2>7. <<fr.formula.pred, fr.loc, c[3]>> \in S
    BY <2>2, <2>6 DEF Follows, IsGfp
  <2> QED
    BY <2>4, <2>7
<1>2. Supported(input_pes, {}, S)
  BY SupportableIsSupported
<1>3. Provable(input_pes, {}) = Derivable(input_pes, S \cup {})
  BY DEF Provable
<1>4. Provable(input_pes, {}) \subseteq Provable(input_pes, {} \cup Claims)
  BY ProvableMonotone
<1> HIDE DEF S
<1>5. \A e \in Claims : <<input_pes.rhs[e[1]], e[2], e[3]>> \in Provable(input_pes, {} \cup Claims)
  BY <1>1, <1>2, <1>3, <1>4 DEF Supported
<1>6. Claims \in SUBSET Claim
  BY DEF Claims, Assumed, GfpClaims
<1>7. Provable(input_pes, {} \cup Claims) \subseteq Provable(input_pes, {})
  BY <1>5, <1>6, Discharge
<1> QED
  BY <1>7 DEF Truths

LEMMA TablesStartAll == Init => TableInv
<1> SUFFICES ASSUME Init PROVE TableInv
  OBVIOUS
<1>1. TypeOK /\ CyclesInv /\ Search /\ TablesProved
  BY InitTypes, InitCycles, SearchStarts, TablesStart
<1> QED
  BY <1>1, NestedStarts, RefutationStarts DEF TableInv

\* The cache invariant: in a search that the first equation to fail ends, the
\* known-true table holds only what follows from the greatest fixpoints still
\* under proof, each time one of them is left, a verdict is replaced or purged.
THEOREM KnownTrueIsRight == Spec => [](OwnNumbers /\ Conjunctive => KnownTrueHolds)
<1>1. TableInv => (OwnNumbers /\ Conjunctive => KnownTrueHolds)
  <2> SUFFICES ASSUME TableInv, OwnNumbers, Conjunctive PROVE KnownTrueHolds
    OBVIOUS
  <2>1. TypeOK /\ TablesProved
    BY DEF TableInv
  <2>2. ret # Invalid => TrueIsProved
    BY <2>1 DEF TablesProved, Final
  <2> QED
    BY <2>1, <2>2, TrueClaims DEF KnownTrueHolds, TrueIsProved, HoldsOn
<1> QED
  BY <1>1, TablesStartAll, NextTables, PTL DEF Spec


-----------------------------------------------------------------------------
(***************************************************************************)
(* The dual: a search that the first equation to succeed ends.             *)
(***************************************************************************)

\* What is known to be false is refuted without unfolding the least fixpoints
\* under proof.
FalseIsRefuted ==
    \A f \in Formula, l \in Loc : f.op = "PREDICATE" =>
        \A z \in Xlist_false[get_index(input_pes.block[f.pred], l)].dbms :
            ~HoldsOn(TruthsBut(input_pes, NowBlocked), f, l, z)
NothingIsTrue == \A b \in Bin : Xlist_true[b].dbms = {}
TablesRefuted == Final(Valid) \/ (NothingIsTrue /\ (Decided => FalseIsRefuted))

\* What is blocked after a move.
LEMMA BlockedMove ==
    ASSUME TypeOK, stack # << >>, input_pes' = input_pes
    PROVE  /\ Popped => NowBlocked' = CallerBlocked
           /\ \A c \in Fresh : Replaced(c) => NowBlocked' = CallerBlocked
           /\ \A c \in Fresh, fr \in Frame : Waits(fr, c) => CallerBlocked \subseteq NowBlocked'
<1> DEFINE n == Len(stack)
<1>1. n \in Nat \ {0} /\ n - 1 \in Nat /\ stack \in Seq(Frame) /\ n - 1 \in 0..(n - 1)
  BY StackNonempty DEF TypeOK
<1>2. ASSUME \A i \in 1..(n - 1) : stack'[i] = stack[i]
      PROVE  Blocked(input_pes, stack', n - 1) = CallerBlocked
  BY <1>1, <1>2, BlockedSame DEF CallerBlocked
<1>3. ASSUME Popped PROVE NowBlocked' = CallerBlocked
  <2>1. Len(stack') = n - 1 /\ \A i \in 1..(n - 1) : stack'[i] = stack[i]
    BY <1>1, <1>3, PoppedStack
  <2> QED
    BY <1>2, <2>1 DEF NowBlocked
<1>4. ASSUME NEW c \in Fresh, Replaced(c) PROVE NowBlocked' = CallerBlocked
  <2>1. /\ Len(stack') = n /\ stack'[n].next = 0
        /\ \A i \in 1..(n - 1) : stack'[i] = stack[i]
    BY <1>1, <1>4, ReplacedStack DEF Fresh
  <2>2. Blocked(input_pes, stack', n) = Blocked(input_pes, stack', n - 1)
    BY <1>1, <2>1, BlockedStep
  <2> QED
    BY <1>2, <2>1, <2>2 DEF NowBlocked
<1>5. ASSUME NEW c \in Fresh, NEW fr \in Frame, Waits(fr, c)
      PROVE  CallerBlocked \subseteq NowBlocked'
  <2>1. Len(stack') = n + 1 /\ \A i \in 1..(n - 1) : stack'[i] = stack[i]
    BY <1>1, <1>5, WaitingStack DEF Fresh
  <2>2. \A i \in 1..(n - 1) : i \in 1..(n + 1)
    BY <1>1
  <2>3. Blocked(input_pes, stack', n - 1) \subseteq Blocked(input_pes, stack', n + 1)
    BY <2>2 DEF Blocked
  <2> QED
    BY <1>2, <2>1, <2>3 DEF NowBlocked
<1> QED
  BY <1>3, <1>4, <1>5

\* A predicate whose right-hand side fails is refuted, and what was refuted while
\* its claims were blocked is refuted without.
LEMMA LeavingRefutes ==
    ASSUME TypeOK, LeavePredicate, ret = Invalid,
           NEW searched \in SUBSET Formula, NEW below \in [Predicate -> SUBSET Formula],
           DecidedBy(input_pes, searched, below), Refutation(searched)
    PROVE  /\ ~Believed(input_pes, CallerBlocked, Top)
           /\ TruthsBut(input_pes, CallerBlocked) \subseteq TruthsBut(input_pes, NowBlocked)
<1> DEFINE F == CallerBlocked
           C == LfpClaims(input_pes, Top)
           f == Top.formula
<1>1. stack # << >> /\ IsPredicate(Top)
  BY PredicateMoves DEF do_proof_predicate, Left
<1>2. /\ f \in Formula /\ f.pred \in Predicate /\ Top.loc \in Loc
      /\ Top.zone \in SUBSET Point /\ f \in PlaceFormula /\ f.op = "PREDICATE"
  BY <1>1, TopPredicate, FormulasArePlaced DEF Zone, IsPredicate
<1>3. /\ NowBlocked = F \cup C /\ Met(searched, Top)
      /\ input_pes.gfp[f.pred] => NowBlocked = F
  BY <1>1, BlockedOfTop
<1>4. ~Believed(input_pes, F, Top)
  BY <1>1, UnfoldedFails
<1> HIDE DEF F
<1>5. ASSUME ~input_pes.gfp[f.pred]
      PROVE  TruthsBut(input_pes, F) \subseteq TruthsBut(input_pes, F \cup C)
  <2>1. \A q, r \in Point : q = r
    BY <1>2, <1>3, <1>5 DEF DecidedBy, Undivided, Met
  <2>2. PICK q \in Top.zone : <<f, Top.loc, q>> \notin TruthsBut(input_pes, F)
    BY <1>4 DEF Believed, HoldsOn
  <2>3. ASSUME NEW g \in PlaceFormula, NEW l \in Loc, NEW p \in Point,
               g.op = "PREDICATE", <<g.pred, l, p>> \in C
        PROVE  <<g, l, p>> \notin TruthsBut(input_pes, F)
    <3>1. g.pred = f.pred /\ l = Top.loc /\ p = q
      BY <1>2, <2>1, <2>3 DEF LfpClaims
    <3> QED
      BY <1>2, <2>2, <2>3, <3>1, SamePredicateBut
  <2> HIDE DEF C
  <2> QED
    BY <2>3, Withheld
<1> QED
  BY <1>3, <1>4, <1>5 DEF F

\* The known-false table gains at most the sequent of the innermost call.
LEMMA FalseStaysRefuted ==
    ASSUME TypeOK, TypeOK', OwnNumbers, input_pes' = input_pes, FalseIsRefuted,
           TruthsBut(input_pes, NowBlocked') \subseteq TruthsBut(input_pes, NowBlocked),
           \A b \in Bin : \A z \in Xlist_false'[b].dbms :
              \/ z \in Xlist_false[b].dbms
              \/ /\ stack # << >> /\ IsPredicate(Top) /\ b = bin /\ z = Top.zone
                 /\ ~Believed(input_pes, NowBlocked', Top)
    PROVE  FalseIsRefuted'
<1> SUFFICES ASSUME NEW f \in Formula, NEW l \in Loc, f.op = "PREDICATE",
                    NEW z \in Xlist_false'[get_index(input_pes.block[f.pred], l)].dbms,
                    HoldsOn(TruthsBut(input_pes, NowBlocked'), f, l, z)
             PROVE  FALSE
  BY DEF FalseIsRefuted
<1> DEFINE b == get_index(input_pes.block[f.pred], l)
<1>1. f.pred \in Predicate /\ b \in Bin /\ f \in PlaceFormula
  BY FormulaAssumption, SystemsAssumption, FormulasArePlaced DEF TypeOK, get_index, Bin
<1>2. CASE z \in Xlist_false[b].dbms
  <2>1. HoldsOn(TruthsBut(input_pes, NowBlocked), f, l, z)
    BY DEF HoldsOn
  <2> QED
    BY <1>2, <2>1 DEF FalseIsRefuted
<1>3. CASE /\ stack # << >> /\ IsPredicate(Top) /\ b = bin /\ z = Top.zone
           /\ ~Believed(input_pes, NowBlocked', Top)
  <2>1. /\ Top.formula \in PlaceFormula /\ Top.formula.op = "PREDICATE"
        /\ Top.formula.pred \in Predicate /\ Top.zone \in Zone
    BY <1>3, TopPredicate, FormulasArePlaced DEF IsPredicate
  <2>2. input_pes.block[f.pred] = input_pes.block[Top.formula.pred] /\ l = Top.loc
    BY <1>3 DEF bin, BinOf, get_index
  <2>3. f.pred = Top.formula.pred
    BY <1>1, <2>1, <2>2 DEF OwnNumbers
  <2>4. ASSUME NEW p \in Top.zone
        PROVE  <<Top.formula, Top.loc, p>> \in TruthsBut(input_pes, NowBlocked')
    <3>1. p \in Point /\ <<f, l, p>> \in TruthsBut(input_pes, NowBlocked')
      BY <1>3, <2>1 DEF HoldsOn, Zone
    <3> QED
      BY <1>1, <2>1, <2>2, <2>3, <3>1, SamePredicateBut
  <2> QED
    BY <1>3, <2>4 DEF Believed, HoldsOn
<1> QED
  BY <1>1, <1>2, <1>3

\* A hit in the known-false table answers what is refuted.
LEMMA HitIsRefuted ==
    ASSUME TypeOK, FalseIsRefuted, KnownFalseHit, NEW searched, Refutation(searched)
    PROVE  ~Believed(input_pes, CallerBlocked, Top)
<1>1. stack # << >> /\ IsPredicate(Top) /\ Top.next = 0 /\ KnownFalse(bin, Top.zone)
  BY DEF KnownFalseHit, EnterPredicate, Entering, is_known_false_sequent
<1>2. Top.formula \in Formula /\ Top.loc \in Loc /\ Top.formula.op = "PREDICATE"
  BY <1>1, TopPredicate DEF IsPredicate
<1>3. PICK z \in Xlist_false[bin].dbms : z \subseteq Top.zone
  BY <1>1 DEF KnownFalse, tabled_false_sequent
<1>4. ~HoldsOn(TruthsBut(input_pes, NowBlocked), Top.formula, Top.loc, z)
  BY <1>2, <1>3 DEF FalseIsRefuted, bin, BinOf
<1>5. NowBlocked = CallerBlocked
  BY <1>1, BlockedOfTop
<1> QED
  BY <1>3, <1>4, <1>5 DEF Believed, HoldsOn

\* A hit in the known-true table does not occur: what is there ended the search.
LEMMA NothingTrueIsHit ==
    ASSUME TypeOK, TablesRefuted
    PROVE  ~KnownTrueHit
<1> SUFFICES ASSUME KnownTrueHit PROVE FALSE
  OBVIOUS
<1>1. /\ stack # << >> /\ IsPredicate(Top) /\ ret = "none"
      /\ \E z \in Xlist_true[bin].dbms : Top.zone \subseteq z
  BY DEF KnownTrueHit, EnterPredicate, Entering, is_known_true_sequent, KnownTrue,
         tabled_sequent
<1>2. bin \in Bin
  BY <1>1, TopPredicate
<1> QED
  BY <1>1, <1>2 DEF TablesRefuted, Final, NothingIsTrue, Valid

\* What a predicate does to the verdict tables, unless it proves.
LEMMA PredicateFailures ==
    ASSUME TypeOK, do_proof_predicate, NothingIsTrue, ret' # Valid
    PROVE  /\ NothingIsTrue'
           /\ \A b \in Bin : \A z \in Xlist_false'[b].dbms :
                 \/ z \in Xlist_false[b].dbms
                 \/ /\ b = bin /\ z = Top.zone
                    /\ LfpCircularity \/ (LeavePredicate /\ ret = Invalid)
<1> DEFINE Gains == LfpCircularity \/ (LeavePredicate /\ ret = Invalid)
           Goal == /\ NothingIsTrue'
                   /\ \A b \in Bin : \A z \in Xlist_false'[b].dbms :
                         z \in Xlist_false[b].dbms \/ (b = bin /\ z = Top.zone /\ Gains)
<1> SUFFICES Goal
  OBVIOUS
<1>1. stack # << >> /\ IsPredicate(Top)
  BY PredicateMoves
<1>2. bin \in Bin /\ Top.zone \in Zone
  BY <1>1, TopPredicate
<1>3. Xlist_true \in VerdictTable /\ Xlist_false \in VerdictTable
  BY DEF TypeOK, CacheTypeOK, VerdictTable
<1>4. CASE UNCHANGED tables
  BY <1>4 DEF tables, NothingIsTrue
<1>5. ~KnownTrueHit /\ ~GfpCircularity
  BY DEF KnownTrueHit, GfpCircularity, Return
<1>6. CASE KnownFalseHit
  <2>1. Xlist_false' = addParent(Xlist_false, bin, parentRef) /\ Xlist_true' = Xlist_true
    BY <1>6 DEF KnownFalseHit, is_known_false_sequent
  <2>2. \A b \in Bin : Xlist_false'[b].dbms = Xlist_false[b].dbms
    BY <1>2, <1>3, <2>1, AddParentDbms
  <2> QED
    BY <2>1, <2>2 DEF NothingIsTrue
<1>7. CASE LfpCircularity /\ useCaching
  <2>1. Xlist_false' \in cache_false_sequent(Xlist_false, bin, Top.zone) /\ Xlist_true' = Xlist_true
    BY <1>7 DEF LfpCircularity
  <2>2. \A b \in Bin : Xlist_false'[b].dbms
                          \subseteq Xlist_false[b].dbms \cup (IF b = bin THEN {Top.zone} ELSE {})
    BY <1>2, <1>3, <2>1, CacheAdds
  <2> HIDE DEF Gains
  <2>3. Gains
    BY <1>7 DEF Gains
  <2> QED
    BY <2>1, <2>2, <2>3 DEF NothingIsTrue
<1>8. CASE LeavePredicate /\ useCaching
  <2> DEFINE purged == purge_true_sequent(bin, Top.zone)
  <2>1. ret = Invalid /\ UpdateCaches
    BY <1>8 DEF LeavePredicate, Return, UpdateCaches
  <2>2. /\ Xlist_false' \in cache_false_sequent(purged.false, bin, Top.zone)
        /\ Xlist_true' = purged.true
    BY <1>8, <2>1 DEF UpdateCaches, Valid, Invalid
  <2>3. purged.false \in VerdictTable
    BY <1>2, <1>3, PurgeType
  <2>4. \A b \in Bin : /\ purged.true[b].dbms \subseteq Xlist_true[b].dbms
                       /\ purged.false[b].dbms \subseteq Xlist_false[b].dbms
    BY <1>2, <1>3, PurgeRemoves
  <2> HIDE DEF purged, Gains
  <2>5. \A b \in Bin : Xlist_false'[b].dbms
                          \subseteq purged.false[b].dbms \cup (IF b = bin THEN {Top.zone} ELSE {})
    BY <1>2, <2>2, <2>3, CacheAdds
  <2>6. Gains
    BY <1>8, <2>1 DEF Gains
  <2>7. NothingIsTrue'
    BY <2>2, <2>4 DEF NothingIsTrue
  <2> QED
    BY <2>4, <2>5, <2>6, <2>7
<1>9. CASE ~useCaching \/ UnfoldGfp \/ UnfoldLfp
  <2>1. UNCHANGED tables
    BY <1>5, <1>9 DEF do_proof_predicate, KnownFalseHit, LfpCircularity, UnfoldGfp, UnfoldLfp,
          LeavePredicate, UpdateCaches, tables
  <2> QED
    BY <1>4, <2>1
<1> HIDE DEF Goal
<1> QED
  BY <1>5, <1>6, <1>7, <1>8, <1>9 DEF do_proof_predicate

\* The blocked claims after a predicate has moved.
LEMMA PredicateBlocks ==
    ASSUME TypeOK, do_proof_predicate, input_pes' = input_pes
    PROVE  /\ CallerBlocked \subseteq NowBlocked'
           /\ ~LeavePredicate => Top.next = 0
           /\ (LfpCircularity \/ LeavePredicate) => NowBlocked' = CallerBlocked
<1>1. stack # << >> /\ IsPredicate(Top)
  BY PredicateMoves
<1>2. Popped => NowBlocked' = CallerBlocked
  BY <1>1, BlockedMove
<1>3. CASE Popped
  BY <1>2, <1>3, PredicateMoves DEF do_proof_predicate, Answered, Unfolded
<1>4. CASE UnfoldGfp \/ UnfoldLfp
  <2> DEFINE fr == [Top EXCEPT !.next = 1, !.saved = parentRef]
             c == Call(input_pes.rhs[Top.formula.pred], Top.loc, Top.zone)
  <2>1. Waits(fr, c) /\ fr \in Frame /\ c \in Fresh
    BY <1>1, <1>4, PredicateMoves, UnfoldedTypes DEF Unfolded
  <2> HIDE DEF fr, c
  <2>2. CallerBlocked \subseteq NowBlocked'
    BY <1>1, <2>1, BlockedMove
  <2>3. Top.next = 0
    BY <1>4, PredicateMoves DEF Unfolded
  <2>4. (LfpCircularity \/ LeavePredicate) => Popped
    BY PredicateMoves DEF Answered, Left
  <2> QED
    BY <1>2, <2>2, <2>3, <2>4
<1> QED
  BY <1>3, <1>4, PredicateMoves DEF do_proof_predicate, Answered, Left

LEMMA FalseRefutedNext ==
    ASSUME TypeOK, TypeOK', OwnNumbers, CyclesAreOpenCalls, input_pes' = input_pes,
           NEW searched \in SUBSET Formula, NEW below \in [Predicate -> SUBSET Formula],
           DecidedBy(input_pes, searched, below), Refutation(searched),
           do_proof_predicate, ret' # Valid, NothingIsTrue, FalseIsRefuted
    PROVE  FalseIsRefuted'
<1> DEFINE T(F) == TruthsBut(input_pes, F)
<1>1. stack # << >> /\ IsPredicate(Top)
  BY PredicateMoves
<1>2. /\ CallerBlocked \subseteq NowBlocked'
      /\ ~LeavePredicate => Top.next = 0
      /\ LfpCircularity \/ LeavePredicate => NowBlocked' = CallerBlocked
  BY PredicateBlocks
<1>3. T(NowBlocked') \subseteq T(CallerBlocked)
  BY <1>2, BlockedDerivesLess
<1>4. T(CallerBlocked) \subseteq T(NowBlocked)
  <2>1. CASE LeavePredicate
    <3>1. ret = Invalid
      BY <2>1 DEF LeavePredicate, Return, Resuming, TypeOK
    <3> QED
      BY <2>1, <3>1, LeavingRefutes
  <2>2. CASE ~LeavePredicate
    BY <1>1, <1>2, <2>2, BlockedOfTop
  <2> QED
    BY <2>1, <2>2
<1>5. LfpCircularity \/ (LeavePredicate /\ ret = Invalid)
         => ~Believed(input_pes, NowBlocked', Top)
  BY <1>2, CircularityRefutes, LeavingRefutes
<1>6. \A b \in Bin : \A z \in Xlist_false'[b].dbms :
         \/ z \in Xlist_false[b].dbms
         \/ /\ b = bin /\ z = Top.zone
            /\ LfpCircularity \/ (LeavePredicate /\ ret = Invalid)
  BY PredicateFailures
<1>7. \A b \in Bin : \A z \in Xlist_false'[b].dbms :
         \/ z \in Xlist_false[b].dbms
         \/ /\ stack # << >> /\ IsPredicate(Top) /\ b = bin /\ z = Top.zone
            /\ ~Believed(input_pes, NowBlocked', Top)
  BY <1>1, <1>5, <1>6
<1>8. T(NowBlocked') \subseteq T(NowBlocked)
  BY <1>3, <1>4
<1> QED
  BY <1>7, <1>8, FalseStaysRefuted

LEMMA FailuresNext ==
    ASSUME TypeOK, TypeOK', OwnNumbers, CyclesAreOpenCalls, input_pes' = input_pes,
           NEW searched, NEW plain, OneSidedBy(input_pes, Conjunctions, searched, plain),
           Nested(Conjunctions, searched, plain), TablesRefuted,
           \A fs \in SUBSET Formula, below \in [Predicate -> SUBSET Formula] :
              DecidedBy(input_pes, fs, below) => Refutation(fs),
           do_proof_predicate \/ (Connective /\ UNCHANGED cacheVars)
    PROVE  TablesRefuted'
<1>1. CASE Final(Valid)
  BY <1>1, StaysFinal DEF TablesRefuted
<1>2. CASE ~Final(Valid) /\ do_proof_predicate /\ ret' = Valid
  BY <1>2, AnswerIsFinal DEF TablesRefuted, OpsAgainst, Valid, Invalid
<1>3. SUFFICES ASSUME ~Final(Valid), ~(do_proof_predicate /\ ret' = Valid)
               PROVE  NothingIsTrue' /\ (Decided => FalseIsRefuted')
  <2>1. Decided' = Decided
    BY DEF Decided
  <2> QED
    BY <1>1, <1>2, <2>1 DEF TablesRefuted
<1>4. NothingIsTrue /\ (Decided => FalseIsRefuted)
  BY <1>3 DEF TablesRefuted
<1>5. NothingIsTrue'
  <2>1. CASE do_proof_predicate
    BY <1>3, <1>4, <2>1, PredicateFailures
  <2>2. CASE UNCHANGED cacheVars
    BY <1>4, <2>2 DEF NothingIsTrue, cacheVars, tables
  <2> QED
    BY <2>1, <2>2
<1>6. ASSUME Decided PROVE FalseIsRefuted'
  <2>1. PICK fs \in SUBSET Formula, below \in [Predicate -> SUBSET Formula] :
           DecidedBy(input_pes, fs, below)
    BY <1>6 DEF Decided
  <2>2. Refutation(fs) /\ FalseIsRefuted
    BY <1>4, <1>6, <2>1
  <2>3. CASE do_proof_predicate
    BY <1>3, <1>4, <2>1, <2>2, <2>3, FalseRefutedNext
  <2>4. CASE Connective /\ UNCHANGED cacheVars
    <3>1. stack # << >> /\ Top.formula.op # "PREDICATE"
      BY <2>4, ConnectiveMoves DEF IsPredicate
    <3>2. CallerBlocked \subseteq NowBlocked'
      BY <2>4, <3>1, ChildIsOperand, BlockedMove
    <3>3. NowBlocked = CallerBlocked
      BY <2>2, <3>1, BlockedOfTop
    <3>4. TruthsBut(input_pes, NowBlocked') \subseteq TruthsBut(input_pes, NowBlocked)
      BY <3>2, <3>3, BlockedDerivesLess
    <3>5. \A b \in Bin : \A z \in Xlist_false'[b].dbms : z \in Xlist_false[b].dbms
      BY <2>4 DEF cacheVars, tables
    <3> QED
      BY <2>2, <3>4, <3>5, FalseStaysRefuted
  <2> QED
    BY <2>3, <2>4
<1> QED
  BY <1>5, <1>6

FailureInv ==
    /\ TypeOK
    /\ CyclesInv
    /\ OwnNumbers /\ Disjunctive =>
          /\ Search
          /\ TablesRefuted
          /\ \A searched, plain \in SUBSET Formula :
                OneSidedBy(input_pes, Conjunctions, searched, plain) => Nested(Conjunctions, searched, plain)
          /\ \A searched \in SUBSET Formula, below \in [Predicate -> SUBSET Formula] :
                DecidedBy(input_pes, searched, below) => Refutation(searched)

LEMMA FailuresStart == Init => FailureInv
<1> SUFFICES ASSUME Init PROVE FailureInv
  OBVIOUS
<1>1. /\ \A b \in Bin : Xlist_true[b].dbms = {} /\ Xlist_false[b].dbms = {}
      /\ input_pes \in Systems
  BY DEF Init, CacheInit, NoSequent
<1>2. \A f \in Formula, l \in Loc : f.op = "PREDICATE" => get_index(input_pes.block[f.pred], l) \in Bin
  BY <1>1, FormulaAssumption, SystemsAssumption DEF get_index, Bin
<1>3. TablesRefuted
  BY <1>1, <1>2 DEF TablesRefuted, NothingIsTrue, FalseIsRefuted
<1>4. TypeOK /\ CyclesInv /\ Search
  BY InitTypes, InitCycles, SearchStarts
<1> QED
  BY <1>3, <1>4, NestedStarts, RefutationStarts DEF FailureInv

LEMMA NextFailures == FailureInv /\ [Next]_vars => FailureInv'
<1> SUFFICES ASSUME FailureInv, [Next]_vars PROVE FailureInv'
  OBVIOUS
<1>1. TypeOK' /\ CyclesInv' /\ TypeOK /\ CyclesAreOpenCalls
  BY NextTypes, NextCycles DEF FailureInv, CyclesInv
<1>2. input_pes' = input_pes
  BY <1>1, PredicateMoves DEF Next, vars
<1>3. SUFFICES ASSUME OwnNumbers, Disjunctive
               PROVE  /\ Search' /\ TablesRefuted'
                      /\ \A searched, plain \in SUBSET Formula :
                            OneSidedBy(input_pes, Conjunctions, searched, plain) => Nested(Conjunctions, searched, plain)'
                      /\ \A searched \in SUBSET Formula, below \in [Predicate -> SUBSET Formula] :
                            DecidedBy(input_pes, searched, below) => Refutation(searched)'
  BY <1>1, <1>2 DEF FailureInv, OwnNumbers, Disjunctive, OneSided
<1>4. /\ Search /\ TablesRefuted
      /\ \A searched, plain \in SUBSET Formula :
            OneSidedBy(input_pes, Conjunctions, searched, plain) => Nested(Conjunctions, searched, plain)
      /\ \A searched \in SUBSET Formula, below \in [Predicate -> SUBSET Formula] :
            DecidedBy(input_pes, searched, below) => Refutation(searched)
  BY <1>3 DEF FailureInv
<1>5. PICK searched \in SUBSET Formula, plain \in SUBSET Formula :
         OneSidedBy(input_pes, Conjunctions, searched, plain)
  BY <1>3 DEF Disjunctive, OneSided
<1>6. CASE Next
  <2>1. do_proof_predicate \/ (Connective /\ UNCHANGED cacheVars)
    BY <1>6 DEF Next
  <2>2. TablesRefuted'
    BY <1>1, <1>2, <1>3, <1>4, <1>5, <2>1, FailuresNext
  <2>3. ~KnownTrueHit
    BY <1>1, <1>4, NothingTrueIsHit
  <2>4. Search'
    BY <1>1, <1>2, <1>3, <1>4, <2>1, <2>3, ConnectiveKeeps, PredicateKeeps
  <2>5. ASSUME NEW s \in SUBSET Formula, NEW p \in SUBSET Formula, OneSidedBy(input_pes, Conjunctions, s, p)
        PROVE  Nested(Conjunctions, s, p)'
    BY <1>1, <1>2, <1>4, <2>1, <2>5, NestedNext
  <2>6. ASSUME NEW s \in SUBSET Formula, NEW below \in [Predicate -> SUBSET Formula],
               DecidedBy(input_pes, s, below)
        PROVE  Refutation(s)'
    <3>1. Refutation(s) /\ Decided
      BY <1>4, <2>6 DEF Decided
    <3>2. KnownFalseHit => FalseIsRefuted
      BY <1>4, <3>1 DEF KnownFalseHit, EnterPredicate, Entering, TablesRefuted, Final, Valid
    <3>3. KnownFalseHit => ~Believed(input_pes, CallerBlocked, Top)
      BY <1>1, <3>1, <3>2, HitIsRefuted
    <3> QED
      BY <1>1, <1>2, <1>3, <2>1, <2>6, <3>1, <3>3, ConnectiveRefutes, PredicateRefutes
  <2> QED
    BY <2>2, <2>4, <2>5, <2>6
<1>7. CASE UNCHANGED vars
  <2>1. UNCHANGED <<input_pes, stack, ret, Xlist_true, Xlist_false>>
    BY <1>7 DEF vars, cacheVars, tables
  <2>2. Search' /\ TablesRefuted'
    BY <1>4, <2>1 DEF Search, TablesRefuted, Final, NothingIsTrue,
          FalseIsRefuted, NowBlocked, Decided
  <2>3. \A s, p : Nested(Conjunctions, s, p) => Nested(Conjunctions, s, p)'
    BY <2>1 DEF Nested
  <2>4. \A s : Refutation(s) => Refutation(s)'
    BY <2>1 DEF Refutation
  <2> QED
    BY <1>4, <2>2, <2>3, <2>4
<1> QED
  BY <1>6, <1>7

\* Claims that are false may be blocked.
LEMMA FalseClaims ==
    ASSUME TypeOK, NEW searched \in SUBSET Formula,
           NEW below \in [Predicate -> SUBSET Formula],
           DecidedBy(input_pes, searched, below), Refutation(searched),
           \A i \in 1..Len(stack) : Open(stack[i]) /\ ~IsGfp(stack[i])
              => ~HoldsOn(Truths(input_pes), stack[i].formula, stack[i].loc, stack[i].zone)
    PROVE  Truths(input_pes) \subseteq TruthsBut(input_pes, NowBlocked)
<1> DEFINE T == TruthsBut(input_pes, {})
<1>1. T = Truths(input_pes)
  BY NothingBlocked
<1>2. ASSUME NEW f \in PlaceFormula, NEW l \in Loc, NEW p \in Point,
             f.op = "PREDICATE", <<f.pred, l, p>> \in NowBlocked
      PROVE  <<f, l, p>> \notin T
  <2>1. PICK i \in 1..Len(stack) : <<f.pred, l, p>> \in LfpClaims(input_pes, stack[i])
    BY <1>2 DEF NowBlocked, Blocked
  <2> DEFINE fr == stack[i]
  <2>2. /\ Open(fr) /\ ~IsGfp(fr) /\ fr.formula.op = "PREDICATE"
        /\ f.pred = fr.formula.pred /\ l = fr.loc /\ p \in fr.zone
    BY <2>1 DEF LfpClaims, Open, IsPredicate, IsGfp
  <2>3. fr \in Frame /\ Met(searched, fr)
    BY ElementOfSeq DEF TypeOK, Refutation
  <2>4. fr.formula \in PlaceFormula /\ fr.zone \in SUBSET Point
    BY <2>3, FormulasArePlaced DEF Frame, Zone
  <2>5. \A q, r \in Point : q = r
    BY <2>2, <2>3 DEF DecidedBy, Undivided, Met, IsGfp
  <2>6. ~HoldsOn(T, fr.formula, fr.loc, fr.zone)
    BY <1>1, <2>2
  <2> HIDE DEF T, fr
  <2>7. PICK q \in fr.zone : <<fr.formula, fr.loc, q>> \notin T
    BY <2>6 DEF HoldsOn
  <2>8. q = p
    BY <2>4, <2>5
  <2>9. <<f, l, p>> \in T => <<fr.formula, l, p>> \in T
    BY <1>2, <2>2, <2>4, SamePredicateBut DEF T
  <2> QED
    BY <2>2, <2>7, <2>8, <2>9
<1>3. TruthsBut(input_pes, {}) \subseteq TruthsBut(input_pes, {} \cup NowBlocked)
  BY <1>2, Withheld
<1>4. {} \cup NowBlocked = NowBlocked
  OBVIOUS
<1> QED
  BY <1>1, <1>3, <1>4

\* The dual cache invariant: in a search that the first equation to succeed ends,
\* the known-false table holds only what fails if the least fixpoints still under
\* proof do.
THEOREM KnownFalseIsRight == Spec => [](OwnNumbers /\ Disjunctive /\ Decided => KnownFalseHolds)
<1>1. FailureInv => (OwnNumbers /\ Disjunctive /\ Decided => KnownFalseHolds)
  <2>1. SUFFICES ASSUME FailureInv, OwnNumbers, Disjunctive, Decided, ret # Valid,
                        \A i \in 1..Len(stack) : Open(stack[i]) /\ ~IsGfp(stack[i])
                           => ~HoldsOn(Truths(input_pes), stack[i].formula, stack[i].loc,
                                       stack[i].zone)
                 PROVE  \A f \in Formula, l \in Loc : f.op = "PREDICATE" =>
                           \A z \in Xlist_false[get_index(input_pes.block[f.pred], l)].dbms :
                               ~HoldsOn(Truths(input_pes), f, l, z)
    BY DEF KnownFalseHolds
  <2>2. PICK fs \in SUBSET Formula, below \in [Predicate -> SUBSET Formula] :
           DecidedBy(input_pes, fs, below)
    BY <2>1 DEF Decided
  <2>3. TypeOK /\ Refutation(fs) /\ FalseIsRefuted
    BY <2>1, <2>2 DEF FailureInv, TablesRefuted, Final
  <2>4. Truths(input_pes) \subseteq TruthsBut(input_pes, NowBlocked)
    BY <2>1, <2>2, <2>3, FalseClaims
  <2>5. \A f, l, z : HoldsOn(Truths(input_pes), f, l, z)
                        => HoldsOn(TruthsBut(input_pes, NowBlocked), f, l, z)
    BY <2>4 DEF HoldsOn
  <2> QED
    BY <2>3, <2>5 DEF FalseIsRefuted
<1> QED
  BY <1>1, FailuresStart, NextFailures, PTL DEF Spec

\* With the verdict tables in use, which is the program's default, a search that
\* the first equation to fail ends, or the first one to succeed, never proves what
\* is false, nor refutes what is true where the rules are not too weak.
THEOREM CachingIsRight ==
    Spec => [](OwnNumbers /\ (Conjunctive \/ Disjunctive)
                  => ValidHolds /\ (Decided => InvalidHolds))
<1> DEFINE Answers == Search /\ \A searched \in SUBSET Formula,
                                   below \in [Predicate -> SUBSET Formula] :
                                   DecidedBy(input_pes, searched, below) => Refutation(searched)
<1>1. Answers => ValidHolds /\ (Decided => InvalidHolds)
  BY SearchAnswers, RefutationAnswers DEF Decided
<1>2. TableInv /\ OwnNumbers /\ Conjunctive => Answers
  BY DEF TableInv
<1>3. FailureInv /\ OwnNumbers /\ Disjunctive => Answers
  BY DEF FailureInv
<1>4. TableInv /\ FailureInv => (OwnNumbers /\ (Conjunctive \/ Disjunctive)
                                    => ValidHolds /\ (Decided => InvalidHolds))
  BY <1>1, <1>2, <1>3
<1> QED
  BY <1>4, TablesStartAll, NextTables, FailuresStart, NextFailures, PTL DEF Spec

=============================================================================
