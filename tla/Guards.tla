------------------------------- MODULE Guards -------------------------------
(***************************************************************************)
(* How a transition or an implication narrows a zone, down to the matrices *)
(* and their flags: comp_ph and its two variants with a placeholder        *)
(* (comp_ph.hh), then the invariant of the location a transition enters,   *)
(* carried back over its resets and assignments (proof.hh, in all three    *)
(* action rules).  Prover and ProverPlace take this for one step on sets   *)
(* of valuations.                                                          *)
(*                                                                         *)
(* The sequence of one call is modelled, for every input of a small set.   *)
(***************************************************************************)
EXTENDS ZoneLists

CONSTANTS Inputs,      \* the calls, see GuardsAssumption
          Invariants   \* the clauses of the invariant: where they hold, and what they say

ASSUME GuardsAssumption ==
    \A in \in Inputs :
        /\ in.rule \in {"imply", "allact", "place_allact", "existact"}
        /\ in.zone.cf /\ in.place.cf
        /\ in.edge.resets \subseteq Clocks
        /\ in.edge.assignments \in Seq(Clocks \X Clocks)

VARIABLES in,        \* the rule with its guard, location, transition, zone and placeholder
          pc,
          zone,      \* guard_zone
          place,     \* guard_placeholder, then the placeholder handed on
          inv,       \* invariant_zone
          pending,   \* the assignments the invariant has still to be carried over
          tame       \* history: every preset so far was one PresetsExact speaks of

vars == <<in, pc, zone, place, inv, pending, tame>>

----------------------------------------------------------------------------
(* Evaluating a guard; s is [ok, zone, place] *)

Tightened(z, m) == cfZone(intersectZone(z, Zone(m, FALSE)))

\* comp_ph
TightenZone(s, m) ==
    LET z == Tightened(s.zone, m) IN [s EXCEPT !.zone = z, !.ok = ~emptiness(z.m)]

\* Mutant: the placeholder is left alone.
TightenBoth_ZoneOnly(s, m) == TightenZone(s, m)

\* comp_ph_all_place
TightenBoth(s, m) ==
    LET z == Tightened(s.zone, m)
        p == cf(intersectListZone(s.place, Zone(m, FALSE)), FALSE)
    IN  IF emptiness(z.m) THEN [s EXCEPT !.zone = z, !.ok = FALSE]
        ELSE [ok |-> ~EmptyOf(p), zone |-> z, place |-> p]

\* comp_ph_exist_place
TightenUnlessImplied(s, m) ==
    IF Includes(s.zone.m, m) THEN [s EXCEPT !.ok = TRUE] ELSE TightenBoth(s, m)

Narrow(s, m) ==
    CASE in.rule = "place_allact" -> TightenBoth(s, m)
      [] in.rule = "existact" -> TightenUnlessImplied(s, m)
      [] OTHER -> TightenZone(s, m)

eval_atomic(e) == in.loc \in e.locs

\* A disjunction goes on from what its left operand has made of the zone.
RECURSIVE Evaluate(_, _)
Evaluate(e, s) ==
    CASE e.op \in {"OR", "OR_SIMPLE"} ->
            LET l == Evaluate(e.left, s) IN IF l.ok THEN l ELSE Evaluate(e.right, l)
      [] e.op = "AND" ->
            LET l == Evaluate(e.left, s) IN IF l.ok THEN Evaluate(e.right, l) ELSE l
      [] e.op = "CONSTRAINT" -> Narrow(s, e.m)
      [] OTHER -> [s EXCEPT !.ok = eval_atomic(e)]

----------------------------------------------------------------------------
(* One call *)

Unconstrained == cfZone(Zone(makeInfty, FALSE))      \* INFTYDBM

Init ==
    /\ in \in Inputs
    /\ pc = "start"
    /\ zone = in.zone
    /\ place = in.place
    /\ inv = Unconstrained
    /\ pending = in.edge.assignments
    /\ tame = TRUE

EvaluateGuard ==
    LET s == Evaluate(in.guard, [ok |-> TRUE, zone |-> zone, place |-> place])
    IN  /\ pc = "start"
        /\ pc' = IF s.ok THEN "guarded" ELSE "refused"
        /\ zone' = s.zone /\ place' = s.place
        /\ UNCHANGED <<in, inv, pending, tame>>

IsTransition == in.rule # "imply"

\* The clauses whose premise holds in the location entered (comp_ph_invs).
Entered == SelectSeq(Invariants, LAMBDA c : in.edge.dest \in c.locs)

\* The placeholder an action rule hands on: place_allact starts from a copy.
Handed == IF in.rule = "place_allact" THEN in.place ELSE place

EnterFreely ==
    /\ pc = "guarded"
    /\ ~IsTransition \/ Entered = <<>>
    /\ pc' = "entering"
    /\ place' = Handed
    /\ UNCHANGED <<in, zone, inv, pending, tame>>

\* Mutant: only the first clause is looked at.
RestrictToInvariant_FirstOnly ==
    /\ pc = "guarded"
    /\ IsTransition /\ Entered # <<>>
    /\ pc' = "resets"
    /\ inv' = Tightened(inv, Head(Entered).m)
    /\ UNCHANGED <<in, zone, place, pending, tame>>

RestrictToInvariant ==
    /\ pc = "guarded"
    /\ IsTransition /\ Entered # <<>>
    /\ pc' = "resets"
    /\ inv' = cfZone(FoldLeft(LAMBDA z, c : intersectZone(z, Zone(c.m, FALSE)), inv, Entered))
    /\ UNCHANGED <<in, zone, place, pending, tame>>

PresetResets ==
    LET rs == in.edge.resets
        m == inv.m
    IN  /\ pc = "resets"
        /\ pc' = "assignments"
        /\ inv' = IF rs = {} THEN inv ELSE cfZone(Zone(preset(m, rs), PresetIsEmpty(m, rs)))
        /\ tame' = (\A x \in rs : m[0][x] # zero_less)
        /\ UNCHANGED <<in, zone, place, pending>>

\* The first assignment first, although inverse images compose in reverse.
PresetAssignment ==
    LET x == Head(pending)[1]
        y == Head(pending)[2]
        m == inv.m
        p == preset_assign(m, x, y)
    IN  /\ pc = "assignments" /\ pending # <<>>
        /\ inv' = cfZone(Zone(p, p = makeEmpty))
        /\ pending' = Tail(pending)
        /\ tame' = (tame /\ \A q \in Index \ {x} : m[q][x] >= m[q][y] /\ m[x][q] >= m[y][q])
        /\ UNCHANGED <<in, pc, zone, place>>

\* The zone, and the placeholder, meet what the invariant requires.  The rules
\* with a placeholder look whether it requires anything; ALLACT gives up when
\* no valuation of the zone is left, EXISTACT when none of the placeholder is.
MeetInvariant ==
    LET z == cfZone(intersectZone(zone, inv))
        p == cf(intersectListZone(Handed, inv), FALSE)
        implied == in.rule # "allact" /\ Includes(zone.m, inv.m)
        gone == IF in.rule = "existact" THEN EmptyOf(p) ELSE emptiness(z.m)
    IN  /\ pc = "assignments" /\ pending = <<>>
        /\ pc' = IF ~implied /\ gone THEN "skipped" ELSE "entering"
        /\ zone' = IF implied THEN zone ELSE z
        /\ place' = IF implied \/ in.rule = "allact" THEN Handed ELSE p
        /\ UNCHANGED <<in, inv, pending, tame>>

Extrapolate ==
    /\ pc = "entering"
    /\ pc' = "entered"
    /\ zone' = cfZone(Zone(bound(zone.m), FALSE))
    /\ UNCHANGED <<in, place, inv, pending, tame>>

Next ==
    \/ EvaluateGuard \/ EnterFreely
    \/ RestrictToInvariant \/ PresetResets \/ PresetAssignment \/ MeetInvariant
    \/ Extrapolate

Spec == Init /\ [][Next]_vars

----------------------------------------------------------------------------
(* What a guard and a transition mean *)

RECURSIVE Holds(_, _)
Holds(e, v) ==
    CASE e.op \in {"OR", "OR_SIMPLE"} -> Holds(e.left, v) \/ Holds(e.right, v)
      [] e.op = "AND" -> Holds(e.left, v) /\ Holds(e.right, v)
      [] e.op = "CONSTRAINT" -> In(v, e.m)
      [] OTHER -> in.loc \in e.locs

\* The assignments are executed in the order written, then the resets.
Perform(assignments, v) ==
    FoldLeft(LAMBDA u, a : WithClocks(u, {a[1]}, u[a[2]]), v, assignments)
After(v) == WithClocks(Perform(in.edge.assignments, v), in.edge.resets, 0)
MayEnter(v) == \A n \in DOMAIN Entered : In(After(v), Entered[n].m)

InPlace(v, l) == \E n \in DOMAIN l.dbms : In(v, l.dbms[n].m)

RECURSIVE Constraints(_)
Constraints(e) ==
    CASE e.op \in {"AND", "OR", "OR_SIMPLE"} -> Constraints(e.left) + Constraints(e.right)
      [] e.op = "CONSTRAINT" -> 1
      [] OTHER -> 0

RECURSIVE ChoosesByLocation(_)
ChoosesByLocation(e) ==
    CASE e.op \in {"OR", "OR_SIMPLE"} ->
            Constraints(e.left) = 0 /\ ChoosesByLocation(e.left) /\ ChoosesByLocation(e.right)
      [] e.op = "AND" -> ChoosesByLocation(e.left) /\ ChoosesByLocation(e.right)
      [] OTHER -> TRUE

----------------------------------------------------------------------------
(* Properties *)

GuardEvaluated ==
    /\ pc = "guarded" =>
         /\ zone.cf /\ ~emptiness(zone.m)
         /\ \A v \in Coarse : In(v, zone.m) = (In(v, in.zone.m) /\ Holds(in.guard, v))
         /\ \A v \in Coarse : InPlace(v, in.place) /\ Holds(in.guard, v) => InPlace(v, place)
         /\ \A v \in Coarse : InPlace(v, place) =>
              /\ InPlace(v, in.place)
              /\ in.rule = "place_allact" => Holds(in.guard, v)
              /\ in.rule = "existact" /\ In(v, in.zone.m) => Holds(in.guard, v)
    /\ pc = "refused" =>
         \/ \A v \in Coarse : ~(In(v, in.zone.m) /\ Holds(in.guard, v))
         \/ /\ in.rule \in {"place_allact", "existact"}
            /\ \A v \in Coarse : ~(InPlace(v, in.place) /\ Holds(in.guard, v))

(* comp_ph and its variants leave exactly the valuations of the zone that    *)
(* satisfy the guard, flagged canonical, and refuse when there are none; the *)
(* placeholder loses what violates the guard (for EXISTACT within the zone)  *)
(* and nothing else.  So it is for every guard the grammar of transitions    *)
(* admits, and for implications unless a disjunction has a constraint on its *)
(* left.                                                                     *)
GuardExact == ChoosesByLocation(in.guard) => GuardEvaluated

(* A transition is entered with exactly the valuations that satisfy its      *)
(* guard and, after its assignments and resets, the invariant of the         *)
(* location entered, and skipped when there are none.  The presets must be   *)
(* ones that are right by themselves, and the assignments such that their    *)
(* order does not matter, because the code takes their inverses in the order *)
(* the assignments are executed in.                                          *)
OrderIrrelevant ==
    \A v \in Coarse :
        Perform(in.edge.assignments, v) = Perform(Reverse(in.edge.assignments), v)

EnteringExact ==
    IsTransition /\ tame /\ OrderIrrelevant =>
      /\ pc = "entering" =>
           /\ \A v \in Coarse :
                In(v, zone.m) = (In(v, in.zone.m) /\ Holds(in.guard, v) /\ MayEnter(v))
           /\ \A v \in Coarse :
                InPlace(v, in.place) /\ Holds(in.guard, v) /\ MayEnter(v) => InPlace(v, place)
           /\ \A v \in Coarse : InPlace(v, place) =>
                /\ InPlace(v, in.place)
                /\ in.rule # "allact" /\ In(v, in.zone.m) /\ Holds(in.guard, v) => MayEnter(v)
      /\ pc = "skipped" =>
           \A v \in Coarse :
             ~(/\ IF in.rule = "existact" THEN InPlace(v, in.place) ELSE In(v, in.zone.m)
               /\ Holds(in.guard, v) /\ MayEnter(v))

=============================================================================
