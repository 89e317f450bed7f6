--------------------------- MODULE SideConditions ---------------------------
(***************************************************************************)
(* The two side conditions of the timed rules (proof.hh,                   *)
(* establish_exists_rel_sidecondition and                                  *)
(* establish_forall_place_sidecondition), over the placeholders of one     *)
(* sequent.  A placeholder is a union of zones (DBMList): a set of         *)
(* valuations like a zone.                                                 *)
(***************************************************************************)
EXTENDS Prover

CONSTANT Strictly     \* Strictly[p]: what p reaches by a delay of more than 0

ASSUME TimeAssumption ==
    /\ Strictly \in [Point -> Zone]
    /\ \A p \in Point : /\ p \in Later[p]
                        /\ Strictly[p] \subseteq Later[p]
                        /\ \A q \in Later[p] : Later[q] \subseteq Later[p]

\* suc, suc with closureRev, pre, and pre with predClosureRev.  The source
\* takes successors without the invariant here.
Successors(zone) == UNION {Later[p] : p \in zone}
StrictSuccessors(zone) == UNION {Strictly[p] : p \in zone}
Predecessors(place) == {p \in Point : Later[p] \cap place # {}}
StrictPredecessors(place) == {p \in Point : Strictly[p] \cap place # {}}

\* Mutant: the strict successors of a bad valuation are left in.
establish_exists_rel_sidecondition_Whole(zone, placeholder1, placeholder2) ==
    LET bad == (Successors(zone) \cap StrictPredecessors(placeholder2)) \ placeholder1
    IN  IF bad = {} THEN placeholder2 ELSE placeholder2 \ bad

\* The part of placeholder2 that is reached from the zone through placeholder1
\* only.  The source treats the zones of placeholder2 one by one, which gives
\* the same union.
establish_exists_rel_sidecondition(zone, placeholder1, placeholder2) ==
    LET bad == (Successors(zone) \cap StrictPredecessors(placeholder2)) \ placeholder1
    IN  IF bad = {} THEN placeholder2 ELSE placeholder2 \ StrictSuccessors(bad)

\* What may be passed through while time elapses in a discrete state.
Allowed(discrete_state, placeholder2) == placeholder2 \cup (Point \ Inv[discrete_state])

\* The second attempt of the forall side condition: without the predecessors
\* of what must not be reached.
Restricted(zone, allowed) ==
    (allowed \cap Successors(zone))
        \ Predecessors(Successors(zone \cap allowed) \ allowed)

\* The source gives up when even the second attempt fails.
establish_forall_place_sidecondition(zone, discrete_state, placeholder2) ==
    LET allowed == Allowed(discrete_state, placeholder2)
        restricted == Restricted(zone, allowed)
    IN  IF Successors(zone \cap allowed) \subseteq allowed THEN allowed
        ELSE IF Successors(zone \cap restricted) \subseteq allowed THEN restricted
        ELSE {}

=============================================================================
