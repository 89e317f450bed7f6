---------------------------- MODULE SequentPlaces ----------------------------
(***************************************************************************)
(* The stored half of a sequent with a placeholder (sequent.hh, class      *)
(* SequentPlace): pairs of a clock zone and the placeholder, a union of    *)
(* zones, found or assumed for it.  Known-true and known-false pairs are a *)
(* set in which the source takes the first match; the pairs under proof    *)
(* are pushed and popped.                                                  *)
(***************************************************************************)
EXTENDS Sequents

SequentPlace == [zone : Zone, place : Zone]
Pair(zone, place) == [zone |-> zone, place |-> place]

\* tabled_sequent: the placeholders a query for the zone may be answered with.
\* The zones must be equal: placeholders of different zones do not compare.
tabled_places(pairs, zone) == {e.place : e \in {f \in pairs : f.zone = zone}}

tabled_false_place(pairs, zone) == \E e \in pairs : e.zone \subseteq zone

\* tabled_sequent_gfp and tabled_sequent_lfp.
tabled_place_gfp(pairs, zone, place) ==
    \E e \in pairs : e.zone = zone /\ place \subseteq e.place
tabled_place_lfp(pairs, zone, place) == Pair(zone, place) \in pairs

\* update_sequent: enlarge the placeholder of a stored zone, or add a pair.
update_place(pairs, zone, place) ==
    LET smaller == {e \in pairs : e.zone = zone /\ e.place \subseteq place}
    IN  IF smaller = {}
        THEN {pairs \cup {Pair(zone, place)}}
        ELSE {(pairs \ {e}) \cup {Pair(zone, place)} : e \in smaller}

\* update_false_sequent: shrink a stored zone, or add one; no placeholder.
update_false_place(pairs, zone) ==
    LET larger == {e \in pairs : zone \subseteq e.zone}
    IN  IF larger = {}
        THEN {pairs \cup {Pair(zone, {})}}
        ELSE {(pairs \ {e}) \cup {Pair(zone, e.place)} : e \in larger}

\* What look_for_and_purge_rhs_sequent removes from a known-true table and from
\* a known-false one.
RefutedPlaces(pairs, zone) == {e \in pairs : e.zone = zone}
ProvedPlaces(pairs, zone) == {e \in pairs : e.zone \subseteq zone}

=============================================================================
