------------------------------ MODULE MCGuards ------------------------------
(***************************************************************************)
(* Instances of Guards for TLC: three clocks, two locations, guards as the   *)
(* grammar of transitions builds them, left-hand sides of implications     *)
(* with a disjunction, and transitions with resets and up to two           *)
(* assignments, whose order matters for some.                              *)
(***************************************************************************)
EXTENDS Guards

CONSTANTS l1, l2        \* the locations

Low1 == Single(1, 0, 2 * 1 + strict)            \* x < 1
High1 == Single(0, 1, -2 * 1 + weak)            \* x >= 1
Low2 == Single(2, 0, 2 * 1 + weak)              \* y <= 1
Diagonal == Single(1, 2, 0 + weak)              \* x - y <= 0

\* The invariant: x <= 1 in l1; x <= 1, y <= 1 and z < 1 in l2.
MCInvariants ==
    <<[locs |-> {l1, l2}, m |-> Single(1, 0, 2 * 1 + weak)],
      [locs |-> {l2}, m |-> intersect(Low2, Single(3, 0, 2 * 1 + strict))]>>

At(locs) == [op |-> "ATOMIC", locs |-> locs]
Where(m) == [op |-> "CONSTRAINT", m |-> m]
Both(e, f) == [op |-> "AND", left |-> e, right |-> f]
Either(e, f) == [op |-> "OR", left |-> e, right |-> f]

\* trans_left_list: a tree of conditions on the location, and one constraint.
TransitionGuards ==
    LET source == Either(At({l1}), Both(At({l1, l2}), At({l2})))
    IN  {At({l1}), Where(Low1), Both(source, Where(intersect(High1, Low2)))}

\* expr TOK_IMPLY expr: anything.
Premises ==
    LET c == Where(Low1)  d == Where(High1)
    IN  {c, Either(At({l1}), c), Either(c, At({l1})), Both(c, At({l1})),
         Both(c, Either(At({l2}), Where(Low2))), Either(Both(At({l1}), c), d), Either(c, d)}

CanonicalZone(m) == cfZone(Zone(m, FALSE))
MCZones == {CanonicalZone(m) : m \in {makeInfty, intersect(High1, Single(0, 3, 0 + strict))}}
MCPlaces ==
    {cf(Singleton(CanonicalZone(Diagonal)), FALSE),
     cf(addDBMList(Singleton(CanonicalZone(Low1)),
                   Singleton(CanonicalZone(intersect(High1, Low2)))), FALSE)}

MCEdges ==
    [dest : {l1, l2}, resets : {{}, {2}, {1, 3}},
     assignments : {<<>>, <<<<1, 2>>>>, <<<<2, 1>>>>, <<<<2, 3>>, <<1, 3>>>>,
                    <<<<1, 2>>, <<2, 3>>>>, <<<<2, 3>>, <<1, 2>>>>}]
NoEdge == [dest |-> l1, resets |-> {}, assignments |-> <<>>]

MCInputs ==
    [rule : {"allact", "place_allact", "existact"}, guard : TransitionGuards, loc : {l1, l2},
     edge : MCEdges, zone : MCZones, place : MCPlaces]
    \cup [rule : {"imply"}, guard : Premises, loc : {l1, l2}, edge : {NoEdge},
          zone : MCZones, place : {CHOOSE p \in MCPlaces : TRUE}]

=============================================================================
