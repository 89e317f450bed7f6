----------------------------- MODULE ZoneLists -----------------------------
(***************************************************************************)
(* Zones with their flags, and unions of zones: what the operations of     *)
(* class DBM and class DBMList (DBMList.hh) compute.                       *)
(*                                                                         *)
(* A zone is [m, cf], a list [dbms, cf].  The operations on one matrix are *)
(* those of Matrices; what this module is about is the algebra of lists    *)
(* and the two levels of flags.                                            *)
(***************************************************************************)
EXTENDS Valuations, SequencesExt

Zone(m, cf) == [m |-> m, cf |-> cf]

----------------------------------------------------------------------------
(* One zone *)

InOrder == [n \in 1 .. (N + 1) * (N + 1) |-> <<(n - 1) \div (N + 1), (n - 1) % (N + 1)>>]

\* One round of DBM::cf(); module DBM takes its steps one by one.
Round(m, k) ==
    IF k = 2 /\ emptiness(m) THEN makeEmpty
    ELSE FoldLeft(LAMBDA d, e : [d EXCEPT ![e[1]][e[2]] =
                    Tighter(@, add_constraints(d[e[1]][k], d[k][e[2]]))], m, InOrder)

cfZone(z) ==
    IF z.cf THEN z
    ELSE Zone(FoldLeft(Round, z.m, [n \in 1 .. N + 1 |-> n - 1]), TRUE)

intersectZone(z, y) ==
    IF z.cf /\ emptiness(z.m) THEN z
    ELSE Zone(intersect(z.m, y.m), z.cf /\ intersect(z.m, y.m) = z.m)

isConstraintImplicit(m, e) ==
    m[e[1]][e[2]] = IF e[1] = 0 \/ e[1] = e[2] THEN zero_le ELSE infinity

----------------------------------------------------------------------------
(* Lists *)

Singleton(z) == [dbms |-> <<z>>, cf |-> z.cf]
EmptyList == Singleton(Zone(makeEmpty, TRUE))

EmptyOf(l) == emptiness(l.dbms[1].m)      \* emptiness(): the first zone decides

\* The zone of one negated constraint.
Negated(m, e) == Zone(Single(e[2], e[1], negate_constraint(m[e[1]][e[2]])), FALSE)

\* One zone for every constraint, and never none.
complementDBM(z) ==
    LET explicit == SelectSeq(InOrder, LAMBDA e : ~isConstraintImplicit(z.m, e))
    IN  IF emptiness(z.m) THEN Singleton(Zone(makeInfty, FALSE))
        ELSE IF explicit = <<>> THEN EmptyList
        ELSE [dbms |-> [n \in DOMAIN explicit |-> Negated(z.m, explicit[n])],
              cf |-> Len(explicit) = 1]

\* Mutant: empty zones stay.
remove_empty_dbms_None(dbms) == dbms

\* An empty zone stays when there is no other.
remove_empty_dbms(dbms) ==
    LET nonempty == SelectSeq(dbms, LAMBDA z : ~emptiness(z.m))
    IN  IF nonempty = <<>> THEN <<Head(dbms)>> ELSE nonempty

\* Mutant: not called.
remove_contained_dbms_Skipped(dbms) == dbms

\* The zones no other zone contains, each once.  The code moves the last zone
\* to the place of a removed one; their order is left open here.
remove_contained_dbms(dbms) ==
    LET zones == ToSet(dbms)
        maximal == {z \in zones : \A o \in zones \ {z} : ~Includes(z.m, o.m)}
    IN  FoldSet(LAMBDA z, s : Append(s, z), <<>>, maximal)

cf(l, no_remove_contained) ==
    IF l.cf THEN l
    ELSE LET canonical == [n \in DOMAIN l.dbms |-> cfZone(l.dbms[n])]
             nonempty == remove_empty_dbms(canonical)
         IN  [dbms |-> IF no_remove_contained THEN nonempty
                       ELSE remove_contained_dbms(nonempty),
              cf |-> TRUE]

\* map(): every zone is changed and the flag of the list cleared.
Mapped(l, f(_)) ==
    [dbms |-> [n \in DOMAIN l.dbms |-> f(l.dbms[n])], cf |-> FALSE]

intersectListZone(l, y) == Mapped(l, LAMBDA z : intersectZone(z, y))

addDBMList(l, y) == [dbms |-> l.dbms \o y.dbms, cf |-> FALSE]

\* The disjunctive normal form; a single zone on the left is the one copied.
intersectList(l, y) ==
    LET a == Len(l.dbms)  b == Len(y.dbms)
    IN  [dbms |-> IF a = 1 /\ b > 1
                  THEN [n \in 1 .. b |-> intersectZone(y.dbms[n], l.dbms[1])]
                  ELSE [n \in 1 .. a * b |->
                         intersectZone(l.dbms[1 + ((n - 1) \div b)], y.dbms[1 + ((n - 1) % b)])],
         cf |-> FALSE]

complement(l) ==                \* operator!
    LET first == complementDBM(Head(l.dbms))
    IN  IF Len(l.dbms) = 1 THEN [first EXCEPT !.cf = FALSE]
        ELSE cf(FoldLeft(LAMBDA c, z : intersectList(c, complementDBM(z)), first, Tail(l.dbms)),
                TRUE)

----------------------------------------------------------------------------
(* Comparisons, for canonical lists *)

\* operator<=(const DBM&)
WithinZone(l, z) ==
    EmptyOf(l) \/ (~emptiness(z.m) /\ \A n \in DOMAIN l.dbms : Includes(l.dbms[n].m, z.m))

\* The complement of l does not meet y.
CoversByComplement(l, y) ==
    LET c == cf(complement(l), FALSE)
    IN  EmptyOf(c) \/ EmptyOf(cf(intersectList(c, y), FALSE))

\* operator>=(const DBM&)
ContainsZone(l, z) ==
    \/ emptiness(z.m)
    \/ /\ ~EmptyOf(l)
       /\ IF Len(l.dbms) = 1 THEN Includes(z.m, l.dbms[1].m)
          ELSE CoversByComplement(l, Singleton(z))

\* Mutant: the complement is skipped; some zone must contain each zone.
Within_Pairwise(l, y) ==
    EmptyOf(l) \/ (~EmptyOf(y) /\ \A n \in DOMAIN l.dbms : \E o \in DOMAIN y.dbms :
                                    Includes(l.dbms[n].m, y.dbms[o].m))

\* operator<=(const DBMList&)
Within(l, y) ==
    \/ EmptyOf(l)
    \/ /\ ~EmptyOf(y)
       /\ IF Len(l.dbms) = 1 THEN ContainsZone(y, l.dbms[1])
          ELSE IF Len(y.dbms) = 1 THEN WithinZone(l, y.dbms[1])
          ELSE CoversByComplement(y, l)

\* operator==
EqualZone(l, z) ==
    IF Len(l.dbms) = 1 THEN l.dbms[1].m = z.m ELSE WithinZone(l, z) /\ ContainsZone(l, z)
Equal(l, y) ==
    IF Len(l.dbms) = 1 THEN EqualZone(y, l.dbms[1]) ELSE Within(l, y) /\ Within(y, l)

\* Mutant: a larger list is not taken over.
union_KeepsOwn(l, y) ==
    IF Within(l, y) THEN l
    ELSE IF Within(y, l) THEN l
    ELSE addDBMList(l, y)

union(l, y) ==
    IF Within(l, y) THEN y
    ELSE IF Within(y, l) THEN l
    ELSE addDBMList(l, y)

unionZone(l, z) ==
    IF WithinZone(l, z) THEN Singleton(z)
    ELSE IF ContainsZone(l, z) THEN l
    ELSE addDBMList(l, Singleton(z))

=============================================================================
