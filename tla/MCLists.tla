------------------------------ MODULE MCLists ------------------------------
(***************************************************************************)
(* Instances of DBMList for TLC: two clocks, and as arguments a few zones, *)
(* as built and in canonical form, and lists of two.                       *)
(***************************************************************************)
EXTENDS DBMList

Low1 == Single(1, 0, 2 * 1 + weak)              \* x <= 1
High1 == Single(0, 1, -2 * 1 + strict)          \* x > 1
Low2 == Single(2, 0, 2 * 1 + strict)            \* y < 1
Diagonal == Single(1, 2, 0 + weak)              \* x - y <= 0

Built(m) == Singleton(Zone(m, FALSE))

FewArguments ==
    LET zones == {Built(Low1), Built(Diagonal), Built(intersect(High1, Low2))}
    IN  zones \cup {cf(y, FALSE) : y \in zones}
          \cup {cf(addDBMList(Built(High1), Built(Low2)), FALSE)}

=============================================================================
