------------------------------ MODULE Sequents ------------------------------
(***************************************************************************)
(* The stored half of a sequent (sequent.hh, class Sequent): for one       *)
(* right-hand side and one discrete state, the clock zones recorded so far *)
(* and the parents to which a verdict was handed.                          *)
(*                                                                         *)
(* A zone is the set of clock valuations it contains, so that the DBM      *)
(* comparison <= is \subseteq and >= is \supseteq.  The vector m_dbms of a  *)
(* known-true or known-false sequent is only ever searched, so it is a set *)
(* here and "the first match" is "some match"; on the circularity stacks   *)
(* it is pushed and popped at its end, so there it is a sequence.          *)
(***************************************************************************)
EXTENDS Integers, Sequences

CONSTANT Point          \* the clock valuations the program can tell apart

Zone == SUBSET Point

\* Mutant: the zone under proof is not pushed.
push_sequent_Lost(dbms, zone) == dbms

\* Sequent::push_sequent and pop_sequent, on a circularity stack.
push_sequent(dbms, zone) == Append(dbms, zone)
pop_sequent(dbms) == SubSeq(dbms, 1, Len(dbms) - 1)
Pushed(dbms) == {dbms[i] : i \in DOMAIN dbms}

\* Some stored zone contains the queried one: known true, or a gfp cycle.
tabled_sequent(dbms, zone) == \E z \in dbms : zone \subseteq z

\* Some stored zone is contained in the queried one: known false.
tabled_false_sequent(dbms, zone) == \E z \in dbms : z \subseteq zone

\* The test for an lfp cycle is the containment test, not equality.
tabled_sequent_lfp(dbms, zone) == tabled_sequent(dbms, zone)

\* The sets that replacing the first match in dbms by zone can lead to.
ReplaceOrAdd(dbms, matches, zone) ==
    IF matches = {}
    THEN {dbms \cup {zone}}
    ELSE {(dbms \ {z}) \cup {zone} : z \in matches}

\* Enlarge a stored true zone, or add one.
update_sequent(dbms, zone) ==
    ReplaceOrAdd(dbms, {z \in dbms : z \subseteq zone}, zone)

\* Shrink a stored false zone, or add one.
update_false_sequent(dbms, zone) ==
    ReplaceOrAdd(dbms, {z \in dbms : zone \subseteq z}, zone)

\* What sequentStackT::look_for_and_purge_rhs_sequent removes: from the
\* known-true table every zone now refuted, from the known-false table every
\* zone now proved.
RefutedBy(dbms, zone) == {z \in dbms : zone \subseteq z}
ProvedBy(dbms, zone) == {z \in dbms : z \subseteq zone}

=============================================================================
