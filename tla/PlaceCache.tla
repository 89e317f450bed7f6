----------------------------- MODULE PlaceCache -----------------------------
(***************************************************************************)
(* The four tables of sequents with placeholders (sequent_cache.hh, the    *)
(* *_ph members), indexed like those of SequentCache.  An entry keeps two  *)
(* lists of parents: the sequents with placeholders that used it, and the  *)
(* sequents without that did so directly.                                  *)
(***************************************************************************)
EXTENDS SideConditions, SequentPlaces

VARIABLES Xlist_pGFP_ph,   \* pairs under proof for a greatest fixpoint
          Xlist_pLFP_ph,   \* pairs under proof for a least fixpoint
          Xlist_true_ph,   \* pairs known to be true
          Xlist_false_ph   \* pairs known to be false

placeTables == <<Xlist_true_ph, Xlist_false_ph>>
placeCacheVars == <<Xlist_pGFP_ph, Xlist_pLFP_ph, placeTables>>

NoPlaceSequent == [dbms |-> {}, parents |-> {}, parents_with_placeholders |-> {}]
NoPlaceCycle == [dbms |-> << >>, parents |-> {}, parents_with_placeholders |-> {}]

PlaceEntry(dbms) == [dbms : dbms, parents : SUBSET Parent,
                     parents_with_placeholders : SUBSET Bin]

PlaceCacheTypeOK ==
    /\ Xlist_pGFP_ph \in [Bin -> PlaceEntry(Seq(SequentPlace))]
    /\ Xlist_pLFP_ph \in [Bin -> PlaceEntry(Seq(SequentPlace))]
    /\ Xlist_true_ph \in [Bin -> PlaceEntry(SUBSET SequentPlace)]
    /\ Xlist_false_ph \in [Bin -> PlaceEntry(SUBSET SequentPlace)]

PlaceCacheInit ==
    /\ Xlist_pGFP_ph = [b \in Bin |-> NoPlaceCycle]
    /\ Xlist_pLFP_ph = [b \in Bin |-> NoPlaceCycle]
    /\ Xlist_true_ph = [b \in Bin |-> NoPlaceSequent]
    /\ Xlist_false_ph = [b \in Bin |-> NoPlaceSequent]

-----------------------------------------------------------------------------
\* Lookups.

KnownFalsePlace(b, zone) == tabled_false_place(Xlist_false_ph[b].dbms, zone)
KnownTruePlaces(b, zone) == tabled_places(Xlist_true_ph[b].dbms, zone)
GfpPlaceCycle(b, zone, place) ==
    tabled_place_gfp(Pushed(Xlist_pGFP_ph[b].dbms), zone, place)
LfpPlaceCycle(b, zone, place) ==
    tabled_place_lfp(Pushed(Xlist_pLFP_ph[b].dbms), zone, place)

\* Mutant: the sequent with a placeholder is recorded even if there is none.
addPlaceParent_Null(table, b, parent, parentPlace) ==
    [table EXCEPT ![b].parents_with_placeholders = @ \cup {parentPlace}]

\* The user of an entry: the sequent with a placeholder if there is one.
addPlaceParent(table, b, parent, parentPlace) ==
    IF parentPlace # NoParent
    THEN [table EXCEPT ![b].parents_with_placeholders = @ \cup {parentPlace}]
    ELSE [table EXCEPT ![b].parents = @ \cup {parent}]

-----------------------------------------------------------------------------
\* Insertions.

cache_true_place(table, b, zone, place) ==
    {[table EXCEPT ![b].dbms = d] : d \in update_place(table[b].dbms, zone, place)}
cache_false_place(table, b, zone) ==
    {[table EXCEPT ![b].dbms = d] : d \in update_false_place(table[b].dbms, zone)}

-----------------------------------------------------------------------------
\* Purging, as without placeholders: the parents with placeholders lose their
\* entries here, the others theirs in the tables without placeholders.

WithoutPlaces(entry, removed) ==
    IF entry.dbms \subseteq removed
    THEN NoPlaceSequent
    ELSE [entry EXCEPT !.dbms = @ \ removed]

ErasePlaces(table, bins) ==
    [b \in Bin |-> IF b \in bins THEN NoPlaceSequent ELSE table[b]]

\* The tables once the pairs in removed have left the entry of b: the parents
\* of an entry that lost nothing are left alone.
PurgePlaceParents(entry, removed, truePlaces, falsePlaces) ==
    LET users == IF removed = {} THEN {} ELSE entry.parents_with_placeholders
        others == IF removed = {} THEN {} ELSE entry.parents
    IN  [true_ph  |-> ErasePlaces(truePlaces, users),
         false_ph |-> ErasePlaces(falsePlaces, users),
         true     |-> look_for_and_purge_rhs_sequent_state(Xlist_true, others),
         false    |-> look_for_and_purge_rhs_sequent_state(Xlist_false, others)]

\* Mutant: a refuted pair stays known true.
purge_true_place_Forgotten(b, zone) ==
    PurgePlaceParents(Xlist_true_ph[b], {}, Xlist_true_ph, Xlist_false_ph)

purge_true_place(b, zone) ==
    LET removed == RefutedPlaces(Xlist_true_ph[b].dbms, zone)
    IN  PurgePlaceParents(Xlist_true_ph[b], removed,
                     [Xlist_true_ph EXCEPT ![b] = WithoutPlaces(@, removed)],
                     Xlist_false_ph)

purge_false_place(b, zone) ==
    LET removed == ProvedPlaces(Xlist_false_ph[b].dbms, zone)
    IN  PurgePlaceParents(Xlist_false_ph[b], removed, Xlist_true_ph,
                     [Xlist_false_ph EXCEPT ![b] = WithoutPlaces(@, removed)])

=============================================================================
