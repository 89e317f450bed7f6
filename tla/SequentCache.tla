---------------------------- MODULE SequentCache ----------------------------
(***************************************************************************)
(* The four sequent tables of the prover without placeholders              *)
(* (sequent_cache.hh over sequent_stack.hh).                               *)
(*                                                                         *)
(* A bin is found from the predicate's block number (the integer written   *)
(* before its equation) and the discrete state; inside it only the         *)
(* discrete state is compared.  A table is therefore a function of the     *)
(* pair <<block, discrete state>>.  A table entry that was never added and *)
(* one that was erased are the same empty entry.                           *)
(***************************************************************************)
EXTENDS Sequents

CONSTANTS Block,        \* the block numbers in use
          Loc,          \* the discrete states
          NoParent      \* a null parent reference

ASSUME NoParentAssumption == NoParent \notin Block \X Loc

VARIABLES Xlist_pGFP,   \* zones under proof for a greatest fixpoint
          Xlist_pLFP,   \* zones under proof for a least fixpoint
          Xlist_true,   \* sequents known to be true
          Xlist_false   \* sequents known to be false

tables == <<Xlist_true, Xlist_false>>
cacheVars == <<Xlist_pGFP, Xlist_pLFP, tables>>

Bin == Block \X Loc
Parent == Bin \cup {NoParent}

\* Mutant: the discrete states of one bin are not told apart.
get_index_Collides(block, discrete_state) == <<block, CHOOSE l \in Loc : TRUE>>

\* sequentStackT::get_index together with the search inside the bin.
get_index(block, discrete_state) == <<block, discrete_state>>

NoSequent == [dbms |-> {}, parents |-> {}]
NoCycle == [dbms |-> << >>, parents |-> {}]

CacheTypeOK ==
    /\ Xlist_pGFP \in [Bin -> [dbms : Seq(Zone), parents : SUBSET Parent]]
    /\ Xlist_pLFP \in [Bin -> [dbms : Seq(Zone), parents : SUBSET Parent]]
    /\ Xlist_true \in [Bin -> [dbms : SUBSET Zone, parents : SUBSET Parent]]
    /\ Xlist_false \in [Bin -> [dbms : SUBSET Zone, parents : SUBSET Parent]]

CacheInit ==
    /\ Xlist_pGFP = [b \in Bin |-> NoCycle]
    /\ Xlist_pLFP = [b \in Bin |-> NoCycle]
    /\ Xlist_true = [b \in Bin |-> NoSequent]
    /\ Xlist_false = [b \in Bin |-> NoSequent]

-----------------------------------------------------------------------------
\* Lookups.  A hit hands the verdict to the sequent under proof, which is
\* recorded as a parent of the entry that was hit.

KnownFalse(bin, zone) == tabled_false_sequent(Xlist_false[bin].dbms, zone)
KnownTrue(bin, zone) == tabled_sequent(Xlist_true[bin].dbms, zone)
LfpCycle(bin, zone) == tabled_sequent_lfp(Pushed(Xlist_pLFP[bin].dbms), zone)

\* Mutant: a cycle is only seen when the very same zone comes back.
GfpCycle_Equality(bin, zone) == zone \in Pushed(Xlist_pGFP[bin].dbms)
GfpCycle(bin, zone) == tabled_sequent(Pushed(Xlist_pGFP[bin].dbms), zone)

addParent(table, bin, parent) ==
    [table EXCEPT ![bin].parents = @ \cup {parent}]

is_known_false_sequent(bin, zone, parentRef) ==
    /\ KnownFalse(bin, zone)
    /\ Xlist_false' = addParent(Xlist_false, bin, parentRef)
    /\ UNCHANGED <<Xlist_pGFP, Xlist_pLFP, Xlist_true>>

is_known_true_sequent(bin, zone, parentRef) ==
    /\ KnownTrue(bin, zone)
    /\ Xlist_true' = addParent(Xlist_true, bin, parentRef)
    /\ UNCHANGED <<Xlist_pGFP, Xlist_pLFP, Xlist_false>>

\* The parent of a completed cycle goes to the circularity sequent, not to
\* the known-true (known-false) one.
completes_gfp_cycle(bin, zone, parentRef) ==
    /\ GfpCycle(bin, zone)
    /\ Xlist_pGFP' = addParent(Xlist_pGFP, bin, parentRef)

completes_lfp_cycle(bin, zone, parentRef) ==
    /\ LfpCycle(bin, zone)
    /\ Xlist_pLFP' = addParent(Xlist_pLFP, bin, parentRef)

-----------------------------------------------------------------------------
\* Insertions: the tables that caching a verdict can lead to.

cache_true_sequent(table, bin, zone) ==
    {[table EXCEPT ![bin].dbms = d] : d \in update_sequent(table[bin].dbms, zone)}

cache_false_sequent(table, bin, zone) ==
    {[table EXCEPT ![bin].dbms = d] :
        d \in update_false_sequent(table[bin].dbms, zone)}

-----------------------------------------------------------------------------
\* Purging.  If anything was removed from the entry, the entries of each of
\* its parents are erased from both tables, whatever their clock zones, and
\* the parents of those are left alone.

\* sequentStackT::look_for_and_purge_rhs_sequent: an entry left empty is
\* erased, and its parents with it.
Without(entry, removed) ==
    IF entry.dbms \subseteq removed
    THEN NoSequent
    ELSE [entry EXCEPT !.dbms = @ \ removed]

\* look_for_and_purge_rhs_backStack: the bins of the recorded parents.
Dependents(entry, removed) == IF removed = {} THEN {} ELSE entry.parents

look_for_and_purge_rhs_sequent_state(table, bins) ==
    [b \in Bin |-> IF b \in bins THEN NoSequent ELSE table[b]]

\* Mutant: a refuted sequent stays known true.
purge_true_sequent_Forgotten(bin, zone) ==
    [true |-> Xlist_true, false |-> Xlist_false]

\* The two tables after (bin, zone) was found false, in this order:
\* known true, known false.
purge_true_sequent(bin, zone) ==
    LET removed == RefutedBy(Xlist_true[bin].dbms, zone)
        bins == Dependents(Xlist_true[bin], removed)
    IN  [true  |-> look_for_and_purge_rhs_sequent_state(
                      [Xlist_true EXCEPT ![bin] = Without(@, removed)], bins),
         false |-> look_for_and_purge_rhs_sequent_state(Xlist_false, bins)]

\* The two tables after (bin, zone) was found true.
purge_false_sequent(bin, zone) ==
    LET removed == ProvedBy(Xlist_false[bin].dbms, zone)
        bins == Dependents(Xlist_false[bin], removed)
    IN  [true  |-> look_for_and_purge_rhs_sequent_state(Xlist_true, bins),
         false |-> look_for_and_purge_rhs_sequent_state(
                      [Xlist_false EXCEPT ![bin] = Without(@, removed)], bins)]

=============================================================================
