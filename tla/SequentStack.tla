---------------------------- MODULE SequentStack ----------------------------
(***************************************************************************)
(* How a table of sequents is stored (sequent_stack.hh): a vector of bins, *)
(* num_hash_bins for each predicate, in each bin a vector of sequents that *)
(* are told apart by their discrete state, and in each sequent a vector of *)
(* zones.  SequentCache takes the table to be a function of predicate and  *)
(* discrete state into sets of zones; this module shows that it is one,    *)
(* whatever the hash function makes collide.                               *)
(***************************************************************************)
EXTENDS Sequents, SequencesExt, Functions

CONSTANTS Block,           \* the predicates, named by their block numbers
          num_hash_bins,
          Atomic,          \* the discrete variables
          Value,           \* and their values
          MaxZones         \* bound on the zones in the table

\* The block numbers count the equations: no two equations have the same.
ASSUME BinsAssumption ==
    /\ IsFiniteSet(Block)
    /\ Block = 1..Cardinality(Block)
    /\ num_hash_bins \in Nat \ {0}
    /\ num_hash_bins \in {2^n : n \in 0..16}
    /\ Value \subseteq Int
    /\ MaxZones \in Nat

VARIABLES tableCheck,      \* TRUE: the known-true table, FALSE: the known-false
          Xlist,
          purging          \* << >>, or the purge loop in progress

stackVars == <<tableCheck, Xlist, purging>>

DiscreteState == [Atomic -> Value]
Entry(discrete_state, dbms) == [discrete_state |-> discrete_state, dbms |-> dbms]

\* x & m_hash_bitmask is x % num_hash_bins, for negative x too; the mask is
\* applied after every addition, which comes to the sum of the masked values.
hash(discrete_state) == FoldFunction(+, 0, discrete_state) % num_hash_bins

\* A masked sum of integers is a position.
ASSUME HashAssumption ==
    \A discrete_state \in DiscreteState : hash(discrete_state) \in 0..(num_hash_bins - 1)

get_index(block, discrete_state) ==
    (block - 1) * num_hash_bins + hash(discrete_state)

StackInit ==
    /\ tableCheck \in BOOLEAN
    /\ Xlist = [i \in 0..(Cardinality(Block) * num_hash_bins - 1) |-> << >>]
    /\ purging = << >>

\* The position of a sequent in its bin, 0 if it has none.
find_sequent(block, discrete_state) ==
    SelectInSeq(Xlist[get_index(block, discrete_state)],
                LAMBDA e : e.discrete_state = discrete_state)

-----------------------------------------------------------------------------
\* update_sequent and update_false_sequent overwrite the first zone the new
\* one implies (is implied by), in place, or append.
Stored(dbms, zone) ==
    LET first == SelectInSeq(dbms, LAMBDA z : IF tableCheck THEN z \subseteq zone
                                              ELSE zone \subseteq z)
    IN  IF first = 0 THEN Append(dbms, zone) ELSE [dbms EXCEPT ![first] = zone]

NumZones ==
    FoldFunction(LAMBDA bin, n : n + FoldFunction(LAMBDA e, k : k + Len(e.dbms), 0, bin),
                 0, Xlist)

\* find_sequent_else_add, and the update of what it returns.
CacheSequent(block, discrete_state, zone) ==
    LET i == get_index(block, discrete_state)
        k == find_sequent(block, discrete_state)
    IN  /\ purging = << >>
        /\ NumZones < MaxZones
        /\ Xlist' = IF k = 0
                    THEN [Xlist EXCEPT ![i] = Append(@,
                             Entry(discrete_state, Stored(<< >>, zone)))]
                    ELSE [Xlist EXCEPT ![i][k].dbms = Stored(@, zone)]
        /\ UNCHANGED <<tableCheck, purging>>

-----------------------------------------------------------------------------
(***************************************************************************)
(* look_for_and_purge_rhs_sequent: a loop over the zones of one sequent    *)
(* that erases from the vector it runs over.                               *)
(***************************************************************************)

Matches(z, zone) == IF tableCheck THEN zone \subseteq z ELSE z \subseteq zone

PurgeStart(block, discrete_state, zone) ==
    LET k == find_sequent(block, discrete_state)
    IN  /\ purging = << >>
        /\ k # 0
        /\ purging' = [bin |-> get_index(block, discrete_state), it |-> k,
                       zone |-> zone, itb |-> 1]
        /\ UNCHANGED <<tableCheck, Xlist>>

Visited == Xlist[purging.bin][purging.it].dbms

PurgeKeep ==
    /\ purging # << >>
    /\ purging.itb <= Len(Visited)
    /\ ~Matches(Visited[purging.itb], purging.zone)
    /\ purging' = [purging EXCEPT !.itb = @ + 1]
    /\ UNCHANGED <<tableCheck, Xlist>>

\* Mutant: the iterator is not stepped back after an erasure.
PurgeErase_Skips ==
    /\ purging # << >>
    /\ purging.itb <= Len(Visited)
    /\ Matches(Visited[purging.itb], purging.zone)
    /\ Xlist' = [Xlist EXCEPT ![purging.bin][purging.it].dbms =
                    RemoveAt(@, purging.itb)]
    /\ purging' = [purging EXCEPT !.itb = @ + 1]
    /\ UNCHANGED tableCheck

\* The iterator is stepped back by the body, in front of the vector if it was
\* at its first element, and forward again by the loop.
PurgeErase ==
    /\ purging # << >>
    /\ purging.itb <= Len(Visited)
    /\ Matches(Visited[purging.itb], purging.zone)
    /\ Xlist' = [Xlist EXCEPT ![purging.bin][purging.it].dbms =
                    RemoveAt(@, purging.itb)]
    /\ purging' = [purging EXCEPT !.itb = (@ - 1) + 1]
    /\ UNCHANGED tableCheck

\* A sequent left without zones is erased.
PurgeEnd ==
    /\ purging # << >>
    /\ purging.itb > Len(Visited)
    /\ Xlist' = IF Visited = << >>
                THEN [Xlist EXCEPT ![purging.bin] = RemoveAt(@, purging.it)]
                ELSE Xlist
    /\ purging' = << >>
    /\ UNCHANGED tableCheck

look_for_and_purge_rhs_sequent_state(block, discrete_state) ==
    LET k == find_sequent(block, discrete_state)
    IN  /\ purging = << >>
        /\ k # 0
        /\ Xlist' = [Xlist EXCEPT ![get_index(block, discrete_state)] = RemoveAt(@, k)]
        /\ UNCHANGED <<tableCheck, purging>>

StackNext ==
    \/ \E block \in Block, discrete_state \in DiscreteState :
          \/ \E zone \in Zone \ {{}} :
                \/ CacheSequent(block, discrete_state, zone)
                \/ PurgeStart(block, discrete_state, zone)
          \/ look_for_and_purge_rhs_sequent_state(block, discrete_state)
    \/ PurgeKeep
    \/ PurgeErase
    \/ PurgeEnd

StackSpec == StackInit /\ [][StackNext]_stackVars

-----------------------------------------------------------------------------
\* The zones of a sequent; a purge counts as done when its loop starts.
ZonesOf(block, discrete_state) ==
    LET i == get_index(block, discrete_state)
        k == find_sequent(block, discrete_state)
        zones == IF k = 0 THEN {} ELSE Pushed(Xlist[i][k].dbms)
    IN  IF purging # << >> /\ purging.bin = i /\ purging.it = k
        THEN {z \in zones : ~Matches(z, purging.zone)}
        ELSE zones

\* The bins implement the abstract table: no two sequents share zones, the
\* purge loop visits every zone although it erases from the vector it runs
\* over, and what it leaves behind when it ends is what should remain.
Table == INSTANCE SequentTable WITH
    Key <- Block \X DiscreteState,
    known <- tableCheck,
    busy <- purging # << >>,
    table <- [k \in Block \X DiscreteState |-> ZonesOf(k[1], k[2])]
ImplementsTable == Table!Spec

=============================================================================
