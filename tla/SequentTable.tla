---------------------------- MODULE SequentTable ----------------------------
(***************************************************************************)
(* What a table of known-true (known-false) sequents promises the prover:  *)
(* every key has its own zones, recording a verdict forgets at most zones  *)
(* about which the new verdict says as much, and purging removes what the  *)
(* opposite verdict contradicts and nothing else.                          *)
(***************************************************************************)
EXTENDS Sequents

CONSTANT Key         \* a predicate with a discrete state

VARIABLES known,     \* TRUE for a table of true sequents
          busy,      \* a purge has been called and has not returned
          table

Init ==
    /\ known \in BOOLEAN
    /\ busy = FALSE
    /\ table = [k \in Key |-> {}]

\* What one entry may become when a verdict on zone is recorded, and when the
\* opposite verdict is.
Recorded(old, new, zone) ==
    /\ zone \in new
    /\ new \subseteq old \cup {zone}
    /\ \A z \in old \ new : IF known THEN z \subseteq zone ELSE zone \subseteq z
Purged(old, new, zone) ==
    new = old \ (IF known THEN RefutedBy(old, zone) ELSE ProvedBy(old, zone))
Forgotten(new) == new = {}

Change(old, new) ==
    \E zone \in Zone : \/ Recorded(old, new, zone) /\ ~busy'
                       \/ Purged(old, new, zone) /\ busy'
                       \/ Forgotten(new) /\ ~busy'

Call ==
    /\ ~busy
    /\ \E k \in Key : /\ \A j \in Key \ {k} : table'[j] = table[j]
                      /\ Change(table[k], table'[k])
    /\ UNCHANGED known

PurgeReturns ==
    /\ busy /\ ~busy'
    /\ \A k \in Key : table'[k] = table[k]
    /\ UNCHANGED known

Next == Call \/ PurgeReturns

Spec == Init /\ [][Next]_<<known, busy, table>>

=============================================================================
