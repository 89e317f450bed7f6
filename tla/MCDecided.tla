------------------------------ MODULE MCDecided ------------------------------
(***************************************************************************)
(* The formulas that the search meets, computed, and what it promises on   *)
(* the inputs that Decided describes.                                      *)
(***************************************************************************)
EXTENDS ProverCorrect, Decided, MCFormulas

\* The right-hand sides that X leads to, with their subformulas.
BodiesBelow(s, X) ==
    UNION {Closure(s.rhs[Y]) : Y \in Reference!DependsOn(s, X) \cup {X}}
Searched(s) == {s.start} \cup BodiesBelow(s, s.start.pred)

IsDecided(s) == DecidedBy(s, Searched(s), [X \in Predicate |-> BodiesBelow(s, X)])
Plain(s) == {f \in Searched(s) : \A g \in Closure(f) : g.op # "PREDICATE"}
IsOneSided(s) == \E ops \in {Disjunctions, Conjunctions} :
                    OneSidedBy(s, ops, Searched(s), Plain(s))

\* "Valid" is right, and so is "invalid" where the rules are not too weak and the
\* verdict tables, if they are used, hold no more than they may.
Right ==
    /\ Sound
    /\ IsDecided(input_pes) /\ (useCaching => IsOneSided(input_pes)) => Complete

=============================================================================
