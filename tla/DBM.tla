-------------------------------- MODULE DBM --------------------------------
(***************************************************************************)
(* One difference bound matrix (class DBM, DBM.hh): the matrix, the flag   *)
(* that says it is in canonical form, and every operation of the class     *)
(* that changes either.                                                    *)
(*                                                                         *)
(* The operations are single actions.  cf(), the canonical form, is the    *)
(* triple loop of the code, one action per entry, because what it          *)
(* guarantees depends on the order in which the entries are updated in     *)
(* place.                                                                  *)
(***************************************************************************)
EXTENDS Matrices, FiniteSets

CONSTANTS Operands, \* the matrices another DBM may hold
          Cap       \* bound: operations are applied while finite bounds are within it

ASSUME DBMAssumption ==
    /\ Cap \in Nat
    /\ \A Y \in Operands :
         /\ Y \in Matrix
         /\ \A p, q \in Index : Y[p][q] <= infinity /\ Y[p][p] <= zero_le
         \* Every matrix starts as makeInfty or makeEmpty, and the constants of
         \* the automaton are naturals: no clock is below zero, and it is not at
         \* the zero clock alone that a zone is empty.
         /\ \A q \in Index : Y[0][q] <= zero_le
         /\ Y[0][0] = zero_le \/ \E x \in Clocks : Y[x][x] <= zero_less

VARIABLES dbm,      \* the matrix
          m_is_cf,  \* the flag
          pc,       \* "idle", or "cf" inside the loops of cf()
          k, i, j   \* the loop counters of cf()

vars == <<dbm, m_is_cf, pc, k, i, j>>

----------------------------------------------------------------------------
(* The state machine *)

Init ==
    /\ dbm = makeInfty
    /\ m_is_cf = FALSE
    /\ pc = "idle"
    /\ k = 0 /\ i = 0 /\ j = 0

\* Bound on the exploration, not a condition of the code.
WithinCap(m) == \A p, q \in Index :
                  IsFinite(m[p][q]) => constraint_to_bound(m[p][q]) \in (-Cap) .. Cap

Called == pc = "idle" /\ UNCHANGED <<pc, k, i, j>>

\* An operation that leaves the flag alone, and one that clears it.
Preserves(m) == /\ Called /\ WithinCap(dbm)
                /\ dbm' = m
                /\ UNCHANGED m_is_cf

Clears(m) == /\ Called /\ WithinCap(dbm)
             /\ dbm' = m
             /\ m_is_cf' = FALSE

\* An operation whose result is either the empty matrix, flagged, or m.
ClearsUnless(empty, m) == /\ Called /\ WithinCap(dbm)
                          /\ dbm' = m
                          /\ m_is_cf' = empty

Assign(Y) ==                    \* operator=; a constructed matrix is not flagged
    /\ Called
    /\ dbm' = Y
    /\ m_is_cf' = FALSE

\* Mutant: the flag is not cleared when an entry is tightened.
Intersect_KeepsFlag(Y) == Preserves(intersect(dbm, Y))

Intersect(Y) ==
    /\ Called /\ WithinCap(dbm)
    /\ IF m_is_cf /\ emptiness(dbm)
       THEN UNCHANGED <<dbm, m_is_cf>>
       ELSE /\ dbm' = intersect(dbm, Y)
            /\ m_is_cf' = (m_is_cf /\ dbm' = dbm)

Suc == Preserves(suc(dbm))
\* Mutant: the flag is not cleared.
Pre_KeepsFlag == Preserves(pre(dbm))

Pre == Clears(pre(dbm))
Reset(rs) == Preserves(reset(dbm, rs))
ResetTo(x, y) == Clears(assign(dbm, x, y))

Preset(prs) == m_is_cf /\ ClearsUnless(PresetIsEmpty(dbm, prs), preset(dbm, prs))
PresetClock(x) == m_is_cf /\ ClearsUnless(preset_clock(dbm, x) = makeEmpty, preset_clock(dbm, x))
PresetTo(x, y) == m_is_cf /\ ClearsUnless(preset_assign(dbm, x, y) = makeEmpty, preset_assign(dbm, x, y))

Bound == Clears(bound(dbm))

----------------------------------------------------------------------------
(* cf(): Floyd-Warshall, in place *)

CfStart ==
    /\ pc = "idle" /\ ~m_is_cf
    /\ pc' = "cf"
    /\ k' = 0 /\ i' = 0 /\ j' = 0
    /\ UNCHANGED <<dbm, m_is_cf>>

LeaveLoops == pc' = "idle" /\ k' = 0 /\ i' = 0 /\ j' = 0

\* The test before the third round.
EarlyEmpty == k = 2 /\ i = 0 /\ j = 0 /\ emptiness(dbm)

CfEmpty ==
    /\ pc = "cf" /\ k \in Index /\ EarlyEmpty
    /\ dbm' = makeEmpty
    /\ m_is_cf' = TRUE
    /\ LeaveLoops

\* Mutants: the inner loop runs to clocks_size() included; k is not advanced.
Relax_TooFar ==
    /\ pc = "cf" /\ k \in Index /\ ~EarlyEmpty
    /\ dbm' = [dbm EXCEPT ![i][j] =
                 Tighter(dbm[i][j], add_constraints(dbm[i][k], dbm[k][j]))]
    /\ j' = IF j = N + 1 THEN 0 ELSE j + 1
    /\ i' = IF j # N + 1 THEN i ELSE IF i = N THEN 0 ELSE i + 1
    /\ k' = IF i = N /\ j = N + 1 THEN k + 1 ELSE k
    /\ UNCHANGED <<m_is_cf, pc>>

Relax_SameRound ==
    /\ pc = "cf" /\ k \in Index /\ ~EarlyEmpty
    /\ dbm' = [dbm EXCEPT ![i][j] =
                 Tighter(dbm[i][j], add_constraints(dbm[i][k], dbm[k][j]))]
    /\ j' = IF j = N THEN 0 ELSE j + 1
    /\ i' = IF j # N THEN i ELSE IF i = N THEN 0 ELSE i + 1
    /\ UNCHANGED <<m_is_cf, pc, k>>

Relax ==
    /\ pc = "cf" /\ k \in Index /\ ~EarlyEmpty
    /\ dbm' = [dbm EXCEPT ![i][j] =
                 Tighter(dbm[i][j], add_constraints(dbm[i][k], dbm[k][j]))]
    /\ j' = IF j = N THEN 0 ELSE j + 1
    /\ i' = IF j # N THEN i ELSE IF i = N THEN 0 ELSE i + 1
    /\ k' = IF i = N /\ j = N THEN k + 1 ELSE k
    /\ UNCHANGED <<m_is_cf, pc>>

CfDone ==
    /\ pc = "cf" /\ k = N + 1
    /\ m_is_cf' = TRUE
    /\ LeaveLoops
    /\ UNCHANGED dbm

----------------------------------------------------------------------------
Operation ==
    \/ \E Y \in Operands : Assign(Y) \/ Intersect(Y)
    \/ Suc \/ Pre \/ Bound
    \/ \E rs \in SUBSET Clocks : Reset(rs) \/ Preset(rs)
    \/ \E x, y \in Clocks : x # y /\ (ResetTo(x, y) \/ PresetTo(x, y))
    \/ \E x \in Clocks : PresetClock(x)

Cf == CfStart \/ CfEmpty \/ Relax \/ CfDone

Next == Operation \/ Cf

Spec == Init /\ [][Next]_vars

\* cf() terminates: the calling thread keeps running.
FairSpec == Spec /\ WF_vars(Cf)

----------------------------------------------------------------------------
(* Properties *)

TypeOK ==
    /\ dbm \in Matrix
    /\ m_is_cf \in BOOLEAN
    /\ pc \in {"idle", "cf"}
    /\ k \in 0 .. N + 1
    /\ i \in Index
    /\ j \in Index

(* Every sum that cf() may form is the one the constraint encoding can hold: *)
(* no addition of two finite entries leaves a short or reaches infinity.     *)
NoOverflow ==
    \A a, b, p \in Index :
      IsFinite(dbm[a][p]) /\ IsFinite(dbm[p][b])
        => Sum2(dbm[a][p], dbm[p][b]) \in (-Limit) .. (infinity - 1)

(* The flag never lies: a matrix flagged canonical is closed under shortest  *)
(* paths, or has a negative diagonal entry and is empty.  cf(), intersect()  *)
(* and the presets rely on the flag, and every other operation decides for   *)
(* itself whether to keep it.                                                *)
FlagMeansCanonical ==
    pc = "idle" /\ m_is_cf => emptiness(dbm) \/ Canonical(dbm)

(* A zone known to be empty is never brought back by a later operation: only *)
(* an assignment from another matrix replaces it.                            *)
EmptyStaysEmpty ==
    [][\/ ~(m_is_cf /\ emptiness(dbm))
       \/ emptiness(dbm')
       \/ \E Y \in Operands : Assign(Y)]_vars

(* Making bounds weak keeps the matrix canonical.  Making them strict does   *)
(* too, unless two clocks have a fixed difference: then the zone becomes     *)
(* empty and no diagonal entry shows it.                                     *)
Pinned(m) == \E p, q \in Index : p # q /\ Plus(m[p][q], m[q][p]) = zero_le

ClosuresKeepCanonical ==
    pc = "idle" /\ m_is_cf /\ ~emptiness(dbm) =>
        /\ Canonical(closure(dbm))
        /\ Canonical(closureRev(dbm)) <=> ~Pinned(dbm)

(* Every call of cf() returns. *)
CfTerminates == pc = "cf" ~> pc = "idle"

=============================================================================
