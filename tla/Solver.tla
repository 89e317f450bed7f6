------------------------------- MODULE Solver -------------------------------
(***************************************************************************)
(* What the program promises: for its input it answers once, it does       *)
(* answer, and an answer is right unless something inexact went before.    *)
(***************************************************************************)
CONSTANTS Inputs,
          MayAccept(_),    \* the inputs for which "valid" is a right answer
          MayReject(_)     \* the inputs for which "invalid" is

VARIABLES input, verdict,
          exact             \* FALSE once something inexact has gone before

Init ==
    /\ input \in Inputs
    /\ verdict = "none"
    /\ exact = TRUE

Slip == exact' = FALSE /\ UNCHANGED <<input, verdict>>

Decide ==
    /\ verdict = "none"
    /\ \/ verdict' = "valid" /\ (exact => MayAccept(input))
       \/ verdict' = "invalid" /\ (exact => MayReject(input))
    /\ UNCHANGED <<input, exact>>

Spec == Init /\ [][Slip \/ Decide]_<<input, verdict, exact>> /\ <>(verdict # "none")

=============================================================================
