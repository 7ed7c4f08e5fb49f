-------------------------- MODULE MCCommerceEmail --------------------------
(***************************************************************************)
(* Small instances of CommerceEmail for TLC.                                *)
(***************************************************************************)
EXTENDS CommerceEmail, TLC

CONSTANTS e1, e2, r1, r2

OneDelay == <<1>>
TwoDelays == <<1, 2>>
\* Executions are interchangeable.
RunnerSymmetry == Permutations(Runners)

=============================================================================
