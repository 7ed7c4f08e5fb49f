------------------------- MODULE MCPaymentAttempts -------------------------
(***************************************************************************)
(* Small instances of PaymentAttempts for TLC.                             *)
(***************************************************************************)
EXTENDS PaymentAttempts, TLC

CONSTANTS q1, q2

\* Queries are interchangeable.
QuerySymmetry == Permutations(Queries)

=============================================================================
