-------------------------- MODULE MCEventReminders --------------------------
(***************************************************************************)
(* Small instances of EventReminders for TLC.                               *)
(***************************************************************************)
EXTENDS EventReminders

CONSTANTS m1, g1, r1, r2

\* The member is told in the application, where he may have quiet hours.
OneEach == [p \in People |-> IF p \in Members THEN {"in_app"} ELSE {"email"}]

=============================================================================
