------------------------ MODULE MCEventParticipation ------------------------
(***************************************************************************)
(* Small instances of EventParticipation for TLC.                           *)
(***************************************************************************)
EXTENDS EventParticipation, TLC

CONSTANTS m1, m2, g1, g2

\* Members are interchangeable, and so are guests.
PeopleSymmetry ==
  {f \in Permutations(People) : \A p \in Members : f[p] \in Members}

=============================================================================
