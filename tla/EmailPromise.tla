----------------------------- MODULE EmailPromise -----------------------------
(***************************************************************************)
(* What the outbox promises about one e-mail, whoever delivers, retries or  *)
(* sweeps it: it goes out only after the journal has its record, however     *)
(* often; it is closed once, as sent only if the service took it; and what   *)
(* is closed is never queued, sent or closed otherwise again.               *)
(***************************************************************************)
VARIABLES
  state,      \* "absent", "queued", "deleted" or how it was closed
  recorded,   \* the journal has its record
  taken       \* the e-mail service took it, at least once

vars == <<state, recorded, taken>>

Unsent == {"failed", "expired", "suppressed"}

Init == state = "absent" /\ recorded = FALSE /\ taken = FALSE

Queue == state = "absent" /\ state' = "queued" /\ UNCHANGED <<recorded, taken>>

\* A delivery may outlive its e-mail: the record and the message may be late,
\* but never early.
Record ==
  /\ state # "absent" /\ ~recorded
  /\ recorded' = TRUE /\ UNCHANGED <<state, taken>>
Take ==
  /\ recorded /\ ~taken
  /\ taken' = TRUE /\ UNCHANGED <<state, recorded>>

Close(how) ==
  /\ state = "queued"
  /\ how = "sent" => taken
  /\ state' = how /\ UNCHANGED <<recorded, taken>>
Delete ==
  /\ state \in Unsent \cup {"sent"}
  /\ state' = "deleted" /\ UNCHANGED <<recorded, taken>>

Next == Queue \/ Record \/ Take \/ Delete \/ \E how \in Unsent \cup {"sent"} : Close(how)

Spec == Init /\ [][Next]_vars

=============================================================================
