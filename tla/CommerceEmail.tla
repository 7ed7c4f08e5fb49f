---------------------------- MODULE CommerceEmail ----------------------------
(***************************************************************************)
(* The e-mails of a hosted order (src/modules/agent-commerce/operations):   *)
(* the outbox row and its due-work row, the runner that claims due rows     *)
(* under a lease, the delivery of one e-mail in short transactions with the *)
(* journal and the e-mail service called between them, and the sweep.       *)
(*                                                                         *)
(* Every transaction is one action: it locks the due-work row, then the     *)
(* e-mail row, and reads both under the locks.  Between two transactions    *)
(* anything happens: other runners, the sweep, the clock, a lost answer, a  *)
(* crash.  A transaction that throws may have committed or not.             *)
(*                                                                         *)
(* Instants are kept as the ticks that remain until them.  The ownership    *)
(* token of a lease, the text of lease_until, is kept as who was given it   *)
(* and in which transaction: two leases of one row never end at the same    *)
(* instant unless one runner was given both.                                *)
(*                                                                         *)
(* A definition marked Fault is never used by the model: it is a mistake    *)
(* the next definition could have made, kept to show that a property        *)
(* notices it.                                                             *)
(***************************************************************************)
EXTENDS Integers, Sequences

CONSTANTS
  Emails,       \* rows of commerce_outbound_emails that may be queued
  Runners,      \* executions of runDueCommerceWork: the cron's, a request's
  ClaimLease,   \* the lease of a claim (2 minutes)
  SendLease,    \* the lease of a send (60 seconds)
  FailDelay,    \* the delay after a handler threw (1 minute)
  Delay,        \* the delays after transient failures (1, 5, 15, 60 minutes)
  ExpireAfter,  \* the life of a queued e-mail (7 days)
  RetainFor,    \* how long a closed row is retained (45 days)
  MaxCalls,     \* external calls of one execution (50)
  Nobody        \* no lease, no e-mail, no due-work row

ASSUME LeaseAssumption ==
  /\ ClaimLease \in Nat \ {0}
  /\ SendLease \in Nat \ {0}
  /\ FailDelay \in Nat
ASSUME LifeAssumption ==
  /\ ExpireAfter \in Nat \ {0}
  /\ RetainFor \in Nat
  /\ RetainFor >= SendLease
ASSUME DelayAssumption == Delay \in Seq(Nat) /\ Len(Delay) > 0
ASSUME CallsAssumption == MaxCalls \in Nat

VARIABLES
  mail,      \* commerce_outbound_emails
  work,      \* the row of kind email in commerce_due_work, or Nobody
  run,       \* the executions in progress
  journal,   \* the e-mails whose email_send record the journal holds
  redacted,  \* the e-mails whose buyer or contact has been redacted
  accepted   \* the e-mails of which the e-mail service took a copy

vars == <<mail, work, run, journal, redacted, accepted>>

Open == {"absent", "queued"}
Closed == {"sent", "suppressed", "expired", "failed"}
Mail == [state     : Open \cup Closed \cup {"deleted"},
         journaled : BOOLEAN,          \* journaled_at is set
         attempts  : 0..Len(Delay),    \* transient failures, as far as they matter
         left      : Nat]              \* until expires_at; once closed, until deletable

Tokens == Runners \X {"claim", "send"}
Work == [due   : Nat,
         token : Tokens \cup {Nobody},
         left  : Nat]                  \* until lease_until, 0 when it has passed

ASSUME NobodyAssumption ==
  Nobody \notin Emails /\ Nobody \notin Tokens /\ Nobody \notin Work

\* Where an execution is: between two rows (loop), giving back the rest of its
\* claims (release), or about to make the named step for the row at.
Sending == {"send", "sent", "refused", "unsure"}
Phases == {"idle", "loop", "release", "check", "journal", "unlogged", "mark",
           "prepare", "failed"} \cup Sending
Run == [phase   : Phases,
        at      : Emails \cup {Nobody},
        todo    : SUBSET Emails,       \* claimed, not yet started
        calls   : 0..MaxCalls,
        sendIn  : Nat,                 \* what is left of the lease it sends under
        aborted : BOOLEAN]             \* the abort signal of the execution

Idle == [phase |-> "idle", at |-> Nobody, todo |-> {}, calls |-> 0,
         sendIn |-> 0, aborted |-> FALSE]

TypeOK ==
  /\ mail \in [Emails -> Mail]
  /\ work \in [Emails -> Work \cup {Nobody}]
  /\ run \in [Runners -> Run]
  /\ journal \subseteq Emails
  /\ redacted \subseteq Emails
  /\ accepted \subseteq Emails

Init ==
  /\ mail = [e \in Emails |-> [state |-> "absent", journaled |-> FALSE,
                               attempts |-> 0, left |-> 0]]
  /\ work = [e \in Emails |-> Nobody]
  /\ run = [r \in Runners |-> Idle]
  /\ journal = {}
  /\ redacted = {}
  /\ accepted = {}

-----------------------------------------------------------------------------
(* What the transactions are made of.                                       *)

Queued(e) == mail[e].state = "queued"
Held(e, r, key) == work[e] # Nobody /\ work[e].token = <<r, key>>

Owns(e, r, key) == Held(e, r, key) /\ work[e].left > 0

CloseAs(e, s) ==
  mail' = [mail EXCEPT ![e] = [@ EXCEPT !.state = s, !.left = RetainFor]]
DropWork(e) == work' = [work EXCEPT ![e] = Nobody]

Lesser(m, n) == IF m < n THEN m ELSE n

\* Fault: the failures are counted without an end.
RescheduleForever(e) ==
  LET n == Lesser(mail[e].attempts + 1, Len(Delay))
  IN  /\ mail' = [mail EXCEPT ![e] = [@ EXCEPT !.attempts = @ + 1]]
      /\ work' = [work EXCEPT ![e] = [due   |-> Lesser(Delay[n], mail[e].left),
                                      token |-> Nobody,
                                      left  |-> 0]]
Reschedule(e) ==
  LET n == Lesser(mail[e].attempts + 1, Len(Delay))
  IN  /\ mail' = [mail EXCEPT ![e] = [@ EXCEPT !.attempts = n]]
      /\ work' = [work EXCEPT ![e] = [due   |-> Lesser(Delay[n], mail[e].left),
                                      token |-> Nobody,
                                      left  |-> 0]]

\* The handler returns, having made n external calls.
Return(r, n) ==
  run' = [run EXCEPT ![r] = [@ EXCEPT !.phase = "loop", !.at = Nobody,
                                      !.sendIn = 0, !.calls = run[r].calls + n]]
Goto(r, p) == run' = [run EXCEPT ![r] = [@ EXCEPT !.phase = p]]
Fails(r) == Goto(r, "failed")   \* a transaction throws, committed or not

Step(r, p, e) == run[r].phase = p /\ run[r].at = e

-----------------------------------------------------------------------------
(* The outbox, the buyer and the clock.                                     *)

\* A payment outcome or an access request queues its e-mail, with its work,
\* in its own transaction.
Queue(e) ==
  /\ mail[e].state = "absent"
  /\ mail' = [mail EXCEPT ![e] = [state |-> "queued", journaled |-> FALSE,
                                  attempts |-> 0, left |-> ExpireAfter]]
  /\ work' = [work EXCEPT ![e] = [due |-> 0, token |-> Nobody, left |-> 0]]
  /\ UNCHANGED <<run, journal, redacted, accepted>>

Redact(e) ==
  /\ redacted' = redacted \cup {e}
  /\ UNCHANGED <<mail, work, run, journal, accepted>>

Sooner(n) == IF n > 0 THEN n - 1 ELSE 0
SoonerRow(w) == IF w = Nobody THEN Nobody
                ELSE [w EXCEPT !.due = Sooner(w.due), !.left = Sooner(w.left)]
Tick ==
  /\ mail' = [e \in Emails |-> [mail[e] EXCEPT !.left = Sooner(@)]]
  /\ work' = [e \in Emails |-> SoonerRow(work[e])]
  /\ run' = [r \in Runners |-> [run[r] EXCEPT !.sendIn = Sooner(@)]]
  /\ UNCHANGED <<journal, redacted, accepted>>

-----------------------------------------------------------------------------
(* The execution of due work.                                               *)

\* Fault: a row is claimable whoever holds its lease.
ClaimableByAnyone(e) == work[e] # Nobody /\ work[e].due = 0
Claimable(e) == work[e] # Nobody /\ work[e].due = 0 /\ work[e].left = 0

\* One transaction claims some of the due rows: the targets of the execution,
\* what its limit admits, what no other transaction has locked.
Claim(r) ==
  /\ run[r].phase = "idle"
  /\ \E S \in SUBSET {e \in Emails : Claimable(e)} :
       /\ S # {}
       /\ work' = [e \in Emails |->
                     IF e \in S
                     THEN [work[e] EXCEPT !.token = <<r, "claim">>,
                                          !.left = ClaimLease]
                     ELSE work[e]]
       /\ run' = [run EXCEPT ![r] = [Idle EXCEPT !.phase = "loop", !.todo = S]]
  /\ UNCHANGED <<mail, journal, redacted, accepted>>

Start(r, e) ==
  /\ run[r].phase = "loop"
  /\ e \in run[r].todo
  /\ run[r].calls < MaxCalls
  /\ ~run[r].aborted
  /\ run' = [run EXCEPT ![r] = [@ EXCEPT !.phase = "check", !.at = e,
                                         !.todo = run[r].todo \ {e}]]
  /\ UNCHANGED <<mail, work, journal, redacted, accepted>>

\* The request that started the execution has waited long enough.
Abort(r) ==
  /\ run[r].phase # "idle"
  /\ run' = [run EXCEPT ![r] = [@ EXCEPT !.aborted = TRUE]]
  /\ UNCHANGED <<mail, work, journal, redacted, accepted>>

\* The budget of calls is used up, the deadline has passed, or the execution
\* has been aborted: what is left of the claim is given back, row by row.
Stop(r) ==
  /\ run[r].phase = "loop"
  /\ run[r].todo # {}
  /\ Goto(r, "release")
  /\ UNCHANGED <<mail, work, journal, redacted, accepted>>

\* Fault: the row is given back whoever has claimed it since.
ReleaseAny(r, e) ==
  /\ run[r].phase = "release"
  /\ e \in run[r].todo
  /\ work' = IF work[e] # Nobody
             THEN [work EXCEPT ![e] = [@ EXCEPT !.token = Nobody, !.left = 0]]
             ELSE work
  /\ run' = [run EXCEPT ![r] = [@ EXCEPT !.todo = run[r].todo \ {e}]]
  /\ UNCHANGED <<mail, journal, redacted, accepted>>
Release(r, e) ==
  /\ run[r].phase = "release"
  /\ e \in run[r].todo
  /\ work' = IF Held(e, r, "claim")
             THEN [work EXCEPT ![e] = [@ EXCEPT !.token = Nobody, !.left = 0]]
             ELSE work
  /\ run' = [run EXCEPT ![r] = [@ EXCEPT !.todo = run[r].todo \ {e}]]
  /\ UNCHANGED <<mail, journal, redacted, accepted>>

End(r) ==
  /\ run[r].phase \in {"loop", "release"}
  /\ run[r].todo = {}
  /\ run' = [run EXCEPT ![r] = Idle]
  /\ UNCHANGED <<mail, work, journal, redacted, accepted>>

\* The handler threw: one more transaction postpones the row, if it is still
\* under the claim, or throws in its turn.
Fail(r, e) ==
  /\ Step(r, "failed", e)
  /\ \/ /\ Held(e, r, "claim")
        /\ work' = [work EXCEPT ![e] = [due |-> FailDelay, token |-> Nobody,
                                        left |-> 0]]
     \/ UNCHANGED work
  /\ Return(r, 0)
  /\ UNCHANGED <<mail, journal, redacted, accepted>>

\* The process ends.
Crash(r) ==
  /\ run[r].phase # "idle"
  /\ run' = [run EXCEPT ![r] = Idle]
  /\ UNCHANGED <<mail, work, journal, redacted, accepted>>

-----------------------------------------------------------------------------
(* The delivery of the e-mail at hand.                                      *)

\* A transaction of the delivery fails without a trace.
Throw(r) ==
  /\ run[r].phase \in {"check", "unlogged", "mark", "prepare", "sent",
                       "refused", "unsure"}
  /\ Fails(r)
  /\ UNCHANGED <<mail, work, journal, redacted, accepted>>

\* The row is retired: its e-mail is closed, or is to be closed now.
Retire(r, e, stale) ==
  /\ \/ ~Queued(e) /\ UNCHANGED mail
     \/ Queued(e) /\ mail[e].left = 0 /\ CloseAs(e, "expired")
     \/ Queued(e) /\ mail[e].left > 0 /\ stale /\ CloseAs(e, "suppressed")
  /\ DropWork(e)
  /\ Return(r, 0) \/ Fails(r)

Live(e) == Queued(e) /\ mail[e].left > 0 /\ e \notin redacted

Check(r, e) ==
  /\ Step(r, "check", e)
  /\ \/ /\ ~Owns(e, r, "claim")
        /\ Return(r, 0) \/ Fails(r)
        /\ UNCHANGED <<mail, work>>
     \/ Owns(e, r, "claim") /\ Retire(r, e, e \in redacted)
     \/ /\ Owns(e, r, "claim") /\ Live(e)
        /\ \/ run[r].aborted /\ Return(r, 0)
           \/ ~run[r].aborted
              /\ Goto(r, IF mail[e].journaled THEN "prepare" ELSE "journal")
           \/ Fails(r)
        /\ UNCHANGED <<mail, work>>
  /\ UNCHANGED <<journal, redacted, accepted>>

\* The append stores the record or not; its answer tells, or is lost.
\* Fault: the e-mail goes on whatever became of its record.
JournalAnyway(r, e) ==
  /\ Step(r, "journal", e)
  /\ \/ journal' = journal \cup {e}
     \/ journal' = journal
  /\ Goto(r, "mark")
  /\ UNCHANGED <<mail, work, redacted, accepted>>
Journal(r, e) ==
  /\ Step(r, "journal", e)
  /\ \/ journal' = journal \cup {e} /\ Goto(r, "mark")
     \/ journal' \in {journal, journal \cup {e}} /\ Goto(r, "unlogged")
  /\ UNCHANGED <<mail, work, redacted, accepted>>

Unlogged(r, e) ==
  /\ Step(r, "unlogged", e)
  /\ IF Owns(e, r, "claim") /\ Queued(e) THEN Reschedule(e)
                                         ELSE UNCHANGED <<mail, work>>
  /\ Return(r, 0) \/ Fails(r)
  /\ UNCHANGED <<journal, redacted, accepted>>

Mark(r, e) ==
  /\ Step(r, "mark", e)
  /\ IF Queued(e)
     THEN mail' = [mail EXCEPT ![e] = [@ EXCEPT !.journaled = TRUE]]
     ELSE UNCHANGED mail
  /\ IF ~Queued(e) /\ Owns(e, r, "claim") THEN DropWork(e) ELSE UNCHANGED work
  /\ \/ IF Queued(e) /\ Owns(e, r, "claim") /\ ~run[r].aborted
        THEN Goto(r, "prepare") ELSE Return(r, 0)
     \/ Fails(r)
  /\ UNCHANGED <<journal, redacted, accepted>>

\* The e-mail is checked again and its lease becomes the lease of the send,
\* which may end before the claim's would have.
Prepare(r, e) ==
  /\ Step(r, "prepare", e)
  /\ \/ /\ ~Owns(e, r, "claim")
        /\ Return(r, 0) \/ Fails(r)
        /\ UNCHANGED <<mail, work>>
     \/ Owns(e, r, "claim") /\ Retire(r, e, e \in redacted)
     \/ /\ Owns(e, r, "claim") /\ Live(e) /\ mail[e].journaled
        /\ work' = [work EXCEPT ![e] = [@ EXCEPT !.token = <<r, "send">>,
                                                 !.left = SendLease]]
        /\ \/ run[r].aborted /\ Return(r, 0)
           \/ ~run[r].aborted
              /\ run' = [run EXCEPT ![r] = [@ EXCEPT !.phase = "send",
                                                     !.sendIn = SendLease]]
           \/ Fails(r)
        /\ UNCHANGED mail
  /\ UNCHANGED <<journal, redacted, accepted>>

\* The e-mail service takes the message, refuses it for good, or fails in a
\* way that does not tell whether it took it.
Send(r, e) ==
  /\ Step(r, "send", e)
  /\ \/ accepted' = accepted \cup {e} /\ Goto(r, "sent")
     \/ UNCHANGED accepted /\ Goto(r, "refused")
     \/ accepted' \in {accepted, accepted \cup {e}} /\ Goto(r, "unsure")
  /\ UNCHANGED <<mail, work, journal, redacted>>

\* A message that went out counts whoever holds the lease by now; the row is
\* dropped only under the lease of this send.
RecordSent(r, e) ==
  /\ Step(r, "sent", e)
  /\ IF Queued(e) THEN CloseAs(e, "sent") ELSE UNCHANGED mail
  /\ IF Held(e, r, "send") THEN DropWork(e) ELSE UNCHANGED work
  /\ Return(r, 1) \/ Fails(r)
  /\ UNCHANGED <<journal, redacted, accepted>>

RecordRefused(r, e) ==
  /\ Step(r, "refused", e)
  /\ IF Owns(e, r, "send") /\ Queued(e)
     THEN CloseAs(e, "failed") /\ DropWork(e)
     ELSE UNCHANGED <<mail, work>>
  /\ Return(r, 1) \/ Fails(r)
  /\ UNCHANGED <<journal, redacted, accepted>>

\* Fault: a failure that may have sent the message is recorded as a send.
RecordUnsureAsSent(r, e) ==
  /\ Step(r, "unsure", e)
  /\ IF Owns(e, r, "send") /\ Queued(e)
     THEN CloseAs(e, "sent") /\ DropWork(e)
     ELSE UNCHANGED <<mail, work>>
  /\ Return(r, 1) \/ Fails(r)
  /\ UNCHANGED <<journal, redacted, accepted>>
RecordUnsure(r, e) ==
  /\ Step(r, "unsure", e)
  /\ IF Owns(e, r, "send") /\ Queued(e) THEN Reschedule(e)
                                        ELSE UNCHANGED <<mail, work>>
  /\ Return(r, 1) \/ Fails(r)
  /\ UNCHANGED <<journal, redacted, accepted>>

-----------------------------------------------------------------------------
(* The sweep: one transaction expires the queued e-mails past their life    *)
(* and deletes the closed ones past their retention.  It takes the work     *)
(* rows first and skips what others have locked or its limit leaves out.    *)

\* Fault: an e-mail that has a work row left is never deleted.
SweptWithoutWork(skipWork, skipMail) ==
  {e \in Emails : mail[e].left = 0 /\ e \notin skipMail
                  /\ (work[e] # Nobody => Queued(e) /\ e \notin skipWork)}
Swept(skipWork, skipMail) ==
  {e \in Emails : mail[e].left = 0 /\ e \notin skipMail
                  /\ (work[e] # Nobody => e \notin skipWork)}

\* Fault: the work rows go by their target, the e-mail skipped or not.
DroppedByTarget(expiring, deleting, skipWork) ==
  expiring \cup deleting
    \cup {e \in Emails : Queued(e) /\ mail[e].left = 0 /\ e \notin skipWork}
Dropped(expiring, deleting, skipWork) == expiring \cup deleting

Sweep(skipWork, skipMail) ==
  LET swept    == Swept(skipWork, skipMail)
      expiring == {e \in swept : Queued(e)}
      deleting == {e \in swept : mail[e].state \in Closed}
  IN  /\ mail' = [e \in Emails |->
           IF e \in expiring
           THEN [mail[e] EXCEPT !.state = "expired", !.left = RetainFor]
           ELSE IF e \in deleting THEN [mail[e] EXCEPT !.state = "deleted"]
           ELSE mail[e]]
      /\ work' = [e \in Emails |->
           IF e \in Dropped(expiring, deleting, skipWork) THEN Nobody
           ELSE work[e]]
      /\ UNCHANGED <<run, journal, redacted, accepted>>

-----------------------------------------------------------------------------
Deliver(r, e) ==
  \/ Check(r, e) \/ Journal(r, e) \/ Unlogged(r, e) \/ Mark(r, e)
  \/ Prepare(r, e) \/ Send(r, e)
  \/ RecordSent(r, e) \/ RecordRefused(r, e) \/ RecordUnsure(r, e)

Next ==
  \/ Tick
  \/ \E e \in Emails : Queue(e) \/ Redact(e)
  \/ \E r \in Runners :
       \/ Claim(r) \/ Abort(r) \/ Stop(r) \/ End(r) \/ Crash(r) \/ Throw(r)
       \/ \E e \in Emails : \/ Start(r, e) \/ Release(r, e) \/ Fail(r, e)
                            \/ Deliver(r, e)
  \/ \E skipWork, skipMail \in SUBSET Emails : Sweep(skipWork, skipMail)

Spec == Init /\ [][Next]_vars

\* The clock moves, and the sweep, which runs every ten minutes whatever the
\* e-mail switch says, but not in quarantine, finds every row unlocked again and
\* again: the locks it skips are those of short transactions, and a quarantine
\* does not last for ever.
FairSpec == Spec /\ WF_vars(Tick) /\ WF_vars(Sweep({}, {}))

-----------------------------------------------------------------------------
(* Properties.                                                              *)

\* A queued e-mail has its due-work row: whatever fails in its delivery,
\* whoever sweeps, some execution will claim it again.
QueuedHasWork == \A e \in Emails : Queued(e) => work[e] # Nobody

\* No message goes out before the journal holds its record, nor after a
\* failed append was retried by another execution.
JournalBeforeSend ==
  \A r \in Runners : run[r].phase \in Sending => run[r].at \in journal

\* An e-mail recorded as sent is one the service took.
SentMeansAccepted ==
  \A e \in Emails : mail[e].state = "sent" => e \in accepted

\* As long as the lease of a send lasts, the row stays with the sender: no
\* claim, give-back, sweep or late record of another execution takes it, or
\* the e-mail has run out of its life.
LeaseProtectsSend ==
  \A r \in Runners :
    LET e == run[r].at
    IN  run[r].phase \in Sending /\ run[r].sendIn > 0 =>
          \/ /\ work[e] # Nobody
             /\ work[e].token = <<r, "send">>
             /\ work[e].left = run[r].sendIn
             /\ mail[e].state \in {"queued", "sent"}
          \/ mail[e].state = "expired"

\* Two executions send one e-mail at a time only if the lease of one of them
\* has lapsed.
OneLiveSender ==
  \A r, s \in Runners :
    (/\ r # s /\ run[r].at = run[s].at
     /\ run[r].phase \in Sending /\ run[s].phase \in Sending)
    => run[r].sendIn = 0 \/ run[s].sendIn = 0

\* Every e-mail comes to an end with its work, even when the switch stays
\* off, every delivery fails and every execution crashes.
EmailsEnd ==
  \A e \in Emails :
    Queued(e) ~> (mail[e].state = "deleted" /\ work[e] = Nobody)

-----------------------------------------------------------------------------
(* Each e-mail keeps the promise of EmailPromise, whatever executions, sweeps *)
(* and crashes come between.                                                *)

Promise(e) == INSTANCE EmailPromise WITH
  state <- mail[e].state, recorded <- e \in journal, taken <- e \in accepted

\* No message before its record, no "sent" that the service did not take, and
\* no late answer, retry or sweep that touches a closed e-mail
\* (deliverCommerceEmail against sweepCommerceOutboundEmails).
KeepsPromise ==
  /\ \A e \in Emails : Promise(e)!Init
  /\ [][\A e \in Emails : [Promise(e)!Next]_(Promise(e)!vars)]_vars

=============================================================================
