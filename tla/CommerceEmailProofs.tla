------------------------- MODULE CommerceEmailProofs -------------------------
(***************************************************************************)
(* What CommerceEmail guarantees for every number of e-mails, executions    *)
(* and ticks.                                                               *)
(***************************************************************************)
EXTENDS CommerceEmail, TLAPS

\* What a sender knows of its row: see LeaseProtectsSend.  Once the e-mail is
\* closed its row outlives the lease of the send.
Knows(r, e) ==
  (run[r].phase \in Sending /\ run[r].at = e /\ run[r].sendIn > 0) =>
    /\ run[r].sendIn <= SendLease
    /\ \/ /\ work[e] # Nobody
          /\ work[e].token = <<r, "send">>
          /\ work[e].left = run[r].sendIn
          /\ mail[e].state \in {"queued", "sent"}
       \/ mail[e].state = "expired"
    /\ mail[e].state \in {"sent", "expired"} => run[r].sendIn <= mail[e].left
SenderKnows == \A r \in Runners, e \in Emails : Knows(r, e)

Working(r) == run[r].phase \notin {"idle", "loop", "release"}
HasEmail ==
  \A r \in Runners :
    Working(r) => run[r].at \in Emails /\ run[r].calls < MaxCalls

JournalKnows ==
  /\ \A e \in Emails : mail[e].journaled => e \in journal
  /\ \A r \in Runners : run[r].phase \in Sending \cup {"mark"} => run[r].at \in journal

ServiceKnows ==
  /\ SentMeansAccepted
  /\ \A r \in Runners : run[r].phase = "sent" => run[r].at \in accepted

IInv == /\ TypeOK /\ HasEmail /\ QueuedHasWork
        /\ JournalKnows /\ ServiceKnows /\ SenderKnows /\ OneLiveSender

-----------------------------------------------------------------------------
(* The rows keep their types.                                               *)

LEMMA RunRows ==
  ASSUME NEW x \in Run
  PROVE  /\ \A p \in Phases : [x EXCEPT !.phase = p] \in Run
         /\ [x EXCEPT !.aborted = TRUE] \in Run
         /\ \A S \in SUBSET Emails : [x EXCEPT !.todo = S] \in Run
         /\ \A n \in Nat : [x EXCEPT !.sendIn = n] \in Run
         /\ \A p \in Phases, e \in Emails, S \in SUBSET Emails :
              [x EXCEPT !.phase = p, !.at = e, !.todo = S] \in Run
         /\ \A p \in Phases, n \in Nat :
              [x EXCEPT !.phase = p, !.sendIn = n] \in Run
         /\ \A p \in Phases, n \in Nat, c \in 0..MaxCalls :
              [x EXCEPT !.phase = p, !.at = Nobody, !.sendIn = n, !.calls = c]
                \in Run
  BY Zenon DEF Run

LEMMA MailRows ==
  ASSUME NEW x \in Mail
  PROVE  /\ \A s \in Open \cup Closed \cup {"deleted"}, n \in Nat :
              [x EXCEPT !.state = s, !.left = n] \in Mail
         /\ \A s \in Open \cup Closed \cup {"deleted"} :
              [x EXCEPT !.state = s] \in Mail
         /\ \A n \in 0..Len(Delay) : [x EXCEPT !.attempts = n] \in Mail
         /\ [x EXCEPT !.journaled = TRUE] \in Mail
         /\ \A n \in Nat : [x EXCEPT !.left = n] \in Mail
  BY Zenon DEF Mail

LEMMA WorkRows ==
  ASSUME NEW x \in Work
  PROVE  /\ \A t \in Tokens \cup {Nobody}, n \in Nat :
              [x EXCEPT !.token = t, !.left = n] \in Work
         /\ \A m, n \in Nat : [x EXCEPT !.due = m, !.left = n] \in Work
  BY Zenon DEF Work

LEMMA NewRows ==
  /\ \A m \in Nat : [due |-> m, token |-> Nobody, left |-> 0] \in Work
  /\ [state |-> "queued", journaled |-> FALSE, attempts |-> 0,
      left |-> ExpireAfter] \in Mail
  /\ Idle \in Run
  BY LifeAssumption, DelayAssumption, CallsAssumption, SMT
     DEF Work, Mail, Open, Run, Idle, Phases

LEMMA GotoType ==
  ASSUME TypeOK, NEW r \in Runners, NEW p \in Phases, Goto(r, p)
  PROVE  run' \in [Runners -> Run]
  BY RunRows DEF TypeOK, Goto

LEMMA FailsType ==
  ASSUME TypeOK, NEW r \in Runners, Fails(r)
  PROVE  run' \in [Runners -> Run]
  BY GotoType DEF Fails, Phases

\* A handler counts at most one call, and was started with one left.
LEMMA ReturnType ==
  ASSUME TypeOK, NEW r \in Runners, NEW n \in {0, 1},
         run[r].calls < MaxCalls, Return(r, n)
  PROVE  run' \in [Runners -> Run]
<1>1. run[r] \in Run
  BY DEF TypeOK
<1>2. run[r].calls + n \in 0..MaxCalls
  BY <1>1, CallsAssumption, SMT DEF Run
<1>3. [run[r] EXCEPT !.phase = "loop", !.at = Nobody, !.sendIn = 0,
                     !.calls = run[r].calls + n] \in Run
  <2>1. "loop" \in Phases /\ 0 \in Nat
    BY DEF Phases
  <2>. QED  BY <1>1, <1>2, <2>1, RunRows
<1>. QED  BY <1>3 DEF TypeOK, Return

LEMMA CloseType ==
  ASSUME TypeOK, NEW e \in Emails, NEW s \in Closed, CloseAs(e, s)
  PROVE  mail' \in [Emails -> Mail]
  BY MailRows, LifeAssumption DEF TypeOK, CloseAs

LEMMA DropType ==
  ASSUME TypeOK, NEW e \in Emails, DropWork(e)
  PROVE  work' \in [Emails -> Work \cup {Nobody}]
  BY DEF TypeOK, DropWork

LEMMA RescheduleType ==
  ASSUME TypeOK, NEW e \in Emails, Reschedule(e)
  PROVE  /\ mail' \in [Emails -> Mail]
         /\ work' \in [Emails -> Work \cup {Nobody}]
<1>. DEFINE n == Lesser(mail[e].attempts + 1, Len(Delay))
            d == Lesser(Delay[n], mail[e].left)
<1>1. mail[e] \in Mail
  BY DEF TypeOK
<1>2. n \in 1..Len(Delay)
  BY <1>1, DelayAssumption, SMT DEF Mail, Lesser
<1>3. Delay[n] \in Nat
  BY <1>2, DelayAssumption
<1>4. d \in Nat
  BY <1>1, <1>3, SMT DEF Mail, Lesser
<1>5. n \in 0..Len(Delay)
  BY <1>2, DelayAssumption, SMT
<1>6. [due |-> d, token |-> Nobody, left |-> 0] \in Work
  BY <1>4, NewRows
<1>7. [mail[e] EXCEPT !.attempts = n] \in Mail
  BY <1>1, <1>5, MailRows
<1>. HIDE DEF n, d
<1>8. /\ mail' = [mail EXCEPT ![e] = [mail[e] EXCEPT !.attempts = n]]
      /\ work' = [work EXCEPT ![e] = [due |-> d, token |-> Nobody, left |-> 0]]
  BY DEF Reschedule, n, d
<1>. QED  BY <1>6, <1>7, <1>8 DEF TypeOK

LEMMA RetireType ==
  ASSUME TypeOK, NEW r \in Runners, NEW e \in Emails, NEW stale,
         run[r].calls < MaxCalls, Retire(r, e, stale)
  PROVE  /\ mail' \in [Emails -> Mail]
         /\ work' \in [Emails -> Work \cup {Nobody}]
         /\ run' \in [Runners -> Run]
<1>1. mail' \in [Emails -> Mail]
  BY CloseType DEF Retire, Closed, TypeOK
<1>2. work' \in [Emails -> Work \cup {Nobody}]
  BY DropType DEF Retire
<1>3. run' \in [Runners -> Run]
  BY ReturnType, FailsType DEF Retire
<1>. QED  BY <1>1, <1>2, <1>3


LEMMA TypeStep ==
  ASSUME TypeOK, HasEmail, Next
  PROVE  TypeOK'
<1>1. ASSUME NEW e \in Emails, Queue(e)
      PROVE  TypeOK'
  BY <1>1, NewRows DEF Queue, TypeOK
<1>2. ASSUME NEW e \in Emails, Redact(e)
      PROVE  TypeOK'
  BY <1>2 DEF Redact, TypeOK
<1>3. ASSUME Tick
      PROVE  TypeOK'
  <2>1. \A n \in Nat : Sooner(n) \in Nat
    BY SMT DEF Sooner
  <2>2. ASSUME NEW e \in Emails
        PROVE  [mail[e] EXCEPT !.left = Sooner(mail[e].left)] \in Mail
    <3>1. mail[e] \in Mail /\ mail[e].left \in Nat
      BY DEF TypeOK, Mail
    <3>. QED  BY <2>1, <3>1, MailRows
  <2>3. ASSUME NEW e \in Emails, work[e] # Nobody
        PROVE  SoonerRow(work[e]) \in Work
    <3>1. work[e] \in Work /\ work[e].due \in Nat /\ work[e].left \in Nat
      BY <2>3 DEF TypeOK, Work
    <3>. QED  BY <2>1, <2>3, <3>1, WorkRows DEF SoonerRow
  <2>4. ASSUME NEW r \in Runners
        PROVE  [run[r] EXCEPT !.sendIn = Sooner(run[r].sendIn)] \in Run
    <3>1. run[r] \in Run /\ run[r].sendIn \in Nat
      BY DEF TypeOK, Run
    <3>. QED  BY <2>1, <3>1, RunRows
  <2>. QED  BY <1>3, <2>2, <2>3, <2>4 DEF Tick, TypeOK, SoonerRow
<1>4. ASSUME NEW r \in Runners, Claim(r)
      PROVE  TypeOK'
  <2>1. PICK S \in SUBSET {e \in Emails : Claimable(e)} :
          /\ work' = [e \in Emails |->
                        IF e \in S
                        THEN [work[e] EXCEPT !.token = <<r, "claim">>,
                                             !.left = ClaimLease]
                        ELSE work[e]]
          /\ run' = [run EXCEPT ![r] = [Idle EXCEPT !.phase = "loop", !.todo = S]]
    BY <1>4 DEF Claim
  <2>2. [Idle EXCEPT !.phase = "loop", !.todo = S] \in Run
    <3>1. [Idle EXCEPT !.phase = "loop"] \in Run
      BY NewRows, RunRows DEF Phases
    <3>. QED  BY <3>1, RunRows
  <2>3. <<r, "claim">> \in Tokens /\ ClaimLease \in Nat
    BY LeaseAssumption DEF Tokens
  <2>4. ASSUME NEW e \in S
        PROVE  [work[e] EXCEPT !.token = <<r, "claim">>, !.left = ClaimLease] \in Work
    <3>1. work[e] \in Work
      BY DEF TypeOK, Claimable
    <3>. QED  BY <2>3, <3>1, WorkRows
  <2>. QED  BY <1>4, <2>1, <2>2, <2>4 DEF Claim, TypeOK
<1>5. ASSUME NEW r \in Runners, NEW e \in Emails, Start(r, e)
      PROVE  TypeOK'
  <2>1. run[r] \in Run /\ "check" \in Phases
    BY DEF TypeOK, Phases
  <2>2. run[r].todo \ {e} \in SUBSET Emails
    BY <2>1 DEF Run
  <2>3. [run[r] EXCEPT !.phase = "check", !.at = e, !.todo = run[r].todo \ {e}] \in Run
    BY <2>1, <2>2, RunRows
  <2>. QED  BY <1>5, <2>3 DEF Start, TypeOK
<1>6. ASSUME NEW r \in Runners, Abort(r)
      PROVE  TypeOK'
  BY <1>6, RunRows DEF Abort, TypeOK
<1>7. ASSUME NEW r \in Runners, Stop(r)
      PROVE  TypeOK'
  BY <1>7, GotoType DEF Stop, TypeOK, Phases
<1>8. ASSUME NEW r \in Runners, NEW e \in Emails, Release(r, e)
      PROVE  TypeOK'
  <2>1. run[r] \in Run
    BY DEF TypeOK
  <2>2. [run[r] EXCEPT !.todo = run[r].todo \ {e}] \in Run
    <3>1. run[r].todo \ {e} \in SUBSET Emails
      BY <2>1 DEF Run
    <3>. QED  BY <2>1, <3>1, RunRows
  <2>3. ASSUME Held(e, r, "claim")
        PROVE  [work[e] EXCEPT !.token = Nobody, !.left = 0] \in Work
    <3>1. work[e] \in Work
      BY <2>3 DEF Held, TypeOK
    <3>. QED  BY <3>1, WorkRows
  <2>. QED  BY <1>8, <2>2, <2>3 DEF Release, TypeOK
<1>9. ASSUME NEW r \in Runners, End(r)
      PROVE  TypeOK'
  BY <1>9, NewRows DEF End, TypeOK
<1>10. ASSUME NEW r \in Runners, NEW e \in Emails, Fail(r, e)
      PROVE  TypeOK'
  <2>1. run' \in [Runners -> Run]
    BY <1>10, ReturnType DEF Fail, Step, HasEmail, Working
  <2>. QED  BY <1>10, <2>1, NewRows, LeaseAssumption DEF Fail, TypeOK
<1>11. ASSUME NEW r \in Runners, Crash(r)
      PROVE  TypeOK'
  BY <1>11, NewRows DEF Crash, TypeOK
<1>12. ASSUME NEW r \in Runners, Throw(r)
      PROVE  TypeOK'
  BY <1>12, FailsType DEF Throw, TypeOK
<1>13. ASSUME NEW r \in Runners, NEW e \in Emails, Check(r, e)
      PROVE  TypeOK'
  <2>1. run[r].phase = "check" /\ run[r].calls < MaxCalls
    BY <1>13 DEF Check, Step, HasEmail, Working
  <2>2. CASE Retire(r, e, e \in redacted)
    BY <1>13, <2>1, <2>2, RetireType DEF Check, TypeOK
  <2>3. CASE UNCHANGED <<mail, work>>
    <3>1. Return(r, 0) \/ Goto(r, "prepare") \/ Goto(r, "journal") \/ Fails(r)
          \/ Retire(r, e, e \in redacted)
      BY <1>13 DEF Check
    <3>. QED  BY <1>13, <2>1, <2>2, <2>3, <3>1, ReturnType, GotoType, FailsType
              DEF Check, TypeOK, Phases
  <2>. QED  BY <1>13, <2>2, <2>3 DEF Check
<1>14. ASSUME NEW r \in Runners, NEW e \in Emails, Journal(r, e)
      PROVE  TypeOK'
  <2>1. run[r].phase = "journal" /\ run[r].calls < MaxCalls
    BY <1>14 DEF Journal, Step, HasEmail, Working
  <2>. QED  BY <1>14, GotoType DEF Journal, TypeOK, Phases
<1>15. ASSUME NEW r \in Runners, NEW e \in Emails, Unlogged(r, e)
      PROVE  TypeOK'
  <2>1. run[r].phase = "unlogged" /\ run[r].calls < MaxCalls
    BY <1>15 DEF Unlogged, Step, HasEmail, Working
  <2>2. run' \in [Runners -> Run]
    BY <1>15, <2>1, ReturnType, FailsType DEF Unlogged
  <2>. QED  BY <1>15, <2>2, RescheduleType DEF Unlogged, TypeOK
<1>16. ASSUME NEW r \in Runners, NEW e \in Emails, Mark(r, e)
      PROVE  TypeOK'
  <2>1. run[r].phase = "mark" /\ run[r].calls < MaxCalls
    BY <1>16 DEF Mark, Step, HasEmail, Working
  <2>2. run' \in [Runners -> Run]
    BY <1>16, <2>1, ReturnType, FailsType, GotoType DEF Mark, Phases
  <2>3. mail' \in [Emails -> Mail]
    <3>1. [mail[e] EXCEPT !.journaled = TRUE] \in Mail
      BY MailRows DEF TypeOK
    <3>. QED  BY <1>16, <3>1 DEF Mark, TypeOK
  <2>. QED  BY <1>16, <2>2, <2>3, DropType DEF Mark, TypeOK
<1>17. ASSUME NEW r \in Runners, NEW e \in Emails, Prepare(r, e)
      PROVE  TypeOK'
  <2>1. run[r].phase = "prepare" /\ run[r].calls < MaxCalls
    BY <1>17 DEF Prepare, Step, HasEmail, Working
  <2>2. CASE Retire(r, e, e \in redacted)
    BY <1>17, <2>1, <2>2, RetireType DEF Prepare, TypeOK
  <2>3. CASE ~Owns(e, r, "claim")
    BY <1>17, <2>1, <2>3, ReturnType, FailsType, RetireType DEF Prepare, TypeOK
  <2>4. CASE /\ Owns(e, r, "claim")
             /\ work' = [work EXCEPT ![e] = [@ EXCEPT !.token = <<r, "send">>,
                                                      !.left = SendLease]]
             /\ \/ Return(r, 0) \/ Fails(r)
                \/ run' = [run EXCEPT ![r] = [@ EXCEPT !.phase = "send",
                                                       !.sendIn = SendLease]]
             /\ UNCHANGED mail
    <3>1. work[e] \in Work
      BY <2>4 DEF Owns, Held, TypeOK
    <3>2. <<r, "send">> \in Tokens /\ SendLease \in Nat /\ "send" \in Phases
      BY LeaseAssumption DEF Tokens, Phases, Sending
    <3>3. [work[e] EXCEPT !.token = <<r, "send">>, !.left = SendLease] \in Work
      BY <3>1, <3>2, WorkRows
    <3>4. [run[r] EXCEPT !.phase = "send", !.sendIn = SendLease] \in Run
      BY <3>2, RunRows DEF TypeOK
    <3>5. run' \in [Runners -> Run]
      BY <2>1, <2>4, <3>4, ReturnType, FailsType DEF TypeOK
    <3>. QED  BY <1>17, <2>4, <3>3, <3>5 DEF Prepare, TypeOK
  <2>. QED  BY <1>17, <2>2, <2>3, <2>4 DEF Prepare
<1>18. ASSUME NEW r \in Runners, NEW e \in Emails, Send(r, e)
      PROVE  TypeOK'
  <2>1. run[r].phase = "send" /\ run[r].calls < MaxCalls
    BY <1>18 DEF Send, Step, HasEmail, Working
  <2>. QED  BY <1>18, GotoType DEF Send, TypeOK, Phases, Sending
<1>19. ASSUME NEW r \in Runners, NEW e \in Emails, RecordSent(r, e)
      PROVE  TypeOK'
  <2>1. run[r].phase = "sent" /\ run[r].calls < MaxCalls
    BY <1>19 DEF RecordSent, Step, HasEmail, Working
  <2>2. run' \in [Runners -> Run]
    BY <1>19, <2>1, ReturnType, FailsType DEF RecordSent
  <2>. QED  BY <1>19, <2>2, CloseType, DropType DEF RecordSent, TypeOK, Closed
<1>20. ASSUME NEW r \in Runners, NEW e \in Emails, RecordRefused(r, e)
      PROVE  TypeOK'
  <2>1. run[r].phase = "refused" /\ run[r].calls < MaxCalls
    BY <1>20 DEF RecordRefused, Step, HasEmail, Working
  <2>2. run' \in [Runners -> Run]
    BY <1>20, <2>1, ReturnType, FailsType DEF RecordRefused
  <2>. QED  BY <1>20, <2>2, CloseType, DropType DEF RecordRefused, TypeOK, Closed
<1>21. ASSUME NEW r \in Runners, NEW e \in Emails, RecordUnsure(r, e)
      PROVE  TypeOK'
  <2>1. run[r].phase = "unsure" /\ run[r].calls < MaxCalls
    BY <1>21 DEF RecordUnsure, Step, HasEmail, Working
  <2>2. run' \in [Runners -> Run]
    BY <1>21, <2>1, ReturnType, FailsType DEF RecordUnsure
  <2>. QED  BY <1>21, <2>2, RescheduleType DEF RecordUnsure, TypeOK
<1>22. ASSUME NEW skipWork \in SUBSET Emails, NEW skipMail \in SUBSET Emails,
             Sweep(skipWork, skipMail)
      PROVE  TypeOK'
  <2>1. ASSUME NEW e \in Emails
        PROVE  /\ [mail[e] EXCEPT !.state = "expired", !.left = RetainFor] \in Mail
               /\ [mail[e] EXCEPT !.state = "deleted"] \in Mail
    BY MailRows, LifeAssumption DEF TypeOK, Open, Closed
  <2>2. mail' \in [Emails -> Mail]
    BY <1>22, <2>1 DEF Sweep, TypeOK
  <2>3. work' \in [Emails -> Work \cup {Nobody}]
    BY <1>22 DEF Sweep, TypeOK
  <2>. QED  BY <1>22, <2>2, <2>3 DEF Sweep, TypeOK
<1>. QED
  BY <1>1, <1>2, <1>3, <1>4, <1>5, <1>6, <1>7, <1>8, <1>9, <1>10, <1>11, <1>12, <1>13,
     <1>14, <1>15, <1>16, <1>17, <1>18, <1>19, <1>20, <1>21, <1>22 DEF Next, Deliver

-----------------------------------------------------------------------------
(* What the building blocks of the transactions do, field by field.         *)

Same(r) == /\ run'[r].phase = run[r].phase /\ run'[r].at = run[r].at
           /\ run'[r].calls = run[r].calls /\ run'[r].sendIn = run[r].sendIn

LEMMA ReturnDoes ==
  ASSUME TypeOK, NEW r \in Runners, NEW n \in {0, 1}, Return(r, n)
  PROVE  /\ \A x \in Runners : x # r => Same(x)
         /\ run'[r].phase = "loop" /\ run'[r].sendIn = 0
  BY SMT DEF TypeOK, Run, Return, Same

LEMMA GotoDoes ==
  ASSUME TypeOK, NEW r \in Runners, NEW p \in Phases, Goto(r, p)
  PROVE  /\ \A x \in Runners : x # r => Same(x)
         /\ run'[r].phase = p /\ run'[r].at = run[r].at
         /\ run'[r].calls = run[r].calls /\ run'[r].sendIn = run[r].sendIn
  BY SMT DEF TypeOK, Run, Goto, Same

LEMMA FailsDoes ==
  ASSUME TypeOK, NEW r \in Runners, Fails(r)
  PROVE  /\ \A x \in Runners : x # r => Same(x)
         /\ run'[r].phase = "failed" /\ run'[r].at = run[r].at
         /\ run'[r].calls = run[r].calls
  BY GotoDoes DEF Fails, Phases

LEMMA StartDoes ==
  ASSUME TypeOK, NEW r \in Runners, NEW e \in Emails, Start(r, e)
  PROVE  /\ \A x \in Runners : x # r => Same(x)
         /\ run'[r].phase = "check" /\ run'[r].at = e
         /\ run'[r].calls < MaxCalls
  BY SMT DEF TypeOK, Run, Start, Same

LEMMA SendsDoes ==
  ASSUME TypeOK, NEW r \in Runners,
         run' = [run EXCEPT ![r] = [@ EXCEPT !.phase = "send",
                                             !.sendIn = SendLease]]
  PROVE  /\ \A x \in Runners : x # r => Same(x)
         /\ run'[r].phase = "send" /\ run'[r].at = run[r].at
         /\ run'[r].calls = run[r].calls /\ run'[r].sendIn = SendLease
  BY SMT DEF TypeOK, Run, Same

LEMMA AbortDoes ==
  ASSUME TypeOK, NEW r \in Runners, Abort(r)
  PROVE  \A x \in Runners : Same(x)
  BY SMT DEF TypeOK, Run, Abort, Same

LEMMA EndDoes ==
  ASSUME TypeOK, NEW r \in Runners, run' = [run EXCEPT ![r] = Idle]
  PROVE  /\ \A x \in Runners : x # r => Same(x)
         /\ run'[r].phase = "idle"
  BY SMT DEF TypeOK, Run, Idle, Same

LEMMA FieldsLeft ==
  /\ \A x \in Run, n \in Nat :
       /\ [x EXCEPT !.sendIn = n].phase = x.phase
       /\ [x EXCEPT !.sendIn = n].at = x.at
       /\ [x EXCEPT !.sendIn = n].calls = x.calls
       /\ [x EXCEPT !.sendIn = n].sendIn = n
  /\ \A x \in Mail, n \in Nat :
       /\ [x EXCEPT !.left = n].state = x.state
       /\ [x EXCEPT !.left = n].journaled = x.journaled
       /\ [x EXCEPT !.left = n].left = n
  /\ \A x \in Work, m, n \in Nat :
       /\ [x EXCEPT !.due = m, !.left = n].token = x.token
       /\ [x EXCEPT !.due = m, !.left = n].left = n
  /\ \A x \in Work, t \in Tokens \cup {Nobody}, n \in Nat :
       /\ [x EXCEPT !.token = t, !.left = n].token = t
       /\ [x EXCEPT !.token = t, !.left = n].left = n
<1>1. \A x \in Run, n \in Nat :
       /\ [x EXCEPT !.sendIn = n].phase = x.phase
       /\ [x EXCEPT !.sendIn = n].at = x.at
       /\ [x EXCEPT !.sendIn = n].calls = x.calls
       /\ [x EXCEPT !.sendIn = n].sendIn = n
  BY SMT DEF Run
<1>2. \A x \in Mail, n \in Nat :
       /\ [x EXCEPT !.left = n].state = x.state
       /\ [x EXCEPT !.left = n].journaled = x.journaled
       /\ [x EXCEPT !.left = n].left = n
  BY SMT DEF Mail
<1>3. \A x \in Work, m, n \in Nat :
       /\ [x EXCEPT !.due = m, !.left = n].token = x.token
       /\ [x EXCEPT !.due = m, !.left = n].left = n
  BY SMT DEF Work
<1>4. \A x \in Work, t \in Tokens \cup {Nobody}, n \in Nat :
       /\ [x EXCEPT !.token = t, !.left = n].token = t
       /\ [x EXCEPT !.token = t, !.left = n].left = n
  BY SMT DEF Work
<1>. QED  BY <1>1, <1>2, <1>3, <1>4

LEMMA SoonerNat == \A n \in Nat : Sooner(n) \in Nat
  BY SMT DEF Sooner

LEMMA TickDoes ==
  ASSUME TypeOK, Tick
  PROVE  /\ \A r \in Runners :
              /\ run'[r].phase = run[r].phase /\ run'[r].at = run[r].at
              /\ run'[r].calls = run[r].calls
              /\ run'[r].sendIn = Sooner(run[r].sendIn)
         /\ \A e \in Emails :
              /\ mail'[e].state = mail[e].state
              /\ mail'[e].journaled = mail[e].journaled
              /\ mail'[e].left = Sooner(mail[e].left)
              /\ work[e] = Nobody => work'[e] = Nobody
              /\ work[e] # Nobody => /\ work'[e] # Nobody
                                     /\ work'[e].token = work[e].token
                                     /\ work'[e].left = Sooner(work[e].left)
<1>1. ASSUME NEW r \in Runners
      PROVE  /\ run'[r].phase = run[r].phase /\ run'[r].at = run[r].at
             /\ run'[r].calls = run[r].calls
             /\ run'[r].sendIn = Sooner(run[r].sendIn)
  <2>1. run[r] \in Run /\ run[r].sendIn \in Nat
    BY DEF TypeOK, Run
  <2>2. run'[r] = [run[r] EXCEPT !.sendIn = Sooner(run[r].sendIn)]
    BY DEF Tick
  <2>. QED  BY <2>1, <2>2, FieldsLeft, SoonerNat
<1>2. ASSUME NEW e \in Emails
      PROVE  /\ mail'[e].state = mail[e].state
             /\ mail'[e].journaled = mail[e].journaled
             /\ mail'[e].left = Sooner(mail[e].left)
  <2>1. mail[e] \in Mail /\ mail[e].left \in Nat
    BY DEF TypeOK, Mail
  <2>2. mail'[e] = [mail[e] EXCEPT !.left = Sooner(mail[e].left)]
    BY DEF Tick
  <2>. QED  BY <2>1, <2>2, FieldsLeft, SoonerNat
<1>3. ASSUME NEW e \in Emails, work[e] # Nobody
      PROVE  /\ work'[e] # Nobody
             /\ work'[e].token = work[e].token
             /\ work'[e].left = Sooner(work[e].left)
  <2>1. work[e] \in Work /\ work[e].due \in Nat /\ work[e].left \in Nat
    BY <1>3 DEF TypeOK, Work
  <2>2. work'[e] = [work[e] EXCEPT !.due = Sooner(work[e].due),
                                   !.left = Sooner(work[e].left)]
    <3>. DEFINE x == [work[e] EXCEPT !.due = Sooner(work[e].due),
                                     !.left = Sooner(work[e].left)]
    <3>1. work'[e] = SoonerRow(work[e])
      BY DEF Tick
    <3>2. SoonerRow(work[e]) = x
      BY <1>3 DEF SoonerRow
    <3>3. work'[e] = x
      <4>. HIDE DEF x
      <4>. QED  BY <3>1, <3>2
    <3>. QED  BY <3>3
  <2>3. work'[e] \in Work
    <3>1. [work[e] EXCEPT !.due = Sooner(work[e].due),
                          !.left = Sooner(work[e].left)] \in Work
      BY <2>1, WorkRows, SoonerNat, Zenon
    <3>. QED  BY <2>2, <3>1
  <2>. QED  BY <2>1, <2>2, <2>3, FieldsLeft, SoonerNat, NobodyAssumption
<1>4. \A e \in Emails : work[e] = Nobody => work'[e] = Nobody
  BY DEF Tick, SoonerRow
<1>. QED  BY <1>1, <1>2, <1>3, <1>4

LEMMA CloseDoes ==
  ASSUME TypeOK, NEW e \in Emails, NEW s \in Closed, CloseAs(e, s)
  PROVE  /\ \A f \in Emails : f # e => mail'[f] = mail[f]
         /\ mail'[e].state = s /\ mail'[e].left = RetainFor
         /\ mail'[e].journaled = mail[e].journaled
  BY SMT DEF TypeOK, Mail, CloseAs

LEMMA DropDoes ==
  ASSUME TypeOK, NEW e \in Emails, DropWork(e)
  PROVE  /\ \A f \in Emails : f # e => work'[f] = work[f]
         /\ work'[e] = Nobody
  BY SMT DEF TypeOK, DropWork

LEMMA RescheduleDoes ==
  ASSUME TypeOK, TypeOK', NEW e \in Emails, Reschedule(e)
  PROVE  /\ \A f \in Emails : f # e => mail'[f] = mail[f] /\ work'[f] = work[f]
         /\ mail'[e].state = mail[e].state /\ mail'[e].left = mail[e].left
         /\ mail'[e].journaled = mail[e].journaled
         /\ work'[e] # Nobody
<1>. DEFINE n == Lesser(mail[e].attempts + 1, Len(Delay))
            d == Lesser(Delay[n], mail[e].left)
<1>1. /\ mail' = [mail EXCEPT ![e] = [mail[e] EXCEPT !.attempts = n]]
      /\ work' = [work EXCEPT ![e] = [due |-> d, token |-> Nobody, left |-> 0]]
  BY DEF Reschedule
<1>. HIDE DEF n, d
<1>2. mail[e] \in Mail /\ work'[e] \in Work \cup {Nobody}
  BY DEF TypeOK
<1>3. \A f \in Emails : f # e => mail'[f] = mail[f] /\ work'[f] = work[f]
  BY <1>1 DEF TypeOK
<1>4. mail'[e] = [mail[e] EXCEPT !.attempts = n]
  BY <1>1 DEF TypeOK
<1>5. /\ mail'[e].state = mail[e].state /\ mail'[e].left = mail[e].left
      /\ mail'[e].journaled = mail[e].journaled
  BY <1>2, <1>4, SMT DEF Mail
<1>6. work'[e] = [due |-> d, token |-> Nobody, left |-> 0]
  BY <1>1 DEF TypeOK
<1>7. work'[e] # Nobody
  <2>1. DEFINE x == [due |-> d, token |-> Nobody, left |-> 0]
  <2>2. /\ mail[e].left \in Nat /\ n \in 1..Len(Delay)
    BY <1>2, DelayAssumption, SMT DEF Mail, n, Lesser
  <2>3. Delay[n] \in Nat
    BY <2>2, DelayAssumption
  <2>4. d \in Nat
    BY <2>2, <2>3, SMT DEF d, Lesser
  <2>. QED  BY <1>6, <2>4, NewRows, NobodyAssumption
<1>. QED  BY <1>3, <1>5, <1>7

LEMMA MarkDoes ==
  ASSUME TypeOK, NEW e \in Emails,
         mail' = [mail EXCEPT ![e] = [@ EXCEPT !.journaled = TRUE]]
  PROVE  /\ \A f \in Emails : f # e => mail'[f] = mail[f]
         /\ mail'[e].state = mail[e].state /\ mail'[e].left = mail[e].left
  BY SMT DEF TypeOK, Mail

\* A row changes hands: it is claimed, given back, or kept for the send.
LEMMA HandOverDoes ==
  ASSUME TypeOK, NEW e \in Emails, work[e] # Nobody,
         NEW t \in Tokens \cup {Nobody}, NEW n \in Nat,
         work' = [work EXCEPT ![e] = [@ EXCEPT !.token = t, !.left = n]]
  PROVE  /\ \A f \in Emails : f # e => work'[f] = work[f]
         /\ work'[e] # Nobody /\ work'[e].token = t /\ work'[e].left = n
<1>1. work[e] \in Work
  BY DEF TypeOK
<1>. DEFINE x == [work[e] EXCEPT !.token = t, !.left = n]
<1>2. work'[e] = x
  BY DEF TypeOK
<1>3. x \in Work
  BY <1>1, WorkRows
<1>4. x.token = t /\ x.left = n
  BY <1>1, FieldsLeft
<1>5. \A f \in Emails : f # e => work'[f] = work[f]
  BY SMTT(20) DEF TypeOK
<1>. QED  BY <1>2, <1>3, <1>4, <1>5, NobodyAssumption

LEMMA ClaimDoes ==
  ASSUME TypeOK, NEW r \in Runners, Claim(r)
  PROVE  /\ \A x \in Runners : x # r => Same(x)
         /\ run'[r].phase = "loop"
         /\ \A e \in Emails : \/ work'[e] = work[e]
                              \/ /\ work[e] # Nobody /\ work[e].left = 0
                                 /\ work'[e] # Nobody
<1>1. PICK S \in SUBSET {e \in Emails : Claimable(e)} :
        /\ work' = [e \in Emails |->
                      IF e \in S
                      THEN [work[e] EXCEPT !.token = <<r, "claim">>,
                                           !.left = ClaimLease]
                      ELSE work[e]]
        /\ run' = [run EXCEPT ![r] = [Idle EXCEPT !.phase = "loop", !.todo = S]]
  BY DEF Claim
<1>2. /\ \A x \in Runners : x # r => Same(x)
      /\ run'[r].phase = "loop"
  <2>. DEFINE x == [Idle EXCEPT !.phase = "loop", !.todo = S]
  <2>1. x.phase = "loop"
    BY SMT DEF Idle
  <2>2. run' = [run EXCEPT ![r] = x]
    BY <1>1
  <2>. HIDE DEF x
  <2>. QED  BY <2>1, <2>2 DEF TypeOK, Same
<1>3. ASSUME NEW e \in S
      PROVE  work[e] # Nobody /\ work[e].left = 0 /\ work'[e] # Nobody
  <2>1. work[e] # Nobody /\ work[e].left = 0 /\ work[e] \in Work
    BY DEF Claimable, TypeOK
  <2>2. <<r, "claim">> \in Tokens /\ ClaimLease \in Nat
    BY LeaseAssumption DEF Tokens
  <2>. DEFINE x == [work[e] EXCEPT !.token = <<r, "claim">>, !.left = ClaimLease]
  <2>3. x \in Work
    BY <2>1, <2>2, WorkRows
  <2>4. work'[e] = x
    BY <1>1
  <2>. QED  BY <2>1, <2>3, <2>4, NobodyAssumption
<1>. QED  BY <1>1, <1>2, <1>3

LEMMA SweepDoes ==
  ASSUME TypeOK, NEW skipWork \in SUBSET Emails, NEW skipMail \in SUBSET Emails,
         Sweep(skipWork, skipMail), NEW e \in Emails
  PROVE  \/ mail'[e] = mail[e] /\ work'[e] = work[e]
         \/ /\ Queued(e) /\ mail[e].left = 0
            /\ mail'[e].state = "expired" /\ mail'[e].left = RetainFor
            /\ mail'[e].journaled = mail[e].journaled
         \/ /\ mail[e].state \in Closed /\ mail[e].left = 0
            /\ mail'[e].state = "deleted"
            /\ mail'[e].journaled = mail[e].journaled
<1>1. mail[e] \in Mail
  BY DEF TypeOK
<1>2. CASE e \in Swept(skipWork, skipMail) /\ Queued(e)
  <2>1. mail'[e] = [mail[e] EXCEPT !.state = "expired", !.left = RetainFor]
    BY <1>2 DEF Sweep
  <2>2. /\ mail'[e].state = "expired" /\ mail'[e].left = RetainFor
        /\ mail'[e].journaled = mail[e].journaled
    BY <1>1, <2>1, SMT DEF Mail
  <2>. QED  BY <1>2, <2>2 DEF Swept
<1>3. CASE e \in Swept(skipWork, skipMail) /\ mail[e].state \in Closed
  <2>1. ~Queued(e)
    BY <1>3 DEF Queued, Closed
  <2>2. mail'[e] = [mail[e] EXCEPT !.state = "deleted"]
    BY <1>3, <2>1 DEF Sweep
  <2>3. /\ mail'[e].state = "deleted" /\ mail'[e].journaled = mail[e].journaled
    BY <1>1, <2>2, SMT DEF Mail
  <2>. QED  BY <1>3, <2>3 DEF Swept
<1>4. CASE ~(e \in Swept(skipWork, skipMail) /\ (Queued(e) \/ mail[e].state \in Closed))
  BY <1>4 DEF Sweep, Dropped
<1>. QED  BY <1>2, <1>3, <1>4

LEMMA QueueDoes ==
  ASSUME TypeOK, NEW e \in Emails, Queue(e)
  PROVE  /\ \A f \in Emails : f # e => mail'[f] = mail[f] /\ work'[f] = work[f]
         /\ mail[e].state = "absent" /\ mail'[e].state = "queued"
         /\ ~mail'[e].journaled
         /\ work'[e] # Nobody
<1>1. /\ \A f \in Emails : f # e => mail'[f] = mail[f] /\ work'[f] = work[f]
      /\ mail[e].state = "absent"
  BY DEF Queue, TypeOK
<1>2. mail'[e] = [state |-> "queued", journaled |-> FALSE, attempts |-> 0,
                  left |-> ExpireAfter]
  BY DEF Queue, TypeOK
<1>3. work'[e] = [due |-> 0, token |-> Nobody, left |-> 0]
  BY DEF Queue, TypeOK
<1>. QED  BY <1>1, <1>2, <1>3, NewRows, NobodyAssumption

LEMMA FailDoes ==
  ASSUME TypeOK, NEW r \in Runners, NEW e \in Emails, Fail(r, e)
  PROVE  /\ mail' = mail
         /\ \A f \in Emails : \/ work'[f] = work[f]
                              \/ f = e /\ Held(e, r, "claim") /\ work'[e] # Nobody
<1>1. CASE work' = [work EXCEPT ![e] = [due |-> FailDelay, token |-> Nobody,
                                        left |-> 0]]
  <2>1. [due |-> FailDelay, token |-> Nobody, left |-> 0] # Nobody
    BY NewRows, NobodyAssumption, LeaseAssumption
  <2>2. CASE Held(e, r, "claim")
    BY <1>1, <2>1, <2>2 DEF Fail, TypeOK
  <2>3. CASE ~Held(e, r, "claim")
    BY <2>3, Zenon DEF Fail
  <2>. QED  BY <2>2, <2>3
<1>2. CASE work' = work
  BY <1>2, Zenon DEF Fail
<1>. QED  BY <1>1, <1>2 DEF Fail

LEMMA ReleaseDoes ==
  ASSUME TypeOK, NEW r \in Runners, NEW e \in Emails, Release(r, e)
  PROVE  /\ mail' = mail
         /\ \A f \in Emails : \/ work'[f] = work[f]
                              \/ f = e /\ Held(e, r, "claim") /\ work'[e] # Nobody
<1>1. CASE Held(e, r, "claim")
  BY <1>1, HandOverDoes DEF Release, Held
<1>2. CASE ~Held(e, r, "claim")
  BY <1>2, Zenon DEF Release
<1>. QED  BY <1>1, <1>2 DEF Release

LEMMA EndsDoes ==
  ASSUME TypeOK, NEW r \in Runners, End(r) \/ Crash(r)
  PROVE  /\ \A x \in Runners : x # r => Same(x)
         /\ run'[r].phase = "idle"
         /\ UNCHANGED <<mail, work, journal, redacted, accepted>>
<1>1. run' = [run EXCEPT ![r] = Idle]
  BY DEF End, Crash
<1>. QED  BY <1>1, EndDoes DEF End, Crash

LEMMA HandOver ==
  ASSUME TypeOK, NEW r \in Runners, NEW e \in Emails, Owns(e, r, "claim"),
         work' = [work EXCEPT ![e] = [@ EXCEPT !.token = <<r, "send">>,
                                               !.left = SendLease]]
  PROVE  /\ \A f \in Emails : f # e => work'[f] = work[f]
         /\ work'[e] # Nobody
         /\ work'[e].token = <<r, "send">> /\ work'[e].left = SendLease
<1>. DEFINE x == [work[e] EXCEPT !.token = <<r, "send">>, !.left = SendLease]
<1>1. work[e] \in Work
  BY DEF TypeOK, Owns, Held
<1>2. <<r, "send">> \in Tokens \cup {Nobody} /\ SendLease \in Nat
  BY LeaseAssumption DEF Tokens
<1>3. x \in Work
  BY <1>1, <1>2, WorkRows
<1>4. x.token = <<r, "send">> /\ x.left = SendLease
  BY <1>1, <1>2, FieldsLeft
<1>5. work'[e] = x /\ \A f \in Emails : f # e => work'[f] = work[f]
  BY DEF TypeOK
<1>. QED  BY <1>3, <1>4, <1>5, NobodyAssumption

LEMMA PrepareRun ==
  ASSUME TypeOK, NEW r \in Runners, NEW e \in Emails, Prepare(r, e)
  PROVE  /\ \A x \in Runners : x # r => Same(x)
         /\ run[r].phase = "prepare" /\ run[r].at = e
         /\ \/ run'[r].phase = "loop"
            \/ run'[r].phase = "failed" /\ run'[r].at = run[r].at
               /\ run'[r].calls = run[r].calls
            \/ /\ Owns(e, r, "claim") /\ Live(e) /\ mail[e].journaled
               /\ mail' = mail
               /\ work'[e] # Nobody /\ work'[e].token = <<r, "send">>
               /\ work'[e].left = SendLease
               /\ run'[r].phase = "send" /\ run'[r].at = run[r].at
               /\ run'[r].calls = run[r].calls /\ run'[r].sendIn = SendLease
<1>1. CASE Return(r, 0)
  BY <1>1, ReturnDoes DEF Prepare, Step
<1>2. CASE Fails(r)
  BY <1>2, FailsDoes DEF Prepare, Step
<1>3. CASE run' = [run EXCEPT ![r] = [@ EXCEPT !.phase = "send",
                                               !.sendIn = SendLease]]
  <2>1. /\ \A x \in Runners : x # r => Same(x)
        /\ run'[r].phase = "send" /\ run'[r].at = run[r].at
        /\ run'[r].calls = run[r].calls /\ run'[r].sendIn = SendLease
    BY <1>3, SendsDoes
  <2>2. CASE Return(r, 0) \/ Fails(r)
    BY <1>1, <1>2, <2>2
  <2>3. CASE ~(Return(r, 0) \/ Fails(r))
    <3>1. /\ Owns(e, r, "claim") /\ Live(e) /\ mail[e].journaled
          /\ work' = [work EXCEPT ![e] = [@ EXCEPT !.token = <<r, "send">>,
                                                   !.left = SendLease]]
          /\ mail' = mail
      BY <2>3, Zenon DEF Prepare, Retire
    <3>2. /\ work'[e] # Nobody /\ work'[e].token = <<r, "send">>
          /\ work'[e].left = SendLease
      BY <3>1, HandOver
    <3>3. run[r].phase = "prepare" /\ run[r].at = e
      BY DEF Prepare, Step
    <3>. QED  BY <2>1, <3>1, <3>2, <3>3
  <2>. QED  BY <2>2, <2>3
<1>. QED  BY <1>1, <1>2, <1>3 DEF Prepare, Retire

LEMMA RetireDoes ==
  ASSUME TypeOK, NEW r \in Runners, NEW e \in Emails,
         Retire(r, e, e \in redacted)
  PROVE  /\ \A f \in Emails : f # e => mail'[f] = mail[f] /\ work'[f] = work[f]
         /\ work'[e] = Nobody
         /\ \/ mail'[e] = mail[e] /\ ~Queued(e)
            \/ /\ Queued(e)
               /\ mail'[e].state \in {"expired", "suppressed"}
               /\ mail'[e].left = RetainFor
               /\ mail'[e].journaled = mail[e].journaled
<1>1. CASE mail' = mail /\ ~Queued(e)
  BY <1>1, DropDoes DEF Retire
<1>2. CASE CloseAs(e, "expired")
  BY <1>2, DropDoes, CloseDoes DEF Retire, Closed
<1>3. CASE CloseAs(e, "suppressed")
  BY <1>3, DropDoes, CloseDoes DEF Retire, Closed
<1>. QED  BY <1>1, <1>2, <1>3 DEF Retire

LEMMA PrepareRows ==
  ASSUME TypeOK, NEW r \in Runners, NEW e \in Emails, Prepare(r, e)
  PROVE  /\ UNCHANGED <<journal, redacted, accepted>>
         /\ \A f \in Emails : f # e => mail'[f] = mail[f] /\ work'[f] = work[f]
         /\ \/ mail' = mail /\ work' = work /\ ~Owns(e, r, "claim")
            \/ /\ Owns(e, r, "claim") /\ mail' = mail
               /\ work'[e] # Nobody /\ work'[e].token = <<r, "send">>
               /\ work'[e].left = SendLease
            \/ /\ Owns(e, r, "claim") /\ work'[e] = Nobody
               /\ \/ mail'[e] = mail[e] /\ ~Queued(e)
                  \/ /\ Queued(e)
                     /\ mail'[e].state \in {"expired", "suppressed"}
                     /\ mail'[e].left = RetainFor
                     /\ mail'[e].journaled = mail[e].journaled
<1>1. CASE Owns(e, r, "claim") /\ Retire(r, e, e \in redacted)
  <2>1. UNCHANGED <<journal, redacted, accepted>>
    BY Zenon DEF Prepare
  <2>2. Retire(r, e, e \in redacted) /\ Owns(e, r, "claim")
    BY <1>1
  <2>3. \A f \in Emails : f # e => mail'[f] = mail[f] /\ work'[f] = work[f]
    BY <2>2, RetireDoes
  <2>4. work'[e] = Nobody
    BY <2>2, RetireDoes
  <2>5. \/ mail'[e] = mail[e] /\ ~Queued(e)
        \/ /\ Queued(e)
           /\ mail'[e].state \in {"expired", "suppressed"}
           /\ mail'[e].left = RetainFor
           /\ mail'[e].journaled = mail[e].journaled
    BY <2>2, RetireDoes
  <2>. QED  BY <2>1, <2>2, <2>3, <2>4, <2>5
<1>2. CASE /\ Owns(e, r, "claim") /\ UNCHANGED mail
           /\ work' = [work EXCEPT ![e] = [@ EXCEPT !.token = <<r, "send">>,
                                                    !.left = SendLease]]
  <2>1. /\ \A f \in Emails : f # e => work'[f] = work[f]
        /\ work'[e] # Nobody
        /\ work'[e].token = <<r, "send">> /\ work'[e].left = SendLease
    BY <1>2, HandOver
  <2>2. UNCHANGED <<journal, redacted, accepted>>
    BY DEF Prepare
  <2>. QED  BY <1>2, <2>1, <2>2
<1>3. CASE ~Owns(e, r, "claim") /\ UNCHANGED <<mail, work>>
  BY <1>3 DEF Prepare
<1>. QED  BY <1>1, <1>2, <1>3 DEF Prepare

LEMMA CheckRows ==
  ASSUME TypeOK, NEW r \in Runners, NEW e \in Emails, Check(r, e)
  PROVE  /\ UNCHANGED <<journal, redacted, accepted>>
         /\ \A f \in Emails : f # e => mail'[f] = mail[f] /\ work'[f] = work[f]
         /\ \/ mail' = mail /\ work' = work
            \/ /\ Owns(e, r, "claim") /\ work'[e] = Nobody
               /\ \/ mail'[e] = mail[e] /\ ~Queued(e)
                  \/ /\ Queued(e)
                     /\ mail'[e].state \in {"expired", "suppressed"}
                     /\ mail'[e].left = RetainFor
                     /\ mail'[e].journaled = mail[e].journaled
<1>1. CASE Owns(e, r, "claim") /\ Retire(r, e, e \in redacted)
  <2>1. UNCHANGED <<journal, redacted, accepted>>
    BY Zenon DEF Check
  <2>2. Retire(r, e, e \in redacted) /\ Owns(e, r, "claim")
    BY <1>1
  <2>3. \A f \in Emails : f # e => mail'[f] = mail[f] /\ work'[f] = work[f]
    BY <2>2, RetireDoes
  <2>4. work'[e] = Nobody
    BY <2>2, RetireDoes
  <2>5. \/ mail'[e] = mail[e] /\ ~Queued(e)
        \/ /\ Queued(e)
           /\ mail'[e].state \in {"expired", "suppressed"}
           /\ mail'[e].left = RetainFor
           /\ mail'[e].journaled = mail[e].journaled
    BY <2>2, RetireDoes
  <2>. QED  BY <2>1, <2>2, <2>3, <2>4, <2>5
<1>2. CASE UNCHANGED <<mail, work>>
  BY <1>2 DEF Check
<1>. QED  BY <1>1, <1>2 DEF Check

LEMMA CheckRun ==
  ASSUME TypeOK, NEW r \in Runners, NEW e \in Emails, Check(r, e)
  PROVE  /\ \A x \in Runners : x # r => Same(x)
         /\ run'[r].phase \in {"loop", "failed", "prepare", "journal"}
  BY ReturnDoes, FailsDoes, GotoDoes DEF Check, Retire, Phases

LEMMA MarkRun ==
  ASSUME TypeOK, NEW r \in Runners, NEW e \in Emails, Mark(r, e)
  PROVE  /\ \A x \in Runners : x # r => Same(x)
         /\ run'[r].phase \in {"prepare", "loop", "failed"}
  BY ReturnDoes, FailsDoes, GotoDoes DEF Mark, Phases

LEMMA MarkRows ==
  ASSUME TypeOK, NEW r \in Runners, NEW e \in Emails, Mark(r, e)
  PROVE  /\ UNCHANGED <<journal, redacted, accepted>>
         /\ \A f \in Emails : /\ mail'[f].state = mail[f].state
                              /\ mail'[f].left = mail[f].left
                              /\ f # e => mail'[f].journaled = mail[f].journaled
         /\ \A f \in Emails : \/ work'[f] = work[f]
                              \/ f = e /\ ~Queued(e) /\ Owns(e, r, "claim")
                                 /\ work'[f] = Nobody
<1>1. CASE Queued(e)
  <2>1. mail' = [mail EXCEPT ![e] = [@ EXCEPT !.journaled = TRUE]]
    BY <1>1 DEF Mark
  <2>2. work' = work /\ UNCHANGED <<journal, redacted, accepted>>
    BY <1>1 DEF Mark
  <2>3. \A f \in Emails : /\ mail'[f].state = mail[f].state
                          /\ mail'[f].left = mail[f].left
                          /\ f # e => mail'[f].journaled = mail[f].journaled
    BY <2>1, MarkDoes
  <2>. QED  BY <2>2, <2>3
<1>2. CASE ~Queued(e)
  BY <1>2, DropDoes DEF Mark
<1>. QED  BY <1>1, <1>2


LEMMA ReleaseRun ==
  ASSUME TypeOK, NEW r \in Runners, NEW e \in Emails, Release(r, e)
  PROVE  \A x \in Runners : Same(x)
<1>. DEFINE y == [run[r] EXCEPT !.todo = run[r].todo \ {e}]
<1>1. /\ y.phase = run[r].phase /\ y.at = run[r].at
      /\ y.calls = run[r].calls /\ y.sendIn = run[r].sendIn
  BY SMT DEF TypeOK, Run
<1>2. run' = [run EXCEPT ![r] = y]
  BY DEF Release
<1>. HIDE DEF y
<1>. QED  BY <1>1, <1>2 DEF TypeOK, Same

LEMMA HasEmailStep ==
  ASSUME TypeOK, HasEmail, TypeOK', Next
  PROVE  HasEmail'
<1>1. ASSUME NEW e \in Emails, Queue(e)
      PROVE  HasEmail'
  BY <1>1 DEF Queue, HasEmail, Working, Same, Phases, Sending
<1>2. ASSUME NEW e \in Emails, Redact(e)
      PROVE  HasEmail'
  BY <1>2 DEF Redact, HasEmail, Working, Same, Phases, Sending
<1>3. ASSUME Tick
      PROVE  HasEmail'
  BY <1>3, TickDoes DEF HasEmail, Working, Same, Phases, Sending
<1>4. ASSUME NEW r \in Runners, Claim(r)
      PROVE  HasEmail'
  BY <1>4, ClaimDoes DEF HasEmail, Working, Same, Phases, Sending
<1>5. ASSUME NEW r \in Runners, NEW e \in Emails, Start(r, e)
      PROVE  HasEmail'
  BY <1>5, StartDoes DEF HasEmail, Working, Same, Phases, Sending
<1>6. ASSUME NEW r \in Runners, Abort(r)
      PROVE  HasEmail'
  BY <1>6, AbortDoes DEF HasEmail, Working, Same, Phases, Sending
<1>7. ASSUME NEW r \in Runners, Stop(r)
      PROVE  HasEmail'
  BY <1>7, GotoDoes DEF Stop, HasEmail, Working, Same, Phases, Sending
<1>8. ASSUME NEW r \in Runners, NEW e \in Emails, Release(r, e)
      PROVE  HasEmail'
  BY <1>8, ReleaseRun DEF Release, HasEmail, Working, Same, Phases, Sending
<1>9. ASSUME NEW r \in Runners, End(r)
      PROVE  HasEmail'
  BY <1>9, EndDoes DEF End, HasEmail, Working, Same, Phases, Sending
<1>10. ASSUME NEW r \in Runners, NEW e \in Emails, Fail(r, e)
      PROVE  HasEmail'
  BY <1>10, ReturnDoes DEF Fail, HasEmail, Working, Same, Phases, Sending
<1>11. ASSUME NEW r \in Runners, Crash(r)
      PROVE  HasEmail'
  BY <1>11, EndDoes DEF Crash, HasEmail, Working, Same, Phases, Sending
<1>12. ASSUME NEW r \in Runners, Throw(r)
      PROVE  HasEmail'
  BY <1>12, FailsDoes DEF Throw, HasEmail, Working, Same, Phases, Sending
<1>13. ASSUME NEW r \in Runners, NEW e \in Emails, Check(r, e)
      PROVE  HasEmail'
  BY <1>13, ReturnDoes, FailsDoes, GotoDoes DEF Check, Step, Retire, HasEmail, Working,
     Same, Phases, Sending
<1>14. ASSUME NEW r \in Runners, NEW e \in Emails, Journal(r, e)
      PROVE  HasEmail'
  BY <1>14, GotoDoes DEF Journal, Step, HasEmail, Working, Same, Phases, Sending
<1>15. ASSUME NEW r \in Runners, NEW e \in Emails, Unlogged(r, e)
      PROVE  HasEmail'
  BY <1>15, ReturnDoes, FailsDoes DEF Unlogged, Step, HasEmail, Working, Same, Phases,
     Sending
<1>16. ASSUME NEW r \in Runners, NEW e \in Emails, Mark(r, e)
      PROVE  HasEmail'
  BY <1>16, ReturnDoes, FailsDoes, GotoDoes, SMTT(20) DEF Mark, Step, HasEmail, Working, Same,
     Phases, Sending
<1>17. ASSUME NEW r \in Runners, NEW e \in Emails, Prepare(r, e)
      PROVE  HasEmail'
  BY <1>17, PrepareRun DEF HasEmail, Working, Same
<1>18. ASSUME NEW r \in Runners, NEW e \in Emails, Send(r, e)
      PROVE  HasEmail'
  BY <1>18, GotoDoes DEF Send, Step, HasEmail, Working, Same, Phases, Sending
<1>19. ASSUME NEW r \in Runners, NEW e \in Emails, RecordSent(r, e)
      PROVE  HasEmail'
  BY <1>19, ReturnDoes, FailsDoes DEF RecordSent, Step, HasEmail, Working, Same, Phases,
     Sending
<1>20. ASSUME NEW r \in Runners, NEW e \in Emails, RecordRefused(r, e)
      PROVE  HasEmail'
  BY <1>20, ReturnDoes, FailsDoes DEF RecordRefused, Step, HasEmail, Working, Same,
     Phases, Sending
<1>21. ASSUME NEW r \in Runners, NEW e \in Emails, RecordUnsure(r, e)
      PROVE  HasEmail'
  BY <1>21, ReturnDoes, FailsDoes DEF RecordUnsure, Step, HasEmail, Working, Same,
     Phases, Sending
<1>22. ASSUME NEW skipWork \in SUBSET Emails, NEW skipMail \in SUBSET Emails, Sweep(skipWork, skipMail)
      PROVE  HasEmail'
  BY <1>22 DEF Sweep, HasEmail, Working, Same, Phases, Sending
<1>. QED
  BY <1>1, <1>2, <1>3, <1>4, <1>5, <1>6, <1>7, <1>8, <1>9, <1>10, <1>11, <1>12, <1>13,
     <1>14, <1>15, <1>16, <1>17, <1>18, <1>19, <1>20, <1>21, <1>22 DEF Next, Deliver


LEMMA ClaimMail ==
  ASSUME NEW r \in Runners, Claim(r)
  PROVE  mail' = mail
  BY Zenon DEF Claim

LEMMA QueuedHasWorkStep ==
  ASSUME TypeOK, QueuedHasWork, TypeOK', Next
  PROVE  QueuedHasWork'
<1>1. ASSUME NEW e \in Emails, Queue(e)
      PROVE  QueuedHasWork'
  BY <1>1, QueueDoes DEF Queued, QueuedHasWork
<1>2. ASSUME NEW e \in Emails, Redact(e)
      PROVE  QueuedHasWork'
  BY <1>2 DEF Redact, Queued, QueuedHasWork
<1>3. ASSUME Tick
      PROVE  QueuedHasWork'
  BY <1>3, TickDoes DEF Queued, QueuedHasWork
<1>4. ASSUME NEW r \in Runners, Claim(r)
      PROVE  QueuedHasWork'
  BY <1>4, ClaimDoes, ClaimMail DEF Queued, QueuedHasWork
<1>5. ASSUME NEW r \in Runners, NEW e \in Emails, Start(r, e)
      PROVE  QueuedHasWork'
  BY <1>5 DEF Start, Queued, QueuedHasWork
<1>6. ASSUME NEW r \in Runners, Abort(r)
      PROVE  QueuedHasWork'
  BY <1>6 DEF Abort, Queued, QueuedHasWork
<1>7. ASSUME NEW r \in Runners, Stop(r)
      PROVE  QueuedHasWork'
  BY <1>7 DEF Stop, Queued, QueuedHasWork
<1>8. ASSUME NEW r \in Runners, NEW e \in Emails, Release(r, e)
      PROVE  QueuedHasWork'
  BY <1>8, ReleaseDoes DEF Queued, QueuedHasWork
<1>9. ASSUME NEW r \in Runners, End(r)
      PROVE  QueuedHasWork'
  BY <1>9 DEF End, Queued, QueuedHasWork
<1>10. ASSUME NEW r \in Runners, NEW e \in Emails, Fail(r, e)
      PROVE  QueuedHasWork'
  BY <1>10, FailDoes DEF Queued, QueuedHasWork
<1>11. ASSUME NEW r \in Runners, Crash(r)
      PROVE  QueuedHasWork'
  BY <1>11 DEF Crash, Queued, QueuedHasWork
<1>12. ASSUME NEW r \in Runners, Throw(r)
      PROVE  QueuedHasWork'
  BY <1>12 DEF Throw, Queued, QueuedHasWork
<1>13. ASSUME NEW r \in Runners, NEW e \in Emails, Check(r, e)
      PROVE  QueuedHasWork'
  BY <1>13, CloseDoes, DropDoes DEF Check, Retire, Closed, Queued, QueuedHasWork
<1>14. ASSUME NEW r \in Runners, NEW e \in Emails, Journal(r, e)
      PROVE  QueuedHasWork'
  BY <1>14 DEF Journal, Queued, QueuedHasWork
<1>15. ASSUME NEW r \in Runners, NEW e \in Emails, Unlogged(r, e)
      PROVE  QueuedHasWork'
  BY <1>15, RescheduleDoes DEF Unlogged, Queued, QueuedHasWork
<1>16. ASSUME NEW r \in Runners, NEW e \in Emails, Mark(r, e)
      PROVE  QueuedHasWork'
  BY <1>16, MarkDoes, DropDoes DEF Mark, Queued, QueuedHasWork
<1>17. ASSUME NEW r \in Runners, NEW e \in Emails, Prepare(r, e)
      PROVE  QueuedHasWork'
  BY <1>17, PrepareRows DEF Queued, QueuedHasWork
<1>18. ASSUME NEW r \in Runners, NEW e \in Emails, Send(r, e)
      PROVE  QueuedHasWork'
  BY <1>18 DEF Send, Queued, QueuedHasWork
<1>19. ASSUME NEW r \in Runners, NEW e \in Emails, RecordSent(r, e)
      PROVE  QueuedHasWork'
  BY <1>19, CloseDoes, DropDoes DEF RecordSent, Closed, Queued, QueuedHasWork
<1>20. ASSUME NEW r \in Runners, NEW e \in Emails, RecordRefused(r, e)
      PROVE  QueuedHasWork'
  BY <1>20, CloseDoes, DropDoes DEF RecordRefused, Closed, Queued, QueuedHasWork
<1>21. ASSUME NEW r \in Runners, NEW e \in Emails, RecordUnsure(r, e)
      PROVE  QueuedHasWork'
  BY <1>21, RescheduleDoes DEF RecordUnsure, Queued, QueuedHasWork
<1>22. ASSUME NEW skipWork \in SUBSET Emails, NEW skipMail \in SUBSET Emails, Sweep(skipWork, skipMail)
      PROVE  QueuedHasWork'
  BY <1>22, SweepDoes DEF Queued, QueuedHasWork
<1>. QED
  BY <1>1, <1>2, <1>3, <1>4, <1>5, <1>6, <1>7, <1>8, <1>9, <1>10, <1>11, <1>12, <1>13,
     <1>14, <1>15, <1>16, <1>17, <1>18, <1>19, <1>20, <1>21, <1>22 DEF Next, Deliver


LEMMA Frames ==
  /\ Tick => UNCHANGED <<journal, redacted, accepted>>
  /\ \A r \in Runners : Claim(r) => UNCHANGED <<mail, journal, redacted, accepted>>
  /\ \A r \in Runners : Abort(r) => UNCHANGED <<mail, work, journal, redacted, accepted>>
  /\ \A r \in Runners, e \in Emails :
       /\ Start(r, e) => UNCHANGED <<mail, work, journal, redacted, accepted>>
       /\ Release(r, e) => UNCHANGED <<mail, journal, redacted, accepted>>
       /\ Fail(r, e) => UNCHANGED <<mail, journal, redacted, accepted>> /\ Return(r, 0)
  /\ \A e \in Emails : Queue(e) => UNCHANGED <<run, journal, redacted, accepted>>
  /\ \A skipWork, skipMail \in SUBSET Emails :
       Sweep(skipWork, skipMail) => UNCHANGED <<run, journal, redacted, accepted>>
  BY Zenon DEF Tick, Claim, Abort, Start, Release, Fail, Queue, Sweep

LEMMA JournalKnowsStep ==
  ASSUME TypeOK, HasEmail, JournalKnows, TypeOK', Next
  PROVE  JournalKnows'
<1>1. ASSUME NEW e \in Emails, Queue(e)
      PROVE  JournalKnows'
  BY <1>1, QueueDoes, Frames DEF JournalKnows, Same, Phases, Sending, HasEmail, Working,
     Queued
<1>2. ASSUME NEW e \in Emails, Redact(e)
      PROVE  JournalKnows'
  BY <1>2 DEF Redact, Step, JournalKnows, Same, Phases, Sending, HasEmail, Working,
     Queued
<1>3. ASSUME Tick
      PROVE  JournalKnows'
  BY <1>3, TickDoes, Frames DEF JournalKnows, Same, Phases, Sending, HasEmail, Working,
     Queued
<1>4. ASSUME NEW r \in Runners, Claim(r)
      PROVE  JournalKnows'
  BY <1>4, ClaimDoes, ClaimMail, Frames DEF JournalKnows, Same, Phases, Sending,
     HasEmail, Working, Queued
<1>5. ASSUME NEW r \in Runners, NEW e \in Emails, Start(r, e)
      PROVE  JournalKnows'
  BY <1>5, StartDoes, Frames DEF JournalKnows, Same, Phases, Sending, HasEmail, Working,
     Queued
<1>6. ASSUME NEW r \in Runners, Abort(r)
      PROVE  JournalKnows'
  BY <1>6, AbortDoes, Frames DEF JournalKnows, Same, Phases, Sending, HasEmail, Working,
     Queued
<1>7. ASSUME NEW r \in Runners, Stop(r)
      PROVE  JournalKnows'
  BY <1>7, GotoDoes DEF Stop, JournalKnows, Same, Phases, Sending, HasEmail, Working,
     Queued
<1>8. ASSUME NEW r \in Runners, NEW e \in Emails, Release(r, e)
      PROVE  JournalKnows'
  BY <1>8, ReleaseRun, ReleaseDoes, Frames DEF JournalKnows, Same, Phases, Sending,
     HasEmail, Working, Queued
<1>9. ASSUME NEW r \in Runners, End(r)
      PROVE  JournalKnows'
  BY <1>9, EndsDoes DEF JournalKnows, Same, Phases, Sending, HasEmail, Working, Queued
<1>10. ASSUME NEW r \in Runners, NEW e \in Emails, Fail(r, e)
      PROVE  JournalKnows'
  BY <1>10, ReturnDoes, FailDoes, Frames DEF JournalKnows, Same, Phases, Sending,
     HasEmail, Working, Queued
<1>11. ASSUME NEW r \in Runners, Crash(r)
      PROVE  JournalKnows'
  BY <1>11, EndsDoes DEF JournalKnows, Same, Phases, Sending, HasEmail, Working, Queued
<1>12. ASSUME NEW r \in Runners, Throw(r)
      PROVE  JournalKnows'
  BY <1>12, FailsDoes DEF Throw, JournalKnows, Same, Phases, Sending, HasEmail, Working,
     Queued
<1>13. ASSUME NEW r \in Runners, NEW e \in Emails, Check(r, e)
      PROVE  JournalKnows'
  BY <1>13, CheckRun, CheckRows DEF JournalKnows, Same, Phases, Sending, HasEmail,
     Working, Queued
<1>14. ASSUME NEW r \in Runners, NEW e \in Emails, Journal(r, e)
      PROVE  JournalKnows'
  BY <1>14, GotoDoes DEF Journal, Step, JournalKnows, Same, Phases, Sending, HasEmail,
     Working, Queued
<1>15. ASSUME NEW r \in Runners, NEW e \in Emails, Unlogged(r, e)
      PROVE  JournalKnows'
  BY <1>15, ReturnDoes, FailsDoes, RescheduleDoes DEF Unlogged, Step, JournalKnows,
     Same, Phases, Sending, HasEmail, Working, Queued
<1>16. ASSUME NEW r \in Runners, NEW e \in Emails, Mark(r, e)
      PROVE  JournalKnows'
  BY <1>16, MarkRun, MarkRows DEF Mark, Step, JournalKnows, Same, Phases, Sending,
     HasEmail, Working, Queued
<1>17. ASSUME NEW r \in Runners, NEW e \in Emails, Prepare(r, e)
      PROVE  JournalKnows'
  BY <1>17, PrepareRun, PrepareRows DEF Live, JournalKnows, Same, Phases, Sending,
     HasEmail, Working, Queued
<1>18. ASSUME NEW r \in Runners, NEW e \in Emails, Send(r, e)
      PROVE  JournalKnows'
  BY <1>18, GotoDoes DEF Send, Step, JournalKnows, Same, Phases, Sending, HasEmail,
     Working, Queued
<1>19. ASSUME NEW r \in Runners, NEW e \in Emails, RecordSent(r, e)
      PROVE  JournalKnows'
  BY <1>19, ReturnDoes, FailsDoes, CloseDoes, DropDoes DEF RecordSent, Closed, Step,
     JournalKnows, Same, Phases, Sending, HasEmail, Working, Queued
<1>20. ASSUME NEW r \in Runners, NEW e \in Emails, RecordRefused(r, e)
      PROVE  JournalKnows'
  BY <1>20, ReturnDoes, FailsDoes, CloseDoes, DropDoes DEF RecordRefused, Closed, Step,
     JournalKnows, Same, Phases, Sending, HasEmail, Working, Queued
<1>21. ASSUME NEW r \in Runners, NEW e \in Emails, RecordUnsure(r, e)
      PROVE  JournalKnows'
  BY <1>21, ReturnDoes, FailsDoes, RescheduleDoes DEF RecordUnsure, Step, JournalKnows,
     Same, Phases, Sending, HasEmail, Working, Queued
<1>22. ASSUME NEW skipWork \in SUBSET Emails, NEW skipMail \in SUBSET Emails, Sweep(skipWork, skipMail)
      PROVE  JournalKnows'
  BY <1>22, SweepDoes, Frames DEF JournalKnows, Same, Phases, Sending, HasEmail,
     Working, Queued
<1>. QED
  BY <1>1, <1>2, <1>3, <1>4, <1>5, <1>6, <1>7, <1>8, <1>9, <1>10, <1>11, <1>12, <1>13,
     <1>14, <1>15, <1>16, <1>17, <1>18, <1>19, <1>20, <1>21, <1>22 DEF Next, Deliver

LEMMA ServiceKnowsStep ==
  ASSUME TypeOK, HasEmail, ServiceKnows, TypeOK', Next
  PROVE  ServiceKnows'
<1>1. ASSUME NEW e \in Emails, Queue(e)
      PROVE  ServiceKnows'
  BY <1>1, QueueDoes, Frames DEF ServiceKnows, SentMeansAccepted, Same, Phases, Sending,
     HasEmail, Working, Queued
<1>2. ASSUME NEW e \in Emails, Redact(e)
      PROVE  ServiceKnows'
  BY <1>2 DEF Redact, Step, ServiceKnows, SentMeansAccepted, Same, Phases, Sending,
     HasEmail, Working, Queued
<1>3. ASSUME Tick
      PROVE  ServiceKnows'
  BY <1>3, TickDoes, Frames DEF ServiceKnows, SentMeansAccepted, Same, Phases, Sending,
     HasEmail, Working, Queued
<1>4. ASSUME NEW r \in Runners, Claim(r)
      PROVE  ServiceKnows'
  BY <1>4, ClaimDoes, ClaimMail, Frames DEF ServiceKnows, SentMeansAccepted, Same,
     Phases, Sending, HasEmail, Working, Queued
<1>5. ASSUME NEW r \in Runners, NEW e \in Emails, Start(r, e)
      PROVE  ServiceKnows'
  BY <1>5, StartDoes, Frames DEF ServiceKnows, SentMeansAccepted, Same, Phases, Sending,
     HasEmail, Working, Queued
<1>6. ASSUME NEW r \in Runners, Abort(r)
      PROVE  ServiceKnows'
  BY <1>6, AbortDoes, Frames DEF ServiceKnows, SentMeansAccepted, Same, Phases, Sending,
     HasEmail, Working, Queued
<1>7. ASSUME NEW r \in Runners, Stop(r)
      PROVE  ServiceKnows'
  BY <1>7, GotoDoes DEF Stop, ServiceKnows, SentMeansAccepted, Same, Phases, Sending,
     HasEmail, Working, Queued
<1>8. ASSUME NEW r \in Runners, NEW e \in Emails, Release(r, e)
      PROVE  ServiceKnows'
  BY <1>8, ReleaseRun, ReleaseDoes, Frames DEF ServiceKnows, SentMeansAccepted, Same,
     Phases, Sending, HasEmail, Working, Queued
<1>9. ASSUME NEW r \in Runners, End(r)
      PROVE  ServiceKnows'
  BY <1>9, EndsDoes DEF ServiceKnows, SentMeansAccepted, Same, Phases, Sending,
     HasEmail, Working, Queued
<1>10. ASSUME NEW r \in Runners, NEW e \in Emails, Fail(r, e)
      PROVE  ServiceKnows'
  BY <1>10, ReturnDoes, FailDoes, Frames DEF ServiceKnows, SentMeansAccepted, Same,
     Phases, Sending, HasEmail, Working, Queued
<1>11. ASSUME NEW r \in Runners, Crash(r)
      PROVE  ServiceKnows'
  BY <1>11, EndsDoes DEF ServiceKnows, SentMeansAccepted, Same, Phases, Sending,
     HasEmail, Working, Queued
<1>12. ASSUME NEW r \in Runners, Throw(r)
      PROVE  ServiceKnows'
  BY <1>12, FailsDoes DEF Throw, ServiceKnows, SentMeansAccepted, Same, Phases, Sending,
     HasEmail, Working, Queued
<1>13. ASSUME NEW r \in Runners, NEW e \in Emails, Check(r, e)
      PROVE  ServiceKnows'
  BY <1>13, CheckRun, CheckRows DEF ServiceKnows, SentMeansAccepted, Same, Phases,
     Sending, HasEmail, Working, Queued
<1>14. ASSUME NEW r \in Runners, NEW e \in Emails, Journal(r, e)
      PROVE  ServiceKnows'
  BY <1>14, GotoDoes DEF Journal, Step, ServiceKnows, SentMeansAccepted, Same, Phases,
     Sending, HasEmail, Working, Queued
<1>15. ASSUME NEW r \in Runners, NEW e \in Emails, Unlogged(r, e)
      PROVE  ServiceKnows'
  BY <1>15, ReturnDoes, FailsDoes, RescheduleDoes DEF Unlogged, Step, ServiceKnows,
     SentMeansAccepted, Same, Phases, Sending, HasEmail, Working, Queued
<1>16. ASSUME NEW r \in Runners, NEW e \in Emails, Mark(r, e)
      PROVE  ServiceKnows'
  BY <1>16, MarkRun, MarkRows DEF Mark, Step, ServiceKnows, SentMeansAccepted, Same,
     Phases, Sending, HasEmail, Working, Queued
<1>17. ASSUME NEW r \in Runners, NEW e \in Emails, Prepare(r, e)
      PROVE  ServiceKnows'
  BY <1>17, PrepareRun, PrepareRows DEF Live, ServiceKnows, SentMeansAccepted, Same,
     Phases, Sending, HasEmail, Working, Queued
<1>18. ASSUME NEW r \in Runners, NEW e \in Emails, Send(r, e)
      PROVE  ServiceKnows'
  BY <1>18, GotoDoes DEF Send, Step, ServiceKnows, SentMeansAccepted, Same, Phases,
     Sending, HasEmail, Working, Queued
<1>19. ASSUME NEW r \in Runners, NEW e \in Emails, RecordSent(r, e)
      PROVE  ServiceKnows'
  BY <1>19, ReturnDoes, FailsDoes, CloseDoes, DropDoes DEF RecordSent, Closed, Step,
     ServiceKnows, SentMeansAccepted, Same, Phases, Sending, HasEmail, Working, Queued
<1>20. ASSUME NEW r \in Runners, NEW e \in Emails, RecordRefused(r, e)
      PROVE  ServiceKnows'
  BY <1>20, ReturnDoes, FailsDoes, CloseDoes, DropDoes DEF RecordRefused, Closed, Step,
     ServiceKnows, SentMeansAccepted, Same, Phases, Sending, HasEmail, Working, Queued
<1>21. ASSUME NEW r \in Runners, NEW e \in Emails, RecordUnsure(r, e)
      PROVE  ServiceKnows'
  BY <1>21, ReturnDoes, FailsDoes, RescheduleDoes DEF RecordUnsure, Step, ServiceKnows,
     SentMeansAccepted, Same, Phases, Sending, HasEmail, Working, Queued
<1>22. ASSUME NEW skipWork \in SUBSET Emails, NEW skipMail \in SUBSET Emails, Sweep(skipWork, skipMail)
      PROVE  ServiceKnows'
  BY <1>22, SweepDoes, Frames DEF ServiceKnows, SentMeansAccepted, Same, Phases,
     Sending, HasEmail, Working, Queued
<1>. QED
  BY <1>1, <1>2, <1>3, <1>4, <1>5, <1>6, <1>7, <1>8, <1>9, <1>10, <1>11, <1>12, <1>13,
     <1>14, <1>15, <1>16, <1>17, <1>18, <1>19, <1>20, <1>21, <1>22 DEF Next, Deliver

LEMMA RowNats ==
  ASSUME TypeOK
  PROVE  /\ \A e \in Emails : mail[e].left \in Nat
         /\ \A e \in Emails : work[e] # Nobody => work[e].left \in Nat
         /\ \A r \in Runners : run[r].sendIn \in Nat
  BY DEF TypeOK, Mail, Work, Run

LEMMA SenderKnowsStep ==
  ASSUME TypeOK, HasEmail, SenderKnows, TypeOK', Next
  PROVE  SenderKnows'
<1>1. ASSUME NEW e \in Emails, Queue(e)
      PROVE  SenderKnows'
  <2>. SUFFICES ASSUME NEW s \in Runners, NEW f \in Emails
                PROVE  Knows(s, f)'
    BY DEF SenderKnows
  <2>1. Knows(s, f)
    BY DEF SenderKnows
  <2>2. \/ mail'[f] = mail[f] /\ work'[f] = work[f]
        \/ mail[f].state = "absent"
    BY <1>1, QueueDoes
  <2>3. \/ ~(run'[s].phase \in Sending)
        \/ /\ run'[s].phase = run[s].phase /\ run'[s].at = run[s].at
           /\ run'[s].sendIn = run[s].sendIn
    BY <1>1, Frames
  <2>. QED
    BY <2>1, <2>2, <2>3, RowNats, LifeAssumption, LeaseAssumption DEF Knows
<1>2. ASSUME NEW e \in Emails, Redact(e)
      PROVE  SenderKnows'
  <2>. SUFFICES ASSUME NEW s \in Runners, NEW f \in Emails
                PROVE  Knows(s, f)'
    BY DEF SenderKnows
  <2>1. Knows(s, f)
    BY DEF SenderKnows
  <2>2. mail'[f] = mail[f] /\ work'[f] = work[f]
    BY <1>2 DEF Redact
  <2>3. \/ ~(run'[s].phase \in Sending)
        \/ /\ run'[s].phase = run[s].phase /\ run'[s].at = run[s].at
           /\ run'[s].sendIn = run[s].sendIn
    BY <1>2 DEF Redact, Same, Phases, Sending
  <2>. QED
    BY <2>1, <2>2, <2>3, RowNats, LifeAssumption, LeaseAssumption DEF Knows
<1>3. ASSUME Tick
      PROVE  SenderKnows'
  <2>. SUFFICES ASSUME NEW s \in Runners, NEW f \in Emails
                PROVE  Knows(s, f)'
    BY DEF SenderKnows
  <2>1. Knows(s, f)
    BY DEF SenderKnows
  <2>2. /\ mail'[f].state = mail[f].state /\ mail'[f].left = Sooner(mail[f].left)
        /\ work[f] # Nobody => /\ work'[f] # Nobody
                               /\ work'[f].token = work[f].token
                               /\ work'[f].left = Sooner(work[f].left)
    BY <1>3, TickDoes
  <2>3. /\ run'[s].phase = run[s].phase /\ run'[s].at = run[s].at
        /\ run'[s].sendIn = Sooner(run[s].sendIn)
    BY <1>3, TickDoes
  <2>. QED
    BY <2>1, <2>2, <2>3, RowNats, LifeAssumption, LeaseAssumption DEF Knows, Sooner
<1>4. ASSUME NEW r \in Runners, Claim(r)
      PROVE  SenderKnows'
  <2>. SUFFICES ASSUME NEW s \in Runners, NEW f \in Emails
                PROVE  Knows(s, f)'
    BY DEF SenderKnows
  <2>1. Knows(s, f)
    BY DEF SenderKnows
  <2>2. /\ mail'[f] = mail[f]
        /\ \/ work'[f] = work[f]
           \/ work[f] # Nobody /\ work[f].left = 0
    BY <1>4, ClaimDoes, ClaimMail
  <2>3. \/ ~(run'[s].phase \in Sending)
        \/ /\ run'[s].phase = run[s].phase /\ run'[s].at = run[s].at
           /\ run'[s].sendIn = run[s].sendIn
    BY <1>4, ClaimDoes DEF Same, Sending
  <2>. QED
    BY <2>1, <2>2, <2>3, RowNats, LifeAssumption, LeaseAssumption DEF Knows
<1>5. ASSUME NEW r \in Runners, NEW e \in Emails, Start(r, e)
      PROVE  SenderKnows'
  <2>. SUFFICES ASSUME NEW s \in Runners, NEW f \in Emails
                PROVE  Knows(s, f)'
    BY DEF SenderKnows
  <2>1. Knows(s, f)
    BY DEF SenderKnows
  <2>2. mail'[f] = mail[f] /\ work'[f] = work[f]
    BY <1>5, Frames
  <2>3. \/ ~(run'[s].phase \in Sending)
        \/ /\ run'[s].phase = run[s].phase /\ run'[s].at = run[s].at
           /\ run'[s].sendIn = run[s].sendIn
    BY <1>5, StartDoes DEF Same, Phases, Sending
  <2>. QED
    BY <2>1, <2>2, <2>3, RowNats, LifeAssumption, LeaseAssumption DEF Knows
<1>6. ASSUME NEW r \in Runners, Abort(r)
      PROVE  SenderKnows'
  <2>. SUFFICES ASSUME NEW s \in Runners, NEW f \in Emails
                PROVE  Knows(s, f)'
    BY DEF SenderKnows
  <2>1. Knows(s, f)
    BY DEF SenderKnows
  <2>2. mail'[f] = mail[f] /\ work'[f] = work[f]
    BY <1>6, Frames
  <2>3. \/ ~(run'[s].phase \in Sending)
        \/ /\ run'[s].phase = run[s].phase /\ run'[s].at = run[s].at
           /\ run'[s].sendIn = run[s].sendIn
    BY <1>6, AbortDoes DEF Same, Phases, Sending
  <2>. QED
    BY <2>1, <2>2, <2>3, RowNats, LifeAssumption, LeaseAssumption DEF Knows
<1>7. ASSUME NEW r \in Runners, Stop(r)
      PROVE  SenderKnows'
  <2>. SUFFICES ASSUME NEW s \in Runners, NEW f \in Emails
                PROVE  Knows(s, f)'
    BY DEF SenderKnows
  <2>1. Knows(s, f)
    BY DEF SenderKnows
  <2>2. mail'[f] = mail[f] /\ work'[f] = work[f]
    BY <1>7 DEF Stop
  <2>3. \/ ~(run'[s].phase \in Sending)
        \/ /\ run'[s].phase = run[s].phase /\ run'[s].at = run[s].at
           /\ run'[s].sendIn = run[s].sendIn
    BY <1>7, GotoDoes DEF Stop, Same, Phases, Sending
  <2>. QED
    BY <2>1, <2>2, <2>3, RowNats, LifeAssumption, LeaseAssumption DEF Knows
<1>8. ASSUME NEW r \in Runners, NEW e \in Emails, Release(r, e)
      PROVE  SenderKnows'
  <2>. SUFFICES ASSUME NEW s \in Runners, NEW f \in Emails
                PROVE  Knows(s, f)'
    BY DEF SenderKnows
  <2>1. Knows(s, f)
    BY DEF SenderKnows
  <2>2. /\ mail'[f] = mail[f]
        /\ \/ work'[f] = work[f]
           \/ work[f] # Nobody /\ work[f].token = <<r, "claim">>
    BY <1>8, ReleaseDoes DEF Held
  <2>3. \/ ~(run'[s].phase \in Sending)
        \/ /\ run'[s].phase = run[s].phase /\ run'[s].at = run[s].at
           /\ run'[s].sendIn = run[s].sendIn
    BY <1>8, ReleaseRun DEF Same
  <2>. QED
    BY <2>1, <2>2, <2>3, RowNats, LifeAssumption, LeaseAssumption DEF Knows
<1>9. ASSUME NEW r \in Runners, End(r)
      PROVE  SenderKnows'
  <2>. SUFFICES ASSUME NEW s \in Runners, NEW f \in Emails
                PROVE  Knows(s, f)'
    BY DEF SenderKnows
  <2>1. Knows(s, f)
    BY DEF SenderKnows
  <2>2. mail'[f] = mail[f] /\ work'[f] = work[f]
    BY <1>9, EndsDoes
  <2>3. \/ ~(run'[s].phase \in Sending)
        \/ /\ run'[s].phase = run[s].phase /\ run'[s].at = run[s].at
           /\ run'[s].sendIn = run[s].sendIn
    BY <1>9, EndsDoes DEF Same, Phases, Sending
  <2>. QED
    BY <2>1, <2>2, <2>3, RowNats, LifeAssumption, LeaseAssumption DEF Knows
<1>10. ASSUME NEW r \in Runners, NEW e \in Emails, Fail(r, e)
      PROVE  SenderKnows'
  <2>. SUFFICES ASSUME NEW s \in Runners, NEW f \in Emails
                PROVE  Knows(s, f)'
    BY DEF SenderKnows
  <2>1. Knows(s, f)
    BY DEF SenderKnows
  <2>2. /\ mail'[f] = mail[f]
        /\ \/ work'[f] = work[f]
           \/ work[f] # Nobody /\ work[f].token = <<r, "claim">>
    BY <1>10, FailDoes DEF Held
  <2>3. \/ ~(run'[s].phase \in Sending)
        \/ /\ run'[s].phase = run[s].phase /\ run'[s].at = run[s].at
           /\ run'[s].sendIn = run[s].sendIn
    BY <1>10, Frames, ReturnDoes DEF Same, Sending
  <2>. QED
    BY <2>1, <2>2, <2>3, RowNats, LifeAssumption, LeaseAssumption DEF Knows
<1>11. ASSUME NEW r \in Runners, Crash(r)
      PROVE  SenderKnows'
  <2>. SUFFICES ASSUME NEW s \in Runners, NEW f \in Emails
                PROVE  Knows(s, f)'
    BY DEF SenderKnows
  <2>1. Knows(s, f)
    BY DEF SenderKnows
  <2>2. mail'[f] = mail[f] /\ work'[f] = work[f]
    BY <1>11, EndsDoes
  <2>3. \/ ~(run'[s].phase \in Sending)
        \/ /\ run'[s].phase = run[s].phase /\ run'[s].at = run[s].at
           /\ run'[s].sendIn = run[s].sendIn
    BY <1>11, EndsDoes DEF Same, Phases, Sending
  <2>. QED
    BY <2>1, <2>2, <2>3, RowNats, LifeAssumption, LeaseAssumption DEF Knows
<1>12. ASSUME NEW r \in Runners, Throw(r)
      PROVE  SenderKnows'
  <2>. SUFFICES ASSUME NEW s \in Runners, NEW f \in Emails
                PROVE  Knows(s, f)'
    BY DEF SenderKnows
  <2>1. Knows(s, f)
    BY DEF SenderKnows
  <2>2. mail'[f] = mail[f] /\ work'[f] = work[f]
    BY <1>12 DEF Throw
  <2>3. \/ ~(run'[s].phase \in Sending)
        \/ /\ run'[s].phase = run[s].phase /\ run'[s].at = run[s].at
           /\ run'[s].sendIn = run[s].sendIn
    BY <1>12, FailsDoes DEF Throw, Same, Phases, Sending
  <2>. QED
    BY <2>1, <2>2, <2>3, RowNats, LifeAssumption, LeaseAssumption DEF Knows
<1>13. ASSUME NEW r \in Runners, NEW e \in Emails, Check(r, e)
      PROVE  SenderKnows'
  <2>. SUFFICES ASSUME NEW s \in Runners, NEW f \in Emails
                PROVE  Knows(s, f)'
    BY DEF SenderKnows
  <2>1. Knows(s, f)
    BY DEF SenderKnows
  <2>2. \/ mail'[f].state = mail[f].state /\ mail'[f].left = mail[f].left /\ work'[f] = work[f]
        \/ mail'[f].state = mail[f].state /\ mail'[f].left = mail[f].left
           /\ work[f] # Nobody /\ work[f].token = <<r, "claim">>
        \/ Queued(f) /\ work[f] # Nobody /\ work[f].token = <<r, "claim">>
    BY <1>13, CheckRows DEF Owns, Held
  <2>3. \/ ~(run'[s].phase \in Sending)
        \/ /\ run'[s].phase = run[s].phase /\ run'[s].at = run[s].at
           /\ run'[s].sendIn = run[s].sendIn
    BY <1>13, CheckRun DEF Same, Sending
  <2>. QED
    BY <2>1, <2>2, <2>3, RowNats, LifeAssumption, LeaseAssumption DEF Knows, Queued
<1>14. ASSUME NEW r \in Runners, NEW e \in Emails, Journal(r, e)
      PROVE  SenderKnows'
  <2>. SUFFICES ASSUME NEW s \in Runners, NEW f \in Emails
                PROVE  Knows(s, f)'
    BY DEF SenderKnows
  <2>1. Knows(s, f)
    BY DEF SenderKnows
  <2>2. mail'[f] = mail[f] /\ work'[f] = work[f]
    BY <1>14 DEF Journal
  <2>3. \/ ~(run'[s].phase \in Sending)
        \/ /\ run'[s].phase = run[s].phase /\ run'[s].at = run[s].at
           /\ run'[s].sendIn = run[s].sendIn
    BY <1>14, GotoDoes DEF Journal, Step, Same, Phases, Sending
  <2>. QED
    BY <2>1, <2>2, <2>3, RowNats, LifeAssumption, LeaseAssumption DEF Knows
<1>15. ASSUME NEW r \in Runners, NEW e \in Emails, Unlogged(r, e)
      PROVE  SenderKnows'
  <2>. SUFFICES ASSUME NEW s \in Runners, NEW f \in Emails
                PROVE  Knows(s, f)'
    BY DEF SenderKnows
  <2>1. Knows(s, f)
    BY DEF SenderKnows
  <2>2. \/ mail'[f].state = mail[f].state /\ mail'[f].left = mail[f].left /\ work'[f] = work[f]
        \/ mail'[f].state = mail[f].state /\ mail'[f].left = mail[f].left
           /\ work[f] # Nobody /\ work[f].token = <<r, "claim">>
    BY <1>15, RescheduleDoes DEF Unlogged, Owns, Held
  <2>3. \/ ~(run'[s].phase \in Sending)
        \/ /\ run'[s].phase = run[s].phase /\ run'[s].at = run[s].at
           /\ run'[s].sendIn = run[s].sendIn
    BY <1>15, ReturnDoes, FailsDoes DEF Unlogged, Same, Sending
  <2>. QED
    BY <2>1, <2>2, <2>3, RowNats, LifeAssumption, LeaseAssumption DEF Knows
<1>16. ASSUME NEW r \in Runners, NEW e \in Emails, Mark(r, e)
      PROVE  SenderKnows'
  <2>. SUFFICES ASSUME NEW s \in Runners, NEW f \in Emails
                PROVE  Knows(s, f)'
    BY DEF SenderKnows
  <2>1. Knows(s, f)
    BY DEF SenderKnows
  <2>2. \/ mail'[f].state = mail[f].state /\ mail'[f].left = mail[f].left /\ work'[f] = work[f]
        \/ mail'[f].state = mail[f].state /\ mail'[f].left = mail[f].left
           /\ work[f] # Nobody /\ work[f].token = <<r, "claim">>
    BY <1>16, MarkRows DEF Owns, Held
  <2>3. \/ ~(run'[s].phase \in Sending)
        \/ /\ run'[s].phase = run[s].phase /\ run'[s].at = run[s].at
           /\ run'[s].sendIn = run[s].sendIn
    BY <1>16, MarkRun DEF Same, Sending
  <2>. QED
    BY <2>1, <2>2, <2>3, RowNats, LifeAssumption, LeaseAssumption DEF Knows
<1>17. ASSUME NEW r \in Runners, NEW e \in Emails, Prepare(r, e)
      PROVE  SenderKnows'
  <2>. SUFFICES ASSUME NEW s \in Runners, NEW f \in Emails
                PROVE  Knows(s, f)'
    BY DEF SenderKnows
  <2>1. Knows(s, f)
    BY DEF SenderKnows
  <2>2. CASE s # r
    <3>1. Same(s)
      BY <1>17, <2>2, PrepareRun
    <3>2. \/ mail'[f] = mail[f] /\ work'[f] = work[f]
          \/ mail'[f] = mail[f] /\ work[f] # Nobody /\ work[f].token = <<r, "claim">>
          \/ Queued(f) /\ work[f] # Nobody /\ work[f].token = <<r, "claim">>
      BY <1>17, PrepareRows DEF Owns, Held
    <3>. QED  BY <2>1, <2>2, <3>1, <3>2 DEF Knows, Same, Queued
  <2>3. CASE s = r
    <3>1. CASE run'[r].phase \in Sending
      <4>1. /\ Live(e) /\ mail' = mail
            /\ work'[e] # Nobody /\ work'[e].token = <<r, "send">>
            /\ work'[e].left = SendLease
            /\ run'[r].at = e /\ run'[r].sendIn = SendLease
        BY <1>17, <3>1, PrepareRun DEF Sending
      <4>. QED  BY <2>3, <4>1, LeaseAssumption DEF Knows, Live, Queued
    <3>2. CASE ~(run'[r].phase \in Sending)
      BY <2>3, <3>2 DEF Knows
    <3>. QED  BY <3>1, <3>2
  <2>. QED  BY <2>2, <2>3
<1>18. ASSUME NEW r \in Runners, NEW e \in Emails, Send(r, e)
      PROVE  SenderKnows'
  <2>. SUFFICES ASSUME NEW s \in Runners, NEW f \in Emails
                PROVE  Knows(s, f)'
    BY DEF SenderKnows
  <2>1. Knows(s, f)
    BY DEF SenderKnows
  <2>2. mail'[f] = mail[f] /\ work'[f] = work[f]
    BY <1>18 DEF Send
  <2>3. \/ ~(run'[s].phase \in Sending)
        \/ /\ run[s].phase \in Sending /\ run'[s].at = run[s].at
           /\ run'[s].sendIn = run[s].sendIn
    BY <1>18, GotoDoes DEF Send, Step, Same, Phases, Sending
  <2>. QED
    BY <2>1, <2>2, <2>3, RowNats, LifeAssumption, LeaseAssumption DEF Knows
<1>19. ASSUME NEW r \in Runners, NEW e \in Emails, RecordSent(r, e)
      PROVE  SenderKnows'
  <2>. SUFFICES ASSUME NEW s \in Runners, NEW f \in Emails
                PROVE  Knows(s, f)'
    BY DEF SenderKnows
  <2>1. Knows(s, f)
    BY DEF SenderKnows
  <2>2. /\ \/ mail'[f] = mail[f]
           \/ Queued(f) /\ mail'[f].state = "sent" /\ mail'[f].left = RetainFor
        /\ \/ work'[f] = work[f]
           \/ work[f] # Nobody /\ work[f].token = <<r, "send">>
    BY <1>19, CloseDoes, DropDoes DEF RecordSent, Held, Closed
  <2>3. \/ s = r /\ ~(run'[s].phase \in Sending)
        \/ s # r /\ Same(s)
    BY <1>19, ReturnDoes, FailsDoes DEF RecordSent, Sending
  <2>. QED
    BY <2>1, <2>2, <2>3, RowNats, LifeAssumption, LeaseAssumption DEF Knows, Same,
       Queued
<1>20. ASSUME NEW r \in Runners, NEW e \in Emails, RecordRefused(r, e)
      PROVE  SenderKnows'
  <2>. SUFFICES ASSUME NEW s \in Runners, NEW f \in Emails
                PROVE  Knows(s, f)'
    BY DEF SenderKnows
  <2>1. Knows(s, f)
    BY DEF SenderKnows
  <2>2. \/ mail'[f].state = mail[f].state /\ mail'[f].left = mail[f].left /\ work'[f] = work[f]
        \/ Queued(f) /\ work[f] # Nobody /\ work[f].token = <<r, "send">>
    BY <1>20, CloseDoes, DropDoes DEF RecordRefused, Owns, Held, Closed
  <2>3. \/ s = r /\ ~(run'[s].phase \in Sending)
        \/ s # r /\ Same(s)
    BY <1>20, ReturnDoes, FailsDoes DEF RecordRefused, Sending
  <2>. QED
    BY <2>1, <2>2, <2>3, RowNats, LifeAssumption, LeaseAssumption DEF Knows, Same,
       Queued
<1>21. ASSUME NEW r \in Runners, NEW e \in Emails, RecordUnsure(r, e)
      PROVE  SenderKnows'
  <2>. SUFFICES ASSUME NEW s \in Runners, NEW f \in Emails
                PROVE  Knows(s, f)'
    BY DEF SenderKnows
  <2>1. Knows(s, f)
    BY DEF SenderKnows
  <2>2. \/ mail'[f].state = mail[f].state /\ mail'[f].left = mail[f].left /\ work'[f] = work[f]
        \/ mail'[f].state = mail[f].state /\ mail'[f].left = mail[f].left
           /\ work[f] # Nobody /\ work[f].token = <<r, "send">> /\ f = e
    BY <1>21, RescheduleDoes DEF RecordUnsure, Owns, Held
  <2>3. \/ s = r /\ ~(run'[s].phase \in Sending)
        \/ s # r /\ Same(s)
    BY <1>21, ReturnDoes, FailsDoes DEF RecordUnsure, Sending
  <2>. QED
    BY <2>1, <2>2, <2>3, RowNats, LifeAssumption, LeaseAssumption DEF Knows, Same
<1>22. ASSUME NEW skipWork \in SUBSET Emails, NEW skipMail \in SUBSET Emails, Sweep(skipWork, skipMail)
      PROVE  SenderKnows'
  <2>. SUFFICES ASSUME NEW s \in Runners, NEW f \in Emails
                PROVE  Knows(s, f)'
    BY DEF SenderKnows
  <2>1. Knows(s, f)
    BY DEF SenderKnows
  <2>2. \/ mail'[f] = mail[f] /\ work'[f] = work[f]
        \/ Queued(f) /\ mail'[f].state = "expired" /\ mail'[f].left = RetainFor
        \/ mail[f].state \in Closed /\ mail[f].left = 0
    BY <1>22, SweepDoes
  <2>3. \/ ~(run'[s].phase \in Sending)
        \/ /\ run'[s].phase = run[s].phase /\ run'[s].at = run[s].at
           /\ run'[s].sendIn = run[s].sendIn
    BY <1>22, Frames
  <2>. QED
    BY <2>1, <2>2, <2>3, RowNats, LifeAssumption, LeaseAssumption DEF Knows, Queued,
       Closed
<1>. QED
  BY <1>1, <1>2, <1>3, <1>4, <1>5, <1>6, <1>7, <1>8, <1>9, <1>10, <1>11, <1>12, <1>13,
     <1>14, <1>15, <1>16, <1>17, <1>18, <1>19, <1>20, <1>21, <1>22 DEF Next, Deliver

LEMMA SendsFrom ==
  ASSUME TypeOK, TypeOK', HasEmail, Next,
         NEW s \in Runners, run'[s].phase \in Sending
  PROVE  \/ /\ run[s].phase \in Sending /\ run'[s].at = run[s].at
            /\ run'[s].sendIn <= run[s].sendIn
         \/ mail'[run'[s].at].state = "queued"
<1>. DEFINE Goal == \/ /\ run[s].phase \in Sending /\ run'[s].at = run[s].at
                       /\ run'[s].sendIn <= run[s].sendIn
                    \/ mail'[run'[s].at].state = "queued"
<1>1. ASSUME NEW e \in Emails, Queue(e)
      PROVE  Goal
  BY <1>1, Frames, RowNats DEF Same, Phases, Sending
<1>2. ASSUME NEW e \in Emails, Redact(e)
      PROVE  Goal
  BY <1>2, RowNats DEF Redact, Same, Phases, Sending
<1>3. ASSUME Tick
      PROVE  Goal
  BY <1>3, TickDoes, RowNats DEF Same, Phases, Sending, Sooner
<1>4. ASSUME NEW r \in Runners, Claim(r)
      PROVE  Goal
  BY <1>4, ClaimDoes, RowNats DEF Same, Phases, Sending
<1>5. ASSUME NEW r \in Runners, NEW e \in Emails, Start(r, e)
      PROVE  Goal
  BY <1>5, StartDoes, RowNats DEF Same, Phases, Sending
<1>6. ASSUME NEW r \in Runners, Abort(r)
      PROVE  Goal
  BY <1>6, AbortDoes, RowNats DEF Same, Phases, Sending
<1>7. ASSUME NEW r \in Runners, Stop(r)
      PROVE  Goal
  BY <1>7, GotoDoes, RowNats DEF Stop, Same, Phases, Sending
<1>8. ASSUME NEW r \in Runners, NEW e \in Emails, Release(r, e)
      PROVE  Goal
  BY <1>8, ReleaseRun, RowNats DEF Same, Phases, Sending
<1>9. ASSUME NEW r \in Runners, End(r)
      PROVE  Goal
  BY <1>9, EndsDoes, RowNats DEF Same, Phases, Sending
<1>10. ASSUME NEW r \in Runners, NEW e \in Emails, Fail(r, e)
      PROVE  Goal
  BY <1>10, Frames, ReturnDoes, RowNats DEF Same, Phases, Sending
<1>11. ASSUME NEW r \in Runners, Crash(r)
      PROVE  Goal
  BY <1>11, EndsDoes, RowNats DEF Same, Phases, Sending
<1>12. ASSUME NEW r \in Runners, Throw(r)
      PROVE  Goal
  BY <1>12, FailsDoes, RowNats DEF Throw, Same, Phases, Sending
<1>13. ASSUME NEW r \in Runners, NEW e \in Emails, Check(r, e)
      PROVE  Goal
  BY <1>13, CheckRun, RowNats DEF Same, Phases, Sending
<1>14. ASSUME NEW r \in Runners, NEW e \in Emails, Journal(r, e)
      PROVE  Goal
  BY <1>14, GotoDoes, RowNats DEF Step, Journal, Same, Phases, Sending
<1>15. ASSUME NEW r \in Runners, NEW e \in Emails, Unlogged(r, e)
      PROVE  Goal
  BY <1>15, ReturnDoes, FailsDoes, RowNats DEF Unlogged, Same, Phases, Sending
<1>16. ASSUME NEW r \in Runners, NEW e \in Emails, Mark(r, e)
      PROVE  Goal
  BY <1>16, MarkRun, RowNats DEF Same, Phases, Sending
<1>17. ASSUME NEW r \in Runners, NEW e \in Emails, Prepare(r, e)
      PROVE  Goal
  <2>1. CASE s = r
    BY <1>17, <2>1, PrepareRun DEF Live, Queued, Sending
  <2>2. CASE s # r
    BY <1>17, <2>2, PrepareRun, RowNats DEF Same
  <2>. QED  BY <2>1, <2>2
<1>18. ASSUME NEW r \in Runners, NEW e \in Emails, Send(r, e)
      PROVE  Goal
  BY <1>18, GotoDoes, RowNats DEF Step, Send, Same, Phases, Sending
<1>19. ASSUME NEW r \in Runners, NEW e \in Emails, RecordSent(r, e)
      PROVE  Goal
  BY <1>19, ReturnDoes, FailsDoes, RowNats DEF RecordSent, Same, Phases, Sending
<1>20. ASSUME NEW r \in Runners, NEW e \in Emails, RecordRefused(r, e)
      PROVE  Goal
  BY <1>20, ReturnDoes, FailsDoes, RowNats DEF RecordRefused, Same, Phases, Sending
<1>21. ASSUME NEW r \in Runners, NEW e \in Emails, RecordUnsure(r, e)
      PROVE  Goal
  BY <1>21, ReturnDoes, FailsDoes, RowNats DEF RecordUnsure, Same, Phases, Sending
<1>22. ASSUME NEW skipWork \in SUBSET Emails, NEW skipMail \in SUBSET Emails, Sweep(skipWork, skipMail)
      PROVE  Goal
  BY <1>22, Frames, RowNats DEF Same, Phases, Sending
<1>. QED
  BY <1>1, <1>2, <1>3, <1>4, <1>5, <1>6, <1>7, <1>8, <1>9, <1>10, <1>11, <1>12, <1>13,
     <1>14, <1>15, <1>16, <1>17, <1>18, <1>19, <1>20, <1>21, <1>22 DEF Next, Deliver

\* Two live senders of one e-mail would both hold its row, unless it expired
\* under both; but a send is prepared only while its e-mail is queued.
LEMMA OneLiveSenderStep ==
  ASSUME TypeOK, TypeOK', HasEmail, HasEmail', SenderKnows', OneLiveSender, Next
  PROVE  OneLiveSender'
<1>. SUFFICES ASSUME NEW r \in Runners, NEW s \in Runners,
                     r # s, run'[r].at = run'[s].at,
                     run'[r].phase \in Sending, run'[s].phase \in Sending,
                     run'[r].sendIn # 0, run'[s].sendIn # 0
              PROVE  FALSE
  BY DEF OneLiveSender
<1>1. PICK e \in Emails : run'[r].at = e
  BY DEF HasEmail, Working, Sending
<1>2. run'[r].sendIn > 0 /\ run'[s].sendIn > 0
  BY SMT DEF TypeOK, Run
<1>3. Knows(r, e)' /\ Knows(s, e)'
  BY <1>1 DEF SenderKnows
<1>4. mail'[e].state # "queued"
  BY <1>1, <1>2, <1>3 DEF Knows
<1>5. /\ run[r].phase \in Sending /\ run[r].at = e /\ run[r].sendIn # 0
      /\ run[s].phase \in Sending /\ run[s].at = e /\ run[s].sendIn # 0
  <2>1. ASSUME NEW x \in {r, s}
        PROVE  /\ run[x].phase \in Sending /\ run[x].at = e
               /\ run'[x].sendIn <= run[x].sendIn /\ run'[x].sendIn > 0
               /\ run'[x].sendIn \in Nat
    BY <1>1, <1>2, <1>4, SendsFrom DEF TypeOK, Run
  <2>. QED  BY <2>1, RowNats
<1>. QED  BY <1>5 DEF OneLiveSender

LEMMA InitHolds == Init => IInv
<1>. SUFFICES ASSUME Init
              PROVE  IInv
  OBVIOUS
<1>1. TypeOK
  <2>1. [state |-> "absent", journaled |-> FALSE, attempts |-> 0, left |-> 0] \in Mail
    BY DelayAssumption, SMT DEF Mail, Open
  <2>. QED  BY <2>1, NewRows DEF Init, TypeOK
<1>2. \A r \in Runners : run[r].phase = "idle"
  BY SMT DEF Init, Idle
<1>3. \A e \in Emails : mail[e].state = "absent" /\ ~mail[e].journaled
  BY DEF Init
<1>. QED
  BY <1>1, <1>2, <1>3 DEF IInv, HasEmail, Working, QueuedHasWork, Queued,
     JournalKnows, ServiceKnows, SentMeansAccepted, SenderKnows, Knows,
     OneLiveSender, Sending

LEMMA StepHolds == IInv /\ [Next]_vars => IInv'
<1>1. ASSUME IInv, Next
      PROVE  IInv'
  <2>1. TypeOK'
    BY <1>1, TypeStep DEF IInv
  <2>2. HasEmail'
    BY <1>1, <2>1, HasEmailStep DEF IInv
  <2>3. QueuedHasWork' /\ JournalKnows' /\ ServiceKnows' /\ SenderKnows'
    BY <1>1, <2>1, QueuedHasWorkStep, JournalKnowsStep, ServiceKnowsStep,
       SenderKnowsStep DEF IInv
  <2>4. OneLiveSender'
    BY <1>1, <2>1, <2>2, <2>3, OneLiveSenderStep DEF IInv
  <2>. QED  BY <2>1, <2>2, <2>3, <2>4 DEF IInv
<1>2. ASSUME IInv, UNCHANGED vars
      PROVE  IInv'
  BY <1>2 DEF IInv, vars, TypeOK, HasEmail, Working, QueuedHasWork, Queued,
     JournalKnows, ServiceKnows, SentMeansAccepted, SenderKnows, Knows, OneLiveSender
<1>. QED  BY <1>1, <1>2

LEMMA Invariance == Spec => []IInv
  BY InitHolds, StepHolds, PTL DEF Spec

-----------------------------------------------------------------------------
\* Every variable keeps its type: the counted failures stay within the delays,
\* the calls of an execution within its budget (due-work.ts, delivery.ts).
THEOREM TypeCorrect == Spec => []TypeOK
<1>1. IInv => TypeOK
  BY DEF IInv
<1>. QED  BY <1>1, Invariance, PTL

\* No failed step, lost lease or sweep leaves a queued e-mail without the work
\* row by which some execution finds it again.
THEOREM NoneForgotten == Spec => []QueuedHasWork
<1>1. IInv => QueuedHasWork
  BY DEF IInv
<1>. QED  BY <1>1, Invariance, PTL

\* A message is handed to the e-mail service only after its record has
\* reached the journal, whoever wrote it.
THEOREM JournaledFirst == Spec => []JournalBeforeSend
<1>1. IInv => JournalBeforeSend
  BY DEF IInv, JournalKnows, JournalBeforeSend
<1>. QED  BY <1>1, Invariance, PTL

\* The state sent is never set for a message the service did not take.
THEOREM SentIsTrue == Spec => []SentMeansAccepted
<1>1. IInv => SentMeansAccepted
  BY DEF IInv, ServiceKnows
<1>. QED  BY <1>1, Invariance, PTL

\* While the lease of a send lasts its row stays with the sender, or the
\* e-mail has expired.
THEOREM LeaseHolds == Spec => []LeaseProtectsSend
<1>1. IInv => LeaseProtectsSend
  <2>1. ASSUME IInv, NEW r \in Runners, run[r].phase \in Sending
        PROVE  run[r].at \in Emails /\ Knows(r, run[r].at)
    BY <2>1 DEF IInv, HasEmail, Working, Sending, SenderKnows
  <2>. QED  BY <2>1 DEF Knows, LeaseProtectsSend
<1>. QED  BY <1>1, Invariance, PTL

\* Of two executions that send one e-mail, one has outlived its lease.
THEOREM SingleSender == Spec => []OneLiveSender
<1>1. IInv => OneLiveSender
  BY DEF IInv
<1>. QED  BY <1>1, Invariance, PTL

-----------------------------------------------------------------------------
(* Each e-mail keeps the promise of EmailPromise.  What may write its record *)
(* is an execution at its row, and a row there is only once it is queued.   *)

Placed(e) == mail[e].state # "absent"
HasRow ==
  /\ \A e \in Emails : work[e] # Nobody => Placed(e)
  /\ \A r \in Runners : \A e \in run[r].todo : Placed(e)
  /\ \A r \in Runners : Working(r) => Placed(run[r].at)

\* How a step may change an e-mail, the due-work rows and the executions.
Moved(e) ==
  \/ mail'[e].state = mail[e].state
  \/ mail[e].state = "absent" /\ mail'[e].state = "queued"
  \/ Queued(e) /\ mail'[e].state \in {"failed", "expired", "suppressed"}
  \/ Queued(e) /\ mail'[e].state = "sent" /\ e \in accepted
  \/ mail[e].state \in Closed /\ mail'[e].state = "deleted"
Moves == \A e \in Emails : Moved(e)
Adds == \A e \in Emails :
          work'[e] # Nobody => work[e] # Nobody \/ mail'[e].state = "queued"
TakesOn ==
  \A r \in Runners :
    /\ \A e \in run'[r].todo : e \in run[r].todo \/ work[e] # Nobody
    /\ Working(r)' => \/ Working(r) /\ run'[r].at = run[r].at
                      \/ run'[r].at \in run[r].todo

LEMMA MovesStep ==
  ASSUME TypeOK, HasEmail, ServiceKnows, TypeOK', Next
  PROVE  Moves
<1>1. ASSUME NEW e \in Emails, Queue(e)
      PROVE  Moves
  BY <1>1, QueueDoes DEF Moves, Moved, Queued
<1>2. ASSUME NEW e \in Emails, Redact(e)
      PROVE  Moves
  BY <1>2, Zenon DEF Redact, Moves, Moved
<1>3. ASSUME Tick
      PROVE  Moves
  BY <1>3, TickDoes DEF Moves, Moved, Queued
<1>4. ASSUME NEW r \in Runners, Claim(r)
      PROVE  Moves
  BY <1>4, Zenon DEF Claim, Moves, Moved
<1>5. ASSUME NEW r \in Runners, NEW e \in Emails, Start(r, e)
      PROVE  Moves
  BY <1>5, Zenon DEF Start, Moves, Moved
<1>6. ASSUME NEW r \in Runners, Abort(r)
      PROVE  Moves
  BY <1>6, Zenon DEF Abort, Moves, Moved
<1>7. ASSUME NEW r \in Runners, Stop(r)
      PROVE  Moves
  BY <1>7, Zenon DEF Stop, Moves, Moved
<1>8. ASSUME NEW r \in Runners, NEW e \in Emails, Release(r, e)
      PROVE  Moves
  BY <1>8, Zenon DEF Release, Moves, Moved
<1>9. ASSUME NEW r \in Runners, End(r)
      PROVE  Moves
  BY <1>9, Zenon DEF End, Moves, Moved
<1>10. ASSUME NEW r \in Runners, NEW e \in Emails, Fail(r, e)
      PROVE  Moves
  BY <1>10, Zenon DEF Fail, Moves, Moved
<1>11. ASSUME NEW r \in Runners, Crash(r)
      PROVE  Moves
  BY <1>11, Zenon DEF Crash, Moves, Moved
<1>12. ASSUME NEW r \in Runners, Throw(r)
      PROVE  Moves
  BY <1>12, Zenon DEF Throw, Moves, Moved
<1>13. ASSUME NEW r \in Runners, NEW e \in Emails, Check(r, e)
      PROVE  Moves
  BY <1>13, CheckRows DEF Moves, Moved, Queued
<1>14. ASSUME NEW r \in Runners, NEW e \in Emails, Journal(r, e)
      PROVE  Moves
  BY <1>14, Zenon DEF Journal, Moves, Moved
<1>15. ASSUME NEW r \in Runners, NEW e \in Emails, Unlogged(r, e)
      PROVE  Moves
  BY <1>15, RescheduleDoes DEF Unlogged, Moves, Moved
<1>16. ASSUME NEW r \in Runners, NEW e \in Emails, Mark(r, e)
      PROVE  Moves
  BY <1>16, MarkRows DEF Moves, Moved, Queued
<1>17. ASSUME NEW r \in Runners, NEW e \in Emails, Prepare(r, e)
      PROVE  Moves
  BY <1>17, PrepareRows DEF Moves, Moved, Queued
<1>18. ASSUME NEW r \in Runners, NEW e \in Emails, Send(r, e)
      PROVE  Moves
  BY <1>18, Zenon DEF Send, Moves, Moved
<1>19. ASSUME NEW r \in Runners, NEW e \in Emails, RecordSent(r, e)
      PROVE  Moves
  BY <1>19, CloseDoes DEF RecordSent, Step, Closed, ServiceKnows, Moves, Moved
<1>20. ASSUME NEW r \in Runners, NEW e \in Emails, RecordRefused(r, e)
      PROVE  Moves
  BY <1>20, CloseDoes DEF RecordRefused, Closed, Moves, Moved
<1>21. ASSUME NEW r \in Runners, NEW e \in Emails, RecordUnsure(r, e)
      PROVE  Moves
  BY <1>21, RescheduleDoes DEF RecordUnsure, Moves, Moved
<1>22. ASSUME NEW skipWork \in SUBSET Emails, NEW skipMail \in SUBSET Emails,
             Sweep(skipWork, skipMail)
      PROVE  Moves
  BY <1>22, SweepDoes DEF Moves, Moved, Queued
<1>. QED
  BY <1>1, <1>2, <1>3, <1>4, <1>5, <1>6, <1>7, <1>8, <1>9, <1>10, <1>11, <1>12,
     <1>13, <1>14, <1>15, <1>16, <1>17, <1>18, <1>19, <1>20, <1>21, <1>22 DEF Next, Deliver

LEMMA AddsStep ==
  ASSUME TypeOK, TypeOK', Next
  PROVE  Adds
<1>1. ASSUME NEW e \in Emails, Queue(e)
      PROVE  Adds
  BY <1>1, QueueDoes DEF Adds
<1>2. ASSUME NEW e \in Emails, Redact(e)
      PROVE  Adds
  BY <1>2, Zenon DEF Redact, Adds
<1>3. ASSUME Tick
      PROVE  Adds
  BY <1>3, TickDoes DEF Adds
<1>4. ASSUME NEW r \in Runners, Claim(r)
      PROVE  Adds
  BY <1>4, ClaimDoes DEF Adds
<1>5. ASSUME NEW r \in Runners, NEW e \in Emails, Start(r, e)
      PROVE  Adds
  BY <1>5, Zenon DEF Start, Adds
<1>6. ASSUME NEW r \in Runners, Abort(r)
      PROVE  Adds
  BY <1>6, Zenon DEF Abort, Adds
<1>7. ASSUME NEW r \in Runners, Stop(r)
      PROVE  Adds
  BY <1>7, Zenon DEF Stop, Adds
<1>8. ASSUME NEW r \in Runners, NEW e \in Emails, Release(r, e)
      PROVE  Adds
  BY <1>8, ReleaseDoes DEF Held, Adds
<1>9. ASSUME NEW r \in Runners, End(r)
      PROVE  Adds
  BY <1>9, Zenon DEF End, Adds
<1>10. ASSUME NEW r \in Runners, NEW e \in Emails, Fail(r, e)
      PROVE  Adds
  BY <1>10, FailDoes DEF Held, Adds
<1>11. ASSUME NEW r \in Runners, Crash(r)
      PROVE  Adds
  BY <1>11, Zenon DEF Crash, Adds
<1>12. ASSUME NEW r \in Runners, Throw(r)
      PROVE  Adds
  BY <1>12, Zenon DEF Throw, Adds
<1>13. ASSUME NEW r \in Runners, NEW e \in Emails, Check(r, e)
      PROVE  Adds
  BY <1>13, CheckRows DEF Adds
<1>14. ASSUME NEW r \in Runners, NEW e \in Emails, Journal(r, e)
      PROVE  Adds
  BY <1>14, Zenon DEF Journal, Adds
<1>15. ASSUME NEW r \in Runners, NEW e \in Emails, Unlogged(r, e)
      PROVE  Adds
  BY <1>15, RescheduleDoes DEF Unlogged, Owns, Held, Adds
<1>16. ASSUME NEW r \in Runners, NEW e \in Emails, Mark(r, e)
      PROVE  Adds
  BY <1>16, MarkRows DEF Adds
<1>17. ASSUME NEW r \in Runners, NEW e \in Emails, Prepare(r, e)
      PROVE  Adds
  BY <1>17, PrepareRows DEF Owns, Held, Adds
<1>18. ASSUME NEW r \in Runners, NEW e \in Emails, Send(r, e)
      PROVE  Adds
  BY <1>18, Zenon DEF Send, Adds
<1>19. ASSUME NEW r \in Runners, NEW e \in Emails, RecordSent(r, e)
      PROVE  Adds
  BY <1>19, DropDoes DEF RecordSent, Adds
<1>20. ASSUME NEW r \in Runners, NEW e \in Emails, RecordRefused(r, e)
      PROVE  Adds
  BY <1>20, DropDoes DEF RecordRefused, Adds
<1>21. ASSUME NEW r \in Runners, NEW e \in Emails, RecordUnsure(r, e)
      PROVE  Adds
  BY <1>21, RescheduleDoes DEF RecordUnsure, Owns, Held, Adds
<1>22. ASSUME NEW skipWork \in SUBSET Emails, NEW skipMail \in SUBSET Emails,
             Sweep(skipWork, skipMail)
      PROVE  Adds
  BY <1>22 DEF Sweep, Adds
<1>. QED
  BY <1>1, <1>2, <1>3, <1>4, <1>5, <1>6, <1>7, <1>8, <1>9, <1>10, <1>11, <1>12,
     <1>13, <1>14, <1>15, <1>16, <1>17, <1>18, <1>19, <1>20, <1>21, <1>22 DEF Next, Deliver

LEMMA OneTakesOn ==
  ASSUME TypeOK, NEW r \in Runners, NEW x, run' = [run EXCEPT ![r] = x],
         x.todo \subseteq run[r].todo,
         \/ x.phase \in {"idle", "loop", "release"}
         \/ x.at = run[r].at /\ Working(r)
         \/ x.at \in run[r].todo
  PROVE  TakesOn
<1>1. run'[r] = x /\ \A s \in Runners : s # r => run'[s] = run[s]
  BY DEF TypeOK
<1>2. ASSUME NEW s \in Runners
      PROVE  /\ \A e \in run'[s].todo : e \in run[s].todo
             /\ Working(s)' => \/ Working(s) /\ run'[s].at = run[s].at
                               \/ run'[s].at \in run[s].todo
  <2>1. CASE s = r
    BY <1>1, <2>1 DEF Working
  <2>2. CASE s # r
    BY <1>1, <2>2 DEF Working
  <2>. QED  BY <2>1, <2>2
<1>. QED  BY <1>2 DEF TakesOn

LEMMA ReturnTakesOn ==
  ASSUME TypeOK, NEW r \in Runners, NEW n, Return(r, n)
  PROVE  TakesOn
<1>. DEFINE x == [run[r] EXCEPT !.phase = "loop", !.at = Nobody, !.sendIn = 0,
                                !.calls = run[r].calls + n]
<1>1. x.todo = run[r].todo /\ x.phase = "loop"
  BY SMT DEF TypeOK, Run
<1>2. run' = [run EXCEPT ![r] = x]
  BY DEF Return
<1>. HIDE DEF x
<1>. QED  BY <1>1, <1>2, OneTakesOn

LEMMA GotoTakesOn ==
  ASSUME TypeOK, NEW r \in Runners, NEW p, Goto(r, p), Working(r) \/ p = "release"
  PROVE  TakesOn
<1>. DEFINE x == [run[r] EXCEPT !.phase = p]
<1>1. x.todo = run[r].todo /\ x.phase = p /\ x.at = run[r].at
  BY SMT DEF TypeOK, Run
<1>2. run' = [run EXCEPT ![r] = x]
  BY DEF Goto
<1>. HIDE DEF x
<1>. QED  BY <1>1, <1>2, OneTakesOn

LEMMA FailsTakesOn ==
  ASSUME TypeOK, NEW r \in Runners, Fails(r), Working(r)
  PROVE  TakesOn
  BY GotoTakesOn DEF Fails

LEMMA SendsTakesOn ==
  ASSUME TypeOK, NEW r \in Runners, Working(r),
         run' = [run EXCEPT ![r] = [@ EXCEPT !.phase = "send",
                                             !.sendIn = SendLease]]
  PROVE  TakesOn
<1>. DEFINE x == [run[r] EXCEPT !.phase = "send", !.sendIn = SendLease]
<1>1. x.todo = run[r].todo /\ x.at = run[r].at
  BY SMT DEF TypeOK, Run
<1>2. run' = [run EXCEPT ![r] = x]
  OBVIOUS
<1>. HIDE DEF x
<1>. QED  BY <1>1, <1>2, OneTakesOn

LEMMA TakesOnStep ==
  ASSUME TypeOK, Next
  PROVE  TakesOn
<1>1. ASSUME NEW e \in Emails, Queue(e)
      PROVE  TakesOn
  BY <1>1, Zenon DEF Queue, TakesOn, Working
<1>2. ASSUME NEW e \in Emails, Redact(e)
      PROVE  TakesOn
  BY <1>2, Zenon DEF Redact, TakesOn, Working
<1>3. ASSUME Tick
      PROVE  TakesOn
  <2>1. ASSUME NEW r \in Runners
        PROVE  /\ run'[r].todo = run[r].todo /\ run'[r].at = run[r].at
               /\ run'[r].phase = run[r].phase
    <3>1. run[r] \in Run /\ run'[r] = [run[r] EXCEPT !.sendIn = Sooner(run[r].sendIn)]
      BY <1>3 DEF Tick, TypeOK
    <3>. QED  BY <3>1, SMT DEF Run
  <2>. QED  BY <2>1 DEF TakesOn, Working
<1>4. ASSUME NEW r \in Runners, Claim(r)
      PROVE  TakesOn
  <2>1. PICK S \in SUBSET {e \in Emails : Claimable(e)} :
          run' = [run EXCEPT ![r] = [Idle EXCEPT !.phase = "loop", !.todo = S]]
    BY <1>4 DEF Claim
  <2>. DEFINE x == [Idle EXCEPT !.phase = "loop", !.todo = S]
  <2>2. x.todo = S /\ x.phase = "loop"
    BY SMT DEF Idle
  <2>3. run' = [run EXCEPT ![r] = x]
    BY <2>1
  <2>. HIDE DEF x
  <2>4. run'[r] = x /\ \A s \in Runners : s # r => run'[s] = run[s]
    BY <2>3 DEF TypeOK
  <2>5. \A e \in S : work[e] # Nobody
    BY DEF Claimable
  <2>6. ASSUME NEW s \in Runners
        PROVE  /\ \A e \in run'[s].todo : e \in run[s].todo \/ work[e] # Nobody
               /\ Working(s)' => Working(s) /\ run'[s].at = run[s].at
    <3>1. CASE s = r
      BY <2>2, <2>4, <2>5, <3>1 DEF Working
    <3>2. CASE s # r
      BY <2>4, <3>2 DEF Working
    <3>. QED  BY <3>1, <3>2
  <2>. QED  BY <2>6 DEF TakesOn
<1>5. ASSUME NEW r \in Runners, NEW e \in Emails, Start(r, e)
      PROVE  TakesOn
  <2>. DEFINE x == [run[r] EXCEPT !.phase = "check", !.at = e, !.todo = run[r].todo \ {e}]
  <2>1. x.todo \subseteq run[r].todo /\ x.at = e /\ e \in run[r].todo
    BY <1>5, SMT DEF Start, TypeOK, Run, Idle
  <2>2. run' = [run EXCEPT ![r] = x]
    BY <1>5 DEF Start
  <2>. HIDE DEF x
  <2>. QED  BY <2>1, <2>2, <1>5, OneTakesOn DEF Start, Working
<1>6. ASSUME NEW r \in Runners, Abort(r)
      PROVE  TakesOn
  <2>. DEFINE x == [run[r] EXCEPT !.aborted = TRUE]
  <2>1. x.todo = run[r].todo /\ x.at = run[r].at /\ x.phase = run[r].phase
    BY <1>6, SMT DEF Abort, TypeOK, Run, Idle
  <2>2. run' = [run EXCEPT ![r] = x]
    BY <1>6 DEF Abort
  <2>. HIDE DEF x
  <2>. QED  BY <2>1, <2>2, <1>6, OneTakesOn DEF Abort, Working
<1>7. ASSUME NEW r \in Runners, Stop(r)
      PROVE  TakesOn
  BY <1>7, ReturnTakesOn, FailsTakesOn, GotoTakesOn DEF Stop, Step, Working
<1>8. ASSUME NEW r \in Runners, NEW e \in Emails, Release(r, e)
      PROVE  TakesOn
  <2>. DEFINE x == [run[r] EXCEPT !.todo = run[r].todo \ {e}]
  <2>1. x.todo \subseteq run[r].todo /\ x.at = run[r].at /\ x.phase = "release"
    BY <1>8, SMT DEF Release, TypeOK, Run, Idle
  <2>2. run' = [run EXCEPT ![r] = x]
    BY <1>8 DEF Release
  <2>. HIDE DEF x
  <2>. QED  BY <2>1, <2>2, <1>8, OneTakesOn DEF Release, Working
<1>9. ASSUME NEW r \in Runners, End(r)
      PROVE  TakesOn
  <2>1. Idle.todo = {} /\ Idle.phase = "idle"
    BY SMT DEF Idle
  <2>2. run' = [run EXCEPT ![r] = Idle]
    BY <1>9 DEF End
  <2>. QED  BY <2>1, <2>2, OneTakesOn
<1>10. ASSUME NEW r \in Runners, NEW e \in Emails, Fail(r, e)
      PROVE  TakesOn
  BY <1>10, ReturnTakesOn, FailsTakesOn, GotoTakesOn DEF Fail, Step, Working
<1>11. ASSUME NEW r \in Runners, Crash(r)
      PROVE  TakesOn
  <2>1. Idle.todo = {} /\ Idle.phase = "idle"
    BY SMT DEF Idle
  <2>2. run' = [run EXCEPT ![r] = Idle]
    BY <1>11 DEF Crash
  <2>. QED  BY <2>1, <2>2, OneTakesOn
<1>12. ASSUME NEW r \in Runners, Throw(r)
      PROVE  TakesOn
  BY <1>12, ReturnTakesOn, FailsTakesOn, GotoTakesOn DEF Throw, Step, Working
<1>13. ASSUME NEW r \in Runners, NEW e \in Emails, Check(r, e)
      PROVE  TakesOn
  BY <1>13, ReturnTakesOn, FailsTakesOn, GotoTakesOn DEF Check, Retire, Step, Working
<1>14. ASSUME NEW r \in Runners, NEW e \in Emails, Journal(r, e)
      PROVE  TakesOn
  BY <1>14, ReturnTakesOn, FailsTakesOn, GotoTakesOn DEF Journal, Step, Working
<1>15. ASSUME NEW r \in Runners, NEW e \in Emails, Unlogged(r, e)
      PROVE  TakesOn
  BY <1>15, ReturnTakesOn, FailsTakesOn, GotoTakesOn DEF Unlogged, Step, Working
<1>16. ASSUME NEW r \in Runners, NEW e \in Emails, Mark(r, e)
      PROVE  TakesOn
  BY <1>16, ReturnTakesOn, FailsTakesOn, GotoTakesOn DEF Mark, Step, Working
<1>17. ASSUME NEW r \in Runners, NEW e \in Emails, Prepare(r, e)
      PROVE  TakesOn
  BY <1>17, ReturnTakesOn, FailsTakesOn, SendsTakesOn DEF Prepare, Retire, Step, Working
<1>18. ASSUME NEW r \in Runners, NEW e \in Emails, Send(r, e)
      PROVE  TakesOn
  BY <1>18, ReturnTakesOn, FailsTakesOn, GotoTakesOn DEF Send, Step, Working
<1>19. ASSUME NEW r \in Runners, NEW e \in Emails, RecordSent(r, e)
      PROVE  TakesOn
  BY <1>19, ReturnTakesOn, FailsTakesOn, GotoTakesOn DEF RecordSent, Step, Working
<1>20. ASSUME NEW r \in Runners, NEW e \in Emails, RecordRefused(r, e)
      PROVE  TakesOn
  BY <1>20, ReturnTakesOn, FailsTakesOn, GotoTakesOn DEF RecordRefused, Step, Working
<1>21. ASSUME NEW r \in Runners, NEW e \in Emails, RecordUnsure(r, e)
      PROVE  TakesOn
  BY <1>21, ReturnTakesOn, FailsTakesOn, GotoTakesOn DEF RecordUnsure, Step, Working
<1>22. ASSUME NEW skipWork \in SUBSET Emails, NEW skipMail \in SUBSET Emails,
             Sweep(skipWork, skipMail)
      PROVE  TakesOn
  BY <1>22, Zenon DEF Sweep, TakesOn, Working
<1>. QED
  BY <1>1, <1>2, <1>3, <1>4, <1>5, <1>6, <1>7, <1>8, <1>9, <1>10, <1>11, <1>12,
     <1>13, <1>14, <1>15, <1>16, <1>17, <1>18, <1>19, <1>20, <1>21, <1>22 DEF Next, Deliver

LEMMA HasRowStep ==
  ASSUME TypeOK, HasEmail, ServiceKnows, HasRow, TypeOK', HasEmail', Next
  PROVE  HasRow'
<1>1. Moves /\ Adds /\ TakesOn
  BY MovesStep, AddsStep, TakesOnStep
<1>2. ASSUME NEW e \in Emails, Placed(e)
      PROVE  Placed(e)'
  BY <1>1, <1>2 DEF Moves, Moved, Placed, Queued, Closed
<1>3. ASSUME NEW e \in Emails, work'[e] # Nobody
      PROVE  Placed(e)'
  <2>1. CASE work[e] # Nobody
    BY <1>2, <2>1 DEF HasRow
  <2>2. CASE mail'[e].state = "queued"
    BY <2>2 DEF Placed
  <2>. QED  BY <1>1, <1>3, <2>1, <2>2 DEF Adds
<1>4. ASSUME NEW r \in Runners, NEW e \in run'[r].todo
      PROVE  Placed(e)'
  <2>1. e \in Emails
    BY SMT DEF TypeOK, Run
  <2>2. e \in run[r].todo \/ work[e] # Nobody
    BY <1>1 DEF TakesOn
  <2>. QED  BY <1>2, <2>1, <2>2 DEF HasRow
<1>5. ASSUME NEW r \in Runners, Working(r)'
      PROVE  Placed(run[r].at)'
  <2>1. run'[r].at \in Emails
    BY <1>5 DEF HasEmail
  <2>2. CASE Working(r) /\ run'[r].at = run[r].at
    BY <1>2, <2>1, <2>2 DEF HasRow
  <2>3. CASE run'[r].at \in run[r].todo
    BY <1>2, <2>1, <2>3 DEF HasRow
  <2>4. Placed(run[r].at)'
    BY <1>1, <1>5, <2>2, <2>3 DEF TakesOn
  <2>. QED  BY <2>4
<1>. QED  BY <1>3, <1>4, <1>5 DEF HasRow

\* Only these two steps reach the journal and the e-mail service.
LEMMA OthersKeepRecords ==
  ASSUME Next, ~\E r \in Runners, e \in Emails : Journal(r, e) \/ Send(r, e)
  PROVE  UNCHANGED <<journal, accepted>>
<1>1. ASSUME NEW e \in Emails, Queue(e)
      PROVE  UNCHANGED <<journal, accepted>>
  BY <1>1, Zenon DEF Queue
<1>2. ASSUME NEW e \in Emails, Redact(e)
      PROVE  UNCHANGED <<journal, accepted>>
  BY <1>2, Zenon DEF Redact
<1>3. ASSUME Tick
      PROVE  UNCHANGED <<journal, accepted>>
  BY <1>3, Zenon DEF Tick
<1>4. ASSUME NEW r \in Runners, Claim(r)
      PROVE  UNCHANGED <<journal, accepted>>
  BY <1>4, Zenon DEF Claim
<1>5. ASSUME NEW r \in Runners, NEW e \in Emails, Start(r, e)
      PROVE  UNCHANGED <<journal, accepted>>
  BY <1>5, Zenon DEF Start
<1>6. ASSUME NEW r \in Runners, Abort(r)
      PROVE  UNCHANGED <<journal, accepted>>
  BY <1>6, Zenon DEF Abort
<1>7. ASSUME NEW r \in Runners, Stop(r)
      PROVE  UNCHANGED <<journal, accepted>>
  BY <1>7, Zenon DEF Stop
<1>8. ASSUME NEW r \in Runners, NEW e \in Emails, Release(r, e)
      PROVE  UNCHANGED <<journal, accepted>>
  BY <1>8, Zenon DEF Release
<1>9. ASSUME NEW r \in Runners, End(r)
      PROVE  UNCHANGED <<journal, accepted>>
  BY <1>9, Zenon DEF End
<1>10. ASSUME NEW r \in Runners, NEW e \in Emails, Fail(r, e)
      PROVE  UNCHANGED <<journal, accepted>>
  BY <1>10, Zenon DEF Fail
<1>11. ASSUME NEW r \in Runners, Crash(r)
      PROVE  UNCHANGED <<journal, accepted>>
  BY <1>11, Zenon DEF Crash
<1>12. ASSUME NEW r \in Runners, Throw(r)
      PROVE  UNCHANGED <<journal, accepted>>
  BY <1>12, Zenon DEF Throw
<1>13. ASSUME NEW r \in Runners, NEW e \in Emails, Check(r, e)
      PROVE  UNCHANGED <<journal, accepted>>
  BY <1>13, Zenon DEF Check
<1>14. ASSUME NEW r \in Runners, NEW e \in Emails, Journal(r, e)
      PROVE  UNCHANGED <<journal, accepted>>
  BY <1>14, Zenon
<1>15. ASSUME NEW r \in Runners, NEW e \in Emails, Unlogged(r, e)
      PROVE  UNCHANGED <<journal, accepted>>
  BY <1>15, Zenon DEF Unlogged
<1>16. ASSUME NEW r \in Runners, NEW e \in Emails, Mark(r, e)
      PROVE  UNCHANGED <<journal, accepted>>
  BY <1>16, Zenon DEF Mark
<1>17. ASSUME NEW r \in Runners, NEW e \in Emails, Prepare(r, e)
      PROVE  UNCHANGED <<journal, accepted>>
  BY <1>17, Zenon DEF Prepare
<1>18. ASSUME NEW r \in Runners, NEW e \in Emails, Send(r, e)
      PROVE  UNCHANGED <<journal, accepted>>
  BY <1>18, Zenon
<1>19. ASSUME NEW r \in Runners, NEW e \in Emails, RecordSent(r, e)
      PROVE  UNCHANGED <<journal, accepted>>
  BY <1>19, Zenon DEF RecordSent
<1>20. ASSUME NEW r \in Runners, NEW e \in Emails, RecordRefused(r, e)
      PROVE  UNCHANGED <<journal, accepted>>
  BY <1>20, Zenon DEF RecordRefused
<1>21. ASSUME NEW r \in Runners, NEW e \in Emails, RecordUnsure(r, e)
      PROVE  UNCHANGED <<journal, accepted>>
  BY <1>21, Zenon DEF RecordUnsure
<1>22. ASSUME NEW skipWork \in SUBSET Emails, NEW skipMail \in SUBSET Emails,
             Sweep(skipWork, skipMail)
      PROVE  UNCHANGED <<journal, accepted>>
  BY <1>22, Zenon DEF Sweep
<1>. QED
  BY <1>1, <1>2, <1>3, <1>4, <1>5, <1>6, <1>7, <1>8, <1>9, <1>10, <1>11, <1>12,
     <1>13, <1>14, <1>15, <1>16, <1>17, <1>18, <1>19, <1>20, <1>21, <1>22 DEF Next, Deliver

LEMMA PromiseStep ==
  ASSUME IInv, HasRow, IInv', Next, NEW e \in Emails
  PROVE  [Promise(e)!Next]_(Promise(e)!vars)
<1>1. CASE UNCHANGED <<journal, accepted>>
  <2>1. Moved(e)
    BY MovesStep DEF IInv, Moves
  <2>2. CASE mail'[e].state = mail[e].state
    BY <1>1, <2>2 DEF Promise!vars
  <2>3. CASE mail[e].state = "absent" /\ mail'[e].state = "queued"
    BY <1>1, <2>3 DEF Promise!Next, Promise!Queue
  <2>4. CASE Queued(e) /\ mail'[e].state \in {"failed", "expired", "suppressed"}
    <3>1. Promise(e)!Close(mail'[e].state)
      BY <1>1, <2>4 DEF Promise!Close, Queued
    <3>. QED  BY <2>4, <3>1 DEF Promise!Next, Promise!Unsent
  <2>5. CASE Queued(e) /\ mail'[e].state = "sent" /\ e \in accepted
    <3>1. Promise(e)!Close("sent")
      BY <1>1, <2>5 DEF Promise!Close, Queued
    <3>. QED  BY <3>1 DEF Promise!Next
  <2>6. CASE mail[e].state \in Closed /\ mail'[e].state = "deleted"
    BY <1>1, <2>6 DEF Closed, Promise!Next, Promise!Delete, Promise!Unsent
  <2>. QED  BY <2>1, <2>2, <2>3, <2>4, <2>5, <2>6 DEF Moved
<1>2. ASSUME NEW r \in Runners, NEW f \in Emails, Journal(r, f)
      PROVE  [Promise(e)!Next]_(Promise(e)!vars)
  <2>1. mail' = mail /\ accepted' = accepted /\ journal' \in {journal, journal \cup {f}}
    BY <1>2 DEF Journal
  <2>2. CASE (e \in journal)' = (e \in journal)
    BY <2>1, <2>2 DEF Promise!vars
  <2>3. CASE (e \in journal)' # (e \in journal)
    <3>1. e = f /\ e \notin journal /\ e \in journal'
      BY <2>1, <2>3
    <3>2. mail[e].state # "absent"
      BY <1>2, <3>1 DEF Journal, Step, Working, HasRow, Placed
    <3>. QED  BY <2>1, <3>1, <3>2 DEF Promise!Next, Promise!Record
  <2>. QED  BY <2>2, <2>3
<1>3. ASSUME NEW r \in Runners, NEW f \in Emails, Send(r, f)
      PROVE  [Promise(e)!Next]_(Promise(e)!vars)
  <2>1. mail' = mail /\ journal' = journal /\ accepted' \in {accepted, accepted \cup {f}}
    BY <1>3 DEF Send
  <2>2. CASE (e \in accepted)' = (e \in accepted)
    BY <2>1, <2>2 DEF Promise!vars
  <2>3. CASE (e \in accepted)' # (e \in accepted)
    <3>1. e = f /\ e \notin accepted /\ e \in accepted'
      BY <2>1, <2>3
    <3>2. e \in journal
      BY <1>3, <3>1 DEF Send, Step, IInv, JournalKnows, Sending
    <3>. QED  BY <2>1, <3>1, <3>2 DEF Promise!Next, Promise!Take
  <2>. QED  BY <2>2, <2>3
<1>. QED  BY <1>1, <1>2, <1>3, OthersKeepRecords

LEMMA InitRow ==
  ASSUME Init, NEW e \in Emails
  PROVE  mail[e].state = "absent"
  BY SMT DEF Init

\* Whatever executions, sweeps and crashes come between, no message goes out
\* before its record, an e-mail is closed as sent only if the service took it,
\* and a late answer, retry or sweep never reopens or closes it otherwise.
THEOREM PromiseKept == Spec => KeepsPromise
<1>1. Init => (\A e \in Emails : Promise(e)!Init) /\ HasRow
  <2>1. Init => \A r \in Runners : run[r].phase = "idle" /\ run[r].todo = {}
    BY SMT DEF Init, Idle
  <2>2. ASSUME Init, NEW e \in Emails
        PROVE  Promise(e)!Init
    <3>1. mail[e].state = "absent"
      BY <2>2, InitRow
    <3>2. e \notin journal /\ e \notin accepted
      BY <2>2 DEF Init
    <3>3. (e \in journal) = FALSE /\ (e \in accepted) = FALSE
      BY <3>2
    <3>. QED  BY <3>1, <3>3 DEF Promise!Init
  <2>. QED  BY <2>1, <2>2 DEF Init, HasRow, Working
<1>2. IInv /\ HasRow /\ [Next]_vars /\ IInv' => HasRow'
  <2>1. IInv /\ HasRow /\ Next /\ IInv' => HasRow'
    BY HasRowStep DEF IInv
  <2>2. HasRow /\ UNCHANGED vars => HasRow'
    BY DEF HasRow, Placed, Working, vars
  <2>. QED  BY <2>1, <2>2
<1>3. IInv /\ HasRow /\ IInv' /\ [Next]_vars
        => [\A e \in Emails : [Promise(e)!Next]_(Promise(e)!vars)]_vars
  BY PromiseStep
<1>. QED  BY <1>1, <1>2, <1>3, Invariance, PTL DEF Spec, KeepsPromise

=============================================================================
