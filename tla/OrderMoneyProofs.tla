-------------------------- MODULE OrderMoneyProofs ---------------------------
(***************************************************************************)
(* What a reader of OrderMoney may rely on, for any references: proved once  *)
(* here, and true of every system that implements OrderMoney.               *)
(***************************************************************************)
EXTENDS OrderMoney, TLAPS

Outcomes == {"none", "confirmed", "overpaid", "after_cancel", "amount_mismatch"}

MoneyTyped == money \in [Refs -> Outcomes]

\* One payment at most confirms the order.
OneConfirms ==
  \A r, s \in Refs : money[r] = "confirmed" /\ money[s] = "confirmed" => r = s

\* The outcome of a payment is its last.
OutcomesFinal == [][\A r \in Refs : money[r] # "none" => money'[r] = money[r]]_vars

\* Every step leaves all outcomes alone or records the first one of a reference,
\* "confirmed" only while none is.
LEMMA MoneyStep ==
  ASSUME MoneyTyped, [Next]_vars
  PROVE  \/ money' = money
         \/ \E r \in Refs, x \in Outcomes :
              /\ money[r] = "none" /\ money' = [money EXCEPT ![r] = x]
              /\ x = "confirmed" => ~Paid
<1>1. CASE Place \/ Cancel \/ UNCHANGED vars
  BY <1>1 DEF Place, Cancel, vars
<1>2. ASSUME NEW r \in Refs, Confirm(r) \/ Overpay(r) \/ PayLate(r) \/ PayWrongAmount(r)
      PROVE  \E x \in Outcomes : /\ money[r] = "none" /\ money' = [money EXCEPT ![r] = x]
                                 /\ x = "confirmed" => ~Paid
  BY <1>2 DEF Confirm, Overpay, PayLate, PayWrongAmount, Record, Outcomes
<1> QED
  BY <1>1, <1>2 DEF Next

\* Whoever pays, and in whatever order: one payment confirms the order at most
\* (applyConfirmedPayment of the checkout).
THEOREM OneConfirmation == Spec => [](MoneyTyped /\ OneConfirms)
<1>1. Init => MoneyTyped /\ OneConfirms
  BY DEF Init, MoneyTyped, OneConfirms, Outcomes
<1>2. MoneyTyped /\ OneConfirms /\ [Next]_vars => MoneyTyped' /\ OneConfirms'
  <2> SUFFICES ASSUME MoneyTyped, OneConfirms, [Next]_vars
               PROVE  MoneyTyped' /\ OneConfirms'
    OBVIOUS
  <2>1. CASE money' = money
    BY <2>1 DEF MoneyTyped, OneConfirms
  <2>2. ASSUME NEW r \in Refs, NEW x \in Outcomes, money[r] = "none",
               money' = [money EXCEPT ![r] = x], x = "confirmed" => ~Paid
        PROVE  MoneyTyped' /\ OneConfirms'
    <3>1. MoneyTyped' /\ money'[r] = x /\ \A s \in Refs \ {r} : money'[s] = money[s]
      BY <2>2 DEF MoneyTyped
    <3>2. OneConfirms'
      BY <2>2, <3>1 DEF OneConfirms, Paid
    <3> QED
      BY <3>1, <3>2
  <2> QED
    BY <2>1, <2>2, MoneyStep
<1> QED
  BY <1>1, <1>2, PTL DEF Spec

\* A recorded outcome never changes: a duplicate finds what the first one did.
THEOREM FirstOutcomeIsLast == Spec => OutcomesFinal
<1>1. MoneyTyped /\ [Next]_vars => [\A r \in Refs : money[r] # "none" => money'[r] = money[r]]_vars
  BY MoneyStep DEF MoneyTyped
<1>2. Spec => []MoneyTyped
  BY OneConfirmation, PTL
<1> QED
  BY <1>1, <1>2, PTL DEF Spec, OutcomesFinal

=============================================================================
