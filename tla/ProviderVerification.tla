------------------------ MODULE ProviderVerification -------------------------
(***************************************************************************)
(* ProviderVerificationApplicationService: checkout returns and webhooks.  *)
(* A handler loads the transaction, reads the provider without any lock,   *)
(* and applies what it saw in a later database transaction; a webhook's    *)
(* receipt is claimed before and marked PROCESSED after that.  A handler   *)
(* may fail or die at every point, and the provider delivers again.        *)
(***************************************************************************)
EXTENDS PaymentStore

CONSTANTS
  Handlers,   \* callback requests served at once
  Subscribed  \* event names the Razorpay account is set up to deliver

ASSUME SubscriptionAssumption == Subscribed \subseteq SupportedEvents \cup UnsupportedEvents

VARIABLE job        \* None, or the evidence a handler has gathered so far

(* event is the webhook being handled, None for a checkout return.         *)
Job == [event      : Events \cup {None},
        step       : {"payment", "order", "apply", "finish"},
        txn        : Txns,
        payment    : Payments,
        payState   : PaymentStates \cup {None},
        orderState : OrderStates \cup {None}]

ASSUME JobAssumption == None \notin Job

VerifyTypeOK == job \in [Handlers -> Job \cup {None}]

VerifyInit == job = [h \in Handlers |-> None]

NewJob(event, step, t, p, ps) ==
    [event |-> event, step |-> step, txn |-> t, payment |-> p, payState |-> ps,
     orderState |-> None]

(* Variants: any state is accepted, any payment is accepted.               *)
AcceptsInAnyState(t, o, p) ==
    /\ attempt[t] # None
    /\ attempt[t].order = o
    /\ attempt[t].payment \in {None, p}

AcceptsAnyPayment(t, o, p) ==
    /\ state[t] \in Verifiable
    /\ attempt[t] # None
    /\ attempt[t].order = o

(* _load_verifiable_transaction and _require_expected_references.          *)
AcceptsEvidence(t, o, p) ==
    /\ state[t] \in Verifiable
    /\ attempt[t] # None
    /\ attempt[t].order = o
    /\ attempt[t].payment \in {None, p}

(* Variants of the two checks below that are never made.                   *)
NeverSettled(t) == FALSE
AnyAmount(p) == TRUE

(* A transaction that SUCCEEDED is shown as it is.                         *)
AlreadySettled(t) == state[t] = "SUCCEEDED"

(* The payment is for what the transaction costs.                          *)
AmountMatches(p) == pay[p].amount = Price

(* A buyer returns with an order, a payment and the provider's signature   *)
(* over both, which exists once the payment was authorized.                *)
BeginCheckout(h, t, p) ==
    /\ job[h] = None
    /\ <<p, "payment.authorized">> \in emitted
    /\ AcceptsEvidence(t, pay[p].order, p)
    /\ ~AlreadySettled(t)
    /\ job' = [job EXCEPT ![h] = NewJob(None, "payment", t, p, None)]
    /\ UNCHANGED <<storeVars, providerVars>>

(* Variants: every delivery is worked on, or only the first one.           *)
DeliveredAlways(h, e) ==
    job[h] = None /\ e \in emitted /\ e[2] \in Subscribed

DeliveredOnce(h, e) ==
    job[h] = None /\ e \in emitted /\ e[2] \in Subscribed /\ receipt[e] = None

(* A delivery is worked on unless its receipt is final.                    *)
Delivered(h, e) ==
    /\ job[h] = None
    /\ e \in emitted
    /\ e[2] \in Subscribed
    /\ receipt[e] \in {None, "RECEIVED"}

SetReceipt(e, status) == receipt' = [receipt EXCEPT ![e] = status]

(* An event the adapter does not support names no order.                   *)
IgnoreWebhook(h, e) ==
    /\ Delivered(h, e)
    /\ e[2] \in UnsupportedEvents
    /\ SetReceipt(e, "IGNORED")
    /\ UNCHANGED <<state, audit, attempt, claims, current, providerVars, job>>

OrphanWebhook(h, e) ==
    /\ Delivered(h, e)
    /\ e[2] \in SupportedEvents
    /\ AttemptsFor(pay[e[1]].order, e[1]) = {}
    /\ SetReceipt(e, "ORPHAN")
    /\ UNCHANGED <<state, audit, attempt, claims, current, providerVars, job>>

(* The receipt while the event is being worked on, and the variant that    *)
(* acknowledges it at once.                                                *)
Acknowledged == "PROCESSED"
InProgress == "RECEIVED"

(* Captured events are confirmed by lookups, the others applied as sent.   *)
AcceptWebhook(h, e) ==
    /\ Delivered(h, e)
    /\ e[2] \in SupportedEvents
    /\ \E t \in Txns :
         /\ AttemptsFor(pay[e[1]].order, e[1]) = {t}
         /\ SetReceipt(e, InProgress)
         /\ job' = [job EXCEPT ![h] =
                      IF PayloadState(e) = "captured"
                        THEN NewJob(e, "payment", t, e[1], None)
                        ELSE NewJob(e, "apply", t, e[1], PayloadState(e))]
    /\ UNCHANGED <<state, audit, attempt, claims, current, providerVars>>

ReadPayment(h) ==
    /\ job[h] # None
    /\ job[h].step = "payment"
    /\ job' = [job EXCEPT ![h] =
                 [@ EXCEPT !.step = "order", !.payState = LookupPayment(job[h].payment)]]
    /\ UNCHANGED <<storeVars, providerVars>>

(* The amounts of payment and order must agree; every modelled order is    *)
(* for Price.                                                              *)
ReadOrder(h) ==
    /\ job[h] # None
    /\ job[h].step = "order"
    /\ AmountMatches(job[h].payment)
    /\ job' = [job EXCEPT ![h] =
                 [@ EXCEPT !.step = "apply",
                           !.orderState = LookupOrder(pay[job[h].payment].order)]]
    /\ UNCHANGED <<storeVars, providerVars>>

Present(new, old) == IF new = None THEN old ELSE new

(* Variant content with half of the evidence.                              *)
HalfVerified(os, ps) == os = "paid" \/ ps = "captured"

VerifiedSuccess(os, ps) == os = "paid" /\ ps = "captured"

(* A checkout ends with its view, a webhook goes on to its receipt.        *)
Applied(h) ==
    job' = [job EXCEPT ![h] =
              IF @.event = None THEN None ELSE [@ EXCEPT !.step = "finish"]]

(* A failed payment leaves a pending transaction pending, any other one    *)
(* puts it under verification, and verified success ends that.             *)
Advance(t, os, ps) ==
    \/ /\ state[t] = "PAYMENT_PENDING"
       /\ ps = "failed"
       /\ Stay
    \/ /\ state[t] = "PAYMENT_PENDING"
       /\ ps # "failed"
       /\ IF VerifiedSuccess(os, ps) THEN MoveVia(t, "VERIFYING", "SUCCEEDED")
                                     ELSE MoveTo(t, "VERIFYING")
    \/ /\ state[t] = "VERIFYING"
       /\ VerifiedSuccess(os, ps)
       /\ MoveTo(t, "SUCCEEDED")
    \/ /\ state[t] # "PAYMENT_PENDING"
       /\ ~(state[t] = "VERIFYING" /\ VerifiedSuccess(os, ps))
       /\ Stay

(* _apply_observation: everything is checked again under the row lock, the *)
(* evidence saved, and at most two transitions recorded.                   *)
Apply(h) ==
    /\ job[h] # None
    /\ job[h].step = "apply"
    /\ LET t == job[h].txn
           p == job[h].payment
           o == pay[p].order
           ps == job[h].payState
           os == Present(job[h].orderState, attempt[t].orderState)
       IN /\ AcceptsEvidence(t, o, p)
          /\ IF AlreadySettled(t)
               THEN Stay /\ UNCHANGED attempt
               ELSE /\ AmountMatches(p)
                    /\ SaveObservation(t, o, p, os, ps)
                    /\ Advance(t, os, ps)
    /\ Applied(h)
    /\ UNCHANGED <<claims, receipt, current, providerVars>>

FinishWebhook(h) ==
    /\ job[h] # None
    /\ job[h].step = "finish"
    /\ SetReceipt(job[h].event, "PROCESSED")
    /\ job' = [job EXCEPT ![h] = None]
    /\ UNCHANGED <<state, audit, attempt, claims, current, providerVars>>

(* A failed lookup, a refused observation or the death of the process: the *)
(* receipt stays as it is, and a new delivery starts over.                 *)
AbandonJob(h) ==
    /\ job[h] # None
    /\ job' = [job EXCEPT ![h] = None]
    /\ UNCHANGED <<storeVars, providerVars>>
==============================================================================
