-------------------------- MODULE PaymentAuthority ---------------------------
(***************************************************************************)
(* The payment side of the gateway put together: buyers' execute calls,    *)
(* reconciliation workers, provider callbacks and Razorpay itself, all     *)
(* interleaved over one database.                                          *)
(***************************************************************************)
EXTENDS TransactionExecution, TransactionReconciliation, ProviderVerification

CONSTANT CrashPoints   \* services that may die: "execute", "reconcile"

ASSUME CrashAssumption == CrashPoints \subseteq {"execute", "reconcile"}

vars == <<storeVars, providerVars, execVars, recon, job>>

Init ==
    /\ StoreInit
    /\ ProviderInit
    /\ ExecInit
    /\ ReconInit
    /\ VerifyInit

TypeOK ==
    /\ StoreTypeOK
    /\ ProviderTypeOK
    /\ ExecTypeOK
    /\ ReconTypeOK
    /\ VerifyTypeOK

(* One request: its first database transaction ...                         *)
ExecuteArrives(r) ==
    \E c \in Call :
        \/ Replay(r, c)
        \/ RefuseKeyReuse(r, c)
        \/ RefuseForeignBuyer(r, c)
        \/ ShowStarted(r, c)
        \/ RefuseStale(r, c)
        \/ CommitExecuting(r, c)

(* ... and what it still does when it found the transaction READY.         *)
ExecuteProceeds(r) ==
    \/ Dispatch(r)
    \/ ReceiveOrder(r)
    \/ DispatchFails(r)
    \/ RecordOrder(r)
    \/ RecordUnknown(r)

ExecuteStep(r) ==
    \/ ExecuteArrives(r)
    \/ ExecuteProceeds(r)
    \/ "execute" \in CrashPoints /\ CrashExecute(r)

ReconcileStep(w) ==
    \/ \E t \in Txns : StartReconcile(w, t) \/ Resolve(w, t) \/ GiveUp(w, t)
    \/ "reconcile" \in CrashPoints /\ CrashReconcile(w)

CallbackStep(h) ==
    \/ \E t \in Txns, p \in Payments : BeginCheckout(h, t, p)
    \/ \E e \in Events : IgnoreWebhook(h, e) \/ OrphanWebhook(h, e) \/ AcceptWebhook(h, e)
    \/ ReadPayment(h)
    \/ ReadOrder(h)
    \/ Apply(h)
    \/ FinishWebhook(h)
    \/ AbandonJob(h)

(* The buyer can only pay an order whose id the gateway has shown.         *)
ProviderStep ==
    \/ \E a \in Attempts, t \in Txns : AcceptOrder(a, t)
    \/ \E p \in Payments, m \in Amounts, s \in {"authorized", "failed"} :
         \E o \in {x \in Orders : x = ForeignOrder \/ Payable(x)} : StartPayment(p, o, m, s)
    \/ \E p \in Payments :
         CapturePayment(p) \/ FailPayment(p) \/ RefundPayment(p) \/ MarkOrderPaid(p)

(* What execution checks again changes under a READY transaction: its      *)
(* authorization or decision expires, the product or the policy changes,   *)
(* or racing policy updates set the policy's version back.  Once the       *)
(* transaction left READY nothing reads its gates.                         *)
GatesChange(t) ==
    /\ state[t] = "READY"
    /\ current' \in {current \ {t}, current \cup {t}}
    /\ UNCHANGED <<state, audit, attempt, claims, receipt, providerVars>>

Next ==
    \/ \E r \in Requests : ExecuteStep(r) /\ UNCHANGED <<recon, job>>
    \/ \E w \in Workers : ReconcileStep(w) /\ UNCHANGED <<execVars, job>>
    \/ \E h \in Handlers : CallbackStep(h) /\ UNCHANGED <<execVars, recon>>
    \/ ProviderStep /\ UNCHANGED <<storeVars, execVars, recon, job>>
    \/ \E t \in Txns : GatesChange(t) /\ UNCHANGED <<execVars, recon, job>>

Spec == Init /\ [][Next]_vars

------------------------------------------------------------------------------
(* Fairness.  A call that has not died goes on.  Reconciliation is called  *)
(* again for as long as a transaction needs it, and a provider that is     *)
(* asked for ever answers some day.  Razorpay marks an order paid after    *)
(* its capture and delivers that event until the gateway acknowledged it;  *)
(* a delivery repeated for ever is some day not cut short.  Nothing is     *)
(* assumed of buyers' returns and of the other events.                     *)

HandlerOn(h, e) == job[h] # None /\ job[h].event = e

ExecuteFairness ==
    \A r \in Requests : WF_vars(ExecuteProceeds(r) /\ UNCHANGED <<recon, job>>)

ReconcileFairness ==
    \A t \in Txns :
        /\ WF_vars(\E w \in Workers : /\ StartReconcile(w, t) \/ GiveUp(w, t)
                                      /\ UNCHANGED <<execVars, job>>)
        /\ SF_vars(\E w \in Workers : Resolve(w, t) /\ UNCHANGED <<execVars, job>>)

DeliveryFairness ==
    \A p \in Payments :
        /\ WF_vars(MarkOrderPaid(p) /\ UNCHANGED <<storeVars, execVars, recon, job>>)
        /\ SF_vars(\E h \in Handlers : /\ AcceptWebhook(h, <<p, "order.paid">>)
                                       /\ UNCHANGED <<execVars, recon>>)
        /\ SF_vars(\E h \in Handlers : /\ HandlerOn(h, <<p, "order.paid">>) /\ ReadPayment(h)
                                       /\ UNCHANGED <<execVars, recon>>)
        /\ SF_vars(\E h \in Handlers : /\ HandlerOn(h, <<p, "order.paid">>) /\ ReadOrder(h)
                                       /\ UNCHANGED <<execVars, recon>>)
        /\ SF_vars(\E h \in Handlers : /\ HandlerOn(h, <<p, "order.paid">>) /\ Apply(h)
                                       /\ UNCHANGED <<execVars, recon>>)

(* A handler does not work on one callback for ever.                       *)
HandlerFairness ==
    \A h \in Handlers : WF_vars(AbandonJob(h) /\ UNCHANGED <<execVars, recon>>)

FairSpec == Spec /\ ExecuteFairness /\ ReconcileFairness /\ DeliveryFairness
            /\ HandlerFairness

------------------------------------------------------------------------------
(* Safety.                                                                 *)

OrdersOf(t) == {o \in Attempts : order[o] # None /\ order[o].txn = t}

CapturedFor(t) ==
    {p \in Payments : /\ pay[p] # None
                      /\ pay[p].order \in OrdersOf(t)
                      /\ pay[p].amount = Price
                      /\ pay[p].status \in {"captured", "refunded"}}

(* However calls are retried, crash or time out, Razorpay never holds two  *)
(* orders for one transaction (DATA_MODEL.md, required invariant 6): the   *)
(* row lock, the claim and the attempt stored before dispatch see to it.   *)
OneOrderPerTransaction ==
    \A a, b \in Attempts :
        (order[a] # None /\ order[b] # None /\ order[a].txn = order[b].txn) => a = b

(* A transaction in which evidence is accepted names the very order that   *)
(* Razorpay made for it, even when the answer to the POST was dropped      *)
(* because reconciliation had moved the row first.                         *)
PendingNamesItsOrder ==
    \A t \in Txns : state[t] \in Verifiable =>
        /\ attempt[t] # None
        /\ attempt[t].order \in OrdersOf(t)
        /\ attempt[t].order = attempt[t].id

(* SUCCEEDED means money (DATA_MODEL.md, required invariant 8): the stored *)
(* payment was captured in full on the transaction's own, paid order,      *)
(* whatever stale or reordered evidence the handlers applied.              *)
SucceededIsPaid ==
    \A t \in Txns : state[t] = "SUCCEEDED" =>
        /\ attempt[t].payment \in CapturedFor(t)
        /\ order[attempt[t].order].status = "paid"
        /\ attempt[t].orderState = "paid"
        /\ attempt[t].payState = "captured"

(* Every recorded transition is one the table allows, so that transition() *)
(* never raises in the middle of a service whose state moved meanwhile.    *)
LegalTransitions == \A t \in Txns : audit[t] \subseteq AllowedTransitions

(* Until an order is accepted as pending no payment is attached to it, so  *)
(* reconciliation never has a payment to look up: its SUCCEEDED and FAILED *)
(* outcomes cannot occur.                                                  *)
NoPaymentBeforePending ==
    \A t \in Txns : attempt[t] # None /\ state[t] \notin Verifiable => attempt[t].payment = None

(* What a callback tells is stored: its payment is named by the attempt    *)
(* that owns its order, which is at least under verification if captured.  *)
Recorded(e) ==
    \E t \in Txns :
        /\ attempt[t] # None
        /\ attempt[t].order = pay[e[1]].order
        /\ attempt[t].payment = e[1]
        /\ PayloadState(e) = "captured" => state[t] \in {"VERIFYING", "SUCCEEDED"}

(* The evidence of an event acknowledged for good is stored: a receipt is  *)
(* not PROCESSED before its observation was applied.                       *)
ProcessedIsRecorded == \A e \in Events : receipt[e] = "PROCESSED" => Recorded(e)

(* A buyer is only shown the transaction it asked for, and only its own,   *)
(* also when a key is reused by another request or another buyer.          *)
RepliesMatchRequests ==
    \A r \in Requests :
        reply[r] # None /\ reply[r].kind # "rejected" =>
            reply[r].txn = call[r].txn /\ Owner[call[r].txn] = call[r].buyer

------------------------------------------------------------------------------
(* Why the safety properties hold: every order, stored or on the wire, is  *)
(* owned by the attempt that the row lock let one request store, and every *)
(* piece of evidence a handler holds was true when it was read.            *)

WireIsOwned ==
    \A a \in Attempts, t \in Txns :
        <<a, t>> \in inflight => attempt[t] # None /\ attempt[t].id = a

OrdersAreOwned ==
    \A a \in Attempts : order[a] # None =>
        /\ order[a].txn \in Txns
        /\ attempt[order[a].txn] # None
        /\ attempt[order[a].txn].id = a

InService == {"dispatching", "posted", "ordered", "uncertain"}

RequestsAreOwners ==
    \A r \in Requests : pc[r] \in InService =>
        /\ call[r] # None
        /\ attempt[call[r].txn] # None
        /\ attempt[call[r].txn].id = r
        /\ pc[r] = "ordered" => order[r] # None

AttemptsAreDistinct ==
    /\ \A t \in Txns : attempt[t] # None => pc[attempt[t].id] # "idle"
    /\ \A t, u \in Txns :
          attempt[t] # None /\ attempt[u] # None /\ attempt[t].id = attempt[u].id => t = u

StoredOrderIsOwn ==
    \A t \in Txns : attempt[t] # None /\ attempt[t].order # None =>
        /\ attempt[t].order = attempt[t].id
        /\ order[attempt[t].id] # None
        /\ order[attempt[t].id].txn = t

StateNeedsEvidence ==
    \A t \in Txns :
        /\ state[t] # "READY" => attempt[t] # None
        /\ state[t] \in Verifiable => attempt[t].order # None

Ownership ==
    /\ WireIsOwned
    /\ OrdersAreOwned
    /\ RequestsAreOwners
    /\ AttemptsAreDistinct
    /\ StoredOrderIsOwn
    /\ StateNeedsEvidence
    /\ NoPaymentBeforePending

PaymentsExist ==
    /\ \A p \in Payments : pay[p] # None => order[pay[p].order] # None
    /\ \A e \in emitted : pay[e[1]] # None
    /\ \A h \in Handlers : job[h] # None => pay[job[h].payment] # None
    /\ \A t \in Txns : attempt[t] # None /\ attempt[t].payment # None =>
          pay[attempt[t].payment] # None

EvidenceIsTrue ==
    /\ \A h \in Handlers : job[h] # None =>
          /\ job[h].orderState = "paid" => order[pay[job[h].payment].order].status = "paid"
          /\ job[h].payState = "captured" =>
                pay[job[h].payment].status \in {"captured", "refunded"}
    /\ \A t \in Txns : attempt[t] # None /\ attempt[t].orderState = "paid" =>
          attempt[t].order # None /\ order[attempt[t].order].status = "paid"

(* Who holds what, and what every piece of evidence is worth.              *)
Custody ==
    /\ TypeOK
    /\ Ownership
    /\ PaymentsExist
    /\ EvidenceIsTrue
    /\ SucceededIsPaid

ReadyIsFresh == \A t \in Txns : state[t] = "READY" => attempt[t] = None

(* A key belongs to the buyer of its transaction, and while its code is    *)
(* not 200 to the one request that dispatched it.                          *)
ClaimsAreOwned ==
    /\ \A s \in Scopes : claims[s] # None => Owner[claims[s].txn] = s[1]
    /\ \A s \in Scopes : claims[s] # None /\ claims[s].code # "200" =>
          /\ attempt[claims[s].txn] # None
          /\ Scope(call[attempt[claims[s].txn].id]) = s
    /\ \A r \in Requests : pc[r] \in InService =>
          /\ Owner[call[r].txn] = call[r].buyer
          /\ claims[Scope(call[r])] = [txn |-> call[r].txn, code |-> "pending"]
    /\ \A r \in Requests : pc[r] = "idle" => reply[r] = None

Told(q) == reply[q] # None /\ reply[q].kind # "rejected"

(* What q was told is the last word under its key: all but a look at a     *)
(* dispatch that another call under that key had begun.                    *)
Final(q) ==
    LET d == attempt[call[q].txn].id IN
    reply[q].kind = "unknown" \/ d = q \/ Scope(call[d]) # Scope(call[q])

(* What was told for good is on file under its key.                        *)
Filed(q) ==
    /\ call[q] # None
    /\ attempt[call[q].txn] # None
    /\ claims[Scope(call[q])] # None
    /\ Final(q) => claims[Scope(call[q])].code = IF reply[q].kind = "unknown" THEN "503" ELSE "200"

AnswersAreFiled ==
    /\ \A s \in Scopes : claims[s] # None => attempt[claims[s].txn] # None
    /\ \A q \in Requests : Told(q) => Filed(q)

(* An event tells of a capture only after it, a handler works on an event  *)
(* that an attempt owns, and finishes only what it has applied.            *)
JobsAreFounded ==
    /\ \A e \in emitted : PayloadState(e) = "captured" =>
          pay[e[1]].status \in {"captured", "refunded"}
    /\ \A h \in Handlers : job[h] # None /\ job[h].event # None =>
          LET e == job[h].event IN
          /\ e \in emitted
          /\ e[2] \in SupportedEvents
          /\ job[h].payment = e[1]
          /\ job[h].txn \in AttemptsFor(pay[e[1]].order, e[1])
          /\ receipt[e] \in {"RECEIVED", "PROCESSED"}
          /\ PayloadState(e) = "captured" => job[h].payState \in {None, "captured", "refunded"}
    /\ \A h \in Handlers : job[h] # None /\ job[h].step = "finish" =>
          job[h].event # None /\ Recorded(job[h].event)

(* What the tables say of the past.                                        *)
Bookkeeping ==
    /\ LegalTransitions
    /\ ReadyIsFresh
    /\ ClaimsAreOwned
    /\ RepliesMatchRequests
    /\ AnswersAreFiled
    /\ JobsAreFounded
    /\ ProcessedIsRecorded

(* Everything above at once, preserved by every step.                      *)
Inductive == Custody /\ Bookkeeping

------------------------------------------------------------------------------
(* What no step may do.                                                    *)

(* The order and the payment a transaction names are never replaced or     *)
(* forgotten by later evidence, a retry or a reconciliation.               *)
ReferencesStand ==
    [][\A t \in Txns : attempt[t] # None =>
          /\ attempt'[t] # None
          /\ attempt[t].order # None => attempt'[t].order = attempt[t].order
          /\ attempt[t].payment # None => attempt'[t].payment = attempt[t].payment]_vars

(* A key that is sent again is told what it was told before: once a call   *)
(* heard how the dispatch under its key ended, or that another key had     *)
(* begun it, every later call with that key hears the same, whatever       *)
(* reconciliation, late orders and deaths did to the row since.  Only a    *)
(* look at a dispatch still on its way may be followed by its outcome.     *)
AnswersRepeat ==
    [][\A q, r \in Requests :
          (Told(q) /\ Final(q) /\ reply'[r] # reply[r] /\ reply'[r].kind # "rejected"
             /\ Scope(call'[r]) = Scope(call[q]))
            => reply'[r].kind = reply[q].kind]_vars

(* A late or reordered event changes nothing about a settled transaction.  *)
SettledStands ==
    [][\A t \in Txns : state[t] = "SUCCEEDED" =>
          state'[t] = "SUCCEEDED" /\ attempt'[t] = attempt[t]]_vars

(* A receipt with a final status keeps it, whatever redeliveries of the    *)
(* same event are being handled at the time.                               *)
ReceiptsStand ==
    [][\A e \in Events : receipt[e] \notin {None, "RECEIVED"} => receipt'[e] = receipt[e]]_vars

------------------------------------------------------------------------------
(* The abstract lifecycle, implemented.                                    *)

Phase(t) ==
    CASE state[t] = "READY"                                    -> "gated"
      [] state[t] \in {"EXECUTING", "UNKNOWN", "RECONCILING"}  -> "uncertain"
      [] state[t] = "PAYMENT_PENDING"                          -> "payable"
      [] state[t] = "VERIFYING"                                -> "verifying"
      [] state[t] = "SUCCEEDED"                                -> "settled"
      [] OTHER                                                 -> "failed"

Lifecycle == INSTANCE PaymentLifecycle WITH
    phase    <- [t \in Txns |-> Phase(t)],
    placed   <- [t \in Txns |-> OrdersOf(t)],
    captured <- [t \in Txns |-> CapturedFor(t)]

(* All services together keep the promises of PaymentLifecycle.            *)
ImplementsLifecycle == Lifecycle!Spec

------------------------------------------------------------------------------
(* Liveness.                                                               *)

(* A dispatch that reached Razorpay does not stay in doubt: the row leaves *)
(* EXECUTING, UNKNOWN and RECONCILING for good (domain/reconciliation.py,  *)
(* ARCHITECTURE.md: the worker "resolves UNKNOWN").                        *)
UncertaintyResolves ==
    \A t \in Txns : (OrdersOf(t) # {}) ~> [](state[t] \in Verifiable)

(* Money captured on a transaction's order makes it SUCCEEDED, unless the  *)
(* money is given back first.                                              *)
CapturedSettles ==
    \A t \in Txns : (\E p \in CapturedFor(t) : pay[p].status = "captured")
                       ~> (state[t] = "SUCCEEDED"
                             \/ \E p \in CapturedFor(t) : pay[p].status = "refunded")
==============================================================================
