-------------------------- MODULE RazorpayProvider ---------------------------
(***************************************************************************)
(* Razorpay as the gateway's adapter relies on it: an environment that     *)
(* accepts order POSTs (possibly after the client stopped waiting), lets   *)
(* a buyer pay an order, and emits signed events that it delivers at least *)
(* once and in any order.  What the gateway may ask of it -- the three     *)
(* lookups -- is an operator on this state.                                *)
(*                                                                         *)
(* An order is named after the payment attempt its POST carried: the       *)
(* adapter sends the attempt's id in the order's notes, sends each attempt *)
(* once and checks the notes on recovery.                                  *)
(***************************************************************************)
EXTENDS FiniteSets

CONSTANTS
  Attempts,      \* identities of payment attempts, hence of orders
  Txns,          \* transaction ids, hence receipts
  Payments,      \* provider payment ids
  Amounts,       \* amounts a payment may be for
  Price,         \* the amount of every modelled transaction
  ForeignOrder,  \* an order of the same account that the gateway did not place
  None           \* the absent value

Orders == Attempts \cup {ForeignOrder}

OrderStates   == {"created", "attempted", "paid"}

(* "authorized" stands for "created" too: the gateway accepts either word  *)
(* with a payment that is not captured and compares with neither, and the  *)
(* event that tells the two apart here need never be delivered.            *)
PaymentStates == {"authorized", "captured", "refunded", "failed"}

(* Event names the adapter supports, and one it does not.                  *)
SupportedEvents   == {"payment.authorized", "payment.captured", "payment.failed", "order.paid"}
UnsupportedEvents == {"refund.processed"}
Events == Payments \X (SupportedEvents \cup UnsupportedEvents)

(* The payment state an event's payload carries, whatever happened since.  *)
PayloadState(e) ==
    CASE e[2] = "payment.authorized" -> "authorized"
      [] e[2] = "payment.failed"     -> "failed"
      [] OTHER                       -> "captured"

VARIABLES
  inflight,  \* create-order POSTs on the wire: <<attempt, transaction>>
  order,     \* None, or [txn, status] for every order
  pay,       \* None, or [order, amount, status] for every payment
  emitted    \* events that exist; the provider may deliver each at any time

providerVars == <<inflight, order, pay, emitted>>

OrderRecord   == [txn : Txns \cup {None}, status : OrderStates]
PaymentRecord == [order : Orders, amount : Amounts, status : PaymentStates]

ASSUME ProviderAssumption ==
    /\ Price \in Amounts
    /\ ForeignOrder \notin Attempts
    /\ None \notin Orders \cup Txns \cup Payments \cup Events
                  \cup OrderStates \cup PaymentStates \cup OrderRecord \cup PaymentRecord

ProviderTypeOK ==
    /\ inflight \subseteq Attempts \X Txns
    /\ order \in [Orders -> OrderRecord \cup {None}]
    /\ pay \in [Payments -> PaymentRecord \cup {None}]
    /\ emitted \subseteq Events

ProviderInit ==
    /\ inflight = {}
    /\ order = [o \in Orders |->
                   IF o = ForeignOrder THEN [txn |-> None, status |-> "created"] ELSE None]
    /\ pay = [p \in Payments |-> None]
    /\ emitted = {}

(* A POST leaves the gateway.  It is answered, delayed or lost.            *)
SendOrder(a, t) == inflight' = inflight \cup {<<a, t>>}

(* Razorpay does not deduplicate: every POST that arrives makes an order.  *)
AcceptOrder(a, t) ==
    /\ <<a, t>> \in inflight
    /\ order[a] = None
    /\ inflight' = inflight \ {<<a, t>>}
    /\ order' = [order EXCEPT ![a] = [txn |-> t, status |-> "created"]]
    /\ UNCHANGED <<pay, emitted>>

(* A buyer tries to pay an unpaid order; the attempt is authorized or      *)
(* fails, and may be followed by another payment on the same order.        *)
StartPayment(p, o, m, s) ==
    /\ pay[p] = None
    /\ order[o] # None
    /\ order[o].status \in {"created", "attempted"}
    /\ pay' = [pay EXCEPT ![p] = [order |-> o, amount |-> m, status |-> s]]
    /\ order' = [order EXCEPT ![o] = [@ EXCEPT !.status = "attempted"]]
    /\ emitted' = emitted \cup
         {<<p, IF s = "failed" THEN "payment.failed" ELSE "payment.authorized">>}
    /\ UNCHANGED inflight

(* A payment changes state, and an event tells of it.                      *)
SettlePayment(p, from, to, event) ==
    /\ pay[p] # None
    /\ pay[p].status = from
    /\ pay' = [pay EXCEPT ![p] = [@ EXCEPT !.status = to]]
    /\ emitted' = emitted \cup {<<p, event>>}
    /\ UNCHANGED <<inflight, order>>

(* At most one payment of an order is captured.                            *)
CapturePayment(p) ==
    /\ pay[p] # None
    /\ \A q \in Payments : (pay[q] # None /\ pay[q].order = pay[p].order)
                              => pay[q].status \notin {"captured", "refunded"}
    /\ SettlePayment(p, "authorized", "captured", "payment.captured")

FailPayment(p)   == SettlePayment(p, "authorized", "failed", "payment.failed")
RefundPayment(p) == SettlePayment(p, "captured", "refunded", "refund.processed")

(* The order becomes paid some time after its payment was captured.        *)
MarkOrderPaid(p) ==
    /\ pay[p] # None
    /\ pay[p].status = "captured"
    /\ order[pay[p].order].status = "attempted"
    /\ order' = [order EXCEPT ![pay[p].order] = [@ EXCEPT !.status = "paid"]]
    /\ emitted' = emitted \cup {<<p, "order.paid">>}
    /\ UNCHANGED <<inflight, pay>>

------------------------------------------------------------------------------
(* What the adapter's reads return.                                        *)

LookupOrder(o)   == order[o].status
LookupPayment(p) == pay[p].status

(* Orders that carry the transaction as receipt; the adapter accepts the   *)
(* answer only when there is exactly one and its notes name the attempt.   *)
OrdersForReceipt(t) == {o \in Orders : order[o] # None /\ order[o].txn = t}

ReceiptIdentifies(t, a) == OrdersForReceipt(t) = {a}
==============================================================================
