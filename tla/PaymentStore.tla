---------------------------- MODULE PaymentStore -----------------------------
(***************************************************************************)
(* The durable tables the payment services share: transactions with their  *)
(* audit events, payment attempts, idempotency records and webhook         *)
(* receipts.  A step of a service that commits a database transaction is   *)
(* one step here; the row lock on the transaction (SELECT ... FOR UPDATE)  *)
(* and the unique constraints are what makes it one.                       *)
(***************************************************************************)
EXTENDS TransactionStates, RazorpayProvider

CONSTANTS
  Buyers,  \* authenticated buyers
  Keys,    \* idempotency keys buyers choose
  Owner    \* the buyer of each transaction

VARIABLES
  state,    \* transactions.state
  audit,    \* the transitions recorded in transaction_events, per transaction
  attempt,  \* payment_attempts: None, or the one attempt of a transaction
  claims,   \* idempotency_records of transaction.execute, by actor and key
  receipt,  \* provider_webhooks.processing_status, by event
  current   \* transactions whose proposal, authorization, decision and product
            \* would still pass the checks execution repeats

storeVars == <<state, audit, attempt, claims, receipt, current>>

Scopes == Buyers \X Keys

AttemptRecord ==
    [id         : Attempts,
     order      : Orders \cup {None},
     payment    : Payments \cup {None},
     orderState : OrderStates \cup {None},
     payState   : PaymentStates \cup {None}]

(* The fingerprint of a request is its transaction: actor and operation    *)
(* are already in the scope.  "pending" is a claim with no result code.    *)
ClaimRecord == [txn : Txns, code : {"pending", "200", "503"}]

ReceiptStates == {"RECEIVED", "PROCESSED", "IGNORED", "ORPHAN"}

ASSUME StoreAssumption ==
    /\ Owner \in [Txns -> Buyers]
    /\ None \notin AttemptRecord \cup ClaimRecord \cup ReceiptStates

StoreTypeOK ==
    /\ state \in [Txns -> TransactionState]
    /\ audit \in [Txns -> SUBSET (TransactionState \X TransactionState)]
    /\ attempt \in [Txns -> AttemptRecord \cup {None}]
    /\ claims \in [Scopes -> ClaimRecord \cup {None}]
    /\ receipt \in [Events -> ReceiptStates \cup {None}]
    /\ current \subseteq Txns

(* Transaction creation inserts transactions READY, after all gates.       *)
StoreInit ==
    /\ state = [t \in Txns |-> "READY"]
    /\ audit = [t \in Txns |-> {}]
    /\ attempt = [t \in Txns |-> None]
    /\ claims = [s \in Scopes |-> None]
    /\ receipt = [e \in Events |-> None]
    /\ current = Txns

(* One transition: the new state and its audit event, in one transaction.  *)
(* The table of AllowedTransitions is not a guard: the code raises where   *)
(* it is left, and LegalTransitions says no service ever gets there.       *)
MoveTo(t, new) ==
    /\ state' = [state EXCEPT ![t] = new]
    /\ audit' = [audit EXCEPT ![t] = @ \cup {<<state[t], new>>}]

(* Two transitions recorded by one database transaction.                   *)
MoveVia(t, mid, new) ==
    /\ state' = [state EXCEPT ![t] = new]
    /\ audit' = [audit EXCEPT ![t] = @ \cup {<<state[t], mid>>, <<mid, new>>}]

Stay == UNCHANGED <<state, audit>>

(* Variant that forgets to name the attempt.                               *)
UnnamedAttempt(a) ==
    [id |-> None, order |-> None, payment |-> None, orderState |-> None, payState |-> None]

NewAttempt(a) ==
    [id |-> a, order |-> None, payment |-> None, orderState |-> None, payState |-> None]

(* Variant that leaves the order's id out.                                 *)
SavePaymentOnly(t, o, p, os, ps) ==
    attempt' = [attempt EXCEPT ![t] =
                  [@ EXCEPT !.payment = p, !.orderState = os, !.payState = ps]]

(* Every provider column of the attempt is overwritten by an observation.  *)
SaveObservation(t, o, p, os, ps) ==
    attempt' = [attempt EXCEPT ![t] =
                  [@ EXCEPT !.order = o, !.payment = p, !.orderState = os, !.payState = ps]]

SaveClaim(s, t, code) == claims' = [claims EXCEPT ![s] = [txn |-> t, code |-> code]]

(* The attempt that owns an order or a payment the provider names.         *)
AttemptsFor(o, p) ==
    {t \in Txns : attempt[t] # None /\ (attempt[t].order = o \/ attempt[t].payment = p)}

(* The order id of a transaction is readable by its buyer once stored.     *)
Payable(o) == \E t \in Txns : attempt[t] # None /\ attempt[t].order = o
==============================================================================
