----------------------- MODULE PaymentAuthorityProofs ------------------------
(***************************************************************************)
(* The safety of PaymentAuthority for every number of transactions,        *)
(* requests, payments, workers and handlers.                               *)
(***************************************************************************)
EXTENDS PaymentAuthority, TLAPS

USE ProviderAssumption, StoreAssumption, ExecutionAssumption, JobAssumption
    DEF Requests, InService

------------------------------------------------------------------------------
(* Types.                                                                  *)

(* The initial state is well typed.                                        *)
LEMMA InitTypes == Init => TypeOK
  BY DEF Init, StoreInit, ProviderInit, ExecInit, ReconInit, VerifyInit,
         TypeOK, StoreTypeOK, ProviderTypeOK, ExecTypeOK, ReconTypeOK, VerifyTypeOK,
         TransactionState, PreDispatch, Steps, Orders, OrderRecord, OrderStates

(* One transition of one transaction keeps the types of rows and audit.    *)
LEMMA MoveTypes ==
  ASSUME TypeOK, NEW t \in Txns, NEW new \in TransactionState, MoveTo(t, new)
  PROVE  /\ state' \in [Txns -> TransactionState]
         /\ audit' \in [Txns -> SUBSET (TransactionState \X TransactionState)]
  BY DEF MoveTo, TypeOK, StoreTypeOK

(* A transaction the provider's evidence takes through VERIFYING.          *)
LEMMA MoveViaTypes ==
  ASSUME TypeOK, NEW t \in Txns, NEW mid \in TransactionState, NEW new \in TransactionState,
         MoveVia(t, mid, new)
  PROVE  /\ state' \in [Txns -> TransactionState]
         /\ audit' \in [Txns -> SUBSET (TransactionState \X TransactionState)]
  BY DEF MoveVia, TypeOK, StoreTypeOK

(* A step of an execute call keeps the types of all tables.                *)
LEMMA ExecuteTypes ==
  ASSUME TypeOK, RequestsAreOwners, NEW r \in Requests, ExecuteStep(r), UNCHANGED <<recon, job>>
  PROVE  TypeOK'
  <1> USE DEF Goto, Arrives, Answer, NothingStored, storeVars, providerVars, Scope, Scopes,
              SaveClaim, Steps, Reply, Call, ClaimRecord
  <1>1. ReconTypeOK' /\ VerifyTypeOK'
    BY DEF TypeOK, ReconTypeOK, VerifyTypeOK
  <1>2. ASSUME NEW c \in Call, Replay(r, c)
        PROVE  TypeOK'
    <2>1. claims[Scope(c)].txn \in Txns
      BY <1>2 DEF Replay, TypeOK, StoreTypeOK
    <2> DEFINE kind == IF claims[Scope(c)].code = "503" THEN "unknown" ELSE "view"
    <2>2. [kind |-> kind, txn |-> claims[Scope(c)].txn] \in Reply
      BY <2>1
    <2>3. reply' \in [Requests -> Reply \cup {None}]
      BY <1>2, <2>2 DEF Replay, Outcome, TypeOK, ExecTypeOK
    <2>4. StoreTypeOK' /\ ProviderTypeOK'
      BY <1>2 DEF Replay, TypeOK, StoreTypeOK, ProviderTypeOK
    <2>5. ExecTypeOK'
      <3>1. pc' = [pc EXCEPT ![r] = "done"] /\ call' = [call EXCEPT ![r] = c]
        BY <1>2 DEF Replay
      <3> QED
        BY <2>3, <3>1 DEF TypeOK, ExecTypeOK
    <2> QED
      BY <1>1, <2>4, <2>5 DEF TypeOK
  <1>3. ASSUME NEW c \in Call,
               RefuseKeyReuse(r, c) \/ RefuseForeignBuyer(r, c) \/ RefuseStale(r, c)
        PROVE  TypeOK'
    <2>1. Arrives(r, c) /\ Answer(r, "rejected", None) /\ NothingStored
      BY <1>3 DEF RefuseKeyReuse, RefuseForeignBuyer, RefuseStale
    <2>2. StoreTypeOK' /\ ProviderTypeOK'
      BY <2>1 DEF TypeOK, StoreTypeOK, ProviderTypeOK
    <2>3. ExecTypeOK'
      BY <2>1 DEF TypeOK, ExecTypeOK
    <2> QED
      BY <1>1, <2>2, <2>3 DEF TypeOK
  <1>4. ASSUME NEW c \in Call, ShowStarted(r, c)
        PROVE  TypeOK'
    BY <1>1, <1>4 DEF ShowStarted, TypeOK, StoreTypeOK, ProviderTypeOK, ExecTypeOK
  <1>5. ASSUME NEW c \in Call, CommitExecuting(r, c)
        PROVE  TypeOK'
    BY <1>1, <1>5 DEF CommitExecuting, Startable, MoveTo, NewAttempt, AttemptRecord,
                      TransactionState, TypeOK, StoreTypeOK, ProviderTypeOK, ExecTypeOK
  <1>6. CASE Dispatch(r) \/ ReceiveOrder(r) \/ DispatchFails(r) \/ CrashExecute(r)
    BY <1>1, <1>6 DEF RequestsAreOwners, Dispatch, ReceiveOrder, DispatchFails, CrashExecute,
                      SendOrder, TypeOK, StoreTypeOK, ProviderTypeOK, ExecTypeOK
  <1>7. CASE RecordOrder(r)
    <2>1. call[r] \in Call
      BY <1>7 DEF RecordOrder, RequestsAreOwners, TypeOK, ExecTypeOK
    <2>2. /\ state' \in [Txns -> TransactionState]
          /\ audit' \in [Txns -> SUBSET (TransactionState \X TransactionState)]
      <3>1. "PAYMENT_PENDING" \in TransactionState
        BY DEF TransactionState
      <3> QED
        BY <1>7, <2>1, <3>1, MoveTypes DEF RecordOrder, Stay, TypeOK, StoreTypeOK
    <2>3. attempt' \in [Txns -> AttemptRecord \cup {None}]
      <3>1. attempt[call[r].txn] \in AttemptRecord
        BY <1>7, <2>1 DEF RecordOrder, RequestsAreOwners, TypeOK, StoreTypeOK
      <3>2. [attempt[call[r].txn] EXCEPT !.order = r, !.payment = None,
                !.orderState = "created", !.payState = None] \in AttemptRecord
        BY <3>1 DEF AttemptRecord, Orders, OrderStates
      <3> QED
        BY <1>7, <2>1, <3>2 DEF RecordOrder, SaveObservation, TypeOK, StoreTypeOK
    <2>4. claims' \in [Scopes -> ClaimRecord \cup {None}]
      BY <1>7, <2>1 DEF RecordOrder, TypeOK, StoreTypeOK
    <2>5. ExecTypeOK'
      BY <1>7, <2>1 DEF RecordOrder, TypeOK, ExecTypeOK
    <2> QED
      BY <1>1, <1>7, <2>2, <2>3, <2>4, <2>5 DEF RecordOrder, TypeOK, StoreTypeOK, ProviderTypeOK
  <1>8. CASE RecordUnknown(r)
    <2>1. call[r] \in Call
      BY <1>8 DEF RecordUnknown, RequestsAreOwners, TypeOK, ExecTypeOK
    <2>2. /\ state' \in [Txns -> TransactionState]
          /\ audit' \in [Txns -> SUBSET (TransactionState \X TransactionState)]
      <3>1. "UNKNOWN" \in TransactionState
        BY DEF TransactionState
      <3> QED
        BY <1>8, <2>1, <3>1, MoveTypes DEF RecordUnknown, Stay, TypeOK, StoreTypeOK
    <2>3. claims' \in [Scopes -> ClaimRecord \cup {None}]
      BY <1>8, <2>1 DEF RecordUnknown, TypeOK, StoreTypeOK
    <2>4. ExecTypeOK'
      BY <1>8, <2>1 DEF RecordUnknown, TypeOK, ExecTypeOK
    <2> QED
      BY <1>1, <1>8, <2>2, <2>3, <2>4 DEF RecordUnknown, TypeOK, StoreTypeOK, ProviderTypeOK
  <1> QED
    BY <1>2, <1>3, <1>4, <1>5, <1>6, <1>7, <1>8
    DEF ExecuteStep, ExecuteArrives, ExecuteProceeds

(* What reconciliation may save is an attempt.                             *)
LEMMA SavedReadsTypes ==
  ASSUME TypeOK, StateNeedsEvidence, StoredOrderIsOwn, PaymentsExist,
         NEW t \in Txns, state[t] = "RECONCILING"
  PROVE  /\ attempt[t] \in AttemptRecord
         /\ WithOrder(t) \subseteq {a \in AttemptRecord :
                                        a.order # None /\ order[a.order] # None
                                          /\ (a.payment # None => pay[a.payment] # None)}
         /\ SavedReads(t) \subseteq AttemptRecord
  <1>1. attempt[t] \in AttemptRecord
    BY DEF StateNeedsEvidence, TypeOK, StoreTypeOK
  <1>2. \A o \in Orders : order[o] # None => LookupOrder(o) \in OrderStates
    BY DEF LookupOrder, TypeOK, ProviderTypeOK, OrderRecord
  <1>3. ASSUME ReceiptIdentifies(t, attempt[t].id)
        PROVE  /\ attempt[t].id \in Orders
               /\ order[attempt[t].id] # None
               /\ Recovered(t) \in AttemptRecord
               /\ Recovered(t).order = attempt[t].id
               /\ Recovered(t).payment = None
    <2>1. attempt[t].id \in Orders /\ order[attempt[t].id] # None
      BY <1>3 DEF ReceiptIdentifies, OrdersForReceipt
    <2> QED
      BY <1>1, <1>2, <2>1 DEF Recovered, AttemptRecord
  <1>4. WithOrder(t) \subseteq {a \in AttemptRecord :
                                        a.order # None /\ order[a.order] # None
                                          /\ (a.payment # None => pay[a.payment] # None)}
    <2>1. CASE attempt[t].order # None
      BY <1>1, <2>1 DEF WithOrder, StoredOrderIsOwn, PaymentsExist
    <2>2. CASE attempt[t].order = None /\ ReceiptIdentifies(t, attempt[t].id)
      <3>1. WithOrder(t) = {Recovered(t)}
        BY <2>2 DEF WithOrder
      <3>2. Recovered(t).order # None
        BY <1>3, <2>2
      <3> QED
        BY <1>3, <2>2, <3>1, <3>2
    <2>3. CASE attempt[t].order = None /\ ~ReceiptIdentifies(t, attempt[t].id)
      BY <2>3 DEF WithOrder
    <2> QED
      BY <2>1, <2>2, <2>3
  <1>5. SavedReads(t) \subseteq AttemptRecord
    <2>1. ASSUME NEW a \in WithOrder(t)
          PROVE  [a EXCEPT !.orderState = LookupOrder(a.order)] \in AttemptRecord
      <3>1. a \in AttemptRecord /\ a.order \in Orders /\ order[a.order] # None
        BY <1>4 DEF AttemptRecord
      <3> QED
        BY <1>2, <3>1 DEF AttemptRecord
    <2> QED
      BY <1>1, <1>4, <2>1 DEF SavedReads
  <1> QED
    BY <1>1, <1>4, <1>5

(* A step of a reconciliation worker keeps the types of all tables.        *)
LEMMA ReconcileTypes ==
  ASSUME TypeOK, StateNeedsEvidence, StoredOrderIsOwn, PaymentsExist,
         NEW w \in Workers, ReconcileStep(w), UNCHANGED <<execVars, job>>
  PROVE  TypeOK'
  <1> USE DEF providerVars, storeVars, execVars
  <1>1. ExecTypeOK' /\ VerifyTypeOK' /\ ProviderTypeOK'
    BY DEF ReconcileStep, StartReconcile, Resolve, GiveUp, CrashReconcile,
           TypeOK, ExecTypeOK, VerifyTypeOK, ProviderTypeOK
  <1>2. ReconTypeOK'
    BY DEF ReconcileStep, StartReconcile, Resolve, GiveUp, CrashReconcile, TypeOK, ReconTypeOK
  <1>3. UNCHANGED <<claims, receipt, current>>
    BY DEF ReconcileStep, StartReconcile, Resolve, GiveUp, CrashReconcile
  <1>4. {"RECONCILING", "SUCCEEDED", "FAILED", "PAYMENT_PENDING", "UNKNOWN"} \subseteq TransactionState
    BY DEF TransactionState, Terminal
  <1>5. ASSUME NEW t \in Txns, StartReconcile(w, t)
        PROVE  TypeOK'
    BY <1>1, <1>2, <1>3, <1>4, <1>5, MoveTypes DEF StartReconcile, TypeOK, StoreTypeOK
  <1>6. ASSUME NEW t \in Txns, Resolve(w, t)
        PROVE  TypeOK'
    <2>1. PICK a \in WithOrder(t) :
            LET os == LookupOrder(a.order)
                ps == IF os = "paid" /\ a.payment # None THEN LookupPayment(a.payment) ELSE None
            IN /\ attempt' = [attempt EXCEPT ![t] =
                                [a EXCEPT !.orderState = os,
                                          !.payState = IF ps = None THEN @ ELSE ps]]
               /\ MoveTo(t, Resolution(os, ps))
      BY <1>6 DEF Resolve
    <2> DEFINE os == LookupOrder(a.order)
               ps == IF os = "paid" /\ a.payment # None THEN LookupPayment(a.payment) ELSE None
    <2>2. a \in AttemptRecord /\ a.order \in Orders /\ order[a.order] # None
            /\ (a.payment # None => pay[a.payment] # None)
      BY <1>6, SavedReadsTypes DEF Resolve, AttemptRecord
    <2>3. os \in OrderStates
      BY <2>2 DEF LookupOrder, TypeOK, ProviderTypeOK, OrderRecord
    <2>4. ps \in PaymentStates \cup {None}
      BY <2>2 DEF LookupPayment, TypeOK, ProviderTypeOK, PaymentRecord, AttemptRecord
    <2>5. Resolution(os, ps) \in TransactionState
      BY <1>4 DEF Resolution
    <2>6. attempt' \in [Txns -> AttemptRecord \cup {None}]
      <3>1. [a EXCEPT !.orderState = os, !.payState = IF ps = None THEN @ ELSE ps] \in AttemptRecord
        BY <2>2, <2>3, <2>4 DEF AttemptRecord
      <3> QED
        BY <2>1, <3>1 DEF TypeOK, StoreTypeOK
    <2> QED
      BY <1>1, <1>2, <1>3, <2>1, <2>5, <2>6, MoveTypes DEF TypeOK, StoreTypeOK
  <1>7. ASSUME NEW t \in Txns, GiveUp(w, t)
        PROVE  TypeOK'
    <2>1. attempt' \in [Txns -> AttemptRecord \cup {None}]
      BY <1>7, SavedReadsTypes DEF GiveUp, TypeOK, StoreTypeOK
    <2> QED
      BY <1>1, <1>2, <1>3, <1>4, <1>7, <2>1, MoveTypes DEF GiveUp, TypeOK, StoreTypeOK
  <1>8. CASE CrashReconcile(w)
    BY <1>1, <1>2, <1>8 DEF CrashReconcile, TypeOK, StoreTypeOK
  <1> QED
    BY <1>5, <1>6, <1>7, <1>8 DEF ReconcileStep

(* A step of a callback handler keeps the types of all tables.             *)
LEMMA CallbackTypes ==
  ASSUME TypeOK, PaymentsExist, NEW h \in Handlers, CallbackStep(h), UNCHANGED <<execVars, recon>>
  PROVE  TypeOK'
  <1> USE DEF providerVars, storeVars, execVars
  <1>1. ExecTypeOK' /\ ReconTypeOK' /\ ProviderTypeOK' /\ UNCHANGED <<claims, current>>
    BY DEF CallbackStep, BeginCheckout, IgnoreWebhook, OrphanWebhook, AcceptWebhook, ReadPayment,
           ReadOrder, Apply, FinishWebhook, AbandonJob, TypeOK, ExecTypeOK, ReconTypeOK, ProviderTypeOK
  <1>2. \A e \in Events : e[1] \in Payments /\ PayloadState(e) \in PaymentStates
    BY DEF Events, PayloadState, PaymentStates
  <1>3. job[h] # None => job[h] \in Job
    BY DEF TypeOK, VerifyTypeOK
  <1>4. ASSUME NEW e \in Events, NEW s \in ReceiptStates, SetReceipt(e, s)
        PROVE  receipt' \in [Events -> ReceiptStates \cup {None}]
    BY <1>4 DEF SetReceipt, TypeOK, StoreTypeOK
  <1>5. ASSUME NEW t \in Txns, NEW p \in Payments, BeginCheckout(h, t, p)
        PROVE  TypeOK'
    BY <1>1, <1>5 DEF BeginCheckout, NewJob, Job, TypeOK, StoreTypeOK, VerifyTypeOK
  <1>6. ASSUME NEW e \in Events, IgnoreWebhook(h, e) \/ OrphanWebhook(h, e)
        PROVE  TypeOK'
    BY <1>1, <1>4, <1>6 DEF IgnoreWebhook, OrphanWebhook, ReceiptStates, TypeOK, StoreTypeOK, VerifyTypeOK
  <1>7. ASSUME NEW e \in Events, AcceptWebhook(h, e)
        PROVE  TypeOK'
    <2>1. receipt' \in [Events -> ReceiptStates \cup {None}]
      BY <1>4, <1>7 DEF AcceptWebhook, InProgress, ReceiptStates
    <2>2. VerifyTypeOK'
      BY <1>2, <1>7 DEF AcceptWebhook, NewJob, Job, TypeOK, VerifyTypeOK
    <2> QED
      BY <1>1, <1>7, <2>1, <2>2 DEF AcceptWebhook, TypeOK, StoreTypeOK
  <1>8. CASE ReadPayment(h)
    <2>1. LookupPayment(job[h].payment) \in PaymentStates
      BY <1>3, <1>8 DEF ReadPayment, LookupPayment, PaymentsExist, Job, PaymentRecord, TypeOK, ProviderTypeOK
    <2>2. VerifyTypeOK'
      BY <1>3, <1>8, <2>1 DEF ReadPayment, Job, TypeOK, VerifyTypeOK
    <2> QED
      BY <1>1, <1>8, <2>2 DEF ReadPayment, TypeOK, StoreTypeOK
  <1>9. CASE ReadOrder(h)
    <2>1. LookupOrder(pay[job[h].payment].order) \in OrderStates
      <3>1. pay[job[h].payment] \in PaymentRecord
        BY <1>3, <1>9 DEF ReadOrder, PaymentsExist, Job, TypeOK, ProviderTypeOK
      <3>2. order[pay[job[h].payment].order] \in OrderRecord
        BY <1>3, <1>9, <3>1 DEF ReadOrder, PaymentsExist, Job, PaymentRecord, TypeOK, ProviderTypeOK
      <3> QED
        BY <3>2 DEF LookupOrder, OrderRecord
    <2>2. VerifyTypeOK'
      BY <1>3, <1>9, <2>1 DEF ReadOrder, Job, TypeOK, VerifyTypeOK
    <2> QED
      BY <1>1, <1>9, <2>2 DEF ReadOrder, TypeOK, StoreTypeOK
  <1>10. CASE Apply(h)
    <2> DEFINE t == job[h].txn
               p == job[h].payment
               o == pay[p].order
               ps == job[h].payState
               os == Present(job[h].orderState, attempt[t].orderState)
    <2>1. /\ t \in Txns /\ p \in Payments /\ ps \in PaymentStates \cup {None}
          /\ job[h].orderState \in OrderStates \cup {None}
          /\ job[h] \in Job
      BY <1>3, <1>10 DEF Apply, Job
    <2>2. attempt[t] \in AttemptRecord
      BY <1>10, <2>1 DEF Apply, AcceptsEvidence, TypeOK, StoreTypeOK
    <2>3. o \in Orders
      BY <1>10, <2>1 DEF Apply, PaymentsExist, PaymentRecord, TypeOK, ProviderTypeOK
    <2>4. os \in OrderStates \cup {None}
      BY <2>1, <2>2 DEF Present, AttemptRecord
    <2>5. attempt' \in [Txns -> AttemptRecord \cup {None}]
      <3>1. [attempt[t] EXCEPT !.order = o, !.payment = p, !.orderState = os, !.payState = ps]
              \in AttemptRecord
        BY <2>1, <2>2, <2>3, <2>4 DEF AttemptRecord
      <3>2. UNCHANGED attempt \/ SaveObservation(t, o, p, os, ps)
        BY <1>10 DEF Apply
      <3> QED
        BY <2>1, <3>1, <3>2 DEF SaveObservation, TypeOK, StoreTypeOK
    <2>6. /\ state' \in [Txns -> TransactionState]
          /\ audit' \in [Txns -> SUBSET (TransactionState \X TransactionState)]
      <3>1. {"VERIFYING", "SUCCEEDED"} \subseteq TransactionState
        BY DEF TransactionState, Terminal
      <3>2. Stay \/ Advance(t, os, ps)
        BY <1>10 DEF Apply
      <3>3. \/ Stay \/ MoveVia(t, "VERIFYING", "SUCCEEDED")
            \/ MoveTo(t, "VERIFYING") \/ MoveTo(t, "SUCCEEDED")
        BY <3>2 DEF Advance
      <3> QED
        BY <2>1, <3>1, <3>3, MoveTypes, MoveViaTypes DEF Stay, TypeOK, StoreTypeOK
    <2>7. VerifyTypeOK'
      BY <1>10, <2>1 DEF Apply, Applied, Job, TypeOK, VerifyTypeOK
    <2> QED
      BY <1>1, <1>10, <2>5, <2>6, <2>7 DEF Apply, TypeOK, StoreTypeOK
  <1>11. CASE FinishWebhook(h)
    <2>1. ASSUME job[h].event # None PROVE TypeOK'
      BY <1>1, <1>3, <1>4, <1>11, <2>1
      DEF FinishWebhook, Job, ReceiptStates, TypeOK, StoreTypeOK, VerifyTypeOK
    <2>2. ASSUME job[h].event = None PROVE TypeOK'
      <3>1. UNCHANGED receipt
        BY <1>11, <2>2 DEF FinishWebhook, SetReceipt, TypeOK, StoreTypeOK
      <3> QED
        BY <1>1, <1>11, <3>1 DEF FinishWebhook, TypeOK, StoreTypeOK, VerifyTypeOK
    <2> QED
      BY <2>1, <2>2
  <1>12. CASE AbandonJob(h)
    BY <1>1, <1>12 DEF AbandonJob, TypeOK, StoreTypeOK, VerifyTypeOK
  <1> QED
    BY <1>5, <1>6, <1>7, <1>8, <1>9, <1>10, <1>11, <1>12 DEF CallbackStep

(* A step of Razorpay or of a paying buyer keeps the types.                *)
LEMMA ProviderTypes ==
  ASSUME TypeOK, PaymentsExist, ProviderStep, UNCHANGED <<storeVars, execVars, recon, job>>
  PROVE  TypeOK'
  <1> USE DEF storeVars, execVars
  <1>1. StoreTypeOK' /\ ExecTypeOK' /\ ReconTypeOK' /\ VerifyTypeOK'
    BY DEF TypeOK, StoreTypeOK, ExecTypeOK, ReconTypeOK, VerifyTypeOK
  <1> USE DEF TypeOK, ProviderTypeOK, OrderRecord, PaymentRecord, OrderStates, PaymentStates
  <1>2. ASSUME NEW a \in Attempts, NEW t \in Txns, AcceptOrder(a, t)
        PROVE  TypeOK'
    BY <1>1, <1>2 DEF AcceptOrder, Orders
  <1>3. ASSUME NEW p \in Payments, NEW o \in Orders, NEW m \in Amounts,
               NEW s \in {"authorized", "failed"}, StartPayment(p, o, m, s)
        PROVE  TypeOK'
    <2>1. emitted' \subseteq Events
      BY <1>3 DEF StartPayment, Events, SupportedEvents
    <2>2. order' \in [Orders -> OrderRecord \cup {None}]
      BY <1>3 DEF StartPayment
    <2>3. pay' \in [Payments -> PaymentRecord \cup {None}]
      BY <1>3 DEF StartPayment
    <2> QED
      BY <1>1, <1>3, <2>1, <2>2, <2>3 DEF StartPayment
  <1>4. ASSUME NEW p \in Payments, NEW from, NEW to \in PaymentStates,
               NEW e \in SupportedEvents \cup UnsupportedEvents, SettlePayment(p, from, to, e)
        PROVE  TypeOK'
    <2>1. emitted' \subseteq Events
      BY <1>4 DEF SettlePayment, Events
    <2>2. pay' \in [Payments -> PaymentRecord \cup {None}]
      BY <1>4 DEF SettlePayment
    <2> QED
      BY <1>1, <1>4, <2>1, <2>2 DEF SettlePayment
  <1>5. ASSUME NEW p \in Payments, CapturePayment(p) \/ FailPayment(p) \/ RefundPayment(p)
        PROVE  TypeOK'
    BY <1>4, <1>5 DEF CapturePayment, FailPayment, RefundPayment, SupportedEvents, UnsupportedEvents
  <1>6. ASSUME NEW p \in Payments, MarkOrderPaid(p)
        PROVE  TypeOK'
    <2>1. emitted' \subseteq Events
      BY <1>6 DEF MarkOrderPaid, Events, SupportedEvents
    <2>2. order' \in [Orders -> OrderRecord \cup {None}]
      BY <1>6 DEF MarkOrderPaid, PaymentsExist
    <2> QED
      BY <1>1, <1>6, <2>1, <2>2 DEF MarkOrderPaid
  <1> QED
    BY <1>2, <1>3, <1>5, <1>6 DEF ProviderStep

(* Every step keeps the types.                                             *)
LEMMA TypesStep == TypeOK /\ Ownership /\ PaymentsExist /\ [Next]_vars => TypeOK'
  <1> SUFFICES ASSUME TypeOK, Ownership, PaymentsExist, [Next]_vars
               PROVE  TypeOK'
    OBVIOUS
  <1>1. ASSUME NEW r \in Requests, ExecuteStep(r), UNCHANGED <<recon, job>>
        PROVE  TypeOK'
    BY <1>1, ExecuteTypes DEF Ownership
  <1>2. ASSUME NEW w \in Workers, ReconcileStep(w), UNCHANGED <<execVars, job>>
        PROVE  TypeOK'
    BY <1>2, ReconcileTypes DEF Ownership
  <1>3. ASSUME NEW h \in Handlers, CallbackStep(h), UNCHANGED <<execVars, recon>>
        PROVE  TypeOK'
    BY <1>3, CallbackTypes
  <1>4. CASE ProviderStep /\ UNCHANGED <<storeVars, execVars, recon, job>>
    BY <1>4, ProviderTypes
  <1>5. ASSUME NEW t \in Txns, GatesChange(t), UNCHANGED <<execVars, recon, job>>
        PROVE  TypeOK'
    BY <1>5 DEF GatesChange, execVars, providerVars, TypeOK, StoreTypeOK, ProviderTypeOK,
                ExecTypeOK, ReconTypeOK, VerifyTypeOK
  <1>6. CASE UNCHANGED vars
    BY <1>6 DEF vars, storeVars, providerVars, execVars, TypeOK, StoreTypeOK, ProviderTypeOK,
                ExecTypeOK, ReconTypeOK, VerifyTypeOK
  <1> QED
    BY <1>1, <1>2, <1>3, <1>4, <1>5, <1>6 DEF Next

------------------------------------------------------------------------------
(* Ownership.                                                              *)

(* A transaction's row moves and its attempt learns something: whoever     *)
(* does it, no order changes hands.                                        *)
LEMMA EvidenceKeepsOwners ==
  ASSUME TypeOK, WireIsOwned, OrdersAreOwned, RequestsAreOwners, AttemptsAreDistinct,
         StoredOrderIsOwn,
         NEW t \in Txns, NEW a \in AttemptRecord, attempt[t] # None,
         a.id = attempt[t].id,
         a.order # None => a.order = a.id /\ order[a.id] # None /\ order[a.id].txn = t,
         attempt' = [attempt EXCEPT ![t] = a],
         UNCHANGED <<providerVars, call>>,
         pc' \in [Requests -> Steps],
         \A r \in Requests : pc'[r] = pc[r] \/ (pc[r] # "idle" /\ pc'[r] = "done")
  PROVE  /\ WireIsOwned' /\ OrdersAreOwned' /\ RequestsAreOwners'
         /\ AttemptsAreDistinct' /\ StoredOrderIsOwn'
  <1> USE DEF providerVars
  <1>1. /\ \A u \in Txns : (attempt'[u] # None) <=> (attempt[u] # None)
        /\ \A u \in Txns : attempt[u] # None => attempt'[u].id = attempt[u].id
        /\ \A u \in Txns : attempt'[u] = IF u = t THEN a ELSE attempt[u]
    BY DEF TypeOK, StoreTypeOK
  <1>2. WireIsOwned'
    BY <1>1 DEF WireIsOwned
  <1>3. OrdersAreOwned'
    BY <1>1 DEF OrdersAreOwned
  <1>4. RequestsAreOwners'
    <2> SUFFICES ASSUME NEW r \in Requests,
                        pc'[r] \in {"dispatching", "posted", "ordered", "uncertain"}
                 PROVE  /\ call[r] # None
                        /\ attempt'[call[r].txn] # None
                        /\ attempt'[call[r].txn].id = r
                        /\ pc[r] = "ordered" => order[r] # None
                        /\ pc'[r] = pc[r]
      BY DEF RequestsAreOwners
    <2>1. pc'[r] = pc[r]
      OBVIOUS
    <2>2. call[r] \in Call /\ attempt[call[r].txn] # None /\ attempt[call[r].txn].id = r
            /\ (pc[r] = "ordered" => order[r] # None)
      BY <2>1 DEF RequestsAreOwners, TypeOK, ExecTypeOK
    <2> QED
      BY <1>1, <2>1, <2>2 DEF Call
  <1>5. AttemptsAreDistinct'
    <2>1. \A u \in Txns : attempt[u] # None => attempt[u].id \in Requests
      BY DEF TypeOK, StoreTypeOK, AttemptRecord
    <2>2. \A u \in Txns : attempt'[u] # None => pc'[attempt'[u].id] # "idle"
      BY <1>1, <2>1 DEF AttemptsAreDistinct
    <2>3. \A u, v \in Txns :
             attempt'[u] # None /\ attempt'[v] # None /\ attempt'[u].id = attempt'[v].id => u = v
      BY <1>1 DEF AttemptsAreDistinct
    <2> QED
      BY <2>2, <2>3 DEF AttemptsAreDistinct
  <1>6. StoredOrderIsOwn'
    BY <1>1 DEF StoredOrderIsOwn
  <1> QED
    BY <1>2, <1>3, <1>4, <1>5, <1>6

(* Two transactions never share a receipt or an attempt, so the order that *)
(* a request made carries the transaction the request is about.            *)
LEMMA OwnOrder ==
  ASSUME TypeOK, Ownership, NEW r \in Requests, NEW t \in Txns,
         attempt[t] # None, attempt[t].id = r, order[r] # None
  PROVE  order[r].txn = t
  BY DEF Ownership, OrdersAreOwned, AttemptsAreDistinct

(* A step of an execute call keeps the owners.                             *)
LEMMA ExecuteOwnership ==
  ASSUME TypeOK, Ownership, TypeOK', NEW r \in Requests, ExecuteStep(r), UNCHANGED <<recon, job>>
  PROVE  Ownership'
  <1> USE DEF providerVars, storeVars, Goto, Answer
  <1>1. ASSUME NEW c \in Call,
               Replay(r, c) \/ RefuseKeyReuse(r, c) \/ RefuseForeignBuyer(r, c)
                 \/ RefuseStale(r, c) \/ ShowStarted(r, c)
        PROVE  Ownership'
    <2>1. /\ UNCHANGED <<state, attempt, inflight, order>>
          /\ pc[r] = "idle"
          /\ pc' = [pc EXCEPT ![r] = "done"]
          /\ call' = [call EXCEPT ![r] = c]
      BY <1>1 DEF Replay, RefuseKeyReuse, RefuseForeignBuyer, RefuseStale, ShowStarted, Arrives,
                  NothingStored
    <2>2. WireIsOwned' /\ OrdersAreOwned' /\ StoredOrderIsOwn' /\ StateNeedsEvidence'
            /\ NoPaymentBeforePending'
      BY <2>1 DEF Ownership, WireIsOwned, OrdersAreOwned, StoredOrderIsOwn, StateNeedsEvidence,
                  NoPaymentBeforePending
    <2>3. RequestsAreOwners'
      BY <2>1 DEF Ownership, RequestsAreOwners, TypeOK, ExecTypeOK
    <2>4. AttemptsAreDistinct'
      BY <2>1 DEF Ownership, AttemptsAreDistinct, TypeOK, ExecTypeOK
    <2> QED
      BY <2>2, <2>3, <2>4 DEF Ownership
  <1>2. ASSUME NEW c \in Call, CommitExecuting(r, c)
        PROVE  Ownership'
    <2> DEFINE t == c.txn
    <2>1. /\ pc[r] = "idle" /\ pc' = [pc EXCEPT ![r] = "dispatching"]
          /\ call' = [call EXCEPT ![r] = c]
          /\ t \in Txns /\ attempt[t] = None
          /\ attempt' = [attempt EXCEPT ![t] = NewAttempt(r)]
          /\ state' = [state EXCEPT ![t] = "EXECUTING"]
          /\ UNCHANGED <<inflight, order>>
      BY <1>2 DEF CommitExecuting, Startable, Arrives, MoveTo, Call
    <2>2. /\ NewAttempt(r) \in AttemptRecord /\ NewAttempt(r) # None
          /\ NewAttempt(r).id = r /\ NewAttempt(r).order = None /\ NewAttempt(r).payment = None
      BY DEF NewAttempt, AttemptRecord
    <2>3. \A u \in Txns : attempt'[u] = IF u = t THEN NewAttempt(r) ELSE attempt[u]
      BY <2>1 DEF TypeOK, StoreTypeOK
    <2>4. \A u \in Txns : state'[u] = IF u = t THEN "EXECUTING" ELSE state[u]
      BY <2>1 DEF TypeOK, StoreTypeOK
    <2>5. \A q \in Requests : pc'[q] = IF q = r THEN "dispatching" ELSE pc[q]
      BY <2>1 DEF TypeOK, ExecTypeOK
    <2>6. \A q \in Requests : call'[q] = IF q = r THEN c ELSE call[q]
      BY <2>1 DEF TypeOK, ExecTypeOK
    <2>7. WireIsOwned' /\ OrdersAreOwned'
      BY <2>1, <2>3 DEF Ownership, WireIsOwned, OrdersAreOwned
    <2>8. RequestsAreOwners'
      <3> SUFFICES ASSUME NEW q \in Requests,
                          pc'[q] \in {"dispatching", "posted", "ordered", "uncertain"}
                   PROVE  /\ call'[q] # None
                          /\ attempt'[call'[q].txn] # None
                          /\ attempt'[call'[q].txn].id = q
                          /\ pc'[q] = "ordered" => order'[q] # None
        BY DEF RequestsAreOwners
      <3>1. CASE q = r
        BY <2>1, <2>2, <2>3, <2>5, <2>6, <3>1
      <3>2. CASE q # r
        <4>1. call[q] \in Call /\ attempt[call[q].txn] # None /\ attempt[call[q].txn].id = q
                /\ (pc[q] = "ordered" => order[q] # None)
          BY <2>5, <3>2 DEF Ownership, RequestsAreOwners, TypeOK, ExecTypeOK
        <4> QED
          BY <2>1, <2>3, <2>5, <2>6, <3>2, <4>1 DEF Call
      <3> QED
        BY <3>1, <3>2
    <2>9. AttemptsAreDistinct'
      <3>1. \A u \in Txns : attempt[u] # None => attempt[u].id \in Requests /\ attempt[u].id # r
        BY <2>1 DEF Ownership, AttemptsAreDistinct, TypeOK, StoreTypeOK, AttemptRecord
      <3> QED
        BY <2>2, <2>3, <2>5, <3>1 DEF Ownership, AttemptsAreDistinct
    <2>10. StoredOrderIsOwn'
      BY <2>1, <2>2, <2>3 DEF Ownership, StoredOrderIsOwn
    <2>11. StateNeedsEvidence' /\ NoPaymentBeforePending'
      BY <2>1, <2>2, <2>3, <2>4 DEF Ownership, StateNeedsEvidence, NoPaymentBeforePending, Verifiable
    <2> QED
      BY <2>7, <2>8, <2>9, <2>10, <2>11 DEF Ownership
  <1>3. CASE Dispatch(r) \/ ReceiveOrder(r) \/ DispatchFails(r) \/ CrashExecute(r)
    <2>1. UNCHANGED <<state, attempt, order, call>> /\ pc[r] # "idle"
            /\ \A q \in Requests : q # r => pc'[q] = pc[q]
      BY <1>3 DEF Dispatch, ReceiveOrder, DispatchFails, CrashExecute, TypeOK, ExecTypeOK
    <2>2. pc'[r] # "idle" /\ (pc'[r] = "ordered" => order[r] # None)
            /\ pc[r] \in {"dispatching", "posted", "ordered", "uncertain"}
      BY <1>3 DEF Dispatch, ReceiveOrder, DispatchFails, CrashExecute, TypeOK, ExecTypeOK
    <2>3. WireIsOwned'
      <3>1. CASE Dispatch(r)
        BY <3>1, <2>1, <2>2 DEF Dispatch, SendOrder, Ownership, WireIsOwned, RequestsAreOwners
      <3>2. CASE UNCHANGED inflight
        BY <3>2, <2>1 DEF Ownership, WireIsOwned
      <3> QED
        BY <1>3, <3>1, <3>2 DEF ReceiveOrder, DispatchFails, CrashExecute
    <2>4. RequestsAreOwners'
      BY <2>1, <2>2 DEF Ownership, RequestsAreOwners
    <2>5. AttemptsAreDistinct'
      BY <2>1, <2>2 DEF Ownership, AttemptsAreDistinct, TypeOK, StoreTypeOK, AttemptRecord
    <2> QED
      BY <2>1, <2>3, <2>4, <2>5 DEF Ownership, OrdersAreOwned, StoredOrderIsOwn, StateNeedsEvidence,
                                    NoPaymentBeforePending
  <1>4. CASE RecordOrder(r)
    <2> DEFINE t == call[r].txn
               a == [attempt[t] EXCEPT !.order = r, !.payment = None, !.orderState = "created",
                                       !.payState = None]
    <2>1. /\ pc[r] = "ordered" /\ call[r] \in Call /\ t \in Txns
          /\ attempt[t] \in AttemptRecord /\ attempt[t].id = r /\ order[r] # None
      BY <1>4 DEF RecordOrder, Ownership, RequestsAreOwners, TypeOK, ExecTypeOK, StoreTypeOK, Call
    <2>2. UNCHANGED <<providerVars, call>> /\ pc' = [pc EXCEPT ![r] = "done"]
      BY <1>4 DEF RecordOrder
    <2>3. \A q \in Requests : pc'[q] = pc[q] \/ (pc[q] # "idle" /\ pc'[q] = "done")
      BY <2>1, <2>2 DEF TypeOK, ExecTypeOK
    <2>4. a \in AttemptRecord /\ a.id = attempt[t].id /\ a.order = a.id /\ a.payment = None
            /\ a.order # None
      BY <2>1 DEF AttemptRecord, Orders, OrderStates
    <2>5. order[r].txn = t
      BY <2>1, OwnOrder
    <2>6. CASE StillExecuting(t) /\ SaveObservation(t, r, None, "created", None)
                 /\ MoveTo(t, "PAYMENT_PENDING")
      <3>1. attempt' = [attempt EXCEPT ![t] = a] /\ state' = [state EXCEPT ![t] = "PAYMENT_PENDING"]
        BY <2>6 DEF SaveObservation, MoveTo
      <3>2. WireIsOwned' /\ OrdersAreOwned' /\ RequestsAreOwners' /\ AttemptsAreDistinct'
              /\ StoredOrderIsOwn'
        <4>1. WireIsOwned /\ OrdersAreOwned /\ RequestsAreOwners /\ AttemptsAreDistinct
                /\ StoredOrderIsOwn /\ pc' \in [Requests -> Steps] /\ attempt[t] # None
          BY <2>1 DEF Ownership, TypeOK, ExecTypeOK
        <4>2. a.order # None => a.order = a.id /\ order[a.id] # None /\ order[a.id].txn = t
          BY <2>1, <2>4, <2>5
        <4> HIDE DEF a
        <4> QED
          BY <2>1, <2>2, <2>3, <2>4, <3>1, <4>1, <4>2, EvidenceKeepsOwners
      <3>3. /\ \A u \in Txns : attempt'[u] = IF u = t THEN a ELSE attempt[u]
            /\ \A u \in Txns : state'[u] = IF u = t THEN "PAYMENT_PENDING" ELSE state[u]
        BY <3>1 DEF TypeOK, StoreTypeOK
      <3>4. StateNeedsEvidence' /\ NoPaymentBeforePending'
        BY <2>4, <3>3 DEF Ownership, StateNeedsEvidence, NoPaymentBeforePending, Verifiable
      <3> QED
        BY <3>2, <3>4 DEF Ownership
    <2>7. CASE UNCHANGED <<state, attempt>>
      <3>1. RequestsAreOwners' /\ AttemptsAreDistinct'
        BY <2>1, <2>2, <2>7 DEF Ownership, RequestsAreOwners, AttemptsAreDistinct, TypeOK,
                                ExecTypeOK, StoreTypeOK, AttemptRecord
      <3> QED
        BY <2>2, <2>7, <3>1 DEF Ownership, WireIsOwned, OrdersAreOwned, StoredOrderIsOwn,
                                StateNeedsEvidence, NoPaymentBeforePending
    <2> QED
      BY <1>4, <2>6, <2>7 DEF RecordOrder, Stay
  <1>5. CASE RecordUnknown(r)
    <2> DEFINE t == call[r].txn
    <2>1. /\ pc[r] = "uncertain" /\ call[r] \in Call /\ t \in Txns
          /\ attempt[t] \in AttemptRecord
      BY <1>5 DEF RecordUnknown, Ownership, RequestsAreOwners, TypeOK, ExecTypeOK, StoreTypeOK, Call
    <2>2. UNCHANGED <<providerVars, call, attempt>> /\ pc' = [pc EXCEPT ![r] = "done"]
      BY <1>5 DEF RecordUnknown
    <2>3. RequestsAreOwners' /\ AttemptsAreDistinct'
      BY <2>1, <2>2 DEF Ownership, RequestsAreOwners, AttemptsAreDistinct, TypeOK, ExecTypeOK,
                        StoreTypeOK, AttemptRecord
    <2>4. StateNeedsEvidence' /\ NoPaymentBeforePending'
      <3>1. \/ UNCHANGED state
            \/ state[t] = "EXECUTING" /\ state' = [state EXCEPT ![t] = "UNKNOWN"]
        BY <1>5 DEF RecordUnknown, Stay, StillExecuting, MoveTo
      <3> QED
        BY <2>1, <2>2, <3>1 DEF Ownership, StateNeedsEvidence, NoPaymentBeforePending, Verifiable,
                                TypeOK, StoreTypeOK
    <2> QED
      BY <2>2, <2>3, <2>4 DEF Ownership, WireIsOwned, OrdersAreOwned, StoredOrderIsOwn
  <1> QED
    BY <1>1, <1>2, <1>3, <1>4, <1>5 DEF ExecuteStep, ExecuteArrives, ExecuteProceeds

(* What reconciliation learns belongs to the transaction it asked about.   *)
LEMMA SavedReadsOwn ==
  ASSUME TypeOK, Ownership, NEW t \in Txns, state[t] = "RECONCILING",
         NEW a \in SavedReads(t) \cup WithOrder(t)
  PROVE  /\ attempt[t] # None
         /\ a.id = attempt[t].id
         /\ a.payment = None
         /\ a.order # None => a.order = a.id /\ order[a.id] # None /\ order[a.id].txn = t
  <1>1. attempt[t] \in AttemptRecord /\ attempt[t].payment = None
    BY DEF Ownership, StateNeedsEvidence, NoPaymentBeforePending, Verifiable, TypeOK, StoreTypeOK
  <1>2. attempt[t].order # None =>
          attempt[t].order = attempt[t].id /\ order[attempt[t].id] # None
            /\ order[attempt[t].id].txn = t
    BY <1>1 DEF Ownership, StoredOrderIsOwn
  <1>3. ReceiptIdentifies(t, attempt[t].id) =>
          order[attempt[t].id] # None /\ order[attempt[t].id].txn = t
    BY DEF ReceiptIdentifies, OrdersForReceipt
  <1>4. Recovered(t).id = attempt[t].id /\ Recovered(t).payment = None
          /\ Recovered(t).order = attempt[t].id
    BY <1>1 DEF Recovered, AttemptRecord
  <1>5. ASSUME NEW x \in WithOrder(t)
        PROVE  \/ x = attempt[t]
               \/ x = Recovered(t) /\ ReceiptIdentifies(t, attempt[t].id)
    BY <1>5 DEF WithOrder
  <1>6. a = attempt[t] \/ (a = Recovered(t) /\ ReceiptIdentifies(t, attempt[t].id))
    <2>1. \A x \in WithOrder(t) : x.payment = None
      BY <1>1, <1>4, <1>5
    <2> QED
      BY <1>5, <2>1 DEF SavedReads
  <1> QED
    BY <1>1, <1>2, <1>3, <1>4, <1>6

(* A reconciliation that learned something leaves its transaction pending, *)
(* with its own order's state and no payment: it cannot settle or fail it. *)
LEMMA ResolveOnlyPends ==
  ASSUME TypeOK, Ownership, PaymentsExist, NEW w \in Workers, NEW t \in Txns, Resolve(w, t)
  PROVE  \E a \in AttemptRecord :
            /\ attempt' = [attempt EXCEPT ![t] = a]
            /\ MoveTo(t, "PAYMENT_PENDING")
            /\ a.id = attempt[t].id /\ a.payment = None
            /\ a.order # None /\ a.order = a.id /\ order[a.id] # None /\ order[a.id].txn = t
            /\ a.orderState = LookupOrder(a.order)
  <1>1. PICK a \in WithOrder(t) :
          LET os == LookupOrder(a.order)
              ps == IF os = "paid" /\ a.payment # None THEN LookupPayment(a.payment) ELSE None
          IN /\ attempt' = [attempt EXCEPT ![t] =
                              [a EXCEPT !.orderState = os,
                                        !.payState = IF ps = None THEN @ ELSE ps]]
             /\ MoveTo(t, Resolution(os, ps))
    BY DEF Resolve
  <1>2. state[t] = "RECONCILING"
    BY DEF Resolve
  <1>3. /\ attempt[t] # None /\ a.id = attempt[t].id /\ a.payment = None
        /\ a.order # None => a.order = a.id /\ order[a.id] # None /\ order[a.id].txn = t
    BY <1>2, SavedReadsOwn
  <1>4. a \in AttemptRecord /\ a.order # None
    BY <1>2, SavedReadsTypes DEF Ownership
  <1> DEFINE os == LookupOrder(a.order)
             b == [a EXCEPT !.orderState = os]
  <1>5. attempt' = [attempt EXCEPT ![t] = b] /\ MoveTo(t, "PAYMENT_PENDING")
    <2>1. [a EXCEPT !.orderState = os, !.payState = @] = b
      BY <1>4 DEF AttemptRecord
    <2>2. Resolution(os, None) = "PAYMENT_PENDING"
      <3>1. None # "captured" /\ None \notin {"failed", "refunded"}
        BY DEF PaymentStates
      <3> QED
        BY <3>1 DEF Resolution
    <2> QED
      BY <1>1, <1>3, <2>1, <2>2
  <1>6. os \in OrderStates
    BY <1>3, <1>4 DEF LookupOrder, TypeOK, ProviderTypeOK, OrderRecord, AttemptRecord
  <1>7. /\ b \in AttemptRecord /\ b.id = a.id /\ b.order = a.order /\ b.payment = a.payment
        /\ b.orderState = LookupOrder(b.order)
    BY <1>4, <1>6 DEF AttemptRecord
  <1> HIDE DEF b
  <1> QED
    BY <1>3, <1>4, <1>5, <1>7

(* A step of a reconciliation worker keeps the owners.                     *)
LEMMA ReconcileOwnership ==
  ASSUME TypeOK, Ownership, PaymentsExist, TypeOK',
         NEW w \in Workers, ReconcileStep(w), UNCHANGED <<execVars, job>>
  PROVE  Ownership'
  <1> USE DEF providerVars, storeVars, execVars
  <1>1. UNCHANGED <<call, pc, inflight, order, providerVars>>
    BY DEF ReconcileStep, StartReconcile, Resolve, GiveUp, CrashReconcile
  <1>2. ASSUME NEW t \in Txns, StartReconcile(w, t)
        PROVE  Ownership'
    <2>1. /\ UNCHANGED attempt
          /\ state[t] \in Reconcilable
          /\ \A u \in Txns : state'[u] = IF u = t THEN "RECONCILING" ELSE state[u]
      BY <1>2 DEF StartReconcile, MoveTo, TypeOK, StoreTypeOK
    <2>2. StateNeedsEvidence' /\ NoPaymentBeforePending'
      BY <2>1 DEF Ownership, StateNeedsEvidence, NoPaymentBeforePending, Verifiable, Reconcilable
    <2> QED
      BY <1>1, <2>1, <2>2 DEF Ownership, WireIsOwned, OrdersAreOwned, RequestsAreOwners,
                              AttemptsAreDistinct, StoredOrderIsOwn
  <1>3. ASSUME NEW t \in Txns, NEW a \in AttemptRecord, NEW new,
               state[t] = "RECONCILING", attempt[t] # None, a.id = attempt[t].id, a.payment = None,
               a.order # None => a.order = a.id /\ order[a.id] # None /\ order[a.id].txn = t,
               attempt' = [attempt EXCEPT ![t] = a], MoveTo(t, new),
               new = "UNKNOWN" \/ (new = "PAYMENT_PENDING" /\ a.order # None)
        PROVE  Ownership'
    <2>1. WireIsOwned' /\ OrdersAreOwned' /\ RequestsAreOwners' /\ AttemptsAreDistinct'
            /\ StoredOrderIsOwn'
      <3>1. pc' \in [Requests -> Steps] /\ \A r \in Requests : pc'[r] = pc[r]
        BY <1>1 DEF TypeOK, ExecTypeOK
      <3> QED
        BY <1>1, <1>3, <3>1, EvidenceKeepsOwners DEF Ownership
    <2>2. /\ \A u \in Txns : attempt'[u] = IF u = t THEN a ELSE attempt[u]
          /\ \A u \in Txns : state'[u] = IF u = t THEN new ELSE state[u]
      BY <1>3 DEF MoveTo, TypeOK, StoreTypeOK
    <2>3. StateNeedsEvidence' /\ NoPaymentBeforePending'
      BY <1>3, <2>2 DEF Ownership, StateNeedsEvidence, NoPaymentBeforePending, Verifiable
    <2> QED
      BY <2>1, <2>3 DEF Ownership
  <1>4. ASSUME NEW t \in Txns, Resolve(w, t)
        PROVE  Ownership'
    <2>1. state[t] = "RECONCILING" /\ attempt[t] # None
      BY <1>4 DEF Resolve, Ownership, StateNeedsEvidence
    <2> QED
      BY <1>3, <1>4, <2>1, ResolveOnlyPends
  <1>5. ASSUME NEW t \in Txns, GiveUp(w, t)
        PROVE  Ownership'
    <2>1. PICK a \in SavedReads(t) : attempt' = [attempt EXCEPT ![t] = a]
      BY <1>5 DEF GiveUp
    <2>2. state[t] = "RECONCILING" /\ MoveTo(t, "UNKNOWN")
      BY <1>5 DEF GiveUp
    <2>3. a \in AttemptRecord
      BY <2>2, SavedReadsTypes DEF Ownership
    <2>4. /\ attempt[t] # None /\ a.id = attempt[t].id /\ a.payment = None
          /\ a.order # None => a.order = a.id /\ order[a.id] # None /\ order[a.id].txn = t
      BY <2>2, SavedReadsOwn
    <2> QED
      BY <1>3, <2>1, <2>2, <2>3, <2>4
  <1>6. CASE CrashReconcile(w)
    BY <1>1, <1>6 DEF CrashReconcile, Ownership, WireIsOwned, OrdersAreOwned, RequestsAreOwners,
                      AttemptsAreDistinct, StoredOrderIsOwn, StateNeedsEvidence, NoPaymentBeforePending
  <1> QED
    BY <1>2, <1>4, <1>5, <1>6 DEF ReconcileStep

(* A step of a callback handler keeps the owners.                          *)
LEMMA CallbackOwnership ==
  ASSUME TypeOK, Ownership, PaymentsExist, TypeOK',
         NEW h \in Handlers, CallbackStep(h), UNCHANGED <<execVars, recon>>
  PROVE  Ownership'
  <1> USE DEF providerVars, storeVars, execVars
  <1>1. UNCHANGED <<call, pc, inflight, order, providerVars>>
    BY DEF CallbackStep, BeginCheckout, IgnoreWebhook, OrphanWebhook, AcceptWebhook, ReadPayment,
           ReadOrder, Apply, FinishWebhook, AbandonJob
  <1>2. CASE UNCHANGED <<state, attempt>>
    BY <1>1, <1>2 DEF Ownership, WireIsOwned, OrdersAreOwned, RequestsAreOwners, AttemptsAreDistinct,
                      StoredOrderIsOwn, StateNeedsEvidence, NoPaymentBeforePending
  <1>3. CASE Apply(h)
    <2> DEFINE t == job[h].txn
               p == job[h].payment
               o == pay[p].order
               ps == job[h].payState
               os == Present(job[h].orderState, attempt[t].orderState)
               a == [attempt[t] EXCEPT !.order = o, !.payment = p, !.orderState = os, !.payState = ps]
    <2>1. /\ t \in Txns /\ state[t] \in Verifiable
          /\ attempt[t] \in AttemptRecord /\ attempt[t].order = o
      BY <1>3 DEF Apply, AcceptsEvidence, Job, TypeOK, StoreTypeOK, VerifyTypeOK
    <2>2. CASE SaveObservation(t, o, p, os, ps) /\ Advance(t, os, ps)
      <3>1. attempt' = [attempt EXCEPT ![t] = a]
        BY <2>2 DEF SaveObservation
      <3>2. a \in AttemptRecord
        <4>1. attempt'[t] = a
          BY <2>1, <3>1 DEF TypeOK, StoreTypeOK
        <4>2. attempt'[t] \in AttemptRecord \cup {None}
          BY <2>1 DEF TypeOK, StoreTypeOK
        <4>3. p \in Payments /\ ps \in PaymentStates \cup {None} /\ o \in Orders
              /\ os \in OrderStates \cup {None}
          BY <1>3, <2>1 DEF Apply, Job, Present, PaymentsExist, PaymentRecord, AttemptRecord,
                            TypeOK, ProviderTypeOK, VerifyTypeOK
        <4> QED
          BY <2>1, <4>3 DEF AttemptRecord
      <3>3. a.id = attempt[t].id /\ a.order = attempt[t].order
        BY <2>1 DEF AttemptRecord
      <3>4. attempt[t].order # None => attempt[t].order = attempt[t].id /\ order[attempt[t].id] # None
                                         /\ order[attempt[t].id].txn = t
        BY <2>1 DEF Ownership, StoredOrderIsOwn
      <3>5. WireIsOwned' /\ OrdersAreOwned' /\ RequestsAreOwners' /\ AttemptsAreDistinct'
              /\ StoredOrderIsOwn'
        <4>1. pc' \in [Requests -> Steps] /\ \A r \in Requests : pc'[r] = pc[r]
          BY <1>1 DEF TypeOK, ExecTypeOK
        <4>2. attempt[t] # None
          BY <2>1
        <4> QED
          BY <1>1, <2>1, <3>1, <3>2, <3>3, <3>4, <4>1, <4>2, EvidenceKeepsOwners DEF Ownership
      <3>6. /\ \A u \in Txns : attempt'[u] = IF u = t THEN a ELSE attempt[u]
            /\ \A u \in Txns : u # t => state'[u] = state[u]
            /\ state'[t] \in Verifiable
        <4>1. \/ Stay \/ MoveVia(t, "VERIFYING", "SUCCEEDED")
              \/ MoveTo(t, "VERIFYING") \/ MoveTo(t, "SUCCEEDED")
          BY <2>2 DEF Advance
        <4> QED
          BY <2>1, <3>1, <4>1 DEF Stay, MoveVia, MoveTo, Verifiable, TypeOK, StoreTypeOK
      <3>7. a.order # None
        BY <2>1, <3>3 DEF Ownership, StateNeedsEvidence
      <3>8. StateNeedsEvidence' /\ NoPaymentBeforePending'
        <4>1. a # None
          BY <3>2
        <4> HIDE DEF a
        <4> QED
          BY <3>6, <3>7, <4>1 DEF Ownership, StateNeedsEvidence, NoPaymentBeforePending
      <3> QED
        BY <3>5, <3>8 DEF Ownership
    <2> QED
      BY <1>2, <1>3, <2>2 DEF Apply, Stay
  <1> QED
    BY <1>2, <1>3 DEF CallbackStep, BeginCheckout, IgnoreWebhook, OrphanWebhook, AcceptWebhook,
                      ReadPayment, ReadOrder, FinishWebhook, AbandonJob

(* Razorpay makes orders of owned POSTs only.                              *)
LEMMA ProviderOwnership ==
  ASSUME TypeOK, Ownership, PaymentsExist, TypeOK',
         ProviderStep, UNCHANGED <<storeVars, execVars, recon, job>>
  PROVE  Ownership'
  <1> USE DEF storeVars, execVars
  <1>a. ASSUME NEW b \in Attempts, NEW t \in Txns, AcceptOrder(b, t)
        PROVE  /\ \A a \in Attempts : order'[a] = IF a = b THEN [txn |-> t, status |-> "created"]
                                                         ELSE order[a]
               /\ order[b] = None /\ <<b, t>> \in inflight
    BY <1>a DEF AcceptOrder, Orders, TypeOK, ProviderTypeOK
  <1>b. ASSUME ~\E b \in Attempts, t \in Txns : AcceptOrder(b, t)
        PROVE  \/ UNCHANGED order
               \/ \E o \in Orders, s \in OrderStates :
                    order[o] # None /\ order' = [order EXCEPT ![o] = [@ EXCEPT !.status = s]]
    <2>1. ASSUME NEW p \in Payments, NEW o \in Orders, NEW m \in Amounts,
                 NEW s \in {"authorized", "failed"}, StartPayment(p, o, m, s)
          PROVE  order[o] # None /\ order' = [order EXCEPT ![o] = [@ EXCEPT !.status = "attempted"]]
      BY <2>1 DEF StartPayment
    <2>2. ASSUME NEW p \in Payments, MarkOrderPaid(p)
          PROVE  /\ pay[p].order \in Orders /\ order[pay[p].order] # None
                 /\ order' = [order EXCEPT ![pay[p].order] = [@ EXCEPT !.status = "paid"]]
      BY <2>2 DEF MarkOrderPaid, PaymentsExist, PaymentRecord, TypeOK, ProviderTypeOK
    <2>3. ASSUME NEW p \in Payments, CapturePayment(p) \/ FailPayment(p) \/ RefundPayment(p)
          PROVE  UNCHANGED order
      BY <2>3 DEF CapturePayment, FailPayment, RefundPayment, SettlePayment
    <2>4. {"attempted", "paid"} \subseteq OrderStates
      BY DEF OrderStates
    <2>5. CASE \E p \in Payments, m \in Amounts, s \in {"authorized", "failed"} :
                 \E o \in {x \in Orders : x = ForeignOrder \/ Payable(x)} : StartPayment(p, o, m, s)
      <3>1. PICK p \in Payments, m \in Amounts, s \in {"authorized", "failed"} :
                 \E o \in {x \in Orders : x = ForeignOrder \/ Payable(x)} : StartPayment(p, o, m, s)
        BY <2>5
      <3>2. PICK o \in Orders : StartPayment(p, o, m, s)
        BY <3>1
      <3> QED
        BY <2>1, <2>4, <3>2
    <2>6. CASE \E p \in Payments :
                 CapturePayment(p) \/ FailPayment(p) \/ RefundPayment(p) \/ MarkOrderPaid(p)
      <3>1. PICK p \in Payments :
                 CapturePayment(p) \/ FailPayment(p) \/ RefundPayment(p) \/ MarkOrderPaid(p)
        BY <2>6
      <3> QED
        BY <2>2, <2>3, <2>4, <3>1
    <2> QED
      BY <1>b, <2>5, <2>6 DEF ProviderStep
  <1>c. ASSUME NEW o \in Orders, NEW s \in OrderStates, order[o] # None,
               order' = [order EXCEPT ![o] = [@ EXCEPT !.status = s]]
        PROVE  \A a \in Attempts : /\ (order'[a] # None) <=> (order[a] # None)
                                   /\ order[a] # None => order'[a].txn = order[a].txn
    BY <1>c DEF Orders, OrderRecord, TypeOK, ProviderTypeOK
  <1>1. \A a \in Attempts : order[a] # None => order'[a] # None /\ order'[a].txn = order[a].txn
    BY <1>a, <1>b, <1>c DEF OrderRecord, OrderStates
  <1>2. inflight' \subseteq inflight
    BY DEF ProviderStep, AcceptOrder, StartPayment, CapturePayment, FailPayment, RefundPayment,
           SettlePayment, MarkOrderPaid
  <1>3. \A a \in Attempts : order[a] = None /\ order'[a] # None =>
            order'[a].txn \in Txns /\ <<a, order'[a].txn>> \in inflight
    <2>1. CASE \E b \in Attempts, t \in Txns : AcceptOrder(b, t)
      <3>1. PICK b \in Attempts, t \in Txns : AcceptOrder(b, t)
        BY <2>1
      <3>2. /\ \A a \in Attempts : order'[a] = IF a = b THEN [txn |-> t, status |-> "created"]
                                                         ELSE order[a]
            /\ <<b, t>> \in inflight
        BY <1>a, <3>1
      <3> QED
        BY <3>2
    <2>2. CASE ~\E b \in Attempts, t \in Txns : AcceptOrder(b, t)
      <3>1. CASE UNCHANGED order
        BY <3>1
      <3>2. ASSUME NEW o \in Orders, NEW s \in OrderStates, order[o] # None,
                   order' = [order EXCEPT ![o] = [@ EXCEPT !.status = s]]
            PROVE  \A a \in Attempts : (order'[a] # None) <=> (order[a] # None)
        BY <1>c, <3>2
      <3> QED
        BY <1>b, <2>2, <3>1, <3>2
    <2> QED
      BY <2>1, <2>2
  <1>4. WireIsOwned'
    BY <1>2 DEF Ownership, WireIsOwned
  <1>5. OrdersAreOwned'
    BY <1>1, <1>3 DEF Ownership, OrdersAreOwned, WireIsOwned
  <1>6. StoredOrderIsOwn' /\ RequestsAreOwners'
    <2>1. \A t \in Txns : attempt[t] # None => attempt[t].id \in Attempts
      BY DEF TypeOK, StoreTypeOK, AttemptRecord
    <2> QED
      BY <1>1, <2>1 DEF Ownership, StoredOrderIsOwn, RequestsAreOwners
  <1> QED
    BY <1>4, <1>5, <1>6 DEF Ownership, AttemptsAreDistinct, StateNeedsEvidence, NoPaymentBeforePending

(* Every step keeps the owners.                                            *)
LEMMA OwnershipStep == TypeOK /\ Ownership /\ PaymentsExist /\ [Next]_vars => Ownership'
  <1> SUFFICES ASSUME TypeOK, Ownership, PaymentsExist, [Next]_vars, TypeOK'
               PROVE  Ownership'
    BY TypesStep
  <1>1. ASSUME NEW r \in Requests, ExecuteStep(r), UNCHANGED <<recon, job>>
        PROVE  Ownership'
    BY <1>1, ExecuteOwnership
  <1>2. ASSUME NEW w \in Workers, ReconcileStep(w), UNCHANGED <<execVars, job>>
        PROVE  Ownership'
    BY <1>2, ReconcileOwnership
  <1>3. ASSUME NEW h \in Handlers, CallbackStep(h), UNCHANGED <<execVars, recon>>
        PROVE  Ownership'
    BY <1>3, CallbackOwnership
  <1>4. CASE ProviderStep /\ UNCHANGED <<storeVars, execVars, recon, job>>
    BY <1>4, ProviderOwnership
  <1>5. CASE UNCHANGED <<state, attempt, inflight, order, pc, call>>
    BY <1>5 DEF Ownership, WireIsOwned, OrdersAreOwned, RequestsAreOwners, AttemptsAreDistinct,
                StoredOrderIsOwn, StateNeedsEvidence, NoPaymentBeforePending
  <1>6. ASSUME NEW t \in Txns, GatesChange(t), UNCHANGED <<execVars, recon, job>>
        PROVE  Ownership'
    BY <1>5, <1>6 DEF GatesChange, execVars, providerVars
  <1> QED
    BY <1>1, <1>2, <1>3, <1>4, <1>5, <1>6 DEF Next, vars, storeVars, providerVars, execVars

------------------------------------------------------------------------------
(* Evidence.                                                               *)

(* What a stored attempt, a settled transaction and a handler's evidence   *)
(* owe to the provider's state.                                            *)
AttemptHolds(t) ==
    attempt[t] # None =>
        /\ attempt[t].payment # None => pay[attempt[t].payment] # None
        /\ attempt[t].orderState = "paid" =>
              attempt[t].order # None /\ order[attempt[t].order].status = "paid"

SettlementHolds(t) ==
    state[t] = "SUCCEEDED" =>
        /\ attempt[t].payment \in CapturedFor(t)
        /\ order[attempt[t].order].status = "paid"
        /\ attempt[t].orderState = "paid"
        /\ attempt[t].payState = "captured"

JobHolds(h) ==
    job[h] # None =>
        /\ pay[job[h].payment] # None
        /\ job[h].orderState = "paid" => order[pay[job[h].payment].order].status = "paid"
        /\ job[h].payState = "captured" =>
              pay[job[h].payment].status \in {"captured", "refunded"}

EventsHold ==
    /\ \A p \in Payments : pay[p] # None => order[pay[p].order] # None
    /\ \A e \in emitted : pay[e[1]] # None

(* The conjuncts of the invariant, regrouped by the row they speak about.  *)
LEMMA EvidenceByRow ==
  /\ (PaymentsExist /\ EvidenceIsTrue /\ SucceededIsPaid)
       <=> (/\ EventsHold
            /\ \A t \in Txns : AttemptHolds(t) /\ SettlementHolds(t)
            /\ \A h \in Handlers : JobHolds(h))
  /\ (PaymentsExist /\ EvidenceIsTrue /\ SucceededIsPaid)'
       <=> (/\ EventsHold'
            /\ \A t \in Txns : AttemptHolds(t)' /\ SettlementHolds(t)'
            /\ \A h \in Handlers : JobHolds(h)')
  <1>1. (PaymentsExist /\ EvidenceIsTrue /\ SucceededIsPaid)
          <=> (/\ EventsHold
               /\ \A t \in Txns : AttemptHolds(t) /\ SettlementHolds(t)
               /\ \A h \in Handlers : JobHolds(h))
    BY DEF PaymentsExist, EvidenceIsTrue, SucceededIsPaid, EventsHold, AttemptHolds,
           SettlementHolds, JobHolds
  <1>2. (PaymentsExist /\ EvidenceIsTrue /\ SucceededIsPaid)'
          <=> (/\ EventsHold'
               /\ \A t \in Txns : AttemptHolds(t)' /\ SettlementHolds(t)'
               /\ \A h \in Handlers : JobHolds(h)')
    BY DEF PaymentsExist, EvidenceIsTrue, SucceededIsPaid, EventsHold, AttemptHolds,
           SettlementHolds, JobHolds
  <1> QED
    BY <1>1, <1>2

(* A record whose status changes, written out.                             *)
LEMMA StatusChange ==
  /\ \A o \in OrderRecord, s \in OrderStates :
        [o EXCEPT !.status = s] = [txn |-> o.txn, status |-> s]
  /\ \A p \in PaymentRecord, s \in PaymentStates :
        [p EXCEPT !.status = s] = [order |-> p.order, amount |-> p.amount, status |-> s]
  <1>1. ASSUME NEW o \in OrderRecord, NEW s \in OrderStates
        PROVE  [o EXCEPT !.status = s] = [txn |-> o.txn, status |-> s]
    BY DEF OrderRecord
  <1>2. ASSUME NEW p \in PaymentRecord, NEW s \in PaymentStates
        PROVE  [p EXCEPT !.status = s] = [order |-> p.order, amount |-> p.amount, status |-> s]
    BY DEF PaymentRecord
  <1> QED
    BY <1>1, <1>2

(* The provider keeps what it has: orders stay paid, money stays captured. *)
LEMMA ProviderForgetsNothing ==
  ASSUME TypeOK, PaymentsExist, ProviderStep, UNCHANGED <<storeVars, execVars, recon, job>>
  PROVE  /\ \A o \in Orders : order[o] # None =>
               /\ order'[o] # None
               /\ order'[o].txn = order[o].txn
               /\ order[o].status = "paid" => order'[o].status = "paid"
         /\ \A p \in Payments : pay[p] # None =>
               /\ pay'[p] # None
               /\ pay'[p].order = pay[p].order
               /\ pay'[p].amount = pay[p].amount
               /\ pay[p].status \in {"captured", "refunded"} =>
                     pay'[p].status \in {"captured", "refunded"}
         /\ EventsHold'
  <1> DEFINE Kept ==
        /\ \A o \in Orders : order[o] # None =>
               /\ order'[o] # None
               /\ order'[o].txn = order[o].txn
               /\ order[o].status = "paid" => order'[o].status = "paid"
        /\ \A p \in Payments : pay[p] # None =>
               /\ pay'[p] # None
               /\ pay'[p].order = pay[p].order
               /\ pay'[p].amount = pay[p].amount
               /\ pay[p].status \in {"captured", "refunded"} =>
                     pay'[p].status \in {"captured", "refunded"}
        /\ EventsHold'
  <1>0. SUFFICES Kept
    OBVIOUS
  <1>1. /\ \A o \in Orders : order[o] # None => order[o] \in OrderRecord
        /\ \A p \in Payments : pay[p] # None => pay[p] \in PaymentRecord
        /\ DOMAIN order = Orders /\ DOMAIN pay = Payments
        /\ emitted \subseteq Events
    BY DEF TypeOK, ProviderTypeOK
  <1>2. ASSUME NEW a \in Attempts, NEW t \in Txns, AcceptOrder(a, t)
        PROVE  Kept
    <2>1. /\ a \in Orders /\ UNCHANGED <<pay, emitted>> /\ order[a] = None
          /\ order' = [order EXCEPT ![a] = [txn |-> t, status |-> "created"]]
      BY <1>2 DEF AcceptOrder, Orders
    <2>2. order'[a] # None
      BY <1>1, <2>1 DEF OrderRecord, OrderStates
    <2> QED
      BY <1>1, <2>1, <2>2 DEF EventsHold, PaymentsExist, PaymentRecord
  <1>3. ASSUME NEW p \in Payments, NEW o \in Orders, NEW m \in Amounts,
               NEW s \in {"authorized", "failed"}, StartPayment(p, o, m, s)
        PROVE  Kept
    <2>1. /\ pay[p] = None /\ order[o] # None /\ order[o].status # "paid"
          /\ pay' = [pay EXCEPT ![p] = [order |-> o, amount |-> m, status |-> s]]
          /\ order' = [order EXCEPT ![o] = [txn |-> order[o].txn, status |-> "attempted"]]
      <3>1. order[o] \in OrderRecord /\ "attempted" \in OrderStates
        BY <1>1, <1>3 DEF StartPayment, OrderStates
      <3>2. [order[o] EXCEPT !.status = "attempted"] = [txn |-> order[o].txn, status |-> "attempted"]
        BY <3>1, StatusChange
      <3> QED
        BY <1>3, <3>2 DEF StartPayment
    <2>2. [txn |-> order[o].txn, status |-> "attempted"] \in OrderRecord
          /\ [order |-> o, amount |-> m, status |-> s] \in PaymentRecord
      BY <1>1, <2>1 DEF OrderRecord, OrderStates, PaymentRecord, PaymentStates
    <2>3. order'[o] # None /\ pay'[p] # None
      BY <1>1, <2>1, <2>2
    <2>4. \A e \in emitted' : e \in emitted \/ e[1] = p
      BY <1>3 DEF StartPayment
    <2>5. EventsHold'
      <3>1. \A q \in Payments : pay'[q] # None => order'[pay'[q].order] # None
        BY <1>1, <2>1, <2>3 DEF PaymentsExist, PaymentRecord
      <3>2. \A e \in emitted' : pay'[e[1]] # None
        BY <1>1, <2>1, <2>3, <2>4 DEF PaymentsExist, Events
      <3> QED
        BY <3>1, <3>2 DEF EventsHold
    <2> QED
      BY <1>1, <2>1, <2>3, <2>5
  <1>4. ASSUME NEW p \in Payments, NEW from, NEW to \in PaymentStates, NEW e,
               SettlePayment(p, from, to, e),
               from \in {"captured", "refunded"} => to \in {"captured", "refunded"}
        PROVE  Kept
    <2>1. /\ pay[p] # None /\ pay[p].status = from /\ UNCHANGED order
          /\ pay' = [pay EXCEPT ![p] = [order |-> pay[p].order, amount |-> pay[p].amount, status |-> to]]
          /\ emitted' = emitted \cup {<<p, e>>}
      <3>1. pay[p] \in PaymentRecord
        BY <1>1, <1>4 DEF SettlePayment
      <3>2. [pay[p] EXCEPT !.status = to]
              = [order |-> pay[p].order, amount |-> pay[p].amount, status |-> to]
        BY <3>1, StatusChange
      <3> QED
        BY <1>4, <3>2 DEF SettlePayment
    <2>2. [order |-> pay[p].order, amount |-> pay[p].amount, status |-> to] \in PaymentRecord
      BY <1>1, <2>1 DEF PaymentRecord
    <2>3. pay'[p] # None
      BY <1>1, <2>1, <2>2
    <2>4. EventsHold'
      <3>1. \A q \in Payments : pay'[q] # None => order'[pay'[q].order] # None
        BY <1>1, <2>1, <2>3 DEF PaymentsExist, PaymentRecord
      <3>2. \A x \in emitted' : pay'[x[1]] # None
        BY <1>1, <2>1, <2>3 DEF PaymentsExist, Events
      <3> QED
        BY <3>1, <3>2 DEF EventsHold
    <2> QED
      BY <1>1, <1>4, <2>1, <2>3, <2>4
  <1>5. ASSUME NEW p \in Payments, MarkOrderPaid(p)
        PROVE  Kept
    <2> DEFINE o == pay[p].order
    <2>1. /\ pay[p] # None /\ o \in Orders /\ order[o] # None /\ UNCHANGED pay
          /\ order' = [order EXCEPT ![o] = [txn |-> order[o].txn, status |-> "paid"]]
          /\ emitted' = emitted \cup {<<p, "order.paid">>}
      <3>1. pay[p] # None /\ pay[p] \in PaymentRecord
        BY <1>1, <1>5 DEF MarkOrderPaid
      <3>2. o \in Orders /\ order[o] # None /\ order[o] \in OrderRecord
        BY <1>1, <3>1 DEF PaymentsExist, PaymentRecord
      <3>3. [order[o] EXCEPT !.status = "paid"] = [txn |-> order[o].txn, status |-> "paid"]
        BY <3>2, StatusChange DEF OrderStates
      <3> QED
        BY <1>5, <3>1, <3>2, <3>3 DEF MarkOrderPaid
    <2>2. [txn |-> order[o].txn, status |-> "paid"] \in OrderRecord
      BY <1>1, <2>1 DEF OrderRecord, OrderStates
    <2> HIDE DEF o
    <2>3. order'[o] # None
      BY <1>1, <2>1, <2>2
    <2>4. EventsHold'
      <3>1. \A q \in Payments : pay'[q] # None => order'[pay'[q].order] # None
        BY <1>1, <2>1, <2>3 DEF PaymentsExist, PaymentRecord
      <3>2. \A x \in emitted' : pay'[x[1]] # None
        BY <1>1, <2>1 DEF PaymentsExist, Events
      <3> QED
        BY <3>1, <3>2 DEF EventsHold
    <2> QED
      BY <1>1, <2>1, <2>3, <2>4
  <1>6. CASE \E a \in Attempts, t \in Txns : AcceptOrder(a, t)
    BY <1>2, <1>6
  <1>7. CASE \E p \in Payments, m \in Amounts, s \in {"authorized", "failed"} :
               \E o \in {x \in Orders : x = ForeignOrder \/ Payable(x)} : StartPayment(p, o, m, s)
    <2>1. PICK p \in Payments, m \in Amounts, s \in {"authorized", "failed"} :
               \E o \in {x \in Orders : x = ForeignOrder \/ Payable(x)} : StartPayment(p, o, m, s)
      BY <1>7
    <2>2. PICK o \in Orders : StartPayment(p, o, m, s)
      BY <2>1
    <2> QED
      BY <1>3, <2>2
  <1>8. ASSUME NEW p \in Payments, CapturePayment(p) \/ FailPayment(p) \/ RefundPayment(p)
        PROVE  Kept
    BY <1>4, <1>8 DEF CapturePayment, FailPayment, RefundPayment, PaymentStates
  <1> HIDE DEF Kept
  <1>9. CASE \E p \in Payments :
               CapturePayment(p) \/ FailPayment(p) \/ RefundPayment(p) \/ MarkOrderPaid(p)
    <2>1. PICK p \in Payments :
               CapturePayment(p) \/ FailPayment(p) \/ RefundPayment(p) \/ MarkOrderPaid(p)
      BY <1>9
    <2> QED
      BY <1>5, <1>8, <2>1
  <1> QED
    BY <1>6, <1>7, <1>9 DEF ProviderStep

(* The provider's own steps leave all evidence true.                       *)
LEMMA ProviderEvidence ==
  ASSUME TypeOK, Ownership, PaymentsExist, EvidenceIsTrue, SucceededIsPaid,
         ProviderStep, UNCHANGED <<storeVars, execVars, recon, job>>
  PROVE  (PaymentsExist /\ EvidenceIsTrue /\ SucceededIsPaid)'
  <1>1. /\ \A o \in Orders : order[o] # None =>
               /\ order'[o] # None
               /\ order'[o].txn = order[o].txn
               /\ order[o].status = "paid" => order'[o].status = "paid"
        /\ \A p \in Payments : pay[p] # None =>
               /\ pay'[p] # None
               /\ pay'[p].order = pay[p].order
               /\ pay'[p].amount = pay[p].amount
               /\ pay[p].status \in {"captured", "refunded"} =>
                     pay'[p].status \in {"captured", "refunded"}
        /\ EventsHold'
    BY ProviderForgetsNothing
  <1>2. /\ \A p \in Payments : pay[p] # None => pay[p].order \in Orders /\ order[pay[p].order] # None
        /\ UNCHANGED <<state, attempt, job>>
    BY DEF TypeOK, ProviderTypeOK, PaymentRecord, PaymentsExist, storeVars
  <1>3. EventsHold /\ (\A t \in Txns : AttemptHolds(t) /\ SettlementHolds(t))
          /\ (\A h \in Handlers : JobHolds(h))
    BY EvidenceByRow
  <1>4. ASSUME NEW h \in Handlers
        PROVE  JobHolds(h)'
    <2>1. job[h] # None => job[h].payment \in Payments
      BY DEF TypeOK, VerifyTypeOK, Job
    <2> QED
      BY <1>1, <1>2, <1>3, <2>1 DEF JobHolds
  <1>5. ASSUME NEW t \in Txns
        PROVE  AttemptHolds(t)'
    <2>1. attempt[t] # None =>
             /\ attempt[t].payment # None => attempt[t].payment \in Payments
             /\ attempt[t].order # None => attempt[t].order \in Orders /\ order[attempt[t].order] # None
      BY DEF TypeOK, StoreTypeOK, AttemptRecord, Ownership, StoredOrderIsOwn
    <2> QED
      BY <1>1, <1>2, <1>3, <2>1 DEF AttemptHolds
  <1>6. ASSUME NEW t \in Txns
        PROVE  SettlementHolds(t)'
    <2>1. CASE state[t] = "SUCCEEDED"
      <3>1. /\ attempt[t] # None /\ attempt[t].order # None
            /\ attempt[t].order \in Orders /\ order[attempt[t].order] # None
        BY <2>1 DEF Ownership, StateNeedsEvidence, StoredOrderIsOwn, Verifiable, TypeOK, StoreTypeOK,
                    AttemptRecord
      <3>2. attempt[t].payment \in CapturedFor(t)
        BY <1>3, <2>1 DEF SettlementHolds
      <3>3. OrdersOf(t) \subseteq OrdersOf(t)'
        BY <1>1 DEF OrdersOf, Orders
      <3>4. CapturedFor(t) \subseteq CapturedFor(t)'
        BY <1>1, <3>3 DEF CapturedFor
      <3> QED
        BY <1>1, <1>2, <1>3, <2>1, <3>1, <3>2, <3>4 DEF SettlementHolds
    <2>2. CASE state[t] # "SUCCEEDED"
      BY <1>2, <2>2 DEF SettlementHolds
    <2> QED
      BY <2>1, <2>2
  <1> QED
    BY <1>1, <1>4, <1>5, <1>6, EvidenceByRow

(* A service that changes one row, and leaves that row's evidence true.    *)
LEMMA OneRowEvidence ==
  ASSUME TypeOK, PaymentsExist, EvidenceIsTrue, SucceededIsPaid,
         NEW t \in Txns,
         \A u \in Txns : u # t => attempt'[u] = attempt[u] /\ state'[u] = state[u],
         UNCHANGED <<order, pay, emitted>>,
         AttemptHolds(t)', SettlementHolds(t)', \A h \in Handlers : JobHolds(h)'
  PROVE  (PaymentsExist /\ EvidenceIsTrue /\ SucceededIsPaid)'
  <1>1. EventsHold /\ (\A u \in Txns : AttemptHolds(u) /\ SettlementHolds(u))
    BY EvidenceByRow
  <1>2. EventsHold'
    BY <1>1 DEF EventsHold
  <1>3. ASSUME NEW u \in Txns, u # t
        PROVE  AttemptHolds(u)' /\ SettlementHolds(u)'
    BY <1>1, <1>3 DEF AttemptHolds, SettlementHolds, CapturedFor, OrdersOf
  <1> QED
    BY <1>2, <1>3, EvidenceByRow

(* A step of an execute call leaves all evidence true.                     *)
LEMMA ExecuteEvidence ==
  ASSUME TypeOK, Ownership, PaymentsExist, EvidenceIsTrue, SucceededIsPaid,
         NEW r \in Requests, ExecuteStep(r), UNCHANGED <<recon, job>>
  PROVE  (PaymentsExist /\ EvidenceIsTrue /\ SucceededIsPaid)'
  <1>1. UNCHANGED <<order, pay, emitted>>
    BY DEF ExecuteStep, ExecuteArrives, ExecuteProceeds, Replay, RefuseKeyReuse, RefuseForeignBuyer,
           ShowStarted, RefuseStale, CommitExecuting, Dispatch, ReceiveOrder, DispatchFails,
           RecordOrder, RecordUnknown, CrashExecute, NothingStored, providerVars
  <1>2. EventsHold /\ (\A t \in Txns : AttemptHolds(t) /\ SettlementHolds(t))
          /\ (\A h \in Handlers : JobHolds(h))
    BY EvidenceByRow
  <1>3. \A h \in Handlers : JobHolds(h)'
    BY <1>1, <1>2 DEF JobHolds
  <1>4. CASE UNCHANGED <<state, attempt>>
    <2>1. EventsHold' /\ \A t \in Txns : AttemptHolds(t)' /\ SettlementHolds(t)'
      BY <1>1, <1>2, <1>4 DEF EventsHold, AttemptHolds, SettlementHolds, CapturedFor, OrdersOf
    <2> QED
      BY <1>3, <2>1, EvidenceByRow
  <1>5. ASSUME NEW c \in Call, CommitExecuting(r, c)
        PROVE  (PaymentsExist /\ EvidenceIsTrue /\ SucceededIsPaid)'
    <2>1. c.txn \in Txns
      BY DEF Call
    <2>2. /\ attempt' = [attempt EXCEPT ![c.txn] = NewAttempt(r)]
          /\ state' = [state EXCEPT ![c.txn] = "EXECUTING"]
      BY <1>5 DEF CommitExecuting, MoveTo
    <2>3. attempt'[c.txn] = NewAttempt(r) /\ state'[c.txn] = "EXECUTING"
      BY <2>1, <2>2 DEF TypeOK, StoreTypeOK
    <2>4. AttemptHolds(c.txn)' /\ SettlementHolds(c.txn)'
      BY <2>3 DEF AttemptHolds, SettlementHolds, NewAttempt, OrderStates
    <2> QED
      BY <1>1, <1>3, <2>1, <2>2, <2>4, OneRowEvidence DEF TypeOK, StoreTypeOK
  <1>6. CASE RecordOrder(r) \/ RecordUnknown(r)
    <2>1. PICK t \in Txns : t = call[r].txn
      BY <1>6 DEF RecordOrder, RecordUnknown, Ownership, RequestsAreOwners, Call, TypeOK, ExecTypeOK
    <2>2. CASE RecordOrder(r) /\ StillExecuting(t)
      <3>1. /\ state' = [state EXCEPT ![t] = "PAYMENT_PENDING"]
            /\ SaveObservation(t, r, None, "created", None)
        BY <2>1, <2>2 DEF RecordOrder, MoveTo
      <3>2. attempt[t] \in AttemptRecord
        BY <2>1, <2>2 DEF StillExecuting, Ownership, StateNeedsEvidence, TypeOK, StoreTypeOK
      <3>3. /\ attempt'[t].payment = None /\ attempt'[t].orderState = "created"
            /\ \A u \in Txns : u # t => attempt'[u] = attempt[u]
        BY <2>1, <3>1, <3>2 DEF SaveObservation, AttemptRecord, TypeOK, StoreTypeOK
      <3>4. AttemptHolds(t)' /\ SettlementHolds(t)'
        BY <3>1, <3>3 DEF AttemptHolds, SettlementHolds, TypeOK, StoreTypeOK
      <3> QED
        BY <1>1, <1>3, <2>1, <3>1, <3>3, <3>4, OneRowEvidence DEF TypeOK, StoreTypeOK
    <2>3. CASE RecordUnknown(r) /\ StillExecuting(t)
      <3>1. state' = [state EXCEPT ![t] = "UNKNOWN"] /\ UNCHANGED attempt
        BY <2>1, <2>3 DEF RecordUnknown, MoveTo
      <3>2. AttemptHolds(t)' /\ SettlementHolds(t)'
        BY <1>1, <1>2, <2>1, <3>1 DEF AttemptHolds, SettlementHolds, TypeOK, StoreTypeOK
      <3> QED
        BY <1>1, <1>3, <2>1, <3>1, <3>2, OneRowEvidence DEF TypeOK, StoreTypeOK
    <2>4. CASE ~StillExecuting(t)
      BY <1>4, <1>6, <2>1, <2>4 DEF RecordOrder, RecordUnknown, Stay
    <2> QED
      BY <1>6, <2>2, <2>3, <2>4
  <1> QED
    BY <1>4, <1>5, <1>6
    DEF ExecuteStep, ExecuteArrives, ExecuteProceeds, Replay, RefuseKeyReuse, RefuseForeignBuyer,
        ShowStarted, RefuseStale, Dispatch, ReceiveOrder, DispatchFails, CrashExecute,
        NothingStored, storeVars

(* What is saved when a reconciliation gives up was true when it was read. *)
LEMMA SavedReadsTrue ==
  ASSUME TypeOK, Ownership, PaymentsExist, EvidenceIsTrue, NEW t \in Txns,
         state[t] = "RECONCILING", NEW a \in SavedReads(t)
  PROVE  a.orderState = "paid" => a.order # None /\ order[a.order].status = "paid"
  <1>1. attempt[t] \in AttemptRecord /\ attempt[t].payment = None
    BY DEF Ownership, StateNeedsEvidence, NoPaymentBeforePending, Verifiable, TypeOK, StoreTypeOK
  <1>2. attempt[t].orderState = "paid" =>
           attempt[t].order # None /\ order[attempt[t].order].status = "paid"
    BY <1>1 DEF EvidenceIsTrue
  <1>3. Recovered(t).orderState = LookupOrder(attempt[t].id) /\ Recovered(t).order = attempt[t].id
    BY <1>1 DEF Recovered, AttemptRecord
  <1>4. attempt[t].id # None
    BY <1>1 DEF AttemptRecord, Orders
  <1>5. \A x \in WithOrder(t) : x.payment = None /\ (x = attempt[t] \/ x = Recovered(t))
    BY SavedReadsOwn DEF WithOrder
  <1>6. a = attempt[t] \/ a = Recovered(t)
    BY <1>5 DEF SavedReads
  <1> QED
    BY <1>2, <1>3, <1>4, <1>6 DEF LookupOrder

(* A step of a reconciliation worker leaves all evidence true.             *)
LEMMA ReconcileEvidence ==
  ASSUME TypeOK, Ownership, PaymentsExist, EvidenceIsTrue, SucceededIsPaid,
         NEW w \in Workers, ReconcileStep(w), UNCHANGED <<execVars, job>>
  PROVE  (PaymentsExist /\ EvidenceIsTrue /\ SucceededIsPaid)'
  <1> USE DEF providerVars, storeVars
  <1>1. UNCHANGED <<order, pay, emitted>>
    BY DEF ReconcileStep, StartReconcile, Resolve, GiveUp, CrashReconcile
  <1>2. EventsHold /\ (\A t \in Txns : AttemptHolds(t) /\ SettlementHolds(t))
          /\ (\A h \in Handlers : JobHolds(h))
    BY EvidenceByRow
  <1>3. \A h \in Handlers : JobHolds(h)'
    BY <1>1, <1>2 DEF JobHolds
  <1>4. ASSUME NEW t \in Txns, NEW new, new # "SUCCEEDED", MoveTo(t, new),
               NEW a \in AttemptRecord \cup {None}, attempt' = [attempt EXCEPT ![t] = a],
               a # None => /\ a.payment # None => pay[a.payment] # None
                           /\ a.orderState = "paid" => a.order # None /\ order[a.order].status = "paid"
        PROVE  (PaymentsExist /\ EvidenceIsTrue /\ SucceededIsPaid)'
    <2>1. /\ attempt'[t] = a /\ state'[t] = new
          /\ \A u \in Txns : u # t => attempt'[u] = attempt[u] /\ state'[u] = state[u]
      BY <1>4 DEF MoveTo, TypeOK, StoreTypeOK
    <2>2. AttemptHolds(t)' /\ SettlementHolds(t)'
      BY <1>1, <1>4, <2>1 DEF AttemptHolds, SettlementHolds
    <2> QED
      BY <1>1, <1>3, <2>1, <2>2, OneRowEvidence
  <1>5. ASSUME NEW t \in Txns, StartReconcile(w, t)
        PROVE  (PaymentsExist /\ EvidenceIsTrue /\ SucceededIsPaid)'
    <2>1. MoveTo(t, "RECONCILING") /\ attempt' = [attempt EXCEPT ![t] = attempt[t]]
            /\ attempt[t] \in AttemptRecord \cup {None}
      BY <1>5 DEF StartReconcile, TypeOK, StoreTypeOK
    <2> QED
      BY <1>2, <1>4, <2>1 DEF AttemptHolds
  <1>6. ASSUME NEW t \in Txns, Resolve(w, t)
        PROVE  (PaymentsExist /\ EvidenceIsTrue /\ SucceededIsPaid)'
    BY <1>4, <1>6, ResolveOnlyPends DEF LookupOrder
  <1>7. ASSUME NEW t \in Txns, GiveUp(w, t)
        PROVE  (PaymentsExist /\ EvidenceIsTrue /\ SucceededIsPaid)'
    <2>1. PICK a \in SavedReads(t) : attempt' = [attempt EXCEPT ![t] = a]
      BY <1>7 DEF GiveUp
    <2>2. state[t] = "RECONCILING" /\ MoveTo(t, "UNKNOWN")
      BY <1>7 DEF GiveUp
    <2>3. a \in AttemptRecord
      BY <2>2, SavedReadsTypes DEF Ownership
    <2>4. a.payment = None
      BY <2>2, SavedReadsOwn
    <2> QED
      BY <1>4, <2>1, <2>2, <2>3, <2>4, SavedReadsTrue
  <1>8. CASE CrashReconcile(w)
    <2>1. EventsHold' /\ \A t \in Txns : AttemptHolds(t)' /\ SettlementHolds(t)'
      BY <1>2, <1>8 DEF CrashReconcile, EventsHold, AttemptHolds, SettlementHolds, CapturedFor, OrdersOf
    <2> QED
      BY <1>3, <2>1, EvidenceByRow
  <1> QED
    BY <1>5, <1>6, <1>7, <1>8 DEF ReconcileStep

(* A step of a callback handler leaves all evidence true.                  *)
LEMMA CallbackEvidence ==
  ASSUME TypeOK, Ownership, PaymentsExist, EvidenceIsTrue, SucceededIsPaid,
         NEW h \in Handlers, CallbackStep(h), UNCHANGED <<execVars, recon>>
  PROVE  (PaymentsExist /\ EvidenceIsTrue /\ SucceededIsPaid)'
  <1> USE DEF providerVars, storeVars
  <1>1. UNCHANGED <<order, pay, emitted>>
    BY DEF CallbackStep, BeginCheckout, IgnoreWebhook, OrphanWebhook, AcceptWebhook, ReadPayment,
           ReadOrder, Apply, FinishWebhook, AbandonJob
  <1>2. EventsHold /\ (\A t \in Txns : AttemptHolds(t) /\ SettlementHolds(t))
          /\ (\A g \in Handlers : JobHolds(g))
    BY EvidenceByRow
  <1>3. job[h] # None => job[h] \in Job
    BY DEF TypeOK, VerifyTypeOK
  <1>4. (\A g \in Handlers : g # h => job'[g] = job[g]) /\ (DOMAIN job = Handlers)
    BY DEF CallbackStep, BeginCheckout, IgnoreWebhook, OrphanWebhook, AcceptWebhook, ReadPayment,
           ReadOrder, Apply, Applied, FinishWebhook, AbandonJob, TypeOK, VerifyTypeOK
  <1>5. None \notin OrderStates \cup PaymentStates
    OBVIOUS
  <1>6. JobHolds(h)'
    <2>1. ASSUME NEW t \in Txns, NEW p \in Payments, BeginCheckout(h, t, p)
          PROVE  JobHolds(h)'
      <3>1. pay[p] # None
        BY <1>2, <2>1 DEF BeginCheckout, EventsHold
      <3>2. job'[h] = NewJob(None, "payment", t, p, None)
        BY <1>4, <2>1 DEF BeginCheckout
      <3> QED
        BY <1>1, <1>5, <3>1, <3>2 DEF JobHolds, NewJob, OrderStates, PaymentStates
    <2>2. ASSUME NEW e \in Events, AcceptWebhook(h, e)
          PROVE  JobHolds(h)'
      <3>1. pay[e[1]] # None
        BY <1>2, <2>2 DEF AcceptWebhook, Delivered, EventsHold
      <3>2. \E t \in Txns : job'[h] = IF PayloadState(e) = "captured"
                                        THEN NewJob(e, "payment", t, e[1], None)
                                        ELSE NewJob(e, "apply", t, e[1], PayloadState(e))
        BY <1>4, <2>2 DEF AcceptWebhook
      <3> QED
        BY <1>1, <1>5, <3>1, <3>2 DEF JobHolds, NewJob, OrderStates, PaymentStates
    <2>3. CASE ReadPayment(h)
      <3>1. job'[h] = [job[h] EXCEPT !.step = "order", !.payState = LookupPayment(job[h].payment)]
              /\ job[h] \in Job
        BY <1>3, <1>4, <2>3 DEF ReadPayment
      <3>2. /\ job'[h].payment = job[h].payment /\ job'[h].orderState = job[h].orderState
            /\ job'[h].payState = pay[job[h].payment].status
        BY <3>1 DEF Job, LookupPayment
      <3> QED
        BY <1>1, <1>2, <2>3, <3>2 DEF JobHolds, ReadPayment
    <2>4. CASE ReadOrder(h)
      <3>1. job'[h] = [job[h] EXCEPT !.step = "apply",
                                     !.orderState = LookupOrder(pay[job[h].payment].order)]
              /\ job[h] \in Job
        BY <1>3, <1>4, <2>4 DEF ReadOrder
      <3>2. /\ job'[h].payment = job[h].payment /\ job'[h].payState = job[h].payState
            /\ job'[h].orderState = order[pay[job[h].payment].order].status
        BY <3>1 DEF Job, LookupOrder
      <3> QED
        BY <1>1, <1>2, <2>4, <3>2 DEF JobHolds, ReadOrder
    <2>5. CASE Apply(h)
      <3>1. job[h] # None /\ (job'[h] = None \/ job'[h] = [job[h] EXCEPT !.step = "finish"])
              /\ job[h] \in Job
        BY <1>3, <1>4, <2>5 DEF Apply, Applied
      <3>2. job'[h] = None \/ (/\ job'[h].payment = job[h].payment
                               /\ job'[h].payState = job[h].payState
                               /\ job'[h].orderState = job[h].orderState)
        BY <3>1 DEF Job
      <3> QED
        BY <1>1, <1>2, <3>1, <3>2 DEF JobHolds
    <2>6. CASE FinishWebhook(h) \/ AbandonJob(h)
      BY <1>4, <2>6 DEF FinishWebhook, AbandonJob, JobHolds
    <2>7. ASSUME NEW e \in Events, IgnoreWebhook(h, e) \/ OrphanWebhook(h, e)
          PROVE  JobHolds(h)'
      BY <1>1, <1>2, <2>7 DEF IgnoreWebhook, OrphanWebhook, JobHolds
    <2> QED
      BY <2>1, <2>2, <2>3, <2>4, <2>5, <2>6, <2>7 DEF CallbackStep
  <1>7. \A g \in Handlers : JobHolds(g)'
    <2>1. ASSUME NEW g \in Handlers, g # h
          PROVE  JobHolds(g)'
      BY <1>1, <1>2, <1>4, <2>1 DEF JobHolds
    <2> QED
      BY <1>6, <2>1
  <1>8. CASE UNCHANGED <<state, attempt>>
    <2>1. EventsHold' /\ \A t \in Txns : AttemptHolds(t)' /\ SettlementHolds(t)'
      BY <1>1, <1>2, <1>8 DEF EventsHold, AttemptHolds, SettlementHolds, CapturedFor, OrdersOf
    <2> QED
      BY <1>7, <2>1, EvidenceByRow
  <1>9. CASE Apply(h)
    <2>1. PICK t \in Txns, p \in Payments : t = job[h].txn /\ p = job[h].payment
      BY <1>3, <1>9 DEF Apply, Job
    <2> DEFINE o == pay[p].order
               ps == job[h].payState
               os == Present(job[h].orderState, attempt[t].orderState)
               a == [attempt[t] EXCEPT !.order = o, !.payment = p, !.orderState = os, !.payState = ps]
    <2>2. /\ state[t] \in Verifiable /\ attempt[t] \in AttemptRecord
          /\ attempt[t].order = o
          /\ attempt[t].order # None /\ o \in Attempts /\ order[o] # None /\ order[o].txn = t
      BY <1>9, <2>1 DEF Apply, AcceptsEvidence, TypeOK, StoreTypeOK, Ownership, StateNeedsEvidence,
                        StoredOrderIsOwn, AttemptRecord
    <2>3. CASE SaveObservation(t, o, p, os, ps) /\ Advance(t, os, ps) /\ AmountMatches(p)
      <3>1. /\ attempt'[t] = a
            /\ \A u \in Txns : u # t => attempt'[u] = attempt[u] /\ state'[u] = state[u]
        BY <2>3 DEF SaveObservation, Advance, Stay, MoveVia, MoveTo, TypeOK, StoreTypeOK
      <3>2. a.order = o /\ a.payment = p /\ a.orderState = os /\ a.payState = ps
        BY <2>2 DEF AttemptRecord
      <3>3. pay[p] # None /\ (ps = "captured" => pay[p].status \in {"captured", "refunded"})
        BY <1>2, <1>9, <2>1 DEF JobHolds, Apply
      <3>4. os = "paid" => order[o].status = "paid"
        BY <1>2, <1>9, <2>1, <2>2 DEF JobHolds, AttemptHolds, Apply, Present
      <3>5. AttemptHolds(t)'
        BY <1>1, <2>2, <3>1, <3>2, <3>3, <3>4 DEF AttemptHolds
      <3>6. state'[t] = "SUCCEEDED" => (os = "paid" /\ ps = "captured") \/ state[t] = "SUCCEEDED"
        BY <2>3 DEF Advance, Stay, MoveVia, MoveTo, VerifiedSuccess, TypeOK, StoreTypeOK
      <3>7. SettlementHolds(t)'
        <4>1. CASE state[t] = "SUCCEEDED"
          <5>1. UNCHANGED <<state, attempt>>
            BY <1>9, <2>1, <4>1 DEF Apply, AlreadySettled, Stay
          <5> QED
            BY <1>1, <1>2, <5>1 DEF SettlementHolds, CapturedFor, OrdersOf
        <4>2. CASE os = "paid" /\ ps = "captured"
          <5>1. p \in CapturedFor(t)'
            BY <1>1, <2>2, <2>3, <3>3, <4>2 DEF CapturedFor, OrdersOf, AmountMatches
          <5> QED
            BY <1>1, <3>1, <3>2, <3>4, <4>2, <5>1 DEF SettlementHolds
        <4>3. CASE state'[t] # "SUCCEEDED"
          BY <4>3 DEF SettlementHolds
        <4> QED
          BY <3>6, <4>1, <4>2, <4>3
      <3> QED
        BY <1>1, <1>7, <3>1, <3>5, <3>7, OneRowEvidence
    <2> QED
      BY <1>8, <1>9, <2>1, <2>3 DEF Apply, Stay
  <1> QED
    BY <1>8, <1>9 DEF CallbackStep, BeginCheckout, IgnoreWebhook, OrphanWebhook, AcceptWebhook,
                      ReadPayment, ReadOrder, FinishWebhook, AbandonJob

------------------------------------------------------------------------------
(* The inductive invariant, and what it is for.                            *)

(* Nothing has happened yet.                                               *)
LEMMA InitCustody == Init => Custody
  <1> SUFFICES ASSUME Init PROVE Custody
    OBVIOUS
  <1> USE DEF Init, StoreInit, ProviderInit, ExecInit, ReconInit, VerifyInit
  <1>1. TypeOK
    BY InitTypes
  <1>2. Ownership
    BY DEF Ownership, WireIsOwned, OrdersAreOwned, RequestsAreOwners, AttemptsAreDistinct,
           StoredOrderIsOwn, StateNeedsEvidence, NoPaymentBeforePending, Verifiable, Orders
  <1>3. PaymentsExist /\ EvidenceIsTrue /\ SucceededIsPaid
    BY DEF PaymentsExist, EvidenceIsTrue, SucceededIsPaid
  <1> QED
    BY <1>1, <1>2, <1>3 DEF Custody

(* Every step of every actor preserves the invariant.                      *)
LEMMA StepCustody == Custody /\ [Next]_vars => Custody'
  <1> SUFFICES ASSUME TypeOK, Ownership, PaymentsExist, EvidenceIsTrue, SucceededIsPaid, [Next]_vars
               PROVE  Custody'
    BY DEF Custody
  <1>1. TypeOK' /\ Ownership'
    BY TypesStep, OwnershipStep
  <1>2. (PaymentsExist /\ EvidenceIsTrue /\ SucceededIsPaid)'
    <2>1. ASSUME NEW r \in Requests, ExecuteStep(r), UNCHANGED <<recon, job>>
          PROVE  (PaymentsExist /\ EvidenceIsTrue /\ SucceededIsPaid)'
      BY <2>1, ExecuteEvidence
    <2>2. ASSUME NEW w \in Workers, ReconcileStep(w), UNCHANGED <<execVars, job>>
          PROVE  (PaymentsExist /\ EvidenceIsTrue /\ SucceededIsPaid)'
      BY <2>2, ReconcileEvidence
    <2>3. ASSUME NEW h \in Handlers, CallbackStep(h), UNCHANGED <<execVars, recon>>
          PROVE  (PaymentsExist /\ EvidenceIsTrue /\ SucceededIsPaid)'
      BY <2>3, CallbackEvidence
    <2>4. CASE ProviderStep /\ UNCHANGED <<storeVars, execVars, recon, job>>
      BY <2>4, ProviderEvidence
    <2>5. CASE UNCHANGED <<state, attempt, order, pay, emitted, job>>
      BY <2>5 DEF PaymentsExist, EvidenceIsTrue, SucceededIsPaid, CapturedFor, OrdersOf
    <2>6. ASSUME NEW t \in Txns, GatesChange(t), UNCHANGED <<execVars, recon, job>>
          PROVE  (PaymentsExist /\ EvidenceIsTrue /\ SucceededIsPaid)'
      BY <2>5, <2>6 DEF GatesChange, providerVars
    <2> QED
      BY <2>1, <2>2, <2>3, <2>4, <2>5, <2>6 DEF Next, vars, storeVars, providerVars
  <1> QED
    BY <1>1, <1>2 DEF Custody

(* The invariant holds in every reachable state.                           *)
THEOREM CustodyHolds == Spec => []Custody
  BY InitCustody, StepCustody, PTL DEF Spec

(* Every table, request, worker and handler stays well typed, for any      *)
(* number of them.                                                         *)
THEOREM TypesHold == Spec => []TypeOK
  <1>1. Custody => TypeOK
    BY DEF Custody
  <1> QED
    BY <1>1, CustodyHolds, PTL

(* However many calls, keys, retries, deaths and late answers there are,   *)
(* Razorpay never holds two orders for one transaction.                    *)
THEOREM OneOrder == Spec => []OneOrderPerTransaction
  <1>1. Custody => OneOrderPerTransaction
    BY DEF Custody, Ownership, OrdersAreOwned, OneOrderPerTransaction
  <1> QED
    BY <1>1, CustodyHolds, PTL

(* A row that accepts evidence has its order from its own attempt.         *)
LEMMA CustodyNamesOrders == Custody => PendingNamesItsOrder
  <1> SUFFICES ASSUME Custody, NEW t \in Txns, state[t] \in Verifiable
               PROVE  /\ attempt[t] # None
                      /\ attempt[t].order \in OrdersOf(t)
                      /\ attempt[t].order = attempt[t].id
    BY DEF PendingNamesItsOrder
  <1>1. attempt[t] \in AttemptRecord /\ attempt[t] # None /\ attempt[t].order # None
    BY DEF Custody, Ownership, StateNeedsEvidence, Verifiable, TypeOK, StoreTypeOK
  <1>2. /\ attempt[t].order = attempt[t].id /\ attempt[t].id \in Attempts
        /\ order[attempt[t].id] # None /\ order[attempt[t].id].txn = t
    BY <1>1 DEF Custody, Ownership, StoredOrderIsOwn, AttemptRecord
  <1> QED
    BY <1>1, <1>2 DEF OrdersOf

(* A transaction that accepts evidence names its one order at Razorpay,    *)
(* whoever learned of it.                                                  *)
THEOREM PendingNames == Spec => []PendingNamesItsOrder
  BY CustodyNamesOrders, CustodyHolds, PTL

(* No payment is attached before the order is pending: reconciliation has  *)
(* no payment to look up and can only leave a transaction pending.         *)
THEOREM NoEarlyPayment == Spec => []NoPaymentBeforePending
  <1>1. Custody => NoPaymentBeforePending
    BY DEF Custody, Ownership
  <1> QED
    BY <1>1, CustodyHolds, PTL

(* SUCCEEDED means a full capture on the transaction's own paid order,     *)
(* whatever evidence arrived, in whatever order and however late.          *)
THEOREM SuccessIsPaid == Spec => []SucceededIsPaid
  <1>1. Custody => SucceededIsPaid
    BY DEF Custody
  <1> QED
    BY <1>1, CustodyHolds, PTL
==============================================================================
