----------------------- MODULE PaymentRefinementProofs -----------------------
(***************************************************************************)
(* The payment services implement PaymentLifecycle, for every number of    *)
(* transactions, requests, payments, workers and handlers.                 *)
(***************************************************************************)
EXTENDS PaymentBookkeepingProofs

USE ProviderAssumption, StoreAssumption, ExecutionAssumption, JobAssumption
    DEF Requests, InService

------------------------------------------------------------------------------
(* The mapping, state by state.                                            *)

(* The phase of a transaction in each of its states.                       *)
LEMMA PhaseOfState ==
  ASSUME NEW t \in Txns
  PROVE  /\ state[t] = "READY" => Phase(t) = "gated"
         /\ state[t] \in {"EXECUTING", "UNKNOWN", "RECONCILING"} => Phase(t) = "uncertain"
         /\ state[t] = "PAYMENT_PENDING" => Phase(t) = "payable"
         /\ state[t] = "VERIFYING" => Phase(t) = "verifying"
         /\ state[t] = "SUCCEEDED" => Phase(t) = "settled"
  <1>1. ASSUME state[t] = "READY" PROVE Phase(t) = "gated"
    BY <1>1 DEF Phase
  <1>2. ASSUME state[t] \in {"EXECUTING", "UNKNOWN", "RECONCILING"} PROVE Phase(t) = "uncertain"
    BY <1>2 DEF Phase
  <1>3. ASSUME state[t] = "PAYMENT_PENDING" PROVE Phase(t) = "payable"
    BY <1>3 DEF Phase
  <1>4. ASSUME state[t] = "VERIFYING" PROVE Phase(t) = "verifying"
    BY <1>4 DEF Phase
  <1>5. ASSUME state[t] = "SUCCEEDED" PROVE Phase(t) = "settled"
    BY <1>5 DEF Phase
  <1> QED
    BY <1>1, <1>2, <1>3, <1>4, <1>5

(* The abstract variables, as the mapping gives them.                      *)
Phases == [t \in Txns |-> Phase(t)]
Places == [t \in Txns |-> OrdersOf(t)]
Captures == [t \in Txns |-> CapturedFor(t)]

(* A phase depends on its own row only.                                    *)
LEMMA SamePhases == UNCHANGED state => Phases' = Phases
  BY DEF Phases, Phase

(* When one row moves, one phase does.                                     *)
LEMMA OnePhase ==
  ASSUME NEW t \in Txns, \A u \in Txns : u # t => state'[u] = state[u]
  PROVE  Phases' = [Phases EXCEPT ![t] = Phase(t)']
  <1>1. \A u \in Txns : u # t => Phase(u)' = Phase(u)
    BY DEF Phase
  <1>2. /\ Phases' = [u \in Txns |-> Phase(u)']
        /\ [Phases EXCEPT ![t] = Phase(t)'] = [u \in Txns |-> IF u = t THEN Phase(t)' ELSE Phase(u)]
    BY DEF Phases
  <1> QED
    BY <1>1, <1>2

(* A step moves at most one row.                                           *)
LEMMA OneRowMoves ==
  ASSUME Custody, [Next]_vars
  PROVE  \/ UNCHANGED state
         \/ \E t \in Txns : \A u \in Txns : u # t => state'[u] = state[u]
  <1> DEFINE One == \E t \in Txns : \A u \in Txns : u # t => state'[u] = state[u]
  <1>1. DOMAIN state = Txns
    BY DEF Custody, TypeOK, StoreTypeOK
  <1>2. \A t \in Txns : \A new : MoveTo(t, new) => One
    BY DEF MoveTo
  <1>3. \A t \in Txns : \A mid, new : MoveVia(t, mid, new) => One
    BY DEF MoveVia
  <1>4. ASSUME NEW r \in Requests, ExecuteStep(r)
        PROVE  UNCHANGED state \/ One
    <2>1. ASSUME NEW c \in Call, CommitExecuting(r, c)
          PROVE  One
      BY <1>2, <2>1 DEF CommitExecuting, Call
    <2>2. CASE RecordOrder(r) \/ RecordUnknown(r)
      <3>1. call[r].txn \in Txns
        BY <2>2 DEF RecordOrder, RecordUnknown, Custody, Ownership, RequestsAreOwners, TypeOK,
                    ExecTypeOK, Call
      <3> QED
        BY <1>2, <2>2, <3>1 DEF RecordOrder, RecordUnknown, Stay
    <2>3. CASE UNCHANGED state
      BY <2>3
    <2> QED
      BY <1>4, <2>1, <2>2, <2>3
      DEF ExecuteStep, ExecuteArrives, ExecuteProceeds, Replay, RefuseKeyReuse, RefuseForeignBuyer,
          ShowStarted, RefuseStale, Dispatch, ReceiveOrder, DispatchFails, CrashExecute, NothingStored,
          storeVars
  <1>5. ASSUME NEW w \in Workers, ReconcileStep(w)
        PROVE  UNCHANGED state \/ One
    BY <1>2, <1>5 DEF ReconcileStep, StartReconcile, Resolve, GiveUp, CrashReconcile, storeVars
  <1>6. ASSUME NEW h \in Handlers, CallbackStep(h)
        PROVE  UNCHANGED state \/ One
    <2>1. CASE Apply(h)
      <3>1. PICK t, os, ps : t \in Txns /\ (Stay \/ Advance(t, os, ps))
        BY <2>1 DEF Apply, Custody, TypeOK, VerifyTypeOK, Job
      <3> QED
        BY <1>2, <1>3, <3>1 DEF Advance, Stay
    <2> QED
      BY <1>6, <2>1
      DEF CallbackStep, BeginCheckout, IgnoreWebhook, OrphanWebhook, AcceptWebhook, ReadPayment,
          ReadOrder, FinishWebhook, AbandonJob, storeVars
  <1>7. CASE \/ ProviderStep /\ UNCHANGED <<storeVars, execVars, recon, job>>
             \/ UNCHANGED vars \/ \E t \in Txns : GatesChange(t)
    BY <1>7 DEF vars, storeVars, GatesChange
  <1> QED
    BY <1>4, <1>5, <1>6, <1>7, Zenon DEF Next

------------------------------------------------------------------------------
(* The gateway's own steps: a row moves, the provider does not.            *)

LEMMA GatewayRefines ==
  ASSUME Inductive, Inductive', [Next]_vars, UNCHANGED <<order, pay, emitted>>
  PROVE  [Lifecycle!Next]_(Lifecycle!lifeVars)
  <1>1. Places' = Places /\ Captures' = Captures
    BY DEF Places, Captures, CapturedFor, OrdersOf
  <1>2. CASE Phases' = Phases
    BY <1>1, <1>2 DEF Lifecycle!lifeVars, Phases, Places, Captures
  <1>3. ASSUME NEW t \in Txns, Phases' = [Phases EXCEPT ![t] = Phase(t)']
        PROVE  [Lifecycle!Next]_(Lifecycle!lifeVars)
    <2>1. RowStep(t)
      BY RowSteps DEF Inductive
    <2>2. state[t] \in TransactionState /\ state'[t] \in TransactionState
      BY DEF Inductive, Custody, TypeOK, StoreTypeOK
    <2>3. state'[t] \in Verifiable => OrdersOf(t) # {}
      <3>1. PendingNamesItsOrder'
        BY CustodyNamesOrders, PTL DEF Inductive
      <3>2. OrdersOf(t)' = OrdersOf(t)
        BY DEF OrdersOf
      <3> QED
        BY <3>1, <3>2 DEF PendingNamesItsOrder
    <2>4. state'[t] = "SUCCEEDED" => CapturedFor(t) # {}
      <3>1. CapturedFor(t)' = CapturedFor(t)
        BY DEF CapturedFor, OrdersOf
      <3> QED
        BY <3>1 DEF Inductive, Custody, SucceededIsPaid
    <2>5. CASE Phase(t)' = Phase(t)
      <3>1. Phases' = Phases
        BY <1>3, <2>5 DEF Phases
      <3> QED
        BY <1>2, <3>1
    <2>6. CASE state[t] = "READY" /\ state'[t] = "EXECUTING"
      <3>1. Phase(t) = "gated" /\ Phase(t)' = "uncertain"
        BY <2>6, PhaseOfState DEF Phase
      <3>2. Lifecycle!Begin(t)
        BY <1>1, <1>3, <3>1 DEF Lifecycle!Begin, Lifecycle!Move, Phases, Places, Captures
      <3> QED
        BY <3>2 DEF Lifecycle!Next
    <2>7. CASE state[t] \in {"EXECUTING", "RECONCILING"} /\ state'[t] = "PAYMENT_PENDING"
      <3>1. Phase(t) = "uncertain" /\ Phase(t)' = "payable"
        BY <2>7, PhaseOfState DEF Phase
      <3>2. Lifecycle!Bind(t)
        BY <1>1, <1>3, <2>3, <2>7, <3>1
        DEF Lifecycle!Bind, Lifecycle!Move, Phases, Places, Captures, Verifiable
      <3> QED
        BY <3>2 DEF Lifecycle!Next
    <2>8. CASE state[t] = "PAYMENT_PENDING" /\ state'[t] = "VERIFYING"
      <3>1. Phase(t) = "payable" /\ Phase(t)' = "verifying"
        BY <2>8, PhaseOfState DEF Phase
      <3>2. Lifecycle!Inspect(t)
        BY <1>1, <1>3, <3>1 DEF Lifecycle!Inspect, Lifecycle!Move, Phases, Places, Captures
      <3> QED
        BY <3>2 DEF Lifecycle!Next
    <2>9. CASE state[t] \in {"PAYMENT_PENDING", "VERIFYING"} /\ state'[t] = "SUCCEEDED"
      <3>1. Phase(t) \in {"payable", "verifying"} /\ Phase(t)' = "settled"
        BY <2>9, PhaseOfState DEF Phase
      <3>2. Lifecycle!Settle(t)
        BY <1>1, <1>3, <2>4, <2>9, <3>1
        DEF Lifecycle!Settle, Lifecycle!Move, Phases, Places, Captures
      <3> QED
        BY <3>2 DEF Lifecycle!Next
    <2>10. CASE state[t] \in {"EXECUTING", "UNKNOWN", "RECONCILING"}
                  /\ state'[t] \in {"EXECUTING", "UNKNOWN", "RECONCILING"}
      <3>1. Phase(t) = "uncertain" /\ Phase(t)' = "uncertain"
        BY <2>10, PhaseOfState DEF Phase
      <3> QED
        BY <2>5, <3>1
    <2>11. CASE state'[t] = state[t]
      BY <2>5, <2>11 DEF Phase
    <2> QED
      BY <2>1, <2>6, <2>7, <2>8, <2>9, <2>10, <2>11
      DEF RowStep, RowStands, RowMoves, RowSettles, TakenTransitions
  <1>4. CASE UNCHANGED state
    BY <1>2, <1>4, SamePhases
  <1> QED
    BY <1>3, <1>4, OneRowMoves, OnePhase DEF Inductive

------------------------------------------------------------------------------
(* The provider's steps: an order is placed, a payment captured, or        *)
(* nothing the lifecycle speaks of happens.                                *)

(* A payment of the full amount whose money was captured.                  *)
FullCapture(p) == pay[p] # None /\ pay[p].amount = Price /\ pay[p].status \in {"captured", "refunded"}

(* Orders that keep their transaction are the orders of the same ones.     *)
LEMMA SamePlaces ==
  ASSUME \A o \in Attempts : /\ order'[o] # None <=> order[o] # None
                             /\ order[o] # None => order'[o].txn = order[o].txn
  PROVE  (\A t \in Txns : OrdersOf(t)' = OrdersOf(t)) /\ Places' = Places
  BY DEF OrdersOf, Places

(* POSTs arrive at most once per transaction, and only after it began.     *)
LEMMA AcceptRefines ==
  ASSUME Inductive, UNCHANGED state, NEW a \in Attempts, NEW t \in Txns, AcceptOrder(a, t)
  PROVE  Lifecycle!Place(t, a)
  <1>1. /\ order[a] = None /\ UNCHANGED pay
        /\ order'[a] = [txn |-> t, status |-> "created"]
        /\ \A b \in Attempts : b # a => order'[b] = order[b]
    BY DEF AcceptOrder, Inductive, Custody, TypeOK, ProviderTypeOK, Orders
  <1>2. order'[a] # None
    BY <1>1 DEF OrderRecord, OrderStates
  <1>3. attempt[t] # None /\ attempt[t].id = a
    BY DEF AcceptOrder, Inductive, Custody, Ownership, WireIsOwned
  <1>4. Phase(t) # "gated"
    <2>1. state[t] # "READY"
      BY <1>3 DEF Inductive, Bookkeeping, ReadyIsFresh
    <2>2. state[t] \in {"EXECUTING", "UNKNOWN", "RECONCILING", "PAYMENT_PENDING", "VERIFYING", "SUCCEEDED"}
            \/ Phase(t) # "gated"
      BY <2>1 DEF Phase
    <2> QED
      BY <2>2, PhaseOfState
  <1>5. OrdersOf(t) = {}
    BY <1>1, <1>3 DEF OrdersOf, Inductive, Custody, Ownership, OrdersAreOwned
  <1>6. /\ OrdersOf(t)' = {a}
        /\ \A u \in Txns : u # t => OrdersOf(u)' = OrdersOf(u)
    BY <1>1, <1>2, <1>5 DEF OrdersOf
  <1>7. Places' = [Places EXCEPT ![t] = {a}]
    BY <1>6 DEF Places
  <1>8. Captures' = Captures
    <2> SUFFICES ASSUME NEW u \in Txns
                 PROVE  CapturedFor(u)' = CapturedFor(u)
      BY DEF Captures
    <2>1. \A p \in Payments : pay[p] # None => pay[p].order # a
      BY <1>1 DEF Inductive, Custody, PaymentsExist
    <2>2. \A p \in Payments : pay[p] # None =>
            (pay[p].order \in OrdersOf(u)' <=> pay[p].order \in OrdersOf(u))
      BY <1>1, <2>1 DEF OrdersOf
    <2> QED
      BY <1>1, <2>2 DEF CapturedFor
  <1> QED
    BY <1>4, <1>5, <1>7, <1>8, SamePhases DEF Lifecycle!Place, Phases, Places, Captures

(* A payment that makes no full capture is not the lifecycle's business.   *)
LEMMA QuietRefines ==
  ASSUME UNCHANGED state,
         \A o \in Attempts : /\ order'[o] # None <=> order[o] # None
                             /\ order[o] # None => order'[o].txn = order[o].txn,
         \A p \in Payments : /\ FullCapture(p)' <=> FullCapture(p)
                             /\ FullCapture(p) => pay'[p].order = pay[p].order
  PROVE  UNCHANGED Lifecycle!lifeVars
  <1>1. Places' = Places /\ \A t \in Txns : OrdersOf(t)' = OrdersOf(t)
    BY SamePlaces
  <1>2. \A t \in Txns : CapturedFor(t)' = CapturedFor(t)
    BY <1>1 DEF CapturedFor, FullCapture
  <1>3. Captures' = Captures
    BY <1>2 DEF Captures
  <1> QED
    BY <1>1, <1>3, SamePhases DEF Lifecycle!lifeVars, Phases, Places, Captures

(* A captured payment is one more capture of the transaction of its order. *)
LEMMA CaptureRefines ==
  ASSUME Inductive, UNCHANGED state, NEW p \in Payments, CapturePayment(p)
  PROVE  [Lifecycle!Next]_(Lifecycle!lifeVars)
  <1>1. /\ pay[p] \in PaymentRecord /\ pay[p] # None /\ pay[p].status = "authorized"
        /\ UNCHANGED order /\ DOMAIN pay = Payments
        /\ pay' = [pay EXCEPT ![p] = [pay[p] EXCEPT !.status = "captured"]]
    BY DEF CapturePayment, SettlePayment, Inductive, Custody, TypeOK, ProviderTypeOK
  <1>2. [pay[p] EXCEPT !.status = "captured"]
          = [order |-> pay[p].order, amount |-> pay[p].amount, status |-> "captured"]
    BY <1>1, StatusChange DEF PaymentStates
  <1>3. /\ pay'[p] = [order |-> pay[p].order, amount |-> pay[p].amount, status |-> "captured"]
        /\ pay'[p] # None
        /\ \A q \in Payments : q # p => pay'[q] = pay[q]
    BY <1>1, <1>2 DEF PaymentRecord, PaymentStates
  <1>4. \A q \in Payments : /\ pay'[q].order = pay[q].order
                            /\ q # p => (FullCapture(q)' <=> FullCapture(q))
    BY <1>3 DEF FullCapture
  <1>5. ~FullCapture(p) /\ (FullCapture(p)' <=> pay[p].amount = Price)
    BY <1>1, <1>3 DEF FullCapture
  <1>6. Places' = Places /\ \A t \in Txns : OrdersOf(t)' = OrdersOf(t)
    BY <1>1, SamePlaces
  <1>7. CASE pay[p].amount # Price
    BY <1>1, <1>4, <1>5, <1>7, QuietRefines
  <1>8. CASE pay[p].order = ForeignOrder
    <2>1. \A t \in Txns : pay[p].order \notin OrdersOf(t)
      BY <1>8 DEF OrdersOf
    <2>2. ASSUME NEW t \in Txns
          PROVE  CapturedFor(t)' = CapturedFor(t)
      <3>1. OrdersOf(t)' = OrdersOf(t) /\ pay[p].order \notin OrdersOf(t)
        BY <1>6, <2>1
      <3> QED
        BY <1>3, <3>1 DEF CapturedFor
    <2>3. Captures' = Captures
      BY <2>2 DEF Captures
    <2> QED
      BY <1>6, <2>3, SamePhases DEF Lifecycle!lifeVars, Phases, Places, Captures
  <1>9. CASE pay[p].amount = Price /\ pay[p].order # ForeignOrder
    <2> DEFINE o == pay[p].order
    <2>1. o \in Attempts /\ order[o] # None
      BY <1>1, <1>9 DEF PaymentRecord, Orders, Inductive, Custody, PaymentsExist
    <2>2. PICK t \in Txns : order[o].txn = t
      BY <2>1 DEF Inductive, Custody, Ownership, OrdersAreOwned
    <2>3. o \in OrdersOf(t) /\ \A u \in Txns : u # t => o \notin OrdersOf(u)
      BY <2>1, <2>2 DEF OrdersOf
    <2>4. /\ CapturedFor(t)' = CapturedFor(t) \cup {p}
          /\ \A u \in Txns : u # t => CapturedFor(u)' = CapturedFor(u)
      BY <1>1, <1>3, <1>6, <1>9, <2>3 DEF CapturedFor
    <2>5. Captures' = [Captures EXCEPT ![t] = @ \cup {p}]
      BY <2>4 DEF Captures
    <2>6. Lifecycle!Capture(t, p)
      BY <1>6, <2>3, <2>5, SamePhases DEF Lifecycle!Capture, Phases, Places, Captures
    <2> QED
      BY <2>6 DEF Lifecycle!Next
  <1> QED
    BY <1>7, <1>8, <1>9

(* Every other step of the provider is quiet.                              *)
LEMMA ProviderRefines ==
  ASSUME Inductive, ProviderStep, UNCHANGED <<storeVars, execVars, recon, job>>
  PROVE  [Lifecycle!Next]_(Lifecycle!lifeVars)
  <1>1. UNCHANGED state
    BY DEF storeVars
  <1>2. /\ \A o \in Orders : order[o] # None => order'[o] # None /\ order'[o].txn = order[o].txn
        /\ \A p \in Payments : pay[p] # None =>
              /\ pay'[p] # None /\ pay'[p].order = pay[p].order /\ pay'[p].amount = pay[p].amount
              /\ pay[p].status \in {"captured", "refunded"} => pay'[p].status \in {"captured", "refunded"}
    BY ProviderForgetsNothing DEF Inductive, Custody
  <1>3. \A p \in Payments : FullCapture(p) => FullCapture(p)' /\ pay'[p].order = pay[p].order
    BY <1>2 DEF FullCapture
  <1>4. DOMAIN pay = Payments /\ DOMAIN order = Orders /\ Attempts \subseteq Orders
    BY DEF Inductive, Custody, TypeOK, ProviderTypeOK, Orders
  <1>5. ASSUME \A o \in Attempts : order[o] = None => order'[o] = None,
               \A p \in Payments : FullCapture(p)' => FullCapture(p)
        PROVE  [Lifecycle!Next]_(Lifecycle!lifeVars)
    BY <1>1, <1>2, <1>3, <1>4, <1>5, QuietRefines
  <1>6. ASSUME NEW a \in Attempts, NEW t \in Txns, AcceptOrder(a, t)
        PROVE  [Lifecycle!Next]_(Lifecycle!lifeVars)
    <2>1. Lifecycle!Place(t, a)
      BY <1>1, <1>6, AcceptRefines
    <2> QED
      BY <2>1 DEF Lifecycle!Next
  <1>7. ASSUME NEW p \in Payments, NEW o \in Orders, NEW m \in Amounts,
               NEW s \in {"authorized", "failed"}, StartPayment(p, o, m, s)
        PROVE  [Lifecycle!Next]_(Lifecycle!lifeVars)
    <2>1. \A b \in Attempts : order[b] = None => order'[b] = None
      BY <1>4, <1>7 DEF StartPayment
    <2>2. \A q \in Payments : FullCapture(q)' => FullCapture(q)
      BY <1>4, <1>7 DEF StartPayment, FullCapture
    <2> QED
      BY <1>5, <2>1, <2>2
  <1>8. ASSUME NEW p \in Payments, NEW from, NEW to \in PaymentStates, NEW e,
               SettlePayment(p, from, to, e),
               to \in {"captured", "refunded"} => from \in {"captured", "refunded"}
        PROVE  [Lifecycle!Next]_(Lifecycle!lifeVars)
    <2>1. UNCHANGED order /\ pay[p] \in PaymentRecord /\ pay[p] # None /\ pay[p].status = from
            /\ pay' = [pay EXCEPT ![p] = [pay[p] EXCEPT !.status = to]]
      BY <1>8 DEF SettlePayment, Inductive, Custody, TypeOK, ProviderTypeOK
    <2>2. pay'[p].status = to /\ \A q \in Payments : q # p => pay'[q] = pay[q]
      BY <1>4, <2>1 DEF PaymentRecord
    <2>3. \A q \in Payments : FullCapture(q)' => FullCapture(q)
      BY <1>2, <1>8, <2>1, <2>2 DEF FullCapture
    <2> QED
      BY <1>5, <2>1, <2>3
  <1>9. ASSUME NEW p \in Payments, MarkOrderPaid(p)
        PROVE  [Lifecycle!Next]_(Lifecycle!lifeVars)
    <2>1. order[pay[p].order] # None
      BY <1>9 DEF MarkOrderPaid, Inductive, Custody, PaymentsExist
    <2>2. \A b \in Attempts : order[b] = None => order'[b] = None
      BY <1>4, <1>9, <2>1 DEF MarkOrderPaid
    <2>3. \A q \in Payments : FullCapture(q)' => FullCapture(q)
      BY <1>9 DEF MarkOrderPaid, FullCapture
    <2> QED
      BY <1>5, <2>2, <2>3
  <1>10. ASSUME NEW p \in Payments, CapturePayment(p)
         PROVE  [Lifecycle!Next]_(Lifecycle!lifeVars)
    BY <1>1, <1>10, CaptureRefines
  <1>11. ASSUME NEW p \in Payments, FailPayment(p) \/ RefundPayment(p)
         PROVE  [Lifecycle!Next]_(Lifecycle!lifeVars)
    BY <1>8, <1>11 DEF FailPayment, RefundPayment, PaymentStates
  <1>12. CASE \E p \in Payments, m \in Amounts, s \in {"authorized", "failed"} :
                \E o \in {x \in Orders : x = ForeignOrder \/ Payable(x)} : StartPayment(p, o, m, s)
    <2>1. PICK p \in Payments, m \in Amounts, s \in {"authorized", "failed"} :
                \E o \in {x \in Orders : x = ForeignOrder \/ Payable(x)} : StartPayment(p, o, m, s)
      BY <1>12
    <2>2. PICK o \in Orders : StartPayment(p, o, m, s)
      BY <2>1
    <2> QED
      BY <1>7, <2>2
  <1> QED
    BY <1>6, <1>9, <1>10, <1>11, <1>12 DEF ProviderStep

------------------------------------------------------------------------------
(* The refinement.                                                         *)

(* The gateway starts where the lifecycle starts.                          *)
LEMMA InitRefines == Init => Lifecycle!Init
  <1> SUFFICES ASSUME Init PROVE Lifecycle!Init
    OBVIOUS
  <1>1. ASSUME NEW t \in Txns
        PROVE  Phase(t) = "gated" /\ OrdersOf(t) = {} /\ CapturedFor(t) = {}
    <2>1. state[t] = "READY"
      BY DEF Init, StoreInit
    <2>2. OrdersOf(t) = {}
      BY DEF Init, ProviderInit, OrdersOf, Orders
    <2>3. CapturedFor(t) = {}
      BY <2>2 DEF CapturedFor
    <2> QED
      BY <2>1, <2>2, <2>3, PhaseOfState
  <1> QED
    BY <1>1 DEF Lifecycle!Init

(* Each step of a request, a worker, a handler or Razorpay is a step of    *)
(* the lifecycle of one transaction, or none: an order is placed at most   *)
(* once and after execution began, a transaction is payable only when its  *)
(* order exists and settled only when money was captured on it.            *)
THEOREM LifecycleHolds == Spec => ImplementsLifecycle
  <1>1. ASSUME Inductive, Inductive', [Next]_vars
        PROVE  [Lifecycle!Next]_(Lifecycle!lifeVars)
    BY <1>1, GatewayRefines, ProviderRefines, ProviderAlone
  <1> QED
    BY <1>1, InitRefines, InductiveHolds, PTL DEF Spec, ImplementsLifecycle, Lifecycle!Spec
==============================================================================
