---------------------- MODULE PaymentBookkeepingProofs -----------------------
(***************************************************************************)
(* What the tables of PaymentAuthority say of the past, and what no step   *)
(* may take back, for every number of transactions, requests, payments,    *)
(* workers and handlers.                                                   *)
(***************************************************************************)
EXTENDS PaymentAuthorityProofs

USE ProviderAssumption, StoreAssumption, ExecutionAssumption, JobAssumption
    DEF Requests, InService

------------------------------------------------------------------------------
(* What a step may do to a row of transactions.                            *)

(* The transitions the payment services take.                              *)
TakenTransitions ==
    {<<"READY", "EXECUTING">>,
     <<"EXECUTING", "PAYMENT_PENDING">>, <<"EXECUTING", "UNKNOWN">>,
     <<"EXECUTING", "RECONCILING">>, <<"UNKNOWN", "RECONCILING">>,
     <<"RECONCILING", "PAYMENT_PENDING">>, <<"RECONCILING", "UNKNOWN">>,
     <<"PAYMENT_PENDING", "VERIFYING">>, <<"VERIFYING", "SUCCEEDED">>}

RowStands(t) == state'[t] = state[t] /\ audit'[t] = audit[t]

RowMoves(t) ==
    /\ <<state[t], state'[t]>> \in TakenTransitions
    /\ audit'[t] = audit[t] \cup {<<state[t], state'[t]>>}

(* Evidence of a full payment takes a pending transaction two steps.       *)
RowSettles(t) ==
    /\ state[t] = "PAYMENT_PENDING"
    /\ state'[t] = "SUCCEEDED"
    /\ audit'[t] = audit[t] \cup {<<"PAYMENT_PENDING", "VERIFYING">>, <<"VERIFYING", "SUCCEEDED">>}

RowStep(t) == RowStands(t) \/ RowMoves(t) \/ RowSettles(t)

(* A transition touches one row.                                           *)
LEMMA MoveIsRowStep ==
  ASSUME TypeOK, NEW t \in Txns, NEW new, MoveTo(t, new),
         <<state[t], new>> \in TakenTransitions
  PROVE  \A u \in Txns : RowStep(u)
  <1>1. /\ state'[t] = new
        /\ audit'[t] = audit[t] \cup {<<state[t], new>>}
        /\ \A u \in Txns : u # t => state'[u] = state[u] /\ audit'[u] = audit[u]
    BY DEF MoveTo, TypeOK, StoreTypeOK
  <1>2. RowMoves(t)
    BY <1>1 DEF RowMoves
  <1> QED
    BY <1>1, <1>2 DEF RowStep, RowStands

(* Nor does a step that records none.                                      *)
LEMMA StayIsRowStep == UNCHANGED <<state, audit>> => \A u \in Txns : RowStep(u)
  BY DEF RowStep, RowStands

(* An execute call starts a READY row and resolves an EXECUTING one.       *)
LEMMA ExecuteRows ==
  ASSUME Custody, NEW r \in Requests, ExecuteStep(r)
  PROVE  \A u \in Txns : RowStep(u)
  <1>1. TypeOK /\ RequestsAreOwners
    BY DEF Custody, Ownership
  <1>2. ASSUME NEW c \in Call, CommitExecuting(r, c)
        PROVE  \A u \in Txns : RowStep(u)
    BY <1>1, <1>2, MoveIsRowStep DEF CommitExecuting, Startable, Call, TakenTransitions
  <1>3. CASE RecordOrder(r)
    <2>1. call[r].txn \in Txns
      BY <1>1, <1>3 DEF RecordOrder, RequestsAreOwners, TypeOK, ExecTypeOK, Call
    <2> QED
      BY <1>1, <1>3, <2>1, MoveIsRowStep, StayIsRowStep
      DEF RecordOrder, StillExecuting, Stay, TakenTransitions
  <1>4. CASE RecordUnknown(r)
    <2>1. call[r].txn \in Txns
      BY <1>1, <1>4 DEF RecordUnknown, RequestsAreOwners, TypeOK, ExecTypeOK, Call
    <2> QED
      BY <1>1, <1>4, <2>1, MoveIsRowStep, StayIsRowStep
      DEF RecordUnknown, StillExecuting, Stay, TakenTransitions
  <1>5. CASE \/ \E c \in Call : Replay(r, c) \/ RefuseKeyReuse(r, c) \/ RefuseForeignBuyer(r, c)
                                  \/ ShowStarted(r, c) \/ RefuseStale(r, c)
             \/ Dispatch(r) \/ ReceiveOrder(r) \/ DispatchFails(r) \/ CrashExecute(r)
    BY <1>5, StayIsRowStep
    DEF Replay, RefuseKeyReuse, RefuseForeignBuyer, ShowStarted, RefuseStale, Dispatch,
        ReceiveOrder, DispatchFails, CrashExecute, NothingStored, storeVars
  <1> QED
    BY <1>2, <1>3, <1>4, <1>5 DEF ExecuteStep, ExecuteArrives, ExecuteProceeds

(* Reconciliation takes an uncertain row, and finds its order or does not. *)
LEMMA ReconcileRows ==
  ASSUME Custody, NEW w \in Workers, ReconcileStep(w)
  PROVE  \A u \in Txns : RowStep(u)
  <1>1. TypeOK
    BY DEF Custody
  <1>2. ASSUME NEW t \in Txns, StartReconcile(w, t) \/ GiveUp(w, t)
        PROVE  \A u \in Txns : RowStep(u)
    BY <1>1, <1>2, MoveIsRowStep DEF StartReconcile, GiveUp, Reconcilable, TakenTransitions
  <1>3. ASSUME NEW t \in Txns, Resolve(w, t)
        PROVE  \A u \in Txns : RowStep(u)
    <2>1. MoveTo(t, "PAYMENT_PENDING")
      BY <1>3, ResolveOnlyPends DEF Custody
    <2> QED
      BY <1>1, <1>3, <2>1, MoveIsRowStep DEF Resolve, TakenTransitions
  <1>4. CASE CrashReconcile(w)
    BY <1>4, StayIsRowStep DEF CrashReconcile, storeVars
  <1> QED
    BY <1>2, <1>3, <1>4 DEF ReconcileStep

(* Evidence takes a pending row under verification and on to SUCCEEDED.    *)
LEMMA CallbackRows ==
  ASSUME Custody, NEW h \in Handlers, CallbackStep(h)
  PROVE  \A u \in Txns : RowStep(u)
  <1>1. TypeOK
    BY DEF Custody
  <1>2. CASE Apply(h)
    <2>1. job[h].txn \in Txns
      BY <1>1, <1>2 DEF Apply, TypeOK, VerifyTypeOK, Job
    <2>2. PICK t, os, ps : t \in Txns /\ (Stay \/ Advance(t, os, ps))
      BY <1>2, <2>1 DEF Apply
    <2>3. CASE Stay
      BY <2>3, StayIsRowStep DEF Stay
    <2>4. CASE MoveTo(t, "VERIFYING") /\ state[t] = "PAYMENT_PENDING"
      BY <1>1, <2>2, <2>4, MoveIsRowStep DEF TakenTransitions
    <2>5. CASE MoveTo(t, "SUCCEEDED") /\ state[t] = "VERIFYING"
      BY <1>1, <2>2, <2>5, MoveIsRowStep DEF TakenTransitions
    <2>6. CASE MoveVia(t, "VERIFYING", "SUCCEEDED") /\ state[t] = "PAYMENT_PENDING"
      <3>1. /\ state'[t] = "SUCCEEDED"
            /\ audit'[t] = audit[t] \cup {<<"PAYMENT_PENDING", "VERIFYING">>, <<"VERIFYING", "SUCCEEDED">>}
            /\ \A u \in Txns : u # t => state'[u] = state[u] /\ audit'[u] = audit[u]
        BY <1>1, <2>2, <2>6 DEF MoveVia, TypeOK, StoreTypeOK
      <3> QED
        BY <2>6, <3>1 DEF RowStep, RowStands, RowSettles
    <2> QED
      BY <2>2, <2>3, <2>4, <2>5, <2>6 DEF Advance
  <1>3. CASE \/ \E t \in Txns, p \in Payments : BeginCheckout(h, t, p)
             \/ \E e \in Events : IgnoreWebhook(h, e) \/ OrphanWebhook(h, e) \/ AcceptWebhook(h, e)
             \/ ReadPayment(h) \/ ReadOrder(h) \/ FinishWebhook(h) \/ AbandonJob(h)
    BY <1>3, StayIsRowStep
    DEF BeginCheckout, IgnoreWebhook, OrphanWebhook, AcceptWebhook, ReadPayment, ReadOrder,
        FinishWebhook, AbandonJob, storeVars
  <1> QED
    BY <1>2, <1>3 DEF CallbackStep

(* Every step of every actor moves a row along the transitions above.      *)
LEMMA RowSteps == Custody /\ [Next]_vars => \A t \in Txns : RowStep(t)
  <1> SUFFICES ASSUME Custody, [Next]_vars
               PROVE  \A t \in Txns : RowStep(t)
    OBVIOUS
  <1>1. CASE (ProviderStep /\ UNCHANGED <<storeVars, execVars, recon, job>>) \/ UNCHANGED vars
              \/ \E t \in Txns : GatesChange(t)
    BY <1>1, StayIsRowStep DEF vars, storeVars, GatesChange
  <1> QED
    BY <1>1, ExecuteRows, ReconcileRows, CallbackRows DEF Next


------------------------------------------------------------------------------
(* What a step may do to a payment attempt.                                *)

(* An attempt keeps its id and what it names, and once its transaction has *)
(* SUCCEEDED everything.                                                   *)
AttemptStands(t) ==
    attempt[t] # None =>
        /\ attempt'[t] # None
        /\ attempt'[t].id = attempt[t].id
        /\ attempt[t].order # None => attempt'[t].order = attempt[t].order
        /\ attempt[t].payment # None => attempt'[t].payment = attempt[t].payment
        /\ state[t] = "SUCCEEDED" => attempt'[t] = attempt[t]

(* It is stored when the transaction leaves READY.                         *)
AttemptStarts(t) ==
    attempt[t] = None /\ attempt'[t] # None => state'[t] = "EXECUTING"

AttemptStep(t) == AttemptStands(t) /\ AttemptStarts(t)

(* A step that stores no attempt.                                          *)
LEMMA SameIsAttemptStep == UNCHANGED attempt => \A u \in Txns : AttemptStep(u)
  BY DEF AttemptStep, AttemptStands, AttemptStarts

(* A step that overwrites one attempt and keeps its references.            *)
LEMMA SavedIsAttemptStep ==
  ASSUME TypeOK, NEW t \in Txns, NEW a, attempt[t] # None, a # None,
         attempt' = [attempt EXCEPT ![t] = a],
         a.id = attempt[t].id,
         attempt[t].order # None => a.order = attempt[t].order,
         attempt[t].payment # None => a.payment = attempt[t].payment,
         state[t] # "SUCCEEDED"
  PROVE  \A u \in Txns : AttemptStep(u)
  <1>1. attempt'[t] = a /\ \A u \in Txns : u # t => attempt'[u] = attempt[u]
    BY DEF TypeOK, StoreTypeOK
  <1> QED
    BY <1>1 DEF AttemptStep, AttemptStands, AttemptStarts

(* An execute call names the order of its own attempt.                     *)
LEMMA ExecuteAttempts ==
  ASSUME Custody, TypeOK', NEW r \in Requests, ExecuteStep(r)
  PROVE  \A u \in Txns : AttemptStep(u)
  <1>1. TypeOK /\ Ownership
    BY DEF Custody
  <1>2. ASSUME NEW c \in Call, CommitExecuting(r, c)
        PROVE  \A u \in Txns : AttemptStep(u)
    <2>1. /\ c.txn \in Txns
          /\ attempt[c.txn] = None
          /\ state'[c.txn] = "EXECUTING"
          /\ \A u \in Txns : u # c.txn => attempt'[u] = attempt[u]
      BY <1>1, <1>2 DEF CommitExecuting, Startable, MoveTo, Call, TypeOK, StoreTypeOK
    <2> QED
      BY <2>1 DEF AttemptStep, AttemptStands, AttemptStarts
  <1>3. ASSUME RecordOrder(r), attempt' # attempt
        PROVE  \A u \in Txns : AttemptStep(u)
    <2> DEFINE t == call[r].txn
               a == [attempt[t] EXCEPT !.order = r, !.payment = None,
                                       !.orderState = "created", !.payState = None]
    <2>1. t \in Txns /\ attempt[t] # None /\ attempt[t].id = r /\ attempt[t] \in AttemptRecord
      BY <1>1, <1>3
      DEF RecordOrder, Ownership, RequestsAreOwners, TypeOK, ExecTypeOK, StoreTypeOK, Call
    <2>2. attempt' = [attempt EXCEPT ![t] = a] /\ state[t] = "EXECUTING"
      BY <1>3 DEF RecordOrder, StillExecuting, SaveObservation
    <2>3. a \in AttemptRecord /\ a.id = r /\ a.order = r /\ a.payment = None
      BY <2>1 DEF AttemptRecord, Orders, OrderStates
    <2>4. a # None
      BY <2>3
    <2>5. attempt[t].payment = None /\ (attempt[t].order # None => attempt[t].order = r)
      BY <1>1, <2>1, <2>2 DEF Ownership, StoredOrderIsOwn, NoPaymentBeforePending, Verifiable
    <2> QED
      BY <1>1, <2>1, <2>2, <2>3, <2>4, <2>5, SavedIsAttemptStep
  <1>4. CASE UNCHANGED attempt
    BY <1>4, SameIsAttemptStep
  <1> QED
    BY <1>2, <1>3, <1>4
    DEF ExecuteStep, ExecuteArrives, ExecuteProceeds, Replay, RefuseKeyReuse, RefuseForeignBuyer,
        ShowStarted, RefuseStale, Dispatch, ReceiveOrder, DispatchFails, CrashExecute, RecordUnknown,
        NothingStored, storeVars

(* Reconciliation names the order the attempt already owns.                *)
LEMMA ReconcileAttempts ==
  ASSUME Custody, TypeOK', NEW w \in Workers, ReconcileStep(w)
  PROVE  \A u \in Txns : AttemptStep(u)
  <1>1. TypeOK /\ Ownership /\ PaymentsExist
    BY DEF Custody
  <1>2. ASSUME NEW t \in Txns, state[t] = "RECONCILING"
        PROVE  /\ attempt[t] # None /\ attempt[t].payment = None
               /\ attempt[t].order # None => attempt[t].order = attempt[t].id
    BY <1>1, <1>2 DEF Ownership, StateNeedsEvidence, StoredOrderIsOwn, NoPaymentBeforePending, Verifiable
  <1>3. ASSUME NEW t \in Txns, Resolve(w, t)
        PROVE  \A u \in Txns : AttemptStep(u)
    <2>1. PICK a \in AttemptRecord :
             /\ attempt' = [attempt EXCEPT ![t] = a]
             /\ a.id = attempt[t].id /\ a.payment = None /\ a.order = a.id
      BY <1>1, <1>3, ResolveOnlyPends
    <2>2. state[t] = "RECONCILING"
      BY <1>3 DEF Resolve
    <2> QED
      BY <1>1, <1>2, <2>1, <2>2, SavedIsAttemptStep
  <1>4. ASSUME NEW t \in Txns, GiveUp(w, t)
        PROVE  \A u \in Txns : AttemptStep(u)
    <2>1. PICK a \in SavedReads(t) : attempt' = [attempt EXCEPT ![t] = a]
      BY <1>4 DEF GiveUp
    <2>2. state[t] = "RECONCILING"
      BY <1>4 DEF GiveUp
    <2>3. a.id = attempt[t].id /\ a.payment = None
      BY <1>1, <2>2, SavedReadsOwn
    <2>4. a # None
      BY <1>1, <2>2, SavedReadsTypes DEF Ownership
    <2>5. attempt[t].order # None => a.order = attempt[t].order
      <3> SUFFICES ASSUME attempt[t].order # None
                   PROVE  a.order = attempt[t].order
        OBVIOUS
      <3>1. WithOrder(t) = {attempt[t]}
        BY DEF WithOrder
      <3>2. a \in {attempt[t]} \/ a = [attempt[t] EXCEPT !.orderState = LookupOrder(attempt[t].order)]
        BY <3>1 DEF SavedReads
      <3>3. attempt[t] \in AttemptRecord
        BY <1>1, <1>2, <2>2 DEF TypeOK, StoreTypeOK
      <3> QED
        BY <3>2, <3>3 DEF AttemptRecord
    <2> QED
      BY <1>1, <1>2, <2>1, <2>2, <2>3, <2>4, <2>5, SavedIsAttemptStep
  <1>5. CASE UNCHANGED attempt
    BY <1>5, SameIsAttemptStep
  <1> QED
    BY <1>3, <1>4, <1>5 DEF ReconcileStep, StartReconcile, CrashReconcile, storeVars

(* Evidence is applied to the attempt that names its order, and its        *)
(* payment if it names one.                                                *)
LEMMA CallbackAttempts ==
  ASSUME Custody, TypeOK', NEW h \in Handlers, CallbackStep(h)
  PROVE  \A u \in Txns : AttemptStep(u)
  <1>1. TypeOK
    BY DEF Custody
  <1>2. ASSUME Apply(h), attempt' # attempt
        PROVE  \A u \in Txns : AttemptStep(u)
    <2> DEFINE t == job[h].txn
               p == job[h].payment
               o == pay[p].order
               ps == job[h].payState
               os == Present(job[h].orderState, attempt[t].orderState)
               a == [attempt[t] EXCEPT !.order = o, !.payment = p, !.orderState = os, !.payState = ps]
    <2>1. t \in Txns
      BY <1>1, <1>2 DEF Apply, TypeOK, VerifyTypeOK, Job
    <2>2. /\ AcceptsEvidence(t, o, p)
          /\ ~AlreadySettled(t)
          /\ attempt' = [attempt EXCEPT ![t] = a]
      BY <1>2 DEF Apply, SaveObservation
    <2>3. attempt[t] \in AttemptRecord /\ attempt[t] # None
      BY <1>1, <2>1, <2>2 DEF AcceptsEvidence, TypeOK, StoreTypeOK
    <2>4. /\ p \in Payments /\ o \in Orders
          /\ ps \in PaymentStates \cup {None} /\ os \in OrderStates \cup {None}
      <3>1. job[h] \in Job
        BY <1>1, <1>2 DEF Apply, TypeOK, VerifyTypeOK
      <3>2. pay[p] \in PaymentRecord
        BY <1>1, <1>2, <3>1 DEF Apply, Custody, PaymentsExist, Job, TypeOK, ProviderTypeOK
      <3> QED
        BY <2>3, <3>1, <3>2 DEF Job, PaymentRecord, Present, AttemptRecord
    <2>5. a \in AttemptRecord /\ a.id = attempt[t].id /\ a.order = o /\ a.payment = p
      BY <2>3, <2>4 DEF AttemptRecord
    <2>6. attempt[t].order = o /\ attempt[t].payment \in {None, p} /\ state[t] # "SUCCEEDED"
      BY <2>2 DEF AcceptsEvidence, AlreadySettled
    <2>7. a # None
      BY <2>5
    <2> HIDE DEF t, p, o, a
    <2> QED
      BY <1>1, <2>1, <2>2, <2>3, <2>5, <2>6, <2>7, SavedIsAttemptStep
  <1>3. CASE UNCHANGED attempt
    BY <1>3, SameIsAttemptStep
  <1> QED
    BY <1>2, <1>3
    DEF CallbackStep, BeginCheckout, IgnoreWebhook, OrphanWebhook, AcceptWebhook, ReadPayment,
        ReadOrder, FinishWebhook, AbandonJob, storeVars

(* No step of any actor makes an attempt forget what it names.             *)
LEMMA AttemptSteps == Custody /\ [Next]_vars => \A t \in Txns : AttemptStep(t)
  <1> SUFFICES ASSUME Custody, [Next]_vars
               PROVE  \A t \in Txns : AttemptStep(t)
    OBVIOUS
  <1>1. TypeOK'
    BY StepCustody DEF Custody
  <1>2. CASE (ProviderStep /\ UNCHANGED <<storeVars, execVars, recon, job>>) \/ UNCHANGED vars
              \/ \E t \in Txns : GatesChange(t)
    BY <1>2, SameIsAttemptStep DEF vars, storeVars, GatesChange
  <1> QED
    BY <1>1, <1>2, ExecuteAttempts, ReconcileAttempts, CallbackAttempts DEF Next

------------------------------------------------------------------------------
(* Transitions and fresh rows.                                             *)

(* The services take only transitions of the table.                        *)
LEMMA TakenAreAllowed == TakenTransitions \subseteq AllowedTransitions
  BY DEF TakenTransitions, AllowedTransitions, BaseTransitions

(* A step adds transitions of the table to the audit.                      *)
LEMMA LegalStep == Custody /\ LegalTransitions /\ [Next]_vars => LegalTransitions'
  <1> SUFFICES ASSUME Custody, LegalTransitions, [Next]_vars, NEW t \in Txns
               PROVE  audit'[t] \subseteq AllowedTransitions
    BY DEF LegalTransitions
  <1>1. RowStep(t) /\ audit[t] \subseteq AllowedTransitions
    BY RowSteps DEF LegalTransitions
  <1>2. {<<"PAYMENT_PENDING", "VERIFYING">>, <<"VERIFYING", "SUCCEEDED">>} \subseteq AllowedTransitions
    BY DEF AllowedTransitions, BaseTransitions
  <1> QED
    BY <1>1, <1>2, TakenAreAllowed DEF RowStep, RowStands, RowMoves, RowSettles

(* No transition leads back to READY.                                      *)
LEMMA FreshStep == Custody /\ ReadyIsFresh /\ [Next]_vars => ReadyIsFresh'
  <1> SUFFICES ASSUME Custody, ReadyIsFresh, [Next]_vars, NEW t \in Txns, state'[t] = "READY"
               PROVE  attempt'[t] = None
    BY DEF ReadyIsFresh
  <1>1. RowStep(t) /\ AttemptStep(t)
    BY RowSteps, AttemptSteps
  <1>2. state[t] = "READY"
    BY <1>1 DEF RowStep, RowStands, RowMoves, RowSettles, TakenTransitions
  <1> QED
    BY <1>1, <1>2 DEF ReadyIsFresh, AttemptStep, AttemptStarts

------------------------------------------------------------------------------
(* Keys and answers.                                                       *)

Answers ==
    /\ ClaimsAreOwned
    /\ RepliesMatchRequests
    /\ AnswersAreFiled

(* What was told stays on file while claims are only finished, attempts    *)
(* keep their ids and their requests' calls, and what is told anew is.     *)
LEMMA FiledStays ==
  ASSUME Custody, Answers,
         \A t \in Txns : attempt[t] # None =>
           /\ attempt'[t] # None /\ attempt'[t].id = attempt[t].id
           /\ call'[attempt[t].id] = call[attempt[t].id],
         \A s \in Scopes : claims[s] # None =>
           /\ claims'[s] # None /\ claims'[s].txn = claims[s].txn
           /\ claims[s].code # "pending" => claims'[s].code = claims[s].code,
         \A s \in Scopes : claims[s] = None /\ claims'[s] # None =>
           claims'[s].txn \in Txns /\ attempt'[claims'[s].txn] # None,
         \A q \in Requests : Told(q)' =>
           (Told(q) /\ reply'[q] = reply[q] /\ call'[q] = call[q]) \/ Filed(q)'
  PROVE  AnswersAreFiled'
  <1>1. ASSUME NEW s \in Scopes, claims'[s] # None
        PROVE  attempt'[claims'[s].txn] # None
    <2>1. CASE claims[s] # None
      <3>1. claims[s].txn \in Txns
        BY <2>1 DEF Custody, TypeOK, StoreTypeOK, ClaimRecord
      <3> QED
        BY <2>1, <3>1 DEF Answers, AnswersAreFiled
    <2>2. CASE claims[s] = None
      BY <1>1, <2>2
    <2> QED
      BY <2>1, <2>2
  <1>2. ASSUME NEW q \in Requests, Told(q), reply'[q] = reply[q], call'[q] = call[q]
        PROVE  Filed(q)'
    <2> DEFINE c == call[q]
               d == attempt[c.txn].id
    <2>1. c \in Call /\ c # None /\ attempt[c.txn] # None /\ claims[Scope(c)] # None
      BY <1>2 DEF Answers, AnswersAreFiled, Filed, Custody, TypeOK, ExecTypeOK
    <2>2. c.txn \in Txns /\ Scope(c) \in Scopes
      BY <2>1 DEF Call, Scope, Scopes
    <2>3. /\ attempt'[c.txn] # None /\ attempt'[c.txn].id = d /\ call'[d] = call[d]
          /\ claims'[Scope(c)] # None
          /\ claims[Scope(c)].code # "pending" => claims'[Scope(c)].code = claims[Scope(c)].code
      BY <2>1, <2>2
    <2>4. Final(q)' <=> Final(q)
      BY <1>2, <2>3 DEF Final, Scope
    <2>5. Final(q) => claims[Scope(c)].code = IF reply[q].kind = "unknown" THEN "503" ELSE "200"
      BY <1>2 DEF Answers, AnswersAreFiled, Filed
    <2> QED
      BY <1>2, <2>1, <2>3, <2>4, <2>5 DEF Filed, Scope
  <1> QED
    BY <1>1, <1>2 DEF AnswersAreFiled

(* Steps of the other actors leave calls, keys and answers alone, and      *)
(* attempts keep their ids.                                                *)
LEMMA AnswersFrame ==
  ASSUME Custody, Answers, UNCHANGED <<claims, execVars>>,
         \A t \in Txns : AttemptStep(t)
  PROVE  Answers'
  <1>1. \A s \in Scopes : claims[s] # None => claims[s].txn \in Txns
    BY DEF Custody, TypeOK, StoreTypeOK, ClaimRecord
  <1>2. ClaimsAreOwned'
    BY <1>1 DEF Answers, ClaimsAreOwned, AttemptStep, AttemptStands, execVars
  <1>3. RepliesMatchRequests'
    BY DEF Answers, RepliesMatchRequests, execVars
  <1>4. AnswersAreFiled'
    BY FiledStays DEF AttemptStep, AttemptStands, execVars, Told
  <1> QED
    BY <1>2, <1>3, <1>4 DEF Answers

(* What the proofs below read off the invariant about one request, one     *)
(* transaction and one key.                                                *)
LEMMA AnswerFacts ==
  ASSUME Custody, Answers
  PROVE  /\ \A t \in Txns : attempt[t] # None =>
               attempt[t].id \in Requests /\ pc[attempt[t].id] # "idle"
         /\ \A r \in Requests : pc[r] \in InService =>
               /\ call[r] \in Call /\ Scope(call[r]) \in Scopes
               /\ attempt[call[r].txn] # None /\ attempt[call[r].txn].id = r
               /\ claims[Scope(call[r])] # None
         /\ \A s \in Scopes : claims[s] # None => claims[s].txn \in Txns
  <1> USE DEF Custody, Ownership, TypeOK, StoreTypeOK, ExecTypeOK
  <1>1. \A t \in Txns : attempt[t] # None =>
          attempt[t].id \in Requests /\ pc[attempt[t].id] # "idle"
    BY DEF AttemptsAreDistinct, AttemptRecord
  <1>2. \A r \in Requests : pc[r] \in InService =>
          /\ call[r] \in Call
          /\ attempt[call[r].txn] # None /\ attempt[call[r].txn].id = r
    BY DEF RequestsAreOwners
  <1>3. \A c \in Call : Scope(c) \in Scopes /\ c.txn \in Txns
    BY DEF Scope, Scopes, Call
  <1>4. \A s \in Scopes : claims[s] # None => claims[s].txn \in Txns
    BY DEF ClaimRecord
  <1>5. \A t \in Txns : [txn |-> t, code |-> "pending"] # None
    BY DEF ClaimRecord
  <1>6. \A r \in Requests : pc[r] \in InService => claims[Scope(call[r])] # None
    <2> SUFFICES ASSUME NEW r \in Requests, pc[r] \in InService
                 PROVE  claims[Scope(call[r])] # None
      OBVIOUS
    <2>1. claims[Scope(call[r])] = [txn |-> call[r].txn, code |-> "pending"]
      BY DEF Answers, ClaimsAreOwned
    <2> QED
      BY <1>2, <1>3, <1>5, <2>1
  <1> QED
    BY <1>1, <1>2, <1>3, <1>4, <1>6

(* A request that is answered by its first database transaction claims its *)
(* key for good, or not at all.                                            *)
LEMMA AnsweredAtOnce ==
  ASSUME Custody, Answers, NEW r \in Requests, NEW c \in Call, NEW kind, NEW t,
         Arrives(r, c), Answer(r, kind, t), UNCHANGED attempt,
         kind # "rejected" => t = c.txn /\ Owner[t] = c.buyer,
         kind # "rejected" => attempt[c.txn] # None /\ claims'[Scope(c)] # None,
         kind = "unknown" => claims'[Scope(c)].code = "503",
         kind = "view" /\ Scope(call[attempt[c.txn].id]) # Scope(c) => claims'[Scope(c)].code = "200",
         kind \in {"view", "unknown", "rejected"},
         \/ UNCHANGED claims
         \/ /\ claims[Scope(c)] = None
            /\ Owner[c.txn] = c.buyer
            /\ attempt[c.txn] # None
            /\ SaveClaim(Scope(c), c.txn, "200")
  PROVE  Answers'
  <1>1. /\ Scope(c) \in Scopes /\ Scope(c)[1] = c.buyer
        /\ pc[r] = "idle" /\ r \notin {x \in Requests : pc[x] \in InService}
    BY DEF Scope, Scopes, Call, Arrives
  <1>2. /\ call'[r] = c /\ pc'[r] = "done" /\ reply'[r] = [kind |-> kind, txn |-> t]
        /\ \A x \in Requests : x # r => call'[x] = call[x] /\ pc'[x] = pc[x] /\ reply'[x] = reply[x]
    BY DEF Arrives, Answer, Goto, Custody, TypeOK, ExecTypeOK
  <1>3. \A s \in Scopes :
           \/ claims'[s] = claims[s]
           \/ /\ s = Scope(c) /\ claims[s] = None /\ Owner[c.txn] = c.buyer
              /\ claims'[s].code = "200" /\ claims'[s].txn = c.txn
    BY <1>1 DEF SaveClaim, Custody, TypeOK, StoreTypeOK
  <1>4. \A u \in Txns : attempt[u] # None => attempt[u].id \in Requests /\ attempt[u].id # r
    BY <1>1, AnswerFacts
  <1>5. ClaimsAreOwned'
    <2>1. \A s \in Scopes : claims'[s] # None => Owner[claims'[s].txn] = s[1]
      BY <1>1, <1>3 DEF Answers, ClaimsAreOwned
    <2>2. ASSUME NEW s \in Scopes, claims'[s] # None, claims'[s].code # "200"
          PROVE  /\ attempt[claims'[s].txn] # None
                 /\ Scope(call'[attempt[claims'[s].txn].id]) = s
      <3>1. claims'[s] = claims[s] /\ claims[s].txn \in Txns
        BY <1>3, <2>2, AnswerFacts
      <3>2. attempt[claims[s].txn] # None /\ Scope(call[attempt[claims[s].txn].id]) = s
        BY <2>2, <3>1 DEF Answers, ClaimsAreOwned
      <3> QED
        BY <1>2, <1>4, <3>1, <3>2
    <2>3. ASSUME NEW x \in Requests, pc'[x] \in InService
          PROVE  /\ Owner[call'[x].txn] = call'[x].buyer
                 /\ claims'[Scope(call'[x])] = [txn |-> call'[x].txn, code |-> "pending"]
      <3>1. x # r
        BY <1>2, <2>3
      <3>2. call'[x] = call[x] /\ pc[x] \in InService
        BY <1>2, <2>3, <3>1
      <3>3. claims'[Scope(call[x])] = claims[Scope(call[x])]
        BY <1>3, <3>2, AnswerFacts
      <3> QED
        BY <3>2, <3>3 DEF Answers, ClaimsAreOwned
    <2>4. \A x \in Requests : pc'[x] = "idle" => reply'[x] = None
      BY <1>2 DEF Answers, ClaimsAreOwned
    <2> QED
      BY <2>1, <2>2, <2>3, <2>4 DEF ClaimsAreOwned
  <1>6. RepliesMatchRequests'
    BY <1>2 DEF Answers, RepliesMatchRequests
  <1>7. AnswersAreFiled'
    <2>1. Filed(r)' \/ ~Told(r)'
      <3>1. SUFFICES ASSUME kind # "rejected"
                     PROVE  Filed(r)'
        BY <1>2 DEF Told
      <3>2. attempt'[c.txn] # None /\ attempt'[c.txn].id = attempt[c.txn].id
            /\ attempt[c.txn].id # r /\ call'[attempt[c.txn].id] = call[attempt[c.txn].id]
        BY <1>2, <1>4, <3>1 DEF Call
      <3>3. c # None /\ claims'[Scope(c)] # None
        BY <3>1, ExecutionAssumption DEF ExecutionAssumption
      <3>4. Final(r)' => claims'[Scope(c)].code = IF kind = "unknown" THEN "503" ELSE "200"
        BY <1>2, <3>1, <3>2 DEF Final, Scope
      <3> QED
        BY <1>2, <3>2, <3>3, <3>4 DEF Filed, Scope
    <2>2. \A s \in Scopes : claims[s] # None => claims'[s] = claims[s]
      BY <1>3
    <2>3. \A s \in Scopes : claims[s] = None /\ claims'[s] # None =>
            claims'[s].txn \in Txns /\ attempt'[claims'[s].txn] # None
      <3>1. ASSUME NEW s \in Scopes, claims[s] = None, claims'[s] # None
            PROVE  s = Scope(c) /\ claims'[s].txn = c.txn /\ attempt[c.txn] # None
        BY <1>3, <3>1
      <3> QED
        BY <3>1 DEF Call
    <2>4. \A u \in Txns : attempt[u] # None =>
            /\ attempt'[u] # None /\ attempt'[u].id = attempt[u].id
            /\ call'[attempt[u].id] = call[attempt[u].id]
      BY <1>2, <1>4
    <2>5. \A q \in Requests : Told(q)' =>
            (Told(q) /\ reply'[q] = reply[q] /\ call'[q] = call[q]) \/ Filed(q)'
      BY <1>2, <2>1 DEF Told
    <2> QED
      BY <2>2, <2>3, <2>4, <2>5, FiledStays
  <1> QED
    BY <1>5, <1>6, <1>7 DEF Answers

(* A request that starts a transaction takes the key and the attempt.      *)
LEMMA StartedAnswers ==
  ASSUME Custody, Answers, NEW r \in Requests, NEW c \in Call, CommitExecuting(r, c)
  PROVE  Answers'
  <1>1. /\ Scope(c) \in Scopes /\ Scope(c)[1] = c.buyer /\ c.txn \in Txns
        /\ pc[r] = "idle" /\ claims[Scope(c)] = None /\ attempt[c.txn] = None
        /\ Owner[c.txn] = c.buyer
    BY DEF Scope, Scopes, Call, CommitExecuting, Arrives, Startable
  <1>2. /\ call'[r] = c /\ pc'[r] = "dispatching" /\ reply' = reply
        /\ \A x \in Requests : x # r => call'[x] = call[x] /\ pc'[x] = pc[x]
    BY DEF CommitExecuting, Arrives, Goto, Custody, TypeOK, ExecTypeOK
  <1>3. /\ claims'[Scope(c)] = [txn |-> c.txn, code |-> "pending"]
        /\ \A s \in Scopes : s # Scope(c) => claims'[s] = claims[s]
    BY <1>1 DEF CommitExecuting, SaveClaim, Custody, TypeOK, StoreTypeOK
  <1>4. /\ attempt'[c.txn].id = r /\ attempt'[c.txn] # None
        /\ \A u \in Txns : u # c.txn => attempt'[u] = attempt[u]
    <2>1. NewAttempt(r) \in AttemptRecord /\ NewAttempt(r).id = r
      BY DEF NewAttempt, AttemptRecord
    <2>2. NewAttempt(r) # None
      BY <2>1
    <2> QED
      BY <1>1, <2>1, <2>2 DEF CommitExecuting, Custody, TypeOK, StoreTypeOK
  <1>5. \A u \in Txns : attempt[u] # None => attempt[u].id \in Requests /\ attempt[u].id # r
    BY <1>1, AnswerFacts
  <1>6. ASSUME NEW s \in Scopes, claims'[s] # None, claims'[s].code # "200", s # Scope(c)
        PROVE  /\ claims'[s] = claims[s]
               /\ attempt[claims[s].txn] # None /\ attempt'[claims[s].txn] = attempt[claims[s].txn]
               /\ Scope(call'[attempt[claims[s].txn].id]) = s
    <2>1. claims'[s] = claims[s] /\ claims[s].txn \in Txns
      BY <1>3, <1>6, AnswerFacts
    <2>2. attempt[claims[s].txn] # None /\ Scope(call[attempt[claims[s].txn].id]) = s
      BY <1>6, <2>1 DEF Answers, ClaimsAreOwned
    <2> QED
      BY <1>1, <1>2, <1>4, <1>5, <2>1, <2>2
  <1>7. ClaimsAreOwned'
    <2>1. \A s \in Scopes : claims'[s] # None => Owner[claims'[s].txn] = s[1]
      BY <1>1, <1>3 DEF Answers, ClaimsAreOwned
    <2>2. ASSUME NEW s \in Scopes, claims'[s] # None, claims'[s].code # "200"
          PROVE  attempt'[claims'[s].txn] # None /\ Scope(call'[attempt'[claims'[s].txn].id]) = s
      BY <1>2, <1>3, <1>4, <1>6, <2>2
    <2>3. ASSUME NEW x \in Requests, pc'[x] \in InService
          PROVE  /\ Owner[call'[x].txn] = call'[x].buyer
                 /\ claims'[Scope(call'[x])] = [txn |-> call'[x].txn, code |-> "pending"]
      <3>1. CASE x = r
        BY <1>1, <1>2, <1>3, <3>1
      <3>2. CASE x # r
        <4>1. call'[x] = call[x] /\ pc[x] \in InService
          BY <1>2, <2>3, <3>2
        <4>2. claims'[Scope(call[x])] = claims[Scope(call[x])]
          BY <1>1, <1>3, <4>1, AnswerFacts
        <4> QED
          BY <4>1, <4>2 DEF Answers, ClaimsAreOwned
      <3> QED
        BY <3>1, <3>2
    <2>4. \A x \in Requests : pc'[x] = "idle" => reply'[x] = None
      BY <1>2 DEF Answers, ClaimsAreOwned
    <2> QED
      BY <2>1, <2>2, <2>3, <2>4 DEF ClaimsAreOwned
  <1>8. RepliesMatchRequests'
    BY <1>1, <1>2 DEF Answers, ClaimsAreOwned, RepliesMatchRequests
  <1>9. AnswersAreFiled'
    <2>1. \A t \in Txns : attempt[t] # None =>
            /\ attempt'[t] # None /\ attempt'[t].id = attempt[t].id
            /\ call'[attempt[t].id] = call[attempt[t].id]
      BY <1>1, <1>2, <1>4, <1>5
    <2>2. \A s \in Scopes : claims[s] # None => claims'[s] = claims[s]
      BY <1>1, <1>3
    <2>3. \A s \in Scopes : claims[s] = None /\ claims'[s] # None =>
            claims'[s].txn \in Txns /\ attempt'[claims'[s].txn] # None
      BY <1>1, <1>3, <1>4
    <2>4. \A q \in Requests : Told(q)' => Told(q) /\ reply'[q] = reply[q] /\ call'[q] = call[q]
      BY <1>1, <1>2 DEF Told, Answers, ClaimsAreOwned
    <2> QED
      BY <2>1, <2>2, <2>3, <2>4, FiledStays
  <1> QED
    BY <1>7, <1>8, <1>9 DEF Answers

(* A request on its way keeps its key, its call and its attempt.           *)
LEMMA ProceedingAnswers ==
  ASSUME Custody, Answers, NEW r \in Requests,
         Dispatch(r) \/ ReceiveOrder(r) \/ DispatchFails(r) \/ CrashExecute(r)
  PROVE  Answers'
  <1>1. /\ pc[r] \in InService /\ UNCHANGED <<claims, attempt, call, reply>>
        /\ \A x \in Requests : x # r => pc'[x] = pc[x]
        /\ pc'[r] # "idle"
    BY DEF Dispatch, ReceiveOrder, DispatchFails, CrashExecute, NothingStored, storeVars, Goto,
           Custody, TypeOK, ExecTypeOK
  <1>2. ClaimsAreOwned'
    BY <1>1 DEF Answers, ClaimsAreOwned
  <1>3. RepliesMatchRequests'
    BY <1>1 DEF Answers, RepliesMatchRequests
  <1>4. AnswersAreFiled'
    BY <1>1, FiledStays DEF Told
  <1> QED
    BY <1>2, <1>3, <1>4 DEF Answers

(* The outcome of a dispatch is filed under the key of its own request and *)
(* told to it.                                                             *)
LEMMA RecordedAnswers ==
  ASSUME Custody, Answers, NEW r \in Requests, RecordOrder(r) \/ RecordUnknown(r),
         \A t \in Txns : AttemptStep(t)
  PROVE  Answers'
  <1> DEFINE t == call[r].txn
  <1>1. /\ pc[r] \in InService
        /\ call[r] \in Call /\ Scope(call[r]) \in Scopes /\ t \in Txns
        /\ attempt[t] # None /\ attempt[t].id = r
        /\ claims[Scope(call[r])] = [txn |-> t, code |-> "pending"]
        /\ Owner[t] = call[r].buyer
    <2>1. pc[r] \in InService
      BY DEF RecordOrder, RecordUnknown
    <2> QED
      BY <2>1, AnswerFacts DEF Answers, ClaimsAreOwned, Call
  <1>2. PICK code \in {"200", "503"}, kind \in {"view", "unknown"} :
          /\ code = "503" <=> kind = "unknown"
          /\ SaveClaim(Scope(call[r]), t, code)
          /\ Answer(r, kind, t)
          /\ UNCHANGED call
    BY DEF RecordOrder, RecordUnknown
  <1>3. /\ pc'[r] = "done" /\ reply'[r] = [kind |-> kind, txn |-> t]
        /\ \A x \in Requests : x # r => pc'[x] = pc[x] /\ reply'[x] = reply[x]
    BY <1>2 DEF Answer, Goto, Custody, TypeOK, ExecTypeOK
  <1>4. /\ claims'[Scope(call[r])] = [txn |-> t, code |-> code]
        /\ \A s \in Scopes : s # Scope(call[r]) => claims'[s] = claims[s]
    BY <1>1, <1>2 DEF SaveClaim, Custody, TypeOK, StoreTypeOK
  <1>5. \A u \in Txns : attempt[u] # None => attempt'[u] # None /\ attempt'[u].id = attempt[u].id
    BY DEF AttemptStep, AttemptStands
  <1>6. reply'[r] # None
    BY <1>1, <1>3 DEF Reply
  <1>7. ASSUME NEW s \in Scopes, claims'[s] # None, claims'[s].code # "200", s # Scope(call[r])
        PROVE  LET x == attempt[claims[s].txn].id IN
               /\ claims'[s] = claims[s] /\ claims[s].txn \in Txns
               /\ attempt'[claims[s].txn] # None /\ attempt'[claims[s].txn].id = x
               /\ x \in Requests /\ x # r /\ Scope(call[x]) = s
    <2>1. claims'[s] = claims[s] /\ claims[s].txn \in Txns
      BY <1>4, <1>7, AnswerFacts
    <2>2. attempt[claims[s].txn] # None /\ Scope(call[attempt[claims[s].txn].id]) = s
      BY <1>7, <2>1 DEF Answers, ClaimsAreOwned
    <2> QED
      BY <1>5, <1>7, <2>1, <2>2, AnswerFacts
  <1>8. ClaimsAreOwned'
    <2>1. \A s \in Scopes : claims'[s] # None => Owner[claims'[s].txn] = s[1]
      <3>1. Scope(call[r])[1] = call[r].buyer
        BY DEF Scope
      <3> QED
        BY <1>1, <1>4, <3>1 DEF Answers, ClaimsAreOwned
    <2>2. ASSUME NEW s \in Scopes, claims'[s] # None, claims'[s].code # "200"
          PROVE  attempt'[claims'[s].txn] # None /\ Scope(call'[attempt'[claims'[s].txn].id]) = s
      <3>1. CASE s = Scope(call[r])
        <4>1. attempt'[t] # None /\ attempt'[t].id = r
          BY <1>1, <1>5
        <4> QED
          BY <1>2, <1>4, <3>1, <4>1
      <3>2. CASE s # Scope(call[r])
        BY <1>2, <1>7, <2>2, <3>2
      <3> QED
        BY <3>1, <3>2
    <2>3. ASSUME NEW x \in Requests, pc'[x] \in InService
          PROVE  /\ Owner[call'[x].txn] = call'[x].buyer
                 /\ claims'[Scope(call'[x])] = [txn |-> call'[x].txn, code |-> "pending"]
      <3>1. x # r /\ pc[x] \in InService /\ call'[x] = call[x]
        BY <1>2, <1>3, <2>3
      <3>2. /\ Owner[call[x].txn] = call[x].buyer
            /\ claims[Scope(call[x])] = [txn |-> call[x].txn, code |-> "pending"]
            /\ Scope(call[x]) \in Scopes
            /\ attempt[call[x].txn].id = x
        BY <3>1, AnswerFacts DEF Answers, ClaimsAreOwned
      <3>3. Scope(call[x]) # Scope(call[r])
        <4> SUFFICES ASSUME Scope(call[x]) = Scope(call[r])
                     PROVE  FALSE
          OBVIOUS
        <4>1. call[x].txn = t
          BY <1>1, <3>2
        <4> QED
          BY <1>1, <3>1, <3>2, <4>1
      <3> QED
        BY <1>4, <3>1, <3>2, <3>3
    <2>4. \A x \in Requests : pc'[x] = "idle" => reply'[x] = None
      BY <1>3 DEF Answers, ClaimsAreOwned
    <2> QED
      BY <2>1, <2>2, <2>3, <2>4 DEF ClaimsAreOwned
  <1>9. RepliesMatchRequests'
    BY <1>1, <1>2, <1>3 DEF Answers, RepliesMatchRequests
  <1>10. AnswersAreFiled'
    <2>1. Filed(r)'
      <3>1. /\ call' = call /\ call[r] # None
            /\ attempt'[t] # None /\ claims'[Scope(call[r])] # None
        <4>1. claims'[Scope(call[r])] \in ClaimRecord
          BY <1>1, <1>2, <1>4 DEF ClaimRecord
        <4> QED
          BY <1>1, <1>2, <1>5, <4>1, ExecutionAssumption, StoreAssumption
             DEF ExecutionAssumption, StoreAssumption
      <3>2. claims'[Scope(call[r])].code = IF reply'[r].kind = "unknown" THEN "503" ELSE "200"
        BY <1>2, <1>3, <1>4
      <3> QED
        BY <3>1, <3>2 DEF Filed, Scope
    <2>2. \A s \in Scopes : claims[s] # None =>
            /\ claims'[s] # None /\ claims'[s].txn = claims[s].txn
            /\ claims[s].code # "pending" => claims'[s].code = claims[s].code
      <3>1. claims'[Scope(call[r])] # None
        BY <2>1, <1>2 DEF Filed, Scope
      <3> QED
        BY <1>1, <1>4, <3>1
    <2>3. \A s \in Scopes : claims[s] = None => claims'[s] = None
      BY <1>1, <1>4, AnswerFacts
    <2>4. \A q \in Requests : Told(q)' =>
            (Told(q) /\ reply'[q] = reply[q] /\ call'[q] = call[q]) \/ Filed(q)'
      BY <1>2, <1>3, <2>1 DEF Told
    <2> QED
      BY <1>2, <1>5, <2>2, <2>3, <2>4, FiledStays
  <1> QED
    BY <1>8, <1>9, <1>10 DEF Answers

(* Every step of every actor keeps keys and answers consistent.            *)
LEMMA AnswersStep == Custody /\ Answers /\ [Next]_vars => Answers'
  <1> SUFFICES ASSUME Custody, Answers, [Next]_vars
               PROVE  Answers'
    OBVIOUS
  <1>1. \A t \in Txns : AttemptStep(t)
    BY AttemptSteps
  <1>2. ASSUME NEW r \in Requests, ExecuteStep(r)
        PROVE  Answers'
    <2>1. ASSUME NEW c \in Call, Replay(r, c)
          PROVE  Answers'
      <3> DEFINE s == Scope(c)
                 kind == Outcome(claims[s].code)
      <3>1. /\ Arrives(r, c) /\ UNCHANGED <<attempt, claims>>
            /\ Answer(r, kind, claims[s].txn)
            /\ s \in Scopes /\ s[1] = c.buyer /\ claims[s] # None /\ claims[s].txn = c.txn
        BY <2>1 DEF Replay, SameRequest, Fingerprint, NothingStored, storeVars, Scope, Scopes, Call
      <3>2. Owner[claims[s].txn] = c.buyer /\ attempt[c.txn] # None
        BY <3>1 DEF Answers, ClaimsAreOwned, AnswersAreFiled
      <3>3. /\ kind \in {"view", "unknown"}
            /\ kind = "unknown" => claims[s].code = "503"
            /\ kind = "view" /\ Scope(call[attempt[c.txn].id]) # s => claims[s].code = "200"
        <4>1. claims[s].code # "200" => Scope(call[attempt[claims[s].txn].id]) = s
          BY <3>1 DEF Answers, ClaimsAreOwned
        <4> QED
          BY <3>1, <4>1 DEF Outcome
      <3> HIDE DEF kind
      <3> QED
        BY <3>1, <3>2, <3>3, AnsweredAtOnce
    <2>2. ASSUME NEW c \in Call, RefuseKeyReuse(r, c) \/ RefuseForeignBuyer(r, c) \/ RefuseStale(r, c)
          PROVE  Answers'
      <3>1. Arrives(r, c) /\ UNCHANGED <<attempt, claims>> /\ Answer(r, "rejected", None)
        BY <2>2 DEF RefuseKeyReuse, RefuseForeignBuyer, RefuseStale, NothingStored, storeVars
      <3> QED
        BY <3>1, AnsweredAtOnce
    <2>3. ASSUME NEW c \in Call, ShowStarted(r, c)
          PROVE  Answers'
      <3>1. /\ Scope(c) \in Scopes /\ claims'[Scope(c)] = [txn |-> c.txn, code |-> "200"]
            /\ claims'[Scope(c)] # None
        <4>1. [txn |-> c.txn, code |-> "200"] \in ClaimRecord
          BY DEF ClaimRecord, Call
        <4> QED
          BY <2>3, <4>1, StoreAssumption
             DEF ShowStarted, SaveClaim, Scope, Scopes, Call, Custody, TypeOK, StoreTypeOK,
                 StoreAssumption
      <3>2. attempt[c.txn] # None
        BY <2>3 DEF ShowStarted, Custody, Ownership, StateNeedsEvidence, Call
      <3> QED
        BY <2>3, <3>1, <3>2, AnsweredAtOnce DEF ShowStarted
    <2>4. ASSUME NEW c \in Call, CommitExecuting(r, c)
          PROVE  Answers'
      BY <2>4, StartedAnswers
    <2>5. CASE Dispatch(r) \/ ReceiveOrder(r) \/ DispatchFails(r) \/ CrashExecute(r)
      BY <2>5, ProceedingAnswers
    <2>6. CASE RecordOrder(r) \/ RecordUnknown(r)
      BY <1>1, <2>6, RecordedAnswers
    <2> QED
      BY <1>2, <2>1, <2>2, <2>3, <2>4, <2>5, <2>6 DEF ExecuteStep, ExecuteArrives, ExecuteProceeds
  <1>3. CASE UNCHANGED <<claims, execVars>>
    BY <1>1, <1>3, AnswersFrame
  <1>4. ASSUME NEW w \in Workers, ReconcileStep(w), UNCHANGED execVars
        PROVE  Answers'
    BY <1>3, <1>4 DEF ReconcileStep, StartReconcile, Resolve, GiveUp, CrashReconcile, storeVars
  <1>5. ASSUME NEW h \in Handlers, CallbackStep(h), UNCHANGED execVars
        PROVE  Answers'
    BY <1>3, <1>5 DEF CallbackStep, BeginCheckout, IgnoreWebhook, OrphanWebhook, AcceptWebhook,
                      ReadPayment, ReadOrder, Apply, FinishWebhook, AbandonJob, storeVars
  <1>6. CASE \/ ProviderStep /\ UNCHANGED <<storeVars, execVars, recon, job>>
             \/ \E t \in Txns : GatesChange(t) /\ UNCHANGED <<execVars, recon, job>>
             \/ UNCHANGED vars
    BY <1>3, <1>6 DEF GatesChange, storeVars, vars
  <1> QED
    BY <1>2, <1>4, <1>5, <1>6 DEF Next

------------------------------------------------------------------------------
(* Events, jobs and receipts.                                              *)

Moneyed == {"captured", "refunded"}

EventTrue(e) == PayloadState(e) = "captured" => pay[e[1]].status \in Moneyed

EventOf(h) ==
    LET e == job[h].event IN
    job[h] # None /\ e # None =>
        /\ e \in emitted
        /\ e[2] \in SupportedEvents
        /\ job[h].payment = e[1]
        /\ job[h].txn \in AttemptsFor(pay[e[1]].order, e[1])
        /\ receipt[e] \in {"RECEIVED", "PROCESSED"}
        /\ PayloadState(e) = "captured" => job[h].payState \in {None, "captured", "refunded"}

FinishOf(h) ==
    job[h] # None /\ job[h].step = "finish" => job[h].event # None /\ Recorded(job[h].event)

(* The conjuncts of JobsAreFounded by event and by handler.                *)
LEMMA JobsByHandler ==
  /\ JobsAreFounded
       <=> (\A e \in emitted : EventTrue(e)) /\ (\A h \in Handlers : EventOf(h) /\ FinishOf(h))
  /\ JobsAreFounded'
       <=> (\A e \in emitted' : EventTrue(e)') /\ (\A h \in Handlers : EventOf(h)' /\ FinishOf(h)')
  <1>1. JobsAreFounded
          <=> (\A e \in emitted : EventTrue(e)) /\ (\A h \in Handlers : EventOf(h) /\ FinishOf(h))
    BY DEF JobsAreFounded, EventTrue, EventOf, FinishOf, Moneyed
  <1>2. JobsAreFounded'
          <=> (\A e \in emitted' : EventTrue(e)') /\ (\A h \in Handlers : EventOf(h)' /\ FinishOf(h)')
    BY DEF JobsAreFounded, EventTrue, EventOf, FinishOf, Moneyed
  <1> QED
    BY <1>1, <1>2

(* Only the provider changes orders, payments and events.                  *)
LEMMA ProviderAlone ==
  ASSUME [Next]_vars
  PROVE  \/ ProviderStep /\ UNCHANGED <<storeVars, execVars, recon, job>>
         \/ UNCHANGED <<order, pay, emitted>>
  <1> USE DEF providerVars
  <1>1. ASSUME NEW r \in Requests, ExecuteStep(r)
        PROVE  UNCHANGED <<order, pay, emitted>>
    BY <1>1 DEF ExecuteStep, ExecuteArrives, ExecuteProceeds, Replay, RefuseKeyReuse,
                RefuseForeignBuyer, ShowStarted, RefuseStale, CommitExecuting, Dispatch, ReceiveOrder,
                DispatchFails, RecordOrder, RecordUnknown, CrashExecute, NothingStored
  <1>2. ASSUME NEW w \in Workers, ReconcileStep(w)
        PROVE  UNCHANGED <<order, pay, emitted>>
    BY <1>2 DEF ReconcileStep, StartReconcile, Resolve, GiveUp, CrashReconcile
  <1>3. ASSUME NEW h \in Handlers, CallbackStep(h)
        PROVE  UNCHANGED <<order, pay, emitted>>
    BY <1>3 DEF CallbackStep, BeginCheckout, IgnoreWebhook, OrphanWebhook, AcceptWebhook, ReadPayment,
                ReadOrder, Apply, FinishWebhook, AbandonJob
  <1>4. CASE UNCHANGED vars \/ \E t \in Txns : GatesChange(t)
    BY <1>4 DEF vars, GatesChange
  <1> QED
    BY <1>1, <1>2, <1>3, <1>4 DEF Next

(* Captured money and the order it was paid on stand.                      *)
LEMMA PaymentsStand ==
  ASSUME Custody, [Next]_vars
  PROVE  \A p \in Payments : pay[p] # None =>
            /\ pay'[p] # None
            /\ pay'[p].order = pay[p].order
            /\ pay[p].status \in Moneyed => pay'[p].status \in Moneyed
  <1>1. CASE ProviderStep /\ UNCHANGED <<storeVars, execVars, recon, job>>
    BY <1>1, ProviderForgetsNothing DEF Custody, Moneyed
  <1> QED
    BY <1>1, ProviderAlone

(* What is recorded of an event stays recorded.                            *)
LEMMA RecordedStands ==
  ASSUME Custody, [Next]_vars, NEW e \in Events, Recorded(e)
  PROVE  Recorded(e)'
  <1>1. PICK t \in Txns :
          /\ attempt[t] # None
          /\ attempt[t].order = pay[e[1]].order
          /\ attempt[t].payment = e[1]
          /\ PayloadState(e) = "captured" => state[t] \in {"VERIFYING", "SUCCEEDED"}
    BY DEF Recorded
  <1>2. e[1] \in Payments
    BY DEF Events
  <1>3. pay[e[1]] # None
    BY <1>1, <1>2 DEF Custody, PaymentsExist
  <1>4. pay[e[1]].order # None
    BY <1>2, <1>3 DEF Custody, TypeOK, ProviderTypeOK, PaymentRecord
  <1>5. /\ attempt'[t] # None
        /\ attempt'[t].order = attempt[t].order
        /\ attempt'[t].payment = attempt[t].payment
    BY <1>1, <1>2, <1>4, AttemptSteps DEF AttemptStep, AttemptStands
  <1>6. pay'[e[1]].order = pay[e[1]].order
    BY <1>2, <1>3, PaymentsStand
  <1>7. state[t] \in {"VERIFYING", "SUCCEEDED"} => state'[t] \in {"VERIFYING", "SUCCEEDED"}
    BY RowSteps DEF RowStep, RowStands, RowMoves, RowSettles, TakenTransitions
  <1> QED
    BY <1>1, <1>5, <1>6, <1>7 DEF Recorded

(* The attempts that own an order or a payment go on owning it.            *)
LEMMA OwnersStand ==
  ASSUME Custody, [Next]_vars, NEW p \in Payments, pay[p] # None,
         NEW t \in AttemptsFor(pay[p].order, p)
  PROVE  t \in AttemptsFor(pay[p].order, p)'
  <1>1. t \in Txns /\ attempt[t] # None /\ (attempt[t].order = pay[p].order \/ attempt[t].payment = p)
    BY DEF AttemptsFor
  <1>2. pay[p].order # None /\ p # None
    BY DEF Custody, TypeOK, ProviderTypeOK, PaymentRecord
  <1>3. pay'[p].order = pay[p].order
    BY PaymentsStand
  <1>4. attempt'[t] # None /\ (attempt'[t].order = pay[p].order \/ attempt'[t].payment = p)
    BY <1>1, <1>2, AttemptSteps DEF AttemptStep, AttemptStands
  <1> QED
    BY <1>1, <1>3, <1>4 DEF AttemptsFor

(* No event tells of a capture before it, and events do not go away.       *)
LEMMA EventsStand ==
  ASSUME Custody, [Next]_vars, \A e \in emitted : EventTrue(e)
  PROVE  emitted \subseteq emitted' /\ \A e \in emitted' : EventTrue(e)'
  <1>1. \A e \in emitted : e[1] \in Payments /\ pay[e[1]] # None
    BY DEF Custody, PaymentsExist, TypeOK, ProviderTypeOK, Events
  <1>2. \A e \in emitted : EventTrue(e)'
    BY <1>1, PaymentsStand DEF EventTrue
  <1>3. CASE UNCHANGED emitted
    BY <1>2, <1>3
  <1>4. ASSUME NEW p \in Payments, NEW o \in Orders, NEW m \in Amounts,
               NEW s \in {"authorized", "failed"}, StartPayment(p, o, m, s)
        PROVE  emitted \subseteq emitted' /\ \A e \in emitted' : EventTrue(e)'
    <2> DEFINE new == <<p, IF s = "failed" THEN "payment.failed" ELSE "payment.authorized">>
    <2>1. emitted' = emitted \cup {new}
      BY <1>4 DEF StartPayment
    <2>2. PayloadState(new) # "captured"
      BY DEF PayloadState
    <2>3. EventTrue(new)'
      BY <2>2 DEF EventTrue
    <2> HIDE DEF new
    <2> QED
      BY <1>2, <2>1, <2>3
  <1>5. ASSUME NEW p \in Payments, CapturePayment(p) \/ FailPayment(p) \/ RefundPayment(p) \/ MarkOrderPaid(p)
        PROVE  emitted \subseteq emitted' /\ \A e \in emitted' : EventTrue(e)'
    <2>1. pay[p] \in PaymentRecord /\ DOMAIN pay = Payments
      BY <1>5 DEF CapturePayment, FailPayment, RefundPayment, MarkOrderPaid, SettlePayment,
                  Custody, TypeOK, ProviderTypeOK
    <2>2. \A st \in PaymentStates : [pay[p] EXCEPT !.status = st].status = st
      BY <2>1 DEF PaymentRecord
    <2>3. PICK name : emitted' = emitted \cup {<<p, name>>}
                       /\ (pay'[p].status \in Moneyed \/ name = "payment.failed")
      BY <1>5, <2>1, <2>2 DEF CapturePayment, FailPayment, RefundPayment, MarkOrderPaid,
                              SettlePayment, Moneyed, PaymentStates
    <2>4. name = "payment.failed" => PayloadState(<<p, name>>) # "captured"
      BY DEF PayloadState
    <2>5. EventTrue(<<p, name>>)'
      BY <2>3, <2>4 DEF EventTrue
    <2> QED
      BY <1>2, <2>3, <2>5
  <1>6. CASE ProviderStep
    <2>1. CASE \E a \in Attempts, t \in Txns : AcceptOrder(a, t)
      BY <1>3, <2>1 DEF AcceptOrder
    <2>2. CASE \E p \in Payments, m \in Amounts, s \in {"authorized", "failed"} :
                 \E o \in {x \in Orders : x = ForeignOrder \/ Payable(x)} : StartPayment(p, o, m, s)
      BY <1>4, <2>2
    <2> QED
      BY <1>5, <1>6, <2>1, <2>2 DEF ProviderStep
  <1> QED
    BY <1>3, <1>6, ProviderAlone

(* What a step may do to a receipt: it becomes final only for an event     *)
(* nobody works on, or after the event was recorded.                       *)
ReceiptStep(e) ==
    \/ receipt'[e] = receipt[e]
    \/ /\ receipt[e] \in {None, "RECEIVED"}
       /\ receipt'[e] \in {"RECEIVED", "IGNORED", "ORPHAN"}
       /\ receipt'[e] = "IGNORED" => e[2] \in UnsupportedEvents
       /\ receipt'[e] = "ORPHAN" => AttemptsFor(pay[e[1]].order, e[1]) = {}
    \/ /\ receipt[e] \in {"RECEIVED", "PROCESSED"}
       /\ receipt'[e] = "PROCESSED"
       /\ Recorded(e)

LEMMA ReceiptSteps ==
  ASSUME Custody, JobsAreFounded, [Next]_vars
  PROVE  \A e \in Events : ReceiptStep(e)
  <1>1. DOMAIN receipt = Events
    BY DEF Custody, TypeOK, StoreTypeOK
  <1>2. CASE UNCHANGED receipt
    BY <1>2 DEF ReceiptStep
  <1>3. ASSUME NEW h \in Handlers, NEW e \in Events,
               IgnoreWebhook(h, e) \/ OrphanWebhook(h, e) \/ AcceptWebhook(h, e)
        PROVE  \A x \in Events : ReceiptStep(x)
    <2>1. /\ receipt[e] \in {None, "RECEIVED"}
          /\ \A x \in Events : x # e => receipt'[x] = receipt[x]
      BY <1>1, <1>3 DEF IgnoreWebhook, OrphanWebhook, AcceptWebhook, Delivered, SetReceipt
    <2>2. /\ receipt'[e] \in {"RECEIVED", "IGNORED", "ORPHAN"}
          /\ receipt'[e] = "IGNORED" => e[2] \in UnsupportedEvents
          /\ receipt'[e] = "ORPHAN" => AttemptsFor(pay[e[1]].order, e[1]) = {}
      BY <1>1, <1>3 DEF IgnoreWebhook, OrphanWebhook, AcceptWebhook, SetReceipt, InProgress
    <2> QED
      BY <2>1, <2>2 DEF ReceiptStep
  <1>4. ASSUME NEW h \in Handlers, FinishWebhook(h)
        PROVE  \A x \in Events : ReceiptStep(x)
    <2>1. job[h] # None /\ job[h].step = "finish" /\ receipt' = [receipt EXCEPT ![job[h].event] = "PROCESSED"]
      BY <1>4 DEF FinishWebhook, SetReceipt
    <2>2. job[h].event # None /\ Recorded(job[h].event) /\ EventOf(h)
      BY <2>1, JobsByHandler DEF FinishOf
    <2>3. receipt[job[h].event] \in {"RECEIVED", "PROCESSED"}
      BY <2>1, <2>2 DEF EventOf
    <2> QED
      BY <1>1, <2>1, <2>2, <2>3 DEF ReceiptStep
  <1>5. ASSUME NEW r \in Requests, ExecuteStep(r)
        PROVE  UNCHANGED receipt
    BY <1>5 DEF ExecuteStep, ExecuteArrives, ExecuteProceeds, Replay, RefuseKeyReuse,
                RefuseForeignBuyer, ShowStarted, RefuseStale, CommitExecuting, Dispatch, ReceiveOrder,
                DispatchFails, RecordOrder, RecordUnknown, CrashExecute, NothingStored, storeVars
  <1>6. ASSUME NEW w \in Workers, ReconcileStep(w)
        PROVE  UNCHANGED receipt
    BY <1>6 DEF ReconcileStep, StartReconcile, Resolve, GiveUp, CrashReconcile, storeVars
  <1>7. ASSUME NEW h \in Handlers, CallbackStep(h)
        PROVE  \A x \in Events : ReceiptStep(x)
    <2>1. CASE \/ \E t \in Txns, p \in Payments : BeginCheckout(h, t, p)
               \/ ReadPayment(h) \/ ReadOrder(h) \/ Apply(h) \/ AbandonJob(h)
      BY <1>2, <2>1 DEF BeginCheckout, ReadPayment, ReadOrder, Apply, AbandonJob, storeVars
    <2> QED
      BY <1>3, <1>4, <1>7, <2>1 DEF CallbackStep
  <1>8. CASE \/ ProviderStep /\ UNCHANGED <<storeVars, execVars, recon, job>>
             \/ UNCHANGED vars \/ \E t \in Txns : GatesChange(t)
    BY <1>2, <1>8 DEF vars, storeVars, GatesChange
  <1> QED
    BY <1>2, <1>5, <1>6, <1>7, <1>8 DEF Next

(* A handler that does nothing keeps its footing while others act.         *)
LEMMA IdleHandler ==
  ASSUME Custody, JobsAreFounded, [Next]_vars, NEW g \in Handlers, job'[g] = job[g]
  PROVE  EventOf(g)' /\ FinishOf(g)'
  <1>1. EventOf(g) /\ FinishOf(g)
    BY JobsByHandler
  <1>2. CASE job[g] = None \/ job[g].event = None
    BY <1>1, <1>2 DEF EventOf, FinishOf
  <1>3. CASE job[g] # None /\ job[g].event # None
    <2>1. PICK e \in Events : e = job[g].event
      BY <1>3 DEF Custody, TypeOK, VerifyTypeOK, Job
    <2>2. /\ e \in emitted /\ e[2] \in SupportedEvents /\ job[g].payment = e[1]
          /\ job[g].txn \in AttemptsFor(pay[e[1]].order, e[1])
          /\ receipt[e] \in {"RECEIVED", "PROCESSED"}
          /\ PayloadState(e) = "captured" => job[g].payState \in {None, "captured", "refunded"}
      BY <1>1, <1>3, <2>1 DEF EventOf
    <2>3. e[1] \in Payments /\ pay[e[1]] # None
      BY <2>1, <2>2 DEF Custody, PaymentsExist, Events
    <2>4. e \in emitted'
      BY <2>2, EventsStand, JobsByHandler
    <2>5. job[g].txn \in AttemptsFor(pay[e[1]].order, e[1])'
      BY <2>2, <2>3, OwnersStand
    <2>6. receipt'[e] \in {"RECEIVED", "PROCESSED"}
      BY <2>2, ReceiptSteps DEF ReceiptStep, SupportedEvents, UnsupportedEvents
    <2>7. EventOf(g)'
      BY <2>1, <2>2, <2>4, <2>5, <2>6 DEF EventOf
    <2>8. FinishOf(g)'
      <3>1. job[g].step = "finish" => Recorded(e)
        BY <1>1, <1>3, <2>1 DEF FinishOf
      <3>2. job[g].step = "finish" => Recorded(e)'
        BY <3>1, RecordedStands
      <3> QED
        BY <1>3, <2>1, <3>2 DEF FinishOf
    <2> QED
      BY <2>7, <2>8
  <1> QED
    BY <1>2, <1>3

(* Evidence that was applied is recorded.                                  *)
LEMMA AppliedIsRecorded ==
  ASSUME Custody, JobsAreFounded, [Next]_vars, NEW h \in Handlers, Apply(h),
         NEW e \in Events, e = job[h].event
  PROVE  Recorded(e)'
  <1>1. job[h] \in Job /\ job[h] # None
    BY DEF Apply, Custody, TypeOK, VerifyTypeOK
  <1>2. PICK t \in Txns, p \in Payments : t = job[h].txn /\ p = job[h].payment
    BY <1>1 DEF Job
  <1> DEFINE o == pay[p].order
             ps == job[h].payState
             os == Present(job[h].orderState, attempt[t].orderState)
             a == [attempt[t] EXCEPT !.order = o, !.payment = p, !.orderState = os, !.payState = ps]
  <1>3. /\ p = e[1] /\ pay' = pay
        /\ PayloadState(e) = "captured" => ps # "failed"
    BY <1>1, <1>2, JobsByHandler DEF EventOf, Apply, providerVars, PaymentStates
  <1>4. /\ state[t] \in Verifiable /\ attempt[t] # None /\ attempt[t] \in AttemptRecord
        /\ attempt[t].order = o /\ attempt[t].payment \in {None, p}
    BY <1>2 DEF Apply, AcceptsEvidence, Custody, TypeOK, StoreTypeOK
  <1>5. CASE AlreadySettled(t)
    <2>1. UNCHANGED <<state, attempt>>
      BY <1>2, <1>5 DEF Apply, Stay
    <2>2. attempt[t].payment = p
      BY <1>4, <1>5 DEF AlreadySettled, Custody, SucceededIsPaid, CapturedFor
    <2> QED
      BY <1>2, <1>3, <1>4, <1>5, <2>1, <2>2 DEF Recorded, AlreadySettled
  <1>6. CASE ~AlreadySettled(t)
    <2>1. SaveObservation(t, o, p, os, ps) /\ Advance(t, os, ps)
      BY <1>2, <1>6 DEF Apply
    <2>2. attempt'[t] = a
      BY <2>1 DEF SaveObservation, Custody, TypeOK, StoreTypeOK
    <2>3. a.order = o /\ a.payment = p
      BY <1>4 DEF AttemptRecord
    <2>4. attempt'[t] # None
      BY <1>4, AttemptSteps DEF AttemptStep, AttemptStands
    <2>5. PayloadState(e) = "captured" => state'[t] \in {"VERIFYING", "SUCCEEDED"}
      BY <1>3, <1>4, <1>6, <2>1
      DEF Advance, MoveTo, MoveVia, Stay, Verifiable, AlreadySettled, Custody, TypeOK, StoreTypeOK
    <2> QED
      BY <1>2, <1>3, <2>2, <2>3, <2>4, <2>5 DEF Recorded
  <1> QED
    BY <1>5, <1>6

(* A handler that takes a step stays on firm ground.                       *)
LEMMA BusyHandler ==
  ASSUME Custody, JobsAreFounded, [Next]_vars, NEW h \in Handlers, CallbackStep(h)
  PROVE  EventOf(h)' /\ FinishOf(h)'
  <1>1. job[h] # None => job[h] \in Job
    BY DEF Custody, TypeOK, VerifyTypeOK
  <1>2. DOMAIN job = Handlers
    BY DEF Custody, TypeOK, VerifyTypeOK
  <1>3. CASE job'[h] = job[h]
    BY <1>3, IdleHandler
  <1>4. CASE job'[h] = None
    BY <1>4 DEF EventOf, FinishOf
  <1>5. ASSUME NEW t \in Txns, NEW p \in Payments, BeginCheckout(h, t, p)
        PROVE  EventOf(h)' /\ FinishOf(h)'
    <2>1. job'[h].event = None /\ job'[h].step = "payment"
      BY <1>2, <1>5 DEF BeginCheckout, NewJob
    <2> QED
      BY <2>1 DEF EventOf, FinishOf
  <1>6. ASSUME NEW e \in Events, AcceptWebhook(h, e)
        PROVE  EventOf(h)' /\ FinishOf(h)'
    <2>1. PICK t \in Txns :
            /\ AttemptsFor(pay[e[1]].order, e[1]) = {t}
            /\ job'[h] = IF PayloadState(e) = "captured"
                           THEN NewJob(e, "payment", t, e[1], None)
                           ELSE NewJob(e, "apply", t, e[1], PayloadState(e))
      BY <1>2, <1>6 DEF AcceptWebhook
    <2>2. /\ job'[h].event = e /\ job'[h].payment = e[1] /\ job'[h].txn = t
          /\ PayloadState(e) = "captured" => job'[h].payState = None
          /\ job'[h].step # "finish"
      BY <2>1 DEF NewJob
    <2>3. /\ e \in emitted /\ e[2] \in SupportedEvents
          /\ receipt'[e] = "RECEIVED" /\ UNCHANGED <<attempt, pay, emitted>>
      BY <1>6 DEF AcceptWebhook, Delivered, SetReceipt, InProgress, providerVars, Custody, TypeOK, StoreTypeOK
    <2>4. t \in AttemptsFor(pay[e[1]].order, e[1])'
      BY <2>1, <2>3 DEF AttemptsFor
    <2>5. EventOf(h)'
      BY <2>2, <2>3, <2>4 DEF EventOf
    <2>6. FinishOf(h)'
      BY <2>2 DEF FinishOf
    <2> QED
      BY <2>5, <2>6
  <1>7. ASSUME ReadPayment(h) \/ ReadOrder(h) \/ Apply(h), job'[h] # None
        PROVE  EventOf(h)' /\ FinishOf(h)'
    <2>1. /\ job[h] # None /\ job[h] \in Job
          /\ UNCHANGED <<receipt, pay, emitted>>
      BY <1>1, <1>7 DEF ReadPayment, ReadOrder, Apply, storeVars, providerVars
    <2>2. /\ job'[h].event = job[h].event /\ job'[h].payment = job[h].payment /\ job'[h].txn = job[h].txn
          /\ \/ job'[h].payState = job[h].payState
             \/ job'[h].payState = pay[job[h].payment].status
          /\ job'[h].step = "finish" => Apply(h) /\ job[h].event # None
      <3>1. CASE ReadPayment(h)
        <4>1. job'[h] = [job[h] EXCEPT !.step = "order", !.payState = LookupPayment(job[h].payment)]
          BY <1>2, <3>1 DEF ReadPayment
        <4> QED
          BY <2>1, <4>1 DEF Job, LookupPayment
      <3>2. CASE ReadOrder(h)
        <4>1. job'[h] = [job[h] EXCEPT !.step = "apply",
                                       !.orderState = LookupOrder(pay[job[h].payment].order)]
          BY <1>2, <3>2 DEF ReadOrder
        <4> QED
          BY <2>1, <4>1 DEF Job
      <3>3. CASE Apply(h)
        <4>1. job[h].event # None /\ job'[h] = [job[h] EXCEPT !.step = "finish"]
          BY <1>2, <1>7, <3>3 DEF Apply, Applied
        <4> QED
          BY <2>1, <3>3, <4>1 DEF Job
      <3> QED
        BY <1>7, <3>1, <3>2, <3>3
    <2>3. ASSUME job[h].event # None
          PROVE  EventOf(h)'
      <3>1. PICK e \in Events : e = job[h].event
        BY <2>1, <2>3 DEF Job
      <3>2. /\ e \in emitted /\ e[2] \in SupportedEvents /\ job[h].payment = e[1]
            /\ job[h].txn \in AttemptsFor(pay[e[1]].order, e[1])
            /\ receipt[e] \in {"RECEIVED", "PROCESSED"}
            /\ PayloadState(e) = "captured" => job[h].payState \in {None, "captured", "refunded"}
        BY <2>1, <2>3, <3>1, JobsByHandler DEF EventOf
      <3>3. PayloadState(e) = "captured" => pay[e[1]].status \in {"captured", "refunded"}
        BY <3>2, JobsByHandler DEF EventTrue, Moneyed
      <3>4. job[h].txn \in AttemptsFor(pay[e[1]].order, e[1])'
        <4>1. e[1] \in Payments /\ pay[e[1]] # None
          BY <3>2 DEF Custody, PaymentsExist, Events
        <4> QED
          BY <3>2, <4>1, OwnersStand
      <3>5. PayloadState(e) = "captured" => job'[h].payState \in {None, "captured", "refunded"}
        BY <2>2, <3>2, <3>3
      <3> QED
        BY <2>1, <2>2, <3>1, <3>2, <3>4, <3>5 DEF EventOf
    <2>4. EventOf(h)'
      BY <2>2, <2>3 DEF EventOf
    <2>5. FinishOf(h)'
      <3> SUFFICES ASSUME job'[h].step = "finish"
                   PROVE  job'[h].event # None /\ Recorded(job[h].event)'
        BY DEF FinishOf
      <3>1. PICK e \in Events : e = job[h].event /\ e = job'[h].event
        BY <2>1, <2>2 DEF Job
      <3>2. Recorded(e)'
        BY <2>2, <3>1, AppliedIsRecorded
      <3> QED
        BY <3>1, <3>2
    <2> QED
      BY <2>4, <2>5
  <1>8. ASSUME NEW e \in Events, IgnoreWebhook(h, e) \/ OrphanWebhook(h, e)
        PROVE  EventOf(h)' /\ FinishOf(h)'
    BY <1>3, <1>8 DEF IgnoreWebhook, OrphanWebhook
  <1>9. CASE FinishWebhook(h) \/ AbandonJob(h)
    BY <1>2, <1>4, <1>9 DEF FinishWebhook, AbandonJob
  <1>10. CASE ReadPayment(h) \/ ReadOrder(h) \/ Apply(h)
    BY <1>4, <1>7, <1>10
  <1> QED
    BY <1>5, <1>6, <1>8, <1>9, <1>10 DEF CallbackStep

(* Jobs stay founded, whoever acts.                                        *)
LEMMA JobsStep == Custody /\ JobsAreFounded /\ [Next]_vars => JobsAreFounded'
  <1> SUFFICES ASSUME Custody, JobsAreFounded, [Next]_vars
               PROVE  JobsAreFounded'
    OBVIOUS
  <1>1. \A e \in emitted' : EventTrue(e)'
    BY EventsStand, JobsByHandler
  <1>2. ASSUME NEW g \in Handlers
        PROVE  EventOf(g)' /\ FinishOf(g)'
    <2>1. CASE job'[g] = job[g]
      BY <2>1, IdleHandler
    <2>2. CASE CallbackStep(g)
      BY <2>2, BusyHandler
    <2>3. ASSUME NEW h \in Handlers, CallbackStep(h), h # g
          PROVE  job'[g] = job[g]
      BY <2>3 DEF CallbackStep, BeginCheckout, IgnoreWebhook, OrphanWebhook, AcceptWebhook,
                  ReadPayment, ReadOrder, Apply, Applied, FinishWebhook, AbandonJob,
                  Custody, TypeOK, VerifyTypeOK
    <2> QED
      BY <2>1, <2>2, <2>3 DEF Next, vars
  <1> QED
    BY <1>1, <1>2, JobsByHandler

(* A receipt becomes PROCESSED only when its event is recorded.            *)
LEMMA ProcessedStep ==
  Custody /\ JobsAreFounded /\ ProcessedIsRecorded /\ [Next]_vars => ProcessedIsRecorded'
  <1> SUFFICES ASSUME Custody, JobsAreFounded, ProcessedIsRecorded, [Next]_vars,
                      NEW e \in Events, receipt'[e] = "PROCESSED"
               PROVE  Recorded(e)'
    BY DEF ProcessedIsRecorded
  <1>1. Recorded(e)
    BY ReceiptSteps DEF ReceiptStep, ProcessedIsRecorded
  <1> QED
    BY <1>1, RecordedStands

------------------------------------------------------------------------------
(* The inductive invariant, and what it is for.                            *)

(* Nothing has been written yet.                                           *)
LEMMA InitInductive == Init => Inductive
  <1> SUFFICES ASSUME Init PROVE Bookkeeping
    BY InitCustody DEF Inductive
  <1> USE DEF Init, StoreInit, ProviderInit, ExecInit, VerifyInit
  <1>1. LegalTransitions /\ ReadyIsFresh
    BY DEF LegalTransitions, ReadyIsFresh
  <1>2. ClaimsAreOwned /\ RepliesMatchRequests /\ AnswersAreFiled
    BY DEF ClaimsAreOwned, RepliesMatchRequests, AnswersAreFiled, Told
  <1>3. JobsAreFounded
    BY DEF JobsAreFounded
  <1>4. ProcessedIsRecorded
    BY DEF ProcessedIsRecorded, ReceiptStates
  <1> QED
    BY <1>1, <1>2, <1>3, <1>4 DEF Bookkeeping

(* Every step of every actor preserves it.                                 *)
LEMMA StepInductive == Inductive /\ [Next]_vars => Inductive'
  <1> SUFFICES ASSUME Custody, Bookkeeping, [Next]_vars
               PROVE  (Custody /\ Bookkeeping)'
    BY DEF Inductive
  <1>1. Custody'
    BY StepCustody
  <1>2. LegalTransitions' /\ ReadyIsFresh'
    BY LegalStep, FreshStep DEF Bookkeeping
  <1>3. ClaimsAreOwned' /\ RepliesMatchRequests' /\ AnswersAreFiled'
    BY AnswersStep DEF Bookkeeping, Answers
  <1>4. JobsAreFounded' /\ ProcessedIsRecorded'
    BY JobsStep, ProcessedStep DEF Bookkeeping
  <1> QED
    BY <1>1, <1>2, <1>3, <1>4 DEF Bookkeeping

(* The invariant the runs check holds in every reachable state, for any    *)
(* number of transactions, requests, payments, workers and handlers.       *)
THEOREM InductiveHolds == Spec => []Inductive
  BY InitInductive, StepInductive, PTL DEF Spec

(* Every transition that a service records is one of the table, whatever   *)
(* the others did while it was away: transition() never raises there.      *)
THEOREM TransitionsAreLegal == Spec => []LegalTransitions
  <1>1. Inductive => LegalTransitions
    BY DEF Inductive, Bookkeeping
  <1> QED
    BY <1>1, InductiveHolds, PTL

(* A reply is about the transaction that was asked for, and its buyer's.   *)
THEOREM RepliesMatch == Spec => []RepliesMatchRequests
  <1>1. Inductive => RepliesMatchRequests
    BY DEF Inductive, Bookkeeping
  <1> QED
    BY <1>1, InductiveHolds, PTL

(* An event acknowledged for good was applied, and what it told is stored. *)
THEOREM ProcessedWasRecorded == Spec => []ProcessedIsRecorded
  <1>1. Inductive => ProcessedIsRecorded
    BY DEF Inductive, Bookkeeping
  <1> QED
    BY <1>1, InductiveHolds, PTL

------------------------------------------------------------------------------
(* What no step does.                                                      *)

(* No retry, late answer, reconciliation or event replaces the order or    *)
(* the payment that a transaction names.                                   *)
THEOREM ReferencesHold == Spec => ReferencesStand
  <1>1. Inductive /\ [Next]_vars
          => [\A t \in Txns : attempt[t] # None =>
                /\ attempt'[t] # None
                /\ attempt[t].order # None => attempt'[t].order = attempt[t].order
                /\ attempt[t].payment # None => attempt'[t].payment = attempt[t].payment]_vars
    BY AttemptSteps DEF Inductive, AttemptStep, AttemptStands
  <1> QED
    BY <1>1, InductiveHolds, PTL DEF Spec, ReferencesStand

(* Of a request that is answered: what its key has on file.                *)
LEMMA AnswerIsOnFile ==
  ASSUME Custody, Answers, [Next]_vars, NEW r \in Requests,
         reply'[r] # reply[r], reply'[r].kind # "rejected"
  PROVE  LET c == claims[Scope(call'[r])] IN
         \/ c = None
         \/ c.code = "pending" /\ reply'[r].kind \in {"view", "unknown"}
         \/ reply'[r].kind = Outcome(c.code)
  <1>1. PICK x \in Requests : ExecuteStep(x)
    BY DEF Next, vars, execVars, ReconcileStep, CallbackStep, ProviderStep, GatesChange
  <1>2. x = r
    BY <1>1 DEF ExecuteStep, ExecuteArrives, Replay, RefuseKeyReuse, RefuseForeignBuyer, RefuseStale, ShowStarted,
                CommitExecuting, Answer, ExecuteProceeds, Dispatch, ReceiveOrder, DispatchFails,
                RecordOrder, RecordUnknown, CrashExecute, Custody, TypeOK, ExecTypeOK
  <1>3. ASSUME NEW c \in Call, Replay(r, c) \/ ShowStarted(r, c)
        PROVE  \/ claims[Scope(call'[r])] = None
               \/ reply'[r].kind = Outcome(claims[Scope(call'[r])].code)
    BY <1>3 DEF Replay, ShowStarted, Arrives, Answer, Custody, TypeOK, ExecTypeOK
  <1>4. ASSUME RecordOrder(r) \/ RecordUnknown(r)
        PROVE  /\ claims[Scope(call'[r])].code = "pending"
               /\ reply'[r].kind \in {"view", "unknown"}
    <2>1. pc[r] \in InService /\ call' = call
      BY <1>4 DEF RecordOrder, RecordUnknown, InService
    <2>2. claims[Scope(call[r])] = [txn |-> call[r].txn, code |-> "pending"]
      BY <2>1 DEF Answers, ClaimsAreOwned
    <2>3. reply'[r].kind \in {"view", "unknown"}
      BY <1>4 DEF RecordOrder, RecordUnknown, Answer, Custody, TypeOK, ExecTypeOK
    <2> QED
      BY <2>1, <2>2, <2>3
  <1>5. ASSUME NEW c \in Call, RefuseKeyReuse(r, c) \/ RefuseForeignBuyer(r, c) \/ RefuseStale(r, c)
        PROVE  reply'[r].kind = "rejected"
    BY <1>5 DEF RefuseKeyReuse, RefuseForeignBuyer, RefuseStale, Answer, Custody, TypeOK, ExecTypeOK
  <1>6. ASSUME \/ \E c \in Call : CommitExecuting(r, c)
               \/ Dispatch(r) \/ ReceiveOrder(r) \/ DispatchFails(r) \/ CrashExecute(r)
        PROVE  reply' = reply
    BY <1>6 DEF CommitExecuting, Dispatch, ReceiveOrder, DispatchFails, CrashExecute
  <1> QED
    BY <1>1, <1>2, <1>3, <1>4, <1>5, <1>6 DEF ExecuteStep, ExecuteArrives, ExecuteProceeds

(* A key that is sent again hears what it heard before of the outcome of   *)
(* its dispatch.                                                           *)
THEOREM RepliesRepeat == Spec => AnswersRepeat
  <1>1. ASSUME Custody, Answers, [Next]_vars, NEW q \in Requests, NEW r \in Requests,
               Told(q), Final(q), reply'[r] # reply[r], reply'[r].kind # "rejected",
               Scope(call'[r]) = Scope(call[q])
        PROVE  reply'[r].kind = reply[q].kind
    <2>1. /\ claims[Scope(call[q])] # None
          /\ claims[Scope(call[q])].code = IF reply[q].kind = "unknown" THEN "503" ELSE "200"
      BY <1>1 DEF Answers, AnswersAreFiled, Filed
    <2>2. reply'[r].kind = Outcome(claims[Scope(call[q])].code)
      BY <1>1, <2>1, AnswerIsOnFile
    <2>3. reply[q].kind \in {"view", "unknown"}
      BY <1>1 DEF Told, Custody, TypeOK, ExecTypeOK, Reply
    <2> QED
      BY <2>1, <2>2, <2>3 DEF Outcome
  <1>2. Inductive /\ [Next]_vars
          => [\A q, r \in Requests :
                (Told(q) /\ Final(q) /\ reply'[r] # reply[r] /\ reply'[r].kind # "rejected"
                   /\ Scope(call'[r]) = Scope(call[q]))
                  => reply'[r].kind = reply[q].kind]_vars
    BY <1>1 DEF Inductive, Bookkeeping, Answers
  <1> QED
    BY <1>2, InductiveHolds, PTL DEF Spec, AnswersRepeat

(* Nothing that arrives later touches a transaction that SUCCEEDED.        *)
THEOREM SettledHolds == Spec => SettledStands
  <1>1. Inductive /\ [Next]_vars
          => [\A t \in Txns : state[t] = "SUCCEEDED" =>
                state'[t] = "SUCCEEDED" /\ attempt'[t] = attempt[t]]_vars
    <2> SUFFICES ASSUME Custody, [Next]_vars, NEW t \in Txns, state[t] = "SUCCEEDED"
                 PROVE  state'[t] = "SUCCEEDED" /\ attempt'[t] = attempt[t]
      BY DEF Inductive
    <2>1. attempt[t] # None
      BY DEF Custody, Ownership, StateNeedsEvidence
    <2>2. state'[t] = "SUCCEEDED"
      BY RowSteps DEF RowStep, RowStands, RowMoves, RowSettles, TakenTransitions
    <2> QED
      BY <2>1, <2>2, AttemptSteps DEF AttemptStep, AttemptStands
  <1> QED
    BY <1>1, InductiveHolds, PTL DEF Spec, SettledStands

(* Two deliveries of one event never disagree about its final receipt.     *)
THEOREM ReceiptsHold == Spec => ReceiptsStand
  <1>1. Inductive /\ [Next]_vars
          => [\A e \in Events : receipt[e] \notin {None, "RECEIVED"} => receipt'[e] = receipt[e]]_vars
    BY ReceiptSteps DEF Inductive, Bookkeeping, ReceiptStep
  <1> QED
    BY <1>1, InductiveHolds, PTL DEF Spec, ReceiptsStand
==============================================================================
