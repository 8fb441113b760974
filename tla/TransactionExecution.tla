------------------------ MODULE TransactionExecution -------------------------
(***************************************************************************)
(* TransactionExecutionApplicationService.execute.  A request is one call: *)
(* it commits EXECUTING with its attempt, sends one create-order POST with *)
(* no database transaction open, and records the outcome in another.  It   *)
(* may die at any point in between.  Requests and the attempts they may    *)
(* create share their names.                                               *)
(***************************************************************************)
EXTENDS PaymentStore

VARIABLES
  call,   \* what each request asks: None, or [buyer, key, txn]
  pc,     \* how far each request got
  reply   \* what it was answered: None, or [kind, txn]

execVars == <<call, pc, reply>>

Requests == Attempts
Call     == [buyer : Buyers, key : Keys, txn : Txns]
Reply    == [kind : {"view", "unknown", "rejected"}, txn : Txns \cup {None}]

ASSUME ExecutionAssumption == None \notin Call \cup Reply

Steps == {"idle", "dispatching", "posted", "ordered", "uncertain", "done", "crashed"}

ExecTypeOK ==
    /\ call \in [Requests -> Call \cup {None}]
    /\ pc \in [Requests -> Steps]
    /\ reply \in [Requests -> Reply \cup {None}]

ExecInit ==
    /\ call = [r \in Requests |-> None]
    /\ pc = [r \in Requests |-> "idle"]
    /\ reply = [r \in Requests |-> None]

Scope(c) == <<c.buyer, c.key>>

Goto(r, step) == pc' = [pc EXCEPT ![r] = step]

Answer(r, kind, t) ==
    /\ Goto(r, "done")
    /\ reply' = [reply EXCEPT ![r] = [kind |-> kind, txn |-> t]]

Arrives(r, c) ==
    /\ pc[r] = "idle"
    /\ call' = [call EXCEPT ![r] = c]

NothingStored == UNCHANGED <<storeVars, providerVars>>

(* The key was claimed before: the same request is answered from the       *)
(* record, another request under that key is refused.                      *)
Fingerprint(c) == c.txn

(* Variant that trusts the key alone.                                      *)
SameKey(c) == TRUE

SameRequest(c) == claims[Scope(c)].txn = Fingerprint(c)

(* Variant that shows the transaction, whatever was filed of its dispatch. *)
AlwaysShown(code) == "view"

(* What a replay is told of a claim: an outcome filed as unknown raises    *)
(* again, any other and none yet shows the transaction as it stands.       *)
Outcome(code) == IF code = "503" THEN "unknown" ELSE "view"

Replay(r, c) ==
    /\ Arrives(r, c)
    /\ claims[Scope(c)] # None
    /\ SameRequest(c)
    /\ Answer(r, Outcome(claims[Scope(c)].code), claims[Scope(c)].txn)
    /\ NothingStored

RefuseKeyReuse(r, c) ==
    /\ Arrives(r, c)
    /\ claims[Scope(c)] # None
    /\ ~SameRequest(c)
    /\ Answer(r, "rejected", None)
    /\ NothingStored

(* Another buyer's transaction is refused before the key is claimed.       *)
RefuseForeignBuyer(r, c) ==
    /\ Arrives(r, c)
    /\ claims[Scope(c)] = None
    /\ Owner[c.txn] # c.buyer
    /\ Answer(r, "rejected", None)
    /\ NothingStored

(* A new key for a transaction that has left READY shows its state.        *)
ShowStarted(r, c) ==
    /\ Arrives(r, c)
    /\ claims[Scope(c)] = None
    /\ Owner[c.txn] = c.buyer
    /\ state[c.txn] # "READY"
    /\ SaveClaim(Scope(c), c.txn, "200")
    /\ Answer(r, "view", c.txn)
    /\ UNCHANGED <<state, audit, attempt, receipt, current, providerVars>>

(* A stale gate raises, and the rollback takes the claim with it.          *)
RefuseStale(r, c) ==
    /\ Arrives(r, c)
    /\ claims[Scope(c)] = None
    /\ Owner[c.txn] = c.buyer
    /\ state[c.txn] = "READY"
    /\ c.txn \notin current
    /\ Answer(r, "rejected", None)
    /\ NothingStored

(* Variant that dispatches again what is UNKNOWN.                          *)
StartableAgain(t) == state[t] \in {"READY", "UNKNOWN"} /\ t \in current

(* What the checks under the row lock leave to be executed.  An attempt of *)
(* a READY transaction would be an internal error.                         *)
Startable(t) == state[t] = "READY" /\ t \in current /\ attempt[t] = None

(* Claim, attempt and EXECUTING are committed together, before dispatch.   *)
CommitExecuting(r, c) ==
    /\ Arrives(r, c)
    /\ claims[Scope(c)] = None
    /\ Owner[c.txn] = c.buyer
    /\ Startable(c.txn)
    /\ attempt' = [attempt EXCEPT ![c.txn] = NewAttempt(r)]
    /\ MoveTo(c.txn, "EXECUTING")
    /\ SaveClaim(Scope(c), c.txn, "pending")
    /\ Goto(r, "dispatching")
    /\ UNCHANGED <<receipt, current, providerVars, reply>>

(* The one POST of this call.                                              *)
Dispatch(r) ==
    /\ pc[r] = "dispatching"
    /\ SendOrder(r, call[r].txn)
    /\ Goto(r, "posted")
    /\ UNCHANGED <<storeVars, order, pay, emitted, call, reply>>

ReceiveOrder(r) ==
    /\ pc[r] = "posted"
    /\ order[r] # None
    /\ Goto(r, "ordered")
    /\ UNCHANGED <<storeVars, providerVars, call, reply>>

(* create_order raises: before anything was sent, on an error answer, or   *)
(* because the answer is late, while the POST may still be on its way.     *)
DispatchFails(r) ==
    /\ pc[r] \in {"dispatching", "posted"}
    /\ Goto(r, "uncertain")
    /\ UNCHANGED <<storeVars, providerVars, call, reply>>

(* Variant that does not look at the row again.                            *)
Unchecked(t) == TRUE

(* Nobody moved the transaction while the call was away.                   *)
StillExecuting(t) == state[t] = "EXECUTING"

(* The order is stored only if nobody moved the transaction meanwhile.     *)
RecordOrder(r) ==
    /\ pc[r] = "ordered"
    /\ LET t == call[r].txn IN
         /\ \/ /\ StillExecuting(t)
               /\ SaveObservation(t, r, None, "created", None)
               /\ MoveTo(t, "PAYMENT_PENDING")
            \/ /\ ~StillExecuting(t)
               /\ Stay
               /\ UNCHANGED attempt
         /\ SaveClaim(Scope(call[r]), t, "200")
         /\ Answer(r, "view", t)
    /\ UNCHANGED <<receipt, current, providerVars, call>>

RecordUnknown(r) ==
    /\ pc[r] = "uncertain"
    /\ LET t == call[r].txn IN
         /\ \/ StillExecuting(t) /\ MoveTo(t, "UNKNOWN")
            \/ ~StillExecuting(t) /\ Stay
         /\ SaveClaim(Scope(call[r]), t, "503")
         /\ Answer(r, "unknown", t)
    /\ UNCHANGED <<attempt, receipt, current, providerVars, call>>

(* The process dies between its two database transactions.                 *)
CrashExecute(r) ==
    /\ pc[r] \in {"dispatching", "posted", "ordered", "uncertain"}
    /\ Goto(r, "crashed")
    /\ UNCHANGED <<storeVars, providerVars, call, reply>>
==============================================================================
