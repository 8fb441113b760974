---------------------- MODULE TransactionReconciliation ----------------------
(***************************************************************************)
(* TransactionReconciliationApplicationService.reconcile: one database     *)
(* transaction moves the row to RECONCILING, a second one asks the         *)
(* provider, holding the row lock, and records what it learned.  The       *)
(* worker may die in between.                                              *)
(***************************************************************************)
EXTENDS PaymentStore

CONSTANT Workers   \* calls of reconcile that may run at once

VARIABLE recon     \* the transaction each worker is reconciling, or None

ReconTypeOK == recon \in [Workers -> Txns \cup {None}]

ReconInit == recon = [w \in Workers |-> None]

(* Any other state returns the current view and changes nothing.           *)
StartReconcile(w, t) ==
    /\ recon[w] = None
    /\ state[t] \in Reconcilable
    /\ MoveTo(t, "RECONCILING")
    /\ recon' = [recon EXCEPT ![w] = t]
    /\ UNCHANGED <<attempt, claims, receipt, current, providerVars>>

(* Variant that takes a paid order for a verified payment.                 *)
ResolutionByOrder(os, ps) == IF os = "paid" THEN "SUCCEEDED" ELSE "PAYMENT_PENDING"

(* Where provider truth sends the transaction: os and ps are the states of *)
(* the order and of the stored payment, None where there is none.          *)
Resolution(os, ps) ==
    CASE os = "paid" /\ ps = "captured"              -> "SUCCEEDED"
      [] os = "paid" /\ ps \in {"failed", "refunded"} -> "FAILED"
      [] OTHER                                        -> "PAYMENT_PENDING"

(* What a successful receipt lookup saves: only the order is known then.   *)
Recovered(t) ==
    [attempt[t] EXCEPT !.order = attempt[t].id, !.payment = None,
                       !.orderState = LookupOrder(attempt[t].id), !.payState = None]

(* The attempt once its order is known: stored before, or found by receipt. *)
WithOrder(t) ==
    IF attempt[t].order # None THEN {attempt[t]}
    ELSE IF ReceiptIdentifies(t, attempt[t].id) THEN {Recovered(t)} ELSE {}

(* The order is known and every read of the provider answers.              *)
Resolve(w, t) ==
    /\ recon[w] = t
    /\ state[t] = "RECONCILING"
    /\ \E a \in WithOrder(t) :
         LET os == LookupOrder(a.order)
             ps == IF os = "paid" /\ a.payment # None THEN LookupPayment(a.payment) ELSE None
         IN /\ attempt' = [attempt EXCEPT ![t] =
                             [a EXCEPT !.orderState = os,
                                       !.payState = IF ps = None THEN @ ELSE ps]]
            /\ MoveTo(t, Resolution(os, ps))
    /\ recon' = [recon EXCEPT ![w] = None]
    /\ UNCHANGED <<claims, receipt, current, providerVars>>

(* What is saved when some read fails: nothing, the order found by         *)
(* receipt, or the order's state before the lookup of its payment.         *)
SavedReads(t) ==
    {attempt[t]} \cup WithOrder(t)
      \cup {[a EXCEPT !.orderState = LookupOrder(a.order)] :
                a \in {x \in WithOrder(t) : x.payment # None}}

GiveUp(w, t) ==
    /\ recon[w] = t
    /\ state[t] = "RECONCILING"
    /\ \E saved \in SavedReads(t) : attempt' = [attempt EXCEPT ![t] = saved]
    /\ MoveTo(t, "UNKNOWN")
    /\ recon' = [recon EXCEPT ![w] = None]
    /\ UNCHANGED <<claims, receipt, current, providerVars>>

(* The worker dies, or its second database transaction rolls back.         *)
CrashReconcile(w) ==
    /\ recon[w] # None
    /\ recon' = [recon EXCEPT ![w] = None]
    /\ UNCHANGED <<storeVars, providerVars>>
==============================================================================
