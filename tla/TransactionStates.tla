-------------------------- MODULE TransactionStates --------------------------
(***************************************************************************)
(* The transaction state machine of the gateway: the states, the table of  *)
(* transitions a transaction may record, and the sets of states the        *)
(* application services branch on.                                         *)
(***************************************************************************)
EXTENDS FiniteSets

PreDispatch == {"PROPOSED", "BUYER_AUTH_REQUIRED", "MERCHANT_POLICY_PENDING",
                "MERCHANT_REVIEW_REQUIRED", "READY"}

Terminal == {"SUCCEEDED", "FAILED", "CANCELLED", "EXPIRED"}

TransactionState ==
    PreDispatch \cup Terminal
        \cup {"EXECUTING", "PAYMENT_PENDING", "UNKNOWN", "VERIFYING", "RECONCILING"}

(* The edges every state has of its own ...                                *)
BaseTransitions ==
    {<<"PROPOSED", "BUYER_AUTH_REQUIRED">>, <<"PROPOSED", "MERCHANT_POLICY_PENDING">>,
     <<"BUYER_AUTH_REQUIRED", "MERCHANT_POLICY_PENDING">>,
     <<"READY", "EXECUTING">>, <<"PAYMENT_PENDING", "VERIFYING">>,
     <<"UNKNOWN", "RECONCILING">>}
        \cup ({"MERCHANT_POLICY_PENDING"} \X {"MERCHANT_REVIEW_REQUIRED", "READY", "FAILED"})
        \cup ({"MERCHANT_REVIEW_REQUIRED"} \X {"READY", "FAILED"})
        \cup ({"EXECUTING"} \X {"PAYMENT_PENDING", "UNKNOWN", "RECONCILING"})
        \cup ({"VERIFYING"} \X {"SUCCEEDED", "FAILED"})
        \cup ({"RECONCILING"} \X {"PAYMENT_PENDING", "SUCCEEDED", "FAILED", "UNKNOWN"})

(* ... and the exits every state before dispatch has.                      *)
AllowedTransitions == BaseTransitions \cup (PreDispatch \X {"CANCELLED", "EXPIRED"})

(* Variant in which only a recorded UNKNOWN is reconciled.                 *)
ReconcilableOnceRecorded == {"UNKNOWN"}

(* States reconciliation may start from.                                   *)
Reconcilable == {"UNKNOWN", "EXECUTING"}

(* States in which provider evidence is accepted.                          *)
Verifiable == {"PAYMENT_PENDING", "VERIFYING", "SUCCEEDED"}
==============================================================================
