-------------------------- MODULE PaymentLifecycle ---------------------------
(***************************************************************************)
(* What the payment side of the gateway promises about each transaction,   *)
(* without requests, workers, handlers or messages: an order is placed at  *)
(* most once and only after execution began, the transaction becomes       *)
(* payable only when its order exists, and it is settled only when money   *)
(* was captured on that order.  Nothing is ever taken back.                *)
(***************************************************************************)
CONSTANTS Txns, Attempts, Payments

VARIABLES
  phase,    \* how far each transaction got
  placed,   \* the provider orders placed for it
  captured  \* the payments of its full amount captured on its order

lifeVars == <<phase, placed, captured>>

Init ==
    /\ phase = [t \in Txns |-> "gated"]
    /\ placed = [t \in Txns |-> {}]
    /\ captured = [t \in Txns |-> {}]

Move(t, from, to) ==
    /\ phase[t] \in from
    /\ phase' = [phase EXCEPT ![t] = to]
    /\ UNCHANGED <<placed, captured>>

Begin(t) == Move(t, {"gated"}, "uncertain")

Place(t, o) ==
    /\ phase[t] # "gated"
    /\ placed[t] = {}
    /\ placed' = [placed EXCEPT ![t] = {o}]
    /\ UNCHANGED <<phase, captured>>

Bind(t) == placed[t] # {} /\ Move(t, {"uncertain"}, "payable")

Capture(t, p) ==
    /\ placed[t] # {}
    /\ captured' = [captured EXCEPT ![t] = @ \cup {p}]
    /\ UNCHANGED <<phase, placed>>

Inspect(t) == Move(t, {"payable"}, "verifying")

Settle(t) == captured[t] # {} /\ Move(t, {"payable", "verifying"}, "settled")

Next ==
    \E t \in Txns :
        \/ Begin(t) \/ Bind(t) \/ Inspect(t) \/ Settle(t)
        \/ \E o \in Attempts : Place(t, o)
        \/ \E p \in Payments : Capture(t, p)

Spec == Init /\ [][Next]_lifeVars
==============================================================================
