------------------------- MODULE MCPaymentAuthority --------------------------
(***************************************************************************)
(* Values for model checking PaymentAuthority.                             *)
(***************************************************************************)
EXTENDS PaymentAuthority, TLC

CONSTANT b1

(* One buyer owns every transaction; a second one only tries.              *)
OneOwner == [t \in Txns |-> b1]

(* Requests, payments, workers and handlers are interchangeable.           *)
Symmetry == Permutations(Attempts) \cup Permutations(Payments)
              \cup Permutations(Workers) \cup Permutations(Handlers)
                \cup Permutations(Keys)
==============================================================================
