---------------------------- MODULE AgentContract ----------------------------
(***************************************************************************)
(* What a buyer's assistant may do to a purchase, with no turns, tools,    *)
(* units of work or connections: every request moves at most one proposal  *)
(* by one of the assistant's own stages, and the stage between asking for  *)
(* the human's authorization and preparing the transaction is the human's. *)
(***************************************************************************)
CONSTANTS Requests, Proposals

Stages == {"none", "proposed", "requested", "approved", "ready", "started"}

VARIABLES
  stage,  \* how far each proposal has come
  open    \* requests that may still move one

vars == <<stage, open>>

Init ==
    /\ stage = [p \in Proposals |-> "none"]
    /\ open = {}

Open(r) ==
    /\ r \notin open
    /\ open' = open \cup {r}
    /\ UNCHANGED stage

(* Answered, refused or dead without a move.                               *)
Close(r) ==
    /\ r \in open
    /\ open' = open \ {r}
    /\ UNCHANGED stage

(* A second request for authorization may hide an approval.                *)
Moves ==
    {<<"none", "proposed">>, <<"proposed", "requested">>, <<"approved", "requested">>,
     <<"ready", "started">>}

Move(r, p) ==
    /\ r \in open
    /\ \E to \in Stages :
         /\ <<stage[p], to>> \in Moves
         /\ stage' = [stage EXCEPT ![p] = to]
    /\ open' = open \ {r}

(* The transaction is prepared by the request that wants to start it.      *)
Prepare(r, p) ==
    /\ r \in open
    /\ stage[p] = "approved"
    /\ stage' = [stage EXCEPT ![p] = "ready"]
    /\ UNCHANGED open

Approve(p) ==
    /\ stage[p] = "requested"
    /\ stage' = [stage EXCEPT ![p] = "approved"]
    /\ UNCHANGED open

Next ==
    \/ \E r \in Requests : Open(r) \/ Close(r)
    \/ \E r \in Requests, p \in Proposals : Move(r, p) \/ Prepare(r, p)
    \/ \E p \in Proposals : Approve(p)

Spec == Init /\ [][Next]_vars
==============================================================================
