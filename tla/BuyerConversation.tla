-------------------------- MODULE BuyerConversation --------------------------
(***************************************************************************)
(* The buyer's requests to the gateway: chats, in which a language model   *)
(* calls tools turn by turn, single HTTP calls, and calls of the buyer MCP *)
(* server.  Each request is one unit of work over one database session,    *)
(* taken from a pool of connections at its first statement and held until  *)
(* it commits or rolls back, also while the model is thinking.  Queries    *)
(* and executions of transactions take a further connection each; who      *)
(* waits too long for one is refused.                                      *)
(*                                                                         *)
(* The services behind the tools are reduced to what they leave in the     *)
(* database; ProposalGates and PaymentAuthority have them in detail.       *)
(***************************************************************************)
EXTENDS Naturals, FiniteSets

CONSTANTS
  Requests,     \* the threads that serve requests, numbered
  MaxRequests,  \* bound: requests in all
  Proposals,    \* numbered in the order of their insertion
  Keys,         \* values of the Idempotency-Key header
  Derived,      \* the key the MCP server derives from a tool's arguments
  MaxSteps,     \* max_tool_steps
  MaxCalls,     \* bound: tool calls in one answer of the model
  Connections,  \* pool_size + max_overflow
  None

Handoffs == {"propose", "authorize", "execute"}
Tools == Handoffs \cup {"search", "status", "unknown"}

VARIABLES
  proposal,  \* purchase_proposals: None, or the key its command carried
  auth,      \* the latest authorization: "none", "requested" or "approved"
  current,   \* proposals whose further gates stand: decision, product, expiry
  txn,       \* "none", "ready" or "started"
  request,   \* None, or what a request in progress has come to
  served,    \* requests so far
  told       \* <<tool, proposal>>: what buyers were told was done, see Answer

rows == <<proposal, auth, current, txn>>
vars == <<rows, request, served, told>>

Phases == {"model", "tools", "call", "start", "closing", "answered", "committed"}

Request ==
    [via : {"chat", "http", "mcp"}, key : Keys \cup {Derived, None},
     phase : Phases, turn : 0..MaxSteps, left : 0..MaxCalls,
     tool : Tools \cup {None}, on : Proposals \cup {None},
     handoff : BOOLEAN,                  \* a tool has handed over to the human
     session : BOOLEAN,                  \* the session holds a connection
     writes : SUBSET (Handoffs \X Proposals)]  \* its uncommitted rows

ASSUME ConversationAssumption ==
    /\ {MaxRequests} \cup Requests \cup Proposals \subseteq Nat
    /\ {MaxSteps, MaxCalls, Connections} \subseteq Nat \ {0}
    /\ None \notin Proposals
    /\ None \notin Keys \cup {Derived}
    /\ None \notin Tools
    /\ None \notin Request

TypeOK ==
    /\ proposal \in [Proposals -> Keys \cup {Derived, None}]
    /\ auth \in [Proposals -> {"none", "requested", "approved"}]
    /\ current \subseteq Proposals
    /\ txn \in [Proposals -> {"none", "ready", "started"}]
    /\ request \in [Requests -> Request \cup {None}]
    /\ served \in 0..MaxRequests
    /\ told \subseteq Handoffs \X Proposals

Init ==
    /\ proposal = [p \in Proposals |-> None]
    /\ auth = [p \in Proposals |-> "none"]
    /\ current = {}
    /\ txn = [p \in Proposals |-> "none"]
    /\ request = [r \in Requests |-> None]
    /\ served = 0
    /\ told = {}

------------------------------------------------------------------------------
(* Requests and the pool.                                                  *)

At(r, phase) == request[r] # None /\ request[r].phase = phase

Goto(r, phase) == request' = [request EXCEPT ![r].phase = phase]

(* The loop is left, and with it what it counted.                          *)
Leave(r) == request' = [request EXCEPT ![r].phase = "closing", ![r].turn = 0, ![r].left = 0]

End(r) == request' = [request EXCEPT ![r] = None]

InUse == {r \in Requests : request[r] # None /\ request[r].session}

Free == Cardinality(InUse) < Connections

(* The session has its connection, or can take one.                        *)
Connected(r) == request[r].session \/ Free

(* A tool call is about to query: through the session, or through a unit   *)
(* of work of its own.                                                     *)
Waits(r) ==
    \/ At(r, "call") /\ request[r].tool = "status" /\ ~Free
    \/ At(r, "call") /\ request[r].tool \in Handoffs \cup {"search"} /\ ~Connected(r)
    \/ At(r, "start") /\ ~Free

(* Variant of a pool that lets callers wait for ever.                      *)
NeverTimesOut(r) == FALSE

(* pool_timeout.                                                           *)
TimesOut(r) == Waits(r)

NewRequest(via, key) ==
    [via |-> via, key |-> key, phase |-> IF via = "chat" THEN "model" ELSE "tools",
     turn |-> 0, left |-> IF via = "chat" THEN 0 ELSE 1, tool |-> None, on |-> None,
     handoff |-> FALSE, session |-> FALSE, writes |-> {}]

Open(r) ==
    /\ request[r] = None
    /\ \A q \in Requests : q < r => request[q] # None
    /\ served < MaxRequests
    /\ served' = served + 1
    /\ \/ \E via \in {"chat", "http"}, key \in Keys \cup {None} :
            request' = [request EXCEPT ![r] = NewRequest(via, key)]
       \/ request' = [request EXCEPT ![r] = NewRequest("mcp", Derived)]
    /\ UNCHANGED <<rows, told>>

(* An exception ends the unit of work, or the process dies: what was not   *)
(* committed is gone.                                                      *)
Dies(r) ==
    /\ request[r] # None
    /\ End(r)
    /\ UNCHANGED <<rows, served, told>>

------------------------------------------------------------------------------
(* The conversation.                                                       *)

(* Variant that does not bound the loop by max_tool_steps.                 *)
AnyStep(turn) == TRUE

WithinSteps(turn) == turn < MaxSteps

(* The model answers with text alone, also when it fails, or with calls.   *)
Generate(r) ==
    /\ At(r, "model")
    /\ \/ Leave(r)
       \/ /\ WithinSteps(request[r].turn)
          /\ \E n \in 1..MaxCalls :
               request' = [request EXCEPT ![r].phase = "tools", ![r].turn = @ + 1, ![r].left = n]
    /\ UNCHANGED <<rows, served, told>>

(* Variant that goes on with the calls of an answer after a handoff.       *)
AnyCall(r) == TRUE

NotHandedOver(r) == ~request[r].handoff

Choose(r) ==
    /\ At(r, "tools")
    /\ request[r].left > 0
    /\ NotHandedOver(r)
    /\ \E tool \in IF request[r].via = "chat" THEN Tools ELSE Tools \ {"unknown"} :
       \E on \in IF tool \in {"authorize", "execute"} THEN Proposals ELSE {None} :
         request' = [request EXCEPT ![r].phase = "call", ![r].left = @ - 1,
                                    ![r].tool = tool, ![r].on = on]
    /\ UNCHANGED <<rows, served, told>>

(* What is left after a handoff is dropped.                                *)
EndResponse(r) ==
    /\ At(r, "tools")
    /\ request[r].left = 0 \/ ~NotHandedOver(r)
    /\ IF request[r].via = "chat" /\ NotHandedOver(r) THEN Goto(r, "model") ELSE Leave(r)
    /\ UNCHANGED <<rows, served, told>>

(* A call that ended without a handoff.                                    *)
Continue(r, session) ==
    request' = [request EXCEPT ![r].phase = "tools", ![r].tool = None, ![r].on = None,
                               ![r].session = session]

Calls(r, tool) == At(r, "call") /\ request[r].tool = tool

(* A tool that writes without a key, arguments that do not validate, or a  *)
(* tool outside the seven: a chat tells the model and goes on.             *)
Invalid(r) ==
    /\ At(r, "call")
    /\ \/ request[r].tool = "unknown"
       \/ request[r].tool \in Handoffs /\ request[r].key = None

ReportInvalid(r) ==
    /\ Invalid(r)
    /\ request[r].via = "chat"
    /\ Continue(r, request[r].session)
    /\ UNCHANGED <<rows, served, told>>

Search(r) ==
    /\ Calls(r, "search")
    /\ Connected(r)
    /\ Continue(r, TRUE)
    /\ UNCHANGED <<rows, served, told>>

(* Status and audit are read through a unit of work of their own.          *)
Status(r) ==
    /\ Calls(r, "status")
    /\ Free
    /\ Continue(r, request[r].session)
    /\ UNCHANGED <<rows, served, told>>

(* The tool has written its rows and hands over to the human.              *)
HandOver(r, p, writes) ==
    request' = [request EXCEPT ![r].phase = "tools", ![r].on = p, ![r].handoff = TRUE,
                               ![r].session = TRUE, ![r].writes = @ \cup writes]

Unsaved == UNION {request[r].writes : r \in {q \in Requests : request[q] # None}}

(* Proposals that exist, committed or not.                                 *)
Taken == {p \in Proposals : proposal[p] # None \/ <<"propose", p>> \in Unsaved}

(* The identifier is new; the key of the command is not looked at.         *)
Propose(r) ==
    /\ Calls(r, "propose") /\ ~Invalid(r)
    /\ Connected(r)
    /\ \E p \in Proposals \ Taken :
         /\ \A q \in Proposals : q < p => q \in Taken
         /\ HandOver(r, p, {<<"propose", p>>})
    /\ UNCHANGED <<rows, served, told>>

(* A live authorization is returned instead of a new one.                  *)
Authorize(r) ==
    /\ Calls(r, "authorize") /\ ~Invalid(r)
    /\ Connected(r)
    /\ LET p == request[r].on IN
         /\ proposal[p] # None
         /\ HandOver(r, p, IF auth[p] = "none" THEN {<<"authorize", p>>} ELSE {})
    /\ UNCHANGED <<rows, served, told>>

Gated(p) == auth[p] = "approved" /\ p \in current

(* What a commit of writes leaves; of two authorizations asked for at once *)
(* the later one counts, which may hide the approval of the earlier.       *)
Store(r, writes) ==
    /\ proposal' = [p \in Proposals |->
                      IF <<"propose", p>> \in writes THEN request[r].key ELSE proposal[p]]
    /\ \E hides \in BOOLEAN :
         auth' = [p \in Proposals |->
                    IF <<"authorize", p>> \in writes /\ (hides \/ auth[p] = "none")
                      THEN "requested" ELSE auth[p]]
    /\ UNCHANGED current

(* The transaction is created or found, and the session committed with     *)
(* all it holds, since the execution works in a unit of its own.           *)
Prepare(r) ==
    /\ Calls(r, "execute") /\ ~Invalid(r)
    /\ Connected(r)
    /\ LET p == request[r].on IN
         /\ proposal[p] # None
         /\ txn[p] # "none" \/ Gated(p)
         /\ txn' = [txn EXCEPT ![p] = IF @ = "none" THEN "ready" ELSE @]
    /\ Store(r, request[r].writes)
    /\ request' = [request EXCEPT ![r].phase = "start", ![r].session = FALSE, ![r].writes = {}]
    /\ UNCHANGED <<served, told>>

(* The gates are checked again, and the payment started; a transaction     *)
(* that left READY is shown.  An outcome in doubt is refused like an       *)
(* error, and the transaction stays started.                               *)
Start(r) ==
    /\ At(r, "start")
    /\ Free
    /\ LET p == request[r].on IN
         /\ txn[p] = "started" \/ p \in current
         /\ txn' = [txn EXCEPT ![p] = "started"]
    /\ \/ request' = [request EXCEPT ![r].phase = "tools", ![r].handoff = TRUE]
       \/ End(r)
    /\ UNCHANGED <<proposal, auth, current, served, told>>

(* The service refuses, which ends the whole request; a product may always *)
(* turn out to be gone.                                                    *)
Refuse(r) ==
    /\ \/ Invalid(r) /\ request[r].via # "chat"
       \/ TimesOut(r)
       \/ /\ At(r, "call") /\ ~Invalid(r)
          /\ Connected(r)
          /\ LET p == request[r].on IN
               \/ request[r].tool = "propose"
               \/ request[r].tool \in {"authorize", "execute"} /\ proposal[p] = None
               \/ request[r].tool = "execute" /\ txn[p] = "none" /\ ~Gated(p)
       \/ At(r, "start") /\ Free /\ txn[request[r].on] = "ready" /\ request[r].on \notin current
    /\ End(r)
    /\ UNCHANGED <<rows, served, told>>

------------------------------------------------------------------------------
(* The end of a request.                                                   *)

(* Variant that answers every caller before the commit.                    *)
AfterAnswer(r) == At(r, "answered")

(* The MCP server leaves the unit of work before it answers; a dependency  *)
(* of an HTTP handler is left after the answer has been sent.              *)
MayCommit(r) == IF request[r].via = "mcp" THEN At(r, "closing") ELSE At(r, "answered")

Commit(r) ==
    /\ request[r] # None
    /\ MayCommit(r)
    /\ Store(r, request[r].writes)
    /\ IF At(r, "answered")
         THEN End(r)
         ELSE request' = [request EXCEPT ![r].phase = "committed", ![r].session = FALSE,
                                         ![r].writes = {}]
    /\ UNCHANGED <<txn, served, told>>

(* told has what was done before the answer went out: everything an MCP    *)
(* client is told, and the executions every buyer is told of.              *)
Answer(r) ==
    /\ At(r, "committed") \/ (At(r, "closing") /\ ~MayCommit(r))
    /\ told' = told \cup
         {done \in Handoffs \X Proposals :
            /\ request[r].handoff /\ done = <<request[r].tool, request[r].on>>
            /\ request[r].via = "mcp" \/ request[r].tool = "execute"}
    /\ IF At(r, "committed") THEN End(r) ELSE Goto(r, "answered")
    /\ UNCHANGED <<rows, served>>

Serve(r) ==
    \/ Generate(r) \/ Choose(r) \/ EndResponse(r)
    \/ ReportInvalid(r) \/ Search(r) \/ Status(r) \/ Propose(r) \/ Authorize(r)
    \/ Prepare(r) \/ Start(r) \/ Refuse(r)
    \/ Commit(r) \/ Answer(r)

------------------------------------------------------------------------------
(* The human and the merchant.                                             *)

Approve(p) ==
    /\ auth[p] = "requested"
    /\ auth' = [auth EXCEPT ![p] = "approved"]
    /\ UNCHANGED <<proposal, current, txn, request, served, told>>

(* A decision is made for the proposal; a transaction keeps to its own.    *)
Accept(p) ==
    /\ auth[p] = "approved"
    /\ txn[p] = "none"
    /\ current' = current \cup {p}
    /\ UNCHANGED <<proposal, auth, txn, request, served, told>>

Lapse(p) ==
    /\ p \in current
    /\ current' = current \ {p}
    /\ UNCHANGED <<proposal, auth, txn, request, served, told>>

Next ==
    \/ \E r \in Requests : Open(r) \/ Serve(r) \/ Dies(r)
    \/ \E p \in Proposals : Approve(p) \/ Accept(p) \/ Lapse(p)

(* A thread serves every request: the model's calls end by the client's    *)
(* timeout, and waits for a connection by the pool's.                      *)
Fairness == \A r \in Requests : WF_vars(Serve(r))

Spec == Init /\ [][Next]_vars /\ Fairness

------------------------------------------------------------------------------
(* Properties.                                                             *)

Stored(tool, p) ==
    \/ tool = "propose"   /\ proposal[p] # None
    \/ tool = "authorize" /\ auth[p] # "none"
    \/ tool = "execute"   /\ txn[p] = "started"

(* What an MCP client is told was done, and every payment a buyer is told  *)
(* was initiated, is in the database, whatever dies afterwards.  What HTTP *)
(* and the chat answer of proposals and authorizations leaves before its   *)
(* commit and may be lost: told leaves it out.                             *)
ToldIsStored ==
    \A tool \in Handoffs, p \in Proposals : <<tool, p>> \in told => Stored(tool, p)

(* A unit of work holds at most the one row of the handoff it has come to, *)
(* a request that still works has none, and what was handed over is stored *)
(* or will be when the unit of work is committed.                          *)
InOrder(q) ==
    /\ q.writes \subseteq {<<q.tool, q.on>>}
    /\ q.writes # {} => q.handoff /\ q.key # None /\ q.tool # "execute"
    /\ q.phase = "committed" => q.writes = {}
    /\ q.phase \in {"model", "call", "start"} => ~q.handoff
    /\ q.phase = "call" /\ q.tool \in {"authorize", "execute"} => q.on \in Proposals
    /\ q.phase = "start" => /\ q.tool = "execute" /\ q.on \in Proposals
                             /\ txn[q.on] # "none"
    /\ q.handoff => /\ q.tool \in Handoffs /\ q.on \in Proposals
                     /\ (q.writes # {} \/ Stored(q.tool, q.on))

(* No two units of work insert one proposal, nor one that is there; one    *)
(* that is asked to be authorized is there.                                *)
WritesAreNew ==
    \A r \in {s \in Requests : request[s] # None}, p \in Proposals :
        /\ <<"propose", p>> \in request[r].writes =>
             /\ proposal[p] = None
             /\ \A s \in Requests \ {r} :
                  request[s] # None => <<"propose", p>> \notin request[s].writes
        /\ <<"authorize", p>> \in request[r].writes => proposal[p] # None

(* A purchase has no later stage without the earlier ones.                 *)
StagesInOrder ==
    \A p \in Proposals :
        /\ auth[p] # "none" => proposal[p] # None
        /\ txn[p] # "none" => auth[p] # "none"

(* The units of work in progress fit what is committed: the invariant that *)
(* carries what buyers are told and what the assistant may do.             *)
Inductive ==
    /\ TypeOK
    /\ \A r \in Requests : request[r] # None => InOrder(request[r])
    /\ WritesAreNew
    /\ StagesInOrder
    /\ ToldIsStored

(* How far a purchase has come.                                            *)
StageOf(p) ==
    IF txn[p] # "none" THEN txn[p]
    ELSE IF auth[p] # "none" THEN auth[p]
    ELSE IF proposal[p] # None THEN "proposed" ELSE "none"

(* A request whose handoff is stored moves nothing any more.               *)
MayMove(r) == request[r] # None /\ ~(request[r].handoff /\ request[r].writes = {})

(* The assistant's limits (orchestrator.py: the AI can never chain past    *)
(* human review): no request, however many turns and calls it has, moves   *)
(* more than one proposal, or one proposal past the human's stage.         *)
Contract ==
    INSTANCE AgentContract WITH
        stage <- [p \in Proposals |-> StageOf(p)],
        open  <- {r \in Requests : MayMove(r)}

ImplementsContract == Contract!Spec

(* Every request ends, though chats that hold a connection may all wait    *)
(* for another one.                                                        *)
RequestsEnd == \A r \in Requests : request[r] # None ~> request[r] = None

(* A command repeated with its Idempotency-Key makes no second proposal    *)
(* (ARCHITECTURE.md: same key and same fingerprint returns the stored      *)
(* outcome); all modelled proposals are over the same arguments.           *)
KeysReplay ==
    \A p, q \in Proposals : proposal[p] \in Keys /\ proposal[p] = proposal[q] => p = q
==============================================================================
