# AI Commerce Gateway: verification project

TLA+ models of the gateway under `src/src/ai_commerce_gateway` (paths below are
relative to it), model-checked with TLC and, where noted, proved with TLAPS.

## 1. The system

An AI buyer and a merchant meet over a gateway. A buyer proposes a purchase,
a human authorizes it, the merchant's policy allows it (or a human approver
does), a transaction is created READY, executed against Razorpay, paid by the
buyer at Razorpay's checkout, and verified from what Razorpay says. All state
is in PostgreSQL at READ COMMITTED; requests run in threads or processes that
share nothing else. A request of the merchant and buyer API works in one
database session that commits at the end of the request
(`api/merchant/router.py:102-113`); the payment services open short units of
work of their own, because no database transaction may be open while execute
or verification waits for Razorpay.

| component | state it keeps | operations | talks to |
|---|---|---|---|
| transaction state machine (`domain/transactions.py`) | `transactions.state`, `transaction_events` | `transition` | every payment service |
| execution (`application/transaction_execution.py`) | `idempotency_records`, `payment_attempts` | `execute` | Razorpay adapter, gates |
| reconciliation (`application/reconciliation.py`) | state and attempt | `reconcile` | Razorpay adapter |
| provider verification (`application/provider_verification.py`) | attempt, state, `provider_webhooks` | `verify_checkout`, `handle_webhook` | Razorpay adapter |
| Razorpay adapter (`providers/razorpay.py`) | none; Razorpay's orders and payments | create order, lookups, signatures | Razorpay |
| proposal gates (`application/proposal_gates.py`) | proposals, authorizations, merchant decisions, READY transactions | create, request, approve, evaluate, decide, create transaction | policy, catalog |
| merchant policy (`application/policy_service.py`) | policy rows, versioned | `update_policy` (creates the first) | gates read it |
| merchant catalog (`application/catalog_service.py`) | products, images | create, update, publish, unpublish, add and delete image | storage, confirmations |
| image storage (`storage/`) | blobs | upload, delete | catalog |
| catalog idempotency (`application/catalog_idempotency.py`) | `idempotency_records` of catalog operations | wraps the four product operations | catalog |
| publication confirmation (`application/publication_confirmation_service.py`) | used token ids | issue, verify, mark used | catalog |
| merchant sessions (`infrastructure/database/merchant_sessions.py`) | sessions; memberships are read | issue, resolve, revoke | every merchant request |
| LLM orchestrator, buyer adapter (`application/buyer_adapter`) | nothing that outlives a request | `chat`, seven tools | gates, execution, queries |
| HTTP API, MCP servers, composition (`api/`, `application/composition.py`) | units of work, connection pool | open, commit, answer | all services |
| transaction queries (`application/transaction_service.py`) | none | status, audit, lists | orchestrator, API |
| remote clients, draft extraction, frontend | none | forward or display | services |

### What is hard

* **Interleaving.** Execute, reconciliation and any number of callbacks work on
  one transaction row. Execute and callbacks read, let go of the row, wait for
  Razorpay, and write later; reconciliation keeps the row lock while it asks.
* **Failure in the middle.** Every service commits in two steps and may die
  between them. A create-order POST may reach Razorpay though its answer never
  comes back, and Razorpay does not deduplicate POSTs.
* **Delivery.** Razorpay repeats webhooks until they are acknowledged and sends
  them in any order; a checkout return may race the webhook of the same payment.
* **Stale gates.** Authorization, decision, policy and product may change
  between the check and the use.
* **Answers before commits.** A request of the HTTP API is answered before the
  dependency that holds its session commits; an MCP call after it. An execution
  commits in the middle of either.
* **A model in the loop.** What a language model asks for is any sequence of
  calls; only the orchestrator's loop stands between it and the services. While
  it thinks, the request keeps the connection of its session.
* **Two stores.** An image is a row and a blob; the blob's storage takes part in
  no database transaction.
* **Nobody calls reconcile.** The repository holds no scheduler; an operator or
  a client must.

`PROJECT.json` lists the hazards at the lines where they bite, with the
properties that would catch each.

### What makes the components correct

* execution: one provider order per transaction; a replayed key is answered as
  before; a key is good for one request; nothing stale is dispatched;
* reconciliation: doubt ends; a row is only ever moved along the table;
* verification: SUCCEEDED means that the full price was captured on the
  transaction's own order; settled transactions and named references stand; an
  event is acknowledged for good only when its evidence is stored;
* gates and policy: a transaction exists only behind an authorization and an
  acceptance that were current together; a denial is not undone behind the
  merchant's back; one policy version names one policy;
* catalog: no lost update; a key makes one change; a status changes only by a
  confirmation, used once, of the version that is replaced; a shown image exists;
* orchestrator and API: no request takes a purchase past the next decision of a
  human, whatever the model asks for; what a caller was told to be done is stored;
  every request ends.

## 2. Modules

```
TransactionStates        states and table of transitions
  RazorpayProvider       orders, payments, events, lookups  (environment)
    PaymentStore         the tables the services share
      TransactionExecution / TransactionReconciliation / ProviderVerification
        PaymentAuthority all of them together: Init, Next, fairness, properties
          MCPaymentAuthority      values for TLC
          PaymentAuthorityProofs  custody of orders and evidence
            PaymentBookkeepingProofs   transitions, keys, receipts, what no step undoes
              PaymentRefinementProofs  the abstract lifecycle is implemented
PaymentLifecycle         what the payment side promises (abstract)

MerchantPolicy           the policy row and update_policy
  ProposalGates          proposal, authorization, decision, READY transaction
    MCProposalGates      values for TLC
    ProposalGatesProofs  theorems

MerchantSessions         users, bearer sessions, the clock
  ProductCatalog         products, confirmation tokens, idempotency keys
    ProductImages        image rows and blobs, the blocked event loop
      MerchantCatalog    all of them as one server: Init, Next, properties
        MCMerchantCatalog         symmetry for TLC
        MerchantCatalogProofs     theorems
CatalogContract          what the catalog promises (abstract)

BuyerConversation        requests, turns, tool calls, connections, answers
  BuyerConversationProofs  theorems
AgentContract            what an assistant may do to a purchase (abstract)
```

The first two families meet in one place: `ProposalGates` ends where execution has
repeated the gates' checks and dispatches, and the payment modules see those
checks as one bit per transaction, `current`, that may change at any time.
`BuyerConversation` reduces both to what they leave in the database, one stage
per proposal, and adds what neither has: who calls, in which unit of work, and
when the answer leaves. The catalog meets the gates in the product's version,
which `ProposalGates` moves by `EditProduct`.

**TransactionStates** translates `_BASE_TRANSITIONS` and `ALLOWED_TRANSITIONS`
edge by edge.

**RazorpayProvider** is the environment, described by how the adapter uses it.
An order carries the id of the attempt whose POST made it (the adapter puts it
in the order's notes and checks it on recovery), so orders are named by
attempts; `ForeignOrder` is an order of the same Razorpay account that another
program placed. `inflight` holds POSTs on the wire, which may arrive at any
later time or never. Events are pairs of a payment and an event name and stay
deliverable for ever once they exist, so that loss, repetition and reordering
need no actions of their own. Signatures are taken to work: only events that
Razorpay emitted are delivered. A payment that is "created" counts as
"authorized": the gateway accepts both words, tells them apart nowhere, and the
event of an authorization need not be delivered.

**PaymentStore** has the rows: `state` and `audit` (`transactions`,
`transaction_events`), `attempt` (the one `payment_attempts` row; the unique
constraint allows one), `claims` (`idempotency_records` of
`transaction.execute`), `receipt` (`provider_webhooks`) and `current`, which
stands for "proposal, authorization, decision, policy and product would pass
`_revalidate_execution` now". `MoveTo` does not test the table of transitions:
the code raises where it is left, and `LegalTransitions` shows no service gets
there.

**TransactionExecution** has one action per way through the first database
transaction of `execute` (each is atomic: row lock on the transaction, unique
constraint on the claim) and one per later step: the POST, its answer, its
failure, the second database transaction with or without an order, and death.

**TransactionReconciliation** has the two database transactions of `reconcile`.
The second one reads the provider under the row lock, so it is one step;
`GiveUp` covers every way a read can fail, with the partial writes
(`SavedReads`) each leaves.

**ProviderVerification** splits a callback at every point where it holds no
lock: accepting the delivery, reading the payment, reading the order, applying,
acknowledging. Applying checks everything again under the row lock, as the code
does. `AbandonJob` is any exception, failed lookup or death on the way.

**PaymentLifecycle** is the abstract specification: phases of a transaction,
orders placed and payments captured, with no requests, workers, handlers or
messages. `PaymentAuthority` implements it under the mapping in `Lifecycle`.

**MerchantPolicy** has the policy rows and the statements of `update_policy`.
Where the service reads no row it inserts one of version 1; the unique constraint
on merchant and version refuses a second. Otherwise it reads a row and builds a
new policy, the repository loads the row again, and the flush writes the columns
that differ from that second reading (SQLAlchemy's dirty columns). Nothing is
locked and the UPDATE's condition is the row's id, so the columns written may be
of two updates at once (`Written`). A row with a limit outside AUTO_BELOW_LIMIT,
or without one inside, raises in `MerchantPolicyEntity.__post_init__`; every
reading is guarded by `WellFormed`. A second row can be inserted when the first
has left version 1 by then; the service works on either (`first()` without an
order), the gates on the greater version (`InForce`). `raced` is a history: the rows
that an update wrote over a change it had not seen. No guard reads it.

**ProposalGates** splits every call at its statements, because a request's session
reads committed rows without locks, one statement after the other, and commits at
its end. An evaluation reads the clock and takes its place, then reads the
authorization (`ReadAuthorization`), the policy (`Judge`) and the latest decision
(`ReadDecision`), then commits (`EndEvaluate`); a creation reads the clock,
authorization, decision, policy and product (`CheckAuthorization` to `CheckProduct`)
and then inserts; an approver's review reads the latest decision, the policy, and
only then the clock. Other calls commit between any two of these. Reads are one step
where a second could tell nothing else: a request's clock and latest authorization
(one committed in between is live at that clock and would be returned), the
proposal, which never changes, and the rows of `CreateProposal` and `EndApprove`,
which insert what nobody has seen or write in the statement that loads.
A call may end at any point without having written (`LeaveSession`, `LeaveApproval`,
`LeaveReview`): refused, dead, or failed at its commit.

Authorizations and decisions are ordered by `created_at`, the clock the call read: a
call takes the next place in that order when it reads the clock (`Held`) and fills
it when it commits, so a row may become visible after a later one, and a decision
under an older version may stand behind one under a newer; the place of a call that
leaves stays `Held` and is seen by nobody. The clock moves at the grain of expiry
times; everything that happens between two expiries has the same `now`.
`overwritten` is a history like `raced`: approvals that another approval wrote over.
`Execute` is `_revalidate_execution`, whose reads, a few statements apart under the
transaction's row lock, are one step: a change that is committed between them counts
as one committed just after the dispatch. Who calls (identity, merchant isolation)
is left out, and so are refusals that change nothing, which are the absence of a
step.

**MerchantSessions** has the rows of `merchant_sessions` and the memberships they
are resolved against. The clock moves at the grain of expiry times. Memberships
have no endpoint; an operator changes them, at any time.

**ProductCatalog** has one call per request in progress, in three steps: entered
(session and confirmation checked), read (key claimed, product read, version or
sku checked), answered (rows written, not committed). What a call has written is
seen by nobody until `CommitProduct`, and whoever needs the same row or key waits:
`INSERT ... ON CONFLICT DO NOTHING` for an uncommitted claim (`KeyIsSettled`),
UPDATE and INSERT for an uncommitted product (`Write`). The UPDATE's condition on
the version is `StillAtVersion`. A request that is refused leaves nothing
(`AbandonProduct`, also a death before the commit). Verification of a token reads
the clock twice and deletes expired rows at the second reading (`Unspent`), so
that a used token may pass at the instant it expires: the version it names is then
the guard that is left. The fields of a product are a set of edited field names:
enough to tell a lost update.

**ProductImages** adds blobs and rows at sort orders, of which the code takes any
that is not negative (`MaxOrder` is a bound of the model). Upload is a
coroutine that calls the database directly, so that from the count of images to
its insert the event loop runs nothing else (`LoopFree`): no request starts and no
other session commits, although threads that are inside a handler go on. Removal
deletes the row, then the blob, then answers. A failed insert deletes the blob. Any
call may die half done (`AbandonImage`): its row is rolled back and its blob stays
as it is. A removal that dies after its blob leaves the row without one; `torn` is
the history of those blobs until the row is removed again. That a second removal
finds no blob is no error in the local, in-memory and S3 storage; Google's and
Supabase's raise, which the model has as a removal that is given up whenever it is
tried. The limit of three images is `BelowLimit`: an upload counts committed rows,
and another upload may be answered and not committed.

**MerchantCatalog** composes them: what starts and commits needs the loop, what
runs in threads does not. **CatalogContract** is the abstract specification, with
no calls: each change is one step, made to the product as it stands, under a fresh
key, a publication with an unspent token of its user for the version it replaces.

**BuyerConversation** has one record per request in progress: how it came (chat,
HTTP, MCP), its idempotency key, its place in the loop, whether its session holds
a connection, and its uncommitted rows. `Generate` is a model that answers with
text or with any number of calls (a failed provider call is text). `Choose` takes
any tool on any proposal; a tool outside the seven, and a writing tool without a
key, are reported to the model in a chat and refused elsewhere. A tool of
`Handoffs` that succeeds ends the request's turn. `Prepare` is
`TransactionApplicationService.create`, which commits the session of the request;
`Start` the execution in a unit of work of its own, with a connection of its own.
`Commit` and `Answer` come in the order of the transport (`MayCommit`). `told` is
the history of what MCP clients were told, and of the executions any caller was
told of: what was committed before the answer left. **AgentContract** is the abstract specification: open requests
and a stage per proposal.

Left out of the models where the code cannot get there: a READY transaction
that already has an attempt (500), a reconciled transaction with none, an
observation without the fields the Razorpay adapter always fills.

## 3. Runs

`gates`, `policy_race` and `review_race` use `MCProposalGates`; `catalog` uses
`MCMerchantCatalog`; `conversation` and `retried_proposal` use `BuyerConversation`
directly, the others `MCPaymentAuthority`. `CHECK_DEADLOCK FALSE` everywhere: once
every call is answered, every payment made and every proposal expired, the system
may stop.

| run | instance | question | states |
|---|---|---|---|
| `execution` | 3 requests, 2 transactions of one buyer and a second buyer, 2 keys each, 1 worker, both services die | can retries, timeouts, deaths and a racing reconciliation place a second order, misfile a reply, answer a retry otherwise than the first call, or record an illegal transition? | 299 000 |
| `verification` | 1 transaction, 2 payments, 2 handlers, 3 event kinds | can reordered or repeated evidence settle wrongly, unsettle, replace a reference or acknowledge what is not stored? | 382 000 |
| `recovery` | 1 transaction, 1 payment of right or wrong amount, 2 handlers, 1 worker, 4 event kinds, both services die | do all services together keep the lifecycle? | 250 000 |
| `progress` | 1 of each, execute may die, fairness | does doubt end, does money settle? | 15 000 |
| `stranded` | as `progress`, the worker may die too | **violated**: RECONCILING is never taken up again | |
| `second_payment` | 2 payments, fairness | **violated**: the second payment is refused | |
| `catalog` | 2 requests at once, 3 in all, 1 sku over 2 ids, 2 users, 1 session, 1 key, 2 tokens, 3 versions, 2 fields, 3 images at first and sort orders 0 to 4, any call may die | can overlapping requests lose a change, repeat one, publish what was not confirmed, show an image that is gone, or pass the limit of images further than by overlapping? | 221 000 |
| `conversation` | 2 requests at once, 3 in all, 2 proposals, 2 turns of 2 calls, 2 connections, fairness | can a model, a retry or a death take a purchase past the human, does what was told stand, does every request end? | 269 000 |
| `gates` | 1 proposal, 2 calls at once of the buyer's 2 sessions, 2 approvals, 2 policy updates and a manual decision, 2 policy and 2 product versions, 3 rows of authorizations and decisions, the policy created on the way, expiry | do overlapping calls let through what was not authorized or not accepted under the policy in force? | 387 000 |
| `policy_race` | 2 policy updates, 1 limit, 1 policy row, 1 row of a kind | **violated**: a purchase is dispatched against the policy | |
| `review_race` | 2 manual decisions | **violated**: one review is answered with both yes and no | |
| `retried_proposal` | 1 thread, 2 requests, 1 key | **violated**: a retry under its key makes a second proposal | |

The bounds are the smallest at which each hazard happens. Two handlers are two
deliveries of one event, two events of one payment, or a checkout racing a
webhook; two payments are a failed attempt and its retry, or one on a foreign
order; three requests are a first call, a retry under its key and one under
another buyer's. Requests are the only unbounded input, and each is used up by
one call; every other behaviour is finite without a bound. What those sizes
cannot show -- any number of requests, workers, handlers, transactions -- is
what section 5 proves. Symmetry is over requests, payments, workers, handlers
and keys, in `catalog` over requests, tokens, users, products and fields, in `gates` over
calls of a kind, and in runs of safety properties only.

In `gates` any two calls overlap, of any kinds (`FewCalls`), each for as long as
others come and go beside it: two updates, two approvals, two evaluations, a
creation beside an update, a review beside an evaluation. Once an update or an
approval has written over another (`raced`, `overwritten`), calls go on one at a
time. Nothing is read before there is a proposal, and in one run either the product
is edited or time passes (`FewMoves`). The properties say what holds with any number
of editors, approvers and reviewers; what the code's missing locks take away is
left out of them by name:

* `CurrentDecisionFollowsPolicy`, `AnswersAgree` and `DispatchFollowsUnracedPolicy`
  hold of policy rows that no update wrote over unseen; `policy_race` shows that
  dispatch does not follow the policy on the others;
* `GatesNeverReturn` holds until an update or an approval writes over another: the
  later commit of two approvals replaces the expiry of the earlier, also after a
  creation has read it;
* that a proposal is not both allowed and denied under one version
  (`OneVerdictPerVersion`) is no invariant of the code and is checked in
  `review_race` only. Two reviews break it; so does one review and a slow
  evaluation: an evaluation that took its place under the first version may commit
  behind a later decision under the second, and be the latest row again.

`FewRows` lets the proposal have three rows: an authorization with two decisions,
which are a decision by policy and its review or decisions of two policy versions,
or a second authorization after the first lapsed, with one. A proposal lives for two
ticks and the clock moves once, so that approvals and manual decisions expire in the
run and proposals do not; the theorems of section 5 have no such bound. The limit
equals the total: the boundary at which `AUTO_BELOW_LIMIT` still allows. No policy
row exists at first: an evaluation may come before there is one.

In `catalog` two calls overlap and a third comes before or after them, which is a
change, its repetition and the change it raced with, or two publications with one
token. Two ids for one sku let two creations of it race. The product starts at the
limit of three images, so that an upload is refused until a removal commits, and
after it two that overlap pass the limit. In `conversation` two connections and two requests are the case in which both
sessions hold one and both executions want another; two turns of two calls are a
call that follows a hand-off in its own turn, and a turn that would follow it.

### Findings

* A worker that dies between the two database transactions of `reconcile`
  leaves the row RECONCILING for good (`stranded`).
* A payment captured after an earlier one failed on the same order is refused
  by `_require_expected_references` (`second_payment`).
* Two policy updates at once give one version number to two policies, and
  execution, which compares versions, dispatches under an acceptance of the lost
  one (`policy_race`).
* Two manual decisions that read one review are both recorded (`review_race`),
  though the code refuses a second one as soon as it can see the first.
* `create_proposal` takes an idempotency key and drops it, so that a retry makes a
  second proposal (`retried_proposal`), though `docs/ARCHITECTURE.md:209-212` says
  that mutating tools are idempotent.

Facts met on the way that no run is about, because the models say what the code
does and nothing in the repository says otherwise:

* Reconciliation never has a payment to look up (`NoPaymentBeforePending`), so its
  SUCCEEDED and FAILED outcomes cannot occur; no path at all makes a dispatched
  transaction FAILED: one whose payment failed or was refunded stays VERIFYING.
* A publication that is retried with its key and its token is refused with 409:
  the token is found used before the key is looked up. The catalog model has it as
  a call that never passes `Enter`.
* An upload holds the event loop from its first statement to its last; if that
  statement waits for a row another request has written, the other's commit needs
  the loop, and the server stands until the database ends the wait (`LoopFree`).
* A removal that dies after the blob is gone and before its commit leaves an image
  that is listed and cannot be shown; where storage raises for a blob that is gone
  (`storage/gcs.py`, `storage/supabase.py`), no later removal can take the row away
  either.
* Uploads that overlap pass the limit of three images that
  `tests/unit/test_product_storage_service.py:280` and the dashboard state, by one
  for each further upload at the same time (`LimitIsClose` says that it is no more).
* The HTTP API answers before it commits. A caller may be told of a change that is
  then lost; `ToldIsStored` therefore counts what MCP clients are told, and the
  executions of everybody, which commit on their own.
* An MCP client's execution key is derived from the transaction, so that an answer
  UNKNOWN is repeated to it for ever, also after reconciliation.
* Two policy rows may be ACTIVE at once (`InForce` takes the greater version).
* `api/buyer_chat/router.py:366` asks the composition root for
  `transaction_query_service`, which it does not have.

## 4. Fairness

`FairSpec` assumes, and the code justifies:

* a call of `execute` that has not died goes on (weak fairness: it is a thread);
* reconciliation is called again as long as a transaction needs it. This is an
  assumption about operations: `docs/ARCHITECTURE.md` names a worker that the
  repository does not contain;
* a provider that is asked for ever answers some day (strong fairness of
  `Resolve`, because a failed read disables and re-enables it);
* Razorpay marks an order paid after its capture, and delivers `order.paid`
  until it is acknowledged; a handler that is tried for ever is some day not cut
  short (strong fairness, per payment);
* a handler does not work on one callback for ever.

Nothing is assumed of buyers' returns to the checkout, of other events, or of
deaths.

`BuyerConversation` assumes weak fairness of `Serve(r)`, the steps of one request:
it is a thread, and whatever it waits for ends on its own, the model's answer by
the client's timeout, the wait for a connection by the pool's (`TimesOut` enables `Refuse`). Nothing is assumed of the arrival of requests, of humans
and merchants, or of deaths. The catalog and the gates have safety runs only.

## 5. Proofs

Every safety invariant, action property and refinement that a passing run checks,
`LimitIsClose` excepted, is also a theorem, for every value of the constants that satisfies the named
assumptions; TLC evaluates those on every run. An assumption says that the absent
value is none of the others, that bounds and times are numbers, and the few facts
named below. Each inductive invariant is itself checked by a run before it is
proved. A proof has one step per action and, under it, one per conjunct the action
can disturb.

| module | theorems | holds for |
|---|---|---|
| `PaymentAuthorityProofs` | `CustodyHolds`, `TypesHold`, `OneOrder`, `PendingNames`, `NoEarlyPayment`, `SuccessIsPaid` | every `Spec` |
| `PaymentBookkeepingProofs` | `InductiveHolds`, `TransitionsAreLegal`, `RepliesMatch`, `RepliesRepeat`, `ProcessedWasRecorded`, `ReferencesHold`, `SettledHolds`, `ReceiptsHold` | every `Spec` |
| `PaymentRefinementProofs` | `LifecycleHolds` | every `Spec` |
| `MerchantCatalogProofs` | `InductiveHolds`, `TypesHold`, `RepliesHold`, `KeysHold`, `PublicationsHold`, `ContractHolds`, `ImagesHold` | every `Spec` |
| `BuyerConversationProofs` | `InductiveHolds`, `TypesHold`, `ToldHolds`, `ContractHolds` | every `Spec` |
| `ProposalGatesProofs` | `KnownHolds`, `TypesHold`, `TransactionsHold`, `BookkeepingHolds`, `DecisionsHold`, `AnswersHold`, `DispatchesFollow`, `LapsesHold` | every `Spec` |

### The payment side

None of the safety invariants is inductive alone. The assumptions are
`ProviderAssumption`, `StoreAssumption`, `ExecutionAssumption` and `JobAssumption`
(the price is an amount, each transaction has a buyer). `Inductive` is `Custody`,
which carries the properties about money, and `Bookkeeping`, which needs it:

* *ownership*: a POST on the wire, an order at Razorpay and a request that is
  away all belong to the attempt stored in the transaction they name, attempts
  of different transactions differ, and an attempt's id is a request that has
  already arrived. One order per transaction then follows because two orders of
  a transaction would both be its one attempt;
* *truth of evidence*: whatever "captured" or "paid" a handler carries, or an
  attempt stores, is true of Razorpay for good, because captured payments and
  paid orders only move on to "refunded". Stale evidence is therefore harmless,
  which is why no lock is needed while Razorpay is asked;
* *founded jobs and claims*: what a handler is about to apply or to acknowledge
  agrees with the row it will find (`JobsAreFounded`), and a key belongs to its
  transaction's buyer and, until it is answered for good, to the one request that
  dispatched it (`ClaimsAreOwned`). From these follow that no step takes a
  transition the table lacks and that an event is acknowledged only with its
  evidence on record;
* *filed answers*: who was told an outcome for good has it under his key, and a
  filed outcome is not filed anew (`AnswersAreFiled`). So whoever repeats a request
  is told what the first was told: `AnswersRepeat`, theorem `RepliesRepeat`.

The action properties follow from one lemma on what a step may do to an attempt
(`AttemptSteps`). `LifecycleHolds` maps each step of the services to a step of
`PaymentLifecycle` or to none, under the invariant: the guards of the abstract step
(the order is the transaction's own and only one, the payment is captured) are what
`Custody` says.

### The catalog

`MerchantCatalogProofs` proves every property of the `catalog` run from
`SessionAssumption`, `CatalogAssumption` and `ImageAssumption` (a product may be
changed at least once). Its `Inductive` relates what a call in progress carries to what
is committed, of products first (`ProductsInductive`):

* a key that a call has claimed and not committed is claimed by that call alone
  (`OneClaimant`), so that a commit never replaces a claim;
* what a call has read is the product or an earlier version of it (`ReadsAreOld`),
  so that the condition of the UPDATE on the version makes it the product itself;
* what a call is about to commit is one change of the product as it stands, and no
  other call is about to commit one for the same product or the same new sku
  (`WritesFollow`): the refinement's step is then the commit;
* a committed key, and a spent token, name a version that is gone for good
  (`ClaimsAreChanges`, `SpentTokensAreOld`). This is what makes the window at a
  token's expiry harmless: a used token may pass the check there, but no product is
  at its version any more.

`ImagesHold` rests on the other half (`ImagesInductive`): a blob belongs to one row or to the upload that stored it,
and a row that a call has inserted or deleted is held by that call until it commits.
Any call may die at any step; a row whose removal died has its blob in `torn`, and the
theorem says that no other row is without one. `FramePreserves` and `ImageFrame` carry each
invariant over the steps of the other half.

### The conversation

`BuyerConversationProofs` assumes `ConversationAssumption`: at least one connection,
one turn of the model and one call in a turn (`MaxSteps` is `llm_max_tool_steps`,
`MaxCalls` a bound of the model). Without a call in a turn `TypeOK` would be false as
soon as the model asks for one: the attempt to prove it found that. Its `Inductive` says of every request in progress that

* its uncommitted rows are at most the one row of the hand-off it came to, and a
  request that still works has none (`InOrder`);
* no two requests are about to insert one proposal, and none inserts one that is
  there (`WritesAreNew`);
* a purchase has no later stage without the earlier ones (`StagesInOrder`).

So a commit moves one proposal by one stage, and a hand-off that was answered is
stored or will be by that commit. In the refinement a request of `AgentContract` is
open until its hand-off is stored (`MayMove`), and the abstract step is the commit,
or the commit in the middle of an execution (`Prepare`) and the start that follows.

### The gates

`ProposalGatesProofs` assumes `PolicyAssumption` and `GateAssumption` and nothing about
concurrency: any number of editors, approvers, reviewers and buyers' sessions overlap
at every statement. Its invariant `Known` is `TypeOK` and `Bookkeeping`:

* a place is `Held` by the one call that will fill it (`PlacesAreHeld`);
* what a call has read still grants what it does with it (`ReadingsStand`): an approved
  authorization stays approved, though another approval may change its expiry, a
  committed decision never changes, no row outlives its proposal, and no proposal is of
  a later product version than the product. A creation's reads, five statements apart,
  are therefore good when it commits: `TransactionsHold`;
* what decisions, committed or due, and reviews in progress found a policy to say is
  what it says, or its version has moved on, and two findings under one version agree
  (`VersionsName`), for every row not in `raced`. The step that carries this is
  `WriteRow`: an update whose two readings and write saw the same row raises the version
  by one, so that no old finding is of the new one; any other update puts the row in
  `raced`. That an evaluation judges before it looks for a decision, and that its row
  may become visible late, does not matter: a finding names the version it was made
  under.

`DecisionsHold`, `AnswersHold` and `DispatchesFollow` follow from `VersionsName`;
`DispatchesFollow` uses that execution compares versions under the row it reads.
`LapsesHold` follows from versions, products and time that only rise and an approval
that only another approval changes (`overwritten`).

### Only model-checked

The liveness properties `UncertaintyResolves`, `CapturedSettles` and `RequestsEnd`:
fairness and `ENABLED` are out of the prover's reach.

## 6. Not modelled, and why

* Parsing of HTTP and MCP messages, remote service clients, the merchant's MCP
  server (it forwards to the API), searches and pagination, audit events, the
  frontend: stateless, read-only or pure I/O.
* Creation of a merchant and its first membership (done by a script), and the
  signed tokens of buyers, which are checked without state.
* The content of answers of the storage services; that a path is never reused is
  `new_id`.
* The language models behind the buyer orchestrator and the draft extraction.
* Amounts other than the price and a wrong one; currencies; a zero amount, which
  the database accepts and Razorpay refuses (listed as a hazard).
* Stock: `available_quantity` is never decremented by a sale, so nothing depends
  on it after creation of a transaction.

## 7. Plan

1. The approval race of `ProposalGates`, and the limit of images, as runs of their own;
   progress of a proposal (a manual acceptance that lapses while the policy stands
   leaves it without a next step).
2. Composition of the gates with execution: `current` replaced by `Revalidates`, and
   the separate reads of execution's checks, as creation and evaluation have them.
3. An abstract specification of the gates: a purchase moves from proposed over
   authorized and accepted to created and dispatched, with no calls in progress;
   `ProposalGates` as its implementation, first by TLC, then as a theorem under
   `Known`.
4. A bound on the damage of `policy_race`: how far a policy that an update wrote over
   may be from what the decisions under its version found.
5. Lemmas that connect the families: that `current` of the payment modules is an
   abstraction of `Revalidates`, by `LapsesHold`.
