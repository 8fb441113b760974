---------------------------- MODULE ProposalGates ----------------------------
(***************************************************************************)
(* The gates of a purchase: a proposal over a product, the buyer's         *)
(* authorization, the merchant's decision under a policy, and the READY    *)
(* transaction, up to the checks that execution repeats before dispatch.   *)
(*                                                                         *)
(* A call is one database session: it reads committed rows, and what it    *)
(* writes becomes visible when the session commits, after its checks.  A   *)
(* call is therefore split into its reading statements and its writing,    *)
(* and other calls run in between.  A call leaves early when it finds what *)
(* it was asked for, is refused, dies or fails to commit.                  *)
(*                                                                         *)
(* The latest authorization or decision is the one with the greatest       *)
(* created_at, a clock the call read before it wrote.  Rows are kept in    *)
(* that order: a call that reads the clock holds the next place, and fills *)
(* it when it commits; the place of a call that leaves stays held.         *)
(***************************************************************************)
EXTENDS MerchantPolicy

CONSTANTS
  Proposals,
  Total,              \* total_minor of every modelled proposal
  Life,               \* proposal_ttl
  Horizon,            \* bound: the clock stops here
  MaxProductVersion,  \* bound: the product is not edited further
  MaxRows,            \* bound: decisions, and authorizations, of a proposal
  Sessions,           \* calls of buyers served at once, other than approvals
  Approvals,          \* approvals by human buyers served at once
  Reviews,            \* manual decisions of merchant approvers served at once
  Held                \* a place whose row is not committed yet

VARIABLES
  now,         \* the clock, at the grain of expiry times
  product,     \* products: [version, sellable]
  proposal,    \* purchase_proposals: None, or [version, expires]
  auths,       \* buyer_authorizations of each proposal, by created_at
  decisions,   \* merchant_decisions of each proposal, by created_at
  txn,         \* None, or [auth, decision]: the transaction and the rows it names
  dispatched,  \* proposals whose transaction passed execution's checks
  session, approval, review,  \* None, or what each call has read
  overwritten  \* history: [on, place] of approvals written over by another

gateVars == <<now, product, proposal, auths, decisions, txn, dispatched,
              session, approval, review, overwritten>>
vars == <<policyVars, gateVars>>

Times == 0..Horizon + Life
Verdicts == {"ALLOW", "DENY", "REVIEW_REQUIRED"}

Authorization == [status : {"REQUESTED", "APPROVED"}, expires : Times]
Decision == [policy : PolicyIds, version : 1..MaxPolicyVersion, verdict : Verdicts,
             manual : BOOLEAN, expires : Times]

Places == 1..MaxRows
Rows(R) == [Places -> R \cup {Held, None}]

(* Of each call, what it goes on with after each of its statements.        *)
Request    == [step : {"request"}, on : Proposals, place : Places]
Evaluation == [step : {"evaluate"}, on : Proposals, place : Places, at : Times]
                \cup [step : {"authorized"}, on : Proposals, place : Places]
                \cup [step : {"judged", "evaluated"}, on : Proposals, place : Places,
                      decision : Decision]
Creation   == [step : {"create"}, on : Proposals, at : Times]
                \cup [step : {"covered"}, on : Proposals, at : Times, auth : Places]
                \cup [step : {"accepted", "current", "checked"}, on : Proposals,
                      auth : Places, decision : Places]
Session == Request \cup Evaluation \cup Creation
Approval == [on : Proposals, place : Places, expires : Times]
Review ==
    [step : {"latest", "read"}, on : Proposals, policy : PolicyIds,
     version : 1..MaxPolicyVersion]
      \cup [step : {"decided"}, on : Proposals, place : Places, decision : Decision]

ASSUME GateAssumption ==
    /\ {Total, Horizon, MaxRows} \subseteq Nat
    /\ Life \in Nat \ {0}
    /\ MaxProductVersion \in Nat \ {0}
    /\ Held # None
    /\ {Held, None} \cap (Authorization \cup Decision) = {}
    /\ None \notin Session \cup Approval \cup Review
    /\ None \notin [version : 1..MaxProductVersion, expires : Times]
                    \cup [auth : Places, decision : Places]

TypeOK ==
    /\ PolicyTypeOK
    /\ now \in 0..Horizon
    /\ product \in [version : 1..MaxProductVersion, sellable : BOOLEAN]
    /\ proposal \in [Proposals -> [version : 1..MaxProductVersion, expires : Times] \cup {None}]
    /\ auths \in [Proposals -> Rows(Authorization)]
    /\ decisions \in [Proposals -> Rows(Decision)]
    /\ txn \in [Proposals -> [auth : Places, decision : Places] \cup {None}]
    /\ dispatched \subseteq Proposals
    /\ session \in [Sessions -> Session \cup {None}]
    /\ approval \in [Approvals -> Approval \cup {None}]
    /\ review \in [Reviews -> Review \cup {None}]
    /\ overwritten \subseteq [on : Proposals, place : Places]

Init ==
    /\ PolicyInit
    /\ now = 0
    /\ product = [version |-> 1, sellable |-> TRUE]
    /\ proposal = [p \in Proposals |-> None]
    /\ auths = [p \in Proposals |-> [i \in Places |-> None]]
    /\ decisions = [p \in Proposals |-> [i \in Places |-> None]]
    /\ txn = [p \in Proposals |-> None]
    /\ dispatched = {}
    /\ session = [b \in Sessions |-> None]
    /\ approval = [a \in Approvals |-> None]
    /\ review = [m \in Reviews |-> None]
    /\ overwritten = {}

------------------------------------------------------------------------------
(* What the services compute from the rows they read.                      *)

Active(p) == proposal[p] # None /\ now < proposal[p].expires

(* At most one place: the committed row with the greatest created_at.      *)
Latest(rows) ==
    {i \in Places : /\ rows[i] \notin {Held, None}
                    /\ \A j \in Places : j > i => rows[j] \in {Held, None}}

NextPlace(rows) ==
    {i \in Places : rows[i] = None /\ \A j \in Places : j < i => rows[j] # None}

(* BuyerAuthorization.require_matches; the terms an authorization was      *)
(* approved with are the proposal's, or it was not approved.               *)
Authorizes(a, at) == a.status = "APPROVED" /\ at < a.expires

DecidedUnder(d, i, version) == d.policy = i /\ d.version = version

(* Variant that takes any decision for a current one.                      *)
OfAnyVersion(d) == TRUE

(* MerchantDecision.is_current_for: a version stands for its policy.       *)
CurrentFor(d) == \E i \in InForce : DecidedUnder(d, i, policy[i].version)

(* The policy in force can be read: it is well formed.                     *)
PolicyReads == \E i \in InForce : WellFormed(policy[i])

(* The verdict of evaluate_merchant_policy under policy x.                 *)
Verdict(x) ==
    CASE x.mode = "DENY_ALL"   -> "DENY"
      [] x.mode = "MANUAL_ALL" -> "REVIEW_REQUIRED"
      [] x.mode = "AUTO_BELOW_LIMIT" ->
           IF x.limit # None /\ Total <= x.limit THEN "ALLOW" ELSE "REVIEW_REQUIRED"

(* require_current_product.                                                *)
ProductIsCurrent(p) == product.version = proposal[p].version /\ product.sellable

(* Variant that opens the gate to what awaits review.                      *)
NotDenied(d) == d.verdict # "DENY"

Allows(d) == d.verdict = "ALLOW"

(* Variant that lets an approver overrule any decision.                    *)
Overrules(d) == TRUE

AwaitsReview(d) == d.verdict = "REVIEW_REQUIRED"

(* determine_next_gate is READY with decision d, which is current.         *)
Accepts(d, at) == at < d.expires /\ Allows(d)

Hold(rows, p, i) == [rows EXCEPT ![p] = [@ EXCEPT ![i] = Held]]
Fill(rows, p, i, row) == [rows EXCEPT ![p] = [@ EXCEPT ![i] = row]]

------------------------------------------------------------------------------
(* Buyers.                                                                 *)

(* Call b goes on from this step.                                          *)
Goes(b, step) == session[b] # None /\ session[b].step = step

(* One insert: nobody sees the proposal before it is there, so that a      *)
(* product edited in between is one edited just after.                     *)
CreateProposal(p) ==
    /\ proposal[p] = None
    /\ product.sellable
    /\ proposal' = [proposal EXCEPT ![p] = [version |-> product.version, expires |-> now + Life]]
    /\ UNCHANGED <<now, product, auths, decisions, txn, dispatched, session, approval, review,
                   overwritten>>

(* A live authorization is returned instead of a new one.  The clock and   *)
(* the latest authorization are read at once: one that is committed after  *)
(* the clock was read is live at that time, and would be returned.         *)
StartRequest(b, p) ==
    /\ session[b] = None
    /\ Active(p)
    /\ \A i \in Latest(auths[p]) : now >= auths[p][i].expires
    /\ \E i \in NextPlace(auths[p]) :
         /\ auths' = Hold(auths, p, i)
         /\ session' = [session EXCEPT ![b] = [step |-> "request", on |-> p, place |-> i]]
    /\ UNCHANGED <<now, product, proposal, decisions, txn, dispatched, approval, review,
                   overwritten>>

EndRequest(b) ==
    /\ Goes(b, "request")
    /\ LET p == session[b].on IN
         auths' = Fill(auths, p, session[b].place,
                       [status |-> "REQUESTED", expires |-> proposal[p].expires])
    /\ session' = [session EXCEPT ![b] = None]
    /\ UNCHANGED <<now, product, proposal, decisions, txn, dispatched, approval, review,
                   overwritten>>

(* The human approves the latest authorization, until some time no later   *)
(* than the proposal's.  Its status is looked at only here.  The clock is  *)
(* read after it: what is not yet expired then is not expired here.        *)
StartApprove(a, p, until) ==
    /\ approval[a] = None
    /\ Active(p)
    /\ until > now
    /\ until <= proposal[p].expires
    /\ \E i \in Latest(auths[p]) :
         /\ auths[p][i].status = "REQUESTED"
         /\ approval' = [approval EXCEPT ![a] = [on |-> p, place |-> i, expires |-> until]]
    /\ UNCHANGED <<now, product, proposal, auths, decisions, txn, dispatched, session, review,
                   overwritten>>

(* The row is loaded again and written at once, whatever became of it.     *)
EndApprove(a) ==
    /\ approval[a] # None
    /\ LET p == approval[a].on
           i == approval[a].place
       IN /\ auths' = Fill(auths, p, i, [status |-> "APPROVED", expires |-> approval[a].expires])
          /\ overwritten' = IF auths[p][i].status = "APPROVED"
                              THEN overwritten \cup {[on |-> p, place |-> i]}
                              ELSE overwritten
    /\ approval' = [approval EXCEPT ![a] = None]
    /\ UNCHANGED <<now, product, proposal, decisions, txn, dispatched, session, review>>

(* An evaluation reads the clock, the latest authorization, the policy and *)
(* the latest decision, one after the other.                               *)
StartEvaluate(b, p) ==
    /\ session[b] = None
    /\ Active(p)
    /\ \E i \in NextPlace(decisions[p]) :
         /\ decisions' = Hold(decisions, p, i)
         /\ session' = [session EXCEPT ![b] =
                          [step |-> "evaluate", on |-> p, place |-> i, at |-> now]]
    /\ UNCHANGED <<now, product, proposal, auths, txn, dispatched, approval, review, overwritten>>

ReadAuthorization(b) ==
    /\ Goes(b, "evaluate")
    /\ LET p == session[b].on IN
         \E i \in Latest(auths[p]) : Authorizes(auths[p][i], session[b].at)
    /\ session' = [session EXCEPT ![b] =
                     [step |-> "authorized", on |-> @.on, place |-> @.place]]
    /\ UNCHANGED <<now, product, proposal, auths, decisions, txn, dispatched, approval, review,
                   overwritten>>

Judge(b) ==
    /\ Goes(b, "authorized")
    /\ PolicyReads
    /\ \E x \in InForce :
         session' = [session EXCEPT ![b] =
           [step |-> "judged", on |-> @.on, place |-> @.place,
            decision |-> [policy |-> x, version |-> policy[x].version,
                          verdict |-> Verdict(policy[x]), manual |-> FALSE,
                          expires |-> proposal[@.on].expires]]]
    /\ UNCHANGED <<now, product, proposal, auths, decisions, txn, dispatched, approval, review,
                   overwritten>>

(* A decision under what was read is returned, or refused when expired.    *)
ReadDecision(b) ==
    /\ Goes(b, "judged")
    /\ LET p == session[b].on
           d == session[b].decision
       IN \A i \in Latest(decisions[p]) : ~DecidedUnder(decisions[p][i], d.policy, d.version)
    /\ session' = [session EXCEPT ![b].step = "evaluated"]
    /\ UNCHANGED <<now, product, proposal, auths, decisions, txn, dispatched, approval, review,
                   overwritten>>

EndEvaluate(b) ==
    /\ Goes(b, "evaluated")
    /\ decisions' = Fill(decisions, session[b].on, session[b].place, session[b].decision)
    /\ session' = [session EXCEPT ![b] = None]
    /\ UNCHANGED <<now, product, proposal, auths, txn, dispatched, approval, review, overwritten>>

(* A creation reads the clock, the latest authorization, the latest        *)
(* decision, the policy and the product.  A transaction that exists is     *)
(* returned.                                                               *)
StartCreate(b, p) ==
    /\ session[b] = None
    /\ Active(p)
    /\ txn[p] = None
    /\ session' = [session EXCEPT ![b] = [step |-> "create", on |-> p, at |-> now]]
    /\ UNCHANGED <<now, product, proposal, auths, decisions, txn, dispatched, approval, review,
                   overwritten>>

CheckAuthorization(b) ==
    /\ Goes(b, "create")
    /\ LET p == session[b].on IN
         \E i \in Latest(auths[p]) :
            /\ Authorizes(auths[p][i], session[b].at)
            /\ session' = [session EXCEPT ![b] =
                             [step |-> "covered", on |-> p, at |-> @.at, auth |-> i]]
    /\ UNCHANGED <<now, product, proposal, auths, decisions, txn, dispatched, approval, review,
                   overwritten>>

CheckDecision(b) ==
    /\ Goes(b, "covered")
    /\ LET p == session[b].on IN
         \E i \in Latest(decisions[p]) :
            /\ Accepts(decisions[p][i], session[b].at)
            /\ session' = [session EXCEPT ![b] =
                             [step |-> "accepted", on |-> p, auth |-> @.auth, decision |-> i]]
    /\ UNCHANGED <<now, product, proposal, auths, decisions, txn, dispatched, approval, review,
                   overwritten>>

CheckPolicy(b) ==
    /\ Goes(b, "accepted")
    /\ PolicyReads
    /\ CurrentFor(decisions[session[b].on][session[b].decision])
    /\ session' = [session EXCEPT ![b].step = "current"]
    /\ UNCHANGED <<now, product, proposal, auths, decisions, txn, dispatched, approval, review,
                   overwritten>>

CheckProduct(b) ==
    /\ Goes(b, "current")
    /\ ProductIsCurrent(session[b].on)
    /\ session' = [session EXCEPT ![b].step = "checked"]
    /\ UNCHANGED <<now, product, proposal, auths, decisions, txn, dispatched, approval, review,
                   overwritten>>

(* The unique constraint on the proposal lets one of two creators in.      *)
EndCreate(b) ==
    /\ Goes(b, "checked")
    /\ LET p == session[b].on IN
         txn' = IF txn[p] = None
                  THEN [txn EXCEPT ![p] = [auth |-> session[b].auth,
                                           decision |-> session[b].decision]]
                  ELSE txn
    /\ session' = [session EXCEPT ![b] = None]
    /\ UNCHANGED <<now, product, proposal, auths, decisions, dispatched, approval, review,
                   overwritten>>

LeaveSession(b) ==
    /\ session[b] # None
    /\ session' = [session EXCEPT ![b] = None]
    /\ UNCHANGED <<now, product, proposal, auths, decisions, txn, dispatched, approval, review,
                   overwritten>>

LeaveApproval(a) ==
    /\ approval[a] # None
    /\ approval' = [approval EXCEPT ![a] = None]
    /\ UNCHANGED <<now, product, proposal, auths, decisions, txn, dispatched, session, review,
                   overwritten>>

------------------------------------------------------------------------------
(* Merchant approvers.                                                     *)

(* The latest decision awaits a review, and is, at the next statement, of  *)
(* the policy in force.                                                    *)
ReadReview(m, p) ==
    /\ review[m] = None
    /\ proposal[p] # None
    /\ \E i \in Latest(decisions[p]) :
         /\ AwaitsReview(decisions[p][i])
         /\ review' = [review EXCEPT ![m] =
                         [step |-> "latest", on |-> p, policy |-> decisions[p][i].policy,
                          version |-> decisions[p][i].version]]
    /\ UNCHANGED <<now, product, proposal, auths, decisions, txn, dispatched, session, approval,
                   overwritten>>

ConfirmReview(m) ==
    /\ review[m] # None
    /\ review[m].step = "latest"
    /\ PolicyReads
    /\ CurrentFor(review[m])
    /\ review' = [review EXCEPT ![m].step = "read"]
    /\ UNCHANGED <<now, product, proposal, auths, decisions, txn, dispatched, session, approval,
                   overwritten>>

(* The clock is read after the rows; the decision carries the version that *)
(* was reviewed, and expires no later than the proposal.                   *)
Decide(m, verdict, until) ==
    /\ review[m] # None
    /\ review[m].step = "read"
    /\ LET p == review[m].on IN
         /\ Active(p)
         /\ until > now
         /\ until <= proposal[p].expires
         /\ \E i \in NextPlace(decisions[p]) :
              /\ decisions' = Hold(decisions, p, i)
              /\ review' = [review EXCEPT ![m] =
                   [step |-> "decided", on |-> p, place |-> i,
                    decision |-> [policy |-> @.policy, version |-> @.version,
                                  verdict |-> verdict, manual |-> TRUE, expires |-> until]]]
    /\ UNCHANGED <<now, product, proposal, auths, txn, dispatched, session, approval, overwritten>>

EndReview(m) ==
    /\ review[m] # None
    /\ review[m].step = "decided"
    /\ decisions' = Fill(decisions, review[m].on, review[m].place, review[m].decision)
    /\ review' = [review EXCEPT ![m] = None]
    /\ UNCHANGED <<now, product, proposal, auths, txn, dispatched, session, approval, overwritten>>

LeaveReview(m) ==
    /\ review[m] # None
    /\ review' = [review EXCEPT ![m] = None]
    /\ UNCHANGED <<now, product, proposal, auths, decisions, txn, dispatched, session, approval,
                   overwritten>>

------------------------------------------------------------------------------
(* Execution, the product and the clock.                                   *)

(* _revalidate_execution: the rows the transaction names are checked, not  *)
(* the latest ones.  Its reads, a few statements apart, are one here.      *)
Revalidates(p) ==
    /\ Active(p)
    /\ Authorizes(auths[p][txn[p].auth], now)
    /\ PolicyReads
    /\ CurrentFor(decisions[p][txn[p].decision])
    /\ Accepts(decisions[p][txn[p].decision], now)
    /\ ProductIsCurrent(p)

Execute(p) ==
    /\ txn[p] # None
    /\ p \notin dispatched
    /\ Revalidates(p)
    /\ dispatched' = dispatched \cup {p}
    /\ UNCHANGED <<now, product, proposal, auths, decisions, txn, session, approval, review,
                   overwritten>>

(* Variant that does not count the change.                                 *)
SameProductVersion(v) == v

NextProductVersion(v) == v + 1

(* Any edit, publication or unpublication; an UPDATE guarded by version.   *)
EditProduct ==
    /\ product.version < MaxProductVersion
    /\ \E sellable \in BOOLEAN :
         product' = [version |-> NextProductVersion(product.version), sellable |-> sellable]
    /\ UNCHANGED <<now, proposal, auths, decisions, txn, dispatched, session, approval, review,
                   overwritten>>

Tick ==
    /\ now < Horizon
    /\ now' = now + 1
    /\ UNCHANGED <<product, proposal, auths, decisions, txn, dispatched, session, approval,
                   review, overwritten>>

BuyerStep ==
    \/ \E p \in Proposals : CreateProposal(p) \/ Execute(p)
    \/ \E b \in Sessions, p \in Proposals :
         StartRequest(b, p) \/ StartEvaluate(b, p) \/ StartCreate(b, p)
    \/ \E b \in Sessions :
         \/ EndRequest(b) \/ EndEvaluate(b) \/ EndCreate(b) \/ LeaveSession(b)
         \/ ReadAuthorization(b) \/ Judge(b) \/ ReadDecision(b)
         \/ CheckAuthorization(b) \/ CheckDecision(b) \/ CheckPolicy(b) \/ CheckProduct(b)
    \/ \E a \in Approvals, p \in Proposals, until \in Times : StartApprove(a, p, until)
    \/ \E a \in Approvals : EndApprove(a) \/ LeaveApproval(a)

ReviewStep ==
    \E m \in Reviews :
        \/ \E p \in Proposals : ReadReview(m, p)
        \/ ConfirmReview(m)
        \/ \E verdict \in {"ALLOW", "DENY"}, until \in Times : Decide(m, verdict, until)
        \/ EndReview(m)
        \/ LeaveReview(m)

Next ==
    \/ \E e \in Editors : PolicyStep(e) /\ UNCHANGED gateVars
    \/ (BuyerStep \/ ReviewStep \/ EditProduct \/ Tick) /\ UNCHANGED policyVars

Spec == Init /\ [][Next]_vars

------------------------------------------------------------------------------
(* Properties.                                                             *)

(* What the policy was found to say when a decision was made: a manual one *)
(* answers a call for review.                                              *)
Answer(d) == IF d.manual THEN "REVIEW_REQUIRED" ELSE d.verdict

(* A decision that counts as current is one the policy, as it stands, led  *)
(* to, unless an update wrote over another: the version captured with it   *)
(* names one policy for good, even when the policy is edited between the   *)
(* statements of evaluations and reviews.                                  *)
CurrentDecisionFollowsPolicy ==
    \A p \in Proposals, i \in Places :
        LET d == decisions[p][i] IN
        (d \notin {Held, None} /\ d.policy \notin raced /\ CurrentFor(d)) =>
            Verdict(policy[d.policy]) = Answer(d)

(* Decisions under one version of a policy, of one proposal or of several, *)
(* found it to say the same, at whatever statements updates came between:  *)
(* evaluations agree, and what was answered by hand no evaluation decided. *)
AnswersAgree ==
    \A p, q \in Proposals, i, j \in Places :
        LET d == decisions[p][i]
            e == decisions[q][j]
        IN ({d, e} \cap {Held, None} = {} /\ DecidedUnder(d, e.policy, e.version)
             /\ d.policy \notin raced)
              => Answer(d) = Answer(e)

(* Under one version of the policy a proposal is not both allowed and      *)
(* denied, whatever evaluations and reviews overlap: a merchant's manual   *)
(* decision ends the review it answers.                                    *)
OneVerdictPerVersion ==
    \A p \in Proposals, i, j \in Places :
        LET d == decisions[p][i]
            e == decisions[p][j]
        IN ({d, e} \cap {Held, None} = {} /\ DecidedUnder(d, e.policy, e.version))
              => ~(d.verdict = "ALLOW" /\ e.verdict = "DENY")

Covered(p, i) ==
    LET a == auths[p][i] IN
    a \notin {Held, None} /\ a.status = "APPROVED" /\ a.expires <= proposal[p].expires

Accepted(p, i) ==
    LET d == decisions[p][i] IN
    d \notin {Held, None} /\ d.verdict = "ALLOW" /\ d.expires <= proposal[p].expires

(* A transaction names an approval and an acceptance of its own proposal   *)
(* that reach no further than the proposal (DATA_MODEL.md, required        *)
(* invariant 3), though both were read before other calls wrote.           *)
TransactionsAreGated ==
    \A p \in Proposals :
        txn[p] # None => Covered(p, txn[p].auth) /\ Accepted(p, txn[p].decision)

(* Policy i allows the purchase of p by itself, or leaves it to the        *)
(* approver whose decision the transaction names.                          *)
Permits(i, p) ==
    \/ Verdict(policy[i]) = "ALLOW"
    \/ Verdict(policy[i]) = "REVIEW_REQUIRED" /\ decisions[p][txn[p].decision].manual

(* Nothing is dispatched against the policy as it stands (ARCHITECTURE.md: *)
(* execution "re-evaluates merchant policy").                              *)
DispatchFollowsPolicy ==
    [][\A p \in dispatched' \ dispatched : \E i \in InForce : Permits(i, p)]_vars

(* Execution compares versions, which is enough where no update wrote over *)
(* another, whatever happened to the policy since the decision.            *)
DispatchFollowsUnracedPolicy ==
    [][\A p \in dispatched' \ dispatched :
          decisions[p][txn[p].decision].policy \notin raced =>
              \E i \in InForce : Permits(i, p)]_vars

(* A transaction whose gates lapsed stays refused: a new proposal is       *)
(* needed, whatever the merchant edits or the buyer approves afterwards.   *)
(* An update or an approval that writes over another is the exception.     *)
GatesNeverReturn ==
    [][\A p \in Proposals :
          (/\ txn[p] # None /\ ~Revalidates(p)
           /\ raced' = {} /\ [on |-> p, place |-> txn[p].auth] \notin overwritten')
            => ~Revalidates(p)']_vars

------------------------------------------------------------------------------
(* The calls in progress against what is committed: the invariants that    *)
(* carry the properties.                                                   *)

Requesting(b, p, i) ==
    Goes(b, "request") /\ session[b].on = p /\ session[b].place = i

(* Evaluations that hold a place, and those that know what they will write.*)
Judged(b) == session[b] # None /\ session[b].step \in {"judged", "evaluated"}

Evaluating(b, p, i) ==
    /\ Judged(b) \/ Goes(b, "evaluate") \/ Goes(b, "authorized")
    /\ session[b].on = p /\ session[b].place = i

Deciding(m, p, i) ==
    review[m] # None /\ review[m].step = "decided" /\ review[m].on = p /\ review[m].place = i

(* Every call that may fill a place holds it, and no other call does.      *)
PlacesAreHeld ==
    \A p \in Proposals, i \in Places :
        /\ \A b \in Sessions : Requesting(b, p, i) =>
             auths[p][i] = Held /\ \A c \in Sessions \ {b} : ~Requesting(c, p, i)
        /\ \A b \in Sessions : Evaluating(b, p, i) =>
             /\ decisions[p][i] = Held
             /\ \A c \in Sessions \ {b} : ~Evaluating(c, p, i)
             /\ \A m \in Reviews : ~Deciding(m, p, i)
        /\ \A m \in Reviews : Deciding(m, p, i) =>
             decisions[p][i] = Held /\ \A n \in Reviews \ {m} : ~Deciding(n, p, i)

(* The decisions committed on p, and those that calls on p will commit.    *)
Due(p) ==
    ({decisions[p][i] : i \in Places} \ {Held, None})
      \cup {session[b].decision : b \in {c \in Sessions : Judged(c) /\ session[c].on = p}}
      \cup {review[m].decision : m \in {n \in Reviews : \E i \in Places : Deciding(n, p, i)}}

(* What calls have read still stands when they write, and no row reaches   *)
(* further than its proposal.                                              *)
ReadingsStand ==
    /\ \A e \in Editors : edit[e] # None =>
         /\ WellFormed(edit[e].terms)
         /\ edit[e].step # "insert" => edit[e].id \in Stored
    /\ \A p \in Proposals :
         /\ \A i \in Places : auths[p][i] \notin {Held, None} =>
              proposal[p] # None /\ auths[p][i].expires <= proposal[p].expires
         /\ \A d \in Due(p) : proposal[p] # None /\ d.expires <= proposal[p].expires
    /\ \A b \in Sessions : session[b] # None =>
         /\ proposal[session[b].on] # None
         /\ session[b].step \in {"covered", "accepted", "current", "checked"} =>
              Covered(session[b].on, session[b].auth)
         /\ session[b].step \in {"accepted", "current", "checked"} =>
              Accepted(session[b].on, session[b].decision)
    /\ \A a \in Approvals : approval[a] # None =>
         /\ auths[approval[a].on][approval[a].place] \notin {Held, None}
         /\ approval[a].expires <= proposal[approval[a].on].expires
    /\ \A p \in Proposals : proposal[p] # None =>
         /\ proposal[p].version <= product.version
         /\ proposal[p].version = product.version => product.sellable

(* What decisions, and reviews in progress, found policies to say.         *)
Finding(d, answer) == [policy |-> d.policy, version |-> d.version, answer |-> answer]

Findings ==
    (UNION {{Finding(d, Answer(d)) : d \in Due(p)} : p \in Proposals})
      \cup {Finding(review[m], "REVIEW_REQUIRED") :
              m \in {n \in Reviews : review[n] # None /\ review[n].step \in {"latest", "read"}}}

(* What was found is what the policy says, unless it has moved on.         *)
Follows(f) ==
    /\ f.policy \in Stored
    /\ f.version <= policy[f.policy].version
    /\ f.version = policy[f.policy].version => Verdict(policy[f.policy]) = f.answer

(* Of a row that no update wrote over unseen, one version says one thing.  *)
VersionsName ==
    /\ \A i \in Stored \ raced : WellFormed(policy[i])
    /\ \A f \in Findings : f.policy \notin raced =>
         /\ Follows(f)
         /\ \A g \in Findings : DecidedUnder(g, f.policy, f.version) => g.answer = f.answer

Bookkeeping == PlacesAreHeld /\ ReadingsStand /\ VersionsName
==============================================================================
