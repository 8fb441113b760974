------------------------- MODULE ProposalGatesProofs --------------------------
(***************************************************************************)
(* The gates of a purchase, for every number of proposals, rows, versions  *)
(* and calls of each kind served at once.                                  *)
(***************************************************************************)
EXTENDS ProposalGates, TLAPS

------------------------------------------------------------------------------
(* Constants and rows.                                                     *)

(* The marks None and Held are no rows and no calls.                       *)
LEMMA Marks ==
  /\ Held # None
  /\ Held \notin Authorization /\ None \notin Authorization
  /\ Held \notin Decision /\ None \notin Decision
  /\ None \notin Session /\ None \notin Approval /\ None \notin Review
  /\ None \notin [version : 1..MaxProductVersion, expires : Times]
  /\ None \notin [auth : Places, decision : Places]
  /\ None \notin Policy /\ None \notin InsertEdit \cup ReadEdit \cup LoadedEdit
  BY GateAssumption, PolicyAssumption DEF GateAssumption, PolicyAssumption

LEMMA Sizes ==
  /\ Total \in Nat /\ Horizon \in Nat /\ MaxRows \in Nat
  /\ Life \in Nat \ {0} /\ MaxProductVersion \in Nat \ {0}
  /\ Limits \subseteq Nat /\ MaxPolicyVersion \in Nat \ {0}
  BY GateAssumption, PolicyAssumption DEF GateAssumption, PolicyAssumption

LEMMA Numbers == Times \subseteq Nat /\ Places \subseteq Nat
  BY Sizes DEF Times, Places

(* A place that is written; the others stay.                               *)
LEMMA FillRows ==
  ASSUME NEW R, NEW rows \in [Proposals -> Rows(R)], NEW p \in Proposals, NEW i \in Places,
         NEW row \in R \cup {Held, None}
  PROVE  /\ Fill(rows, p, i, row) \in [Proposals -> Rows(R)]
         /\ Fill(rows, p, i, row)[p][i] = row
         /\ \A q \in Proposals, j \in Places :
              (q # p \/ j # i) => Fill(rows, p, i, row)[q][j] = rows[q][j]
  <1> DEFINE new == [rows[p] EXCEPT ![i] = row]
  <1>1. rows[p] \in Rows(R)
    OBVIOUS
  <1>2. /\ new \in Rows(R) /\ new[i] = row
        /\ \A j \in Places : j # i => new[j] = rows[p][j]
    BY <1>1 DEF Rows
  <1>3. Fill(rows, p, i, row) = [rows EXCEPT ![p] = new]
    BY DEF Fill
  <1> HIDE DEF new
  <1> QED
    BY <1>1, <1>2, <1>3

LEMMA HoldRows ==
  ASSUME NEW R, NEW rows \in [Proposals -> Rows(R)], NEW p \in Proposals, NEW i \in Places
  PROVE  /\ Hold(rows, p, i) \in [Proposals -> Rows(R)]
         /\ Hold(rows, p, i)[p][i] = Held
         /\ \A q \in Proposals, j \in Places :
              (q # p \/ j # i) => Hold(rows, p, i)[q][j] = rows[q][j]
  <1>1. Hold(rows, p, i) = Fill(rows, p, i, Held)
    BY DEF Hold, Fill
  <1> QED
    BY <1>1, FillRows

(* A policy has one verdict on the modelled proposals.                     *)
LEMMA VerdictTyped ==
  ASSUME NEW x \in Policy
  PROVE  Verdict(x) \in Verdicts
  BY DEF Verdict, Verdicts, Policy, Modes

------------------------------------------------------------------------------
(* What calls carry.                                                       *)

LEMMA SessionFields ==
  ASSUME NEW s \in Session
  PROVE  /\ s.on \in Proposals
         /\ s.step \in {"request", "evaluate", "authorized", "judged", "evaluated", "create",
                        "covered", "accepted", "current", "checked"}
         /\ s.step \in {"request", "evaluate", "authorized", "judged", "evaluated"} =>
              s.place \in Places
         /\ s.step \in {"judged", "evaluated"} => s.decision \in Decision
         /\ s.step \in {"evaluate", "create", "covered"} => s.at \in Times
         /\ s.step \in {"covered", "accepted", "current", "checked"} => s.auth \in Places
         /\ s.step \in {"accepted", "current", "checked"} => s.decision \in Places
  BY DEF Session, Request, Evaluation, Creation

LEMMA ReviewFields ==
  ASSUME NEW r \in Review
  PROVE  /\ r.on \in Proposals /\ r.step \in {"latest", "read", "decided"}
         /\ r.step \in {"latest", "read"} =>
              r.policy \in PolicyIds /\ r.version \in 1..MaxPolicyVersion
         /\ r.step = "decided" => r.place \in Places /\ r.decision \in Decision
  BY DEF Review

LEMMA EditFields ==
  ASSUME NEW e \in InsertEdit \cup ReadEdit \cup LoadedEdit
  PROVE  /\ e.step \in {"insert", "read", "loaded"} /\ e.terms \in Terms
         /\ e.step # "insert" => e.id \in PolicyIds /\ e.base \in 1..MaxPolicyVersion - 1
         /\ e.step = "loaded" => e.row \in Policy
  BY DEF InsertEdit, ReadEdit, LoadedEdit

(* The policy in force, read from the rows.                                *)
LEMMA InForceTyped ==
  ASSUME TypeOK, NEW x \in InForce
  PROVE  /\ x \in PolicyIds /\ policy[x] \in Policy /\ x \in Stored
         /\ policy[x].version \in 1..MaxPolicyVersion
         /\ Verdict(policy[x]) \in Verdicts
  <1>1. x \in PolicyIds /\ policy[x] \in Policy /\ x \in Stored
    BY DEF InForce, Stored, TypeOK, PolicyTypeOK
  <1> QED
    BY <1>1, VerdictTyped DEF Policy

LEMMA ProposalTyped ==
  ASSUME TypeOK, NEW p \in Proposals, proposal[p] # None
  PROVE  proposal[p].expires \in Times /\ proposal[p].version \in 1..MaxProductVersion
  BY DEF TypeOK

LEMMA RowsTyped ==
  ASSUME TypeOK, NEW p \in Proposals, NEW i \in Places
  PROVE  /\ auths[p][i] \in Authorization \cup {Held, None}
         /\ decisions[p][i] \in Decision \cup {Held, None}
  BY DEF TypeOK, Rows

(* The decisions of p, committed and to come.                              *)
LEMMA DueMember ==
  ASSUME NEW p \in Proposals, NEW d
  PROVE  d \in Due(p) <=>
           \/ \E i \in Places : d = decisions[p][i] /\ d \notin {Held, None}
           \/ \E b \in Sessions : Judged(b) /\ session[b].on = p /\ d = session[b].decision
           \/ \E m \in Reviews, i \in Places : Deciding(m, p, i) /\ d = review[m].decision
  BY DEF Due

LEMMA DueTyped ==
  ASSUME TypeOK, NEW p \in Proposals, NEW d \in Due(p)
  PROVE  d \in Decision
  <1>1. CASE \E i \in Places : d = decisions[p][i] /\ d \notin {Held, None}
    BY <1>1, RowsTyped
  <1>2. CASE \E b \in Sessions : Judged(b) /\ session[b].on = p /\ d = session[b].decision
    BY <1>2, SessionFields DEF TypeOK, Judged
  <1>3. CASE \E m \in Reviews, i \in Places : Deciding(m, p, i) /\ d = review[m].decision
    BY <1>3, ReviewFields DEF TypeOK, Deciding
  <1> QED
    BY <1>1, <1>2, <1>3, DueMember

------------------------------------------------------------------------------
(* The steps, by what they touch.                                          *)

Known == TypeOK /\ TransactionsAreGated /\ Bookkeeping

LEMMA Parts ==
  Known => /\ TypeOK /\ PolicyTypeOK /\ TransactionsAreGated
           /\ PlacesAreHeld /\ ReadingsStand /\ VersionsName
  BY DEF Known, Bookkeeping, TypeOK

(* A statement of a buyer's call, after which only the call has changed.   *)
Calls(b) ==
    \/ \E p \in Proposals : StartCreate(b, p)
    \/ ReadAuthorization(b) \/ Judge(b) \/ ReadDecision(b)
    \/ CheckAuthorization(b) \/ CheckDecision(b) \/ CheckPolicy(b) \/ CheckProduct(b)
    \/ LeaveSession(b)

Approving(a) ==
    (\E p \in Proposals, until \in Times : StartApprove(a, p, until)) \/ LeaveApproval(a)

Reviewing(m) == (\E p \in Proposals : ReadReview(m, p)) \/ ConfirmReview(m) \/ LeaveReview(m)

Elsewhere ==
    (\E p \in Proposals : CreateProposal(p) \/ Execute(p)) \/ EditProduct \/ Tick

Ruling(m) ==
    \E verdict \in {"ALLOW", "DENY"}, until \in Times : Decide(m, verdict, until)

LEMMA Steps ==
  ASSUME [Next]_vars
  PROVE  \/ UNCHANGED vars
         \/ (\E e \in Editors : PolicyStep(e)) /\ UNCHANGED gateVars
         \/ /\ UNCHANGED policyVars
            /\ \/ Elsewhere
               \/ \E b \in Sessions :
                    \/ Calls(b) \/ EndRequest(b) \/ EndEvaluate(b) \/ EndCreate(b)
                    \/ \E p \in Proposals : StartRequest(b, p) \/ StartEvaluate(b, p)
               \/ \E a \in Approvals : Approving(a) \/ EndApprove(a)
               \/ \E m \in Reviews : Reviewing(m) \/ Ruling(m) \/ EndReview(m)
  BY DEF Next, BuyerStep, ReviewStep, Elsewhere, Calls, Approving, Reviewing, Ruling

(* What the groups leave alone.                                            *)
LEMMA Frames ==
  /\ \A b \in Sessions : Calls(b) =>
       UNCHANGED <<now, product, proposal, auths, decisions, txn, dispatched, approval, review,
                   overwritten>>
  /\ \A a \in Approvals : Approving(a) =>
       UNCHANGED <<now, product, proposal, auths, decisions, txn, dispatched, session, review,
                   overwritten>>
  /\ \A m \in Reviews : Reviewing(m) =>
       UNCHANGED <<now, product, proposal, auths, decisions, txn, dispatched, session, approval,
                   overwritten>>
  /\ Elsewhere =>
       UNCHANGED <<auths, decisions, txn, session, approval, review, overwritten>>
  BY DEF Calls, Approving, Reviewing, Elsewhere, StartCreate, ReadAuthorization, Judge,
         ReadDecision, CheckAuthorization, CheckDecision, CheckPolicy, CheckProduct,
         LeaveSession, StartApprove, LeaveApproval, ReadReview, ConfirmReview, LeaveReview,
         CreateProposal, Execute, EditProduct, Tick

(* What a call of a buyer goes on with was read: rows that grant.          *)
Sound(s) ==
    /\ s \in Session /\ proposal[s.on] # None
    /\ s.step \in {"covered", "accepted", "current", "checked"} => Covered(s.on, s.auth)
    /\ s.step \in {"accepted", "current", "checked"} => Accepted(s.on, s.decision)

(* The decision of an evaluation on p under policy x.                      *)
Judgement(p, x) ==
    [policy |-> x, version |-> policy[x].version, verdict |-> Verdict(policy[x]),
     manual |-> FALSE, expires |-> proposal[p].expires]

(* A call that goes on carries the decision it had, or one under the       *)
(* policy in force.                                                        *)
LEMMA CallMoves ==
  ASSUME Known, NEW b \in Sessions, Calls(b)
  PROVE  \E s :
           /\ session' = [session EXCEPT ![b] = s]
           /\ s # None =>
                /\ Sound(s) /\ s.step # "request"
                /\ s.step \in {"evaluate", "authorized", "judged", "evaluated"} =>
                     Evaluating(b, s.on, s.place)
                /\ s.step \in {"judged", "evaluated"} =>
                     \/ Judged(b) /\ session[b].on = s.on /\ s.decision = session[b].decision
                     \/ \E x \in InForce : s.decision = Judgement(s.on, x)
  <1> USE Parts
  <1>0. session[b] # None => Sound(session[b])
    BY DEF ReadingsStand, Sound, TypeOK
  <1>1. CASE LeaveSession(b)
    BY <1>1 DEF LeaveSession
  <1>2. ASSUME NEW p \in Proposals, StartCreate(b, p)
        PROVE  /\ session' = [session EXCEPT ![b] = [step |-> "create", on |-> p, at |-> now]]
               /\ Sound([step |-> "create", on |-> p, at |-> now])
    BY <1>2, Sizes DEF StartCreate, Active, Sound, Session, Creation, TypeOK, Times
  <1>3. CASE ReadAuthorization(b)
    <2> DEFINE s == [step |-> "authorized", on |-> session[b].on, place |-> session[b].place]
    <2>1. session[b].on \in Proposals /\ session[b].place \in Places
      BY <1>0, <1>3, SessionFields DEF ReadAuthorization, Goes, Sound
    <2>2. s \in Session
      BY <2>1 DEF Session, Evaluation
    <2>3. session' = [session EXCEPT ![b] = s] /\ Sound(s)
      BY <1>0, <1>3, <2>2 DEF ReadAuthorization, Sound, Goes, TypeOK
    <2>4. s.step = "authorized" /\ Evaluating(b, s.on, s.place)
      BY <1>3 DEF ReadAuthorization, Evaluating
    <2> HIDE DEF s
    <2> QED
      BY <2>3, <2>4
  <1>4. CASE Judge(b)
    <2> DEFINE q == session[b].on
    <2>1. PICK x \in InForce :
            session' = [session EXCEPT ![b] =
              [step |-> "judged", on |-> q, place |-> session[b].place,
               decision |-> Judgement(q, x)]]
      BY <1>4 DEF Judge, Judgement, TypeOK
    <2> DEFINE s == [step |-> "judged", on |-> q, place |-> session[b].place,
                     decision |-> Judgement(q, x)]
    <2>2. q \in Proposals /\ session[b].place \in Places /\ proposal[q] # None
      BY <1>0, <1>4, SessionFields DEF Judge, Goes, Sound
    <2>3. Judgement(q, x) \in Decision
      BY <2>2, InForceTyped, ProposalTyped DEF Judgement, Decision
    <2>4. s \in Session
      BY <2>2, <2>3 DEF Session, Evaluation
    <2>5. Sound(s)
      BY <2>2, <2>4 DEF Sound
    <2>6. /\ s.step = "judged" /\ s.decision = Judgement(s.on, x)
          /\ Evaluating(b, s.on, s.place)
      BY <1>4 DEF Judge, Evaluating
    <2>7. session' = [session EXCEPT ![b] = s]
      BY <2>1
    <2> HIDE DEF s
    <2> QED
      BY <2>5, <2>6, <2>7
  <1>5. CASE ReadDecision(b)
    <2>1. /\ session[b] \in Evaluation /\ session[b].step = "judged" /\ session[b] # None
          /\ session' = [session EXCEPT ![b] = [session[b] EXCEPT !.step = "evaluated"]]
      BY <1>5, <1>0 DEF ReadDecision, Goes, TypeOK, Sound, Session, Request, Creation
    <2> DEFINE s == [session[b] EXCEPT !.step = "evaluated"]
    <2>2. /\ s \in Evaluation /\ s.step = "evaluated" /\ s.on = session[b].on
          /\ s.place = session[b].place /\ s.decision = session[b].decision
      BY <2>1 DEF Evaluation
    <2> HIDE DEF s
    <2>3. Sound(s) /\ Judged(b) /\ Evaluating(b, s.on, s.place)
      BY <1>0, <2>1, <2>2 DEF Sound, Session, Judged, Evaluating
    <2> QED
      BY <2>1, <2>2, <2>3 DEF s
  <1>6. CASE CheckAuthorization(b)
    <2> DEFINE q == session[b].on
    <2>1. PICK i \in Places :
            /\ auths[q][i] \notin {Held, None}
            /\ auths[q][i].status = "APPROVED"
            /\ session' = [session EXCEPT ![b] =
                 [step |-> "covered", on |-> q, at |-> session[b].at, auth |-> i]]
      BY <1>6 DEF CheckAuthorization, Latest, Authorizes, TypeOK
    <2> DEFINE s == [step |-> "covered", on |-> q, at |-> session[b].at, auth |-> i]
    <2>2. q \in Proposals /\ session[b].at \in Times /\ proposal[q] # None
      BY <1>0, <1>6, SessionFields DEF CheckAuthorization, Goes, Sound
    <2>3. s \in Session
      BY <2>2 DEF Session, Creation
    <2>4. Covered(q, i)
      BY <2>1, <2>2 DEF Covered, ReadingsStand
    <2>5. Sound(s)
      BY <2>2, <2>3, <2>4 DEF Sound
    <2>6. session' = [session EXCEPT ![b] = s] /\ s.step = "covered"
      BY <2>1
    <2> HIDE DEF s
    <2> QED
      BY <2>5, <2>6
  <1>7. CASE CheckDecision(b)
    <2> DEFINE q == session[b].on
    <2>1. PICK i \in Places :
            /\ decisions[q][i] \notin {Held, None}
            /\ decisions[q][i].verdict = "ALLOW"
            /\ session' = [session EXCEPT ![b] =
                 [step |-> "accepted", on |-> q, auth |-> session[b].auth, decision |-> i]]
      BY <1>7 DEF CheckDecision, Latest, Accepts, Allows, TypeOK
    <2> DEFINE s == [step |-> "accepted", on |-> q, auth |-> session[b].auth, decision |-> i]
    <2>2. q \in Proposals /\ session[b].auth \in Places /\ proposal[q] # None
          /\ Covered(q, session[b].auth)
      BY <1>0, <1>7, SessionFields DEF CheckDecision, Goes, Sound
    <2>3. s \in Session
      BY <2>2 DEF Session, Creation
    <2>4. Accepted(q, i)
      BY <2>1, <2>2, DueMember DEF Accepted, ReadingsStand
    <2>5. Sound(s)
      BY <2>2, <2>3, <2>4 DEF Sound
    <2>6. session' = [session EXCEPT ![b] = s] /\ s.step = "accepted"
      BY <2>1
    <2> HIDE DEF s
    <2> QED
      BY <2>5, <2>6
  <1>8. ASSUME NEW t \in {"current", "checked"}, session[b] # None,
               session[b].step \in {"accepted", "current"},
               session' = [session EXCEPT ![b] = [session[b] EXCEPT !.step = t]]
        PROVE  \E s : /\ session' = [session EXCEPT ![b] = s] /\ Sound(s)
                      /\ s.step \in {"current", "checked"}
    <2>1. session[b] \in Creation
      BY <1>0, <1>8 DEF Sound, Session, Request, Evaluation
    <2> DEFINE s == [session[b] EXCEPT !.step = t]
    <2>2. /\ s \in Creation /\ s.step = t /\ s.on = session[b].on
          /\ s.auth = session[b].auth /\ s.decision = session[b].decision
      BY <2>1, <1>8 DEF Creation
    <2> HIDE DEF s
    <2>3. Sound(s)
      BY <1>0, <1>8, <2>2 DEF Sound, Session
    <2> QED
      BY <1>8, <2>2, <2>3 DEF s
  <1>9. CASE CheckPolicy(b) \/ CheckProduct(b)
    <2>1. \E s : /\ session' = [session EXCEPT ![b] = s] /\ Sound(s)
                 /\ s.step \in {"current", "checked"}
      BY <1>8, <1>9 DEF CheckPolicy, CheckProduct, Goes, TypeOK
    <2> QED
      BY <2>1
  <1> QED
    BY <1>1, <1>2, <1>3, <1>4, <1>5, <1>6, <1>7, <1>9 DEF Calls
------------------------------------------------------------------------------
(* The policy.                                                             *)

EditsStand ==
    \A e \in Editors : edit[e] # None =>
        /\ WellFormed(edit[e].terms)
        /\ edit[e].step # "insert" => edit[e].id \in Stored

RowsWellFormed == \A i \in Stored \ raced : WellFormed(policy[i])

(* A row stays, and its version rises with it or the update is marked.     *)
RowsRise ==
    /\ raced \subseteq raced'
    /\ \A i \in Stored : /\ i \in Stored'
                         /\ \/ policy'[i] = policy[i]
                            \/ i \in raced'
                            \/ policy'[i].version > policy[i].version

LEMMA ReadPolicyMoves ==
  ASSUME PolicyTypeOK, EditsStand, RowsWellFormed, NEW e \in Editors, NEW terms \in Terms,
         ReadPolicy(e, terms)
  PROVE  PolicyTypeOK' /\ EditsStand' /\ RowsWellFormed' /\ RowsRise
  <1>1. policy' = policy /\ raced' = raced /\ Stored' = Stored /\ WellFormed(terms)
    BY DEF ReadPolicy, Stored
  <1>2. RowsWellFormed' /\ RowsRise
    BY <1>1 DEF RowsWellFormed, RowsRise, WellFormed
  <1>3. ASSUME NEW x, edit' = [edit EXCEPT ![e] = x], x.terms = terms,
               x \in InsertEdit \cup ReadEdit \cup LoadedEdit,
               x.step # "insert" => x.id \in Stored
        PROVE  PolicyTypeOK' /\ EditsStand'
    BY <1>1, <1>3 DEF PolicyTypeOK, EditsStand, WellFormed
  <1>4. CASE edit' = [edit EXCEPT ![e] = [step |-> "insert", terms |-> terms]]
    <2> DEFINE x == [step |-> "insert", terms |-> terms]
    <2>1. x \in InsertEdit /\ x.terms = terms /\ x.step = "insert"
      BY DEF InsertEdit
    <2>2. edit' = [edit EXCEPT ![e] = x]
      BY <1>4
    <2> HIDE DEF x
    <2> QED
      BY <1>2, <1>3, <2>1, <2>2
  <1>5. ASSUME NEW i \in Stored, policy[i].version < MaxPolicyVersion,
               edit' = [edit EXCEPT ![e] = [step |-> "read", id |-> i, terms |-> terms,
                                            base |-> policy[i].version]]
        PROVE  PolicyTypeOK' /\ EditsStand'
    <2> DEFINE x == [step |-> "read", id |-> i, terms |-> terms, base |-> policy[i].version]
    <2>1. i \in PolicyIds /\ policy[i] \in Policy
      BY DEF Stored, PolicyTypeOK
    <2>2. policy[i].version \in 1..MaxPolicyVersion - 1
      BY <1>5, <2>1, Sizes DEF Policy
    <2>3. x \in ReadEdit /\ x.terms = terms /\ x.step = "read" /\ x.id = i
      BY <2>1, <2>2 DEF ReadEdit
    <2>4. edit' = [edit EXCEPT ![e] = x]
      BY <1>5
    <2> HIDE DEF x
    <2> QED
      BY <1>3, <2>3, <2>4
  <1> QED
    BY <1>2, <1>4, <1>5 DEF ReadPolicy

LEMMA InsertRowMoves ==
  ASSUME PolicyTypeOK, EditsStand, RowsWellFormed, NEW e \in Editors, InsertRow(e)
  PROVE  PolicyTypeOK' /\ EditsStand' /\ RowsWellFormed' /\ RowsRise
  <1> DEFINE terms == edit[e].terms
             row == [version |-> 1, mode |-> terms.mode, limit |-> terms.limit]
  <1>1. terms \in Terms /\ WellFormed(terms)
    BY EditFields DEF InsertRow, PolicyTypeOK, EditsStand
  <1>2. row \in Policy /\ WellFormed(row)
    BY <1>1, Sizes DEF Policy, Terms, WellFormed
  <1>3. /\ edit' = [edit EXCEPT ![e] = None] /\ raced' = raced
        /\ \/ policy' = policy
           \/ \E i \in PolicyIds \ Stored : policy' = [policy EXCEPT ![i] = row]
    BY DEF InsertRow
  <1> HIDE DEF row
  <1>4. /\ policy' \in [PolicyIds -> Policy \cup {None}]
        /\ \A i \in Stored : i \in Stored' /\ policy'[i] = policy[i]
        /\ \A i \in Stored' \ Stored : policy'[i] = row
    BY <1>2, <1>3, Marks DEF PolicyTypeOK, Stored
  <1>5. PolicyTypeOK'
    BY <1>3, <1>4 DEF PolicyTypeOK
  <1>6. EditsStand'
    BY <1>3, <1>4 DEF EditsStand, PolicyTypeOK
  <1>7. RowsRise
    BY <1>3, <1>4 DEF RowsRise
  <1>8. RowsWellFormed'
    BY <1>2, <1>3, <1>4 DEF RowsWellFormed, WellFormed
  <1> QED
    BY <1>5, <1>6, <1>7, <1>8

LEMMA LoadRowMoves ==
  ASSUME PolicyTypeOK, EditsStand, RowsWellFormed, NEW e \in Editors, LoadRow(e)
  PROVE  PolicyTypeOK' /\ EditsStand' /\ RowsWellFormed' /\ RowsRise
  <1>1. policy' = policy /\ raced' = raced /\ Stored' = Stored
    BY DEF LoadRow, Stored
  <1>2. /\ edit[e] \in InsertEdit \cup ReadEdit \cup LoadedEdit /\ edit[e].step = "read"
        /\ edit[e].id \in Stored /\ WellFormed(edit[e].terms)
    BY DEF LoadRow, PolicyTypeOK, EditsStand
  <1>3. /\ edit[e].id \in PolicyIds /\ policy[edit[e].id] \in Policy
        /\ edit[e].base \in 1..MaxPolicyVersion - 1 /\ edit[e].terms \in Terms
    BY <1>2, EditFields DEF PolicyTypeOK, Stored
  <1> DEFINE x == [step |-> "loaded", id |-> edit[e].id, base |-> edit[e].base,
                   terms |-> edit[e].terms, row |-> policy[edit[e].id]]
  <1>4. x \in LoadedEdit /\ x.terms = edit[e].terms /\ x.id = edit[e].id
    BY <1>3 DEF LoadedEdit
  <1>5. edit' = [edit EXCEPT ![e] = x]
    BY DEF LoadRow, PolicyTypeOK
  <1> HIDE DEF x
  <1>6. PolicyTypeOK' /\ EditsStand'
    BY <1>1, <1>2, <1>4, <1>5 DEF PolicyTypeOK, EditsStand, WellFormed
  <1> QED
    BY <1>1, <1>6 DEF RowsWellFormed, RowsRise, WellFormed

LEMMA WriteRowMoves ==
  ASSUME PolicyTypeOK, EditsStand, RowsWellFormed, NEW e \in Editors, WriteRow(e)
  PROVE  PolicyTypeOK' /\ EditsStand' /\ RowsWellFormed' /\ RowsRise
  <1> DEFINE i == edit[e].id
             row == edit[e].row
             terms == edit[e].terms
             new == [version |-> Written(NextVersion(edit[e].base), row.version, policy[i].version),
                     mode    |-> Written(terms.mode, row.mode, policy[i].mode),
                     limit   |-> Written(terms.limit, row.limit, policy[i].limit)]
  <1>1. /\ edit[e] \in InsertEdit \cup ReadEdit \cup LoadedEdit /\ edit[e].step = "loaded"
        /\ edit' = [edit EXCEPT ![e] = None] /\ i \in Stored /\ WellFormed(terms)
    BY DEF WriteRow, PolicyTypeOK, EditsStand
  <1>2. /\ i \in PolicyIds /\ policy[i] \in Policy
        /\ edit[e].base \in 1..MaxPolicyVersion - 1 /\ terms \in Terms /\ row \in Policy
    BY <1>1, EditFields DEF PolicyTypeOK, Stored
  <1>3. new \in Policy
    BY <1>2, Sizes DEF Policy, Terms, Written, NextVersion
  <1>4. ASSUME ~Unseen(e)
        PROVE  WellFormed(new) /\ new.version > policy[i].version
    BY <1>1, <1>2, <1>4, Sizes DEF Unseen, Policy, Written, NextVersion, WellFormed
  <1>5. \/ policy' = policy /\ raced' = raced
        \/ /\ policy' = [policy EXCEPT ![i] = new]
           /\ raced' = IF Unseen(e) THEN raced \cup {i} ELSE raced
    BY DEF WriteRow
  <1> HIDE DEF new
  <1>6. /\ policy' \in [PolicyIds -> Policy \cup {None}] /\ raced \subseteq raced'
        /\ raced' \subseteq PolicyIds
        /\ \A j \in Stored : j \in Stored' /\ (j # i => policy'[j] = policy[j])
        /\ Stored' \subseteq Stored
        /\ policy'[i] = policy[i] \/ (policy'[i] = new /\ (Unseen(e) => i \in raced'))
    BY <1>1, <1>2, <1>3, <1>5, Marks DEF PolicyTypeOK, Stored
  <1>7. PolicyTypeOK'
    BY <1>1, <1>6 DEF PolicyTypeOK
  <1>8. EditsStand'
    BY <1>1, <1>6 DEF EditsStand, PolicyTypeOK
  <1>9. RowsRise
    BY <1>4, <1>6 DEF RowsRise
  <1>10. RowsWellFormed'
    BY <1>1, <1>4, <1>6 DEF RowsWellFormed, WellFormed
  <1> QED
    BY <1>7, <1>8, <1>9, <1>10

LEMMA PolicyMoves ==
  ASSUME PolicyTypeOK, EditsStand, RowsWellFormed, NEW e \in Editors, PolicyStep(e)
  PROVE  PolicyTypeOK' /\ EditsStand' /\ RowsWellFormed' /\ RowsRise
  BY ReadPolicyMoves, InsertRowMoves, LoadRowMoves, WriteRowMoves DEF PolicyStep

LEMMA PolicyKnown ==
  ASSUME Known, [Next]_vars
  PROVE  PolicyTypeOK' /\ EditsStand' /\ RowsWellFormed' /\ RowsRise
  <1>1. PolicyTypeOK /\ EditsStand /\ RowsWellFormed
    BY Parts DEF ReadingsStand, EditsStand, VersionsName, RowsWellFormed
  <1>2. CASE UNCHANGED policyVars
    BY <1>1, <1>2 DEF policyVars, PolicyTypeOK, EditsStand, RowsWellFormed, RowsRise, Stored,
                      WellFormed
  <1>3. ASSUME NEW e \in Editors, PolicyStep(e)
        PROVE  PolicyTypeOK' /\ EditsStand' /\ RowsWellFormed' /\ RowsRise
    BY <1>1, <1>3, PolicyMoves
  <1> QED
    BY <1>2, <1>3, Steps DEF vars
------------------------------------------------------------------------------
(* The rows.                                                               *)

LEMMA FindingMember ==
  ASSUME NEW p \in Proposals, NEW d \in Due(p)
  PROVE  Finding(d, Answer(d)) \in Findings
  <1>1. Finding(d, Answer(d)) \in {Finding(c, Answer(c)) : c \in Due(p)}
    OBVIOUS
  <1> QED
    BY <1>1, Zenon DEF Findings

(* A call that will fill a place, and what it fills it with.               *)
LEMMA JudgedDue ==
  ASSUME Known, NEW b \in Sessions, Goes(b, "evaluated")
  PROVE  \E p \in Proposals, i \in Places : \E d \in Due(p) :
           /\ p = session[b].on /\ i = session[b].place /\ d = session[b].decision
           /\ Evaluating(b, p, i) /\ decisions[p][i] = Held /\ d \in Decision
  <1>1. session[b] \in Session /\ session[b].step = "evaluated" /\ Judged(b)
    BY Parts DEF Goes, Judged, TypeOK
  <1>2. PICK p \in Proposals, i \in Places :
          p = session[b].on /\ i = session[b].place /\ session[b].decision \in Decision
    BY <1>1, SessionFields
  <1>3. Evaluating(b, p, i) /\ session[b].decision \in Due(p)
    BY <1>1, <1>2, DueMember DEF Evaluating
  <1>4. decisions[p][i] = Held
    BY <1>3, Parts DEF PlacesAreHeld
  <1> QED
    BY <1>2, <1>3, <1>4

LEMMA RuledDue ==
  ASSUME Known, NEW m \in Reviews, review[m] # None, review[m].step = "decided"
  PROVE  \E p \in Proposals, i \in Places : \E d \in Due(p) :
           /\ p = review[m].on /\ i = review[m].place /\ d = review[m].decision
           /\ Deciding(m, p, i) /\ decisions[p][i] = Held /\ d \in Decision
  <1>1. review[m] \in Review
    BY Parts DEF TypeOK
  <1>2. PICK p \in Proposals, i \in Places :
          p = review[m].on /\ i = review[m].place /\ review[m].decision \in Decision
    BY <1>1, ReviewFields
  <1>3. Deciding(m, p, i) /\ review[m].decision \in Due(p)
    BY <1>2, DueMember DEF Deciding
  <1>4. decisions[p][i] = Held
    BY <1>3, Parts DEF PlacesAreHeld
  <1> QED
    BY <1>2, <1>3, <1>4

(* One place is written, which had no decision, with one that was due.     *)
LEMMA DecisionMoves ==
  ASSUME Known, [Next]_vars
  PROVE  \/ decisions' = decisions
         \/ \E p \in Proposals, i \in Places, row \in Decision \cup {Held} :
              /\ decisions' = Fill(decisions, p, i, row)
              /\ decisions[p][i] \in {Held, None}
              /\ row # Held => row \in Due(p)
  <1>1. ASSUME NEW p \in Proposals, NEW i \in Places, decisions[p][i] = None,
               decisions' = Hold(decisions, p, i)
        PROVE  \E q \in Proposals, j \in Places, row \in Decision \cup {Held} :
                 /\ decisions' = Fill(decisions, q, j, row)
                 /\ decisions[q][j] \in {Held, None}
                 /\ row # Held => row \in Due(q)
    BY <1>1 DEF Hold, Fill
  <1>2. ASSUME NEW b \in Sessions, NEW p \in Proposals, StartEvaluate(b, p)
        PROVE  \E i \in Places : decisions[p][i] = None /\ decisions' = Hold(decisions, p, i)
    BY <1>2 DEF StartEvaluate, NextPlace
  <1>3. ASSUME NEW m \in Reviews, Ruling(m)
        PROVE  \E p \in Proposals, i \in Places :
                 decisions[p][i] = None /\ decisions' = Hold(decisions, p, i)
    <2>1. review[m].on \in Proposals
      BY <1>3, Parts, ReviewFields DEF Ruling, Decide, TypeOK
    <2> QED
      BY <1>3, <2>1 DEF Ruling, Decide, NextPlace
  <1>4. ASSUME NEW b \in Sessions, EndEvaluate(b)
        PROVE  \E p \in Proposals, i \in Places, row \in Decision \cup {Held} :
                 /\ decisions' = Fill(decisions, p, i, row)
                 /\ decisions[p][i] \in {Held, None}
                 /\ row # Held => row \in Due(p)
    BY <1>4, JudgedDue DEF EndEvaluate
  <1>5. ASSUME NEW m \in Reviews, EndReview(m)
        PROVE  \E p \in Proposals, i \in Places, row \in Decision \cup {Held} :
                 /\ decisions' = Fill(decisions, p, i, row)
                 /\ decisions[p][i] \in {Held, None}
                 /\ row # Held => row \in Due(p)
    BY <1>5, RuledDue DEF EndReview
  <1>6. ASSUME NEW b \in Sessions,
               \/ Calls(b) \/ EndRequest(b) \/ EndCreate(b)
               \/ \E p \in Proposals : StartRequest(b, p)
        PROVE  decisions' = decisions
    BY <1>6, Frames DEF EndRequest, EndCreate, StartRequest
  <1>7. ASSUME NEW a \in Approvals, Approving(a) \/ EndApprove(a)
        PROVE  decisions' = decisions
    BY <1>7, Frames DEF EndApprove
  <1>8. ASSUME NEW m \in Reviews, Reviewing(m)
        PROVE  decisions' = decisions
    BY <1>8, Frames
  <1>9. CASE UNCHANGED gateVars \/ Elsewhere
    BY <1>9, Frames DEF gateVars
  <1> QED
    BY <1>1, <1>2, <1>3, <1>4, <1>5, <1>6, <1>7, <1>8, <1>9, Steps DEF vars

LEMMA DecisionsStand ==
  ASSUME Known, [Next]_vars
  PROVE  /\ decisions' \in [Proposals -> Rows(Decision)]
         /\ \A p \in Proposals, i \in Places :
              /\ decisions[p][i] \notin {Held, None} => decisions'[p][i] = decisions[p][i]
              /\ decisions'[p][i] \notin {Held, None} => decisions'[p][i] \in Due(p)
  <1>1. decisions \in [Proposals -> Rows(Decision)]
    BY Parts DEF TypeOK
  <1>2. CASE decisions' = decisions
    BY <1>1, <1>2, DueMember
  <1>3. ASSUME NEW p \in Proposals, NEW i \in Places, NEW row \in Decision \cup {Held},
               decisions' = Fill(decisions, p, i, row), decisions[p][i] \in {Held, None},
               row # Held => row \in Due(p)
        PROVE  /\ decisions' \in [Proposals -> Rows(Decision)]
               /\ \A q \in Proposals, j \in Places :
                    /\ decisions[q][j] \notin {Held, None} => decisions'[q][j] = decisions[q][j]
                    /\ decisions'[q][j] \notin {Held, None} => decisions'[q][j] \in Due(q)
    <2>1. /\ decisions' \in [Proposals -> Rows(Decision)] /\ decisions'[p][i] = row
          /\ \A q \in Proposals, j \in Places :
               (q # p \/ j # i) => decisions'[q][j] = decisions[q][j]
      BY <1>1, <1>3, FillRows
    <2> QED
      BY <1>3, <2>1, DueMember
  <1> QED
    BY <1>2, <1>3, DecisionMoves

(* One place is written: one without a row, or one that is approved, and   *)
(* marked when it was approved before.                                     *)
LEMMA AuthMoves ==
  ASSUME Known, [Next]_vars
  PROVE  \/ auths' = auths
         \/ \E p \in Proposals, i \in Places, row \in Authorization \cup {Held} :
              /\ auths' = Fill(auths, p, i, row)
              /\ row # Held => proposal[p] # None /\ row.expires <= proposal[p].expires
              /\ \/ auths[p][i] \in {Held, None}
                 \/ /\ row # Held /\ row.status = "APPROVED"
                    /\ auths[p][i].status = "APPROVED" =>
                         [on |-> p, place |-> i] \in overwritten'
  <1>1. ASSUME NEW b \in Sessions, NEW p \in Proposals, StartRequest(b, p)
        PROVE  \E i \in Places : auths' = Fill(auths, p, i, Held) /\ auths[p][i] = None
    BY <1>1 DEF StartRequest, NextPlace, Hold, Fill
  <1>2. ASSUME NEW b \in Sessions, EndRequest(b)
        PROVE  \E p \in Proposals, i \in Places, row \in Authorization :
                 /\ auths' = Fill(auths, p, i, row)
                 /\ proposal[p] # None /\ row.expires <= proposal[p].expires
                 /\ auths[p][i] = Held
    <2> DEFINE p == session[b].on
               i == session[b].place
               row == [status |-> "REQUESTED", expires |-> proposal[p].expires]
    <2>1. p \in Proposals /\ i \in Places
      BY <1>2, Parts, SessionFields DEF EndRequest, Goes, TypeOK
    <2>2. Requesting(b, p, i) /\ proposal[p] # None
      BY <1>2, Parts DEF EndRequest, Requesting, ReadingsStand, Goes
    <2>3. auths[p][i] = Held
      BY <2>1, <2>2, Parts DEF PlacesAreHeld
    <2>4. proposal[p].expires \in Times
      BY <2>1, <2>2, Parts, ProposalTyped
    <2>5. row \in Authorization /\ row.expires <= proposal[p].expires
      <3>1. proposal[p].expires \in Nat
        BY <2>4, Numbers
      <3> QED
        BY <2>4, <3>1 DEF Authorization
    <2>6. auths' = Fill(auths, p, i, row)
      BY <1>2 DEF EndRequest
    <2> QED
      BY <2>1, <2>2, <2>3, <2>5, <2>6
  <1>3. ASSUME NEW a \in Approvals, EndApprove(a)
        PROVE  \E p \in Proposals, i \in Places, row \in Authorization :
                 /\ auths' = Fill(auths, p, i, row)
                 /\ proposal[p] # None /\ row.expires <= proposal[p].expires
                 /\ row.status = "APPROVED"
                 /\ auths[p][i].status = "APPROVED" => [on |-> p, place |-> i] \in overwritten'
    <2> DEFINE p == approval[a].on
               i == approval[a].place
               row == [status |-> "APPROVED", expires |-> approval[a].expires]
    <2>1. p \in Proposals /\ i \in Places /\ approval[a].expires \in Times
      BY <1>3, Parts DEF EndApprove, TypeOK, Approval
    <2>2. auths[p][i] \notin {Held, None} /\ approval[a].expires <= proposal[p].expires
      BY <1>3, Parts DEF EndApprove, ReadingsStand
    <2>3. proposal[p] # None
      BY <2>1, <2>2, Parts DEF ReadingsStand
    <2>4. row \in Authorization /\ row.expires <= proposal[p].expires /\ row.status = "APPROVED"
      BY <2>1, <2>2 DEF Authorization
    <2>5. /\ auths' = Fill(auths, p, i, row)
          /\ auths[p][i].status = "APPROVED" => [on |-> p, place |-> i] \in overwritten'
      BY <1>3 DEF EndApprove
    <2> QED
      BY <2>1, <2>3, <2>4, <2>5
  <1>4. ASSUME NEW b \in Sessions,
               \/ Calls(b) \/ EndEvaluate(b) \/ EndCreate(b)
               \/ \E p \in Proposals : StartEvaluate(b, p)
        PROVE  auths' = auths
    BY <1>4, Frames DEF EndEvaluate, EndCreate, StartEvaluate
  <1>5. ASSUME NEW a \in Approvals, Approving(a)
        PROVE  auths' = auths
    BY <1>5, Frames
  <1>6. ASSUME NEW m \in Reviews, Reviewing(m) \/ Ruling(m) \/ EndReview(m)
        PROVE  auths' = auths
    BY <1>6, Frames DEF Ruling, Decide, EndReview
  <1>7. CASE UNCHANGED gateVars \/ Elsewhere
    BY <1>7, Frames DEF gateVars
  <1> QED
    <2>1. CASE \E b \in Sessions, p \in Proposals : StartRequest(b, p)
      BY <1>1, <2>1
    <2>2. CASE \E b \in Sessions : EndRequest(b)
      BY <1>2, <2>2
    <2>3. CASE \E a \in Approvals : EndApprove(a)
      BY <1>3, <2>3, Marks
    <2> QED
      BY <1>4, <1>5, <1>6, <1>7, <2>1, <2>2, <2>3, Steps DEF vars

(* What the other calls leave alone.                                       *)
LEMMA ProposalsStand ==
  ASSUME Known, [Next]_vars
  PROVE  \A p \in Proposals :
           /\ proposal[p] # None => proposal'[p] = proposal[p]
           /\ proposal' = proposal \/ UNCHANGED <<auths, decisions, session, approval, review>>
  <1>1. ASSUME NEW p \in Proposals, CreateProposal(p)
        PROVE  /\ \A q \in Proposals : proposal[q] # None => proposal'[q] = proposal[q]
               /\ UNCHANGED <<auths, decisions, session, approval, review>>
    BY <1>1, Parts DEF CreateProposal, TypeOK
  <1>2. CASE \E p \in Proposals : CreateProposal(p)
    BY <1>1, <1>2
  <1>3. CASE ~ \E p \in Proposals : CreateProposal(p)
    <2>1. proposal' = proposal
      BY <1>3, Steps, Frames
         DEF vars, gateVars, Elsewhere, Execute, EditProduct, Tick, EndRequest, EndEvaluate,
             EndCreate, StartRequest, StartEvaluate, EndApprove, Ruling, Decide, EndReview
    <2> QED
      BY <2>1
  <1> QED
    BY <1>2, <1>3

LEMMA AuthsStand ==
  ASSUME Known, [Next]_vars
  PROVE  /\ auths' \in [Proposals -> Rows(Authorization)]
         /\ \A p \in Proposals, i \in Places :
              /\ auths[p][i] \notin {Held, None} =>
                   \/ auths'[p][i] = auths[p][i]
                   \/ /\ auths'[p][i] \notin {Held, None} /\ auths'[p][i].status = "APPROVED"
                      /\ auths[p][i].status = "APPROVED" =>
                           [on |-> p, place |-> i] \in overwritten'
              /\ auths'[p][i] \notin {Held, None} =>
                   proposal'[p] # None /\ auths'[p][i].expires <= proposal'[p].expires
  <1>1. /\ auths \in [Proposals -> Rows(Authorization)]
        /\ \A p \in Proposals, i \in Places : auths[p][i] \notin {Held, None} =>
             proposal[p] # None /\ auths[p][i].expires <= proposal[p].expires
    BY Parts DEF TypeOK, ReadingsStand
  <1>2. \A p \in Proposals : proposal[p] # None => proposal'[p] = proposal[p]
    BY ProposalsStand
  <1>3. CASE auths' = auths
    BY <1>1, <1>2, <1>3
  <1>4. ASSUME NEW p \in Proposals, NEW i \in Places, NEW row \in Authorization \cup {Held},
               auths' = Fill(auths, p, i, row),
               row # Held => proposal[p] # None /\ row.expires <= proposal[p].expires,
               \/ auths[p][i] \in {Held, None}
               \/ /\ row # Held /\ row.status = "APPROVED"
                  /\ auths[p][i].status = "APPROVED" => [on |-> p, place |-> i] \in overwritten'
        PROVE  /\ auths' \in [Proposals -> Rows(Authorization)]
               /\ \A q \in Proposals, j \in Places :
                    /\ auths[q][j] \notin {Held, None} =>
                         \/ auths'[q][j] = auths[q][j]
                         \/ /\ auths'[q][j] \notin {Held, None}
                            /\ auths'[q][j].status = "APPROVED"
                            /\ auths[q][j].status = "APPROVED" =>
                                 [on |-> q, place |-> j] \in overwritten'
                    /\ auths'[q][j] \notin {Held, None} =>
                         proposal[q] # None /\ auths'[q][j].expires <= proposal[q].expires
    <2>1. /\ auths' \in [Proposals -> Rows(Authorization)] /\ auths'[p][i] = row
          /\ \A q \in Proposals, j \in Places : (q # p \/ j # i) => auths'[q][j] = auths[q][j]
      BY <1>1, <1>4, FillRows
    <2>2. row # Held => row # None
      BY Marks
    <2> QED
      BY <1>1, <1>4, <2>1, <2>2
  <1> QED
    BY <1>2, <1>3, <1>4, AuthMoves
------------------------------------------------------------------------------
(* The calls.                                                              *)

(* What the decision of a call on p is, when it has just been made.        *)
Ruled(p, d) ==
    /\ d.manual /\ Finding(d, "REVIEW_REQUIRED") \in Findings
    /\ proposal[p] # None /\ d.expires <= proposal[p].expires

LEMMA SessionMoves ==
  ASSUME Known, [Next]_vars
  PROVE  \/ session' = session
         \/ \E b \in Sessions : \E s :
              /\ session' = [session EXCEPT ![b] = s]
              /\ s # None =>
                   /\ Sound(s)
                   /\ s.step \in {"judged", "evaluated"} =>
                        \/ Judged(b) /\ session[b].on = s.on /\ s.decision = session[b].decision
                        \/ UNCHANGED policyVars /\ \E x \in InForce : s.decision = Judgement(s.on, x)
  <1> USE Parts
  <1>1. ASSUME NEW b \in Sessions, NEW p \in Proposals, StartRequest(b, p)
        PROVE  \E s : /\ session' = [session EXCEPT ![b] = s] /\ Sound(s) /\ s.step = "request"
    <2>1. PICK i \in Places :
            session' = [session EXCEPT ![b] = [step |-> "request", on |-> p, place |-> i]]
      BY <1>1 DEF StartRequest, NextPlace
    <2> DEFINE s == [step |-> "request", on |-> p, place |-> i]
    <2>2. s \in Session
      BY DEF Session, Request
    <2>3. Sound(s) /\ s.step = "request" /\ session' = [session EXCEPT ![b] = s]
      BY <1>1, <2>1, <2>2 DEF Sound, StartRequest, Active
    <2> HIDE DEF s
    <2> QED
      BY <2>3
  <1>2. ASSUME NEW b \in Sessions, NEW p \in Proposals, StartEvaluate(b, p)
        PROVE  \E s : /\ session' = [session EXCEPT ![b] = s] /\ Sound(s) /\ s.step = "evaluate"
    <2>1. PICK i \in Places : session' = [session EXCEPT ![b] =
            [step |-> "evaluate", on |-> p, place |-> i, at |-> now]]
      BY <1>2 DEF StartEvaluate, NextPlace
    <2> DEFINE s == [step |-> "evaluate", on |-> p, place |-> i, at |-> now]
    <2>2. s \in Session
      BY Sizes DEF Session, Evaluation, TypeOK, Times
    <2>3. Sound(s) /\ s.step = "evaluate" /\ session' = [session EXCEPT ![b] = s]
      BY <1>2, <2>1, <2>2 DEF Sound, StartEvaluate, Active
    <2> HIDE DEF s
    <2> QED
      BY <2>3
  <1>3. ASSUME NEW b \in Sessions, EndRequest(b) \/ EndEvaluate(b) \/ EndCreate(b)
        PROVE  session' = [session EXCEPT ![b] = None]
    BY <1>3 DEF EndRequest, EndEvaluate, EndCreate
  <1>4. ASSUME NEW a \in Approvals, Approving(a) \/ EndApprove(a)
        PROVE  session' = session
    BY <1>4, Frames DEF EndApprove
  <1>5. ASSUME NEW m \in Reviews, Reviewing(m) \/ Ruling(m) \/ EndReview(m)
        PROVE  session' = session
    BY <1>5, Frames DEF Ruling, Decide, EndReview
  <1>6. CASE UNCHANGED gateVars \/ Elsewhere
    BY <1>6, Frames DEF gateVars
  <1> HIDE Parts
  <1>7. CASE /\ UNCHANGED policyVars
             /\ \E b \in Sessions : Calls(b)
    BY <1>7, CallMoves
  <1>8. CASE \E b \in Sessions, p \in Proposals : StartRequest(b, p) \/ StartEvaluate(b, p)
    BY <1>1, <1>2, <1>8
  <1>9. CASE \E b \in Sessions : EndRequest(b) \/ EndEvaluate(b) \/ EndCreate(b)
    BY <1>3, <1>9
  <1> QED
    BY <1>4, <1>5, <1>6, <1>7, <1>8, <1>9, Steps DEF vars

LEMMA ReviewFinding ==
  ASSUME Known, NEW m \in Reviews, review[m] # None, review[m].step \in {"latest", "read"}
  PROVE  Finding(review[m], "REVIEW_REQUIRED") \in Findings
  BY DEF Findings

LEMMA ReviewMoves ==
  ASSUME Known, [Next]_vars
  PROVE  \/ review' = review
         \/ \E m \in Reviews : \E r :
              /\ review' = [review EXCEPT ![m] = r]
              /\ r # None =>
                   /\ r \in Review
                   /\ r.step \in {"latest", "read"} => Finding(r, "REVIEW_REQUIRED") \in Findings
                   /\ r.step = "decided" => Ruled(r.on, r.decision)
  <1>1. ASSUME NEW m \in Reviews, NEW p \in Proposals, ReadReview(m, p)
        PROVE  \E r \in Review : /\ review' = [review EXCEPT ![m] = r] /\ r.step = "latest"
                                 /\ Finding(r, "REVIEW_REQUIRED") \in Findings
    <2>1. PICK i \in Places :
            /\ decisions[p][i] \notin {Held, None}
            /\ decisions[p][i].verdict = "REVIEW_REQUIRED"
            /\ review' = [review EXCEPT ![m] =
                 [step |-> "latest", on |-> p, policy |-> decisions[p][i].policy,
                  version |-> decisions[p][i].version]]
      BY <1>1 DEF ReadReview, Latest, AwaitsReview
    <2> DEFINE d == decisions[p][i]
               r == [step |-> "latest", on |-> p, policy |-> d.policy, version |-> d.version]
    <2>2. d \in Due(p)
      BY <2>1, DueMember
    <2>3. d \in Decision
      BY <2>2, Parts, DueTyped
    <2>4. r \in Review /\ r.step = "latest"
      BY <2>3 DEF Review, Decision
    <2>5. Finding(r, "REVIEW_REQUIRED") = Finding(d, Answer(d))
      BY <2>1 DEF Finding, Answer
    <2>6. review' = [review EXCEPT ![m] = r]
      BY <2>1
    <2> HIDE DEF r, d
    <2> QED
      BY <2>2, <2>4, <2>5, <2>6, FindingMember
  <1>2. ASSUME NEW m \in Reviews, ConfirmReview(m)
        PROVE  \E r \in Review : /\ review' = [review EXCEPT ![m] = r] /\ r.step = "read"
                                 /\ Finding(r, "REVIEW_REQUIRED") \in Findings
    <2> DEFINE r == [review[m] EXCEPT !.step = "read"]
    <2>1. review[m] \in Review /\ review[m] # None /\ review[m].step = "latest"
      BY <1>2, Parts DEF ConfirmReview, TypeOK
    <2>2. r \in Review /\ r.step = "read" /\ Finding(r, "REVIEW_REQUIRED") =
                                                Finding(review[m], "REVIEW_REQUIRED")
      BY <2>1 DEF Review, Finding
    <2>3. review' = [review EXCEPT ![m] = r]
      BY <1>2, Parts DEF ConfirmReview, TypeOK
    <2> HIDE DEF r
    <2> QED
      BY <2>1, <2>2, <2>3, ReviewFinding
  <1>3. ASSUME NEW m \in Reviews, NEW verdict \in {"ALLOW", "DENY"}, NEW until \in Times,
               Decide(m, verdict, until)
        PROVE  \E r \in Review : /\ review' = [review EXCEPT ![m] = r] /\ r.step = "decided"
                                 /\ Ruled(r.on, r.decision)
    <2> DEFINE p == review[m].on
               d == [policy |-> review[m].policy, version |-> review[m].version,
                     verdict |-> verdict, manual |-> TRUE, expires |-> until]
    <2>1. PICK i \in Places :
            review' = [review EXCEPT ![m] = [step |-> "decided", on |-> p, place |-> i,
                                             decision |-> d]]
      BY <1>3, Parts DEF Decide, NextPlace, TypeOK
    <2>2. review[m] \in Review /\ review[m] # None /\ review[m].step = "read"
      BY <1>3, Parts DEF Decide, TypeOK
    <2>3. /\ p \in Proposals /\ review[m].policy \in PolicyIds
          /\ review[m].version \in 1..MaxPolicyVersion
      BY <2>2, ReviewFields
    <2>4. proposal[p] # None /\ until <= proposal[p].expires
      BY <1>3 DEF Decide, Active
    <2>5. /\ d \in Decision /\ d.manual /\ d.expires = until
          /\ Finding(d, "REVIEW_REQUIRED") = Finding(review[m], "REVIEW_REQUIRED")
      BY <2>3 DEF Decision, Finding, Verdicts
    <2> HIDE DEF d
    <2> DEFINE r == [step |-> "decided", on |-> p, place |-> i, decision |-> d]
    <2>6. Ruled(p, d)
      BY <2>2, <2>4, <2>5, ReviewFinding DEF Ruled
    <2>7. r \in Review /\ r.step = "decided" /\ r.on = p /\ r.decision = d
      BY <2>3, <2>5 DEF Review
    <2>8. review' = [review EXCEPT ![m] = r]
      BY <2>1
    <2> HIDE DEF r
    <2> QED
      BY <2>6, <2>7, <2>8
  <1>4. ASSUME NEW m \in Reviews, EndReview(m) \/ LeaveReview(m)
        PROVE  review' = [review EXCEPT ![m] = None]
    BY <1>4 DEF EndReview, LeaveReview
  <1>5. ASSUME NEW b \in Sessions,
               \/ Calls(b) \/ EndRequest(b) \/ EndEvaluate(b) \/ EndCreate(b)
               \/ \E p \in Proposals : StartRequest(b, p) \/ StartEvaluate(b, p)
        PROVE  review' = review
    BY <1>5, Frames DEF EndRequest, EndEvaluate, EndCreate, StartRequest, StartEvaluate
  <1>6. ASSUME NEW a \in Approvals, Approving(a) \/ EndApprove(a)
        PROVE  review' = review
    BY <1>6, Frames DEF EndApprove
  <1>7. CASE UNCHANGED gateVars \/ Elsewhere
    BY <1>7, Frames DEF gateVars
  <1> QED
    <2>1. CASE \E m \in Reviews : Reviewing(m)
      BY <1>1, <1>2, <1>4, <2>1 DEF Reviewing
    <2>2. CASE \E m \in Reviews : Ruling(m)
      BY <1>3, <2>2 DEF Ruling
    <2>3. CASE \E m \in Reviews : EndReview(m)
      BY <1>4, <2>3
    <2> QED
      BY <1>5, <1>6, <1>7, <2>1, <2>2, <2>3, Steps DEF vars

LEMMA ApprovalMoves ==
  ASSUME Known, [Next]_vars
  PROVE  \/ approval' = approval
         \/ \E a \in Approvals : \E r :
              /\ approval' = [approval EXCEPT ![a] = r]
              /\ r # None =>
                   /\ r \in Approval /\ auths[r.on][r.place] \notin {Held, None}
                   /\ proposal[r.on] # None /\ r.expires <= proposal[r.on].expires
  <1>1. ASSUME NEW a \in Approvals, NEW p \in Proposals, NEW until \in Times,
               StartApprove(a, p, until)
        PROVE  \E r \in Approval :
                 /\ approval' = [approval EXCEPT ![a] = r]
                 /\ auths[r.on][r.place] \notin {Held, None}
                 /\ proposal[r.on] # None /\ r.expires <= proposal[r.on].expires
    <2>1. PICK i \in Places :
            /\ auths[p][i] \notin {Held, None}
            /\ approval' = [approval EXCEPT ![a] = [on |-> p, place |-> i, expires |-> until]]
      BY <1>1 DEF StartApprove, Latest
    <2> DEFINE r == [on |-> p, place |-> i, expires |-> until]
    <2>2. r \in Approval /\ r.on = p /\ r.place = i /\ r.expires = until
      BY DEF Approval
    <2>3. approval' = [approval EXCEPT ![a] = r]
      BY <2>1
    <2>4. proposal[p] # None /\ until <= proposal[p].expires
      BY <1>1 DEF StartApprove, Active
    <2> HIDE DEF r
    <2> QED
      BY <2>1, <2>2, <2>3, <2>4
  <1>2. ASSUME NEW a \in Approvals, LeaveApproval(a) \/ EndApprove(a)
        PROVE  approval' = [approval EXCEPT ![a] = None]
    BY <1>2 DEF LeaveApproval, EndApprove
  <1>3. ASSUME NEW b \in Sessions,
               \/ Calls(b) \/ EndRequest(b) \/ EndEvaluate(b) \/ EndCreate(b)
               \/ \E p \in Proposals : StartRequest(b, p) \/ StartEvaluate(b, p)
        PROVE  approval' = approval
    BY <1>3, Frames DEF EndRequest, EndEvaluate, EndCreate, StartRequest, StartEvaluate
  <1>4. ASSUME NEW m \in Reviews, Reviewing(m) \/ Ruling(m) \/ EndReview(m)
        PROVE  approval' = approval
    BY <1>4, Frames DEF Ruling, Decide, EndReview
  <1>5. CASE UNCHANGED gateVars \/ Elsewhere
    BY <1>5, Frames DEF gateVars
  <1> QED
    <2>1. CASE \E a \in Approvals : Approving(a)
      BY <1>1, <1>2, <2>1 DEF Approving
    <2>2. CASE \E a \in Approvals : EndApprove(a)
      BY <1>2, <2>2
    <2> QED
      BY <1>3, <1>4, <1>5, <2>1, <2>2, Steps DEF vars

LEMMA TransactionMoves ==
  ASSUME Known, [Next]_vars
  PROVE  \/ txn' = txn
         \/ \E p \in Proposals, i \in Places, j \in Places :
              /\ txn[p] = None /\ txn' = [txn EXCEPT ![p] = [auth |-> i, decision |-> j]]
              /\ Covered(p, i) /\ Accepted(p, j) /\ proposal[p] # None
  <1>1. ASSUME NEW b \in Sessions, EndCreate(b)
        PROVE  \/ txn' = txn
               \/ \E p \in Proposals, i \in Places, j \in Places :
                    /\ txn[p] = None /\ txn' = [txn EXCEPT ![p] = [auth |-> i, decision |-> j]]
                    /\ Covered(p, i) /\ Accepted(p, j) /\ proposal[p] # None
    <2>1. session[b] \in Session /\ session[b] # None /\ session[b].step = "checked"
      BY <1>1, Parts DEF EndCreate, Goes, TypeOK
    <2>2. /\ session[b].on \in Proposals /\ session[b].auth \in Places
          /\ session[b].decision \in Places
      BY <2>1, SessionFields
    <2>3. /\ Covered(session[b].on, session[b].auth) /\ Accepted(session[b].on, session[b].decision)
          /\ proposal[session[b].on] # None
      BY <2>1, Parts DEF ReadingsStand
    <2> QED
      BY <1>1, <2>2, <2>3 DEF EndCreate
  <1>2. ASSUME ~ \E b \in Sessions : EndCreate(b)
        PROVE  txn' = txn
    BY <1>2, Steps, Frames
       DEF vars, gateVars, EndRequest, EndEvaluate, StartRequest, StartEvaluate, EndApprove,
           Ruling, Decide, EndReview
  <1> QED
    BY <1>1, <1>2
------------------------------------------------------------------------------
(* Types, and what was read against what is committed.                     *)

LEMMA InitTyped == Init => TypeOK
  BY Sizes DEF Init, PolicyInit, TypeOK, PolicyTypeOK, Rows

LEMMA WorldMoves ==
  ASSUME Known, [Next]_vars
  PROVE  /\ now' \in 0..Horizon /\ now <= now'
         /\ product' \in [version : 1..MaxProductVersion, sellable : BOOLEAN]
         /\ product' = product \/ product'.version > product.version
         /\ proposal' \in [Proposals -> [version : 1..MaxProductVersion, expires : Times]
                                          \cup {None}]
         /\ dispatched' \subseteq Proposals
         /\ overwritten' \subseteq [on : Proposals, place : Places]
         /\ overwritten \subseteq overwritten'
  <1> USE Parts DEF TypeOK
  <1>1. ASSUME NEW p \in Proposals, CreateProposal(p)
        PROVE  /\ proposal' \in [Proposals -> [version : 1..MaxProductVersion, expires : Times]
                                               \cup {None}]
               /\ UNCHANGED <<now, product, dispatched, overwritten>>
    <2>1. now + Life \in Times /\ product.version \in 1..MaxProductVersion
      BY Sizes DEF Times
    <2> QED
      BY <1>1, <2>1 DEF CreateProposal
  <1>2. ASSUME NEW p \in Proposals, Execute(p)
        PROVE  dispatched' \subseteq Proposals /\ UNCHANGED <<now, product, proposal, overwritten>>
    BY <1>2 DEF Execute
  <1>3. ASSUME EditProduct
        PROVE  /\ product' \in [version : 1..MaxProductVersion, sellable : BOOLEAN]
               /\ product'.version > product.version
               /\ UNCHANGED <<now, proposal, dispatched, overwritten>>
    BY <1>3, Sizes DEF EditProduct, NextProductVersion
  <1>4. ASSUME Tick
        PROVE  /\ now' \in 0..Horizon /\ now <= now'
               /\ UNCHANGED <<product, proposal, dispatched, overwritten>>
    BY <1>4, Sizes DEF Tick
  <1>5. ASSUME NEW a \in Approvals, EndApprove(a)
        PROVE  /\ overwritten' \subseteq [on : Proposals, place : Places]
               /\ overwritten \subseteq overwritten'
               /\ UNCHANGED <<now, product, proposal, dispatched>>
    <2>1. approval[a].on \in Proposals /\ approval[a].place \in Places
      BY <1>5 DEF EndApprove, Approval
    <2> QED
      BY <1>5, <2>1 DEF EndApprove
  <1>6. now <= now
    BY Sizes
  <1>7. CASE Elsewhere
    BY <1>1, <1>2, <1>3, <1>4, <1>6, <1>7 DEF Elsewhere
  <1>8. CASE \E a \in Approvals : EndApprove(a)
    BY <1>5, <1>6, <1>8
  <1>9. CASE ~Elsewhere /\ ~ \E a \in Approvals : EndApprove(a)
    <2>1. UNCHANGED <<now, product, proposal, dispatched, overwritten>>
      BY <1>9, Steps, Frames
         DEF vars, gateVars, EndRequest, EndEvaluate, EndCreate, StartRequest, StartEvaluate,
             Ruling, Decide, EndReview
    <2> QED
      BY <1>6, <2>1
  <1> QED
    BY <1>7, <1>8, <1>9

LEMMA Typed ==
  ASSUME Known, [Next]_vars
  PROVE  TypeOK'
  <1>1. session' \in [Sessions -> Session \cup {None}]
    BY SessionMoves, Parts DEF TypeOK, Sound
  <1>2. approval' \in [Approvals -> Approval \cup {None}]
    BY ApprovalMoves, Parts DEF TypeOK
  <1>3. review' \in [Reviews -> Review \cup {None}]
    BY ReviewMoves, Parts DEF TypeOK
  <1>4. txn' \in [Proposals -> [auth : Places, decision : Places] \cup {None}]
    BY TransactionMoves, Parts DEF TypeOK
  <1> QED
    BY <1>1, <1>2, <1>3, <1>4, WorldMoves, DecisionsStand, AuthsStand, PolicyKnown DEF TypeOK

(* Granted is granted.                                                     *)
LEMMA GrantsStand ==
  ASSUME Known, [Next]_vars, NEW p \in Proposals, NEW i \in Places, proposal[p] # None
  PROVE  /\ Covered(p, i) => Covered(p, i)'
         /\ Accepted(p, i) => Accepted(p, i)'
  <1>1. proposal'[p] = proposal[p]
    BY ProposalsStand
  <1> QED
    BY <1>1, AuthsStand, DecisionsStand DEF Covered, Accepted

LEMMA TransactionsStand ==
  ASSUME Known, [Next]_vars
  PROVE  TransactionsAreGated'
  <1>1. ASSUME NEW p \in Proposals, NEW i \in Places, NEW j \in Places, proposal[p] # None,
               Covered(p, i), Accepted(p, j), txn'[p] = [auth |-> i, decision |-> j]
        PROVE  (Covered(p, txn[p].auth) /\ Accepted(p, txn[p].decision))'
    BY <1>1, GrantsStand
  <1>2. ASSUME NEW p \in Proposals, txn[p] # None
        PROVE  \E i \in Places, j \in Places :
                 /\ txn[p] = [auth |-> i, decision |-> j] /\ proposal[p] # None
                 /\ Covered(p, i) /\ Accepted(p, j)
    <2>1. PICK i \in Places, j \in Places : txn[p] = [auth |-> i, decision |-> j]
      BY <1>2, Parts DEF TypeOK
    <2>2. Covered(p, i) /\ Accepted(p, j)
      BY <1>2, <2>1, Parts DEF TransactionsAreGated
    <2>3. proposal[p] # None
      BY <2>1, <2>2, Parts DEF Covered, ReadingsStand
    <2> QED
      BY <2>1, <2>2, <2>3
  <1>3. SUFFICES ASSUME NEW p \in Proposals, txn'[p] # None
                 PROVE  (Covered(p, txn[p].auth) /\ Accepted(p, txn[p].decision))'
    BY DEF TransactionsAreGated
  <1>4. CASE txn'[p] = txn[p]
    BY <1>1, <1>2, <1>3, <1>4
  <1>5. CASE \E i \in Places, j \in Places :
               /\ txn'[p] = [auth |-> i, decision |-> j]
               /\ Covered(p, i) /\ Accepted(p, j) /\ proposal[p] # None
    BY <1>1, <1>5
  <1> QED
    BY <1>4, <1>5, TransactionMoves, Parts DEF TypeOK

(* A decision that is due was due, or has just been made.                  *)
LEMMA DueStep ==
  ASSUME Known, [Next]_vars, NEW p \in Proposals, NEW d, d \in Due(p)'
  PROVE  \/ d \in Due(p)
         \/ Ruled(p, d)
         \/ UNCHANGED policyVars /\ proposal[p] # None /\ \E x \in InForce : d = Judgement(p, x)
  <1>1. \/ \E i \in Places : d = decisions'[p][i] /\ d \notin {Held, None}
        \/ \E b \in Sessions : Judged(b)' /\ session'[b].on = p /\ d = session'[b].decision
        \/ \E m \in Reviews, i \in Places : Deciding(m, p, i)' /\ d = review'[m].decision
    BY DEF Due
  <1>2. CASE \E i \in Places : d = decisions'[p][i] /\ d \notin {Held, None}
    BY <1>2, DecisionsStand
  <1>3. ASSUME NEW b \in Sessions, Judged(b)', session'[b].on = p, d = session'[b].decision
        PROVE  \/ d \in Due(p)
               \/ /\ UNCHANGED policyVars /\ proposal[p] # None
                  /\ \E x \in InForce : d = Judgement(p, x)
    <2>1. CASE session'[b] = session[b]
      BY <1>3, <2>1, DueMember DEF Judged
    <2>2. CASE session'[b] # session[b]
      <3>1. PICK s : /\ s = session'[b]
                     /\ s # None =>
                          /\ Sound(s)
                          /\ s.step \in {"judged", "evaluated"} =>
                               \/ Judged(b) /\ session[b].on = s.on /\ s.decision = session[b].decision
                               \/ UNCHANGED policyVars /\ \E x \in InForce : s.decision = Judgement(s.on, x)
        BY <2>2, SessionMoves, Parts DEF TypeOK
      <3> QED
        BY <1>3, <3>1, DueMember DEF Judged, Sound
    <2> QED
      BY <2>1, <2>2
  <1>4. ASSUME NEW m \in Reviews, NEW i \in Places, Deciding(m, p, i)', d = review'[m].decision
        PROVE  d \in Due(p) \/ Ruled(p, d)
    <2>1. CASE review'[m] = review[m]
      BY <1>4, <2>1, DueMember DEF Deciding
    <2>2. CASE review'[m] # review[m]
      BY <1>4, <2>2, ReviewMoves, Parts DEF Deciding, TypeOK
    <2> QED
      BY <2>1, <2>2
  <1> QED
    BY <1>1, <1>2, <1>3, <1>4

LEMMA DueReach ==
  ASSUME Known, [Next]_vars, NEW p \in Proposals, NEW d, d \in Due(p)'
  PROVE  proposal'[p] # None /\ d.expires <= proposal'[p].expires
  <1>1. CASE d \in Due(p)
    BY <1>1, Parts, ProposalsStand DEF ReadingsStand
  <1>2. CASE Ruled(p, d)
    BY <1>2, ProposalsStand DEF Ruled
  <1>3. CASE proposal[p] # None /\ \E x \in InForce : d = Judgement(p, x)
    <2>1. d.expires = proposal[p].expires
      BY <1>3 DEF Judgement
    <2>2. proposal[p].expires \in Nat
      BY <1>3, Parts, ProposalTyped, Numbers
    <2> QED
      BY <1>3, <2>1, <2>2, ProposalsStand
  <1> QED
    BY <1>1, <1>2, <1>3, DueStep

(* What calls of buyers have read still grants.                            *)
LEMMA SessionsStand ==
  ASSUME Known, [Next]_vars, NEW b \in Sessions, session'[b] # None
  PROVE  Sound(session[b])'
  <1>1. ASSUME NEW s, Sound(s), session'[b] = s
        PROVE  Sound(session[b])'
    <2>1. s \in Session /\ s.on \in Proposals /\ proposal'[s.on] # None
      BY <1>1, SessionFields, ProposalsStand DEF Sound
    <2>2. s.step \in {"covered", "accepted", "current", "checked"} =>
            s.auth \in Places /\ Covered(s.on, s.auth)'
      BY <1>1, <2>1, SessionFields, GrantsStand DEF Sound
    <2>3. s.step \in {"accepted", "current", "checked"} =>
            s.decision \in Places /\ Accepted(s.on, s.decision)'
      BY <1>1, <2>1, SessionFields, GrantsStand DEF Sound
    <2>4. /\ (session[b] \in Session)' /\ session[b]' = s
          /\ (proposal[session[b].on] # None)'
      BY <1>1, <2>1
    <2> QED
      BY <2>2, <2>3, <2>4 DEF Sound, Covered, Accepted
  <1>2. session[b] # None => Sound(session[b])
    BY Parts DEF Sound, ReadingsStand, TypeOK
  <1>3. CASE session'[b] = session[b]
    BY <1>1, <1>2, <1>3
  <1>4. CASE session'[b] # session[b]
    BY <1>1, <1>4, SessionMoves, Parts DEF TypeOK
  <1> QED
    BY <1>3, <1>4

LEMMA ApprovalsStand ==
  ASSUME Known, [Next]_vars, NEW a \in Approvals, approval'[a] # None
  PROVE  /\ auths'[approval'[a].on][approval'[a].place] \notin {Held, None}
         /\ approval'[a].expires <= proposal'[approval'[a].on].expires
  <1>1. ASSUME NEW r \in Approval, auths[r.on][r.place] \notin {Held, None},
               proposal[r.on] # None, r.expires <= proposal[r.on].expires
        PROVE  /\ auths'[r.on][r.place] \notin {Held, None}
               /\ r.expires <= proposal'[r.on].expires
    <2>1. r.on \in Proposals /\ r.place \in Places
      BY DEF Approval
    <2> QED
      BY <1>1, <2>1, AuthsStand, ProposalsStand
  <1>2. CASE approval'[a] = approval[a]
    <2>1. /\ approval[a] \in Approval /\ approval[a].on \in Proposals /\ approval[a].place \in Places
          /\ auths[approval[a].on][approval[a].place] \notin {Held, None}
          /\ approval[a].expires <= proposal[approval[a].on].expires
      BY <1>2, Parts DEF TypeOK, Approval, ReadingsStand
    <2>2. proposal[approval[a].on] # None
      BY <2>1, Parts DEF ReadingsStand
    <2> QED
      BY <1>1, <1>2, <2>1, <2>2
  <1>3. CASE approval'[a] # approval[a]
    BY <1>1, <1>3, ApprovalMoves, Parts DEF TypeOK
  <1> QED
    BY <1>2, <1>3

(* A proposal of the product's version is over a product that was sellable.*)
LEMMA ProductsStand ==
  ASSUME Known, [Next]_vars, NEW p \in Proposals, proposal'[p] # None
  PROVE  /\ proposal'[p].version <= product'.version
         /\ proposal'[p].version = product'.version => product'.sellable
  <1>1. product.version \in Nat /\ product'.version \in Nat
    BY WorldMoves, Parts, Sizes DEF TypeOK
  <1>2. CASE proposal[p] # None
    <2>1. /\ proposal'[p] = proposal[p] /\ proposal[p].version \in Nat
          /\ proposal[p].version <= product.version
          /\ proposal[p].version = product.version => product.sellable
      BY <1>2, ProposalsStand, ProposalTyped, Parts, Sizes DEF ReadingsStand
    <2> QED
      BY <1>1, <2>1, WorldMoves
  <1>3. CASE proposal[p] = None
    <2>1. PICK q \in Proposals : CreateProposal(q)
      BY <1>3, Steps, Frames
         DEF vars, gateVars, Elsewhere, Execute, EditProduct, Tick, EndRequest, EndEvaluate,
             EndCreate, StartRequest, StartEvaluate, EndApprove, Ruling, Decide, EndReview
    <2>2. /\ q = p /\ product' = product /\ product.sellable
          /\ proposal'[p] = [version |-> product.version, expires |-> now + Life]
      BY <1>3, <2>1, Parts DEF CreateProposal, TypeOK
    <2> QED
      BY <1>1, <2>2
  <1> QED
    BY <1>2, <1>3

LEMMA ReadingsStep ==
  ASSUME Known, [Next]_vars
  PROVE  ReadingsStand'
  <1>1. (\A e \in Editors : edit[e] # None =>
           /\ WellFormed(edit[e].terms)
           /\ edit[e].step # "insert" => edit[e].id \in Stored)'
    BY PolicyKnown DEF EditsStand
  <1>2. (\A p \in Proposals :
           /\ \A i \in Places : auths[p][i] \notin {Held, None} =>
                proposal[p] # None /\ auths[p][i].expires <= proposal[p].expires
           /\ \A d \in Due(p) : proposal[p] # None /\ d.expires <= proposal[p].expires)'
    BY AuthsStand, DueReach
  <1>3. (\A b \in Sessions : session[b] # None => Sound(session[b]))'
    BY SessionsStand
  <1>4. (\A a \in Approvals : approval[a] # None =>
           /\ auths[approval[a].on][approval[a].place] \notin {Held, None}
           /\ approval[a].expires <= proposal[approval[a].on].expires)'
    BY ApprovalsStand
  <1>5. (\A p \in Proposals : proposal[p] # None =>
           /\ proposal[p].version <= product.version
           /\ proposal[p].version = product.version => product.sellable)'
    BY ProductsStand
  <1> QED
    BY <1>1, <1>2, <1>3, <1>4, <1>5 DEF ReadingsStand, Sound

------------------------------------------------------------------------------
(* Places.                                                                 *)

AuthsAreHeld ==
    \A p \in Proposals, i \in Places, b \in Sessions : Requesting(b, p, i) =>
        auths[p][i] = Held /\ \A c \in Sessions \ {b} : ~Requesting(c, p, i)

DecisionsAreHeld ==
    \A p \in Proposals, i \in Places :
        /\ \A b \in Sessions : Evaluating(b, p, i) =>
             /\ decisions[p][i] = Held
             /\ \A c \in Sessions \ {b} : ~Evaluating(c, p, i)
             /\ \A m \in Reviews : ~Deciding(m, p, i)
        /\ \A m \in Reviews : Deciding(m, p, i) =>
             decisions[p][i] = Held /\ \A n \in Reviews \ {m} : ~Deciding(n, p, i)

LEMMA HeldParts == PlacesAreHeld <=> AuthsAreHeld /\ DecisionsAreHeld
  BY DEF PlacesAreHeld, AuthsAreHeld, DecisionsAreHeld

(* Calls that are at work on a place were before.                          *)
RequestsStay ==
    \A b \in Sessions, p \in Proposals, i \in Places : Requesting(b, p, i)' => Requesting(b, p, i)

EvaluationsStay ==
    \A b \in Sessions, p \in Proposals, i \in Places : Evaluating(b, p, i)' => Evaluating(b, p, i)

RulingsStay ==
    \A m \in Reviews, p \in Proposals, i \in Places : Deciding(m, p, i)' => Deciding(m, p, i)

LEMMA NoSession ==
  ASSUME TypeOK, NEW b \in Sessions, session' = [session EXCEPT ![b] = None]
  PROVE  /\ RequestsStay /\ EvaluationsStay
         /\ \A p \in Proposals, i \in Places : ~Requesting(b, p, i)' /\ ~Evaluating(b, p, i)'
  BY DEF TypeOK, RequestsStay, EvaluationsStay, Requesting, Evaluating, Judged, Goes

LEMMA NoReview ==
  ASSUME TypeOK, NEW m \in Reviews, review' = [review EXCEPT ![m] = None]
  PROVE  RulingsStay /\ \A p \in Proposals, i \in Places : ~Deciding(m, p, i)'
  BY DEF TypeOK, RulingsStay, Deciding

LEMMA CallsStay ==
  ASSUME Known, NEW b \in Sessions, Calls(b)
  PROVE  RequestsStay /\ EvaluationsStay
  <1>1. PICK s :
          /\ session' = [session EXCEPT ![b] = s]
          /\ s # None =>
               /\ Sound(s) /\ s.step # "request"
               /\ s.step \in {"evaluate", "authorized", "judged", "evaluated"} =>
                    Evaluating(b, s.on, s.place)
    BY CallMoves
  <1>2. /\ \A c \in Sessions : c # b => session'[c] = session[c]
        /\ session'[b] = s
    BY <1>1, Parts DEF TypeOK
  <1>3. RequestsStay
    BY <1>1, <1>2 DEF RequestsStay, Requesting, Goes
  <1>4. EvaluationsStay
    <2>1. SUFFICES ASSUME NEW c \in Sessions, NEW p \in Proposals, NEW i \in Places,
                          Evaluating(c, p, i)'
                   PROVE  Evaluating(c, p, i)
      BY DEF EvaluationsStay
    <2>2. CASE c # b
      BY <1>2, <2>1, <2>2 DEF Evaluating, Judged, Goes
    <2>3. CASE c = b
      BY <1>1, <1>2, <2>1, <2>3 DEF Evaluating, Judged, Goes
    <2> QED
      BY <2>2, <2>3
  <1> QED
    BY <1>3, <1>4

LEMMA ReviewsStay ==
  ASSUME Known, NEW m \in Reviews, Reviewing(m)
  PROVE  RulingsStay
  <1>1. ASSUME NEW r, review' = [review EXCEPT ![m] = r], r = None \/ r.step # "decided"
        PROVE  RulingsStay
    BY <1>1, Parts DEF RulingsStay, Deciding, TypeOK
  <1>2. CASE LeaveReview(m)
    BY <1>1, <1>2 DEF LeaveReview
  <1>3. CASE ConfirmReview(m)
    <2> DEFINE r == [review[m] EXCEPT !.step = "read"]
    <2>1. review[m] \in Review /\ review[m] # None /\ review[m].step = "latest"
      BY <1>3, Parts DEF ConfirmReview, TypeOK
    <2>2. r.step = "read"
      BY <2>1 DEF Review
    <2>3. review' = [review EXCEPT ![m] = r]
      BY <1>3, Parts DEF ConfirmReview, TypeOK
    <2> HIDE DEF r
    <2> QED
      BY <1>1, <2>2, <2>3
  <1>4. ASSUME NEW p \in Proposals, ReadReview(m, p)
        PROVE  RulingsStay
    BY <1>1, <1>4 DEF ReadReview
  <1> QED
    BY <1>2, <1>3, <1>4 DEF Reviewing

LEMMA SessionsAsTheyWere ==
  ASSUME session' = session
  PROVE  RequestsStay /\ EvaluationsStay
  BY DEF RequestsStay, EvaluationsStay, Requesting, Evaluating, Judged, Goes

LEMMA ReviewsAsTheyWere ==
  ASSUME review' = review
  PROVE  RulingsStay
  BY DEF RulingsStay, Deciding

LEMMA AuthsHeldStep ==
  ASSUME Known, [Next]_vars
  PROVE  AuthsAreHeld'
  <1>0. AuthsAreHeld /\ TypeOK
    BY Parts, HeldParts
  <1>1. CASE RequestsStay /\ auths' = auths
    BY <1>0, <1>1 DEF RequestsStay, AuthsAreHeld
  <1>2. ASSUME NEW b \in Sessions, NEW p \in Proposals, StartRequest(b, p)
        PROVE  AuthsAreHeld'
    <2>1. PICK i \in Places :
            /\ auths[p][i] = None /\ auths' = Hold(auths, p, i)
            /\ session' = [session EXCEPT ![b] = [step |-> "request", on |-> p, place |-> i]]
            /\ session[b] = None
      BY <1>2 DEF StartRequest, NextPlace
    <2>2. /\ auths'[p][i] = Held
          /\ \A q \in Proposals, j \in Places : (q # p \/ j # i) => auths'[q][j] = auths[q][j]
      BY <1>0, <2>1, HoldRows DEF TypeOK
    <2>3. \A c \in Sessions, q \in Proposals, j \in Places : Requesting(c, q, j)' =>
            \/ c # b /\ Requesting(c, q, j)
            \/ c = b /\ q = p /\ j = i
      BY <1>0, <2>1 DEF TypeOK, Requesting, Goes
    <2>4. \A c \in Sessions : ~Requesting(c, p, i)
      BY <1>0, <2>1, Marks DEF AuthsAreHeld
    <2>5. \A q \in Proposals, j \in Places : ~Requesting(b, q, j)
      BY <2>1 DEF Requesting, Goes
    <2> QED
      BY <1>0, <2>2, <2>3, <2>4, <2>5 DEF AuthsAreHeld
  <1>3. ASSUME NEW b \in Sessions, EndRequest(b)
        PROVE  AuthsAreHeld'
    <2> DEFINE p == session[b].on
               i == session[b].place
               row == [status |-> "REQUESTED", expires |-> proposal[p].expires]
    <2>1. p \in Proposals /\ i \in Places /\ Requesting(b, p, i) /\ proposal[p] # None
      BY <1>0, <1>3, Parts, SessionFields DEF EndRequest, Goes, TypeOK, Requesting, ReadingsStand
    <2>2. row \in Authorization
      BY <1>0, <2>1, ProposalTyped DEF Authorization
    <2>3. auths' = Fill(auths, p, i, row) /\ session' = [session EXCEPT ![b] = None]
      BY <1>3 DEF EndRequest
    <2> HIDE DEF row, p, i
    <2>4. \A q \in Proposals, j \in Places : (q # p \/ j # i) => auths'[q][j] = auths[q][j]
      BY <1>0, <2>1, <2>2, <2>3, FillRows DEF TypeOK
    <2>5. RequestsStay /\ \A q \in Proposals, j \in Places : ~Requesting(b, q, j)'
      BY <1>0, <2>3, NoSession
    <2>6. \A c \in Sessions \ {b} : ~Requesting(c, p, i)
      BY <1>0, <2>1 DEF AuthsAreHeld
    <2> QED
      BY <1>0, <2>1, <2>4, <2>5, <2>6 DEF AuthsAreHeld, RequestsStay
  <1>4. ASSUME NEW a \in Approvals, EndApprove(a)
        PROVE  AuthsAreHeld'
    <2>1. PICK p \in Proposals, i \in Places, row \in Authorization :
            /\ auths' = Fill(auths, p, i, row) /\ auths[p][i] # Held
      BY <1>0, <1>4, Parts DEF EndApprove, TypeOK, Approval, ReadingsStand, Authorization
    <2>2. \A q \in Proposals, j \in Places : (q # p \/ j # i) => auths'[q][j] = auths[q][j]
      BY <1>0, <2>1, FillRows DEF TypeOK
    <2>3. RequestsStay
      BY <1>4, SessionsAsTheyWere DEF EndApprove
    <2> QED
      BY <1>0, <2>1, <2>2, <2>3 DEF AuthsAreHeld, RequestsStay
  <1>5. ASSUME NEW b \in Sessions, Calls(b) \/ EndEvaluate(b) \/ EndCreate(b)
        PROVE  RequestsStay /\ auths' = auths
    <2>1. CASE Calls(b)
      BY <2>1, CallsStay, Frames
    <2>2. CASE EndEvaluate(b) \/ EndCreate(b)
      BY <1>0, <2>2, NoSession DEF EndEvaluate, EndCreate
    <2> QED
      BY <1>5, <2>1, <2>2
  <1>6. ASSUME NEW b \in Sessions, NEW p \in Proposals, StartEvaluate(b, p)
        PROVE  RequestsStay /\ auths' = auths
    BY <1>0, <1>6 DEF StartEvaluate, RequestsStay, Requesting, Goes, TypeOK
  <1>7. ASSUME NEW a \in Approvals, Approving(a)
        PROVE  RequestsStay /\ auths' = auths
    BY <1>7, Frames, SessionsAsTheyWere
  <1>8. ASSUME NEW m \in Reviews, Reviewing(m) \/ Ruling(m) \/ EndReview(m)
        PROVE  RequestsStay /\ auths' = auths
    BY <1>8, Frames, SessionsAsTheyWere DEF Ruling, Decide, EndReview
  <1>9. CASE UNCHANGED gateVars \/ Elsewhere
    BY <1>1, <1>9, Frames, SessionsAsTheyWere DEF gateVars
  <1> QED
    BY <1>1, <1>2, <1>3, <1>4, <1>5, <1>6, <1>7, <1>8, <1>9, Steps DEF vars

LEMMA DecisionsHeldStep ==
  ASSUME Known, [Next]_vars
  PROVE  DecisionsAreHeld'
  <1>0. DecisionsAreHeld /\ TypeOK /\ decisions \in [Proposals -> Rows(Decision)]
    BY Parts, HeldParts DEF TypeOK
  <1>1. CASE EvaluationsStay /\ RulingsStay /\ decisions' = decisions
    BY <1>0, <1>1 DEF EvaluationsStay, RulingsStay, DecisionsAreHeld
  <1>2. ASSUME NEW b \in Sessions, NEW p \in Proposals, StartEvaluate(b, p)
        PROVE  DecisionsAreHeld'
    <2>1. PICK i \in Places :
            /\ decisions[p][i] = None /\ decisions' = Hold(decisions, p, i)
            /\ session' = [session EXCEPT ![b] =
                 [step |-> "evaluate", on |-> p, place |-> i, at |-> now]]
            /\ session[b] = None /\ review' = review
      BY <1>2 DEF StartEvaluate, NextPlace
    <2>2. /\ decisions'[p][i] = Held
          /\ \A q \in Proposals, j \in Places :
               (q # p \/ j # i) => decisions'[q][j] = decisions[q][j]
      BY <1>0, <2>1, HoldRows
    <2>3. /\ \A c \in Sessions, q \in Proposals, j \in Places : Evaluating(c, q, j)' =>
               \/ c # b /\ Evaluating(c, q, j)
               \/ c = b /\ q = p /\ j = i
          /\ RulingsStay
      BY <1>0, <2>1, ReviewsAsTheyWere DEF TypeOK, Evaluating, Judged, Goes
    <2>4. /\ \A c \in Sessions : ~Evaluating(c, p, i)
          /\ \A m \in Reviews : ~Deciding(m, p, i)
      BY <1>0, <2>1, Marks DEF DecisionsAreHeld
    <2> QED
      BY <1>0, <2>2, <2>3, <2>4 DEF DecisionsAreHeld, RulingsStay
  <1>3. ASSUME NEW m \in Reviews, Ruling(m)
        PROVE  DecisionsAreHeld'
    <2>1. PICK p \in Proposals, i \in Places :
            /\ decisions[p][i] = None /\ decisions' = Hold(decisions, p, i)
            /\ \E d : review' = [review EXCEPT ![m] =
                 [step |-> "decided", on |-> p, place |-> i, decision |-> d]]
            /\ session' = session
      <3>1. review[m].on \in Proposals
        BY <1>0, <1>3, ReviewFields DEF Ruling, Decide, TypeOK
      <3> QED
        BY <1>0, <1>3, <3>1 DEF Ruling, Decide, NextPlace, TypeOK
    <2>2. /\ decisions'[p][i] = Held
          /\ \A q \in Proposals, j \in Places :
               (q # p \/ j # i) => decisions'[q][j] = decisions[q][j]
      BY <1>0, <2>1, HoldRows
    <2>3. /\ \A n \in Reviews, q \in Proposals, j \in Places : Deciding(n, q, j)' =>
               \/ n # m /\ Deciding(n, q, j)
               \/ n = m /\ q = p /\ j = i
          /\ EvaluationsStay
      BY <1>0, <2>1, SessionsAsTheyWere DEF TypeOK, Deciding
    <2>4. /\ \A c \in Sessions : ~Evaluating(c, p, i)
          /\ \A n \in Reviews : ~Deciding(n, p, i)
      BY <1>0, <2>1, Marks DEF DecisionsAreHeld
    <2> QED
      BY <1>0, <2>2, <2>3, <2>4 DEF DecisionsAreHeld, EvaluationsStay
  <1>4. ASSUME NEW b \in Sessions, EndEvaluate(b)
        PROVE  DecisionsAreHeld'
    <2>1. PICK p \in Proposals, i \in Places, d \in Decision :
            p = session[b].on /\ i = session[b].place /\ d = session[b].decision
            /\ Evaluating(b, p, i)
      BY <1>4, JudgedDue DEF EndEvaluate
    <2>2. decisions' = Fill(decisions, p, i, d) /\ session' = [session EXCEPT ![b] = None]
          /\ review' = review
      BY <1>4, <2>1 DEF EndEvaluate
    <2>3. \A q \in Proposals, j \in Places : (q # p \/ j # i) => decisions'[q][j] = decisions[q][j]
      BY <1>0, <2>2, FillRows
    <2>4. /\ EvaluationsStay /\ RulingsStay
          /\ \A q \in Proposals, j \in Places : ~Evaluating(b, q, j)'
      BY <1>0, <2>2, NoSession, ReviewsAsTheyWere
    <2>5. /\ \A c \in Sessions \ {b} : ~Evaluating(c, p, i)
          /\ \A m \in Reviews : ~Deciding(m, p, i)
      BY <1>0, <2>1 DEF DecisionsAreHeld
    <2> QED
      BY <1>0, <2>3, <2>4, <2>5 DEF DecisionsAreHeld, EvaluationsStay, RulingsStay
  <1>5. ASSUME NEW m \in Reviews, EndReview(m)
        PROVE  DecisionsAreHeld'
    <2>1. PICK p \in Proposals, i \in Places, d \in Decision :
            p = review[m].on /\ i = review[m].place /\ d = review[m].decision
            /\ Deciding(m, p, i)
      BY <1>5, RuledDue DEF EndReview
    <2>2. decisions' = Fill(decisions, p, i, d) /\ review' = [review EXCEPT ![m] = None]
          /\ session' = session
      BY <1>5, <2>1 DEF EndReview
    <2>3. \A q \in Proposals, j \in Places : (q # p \/ j # i) => decisions'[q][j] = decisions[q][j]
      BY <1>0, <2>2, FillRows
    <2>4. /\ EvaluationsStay /\ RulingsStay
          /\ \A q \in Proposals, j \in Places : ~Deciding(m, q, j)'
      BY <1>0, <2>2, NoReview, SessionsAsTheyWere
    <2>5. /\ \A c \in Sessions : ~Evaluating(c, p, i)
          /\ \A n \in Reviews \ {m} : ~Deciding(n, p, i)
      BY <1>0, <2>1 DEF DecisionsAreHeld
    <2> QED
      BY <1>0, <2>3, <2>4, <2>5 DEF DecisionsAreHeld, EvaluationsStay, RulingsStay
  <1>6. ASSUME NEW b \in Sessions,
               \/ Calls(b) \/ EndRequest(b) \/ EndCreate(b)
               \/ \E p \in Proposals : StartRequest(b, p)
        PROVE  EvaluationsStay /\ RulingsStay /\ decisions' = decisions
    <2>1. CASE Calls(b)
      BY <2>1, CallsStay, Frames, ReviewsAsTheyWere
    <2>2. CASE EndRequest(b) \/ EndCreate(b)
      BY <1>0, <2>2, NoSession, ReviewsAsTheyWere DEF EndRequest, EndCreate
    <2>3. CASE \E p \in Proposals : StartRequest(b, p)
      BY <1>0, <2>3, ReviewsAsTheyWere
         DEF StartRequest, EvaluationsStay, Evaluating, Judged, Goes, TypeOK
    <2> QED
      BY <1>6, <2>1, <2>2, <2>3
  <1>7. ASSUME NEW a \in Approvals, Approving(a) \/ EndApprove(a)
        PROVE  EvaluationsStay /\ RulingsStay /\ decisions' = decisions
    BY <1>7, Frames, SessionsAsTheyWere, ReviewsAsTheyWere DEF EndApprove
  <1>8. ASSUME NEW m \in Reviews, Reviewing(m)
        PROVE  EvaluationsStay /\ RulingsStay /\ decisions' = decisions
    BY <1>8, Frames, SessionsAsTheyWere, ReviewsStay
  <1>9. CASE UNCHANGED gateVars \/ Elsewhere
    BY <1>1, <1>9, Frames, SessionsAsTheyWere, ReviewsAsTheyWere DEF gateVars
  <1> QED
    BY <1>1, <1>2, <1>3, <1>4, <1>5, <1>6, <1>7, <1>8, <1>9, Steps DEF vars

------------------------------------------------------------------------------
(* Versions.                                                               *)

LEMMA FindingCases ==
  ASSUME NEW f
  PROVE  f \in Findings <=>
           \/ \E p \in Proposals : \E d \in Due(p) : f = Finding(d, Answer(d))
           \/ \E m \in Reviews : /\ review[m] # None /\ review[m].step \in {"latest", "read"}
                                 /\ f = Finding(review[m], "REVIEW_REQUIRED")
  BY DEF Findings

(* What is found was found, or is what the policy in force says.           *)
LEMMA FindingsStep ==
  ASSUME Known, [Next]_vars, NEW f, f \in Findings'
  PROVE  \/ f \in Findings
         \/ UNCHANGED policyVars /\ \E x \in InForce :
              f = [policy |-> x, version |-> policy[x].version, answer |-> Verdict(policy[x])]
  <1>1. \/ \E p \in Proposals : \E d \in Due(p)' : f = Finding(d, Answer(d))
        \/ \E m \in Reviews : /\ review'[m] # None /\ review'[m].step \in {"latest", "read"}
                              /\ f = Finding(review'[m], "REVIEW_REQUIRED")
    BY DEF Findings, Finding, Answer
  <1>2. ASSUME NEW p \in Proposals, NEW d, d \in Due(p)', f = Finding(d, Answer(d))
        PROVE  \/ f \in Findings
               \/ UNCHANGED policyVars /\ \E x \in InForce :
                    f = [policy |-> x, version |-> policy[x].version, answer |-> Verdict(policy[x])]
    <2>1. CASE d \in Due(p)
      BY <1>2, <2>1, FindingMember
    <2>2. CASE Ruled(p, d)
      BY <1>2, <2>2 DEF Ruled, Answer
    <2>3. ASSUME NEW x \in InForce, d = Judgement(p, x)
          PROVE  f = [policy |-> x, version |-> policy[x].version, answer |-> Verdict(policy[x])]
      BY <1>2, <2>3 DEF Judgement, Finding, Answer
    <2> QED
      BY <1>2, <2>1, <2>2, <2>3, DueStep
  <1>3. ASSUME NEW m \in Reviews, review'[m] # None, review'[m].step \in {"latest", "read"},
               f = Finding(review'[m], "REVIEW_REQUIRED")
        PROVE  f \in Findings
    <2>1. CASE review'[m] = review[m]
      BY <1>3, <2>1, ReviewFinding
    <2>2. CASE review'[m] # review[m]
      BY <1>3, <2>2, ReviewMoves, Parts DEF TypeOK
    <2> QED
      BY <2>1, <2>2
  <1> QED
    BY <1>1, <1>2, <1>3

LEMMA FollowsTyped ==
  ASSUME Known, NEW f \in Findings
  PROVE  f.policy \in PolicyIds /\ f.version \in 1..MaxPolicyVersion
  <1>1. ASSUME NEW p \in Proposals, NEW d \in Due(p)
        PROVE  /\ Finding(d, Answer(d)).policy \in PolicyIds
               /\ Finding(d, Answer(d)).version \in 1..MaxPolicyVersion
    BY DueTyped, Parts DEF Finding, Decision
  <1>2. ASSUME NEW m \in Reviews, review[m] # None, review[m].step \in {"latest", "read"}
        PROVE  /\ Finding(review[m], "REVIEW_REQUIRED").policy \in PolicyIds
               /\ Finding(review[m], "REVIEW_REQUIRED").version \in 1..MaxPolicyVersion
    BY <1>2, Parts, ReviewFields DEF TypeOK, Finding
  <1> QED
    BY <1>1, <1>2, FindingCases

(* What was found of a row stays behind its version or agrees with it.     *)
LEMMA FollowsStep ==
  ASSUME Known, [Next]_vars, NEW f, f.policy \in PolicyIds, f.version \in 1..MaxPolicyVersion,
         Follows(f), f.policy \notin raced'
  PROVE  Follows(f)'
  <1> DEFINE x == policy[f.policy]
             y == policy'[f.policy]
  <1>1. f.policy \in Stored /\ f.policy \in Stored'
    BY PolicyKnown DEF Follows, RowsRise
  <1>2. x \in Policy /\ y \in Policy
    BY <1>1, PolicyKnown, Parts DEF PolicyTypeOK, Stored
  <1>3. x.version \in Nat /\ y.version \in Nat /\ f.version \in Nat
    BY <1>2 DEF Policy
  <1>4. y = x \/ y.version > x.version
    BY <1>1, PolicyKnown DEF RowsRise
  <1>5. f.version <= x.version /\ (f.version = x.version => Verdict(x) = f.answer)
    BY DEF Follows
  <1>6. /\ f.version <= y.version
        /\ f.version = y.version => y = x /\ f.version = x.version
    BY <1>3, <1>4, <1>5
  <1>7. f.version = y.version => Verdict(y) = f.answer
    <2> HIDE DEF x, y
    <2> QED
      BY <1>5, <1>6
  <1>8. Follows(f)' <=> /\ f.policy \in Stored'
                        /\ f.version <= y.version
                        /\ f.version = y.version => Verdict(y) = f.answer
    BY DEF Follows, Verdict
  <1> QED
    BY <1>1, <1>6, <1>7, <1>8

LEMMA VersionsStep ==
  ASSUME Known, [Next]_vars
  PROVE  VersionsName'
  <1>1. /\ \A i \in Stored \ raced : WellFormed(policy[i])
        /\ \A f, g \in Findings : f.policy \notin raced =>
             /\ Follows(f)
             /\ DecidedUnder(g, f.policy, f.version) => g.answer = f.answer
    BY Parts DEF VersionsName
  <1>2. RowsWellFormed' /\ raced \subseteq raced'
    BY PolicyKnown DEF RowsRise
  <1> DEFINE New(f) ==
        UNCHANGED policyVars /\ \E x \in InForce :
          f = [policy |-> x, version |-> policy[x].version, answer |-> Verdict(policy[x])]
  <1>3. ASSUME NEW f, f \in Findings'
        PROVE  f \in Findings \/ New(f)
    BY <1>3, FindingsStep
  <1>4. ASSUME NEW f, New(f)
        PROVE  /\ Follows(f) /\ Follows(f)' /\ f.answer = Verdict(policy[f.policy])
               /\ f.version = policy[f.policy].version /\ raced' = raced
    <2>1. PICK x \in InForce :
            f = [policy |-> x, version |-> policy[x].version, answer |-> Verdict(policy[x])]
      BY <1>4
    <2>2. x \in Stored /\ policy[x].version \in Nat
      BY InForceTyped, Parts
    <2>3. policy' = policy /\ raced' = raced
      BY <1>4 DEF policyVars
    <2>4. f.policy = x /\ f.version = policy[x].version /\ f.answer = Verdict(policy[x])
      BY <2>1
    <2>5. Follows(f)
      BY <2>2, <2>4 DEF Follows
    <2>6. Follows(f)' <=> Follows(f)
      BY <2>3 DEF Follows, Stored, Verdict
    <2> QED
      BY <2>3, <2>4, <2>5, <2>6
  <1>5. ASSUME NEW f, f \in Findings', f.policy \notin raced'
        PROVE  Follows(f)'
    BY <1>1, <1>2, <1>3, <1>4, <1>5, FollowsStep, FollowsTyped
  <1>6. ASSUME NEW f, NEW g, f \in Findings', g \in Findings', f.policy \notin raced',
               DecidedUnder(g, f.policy, f.version)
        PROVE  g.answer = f.answer
    <2>1. f.policy \notin raced /\ g.policy \notin raced /\ g.policy = f.policy
          /\ g.version = f.version
      BY <1>2, <1>6 DEF DecidedUnder
    <2>2. CASE f \in Findings /\ g \in Findings
      BY <1>1, <1>6, <2>1, <2>2
    <2>3. CASE New(f)
      BY <1>1, <1>3, <1>4, <1>6, <2>1, <2>3 DEF Follows
    <2>4. CASE New(g)
      BY <1>1, <1>3, <1>4, <1>6, <2>1, <2>4 DEF Follows
    <2> QED
      BY <1>3, <1>6, <2>2, <2>3, <2>4
  <1> HIDE DEF New
  <1> QED
    BY <1>2, <1>5, <1>6 DEF VersionsName, RowsWellFormed

------------------------------------------------------------------------------
(* Invariants.                                                             *)

LEMMA KnownInit == Init => Known
  <1> SUFFICES ASSUME Init PROVE Known
    OBVIOUS
  <1> USE DEF Init, PolicyInit
  <1>1. TypeOK
    BY InitTyped
  <1>2. TransactionsAreGated
    BY DEF TransactionsAreGated
  <1>3. PlacesAreHeld
    BY DEF PlacesAreHeld, Requesting, Evaluating, Judged, Deciding, Goes
  <1>4. \A p \in Proposals : Due(p) = {}
    BY DEF Due, Judged, Deciding
  <1>5. ReadingsStand
    BY <1>4 DEF ReadingsStand
  <1>6. VersionsName
    BY <1>4 DEF VersionsName, Findings, Stored
  <1> QED
    BY <1>1, <1>2, <1>3, <1>5, <1>6 DEF Known, Bookkeeping

LEMMA KnownStep == Known /\ [Next]_vars => Known'
  BY Typed, TransactionsStand, AuthsHeldStep, DecisionsHeldStep, HeldParts, ReadingsStep,
     VersionsStep
     DEF Known, Bookkeeping, PlacesAreHeld, AuthsAreHeld, DecisionsAreHeld

(* The types, the places, what calls carry and what versions stand for:    *)
(* together they are kept by every step.                                   *)
THEOREM KnownHolds == Spec => []Known
  BY KnownInit, KnownStep, PTL DEF Spec

(* Every row, call and version has its type: the database's columns.       *)
THEOREM TypesHold == Spec => []TypeOK
  <1>1. Known => TypeOK
    BY DEF Known
  <1> QED
    BY <1>1, KnownHolds, PTL

(* A transaction names an approval and an acceptance of its proposal that  *)
(* reach no further than the proposal, however many calls overlap.         *)
THEOREM TransactionsHold == Spec => []TransactionsAreGated
  <1>1. Known => TransactionsAreGated
    BY DEF Known
  <1> QED
    BY <1>1, KnownHolds, PTL

(* Places have one owner, what calls have read still grants, and a version *)
(* of a row that no update wrote over unseen says one thing to everybody.  *)
THEOREM BookkeepingHolds == Spec => []Bookkeeping
  <1>1. Known => Bookkeeping
    BY DEF Known
  <1> QED
    BY <1>1, KnownHolds, PTL

LEMMA CommittedFinding ==
  ASSUME NEW p \in Proposals, NEW i \in Places, decisions[p][i] \notin {Held, None}
  PROVE  Finding(decisions[p][i], Answer(decisions[p][i])) \in Findings
  BY DueMember, FindingMember

(* A decision that counts as current agrees with the policy as it stands,  *)
(* where no update wrote over another.                                     *)
THEOREM DecisionsHold == Spec => []CurrentDecisionFollowsPolicy
  <1>1. ASSUME Known
        PROVE  CurrentDecisionFollowsPolicy
    <2>1. SUFFICES ASSUME NEW p \in Proposals, NEW i \in Places,
                          decisions[p][i] \notin {Held, None},
                          decisions[p][i].policy \notin raced, CurrentFor(decisions[p][i])
                   PROVE  Verdict(policy[decisions[p][i].policy]) = Answer(decisions[p][i])
      BY DEF CurrentDecisionFollowsPolicy
    <2> DEFINE d == decisions[p][i]
               f == Finding(d, Answer(d))
    <2>2. f \in Findings /\ f.policy = d.policy /\ f.version = d.version /\ f.answer = Answer(d)
      BY <2>1, CommittedFinding DEF Finding
    <2>3. Follows(f)
      BY <1>1, <2>1, <2>2, Parts DEF VersionsName
    <2>4. d.version = policy[d.policy].version
      BY <2>1 DEF CurrentFor, DecidedUnder
    <2> HIDE DEF d, f
    <2>5. Verdict(policy[d.policy]) = Answer(d)
      BY <2>2, <2>3, <2>4 DEF Follows
    <2> QED
      BY <2>5 DEF d
  <1> QED
    BY <1>1, KnownHolds, PTL

(* Evaluations and reviews under one version of a policy found it to say   *)
(* the same, however the updates of the policy came between their reads.   *)
THEOREM AnswersHold == Spec => []AnswersAgree
  <1>1. ASSUME Known
        PROVE  AnswersAgree
    <2>1. SUFFICES ASSUME NEW p \in Proposals, NEW q \in Proposals,
                          NEW i \in Places, NEW j \in Places,
                          decisions[p][i] \notin {Held, None}, decisions[q][j] \notin {Held, None},
                          DecidedUnder(decisions[p][i], decisions[q][j].policy,
                                       decisions[q][j].version),
                          decisions[p][i].policy \notin raced
                   PROVE  Answer(decisions[p][i]) = Answer(decisions[q][j])
      <3>1. ASSUME NEW d, NEW e, {d, e} \cap {Held, None} = {}
            PROVE  d \notin {Held, None} /\ e \notin {Held, None}
        BY <3>1
      <3> QED
        BY <3>1 DEF AnswersAgree
    <2> DEFINE d == decisions[p][i]
               e == decisions[q][j]
               f == Finding(d, Answer(d))
               g == Finding(e, Answer(e))
    <2>2. f \in Findings /\ f.policy = d.policy /\ f.version = d.version /\ f.answer = Answer(d)
      BY <2>1, CommittedFinding DEF Finding
    <2>3. g \in Findings /\ g.policy = e.policy /\ g.version = e.version /\ g.answer = Answer(e)
      BY <2>1, CommittedFinding DEF Finding
    <2>4. d.policy = e.policy /\ d.version = e.version /\ d.policy \notin raced
      BY <2>1 DEF DecidedUnder
    <2> HIDE DEF d, e, f, g
    <2>5. g.answer = f.answer
      BY <1>1, <2>2, <2>3, <2>4, Parts DEF VersionsName, DecidedUnder
    <2> QED
      BY <2>2, <2>3, <2>5 DEF d, e
  <1> QED
    BY <1>1, KnownHolds, PTL

------------------------------------------------------------------------------
(* Dispatch.                                                               *)

(* What is dispatched agrees with the policy as it stands, where no update *)
(* wrote over another since the decision.                                  *)
THEOREM DispatchesFollow == Spec => DispatchFollowsUnracedPolicy
  <1>1. ASSUME Known, [Next]_vars
        PROVE  [\A p \in dispatched' \ dispatched :
                  decisions[p][txn[p].decision].policy \notin raced =>
                      \E i \in InForce : Permits(i, p)]_vars
    <2>1. SUFFICES ASSUME NEW p \in dispatched' \ dispatched,
                          decisions[p][txn[p].decision].policy \notin raced
                   PROVE  \E i \in InForce : Permits(i, p)
      OBVIOUS
    <2>2. PICK q \in Proposals : Execute(q)
      BY <1>1, <2>1, Steps, Frames
         DEF vars, gateVars, Elsewhere, CreateProposal, EditProduct, Tick, EndRequest,
             EndEvaluate, EndCreate, StartRequest, StartEvaluate, EndApprove, Ruling, Decide,
             EndReview
    <2>3. p = q /\ txn[p] # None /\ Revalidates(p)
      BY <2>1, <2>2 DEF Execute
    <2> DEFINE j == txn[p].decision
               d == decisions[p][j]
               f == Finding(d, Answer(d))
    <2>4. p \in Proposals /\ j \in Places
      BY <1>1, <2>2, <2>3, Parts DEF TypeOK
    <2>5. d \notin {Held, None}
      BY <1>1, <2>3, <2>4, Parts DEF TransactionsAreGated, Accepted
    <2>6. f \in Findings /\ f.policy = d.policy /\ f.version = d.version /\ f.answer = Answer(d)
      BY <2>4, <2>5, CommittedFinding DEF Finding
    <2>7. Follows(f)
      BY <1>1, <2>1, <2>6, Parts DEF VersionsName
    <2>8. d.policy \in InForce /\ d.version = policy[d.policy].version /\ d.verdict = "ALLOW"
      BY <2>3 DEF Revalidates, CurrentFor, DecidedUnder, Accepts, Allows
    <2>9. Verdict(policy[d.policy]) = IF d.manual THEN "REVIEW_REQUIRED" ELSE "ALLOW"
      BY <2>6, <2>7, <2>8 DEF Follows, Answer
    <2>10. d.manual \in BOOLEAN
      BY <1>1, <2>4, <2>5, RowsTyped, Parts DEF Decision
    <2> QED
      BY <2>8, <2>9, <2>10 DEF Permits
  <1> QED
    BY <1>1, KnownHolds, PTL DEF Spec, DispatchFollowsUnracedPolicy

------------------------------------------------------------------------------
(* Gates that lapsed.                                                      *)

(* What a transaction names is not named anew, and does not change unless  *)
(* an approval writes over the one it names.                               *)
LEMMA NamedStand ==
  ASSUME Known, [Next]_vars, NEW p \in Proposals, txn[p] # None,
         [on |-> p, place |-> txn[p].auth] \notin overwritten'
  PROVE  /\ txn'[p] = txn[p] /\ proposal[p] # None /\ proposal'[p] = proposal[p]
         /\ auths'[p][txn[p].auth] = auths[p][txn[p].auth]
         /\ decisions[p][txn[p].decision] \notin {Held, None}
         /\ decisions'[p][txn[p].decision] = decisions[p][txn[p].decision]
         /\ txn[p].decision \in Places
  <1>1. PICK i \in Places, j \in Places : txn[p] = [auth |-> i, decision |-> j]
    BY Parts DEF TypeOK
  <1>2. Covered(p, i) /\ Accepted(p, j)
    BY <1>1, Parts DEF TransactionsAreGated
  <1>3. auths[p][i] \notin {Held, None} /\ decisions[p][j] \notin {Held, None}
        /\ auths[p][i].status = "APPROVED"
    BY <1>2 DEF Covered, Accepted
  <1>4. proposal[p] # None /\ proposal'[p] = proposal[p]
    BY <1>3, Parts, ProposalsStand DEF ReadingsStand
  <1>5. txn'[p] = txn[p]
    BY TransactionMoves, Parts DEF TypeOK
  <1>6. auths'[p][i] = auths[p][i] /\ decisions'[p][j] = decisions[p][j]
    BY <1>1, <1>3, AuthsStand, DecisionsStand
  <1> QED
    BY <1>1, <1>3, <1>4, <1>5, <1>6

(* A decision of the policy as it will stand is of the policy as it stands.*)
LEMMA CurrentBefore ==
  ASSUME Known, [Next]_vars, raced' = {}, NEW p \in Proposals, NEW i \in Places,
         decisions[p][i] \notin {Held, None}, decisions'[p][i] = decisions[p][i],
         CurrentFor(decisions[p][i])'
  PROVE  PolicyReads /\ CurrentFor(decisions[p][i])
  <1> DEFINE d == decisions[p][i]
             f == Finding(d, Answer(d))
             x == d.policy
  <1>1. f \in Findings /\ f.policy = x /\ f.version = d.version
    BY CommittedFinding DEF Finding
  <1>2. raced = {} /\ RowsRise
    BY PolicyKnown DEF RowsRise
  <1>3. x \in Stored /\ d.version <= policy[x].version /\ d.version \in Nat
    BY <1>1, <1>2, FollowsTyped, Parts DEF VersionsName, Follows
  <1>4. /\ x \in Stored' /\ d.version = policy'[x].version
        /\ \A j \in Stored' : policy'[j].version <= policy'[x].version
    BY DEF CurrentFor, DecidedUnder, InForce
  <1>5. \A j \in Stored : /\ j \in Stored'
                          /\ policy[j].version \in Nat /\ policy'[j].version \in Nat
                          /\ policy[j].version <= policy'[j].version
    <2>1. ASSUME NEW j \in Stored
          PROVE  j \in Stored' /\ (policy'[j] = policy[j] \/ policy'[j].version > policy[j].version)
      BY <1>2 DEF RowsRise
    <2>2. ASSUME NEW j \in Stored
          PROVE  policy[j] \in Policy /\ policy'[j] \in Policy
      BY <2>1, PolicyKnown, Parts DEF PolicyTypeOK, Stored
    <2> QED
      BY <2>1, <2>2 DEF Policy
  <1> HIDE DEF d, f, x
  <1>6. policy[x].version = d.version /\ \A j \in Stored : policy[j].version <= policy[x].version
    BY <1>3, <1>4, <1>5
  <1>7. x \in InForce /\ DecidedUnder(d, x, policy[x].version)
    BY <1>3, <1>6 DEF InForce, DecidedUnder, x
  <1>8. WellFormed(policy[x])
    BY <1>2, <1>3, Parts DEF VersionsName
  <1> QED
    BY <1>7, <1>8 DEF PolicyReads, CurrentFor, d

(* A transaction whose gates lapsed stays refused, however policy, product *)
(* and clock move and calls overlap, until an update or an approval writes *)
(* over another.                                                           *)
THEOREM LapsesHold == Spec => GatesNeverReturn
  <1>1. ASSUME Known, [Next]_vars, NEW p \in Proposals, txn[p] # None, raced' = {},
               [on |-> p, place |-> txn[p].auth] \notin overwritten', Revalidates(p)'
        PROVE  Revalidates(p)
    <2> DEFINE i == txn[p].auth
               j == txn[p].decision
    <2>1. /\ txn'[p] = txn[p] /\ proposal[p] # None /\ proposal'[p] = proposal[p]
          /\ auths'[p][i] = auths[p][i]
          /\ decisions[p][j] \notin {Held, None} /\ decisions'[p][j] = decisions[p][j]
          /\ j \in Places
      BY <1>1, NamedStand
    <2>2. /\ now \in Nat /\ now' \in Nat /\ now <= now'
          /\ product' = product \/ product'.version > product.version
          /\ product.version \in Nat /\ product'.version \in Nat
      BY <1>1, WorldMoves, Parts, Sizes DEF TypeOK
    <2>3. /\ proposal[p] \in [version : 1..MaxProductVersion, expires : Times]
          /\ auths[p][i] \in Authorization /\ decisions[p][j] \in Decision
      BY <1>1, <2>1, Parts DEF TypeOK, Rows, TransactionsAreGated, Covered
    <2>4. /\ proposal[p].version \in Nat /\ proposal[p].expires \in Nat
          /\ auths[p][i].expires \in Nat /\ decisions[p][j].expires \in Nat
      <3>1. /\ proposal[p].version \in 1..MaxProductVersion /\ proposal[p].expires \in Times
            /\ auths[p][i].expires \in Times /\ decisions[p][j].expires \in Times
        BY <2>3 DEF Authorization, Decision
      <3> QED
        BY <3>1, Numbers, Sizes DEF Times
    <2>5. Active(p)
      BY <1>1, <2>1, <2>2, <2>4 DEF Revalidates, Active
    <2>6. Authorizes(auths[p][i], now)
      BY <1>1, <2>1, <2>2, <2>4 DEF Revalidates, Authorizes
    <2>7. Accepts(decisions[p][j], now)
      BY <1>1, <2>1, <2>2, <2>4 DEF Revalidates, Accepts, Allows
    <2>8. CurrentFor(decisions[p][j])'
      BY <1>1, <2>1 DEF Revalidates, CurrentFor, DecidedUnder
    <2>9. PolicyReads /\ CurrentFor(decisions[p][j])
      BY <1>1, <2>1, <2>8, CurrentBefore
    <2>10. ProductIsCurrent(p)
      <3>1. product'.version = proposal[p].version /\ product'.sellable
        BY <1>1, <2>1 DEF Revalidates, ProductIsCurrent
      <3>2. proposal[p].version <= product.version
        BY <1>1, <2>1, Parts DEF ReadingsStand
      <3> QED
        BY <2>2, <2>4, <3>1, <3>2 DEF ProductIsCurrent
    <2> QED
      BY <2>5, <2>6, <2>7, <2>9, <2>10 DEF Revalidates
  <1>2. ASSUME Known, [Next]_vars
        PROVE  [\A p \in Proposals :
                  (/\ txn[p] # None /\ ~Revalidates(p)
                   /\ raced' = {} /\ [on |-> p, place |-> txn[p].auth] \notin overwritten')
                    => ~Revalidates(p)']_vars
    BY <1>1, <1>2
  <1> QED
    BY <1>2, KnownHolds, PTL DEF Spec, GatesNeverReturn
==============================================================================
