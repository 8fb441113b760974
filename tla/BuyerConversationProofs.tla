----------------------- MODULE BuyerConversationProofs ------------------------
(***************************************************************************)
(* What buyers are told stands, and no request passes the human's stage,   *)
(* for every number of requests, proposals, keys, turns, calls and         *)
(* connections.                                                            *)
(***************************************************************************)
EXTENDS BuyerConversation, TLAPS

(* What requests and rows are made of, apart from the types.               *)
Orderly ==
    /\ \A r \in Requests : request[r] # None => InOrder(request[r])
    /\ WritesAreNew
    /\ StagesInOrder
    /\ ToldIsStored

------------------------------------------------------------------------------
(* Types.                                                                  *)

RequestsTyped == request \in [Requests -> Request \cup {None}]

(* A step of one request leaves the others alone.                          *)
Alone(r) == \A s \in Requests \ {r} : request'[s] = request[s]

(* Steps that change no row, and leave what a request holds or end it.     *)
Keeps(r) ==
    /\ request'[r] # None
    /\ request[r] # None
    /\ request'[r].writes = request[r].writes
    /\ request'[r].handoff = request[r].handoff
    /\ request'[r].key = request[r].key

LEMMA EndTyped ==
  ASSUME RequestsTyped, NEW r \in Requests, End(r)
  PROVE  RequestsTyped' /\ Alone(r) /\ request'[r] = None
  BY DEF End, RequestsTyped, Alone

LEMMA OpenTyped ==
  ASSUME RequestsTyped, NEW r \in Requests, Open(r), ConversationAssumption
  PROVE  RequestsTyped' /\ Alone(r) /\ request'[r] # None /\ request'[r].writes = {}
         /\ ~request'[r].handoff /\ request'[r].phase \in {"model", "tools"}
  <1>1. \A via \in {"chat", "http", "mcp"}, key \in Keys \cup {Derived, None} :
          /\ NewRequest(via, key) \in Request
          /\ NewRequest(via, key).writes = {} /\ ~NewRequest(via, key).handoff
          /\ NewRequest(via, key).phase \in {"model", "tools"}
    BY DEF NewRequest, Request, Phases, ConversationAssumption
  <1> QED
    BY <1>1 DEF Open, RequestsTyped, Alone, ConversationAssumption

LEMMA GenerateTyped ==
  ASSUME RequestsTyped, NEW r \in Requests, Generate(r), ConversationAssumption
  PROVE  RequestsTyped' /\ Alone(r) /\ Keeps(r)
         /\ request'[r].phase \in {"closing", "tools"}
         /\ request'[r].tool = request[r].tool /\ request'[r].on = request[r].on
  BY DEF Generate, Leave, At, WithinSteps, RequestsTyped, Alone, Keeps, Request, Phases,
         ConversationAssumption

LEMMA ChooseTyped ==
  ASSUME RequestsTyped, NEW r \in Requests, Choose(r), ConversationAssumption
  PROVE  RequestsTyped' /\ Alone(r) /\ Keeps(r) /\ ~request[r].handoff
         /\ request'[r].phase = "call"
         /\ (request'[r].tool \in {"authorize", "execute"} => request'[r].on \in Proposals)
  BY DEF Choose, At, NotHandedOver, RequestsTyped, Alone, Keeps, Request, Phases, Tools, Handoffs,
         ConversationAssumption

LEMMA EndResponseTyped ==
  ASSUME RequestsTyped, NEW r \in Requests, EndResponse(r), ConversationAssumption
  PROVE  RequestsTyped' /\ Alone(r) /\ Keeps(r)
         /\ request'[r].phase \in {"closing", "model"}
         /\ (request'[r].phase = "model" => ~request[r].handoff)
         /\ request'[r].tool = request[r].tool /\ request'[r].on = request[r].on
  BY DEF EndResponse, At, Goto, Leave, NotHandedOver, RequestsTyped, Alone, Keeps, Request, Phases,
         ConversationAssumption

LEMMA ContinueTyped ==
  ASSUME RequestsTyped, NEW r \in Requests, NEW b \in BOOLEAN, request[r] # None, Continue(r, b),
         ConversationAssumption
  PROVE  RequestsTyped' /\ Alone(r) /\ Keeps(r) /\ request'[r].phase = "tools"
  <1> DEFINE q == [request[r] EXCEPT !.phase = "tools", !.tool = None, !.on = None, !.session = b]
  <1>1. request[r] \in Request
    BY DEF RequestsTyped
  <1>2. /\ q \in Request /\ q.phase = "tools" /\ q.writes = request[r].writes
        /\ q.handoff = request[r].handoff /\ q.key = request[r].key
    BY <1>1 DEF Request, Phases
  <1>3. request' = [request EXCEPT ![r] = q]
    BY DEF Continue, RequestsTyped
  <1> HIDE DEF q
  <1> QED
    BY <1>1, <1>2, <1>3 DEF RequestsTyped, Alone, Keeps, ConversationAssumption

LEMMA HandOverTyped ==
  ASSUME RequestsTyped, NEW r \in Requests, NEW p \in Proposals, request[r] # None,
         NEW w \in SUBSET (Handoffs \X Proposals), HandOver(r, p, w), ConversationAssumption
  PROVE  RequestsTyped' /\ Alone(r) /\ request'[r] # None
         /\ request'[r].phase = "tools" /\ request'[r].handoff
         /\ request'[r].tool = request[r].tool /\ request'[r].on = p
         /\ request'[r].key = request[r].key
         /\ request'[r].writes = request[r].writes \cup w
  <1> DEFINE q == [request[r] EXCEPT !.phase = "tools", !.on = p, !.handoff = TRUE,
                                     !.session = TRUE, !.writes = @ \cup w]
  <1>1. request[r] \in Request
    BY DEF RequestsTyped
  <1>2. /\ q \in Request /\ q.phase = "tools" /\ q.handoff
        /\ q.tool = request[r].tool /\ q.on = p /\ q.key = request[r].key
        /\ q.writes = request[r].writes \cup w
    BY <1>1 DEF Request, Phases
  <1>3. request' = [request EXCEPT ![r] = q]
    BY DEF HandOver, RequestsTyped
  <1> HIDE DEF q
  <1> QED
    BY <1>1, <1>2, <1>3 DEF RequestsTyped, Alone, ConversationAssumption

LEMMA PrepareTyped ==
  ASSUME RequestsTyped, NEW r \in Requests, Prepare(r), ConversationAssumption
  PROVE  RequestsTyped' /\ Alone(r) /\ request'[r] # None
         /\ request'[r].phase = "start" /\ request'[r].handoff = request[r].handoff
         /\ request'[r].tool = request[r].tool /\ request'[r].on = request[r].on
         /\ request'[r].writes = {}
  <1> DEFINE q == [request[r] EXCEPT !.phase = "start", !.session = FALSE, !.writes = {}]
  <1>1. request[r] \in Request
    BY DEF RequestsTyped, Prepare, Calls, At
  <1>2. /\ q \in Request /\ q.phase = "start" /\ q.handoff = request[r].handoff
        /\ q.tool = request[r].tool /\ q.on = request[r].on
        /\ q.writes = {}
    BY <1>1 DEF Request, Phases
  <1>3. request' = [request EXCEPT ![r] = q]
    BY DEF Prepare, RequestsTyped
  <1> HIDE DEF q
  <1> QED
    BY <1>1, <1>2, <1>3 DEF RequestsTyped, Alone, ConversationAssumption

LEMMA StartTyped ==
  ASSUME RequestsTyped, NEW r \in Requests, Start(r), ConversationAssumption
  PROVE  RequestsTyped' /\ Alone(r)
         /\ \/ request'[r] = None
            \/ /\ request'[r] # None /\ request'[r].phase = "tools" /\ request'[r].handoff
               /\ request'[r].tool = request[r].tool /\ request'[r].on = request[r].on
               /\ request'[r].key = request[r].key /\ request'[r].writes = request[r].writes
  BY DEF Start, At, End, RequestsTyped, Alone, Request, Phases, ConversationAssumption

LEMMA CommitTyped ==
  ASSUME RequestsTyped, NEW r \in Requests, Commit(r), ConversationAssumption
  PROVE  RequestsTyped' /\ Alone(r)
         /\ \/ request'[r] = None
            \/ /\ request'[r] # None /\ request'[r].phase = "committed"
               /\ request'[r].handoff = request[r].handoff
               /\ request'[r].tool = request[r].tool /\ request'[r].on = request[r].on
               /\ request'[r].key = request[r].key /\ request'[r].writes = {}
               /\ request[r].phase = "closing" 
  BY DEF Commit, MayCommit, At, End, RequestsTyped, Alone, Request, Phases, ConversationAssumption

LEMMA AnswerTyped ==
  ASSUME RequestsTyped, NEW r \in Requests, Answer(r), ConversationAssumption
  PROVE  RequestsTyped' /\ Alone(r)
         /\ \/ request'[r] = None
            \/ /\ Keeps(r) /\ request'[r].phase = "answered"
               /\ request'[r].tool = request[r].tool /\ request'[r].on = request[r].on
  BY DEF Answer, At, End, Goto, Keeps, RequestsTyped, Alone, Request, Phases,
         ConversationAssumption

(* Rows keep their types when a commit stores what it may.                 *)
LEMMA StoreTyped ==
  ASSUME NEW r \in Requests, request[r] \in Request, TypeOK, Store(r, request[r].writes)
  PROVE  /\ proposal' \in [Proposals -> Keys \cup {Derived, None}]
         /\ auth' \in [Proposals -> {"none", "requested", "approved"}]
         /\ current' = current
  BY DEF Store, TypeOK, Request

LEMMA InitTyped == ConversationAssumption /\ Init => TypeOK
  BY DEF ConversationAssumption, Init, TypeOK

(* Every step keeps every type.                                            *)
LEMMA StepTyped ==
  ASSUME ConversationAssumption, TypeOK, Orderly, [Next]_vars
  PROVE  TypeOK'
  <1>0. RequestsTyped
    BY DEF TypeOK, RequestsTyped
  <1>a. ASSUME UNCHANGED <<rows, served, told>>, RequestsTyped'
        PROVE  TypeOK'
    BY <1>a DEF TypeOK, RequestsTyped, rows
  <1>1. ASSUME NEW r \in Requests, Open(r)
        PROVE  TypeOK'
    BY <1>0, <1>1, OpenTyped DEF Open, rows, TypeOK, RequestsTyped, ConversationAssumption
  <1>2. ASSUME NEW r \in Requests, Dies(r)
        PROVE  TypeOK'
    BY <1>0, <1>2, EndTyped DEF Dies, rows, TypeOK, RequestsTyped
  <1>3. ASSUME NEW r \in Requests, Serve(r)
        PROVE  TypeOK'
    <2>1. CASE Generate(r)
      BY <1>0, <1>a, <2>1, GenerateTyped DEF Generate
    <2>2. CASE Choose(r)
      BY <1>0, <1>a, <2>2, ChooseTyped DEF Choose
    <2>3. CASE EndResponse(r)
      BY <1>0, <1>a, <2>3, EndResponseTyped DEF EndResponse
    <2>4. CASE ReportInvalid(r) \/ Search(r) \/ Status(r)
      <3>1. PICK b \in BOOLEAN : Continue(r, b)
        BY <1>0, <2>4 DEF ReportInvalid, Search, Status, Invalid, Calls, At, RequestsTyped, Request
      <3>2. request[r] # None
        BY <2>4 DEF ReportInvalid, Search, Status, Invalid, Calls, At
      <3> QED
        BY <1>0, <1>a, <2>4, <3>1, <3>2, ContinueTyped DEF ReportInvalid, Search, Status
    <2>5. CASE Propose(r)
      <3>1. PICK p \in Proposals : HandOver(r, p, {<<"propose", p>>})
        BY <2>5 DEF Propose
      <3> QED
        BY <1>0, <1>a, <2>5, <3>1, HandOverTyped
        DEF Propose, Calls, At, Handoffs
    <2>6. CASE Authorize(r)
      <3>1. request[r].on \in Proposals
        BY <1>0, <2>6 DEF Authorize, Calls, At, Orderly, InOrder
      <3> QED
        BY <1>0, <1>a, <2>6, <3>1, HandOverTyped
        DEF Authorize, Calls, At, Handoffs
    <2>7. CASE Prepare(r)
      <3>1. RequestsTyped' /\ request[r] \in Request
        BY <1>0, <2>7, PrepareTyped DEF Prepare, Calls, At, RequestsTyped
      <3>2. Store(r, request[r].writes) /\ UNCHANGED <<served, told>>
        BY <2>7 DEF Prepare
      <3>3. txn' \in [Proposals -> {"none", "ready", "started"}]
        BY <2>7 DEF Prepare, TypeOK
      <3> QED
        BY <3>1, <3>2, <3>3, StoreTyped DEF TypeOK, RequestsTyped
    <2>8. CASE Start(r)
      BY <1>0, <2>8, StartTyped DEF Start, TypeOK, RequestsTyped
    <2>9. CASE Refuse(r)
      BY <1>0, <1>a, <2>9, EndTyped DEF Refuse
    <2>10. CASE Commit(r)
      <3>1. RequestsTyped' /\ request[r] \in Request
        BY <1>0, <2>10, CommitTyped DEF Commit, RequestsTyped
      <3>2. Store(r, request[r].writes) /\ UNCHANGED <<txn, served, told>>
        BY <2>10 DEF Commit
      <3> QED
        BY <3>1, <3>2, StoreTyped DEF TypeOK, RequestsTyped
    <2>11. CASE Answer(r)
      BY <1>0, <2>11, AnswerTyped DEF Answer, rows, TypeOK, RequestsTyped
    <2> QED
      BY <1>3, <2>1, <2>2, <2>3, <2>4, <2>5, <2>6, <2>7, <2>8, <2>9, <2>10, <2>11 DEF Serve
  <1>4. ASSUME NEW p \in Proposals, Approve(p) \/ Accept(p) \/ Lapse(p)
        PROVE  TypeOK'
    BY <1>4 DEF Approve, Accept, Lapse, TypeOK
  <1>5. CASE UNCHANGED vars
    BY <1>5 DEF vars, rows, TypeOK
  <1> QED
    BY <1>1, <1>2, <1>3, <1>4, <1>5 DEF Next

------------------------------------------------------------------------------
(* What a step keeps in order.                                             *)

(* What is stored stays stored.                                            *)
Advances ==
    \A p \in Proposals :
        /\ proposal[p] # None => proposal'[p] # None
        /\ auth[p] # "none" => auth'[p] # "none"
        /\ txn[p] # "none" => txn'[p] # "none"
        /\ txn[p] = "started" => txn'[p] = "started"

LEMMA QuietAdvances == UNCHANGED rows => Advances
  BY DEF rows, Advances

(* The requests a step leaves alone stay in order.                         *)
LEMMA OthersInOrder ==
  ASSUME Orderly, NEW r \in Requests, Alone(r), Advances
  PROVE  \A s \in Requests \ {r} : request'[s] # None => InOrder(request[s])'
  <1> SUFFICES ASSUME NEW s \in Requests \ {r}, request'[s] # None
               PROVE  InOrder(request[s])'
    OBVIOUS
  <1>1. request'[s] = request[s] /\ InOrder(request[s])
    BY DEF Alone, Orderly
  <1> QED
    BY <1>1 DEF InOrder, Stored, Advances

LEMMA ToldStands ==
  ASSUME Orderly, Advances, UNCHANGED told
  PROVE  ToldIsStored'
  BY DEF Orderly, ToldIsStored, Stored, Advances

(* A step of one request that only stores rows of its own, and takes new   *)
(* ones nobody has.                                                        *)
LEMMA OrderlyStep ==
  ASSUME Orderly, NEW r \in Requests, Alone(r), Advances,
         request'[r] # None => InOrder(request[r])',
         \A p \in Proposals : proposal[p] = None /\ proposal'[p] # None =>
            request[r] # None /\ <<"propose", p>> \in request[r].writes,
         request'[r] # None => \A p \in Proposals :
            /\ <<"propose", p>> \in request'[r].writes =>
                 /\ proposal'[p] = None
                 /\ \A s \in Requests \ {r} :
                      request[s] # None => <<"propose", p>> \notin request[s].writes
            /\ <<"authorize", p>> \in request'[r].writes => proposal'[p] # None,
         StagesInOrder', ToldIsStored'
  PROVE  Orderly'
  <1>1. \A s \in Requests : request'[s] # None => InOrder(request[s])'
    BY OthersInOrder
  <1>2. WritesAreNew'
    <2> SUFFICES ASSUME NEW s \in Requests, request'[s] # None, NEW p \in Proposals
                 PROVE  /\ <<"propose", p>> \in request'[s].writes =>
                             /\ proposal'[p] = None
                             /\ \A u \in Requests \ {s} :
                                  request'[u] # None => <<"propose", p>> \notin request'[u].writes
                        /\ <<"authorize", p>> \in request'[s].writes => proposal'[p] # None
      BY DEF WritesAreNew
    <2>1. CASE s = r
      BY <2>1 DEF Alone
    <2>2. CASE s # r
      <3>1. /\ request'[s] = request[s]
            /\ <<"propose", p>> \in request[s].writes =>
                  /\ proposal[p] = None
                  /\ \A u \in Requests \ {s} :
                       request[u] # None => <<"propose", p>> \notin request[u].writes
            /\ <<"authorize", p>> \in request[s].writes => proposal[p] # None
        BY <2>2 DEF Alone, Orderly, WritesAreNew
      <3>2. \A u \in Requests \ {r} : request'[u] = request[u]
        BY DEF Alone
      <3> QED
        BY <2>2, <3>1, <3>2 DEF Advances
    <2> QED
      BY <2>1, <2>2
  <1> QED
    BY <1>1, <1>2 DEF Orderly

(* A step that stores nothing and takes nothing.                           *)
LEMMA QuietStep ==
  ASSUME Orderly, NEW r \in Requests, Alone(r), UNCHANGED <<rows, told>>,
         request'[r] # None => InOrder(request[r])' /\ (request'[r].writes = {} \/ Keeps(r))
  PROVE  Orderly'
  <1>1. Advances /\ proposal' = proposal
    BY QuietAdvances DEF rows
  <1>2. StagesInOrder' /\ ToldIsStored'
    BY ToldStands, <1>1 DEF Orderly, StagesInOrder, rows
  <1>3. request'[r] # None => \A p \in Proposals :
            /\ <<"propose", p>> \in request'[r].writes =>
                 /\ proposal'[p] = None
                 /\ \A s \in Requests \ {r} :
                      request[s] # None => <<"propose", p>> \notin request[s].writes
            /\ <<"authorize", p>> \in request'[r].writes => proposal'[p] # None
    BY <1>1 DEF Keeps, Orderly, WritesAreNew
  <1> QED
    BY <1>1, <1>2, <1>3, OrderlyStep

(* A request that goes on as it was, or works on without a handoff.        *)
LEMMA KeepsInOrder ==
  ASSUME Orderly, NEW r \in Requests, UNCHANGED rows, Keeps(r),
         request'[r].phase \notin {"committed", "start"},
         request'[r].phase \in {"model", "call"} => ~request[r].handoff,
         request[r].handoff => request'[r].tool = request[r].tool /\ request'[r].on = request[r].on,
         request'[r].phase = "call" /\ request'[r].tool \in {"authorize", "execute"} =>
            request'[r].on \in Proposals
  PROVE  InOrder(request[r])'
  <1>1. InOrder(request[r])
    BY DEF Orderly, Keeps
  <1> QED
    BY <1>1 DEF Keeps, InOrder, Stored, rows

------------------------------------------------------------------------------
(* The actions, one by one.                                                *)

LEMMA Ends ==
  ASSUME Orderly, RequestsTyped, NEW r \in Requests, End(r), UNCHANGED <<rows, told>>
  PROVE  Orderly'
  BY EndTyped, QuietStep

LEMMA OpenOrderly ==
  ASSUME Orderly, RequestsTyped, ConversationAssumption, NEW r \in Requests, Open(r)
  PROVE  Orderly'
  <1>1. /\ Alone(r) /\ request'[r] # None /\ request'[r].writes = {}
        /\ ~request'[r].handoff /\ request'[r].phase \in {"model", "tools"}
    BY OpenTyped
  <1>2. InOrder(request[r])'
    BY <1>1 DEF InOrder
  <1>3. UNCHANGED <<rows, told>>
    BY DEF Open
  <1> QED
    BY <1>1, <1>2, <1>3, QuietStep

LEMMA QuietOrderly ==
  ASSUME Orderly, RequestsTyped, ConversationAssumption, NEW r \in Requests,
         \/ Generate(r) \/ Choose(r) \/ EndResponse(r)
         \/ ReportInvalid(r) \/ Search(r) \/ Status(r)
  PROVE  Orderly'
  <1>1. UNCHANGED <<rows, told>>
    BY DEF Generate, Choose, EndResponse, ReportInvalid, Search, Status
  <1>2. CASE Generate(r)
    BY <1>1, <1>2, GenerateTyped, KeepsInOrder, QuietStep
  <1>3. CASE Choose(r)
    BY <1>1, <1>3, ChooseTyped, KeepsInOrder, QuietStep
  <1>4. CASE EndResponse(r)
    BY <1>1, <1>4, EndResponseTyped, KeepsInOrder, QuietStep
  <1>5. CASE ReportInvalid(r) \/ Search(r) \/ Status(r)
    <2>1. request[r] # None /\ request[r].phase = "call"
      BY <1>5 DEF ReportInvalid, Search, Status, Invalid, Calls, At
    <2>2. PICK b \in BOOLEAN : Continue(r, b)
      BY <1>5, <2>1 DEF ReportInvalid, Search, Status, RequestsTyped, Request
    <2>3. ~request[r].handoff
      BY <2>1 DEF Orderly, InOrder
    <2> QED
      BY <1>1, <2>1, <2>2, <2>3, ContinueTyped, KeepsInOrder, QuietStep
  <1> QED
    BY <1>2, <1>3, <1>4, <1>5

LEMMA ProposeOrderly ==
  ASSUME Orderly, RequestsTyped, ConversationAssumption, NEW r \in Requests, Propose(r)
  PROVE  Orderly'
  <1>1. PICK p \in Proposals \ Taken : HandOver(r, p, {<<"propose", p>>})
    BY DEF Propose
  <1>2. /\ request[r] # None /\ request[r].phase = "call" /\ request[r].tool = "propose"
        /\ request[r].key # None /\ UNCHANGED <<rows, told>>
    BY DEF Propose, Calls, At, Invalid, Handoffs
  <1>3. InOrder(request[r]) /\ ~request[r].handoff /\ request[r].writes = {}
    BY <1>2 DEF Orderly, InOrder
  <1>4. /\ Alone(r) /\ request'[r] # None
        /\ request'[r].phase = "tools" /\ request'[r].handoff
        /\ request'[r].tool = "propose" /\ request'[r].on = p
        /\ request'[r].key = request[r].key
        /\ request'[r].writes = {<<"propose", p>>}
    <2>1. {<<"propose", p>>} \in SUBSET (Handoffs \X Proposals)
      BY DEF Handoffs
    <2> QED
      BY <1>1, <1>2, <1>3, <2>1, HandOverTyped
  <1>5. InOrder(request[r])'
    BY <1>2, <1>4 DEF InOrder, Handoffs
  <1>6. /\ proposal[p] = None
        /\ \A s \in Requests : request[s] # None => <<"propose", p>> \notin request[s].writes
    BY <1>1 DEF Taken, Unsaved
  <1>7. Advances /\ proposal' = proposal
    BY <1>2, QuietAdvances DEF rows
  <1>8. StagesInOrder' /\ ToldIsStored'
    BY <1>2, <1>7, ToldStands DEF Orderly, StagesInOrder, rows
  <1>9. \A q \in Proposals :
            /\ <<"propose", q>> \in request'[r].writes =>
                 /\ proposal'[q] = None
                 /\ \A s \in Requests \ {r} :
                      request[s] # None => <<"propose", q>> \notin request[s].writes
            /\ <<"authorize", q>> \in request'[r].writes => proposal'[q] # None
    BY <1>4, <1>6, <1>7
  <1> QED
    BY <1>4, <1>5, <1>7, <1>8, <1>9, OrderlyStep

LEMMA AuthorizeOrderly ==
  ASSUME Orderly, RequestsTyped, ConversationAssumption, NEW r \in Requests, Authorize(r)
  PROVE  Orderly'
  <1>0. /\ request[r] # None /\ request[r].phase = "call" /\ request[r].tool = "authorize"
        /\ request[r].key # None /\ UNCHANGED <<rows, told>>
    BY DEF Authorize, Calls, At, Invalid, Handoffs
  <1>2. /\ InOrder(request[r]) /\ ~request[r].handoff /\ request[r].writes = {}
        /\ request[r].on \in Proposals
    BY <1>0 DEF Orderly, InOrder
  <1>1. PICK p \in Proposals, w \in SUBSET (Handoffs \X Proposals) :
          /\ p = request[r].on /\ w = IF auth[p] = "none" THEN {<<"authorize", p>>} ELSE {}
          /\ proposal[p] # None /\ HandOver(r, p, w)
    BY <1>2 DEF Authorize, Handoffs
  <1>3. /\ Alone(r) /\ request'[r] # None
        /\ request'[r].phase = "tools" /\ request'[r].handoff
        /\ request'[r].tool = "authorize" /\ request'[r].on = p
        /\ request'[r].key = request[r].key
        /\ request'[r].writes = w
    <2>1. HandOver(r, p, w) /\ request[r].writes \cup w = w
      BY <1>1, <1>2
    <2>2. /\ Alone(r) /\ request'[r] # None
          /\ request'[r].phase = "tools" /\ request'[r].handoff
          /\ request'[r].tool = request[r].tool /\ request'[r].on = p
          /\ request'[r].key = request[r].key
          /\ request'[r].writes = request[r].writes \cup w
      BY <1>0, <2>1, HandOverTyped
    <2> QED
      BY <1>0, <2>1, <2>2
  <1>4. InOrder(request[r])'
    BY <1>0, <1>1, <1>2, <1>3 DEF InOrder, Handoffs, Stored, rows
  <1>5. Advances /\ proposal' = proposal
    BY <1>0, <1>1, QuietAdvances DEF rows
  <1>6. StagesInOrder' /\ ToldIsStored'
    BY <1>0, <1>1, <1>5, ToldStands DEF Orderly, StagesInOrder, rows
  <1>7. \A q \in Proposals :
            /\ <<"propose", q>> \notin request'[r].writes
            /\ <<"authorize", q>> \in request'[r].writes => proposal'[q] # None
    BY <1>0, <1>1, <1>3, <1>5
  <1> QED
    BY <1>3, <1>4, <1>5, <1>6, <1>7, OrderlyStep

LEMMA PrepareOrderly ==
  ASSUME Orderly, TypeOK, RequestsTyped, ConversationAssumption, NEW r \in Requests, Prepare(r)
  PROVE  Orderly'
  <1> DEFINE p == request[r].on
  <1>1. /\ request[r] # None /\ request[r].phase = "call" /\ request[r].tool = "execute"
        /\ UNCHANGED told /\ proposal[p] # None /\ (txn[p] # "none" \/ Gated(p))
        /\ txn' = [txn EXCEPT ![p] = IF @ = "none" THEN "ready" ELSE @]
        /\ Store(r, request[r].writes)
    BY DEF Prepare, Calls, At
  <1>2. /\ InOrder(request[r]) /\ ~request[r].handoff /\ request[r].writes = {}
        /\ p \in Proposals
    BY <1>1 DEF Orderly, InOrder
  <1>3. \A q \in Proposals : proposal'[q] = proposal[q] /\ auth'[q] = auth[q]
    BY <1>1, <1>2 DEF Store
  <1>4. /\ \A q \in Proposals : q # p => txn'[q] = txn[q]
        /\ txn'[p] = IF txn[p] = "none" THEN "ready" ELSE txn[p]
    BY <1>1, <1>2 DEF TypeOK
  <1>5. Advances
    BY <1>3, <1>4 DEF Advances
  <1>6. /\ Alone(r) /\ request'[r] # None
        /\ request'[r].phase = "start" /\ ~request'[r].handoff
        /\ request'[r].tool = "execute" /\ request'[r].on = p /\ request'[r].writes = {}
    BY <1>1, <1>2, PrepareTyped
  <1>7. InOrder(request[r])'
    BY <1>2, <1>4, <1>6 DEF InOrder
  <1>8. StagesInOrder' /\ ToldIsStored'
    BY <1>1, <1>3, <1>4, <1>5, ToldStands DEF Orderly, StagesInOrder, Gated
  <1> QED
    BY <1>3, <1>5, <1>6, <1>7, <1>8, OrderlyStep

LEMMA StartOrderly ==
  ASSUME Orderly, TypeOK, RequestsTyped, ConversationAssumption, NEW r \in Requests, Start(r)
  PROVE  Orderly'
  <1> DEFINE p == request[r].on
  <1>1. /\ request[r] # None /\ request[r].phase = "start"
        /\ txn' = [txn EXCEPT ![p] = "started"]
        /\ UNCHANGED <<proposal, auth, told>>
    BY DEF Start, At
  <1>2. /\ InOrder(request[r]) /\ ~request[r].handoff /\ request[r].writes = {}
        /\ p \in Proposals /\ request[r].tool = "execute" /\ txn[p] # "none"
    BY <1>1 DEF Orderly, InOrder
  <1>3. txn'[p] = "started" /\ \A q \in Proposals : q # p => txn'[q] = txn[q]
    BY <1>1, <1>2 DEF TypeOK
  <1>4. Advances
    BY <1>1, <1>3 DEF Advances
  <1>5. /\ Alone(r)
        /\ \/ request'[r] = None
           \/ /\ request'[r] # None /\ request'[r].phase = "tools" /\ request'[r].handoff
              /\ request'[r].tool = "execute" /\ request'[r].on = p
              /\ request'[r].writes = {}
    BY <1>2, StartTyped
  <1>6. request'[r] # None => InOrder(request[r])'
    BY <1>2, <1>3, <1>5 DEF InOrder, Stored, Handoffs
  <1>7. StagesInOrder' /\ ToldIsStored'
    BY <1>1, <1>2, <1>3, <1>4, ToldStands DEF Orderly, StagesInOrder
  <1> QED
    BY <1>1, <1>4, <1>5, <1>6, <1>7, OrderlyStep

LEMMA CommitOrderly ==
  ASSUME Orderly, TypeOK, RequestsTyped, ConversationAssumption, NEW r \in Requests, Commit(r)
  PROVE  Orderly'
  <1> DEFINE w == request[r].writes
  <1>1. request[r] # None /\ Store(r, w) /\ UNCHANGED <<txn, told>>
    BY DEF Commit
  <1>2. InOrder(request[r])
    BY <1>1 DEF Orderly
  <1>3. \A q \in Proposals :
          /\ proposal'[q] = IF <<"propose", q>> \in w THEN request[r].key ELSE proposal[q]
          /\ auth[q] # "none" => auth'[q] # "none"
          /\ <<"authorize", q>> \in w => auth'[q] # "none"
          /\ <<"authorize", q>> \notin w => auth'[q] = auth[q]
    BY <1>1 DEF Store
  <1>4. w # {} => request[r].key # None
    BY <1>2 DEF InOrder
  <1>5. Advances
    BY <1>1, <1>3, <1>4 DEF Advances
  <1>6. /\ Alone(r)
        /\ \/ request'[r] = None
           \/ /\ request'[r] # None /\ request'[r].phase = "committed"
              /\ request'[r].handoff = request[r].handoff
              /\ request'[r].tool = request[r].tool /\ request'[r].on = request[r].on
              /\ request'[r].key = request[r].key /\ request'[r].writes = {}
    BY CommitTyped
  <1>7. ASSUME request'[r] # None
        PROVE  InOrder(request[r])'
    <2>1. ASSUME request[r].handoff
          PROVE  Stored(request[r].tool, request[r].on)'
      <3> DEFINE tool == request[r].tool
      <3> DEFINE p == request[r].on
      <3>1. /\ tool \in Handoffs /\ p \in Proposals /\ (w # {} \/ Stored(tool, p))
            /\ w \subseteq {<<tool, p>>} /\ (w # {} => tool # "execute")
        BY <1>2, <2>1 DEF InOrder
      <3>2. w # {} => <<tool, p>> \in w /\ tool \in {"propose", "authorize"}
        BY <3>1 DEF Handoffs
      <3>3. w # {} => (\/ tool = "propose" /\ proposal'[p] # None
                       \/ tool = "authorize" /\ auth'[p] # "none")
        BY <1>3, <1>4, <3>1, <3>2
      <3>4. w = {} => (\/ tool = "propose" /\ proposal'[p] # None
                       \/ tool = "authorize" /\ auth'[p] # "none"
                       \/ tool = "execute" /\ txn'[p] = "started")
        BY <1>5, <3>1 DEF Stored, Advances
      <3>5. request'[r].tool = tool /\ request'[r].on = p
        BY <1>6, <1>7
      <3> QED
        BY <3>3, <3>4, <3>5 DEF Stored
    <2> QED
      BY <1>2, <1>6, <1>7, <2>1 DEF InOrder
  <1>8. \A q \in Proposals :
          /\ proposal[q] = None /\ proposal'[q] # None => <<"propose", q>> \in w
          /\ <<"authorize", q>> \in w => proposal[q] # None
    BY <1>1, <1>3 DEF Orderly, WritesAreNew
  <1>9. StagesInOrder'
    <2>1. \A q \in Proposals : auth'[q] # "none" => auth[q] # "none" \/ <<"authorize", q>> \in w
      BY <1>3
    <2> QED
      BY <1>1, <1>5, <1>8, <2>1 DEF Orderly, StagesInOrder, Advances
  <1>10. ToldIsStored'
    BY <1>1, <1>5, ToldStands
  <1> QED
    BY <1>1, <1>5, <1>6, <1>7, <1>8, <1>9, <1>10, OrderlyStep

LEMMA AnswerOrderly ==
  ASSUME Orderly, RequestsTyped, ConversationAssumption, NEW r \in Requests, Answer(r)
  PROVE  Orderly'
  <1>1. request[r] # None /\ UNCHANGED rows
    BY DEF Answer, At
  <1>2. InOrder(request[r])
    BY <1>1 DEF Orderly
  <1>3. Advances /\ proposal' = proposal /\ StagesInOrder'
    BY <1>1, QuietAdvances DEF rows, Orderly, StagesInOrder
  <1>4. /\ Alone(r)
        /\ \/ request'[r] = None
           \/ /\ Keeps(r) /\ request'[r].phase = "answered"
              /\ request'[r].tool = request[r].tool /\ request'[r].on = request[r].on
    BY AnswerTyped
  <1>5. request'[r] # None => InOrder(request[r])'
    BY <1>1, <1>4, KeepsInOrder
  <1>6. ToldIsStored'
    <2> SUFFICES ASSUME NEW tool \in Handoffs, NEW p \in Proposals, <<tool, p>> \in told'
                 PROVE  Stored(tool, p)'
      BY DEF ToldIsStored
    <2>1. CASE <<tool, p>> \in told
      BY <1>1, <2>1 DEF Orderly, ToldIsStored, Stored, rows
    <2>2. CASE <<tool, p>> \notin told
      <3>1. /\ request[r].handoff /\ tool = request[r].tool /\ p = request[r].on
            /\ (request[r].via = "mcp" \/ request[r].tool = "execute")
        BY <2>2 DEF Answer
      <3>2. request[r].phase = "committed" \/ request[r].via # "mcp"
        BY DEF Answer, At, MayCommit
      <3>3. Stored(tool, p)
        BY <1>2, <3>1, <3>2 DEF InOrder
      <3> QED
        BY <1>1, <3>3 DEF Stored, rows
    <2> QED
      BY <2>1, <2>2
  <1>7. request'[r] # None => \A p \in Proposals :
            /\ <<"propose", p>> \in request'[r].writes =>
                 /\ proposal'[p] = None
                 /\ \A s \in Requests \ {r} :
                      request[s] # None => <<"propose", p>> \notin request[s].writes
            /\ <<"authorize", p>> \in request'[r].writes => proposal'[p] # None
    BY <1>1, <1>3, <1>4 DEF Keeps, Orderly, WritesAreNew
  <1> QED
    BY <1>3, <1>4, <1>5, <1>6, <1>7, OrderlyStep

(* The human and the merchant change no request.                           *)
LEMMA HumanOrderly ==
  ASSUME Orderly, TypeOK, NEW p \in Proposals, Approve(p) \/ Accept(p) \/ Lapse(p)
  PROVE  Orderly'
  <1>1. /\ UNCHANGED <<proposal, txn, request, told>>
        /\ \A q \in Proposals : auth'[q] # "none" <=> auth[q] # "none"
    BY DEF Approve, Accept, Lapse, TypeOK
  <1>2. Advances /\ StagesInOrder'
    BY <1>1 DEF Advances, Orderly, StagesInOrder
  <1>3. ASSUME NEW r \in Requests, request'[r] # None
        PROVE  InOrder(request[r])'
    BY <1>1, <1>2, <1>3 DEF Orderly, InOrder, Stored, Advances
  <1>4. WritesAreNew'
    BY <1>1 DEF Orderly, WritesAreNew
  <1> QED
    BY <1>1, <1>2, <1>3, <1>4, ToldStands DEF Orderly

------------------------------------------------------------------------------
(* The invariant.                                                          *)

LEMMA InitOrderly == ConversationAssumption /\ Init => Orderly
  BY DEF ConversationAssumption, Init, Orderly, WritesAreNew, StagesInOrder, ToldIsStored

LEMMA StepOrderly ==
  ASSUME ConversationAssumption, TypeOK, Orderly, [Next]_vars
  PROVE  Orderly'
  <1>1. RequestsTyped
    BY DEF TypeOK, RequestsTyped
  <1>2. ASSUME NEW r \in Requests, Open(r) \/ Serve(r) \/ Dies(r)
        PROVE  Orderly'
    <2>1. CASE Dies(r) \/ Refuse(r)
      BY <1>1, <2>1, Ends DEF Dies, Refuse
    <2> QED
      BY <1>1, <1>2, <2>1, OpenOrderly, QuietOrderly, ProposeOrderly, AuthorizeOrderly,
         PrepareOrderly, StartOrderly, CommitOrderly, AnswerOrderly DEF Serve
  <1>3. CASE UNCHANGED vars
    <2>1. \A r \in Requests : request[r] # None => InOrder(request[r])'
      BY <1>3 DEF vars, rows, Orderly, InOrder, Stored
    <2> QED
      BY <1>3, <2>1 DEF vars, rows, Orderly, WritesAreNew, StagesInOrder, ToldIsStored, Stored
  <1> QED
    BY <1>2, <1>3, HumanOrderly DEF Next

(* The units of work in progress always fit what is committed, whatever    *)
(* the models call, who dies, and whichever requests overlap.              *)
THEOREM InductiveHolds == Spec => []Inductive
  <1>1. Inductive <=> TypeOK /\ Orderly
    BY DEF Inductive, Orderly
  <1>2. Init => TypeOK /\ Orderly
    BY InitTyped, InitOrderly, ConversationAssumption
  <1>3. TypeOK /\ Orderly /\ [Next]_vars => TypeOK' /\ Orderly'
    BY StepTyped, StepOrderly, ConversationAssumption
  <1> QED
    BY <1>1, <1>2, <1>3, PTL DEF Spec

(* Every variable of the conversation keeps its type.                      *)
THEOREM TypesHold == Spec => []TypeOK
  <1>1. Inductive => TypeOK
    BY DEF Inductive
  <1> QED
    BY <1>1, InductiveHolds, PTL

(* What an MCP client is told was done, and every payment a buyer is told  *)
(* was initiated, is in the database (buyer_server.py answers after its    *)
(* unit of work is left).  It says nothing of proposals and authorizations *)
(* that HTTP and the chat answer before their commit.                      *)
THEOREM ToldHolds == Spec => []ToldIsStored
  <1>1. Inductive => ToldIsStored
    BY DEF Inductive
  <1> QED
    BY <1>1, InductiveHolds, PTL

------------------------------------------------------------------------------
(* The refinement of AgentContract.                                        *)

Stage == [p \in Proposals |-> StageOf(p)]
Movers == {r \in Requests : MayMove(r)}

(* The stage of a proposal depends on its own rows only.                   *)
LEMMA SameStage ==
  ASSUME NEW p \in Proposals, proposal'[p] = proposal[p], auth'[p] = auth[p], txn'[p] = txn[p]
  PROVE  StageOf(p)' = StageOf(p)
  BY DEF StageOf

LEMMA SameStages == UNCHANGED rows => Stage' = Stage
  BY DEF Stage, StageOf, rows

(* What one request does to those that may still move.                     *)
LEMMA MoversStep ==
  ASSUME NEW r \in Requests, Alone(r)
  PROVE  /\ MayMove(r)' => Movers' = Movers \cup {r}
         /\ ~MayMove(r)' => Movers' = Movers \ {r}
         /\ MayMove(r)' = MayMove(r) => Movers' = Movers
  <1>1. \A s \in Requests \ {r} : MayMove(s)' <=> MayMove(s)
    BY DEF Alone, MayMove
  <1> QED
    BY <1>1 DEF Movers

(* A step that moves no stage opens or closes a request, or stutters.      *)
LEMMA StillRefines ==
  ASSUME NEW r \in Requests, Alone(r), Stage' = Stage
  PROVE  [Contract!Next]_(Contract!vars)
  <1>1. CASE MayMove(r)' /\ ~MayMove(r)
    <2>1. r \notin Movers /\ Movers' = Movers \cup {r}
      BY <1>1, MoversStep DEF Movers
    <2> QED
      BY <2>1 DEF Contract!Next, Contract!Open, Stage, Movers
  <1>2. CASE ~MayMove(r)' /\ MayMove(r)
    <2>1. r \in Movers /\ Movers' = Movers \ {r}
      BY <1>2, MoversStep DEF Movers
    <2> QED
      BY <2>1 DEF Contract!Next, Contract!Close, Stage, Movers
  <1>3. CASE MayMove(r)' <=> MayMove(r)
    <2>1. Movers' = Movers
      BY <1>3, MoversStep DEF Movers
    <2> QED
      BY <2>1 DEF Contract!vars, Stage, Movers
  <1> QED
    BY <1>1, <1>2, <1>3

(* A step that moves one proposal, and with it its request.                *)
LEMMA MoveRefines ==
  ASSUME NEW r \in Requests, NEW p \in Proposals, Alone(r), MayMove(r), ~MayMove(r)',
         \A q \in Proposals \ {p} : StageOf(q)' = StageOf(q),
         <<StageOf(p), StageOf(p)'>> \in Contract!Moves
  PROVE  [Contract!Next]_(Contract!vars)
  <1>1. r \in Movers /\ Movers' = Movers \ {r}
    BY MoversStep DEF Movers
  <1>2. PICK to \in Contract!Stages : to = StageOf(p)'
    BY DEF Contract!Moves, Contract!Stages
  <1>3. Stage' = [Stage EXCEPT ![p] = to] /\ Stage[p] = StageOf(p)
    BY <1>2 DEF Stage
  <1>4. Contract!Move(r, p)
    BY <1>1, <1>2, <1>3 DEF Contract!Move, Stage, Movers
  <1> QED
    BY <1>4 DEF Contract!Next

LEMMA PrepareRefines ==
  ASSUME TypeOK, Orderly, RequestsTyped, ConversationAssumption, NEW r \in Requests, Prepare(r)
  PROVE  [Contract!Next]_(Contract!vars)
  <1>1. /\ request[r] # None /\ request[r].phase = "call" /\ request[r].tool = "execute"
        /\ Store(r, request[r].writes)
    BY DEF Prepare, Calls, At
  <1>2. /\ InOrder(request[r]) /\ ~request[r].handoff /\ request[r].writes = {}
        /\ request[r].on \in Proposals
    BY <1>1 DEF Orderly, InOrder
  <1>3. PICK p \in Proposals :
          /\ p = request[r].on
          /\ txn[p] # "none" \/ Gated(p)
          /\ txn' = [txn EXCEPT ![p] = IF @ = "none" THEN "ready" ELSE @]
    BY <1>2 DEF Prepare
  <1>4. \A q \in Proposals : proposal'[q] = proposal[q] /\ auth'[q] = auth[q]
    BY <1>1, <1>2 DEF Store
  <1>5. /\ Alone(r) /\ request'[r] # None /\ ~request'[r].handoff
    BY <1>2, PrepareTyped
  <1>6. \A q \in Proposals \ {p} : StageOf(q)' = StageOf(q)
    <2> SUFFICES ASSUME NEW q \in Proposals \ {p} PROVE StageOf(q)' = StageOf(q)
      OBVIOUS
    <2>1. txn'[q] = txn[q]
      BY <1>3 DEF TypeOK
    <2> QED
      BY <1>4, <2>1, SameStage
  <1>7. CASE txn[p] # "none"
    <2>1. StageOf(p)' = StageOf(p)
      <3>1. txn'[p] = txn[p]
        BY <1>3, <1>7 DEF TypeOK
      <3> QED
        BY <1>4, <3>1, SameStage
    <2>2. Stage' = Stage
      BY <1>6, <2>1 DEF Stage
    <2> QED
      BY <1>5, <2>2, StillRefines
  <1>8. CASE txn[p] = "none"
    <2>1. StageOf(p) = "approved" /\ StageOf(p)' = "ready"
      <3>1. txn'[p] = "ready" /\ auth[p] = "approved"
        BY <1>3, <1>8 DEF TypeOK, Gated
      <3> QED
        BY <1>8, <3>1 DEF StageOf
    <2>2. Stage[p] = "approved" /\ Stage' = [Stage EXCEPT ![p] = "ready"]
      BY <1>6, <2>1 DEF Stage
    <2>3. r \in Movers /\ Movers' = Movers
      BY <1>1, <1>2, <1>5, MoversStep DEF Movers, MayMove
    <2>4. Contract!Prepare(r, p)
      BY <2>2, <2>3 DEF Contract!Prepare, Stage, Movers
    <2> QED
      BY <2>4 DEF Contract!Next
  <1> QED
    BY <1>7, <1>8

LEMMA StartRefines ==
  ASSUME TypeOK, Orderly, RequestsTyped, ConversationAssumption, NEW r \in Requests, Start(r)
  PROVE  [Contract!Next]_(Contract!vars)
  <1>1. /\ request[r] # None /\ request[r].phase = "start"
        /\ UNCHANGED <<proposal, auth>>
    BY DEF Start, At
  <1>2. /\ ~request[r].handoff /\ request[r].writes = {}
        /\ request[r].on \in Proposals /\ txn[request[r].on] # "none"
    BY <1>1 DEF Orderly, InOrder
  <1>3. PICK p \in Proposals : p = request[r].on /\ txn' = [txn EXCEPT ![p] = "started"]
    BY <1>2 DEF Start
  <1>4. \A q \in Proposals \ {p} : StageOf(q)' = StageOf(q)
    <2> SUFFICES ASSUME NEW q \in Proposals \ {p} PROVE StageOf(q)' = StageOf(q)
      OBVIOUS
    <2>1. txn'[q] = txn[q]
      BY <1>3 DEF TypeOK
    <2> QED
      BY <1>1, <2>1, SameStage
  <1>5. /\ Alone(r)
        /\ \/ request'[r] = None
           \/ request'[r].handoff /\ request'[r].writes = {}
    BY <1>2, StartTyped
  <1>6. MayMove(r) /\ ~MayMove(r)'
    BY <1>1, <1>2, <1>5 DEF MayMove
  <1>7. txn'[p] = "started" /\ txn[p] \in {"ready", "started"}
    BY <1>2, <1>3 DEF TypeOK
  <1>8. CASE txn[p] = "started"
    <2>1. StageOf(p)' = StageOf(p)
      BY <1>1, <1>7, <1>8, SameStage
    <2>2. Stage' = Stage
      BY <1>4, <2>1 DEF Stage
    <2> QED
      BY <1>5, <2>2, StillRefines
  <1>9. CASE txn[p] = "ready"
    <2>1. StageOf(p) = "ready" /\ StageOf(p)' = "started"
      BY <1>7, <1>9 DEF StageOf
    <2> QED
      BY <1>4, <1>5, <1>6, <2>1, MoveRefines DEF Contract!Moves
  <1> QED
    BY <1>7, <1>8, <1>9

LEMMA CommitRefines ==
  ASSUME TypeOK, Orderly, RequestsTyped, ConversationAssumption, NEW r \in Requests, Commit(r)
  PROVE  [Contract!Next]_(Contract!vars)
  <1>1. request[r] # None /\ Store(r, request[r].writes) /\ txn' = txn
    BY DEF Commit
  <1>2. InOrder(request[r])
    BY <1>1 DEF Orderly
  <1>3. /\ Alone(r)
        /\ \/ request'[r] = None
           \/ /\ request'[r] # None
              /\ request'[r].handoff = request[r].handoff /\ request'[r].writes = {}
    BY CommitTyped
  <1>4. CASE request[r].writes = {}
    <2>1. \A q \in Proposals : proposal'[q] = proposal[q] /\ auth'[q] = auth[q]
      BY <1>1, <1>4 DEF Store
    <2>2. Stage' = Stage
      BY <1>1, <2>1 DEF Stage, StageOf
    <2> QED
      BY <1>3, <2>2, StillRefines
  <1>5. CASE request[r].writes # {}
    <2>1. PICK tool \in {"propose", "authorize"}, p \in Proposals :
            request[r].writes = {<<tool, p>>}
      BY <1>2, <1>5 DEF InOrder, Handoffs
    <2>2. request[r].handoff /\ request[r].key # None
      BY <1>2, <1>5 DEF InOrder
    <2>3. MayMove(r) /\ ~MayMove(r)'
      BY <1>1, <1>3, <1>5, <2>2 DEF MayMove
    <2>4. \A q \in Proposals \ {p} : StageOf(q)' = StageOf(q)
      <3> SUFFICES ASSUME NEW q \in Proposals \ {p} PROVE StageOf(q)' = StageOf(q)
        OBVIOUS
      <3>1. proposal'[q] = proposal[q] /\ auth'[q] = auth[q]
        BY <1>1, <2>1 DEF Store
      <3> QED
        BY <1>1, <3>1, SameStage
    <2>5. CASE tool = "propose"
      <3>1. proposal[p] = None
        BY <1>1, <2>1, <2>5 DEF Orderly, WritesAreNew
      <3>2. auth[p] = "none" /\ txn[p] = "none"
        BY <3>1 DEF Orderly, StagesInOrder
      <3>3. proposal'[p] # None /\ auth'[p] = auth[p]
        BY <1>1, <2>1, <2>2, <2>5 DEF Store
      <3>4. StageOf(p) = "none" /\ StageOf(p)' = "proposed"
        BY <1>1, <3>1, <3>2, <3>3 DEF StageOf
      <3> QED
        BY <1>3, <2>3, <2>4, <3>4, MoveRefines DEF Contract!Moves
    <2>6. CASE tool = "authorize"
      <3>1. proposal[p] # None /\ proposal'[p] = proposal[p]
        BY <1>1, <2>1, <2>6 DEF Orderly, WritesAreNew, Store
      <3>2. auth'[p] = "requested" \/ (auth'[p] = auth[p] /\ auth[p] # "none")
        BY <1>1, <2>1, <2>6 DEF Store
      <3>3. CASE txn[p] # "none" \/ auth'[p] = auth[p]
        <4>1. StageOf(p)' = StageOf(p)
          BY <1>1, <3>1, <3>3 DEF StageOf
        <4>2. Stage' = Stage
          BY <2>4, <4>1 DEF Stage
        <4> QED
          BY <1>3, <4>2, StillRefines
      <3>4. CASE txn[p] = "none" /\ auth'[p] # auth[p]
        <4>1. auth'[p] = "requested" /\ auth[p] \in {"none", "approved"}
          BY <3>2, <3>4 DEF TypeOK
        <4>2. StageOf(p)' = "requested" /\ StageOf(p) \in {"proposed", "approved"}
          BY <1>1, <3>1, <3>4, <4>1 DEF StageOf
        <4> QED
          BY <1>3, <2>3, <2>4, <4>2, MoveRefines DEF Contract!Moves
      <3> QED
        BY <3>3, <3>4
    <2> QED
      BY <2>5, <2>6
  <1> QED
    BY <1>4, <1>5

LEMMA HumanRefines ==
  ASSUME TypeOK, Orderly, NEW p \in Proposals, Approve(p) \/ Accept(p) \/ Lapse(p)
  PROVE  [Contract!Next]_(Contract!vars)
  <1>1. Movers' = Movers /\ UNCHANGED <<proposal, txn>>
    BY DEF Approve, Accept, Lapse, Movers, MayMove
  <1>2. CASE auth' = auth
    BY <1>1, <1>2 DEF Contract!vars, Movers, StageOf
  <1>3. CASE Approve(p)
    <2>1. auth[p] = "requested" /\ auth'[p] = "approved"
      BY <1>3 DEF Approve, TypeOK
    <2>2. \A q \in Proposals \ {p} : StageOf(q)' = StageOf(q)
      <3> SUFFICES ASSUME NEW q \in Proposals \ {p} PROVE StageOf(q)' = StageOf(q)
        OBVIOUS
      <3>1. auth'[q] = auth[q]
        BY <1>3 DEF Approve, TypeOK
      <3> QED
        BY <1>1, <3>1, SameStage
    <2>3. CASE txn[p] # "none"
      <3>1. StageOf(p)' = StageOf(p)
        BY <1>1, <2>3 DEF StageOf
      <3>2. Stage' = Stage
        BY <2>2, <3>1 DEF Stage
      <3> QED
        BY <1>1, <3>2 DEF Contract!vars, Movers, Stage
    <2>4. CASE txn[p] = "none"
      <3>1. StageOf(p) = "requested" /\ StageOf(p)' = "approved"
        BY <1>1, <2>1, <2>4 DEF StageOf
      <3>2. Stage[p] = "requested" /\ Stage' = [Stage EXCEPT ![p] = "approved"]
        BY <2>2, <3>1 DEF Stage
      <3>3. Contract!Approve(p)
        BY <1>1, <3>2 DEF Contract!Approve, Stage, Movers
      <3> QED
        BY <3>3 DEF Contract!Next
    <2> QED
      BY <2>3, <2>4
  <1> QED
    BY <1>2, <1>3 DEF Accept, Lapse

LEMMA StepRefines ==
  ASSUME ConversationAssumption, TypeOK, Orderly, [Next]_vars
  PROVE  [Contract!Next]_(Contract!vars)
  <1>1. RequestsTyped
    BY DEF TypeOK, RequestsTyped
  <1>2. ASSUME NEW r \in Requests, Open(r) \/ Serve(r) \/ Dies(r), UNCHANGED rows, Alone(r)
        PROVE  [Contract!Next]_(Contract!vars)
    BY <1>2, SameStages, StillRefines
  <1>3. ASSUME NEW r \in Requests, Open(r) \/ Dies(r) \/ Refuse(r) \/ Answer(r)
        PROVE  UNCHANGED rows /\ Alone(r)
    BY <1>1, <1>3, OpenTyped, EndTyped, AnswerTyped DEF Open, Dies, Refuse, Answer
  <1>4. ASSUME NEW r \in Requests,
               \/ Generate(r) \/ Choose(r) \/ EndResponse(r)
               \/ ReportInvalid(r) \/ Search(r) \/ Status(r) \/ Propose(r) \/ Authorize(r)
        PROVE  UNCHANGED rows /\ Alone(r)
    BY <1>1, <1>4
    DEF Generate, Choose, EndResponse, ReportInvalid, Search, Status, Propose, Authorize, Leave, Goto,
        Continue, HandOver, Alone, RequestsTyped
  <1>5. CASE UNCHANGED vars
    BY <1>5 DEF vars, rows, Contract!vars, StageOf, MayMove
  <1>6. ASSUME NEW r \in Requests, Open(r) \/ Serve(r) \/ Dies(r)
        PROVE  [Contract!Next]_(Contract!vars)
    BY <1>1, <1>2, <1>3, <1>4, <1>6, PrepareRefines, StartRefines, CommitRefines DEF Serve
  <1> QED
    BY <1>5, <1>6, HumanRefines DEF Next

(* No request, however many turns and calls it has and whichever others    *)
(* overlap with it, moves more than one proposal, or one past the human's  *)
(* stage (orchestrator.py: the AI can never chain past human review).      *)
THEOREM ContractHolds == Spec => ImplementsContract
  <1>1. Init => Contract!Init
    BY DEF Init, Contract!Init, StageOf, MayMove
  <1>2. Inductive /\ [Next]_vars => [Contract!Next]_(Contract!vars)
    BY StepRefines, ConversationAssumption DEF Inductive, Orderly
  <1> QED
    BY <1>1, <1>2, InductiveHolds, PTL DEF Spec, ImplementsContract, Contract!Spec

=============================================================================
