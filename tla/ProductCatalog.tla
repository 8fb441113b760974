--------------------------- MODULE ProductCatalog ----------------------------
(***************************************************************************)
(* Products of one merchant: creation, edits, publication behind a         *)
(* confirmation token, and the idempotency keys of all of them.            *)
(*                                                                         *)
(* A request is one database session that commits when its answer has been *)
(* sent.  Until then its rows are seen by nobody else, and whoever would   *)
(* write the same row or the same key waits.  A call has entered when its  *)
(* session and its token were checked, has read when it holds its key and  *)
(* has read the product, is answered when its rows are written.            *)
(***************************************************************************)
EXTENDS MerchantSessions, FiniteSets

CONSTANTS
  Products,    \* product ids
  Skus,
  Fields,      \* title, price and the other fields an edit may name
  Keys,        \* idempotency keys
  Tokens,      \* confirmation tokens
  TokenLife,   \* TOKEN_LIFETIME
  MaxVersion,  \* bound: no product is changed at this version
  Calls        \* requests served at once

VARIABLES
  product,  \* products: None, or [sku, edited, status, version]
  claims,   \* idempotency_records of the catalog: None, or [request, product]
  token,    \* None, or the claim a token was signed over
  used,     \* used_confirmation_tokens; rows past expiry count for nobody
  call      \* None, or what a request in progress has read and written

catalogVars == <<product, claims, token, used, call>>

Publications == {"publish", "unpublish"}
Operations == {"create", "update"} \cup Publications

(* edited: the fields whose value is not the one of the creation.  An edit *)
(* names one field and gives it a value of its own.                        *)
Row == [sku : Skus, edited : SUBSET Fields, status : {"DRAFT", "PUBLISHED", "UNPUBLISHED"},
        version : 1..MaxVersion]

Versions == 1..MaxVersion - 1
Request ==
    [op : {"create"}, sku : Skus]
      \cup [op : {"update"}, product : Products, version : Versions, field : Fields]
      \cup [op : Publications, product : Products, version : Versions]

Claim == [request : Request, product : Products]
Token == [user : Users, product : Products, version : Versions, action : Publications,
          expires : Nat]

Slot == [user : Users, op : Operations, key : Keys]

Entered  == [step : {"entered"}, slot : Slot, request : Request, token : Tokens \cup {None}]
ReadCall == [step : {"read"}, slot : Slot, request : Request, token : Tokens \cup {None},
             row : Row \cup {None}]
Answered == [step : {"answered"}, slot : Slot, request : Request, token : Tokens \cup {None},
             shown : Products, row : Row \cup {None}]
ProductCall == Entered \cup ReadCall \cup Answered

ASSUME CatalogAssumption ==
    /\ TokenLife \in Nat \ {0}
    /\ MaxVersion \in Nat \ {0, 1}
    /\ None \notin Tokens \cup Products
    /\ None \notin Row \cup Claim \cup Token \cup ProductCall

CatalogTypeOK ==
    /\ product \in [Products -> Row \cup {None}]
    /\ DOMAIN claims = Slot
    /\ \A s \in Slot : claims[s] = None \/ claims[s] \in Claim
    /\ DOMAIN token = Tokens
    /\ \A t \in Tokens : token[t] = None \/ token[t] \in Token
    /\ used \subseteq Tokens
    /\ DOMAIN call = Calls

Draft(sku) == [sku |-> sku, edited |-> {}, status |-> "DRAFT", version |-> 1]

CatalogInit ==
    /\ product \in {[p \in Products |-> None]}
          \cup {[p \in Products |-> IF p = q THEN Draft(sku) ELSE None] :
                   q \in Products, sku \in Skus}
    /\ claims = [s \in Slot |-> None]
    /\ token \in [Tokens -> {None} \cup
                    [user : Users, product : {p \in Products : product[p] # None},
                     version : {1}, action : Publications, expires : {TokenLife}]]
    /\ used = {}
    /\ call = [c \in Calls |-> None]

------------------------------------------------------------------------------
(* Confirmation tokens.                                                    *)

(* The version the dashboard shows is taken as it is sent.                 *)
IssueConfirmation(s, t, p, version, action) ==
    /\ token[t] = None
    /\ Take
    /\ MayWrite(s)
    /\ token' = [token EXCEPT ![t] =
                   [user |-> bearer[s].user, product |-> p, version |-> version,
                    action |-> action, expires |-> now + TokenLife]]
    /\ UNCHANGED <<product, claims, used, call>>

(* Expiry is tested first, and then, at a later reading of the clock, rows *)
(* past expiry are deleted and the token is looked up: a used token passes *)
(* when it expires between the two.                                        *)
Unspent(t) == \E later \in {now, now + 1} : t \notin used \/ token[t].expires < later

(* Variant that does not compare the version.                              *)
NamesProduct(t, user, request) ==
    /\ token[t].user = user
    /\ token[t].action = request.op
    /\ token[t].product = request.product

NamesRequest(t, user, request) ==
    /\ token[t].user = user
    /\ token[t].action = request.op
    /\ token[t].product = request.product
    /\ token[t].version = request.version

(* _verify_confirmation_for.                                               *)
Confirms(t, user, request) ==
    /\ token[t] # None
    /\ now <= token[t].expires
    /\ Unspent(t)
    /\ NamesRequest(t, user, request)

------------------------------------------------------------------------------
(* Calls.                                                                  *)

At(c, step) == call[c] # None /\ call[c].step = step
OnProduct(c) == call[c].request.op \in Operations

(* What others may not see yet: the rows of an answered call, and the key  *)
(* of a call that was the first to claim it.                               *)
Writes(c) == At(c, "answered") /\ OnProduct(c) /\ call[c].row # None
Claims(c, slot) ==
    /\ call[c] # None
    /\ OnProduct(c)
    /\ call[c].slot = slot
    /\ At(c, "read") \/ Writes(c)

(* Variant that claims a key again for a new request.                      *)
ClaimsAgain(slot) == TRUE

Unclaimed(slot) == claims[slot] = None

(* INSERT ... ON CONFLICT DO NOTHING waits for another claim of the key.   *)
KeyIsSettled(c) == \A d \in Calls \ {c} : ~Claims(d, call[c].slot)

(* The id a request names, or for a creation any it may be given.          *)
Target(request) ==
    IF request.op = "create" THEN {p \in Products : product[p] = None} ELSE {request.product}

SkuIsFree(sku) == \A p \in Products : product[p] # None => product[p].sku # sku

(* Variant that counts down.                                               *)
LastVersion(version) == version - 1

NextVersion(version) == version + 1

StatusAfter == [publish |-> "PUBLISHED", unpublish |-> "UNPUBLISHED"]

(* The row a request makes of the one it read.                             *)
Changed(row, request) ==
    IF request.op = "create" THEN Draft(request.sku)
    ELSE [row EXCEPT
            !.version = NextVersion(@),
            !.edited = IF request.op = "update" THEN @ \cup {request.field} ELSE @,
            !.status = IF request.op \in Publications THEN StatusAfter[request.op] ELSE @]

(* A product that is not there yet is not found; nobody can know its id.   *)
Enter(c, s, key, request, t) ==
    /\ call[c] = None
    /\ Take
    /\ MayWrite(s)
    /\ request.op # "create" => product[request.product] # None
    /\ IF request.op \in Publications
         THEN t # None /\ Confirms(t, bearer[s].user, request)
         ELSE t = None
    /\ call' = [call EXCEPT ![c] =
                  [step |-> "entered", request |-> request, token |-> t,
                   slot |-> [user |-> bearer[s].user, op |-> request.op, key |-> key]]]
    /\ UNCHANGED <<product, claims, token, used>>

(* The key is claimed and the product read; a wrong version or a sku that  *)
(* is taken is refused.                                                    *)
Read(c) ==
    /\ At(c, "entered")
    /\ OnProduct(c)
    /\ KeyIsSettled(c)
    /\ Unclaimed(call[c].slot)
    /\ LET request == call[c].request IN
         \E row \in IF request.op = "create" THEN {None} ELSE {product[request.product]} :
           /\ IF request.op = "create"
                THEN SkuIsFree(request.sku)
                ELSE row.version = request.version
           /\ call' = [call EXCEPT ![c] =
                [step |-> "read", slot |-> @.slot, request |-> request, token |-> @.token,
                 row |-> row]]
    /\ UNCHANGED <<product, claims, token, used>>

(* Variant that writes whatever version is there.                          *)
AnyVersion(p, row) == TRUE

(* UPDATE ... WHERE version = the version that was read.                   *)
StillAtVersion(p, row) == product[p].version = row.version

(* The statement waits for another call's uncommitted row of this product, *)
(* or of this sku, and then looks at what that call left.                  *)
Write(c, p) ==
    /\ At(c, "read")
    /\ OnProduct(c)
    /\ p \in Target(call[c].request)
    /\ LET request == call[c].request
           row == call[c].row
       IN /\ \A d \in Calls : Writes(d) =>
               /\ call[d].shown # p
               /\ request.op = "create" => call[d].row.sku # request.sku
          /\ IF request.op = "create" THEN SkuIsFree(request.sku) ELSE StillAtVersion(p, row)
          /\ call' = [call EXCEPT ![c] =
               [step |-> "answered", slot |-> @.slot, request |-> request, token |-> @.token,
                shown |-> p, row |-> Changed(row, request)]]
    /\ UNCHANGED <<product, claims, token, used>>

(* Variant that replays a key for whatever is asked.                       *)
AnyRequest(claim, request) == TRUE

(* require_same_request.                                                   *)
SameRequest(claim, request) == claim.request = request

(* A key that is known shows the product again; its token is consumed too, *)
(* once another call that consumes it has committed.                       *)
Replay(c) ==
    /\ At(c, "entered")
    /\ OnProduct(c)
    /\ KeyIsSettled(c)
    /\ ~Unclaimed(call[c].slot)
    /\ SameRequest(claims[call[c].slot], call[c].request)
    /\ call[c].token # None =>
         \A d \in Calls : At(d, "answered") /\ OnProduct(d) => call[d].token # call[c].token
    /\ call' = [call EXCEPT ![c] =
         [step |-> "answered", slot |-> @.slot, request |-> @.request, token |-> @.token,
          shown |-> claims[call[c].slot].product, row |-> None]]
    /\ UNCHANGED <<product, claims, token, used>>

(* What the call wrote becomes visible.                                    *)
CommitProduct(c) ==
    /\ At(c, "answered")
    /\ OnProduct(c)
    /\ used' = used \cup ({call[c].token} \ {None})
    /\ IF call[c].row = None
         THEN UNCHANGED <<product, claims>>
         ELSE /\ product' = [product EXCEPT ![call[c].shown] = call[c].row]
              /\ claims' = [claims EXCEPT ![call[c].slot] =
                              [request |-> call[c].request, product |-> call[c].shown]]
    /\ call' = [call EXCEPT ![c] = None]
    /\ UNCHANGED token

(* A call is refused, or it or its connection dies: nothing is kept.       *)
AbandonProduct(c) ==
    /\ call[c] # None
    /\ OnProduct(c)
    /\ call' = [call EXCEPT ![c] = None]
    /\ UNCHANGED <<product, claims, token, used>>

ProductStep ==
    \/ \E c \in Calls, p \in Products : Write(c, p)
    \/ \E c \in Calls : Read(c) \/ Replay(c) \/ AbandonProduct(c)
==============================================================================
