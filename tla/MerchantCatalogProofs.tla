------------------------ MODULE MerchantCatalogProofs ------------------------
(***************************************************************************)
(* The safety of MerchantCatalog for every number of requests, products,   *)
(* users, keys and tokens.                                                 *)
(***************************************************************************)
EXTENDS MerchantCatalog, TLAPS

------------------------------------------------------------------------------
(* Rows.                                                                   *)

(* An edit, and a publication, of a row in the words of the contract.      *)
LEMMA EditOfRow ==
  ASSUME NEW row \in Row, NEW request, request.op = "update"
  PROVE  Changed(row, request) =
           [row EXCEPT !.edited = @ \cup {request.field}, !.version = @ + 1]
  <1> DEFINE new == [sku |-> row.sku, edited |-> row.edited \cup {request.field},
                     status |-> row.status, version |-> row.version + 1]
  <1>1. Changed(row, request) = new
    <2>1. Changed(row, request) =
            [row EXCEPT !.version = @ + 1, !.edited = @ \cup {request.field}, !.status = @]
      BY DEF Changed, NextVersion, Publications
    <2> QED
      BY <2>1 DEF Row
  <1>2. [row EXCEPT !.edited = @ \cup {request.field}, !.version = @ + 1] = new
    <2> DEFINE mid == [sku |-> row.sku, edited |-> row.edited \cup {request.field},
                       status |-> row.status, version |-> row.version]
    <2>1. [row EXCEPT !.edited = @ \cup {request.field}] = mid
      BY DEF Row
    <2>2. [mid EXCEPT !.version = @ + 1] = new
      OBVIOUS
    <2>3. [row EXCEPT !.edited = @ \cup {request.field}, !.version = @ + 1] =
             [[row EXCEPT !.edited = @ \cup {request.field}] EXCEPT !.version = @ + 1]
      OBVIOUS
    <2> QED
      BY <2>1, <2>2, <2>3
  <1> QED
    BY <1>1, <1>2

LEMMA PublicationOfRow ==
  ASSUME NEW row \in Row, NEW request, request.op \in Publications
  PROVE  Changed(row, request) =
           [row EXCEPT !.status = IF request.op = "publish" THEN "PUBLISHED" ELSE "UNPUBLISHED",
                       !.version = @ + 1]
  <1> DEFINE status == IF request.op = "publish" THEN "PUBLISHED" ELSE "UNPUBLISHED"
             new == [sku |-> row.sku, edited |-> row.edited, status |-> status,
                     version |-> row.version + 1]
  <1>1. Changed(row, request) = new
    <2>1. request.op # "create" /\ request.op # "update"
          /\ StatusAfter[request.op] = status
      BY DEF Publications, StatusAfter
    <2>2. Changed(row, request) =
            [row EXCEPT !.version = @ + 1, !.edited = @, !.status = status]
      BY <2>1 DEF Changed, NextVersion
    <2> QED
      BY <2>2 DEF Row
  <1>2. [row EXCEPT !.status = status, !.version = @ + 1] = new
    <2> DEFINE mid == [sku |-> row.sku, edited |-> row.edited, status |-> status,
                       version |-> row.version]
    <2>1. [row EXCEPT !.status = status] = mid
      BY DEF Row
    <2>2. [mid EXCEPT !.version = @ + 1] = new
      OBVIOUS
    <2>3. [row EXCEPT !.status = status, !.version = @ + 1] =
             [[row EXCEPT !.status = status] EXCEPT !.version = @ + 1]
      OBVIOUS
    <2> QED
      BY <2>1, <2>2, <2>3
  <1> QED
    BY <1>1, <1>2

------------------------------------------------------------------------------
USE SessionAssumption, CatalogAssumption, ImageAssumption

(* Calls and rows.                                                         *)

(* A call about a product has the shape of its step.                       *)
LEMMA ProductCallShape ==
  ASSUME TypeOK, NEW c \in Calls, call[c] # None, OnProduct(c)
  PROVE  /\ call[c] \in ProductCall
         /\ call[c].step = "entered" => call[c] \in Entered
         /\ call[c].step = "read" => call[c] \in ReadCall
         /\ call[c].step = "answered" => call[c] \in Answered
         /\ call[c].request \in Request
         /\ call[c].slot \in Slot
         /\ call[c].token \in Tokens \cup {None}
  <1>1. call[c] \in ProductCall \cup ImageCall
    BY DEF TypeOK, ImageTypeOK
  <1>2. call[c] \notin ImageCall
    BY DEF ImageCall, EnteredImage, StoredImage, ImageRequest, OnProduct, Operations, Publications
  <1>3. call[c] \in Entered \/ call[c] \in ReadCall \/ call[c] \in Answered
    BY <1>1, <1>2 DEF ProductCall
  <1>4. CASE call[c] \in Entered
    BY <1>4 DEF Entered, ProductCall
  <1>5. CASE call[c] \in ReadCall
    BY <1>5 DEF ReadCall, ProductCall
  <1>6. CASE call[c] \in Answered
    BY <1>6 DEF Answered, ProductCall
  <1> QED
    BY <1>3, <1>4, <1>5, <1>6

(* A call about an image has the shape of its step.                        *)
LEMMA ImageCallShape ==
  ASSUME TypeOK, NEW c \in Calls, call[c] # None, OnImage(c) \/ call[c].step = "stored"
  PROVE  /\ call[c] \in ImageCall
         /\ call[c].step = "entered" => call[c] \in EnteredImage
         /\ call[c].step # "entered" => call[c] \in StoredImage
         /\ call[c].request \in ImageRequest
  <1>1. call[c] \in ProductCall \cup ImageCall
    BY DEF TypeOK, ImageTypeOK
  <1>2. call[c] \notin ProductCall
    BY DEF ProductCall, Entered, ReadCall, Answered, Request, OnImage, Publications
  <1>3. call[c] \in EnteredImage \/ call[c] \in StoredImage
    BY <1>1, <1>2 DEF ImageCall
  <1>4. CASE call[c] \in EnteredImage
    BY <1>4 DEF EnteredImage, ImageCall
  <1>5. CASE call[c] \in StoredImage
    BY <1>5 DEF StoredImage, ImageCall
  <1> QED
    BY <1>3, <1>4, <1>5

(* What a request that names a product says.                               *)
LEMMA RequestShape ==
  ASSUME NEW request \in Request
  PROVE  /\ request.op \in Operations
         /\ request.op = "create" => request.sku \in Skus
         /\ request.op # "create" => request.product \in Products /\ request.version \in Versions
         /\ request.op = "update" => request.field \in Fields
  BY DEF Request, Operations, Publications

(* The row of a creation.                                                  *)
LEMMA DraftType ==
  ASSUME NEW sku \in Skus
  PROVE  Draft(sku) \in Row
  BY DEF Draft, Row

(* A request makes a row of the row it read.                               *)
LEMMA ChangedType ==
  ASSUME NEW request \in Request, NEW row \in Row,
         request.op # "create" => row.version = request.version
  PROVE  Changed(row, request) \in Row
  <1>1. CASE request.op = "create"
    BY <1>1, RequestShape, DraftType DEF Changed
  <1>2. CASE request.op # "create"
    <2>1. row.version \in 1..MaxVersion - 1
      BY <1>2, RequestShape DEF Versions
    <2>2. NextVersion(row.version) \in 1..MaxVersion
      BY <2>1 DEF NextVersion
    <2>3. (IF request.op = "update" THEN row.edited \cup {request.field} ELSE row.edited)
             \in SUBSET Fields
      BY RequestShape DEF Row
    <2>4. (IF request.op \in Publications THEN StatusAfter[request.op] ELSE row.status)
             \in {"DRAFT", "PUBLISHED", "UNPUBLISHED"}
      BY DEF Row, Publications, StatusAfter
    <2> QED
      BY <1>2, <2>2, <2>3, <2>4 DEF Changed, Row
  <1> QED
    BY <1>1, <1>2

------------------------------------------------------------------------------
(* Types.                                                                  *)

(* The initial state is well typed.                                        *)
LEMMA InitTypes == Init => TypeOK
  <1> SUFFICES ASSUME Init PROVE TypeOK
    OBVIOUS
  <1>1. SessionTypeOK
    <2>1. now \in 0..Horizon /\ taken \in 0..MaxCalls
      BY DEF Init, SessionInit
    <2>2. role \in [Users -> Roles \cup {None}]
      BY DEF Init, SessionInit, Roles
    <2>3. [user : Users, expires : {SessionLife}, revoked : {FALSE}] \subseteq Bearer
      BY DEF Bearer
    <2> QED
      BY <2>1, <2>2, <2>3 DEF Init, SessionInit, SessionTypeOK
  <1>2. product \in [Products -> Row \cup {None}]
    <2>1. \A sku \in Skus : Draft(sku) \in Row
      BY DraftType
    <2>2. CASE product = [p \in Products |-> None]
      BY <2>2
    <2>3. ASSUME NEW q \in Products, NEW sku \in Skus,
                 product = [p \in Products |-> IF p = q THEN Draft(sku) ELSE None]
          PROVE  product \in [Products -> Row \cup {None}]
      BY <2>1, <2>3
    <2> QED
      BY <2>2, <2>3 DEF Init, CatalogInit
  <1>3. \A t \in Tokens : token[t] = None \/ token[t] \in Token
    <2>1. 1 \in Versions
      BY DEF Versions
    <2> QED
      BY <2>1 DEF Init, CatalogInit, Token
  <1>4. CatalogTypeOK
    BY <1>2, <1>3 DEF Init, CatalogInit, CatalogTypeOK
  <1>5. ImageTypeOK
    <2>1. images \in [Products -> [Orders -> Blobs \cup {None}]]
      <3>1. PICK n \in FirstImages :
              images = [p \in Products |-> [o \in Orders |->
                          IF product[p] # None /\ o < n THEN o ELSE None]]
        BY DEF Init, ImageInit
      <3>2. \A o \in Orders : o < n => o \in Blobs
        BY DEF Orders, MaxImages
      <3> QED
        BY <3>1, <3>2
    <2>2. stored \subseteq Blobs /\ torn \subseteq Blobs
      BY <2>1 DEF Init, ImageInit
    <2> QED
      BY <2>1, <2>2 DEF Init, CatalogInit, ImageTypeOK
  <1> QED
    BY <1>1, <1>4, <1>5 DEF TypeOK

(* Sessions and memberships keep their types.                              *)
LEMMA SessionTypes ==
  ASSUME TypeOK, SessionRequest \/ Surroundings, UNCHANGED <<catalogVars, imageVars>>
  PROVE  TypeOK'
  <1>1. CatalogTypeOK' /\ ImageTypeOK'
    BY DEF TypeOK, CatalogTypeOK, ImageTypeOK, catalogVars, imageVars
  <1>2. taken' \in 0..MaxCalls /\ now' \in 0..Horizon
    BY DEF TypeOK, SessionTypeOK, SessionRequest, Surroundings, Issue, Revoke, ChangeRole,
           Tick, Take
  <1>3. role' \in [Users -> Roles \cup {None}]
    BY DEF TypeOK, SessionTypeOK, SessionRequest, Surroundings, Issue, Revoke, ChangeRole, Tick
  <1>4. DOMAIN bearer' = Bearers /\ \A s \in Bearers : bearer'[s] = None \/ bearer'[s] \in Bearer
    <2>1. ASSUME NEW s \in Bearers, NEW u \in Users, Issue(s, u)
          PROVE  DOMAIN bearer' = Bearers
                 /\ \A b \in Bearers : bearer'[b] = None \/ bearer'[b] \in Bearer
      <3>1. [user |-> u, expires |-> now + SessionLife, revoked |-> FALSE] \in Bearer
        BY DEF Bearer, TypeOK, SessionTypeOK
      <3> QED
        BY <2>1, <3>1 DEF Issue, TypeOK, SessionTypeOK
    <2>2. ASSUME NEW s \in Bearers, Revoke(s)
          PROVE  DOMAIN bearer' = Bearers
                 /\ \A b \in Bearers : bearer'[b] = None \/ bearer'[b] \in Bearer
      <3>1. bearer[s] \in Bearer
        BY <2>2 DEF Revoke, TypeOK, SessionTypeOK
      <3>2. [bearer[s] EXCEPT !.revoked = TRUE] \in Bearer
        BY <3>1 DEF Bearer
      <3> QED
        BY <2>2, <3>2 DEF Revoke, TypeOK, SessionTypeOK
    <2>3. CASE UNCHANGED bearer
      BY <2>3 DEF TypeOK, SessionTypeOK
    <2> QED
      BY <2>1, <2>2, <2>3 DEF SessionRequest, Surroundings, ChangeRole, Tick
  <1> QED
    BY <1>1, <1>2, <1>3, <1>4 DEF TypeOK, SessionTypeOK

(* A new record for one call keeps the types of all calls.                 *)
LEMMA CallTypes ==
  ASSUME TypeOK, NEW c \in Calls, NEW new \in ProductCall \cup ImageCall \cup {None},
         call' = [call EXCEPT ![c] = new]
  PROVE  /\ DOMAIN call' = Calls
         /\ \A d \in Calls : call'[d] = None \/ call'[d] \in ProductCall \cup ImageCall
  BY DEF TypeOK, CatalogTypeOK, ImageTypeOK

(* Beginnings and ends of requests, and what threads do in between.        *)
LEMMA IssueTypes ==
  ASSUME TypeOK, NEW s \in Bearers, NEW t \in Tokens, NEW p \in Products, NEW v \in Versions,
         NEW a \in Publications, IssueConfirmation(s, t, p, v, a),
         UNCHANGED <<now, role, bearer, imageVars>>
  PROVE  TypeOK'
  <1>1. [user |-> bearer[s].user, product |-> p, version |-> v, action |-> a,
         expires |-> now + TokenLife] \in Token
    <2>1. bearer[s] \in Bearer
      BY DEF IssueConfirmation, MayWrite, Resolves, TypeOK, SessionTypeOK
    <2> QED
      BY <2>1 DEF Token, Bearer, TypeOK, SessionTypeOK
  <1>2. CatalogTypeOK'
    BY <1>1 DEF IssueConfirmation, TypeOK, CatalogTypeOK
  <1>3. SessionTypeOK'
    BY DEF IssueConfirmation, Take, TypeOK, SessionTypeOK
  <1>4. ImageTypeOK'
    BY DEF IssueConfirmation, imageVars, TypeOK, ImageTypeOK
  <1> QED
    BY <1>2, <1>3, <1>4 DEF TypeOK

LEMMA EnterTypes ==
  ASSUME TypeOK, NEW c \in Calls, NEW s \in Bearers, NEW key \in Keys, NEW request \in Request,
         NEW t \in Tokens \cup {None}, Enter(c, s, key, request, t),
         UNCHANGED <<now, role, bearer, imageVars>>
  PROVE  TypeOK'
  <1> DEFINE new == [step |-> "entered", request |-> request, token |-> t,
                     slot |-> [user |-> bearer[s].user, op |-> request.op, key |-> key]]
  <1>1. new \in ProductCall
    <2>1. bearer[s] \in Bearer
      BY DEF Enter, MayWrite, Resolves, TypeOK, SessionTypeOK
    <2>2. [user |-> bearer[s].user, op |-> request.op, key |-> key] \in Slot
      BY <2>1, RequestShape DEF Slot, Bearer
    <2> QED
      BY <2>2 DEF ProductCall, Entered
  <1>2. call' = [call EXCEPT ![c] = new]
    BY DEF Enter
  <1> HIDE DEF new
  <1>3. CatalogTypeOK' /\ ImageTypeOK'
    BY <1>1, <1>2, CallTypes DEF Enter, imageVars, TypeOK, CatalogTypeOK, ImageTypeOK
  <1>4. SessionTypeOK'
    BY DEF Enter, Take, TypeOK, SessionTypeOK
  <1> QED
    BY <1>3, <1>4 DEF TypeOK

LEMMA EnterImageTypes ==
  ASSUME TypeOK, NEW c \in Calls, NEW s \in Bearers, NEW request \in ImageRequest,
         EnterImage(c, s, request), UNCHANGED <<now, role, bearer>>
  PROVE  TypeOK'
  <1>1. [step |-> "entered", request |-> request] \in ImageCall
    BY DEF ImageCall, EnteredImage
  <1>2. CatalogTypeOK' /\ ImageTypeOK'
    BY <1>1, CallTypes DEF EnterImage, imageVars, TypeOK, CatalogTypeOK, ImageTypeOK
  <1>3. SessionTypeOK'
    BY DEF EnterImage, Take, TypeOK, SessionTypeOK
  <1> QED
    BY <1>2, <1>3 DEF TypeOK
(* A claimed row, once written, is a row.                                  *)
LEMMA WrittenType ==
  ASSUME TypeOK, ReadsAreOld, NEW c \in Calls, At(c, "read"), OnProduct(c)
  PROVE  Changed(call[c].row, call[c].request) \in Row
  <1>1. call[c] \in ReadCall /\ call[c].request \in Request
    BY ProductCallShape DEF At
  <1>2. CASE Creates(c)
    BY <1>1, <1>2, RequestShape, DraftType DEF Creates, Changed
  <1>3. CASE ~Creates(c)
    <2>1. call[c].row \in Row /\ call[c].row.version = call[c].request.version
      BY <1>1, <1>3 DEF ReadsAreOld, ReadCall
    <2> QED
      BY <1>1, <2>1, ChangedType
  <1> QED
    BY <1>2, <1>3

LEMMA ProductStepTypes ==
  ASSUME TypeOK, ReadsAreOld, ProductStep, UNCHANGED <<sessionVars, imageVars>>
  PROVE  TypeOK'
  <1>1. SessionTypeOK'
    BY DEF sessionVars, TypeOK, SessionTypeOK
  <1>2. /\ images' \in [Products -> [Orders -> Blobs \cup {None}]]
        /\ stored' \subseteq Blobs /\ torn' \subseteq Blobs
    BY DEF imageVars, TypeOK, ImageTypeOK
  <1>3. UNCHANGED <<product, claims, token, used>>
    BY DEF ProductStep, Read, Replay, AbandonProduct, Write
  <1>4. \E c \in Calls, new \in ProductCall \cup ImageCall \cup {None} :
          call' = [call EXCEPT ![c] = new]
    <2>1. ASSUME NEW c \in Calls, Read(c)
          PROVE  \E new \in ProductCall : call' = [call EXCEPT ![c] = new]
      <3>1. call[c] \in Entered /\ call[c].request \in Request
        BY <2>1, ProductCallShape DEF Read, At
      <3>2. PICK row \in IF call[c].request.op = "create" THEN {None}
                         ELSE {product[call[c].request.product]} :
              call' = [call EXCEPT ![c] =
                [step |-> "read", slot |-> @.slot, request |-> call[c].request,
                 token |-> @.token, row |-> row]]
        BY <2>1 DEF Read
      <3>3. row \in Row \cup {None}
        BY <3>1, <3>2, RequestShape DEF TypeOK, CatalogTypeOK
      <3>4. [step |-> "read", slot |-> call[c].slot, request |-> call[c].request,
             token |-> call[c].token, row |-> row] \in ReadCall
        BY <3>1, <3>3 DEF Entered, ReadCall
      <3> QED
        BY <3>2, <3>4 DEF ProductCall, TypeOK, CatalogTypeOK
    <2>2. ASSUME NEW c \in Calls, NEW p \in Products, Write(c, p)
          PROVE  \E new \in ProductCall : call' = [call EXCEPT ![c] = new]
      <3>1. call[c] \in ReadCall
        BY <2>2, ProductCallShape DEF Write, At
      <3>2. Changed(call[c].row, call[c].request) \in Row
        BY <2>2, WrittenType DEF Write
      <3>3. [step |-> "answered", slot |-> call[c].slot, request |-> call[c].request,
             token |-> call[c].token, shown |-> p,
             row |-> Changed(call[c].row, call[c].request)] \in Answered
        BY <3>1, <3>2 DEF ReadCall, Answered
      <3> QED
        BY <2>2, <3>3 DEF Write, ProductCall, TypeOK, CatalogTypeOK
    <2>3. ASSUME NEW c \in Calls, Replay(c)
          PROVE  \E new \in ProductCall : call' = [call EXCEPT ![c] = new]
      <3>1. call[c] \in Entered
        BY <2>3, ProductCallShape DEF Replay, At
      <3>2. claims[call[c].slot] \in Claim
        BY <2>3, <3>1 DEF Replay, Unclaimed, Entered, TypeOK, CatalogTypeOK
      <3>3. [step |-> "answered", slot |-> call[c].slot, request |-> call[c].request,
             token |-> call[c].token, shown |-> claims[call[c].slot].product,
             row |-> None] \in Answered
        BY <3>1, <3>2 DEF Entered, Claim, Answered
      <3> QED
        BY <2>3, <3>3 DEF Replay, ProductCall, TypeOK, CatalogTypeOK
    <2>4. ASSUME NEW c \in Calls, AbandonProduct(c)
          PROVE  call' = [call EXCEPT ![c] = None]
      BY <2>4 DEF AbandonProduct
    <2> QED
      BY <2>1, <2>2, <2>3, <2>4 DEF ProductStep
  <1>5. DOMAIN call' = Calls
        /\ \A d \in Calls : call'[d] = None \/ call'[d] \in ProductCall \cup ImageCall
    BY <1>4, CallTypes
  <1> QED
    BY <1>1, <1>2, <1>3, <1>5 DEF TypeOK, CatalogTypeOK, ImageTypeOK

LEMMA CommitProductTypes ==
  ASSUME TypeOK, NEW c \in Calls, CommitProduct(c), UNCHANGED <<sessionVars, imageVars>>
  PROVE  TypeOK'
  <1>1. SessionTypeOK'
    BY DEF sessionVars, TypeOK, SessionTypeOK
  <1>2. call[c] \in Answered
    BY ProductCallShape DEF CommitProduct, At
  <1>3. product' \in [Products -> Row \cup {None}]
    <2>1. call[c].row \in Row \cup {None} /\ call[c].shown \in Products
      BY <1>2 DEF Answered
    <2> QED
      BY <2>1 DEF CommitProduct, TypeOK, CatalogTypeOK
  <1>4. DOMAIN claims' = Slot /\ \A s \in Slot : claims'[s] = None \/ claims'[s] \in Claim
    <2>1. [request |-> call[c].request, product |-> call[c].shown] \in Claim
      BY <1>2 DEF Answered, Claim
    <2> QED
      BY <2>1 DEF CommitProduct, TypeOK, CatalogTypeOK
  <1>5. used' \subseteq Tokens
    BY <1>2 DEF CommitProduct, Answered, TypeOK, CatalogTypeOK
  <1>6. CatalogTypeOK'
    BY <1>3, <1>4, <1>5 DEF CommitProduct, TypeOK, CatalogTypeOK
  <1>7. ImageTypeOK'
    BY CallTypes DEF CommitProduct, imageVars, TypeOK, ImageTypeOK
  <1> QED
    BY <1>1, <1>6, <1>7 DEF TypeOK

LEMMA ImageStepTypes ==
  ASSUME TypeOK, NEW c \in Calls,
         Upload(c) \/ InsertImage(c) \/ InsertFails(c) \/ RemoveImage(c) \/ AbandonImage(c)
           \/ CommitImage(c),
         UNCHANGED sessionVars
  PROVE  TypeOK'
  <1>1. SessionTypeOK'
    BY DEF sessionVars, TypeOK, SessionTypeOK
  <1>2. UNCHANGED <<product, claims, token, used>>
    BY DEF Upload, InsertImage, InsertFails, RemoveImage, AbandonImage, CommitImage, imageVars
  <1>3. SUFFICES /\ images' \in [Products -> [Orders -> Blobs \cup {None}]]
                 /\ stored' \subseteq Blobs
                 /\ torn' \subseteq Blobs
                 /\ \E new \in ImageCall \cup {None} : call' = [call EXCEPT ![c] = new]
    <2>1. ASSUME NEW new \in ImageCall \cup {None}, call' = [call EXCEPT ![c] = new]
          PROVE  DOMAIN call' = Calls
                 /\ \A d \in Calls : call'[d] = None \/ call'[d] \in ProductCall \cup ImageCall
      BY <2>1, CallTypes
    <2> QED
      BY <1>1, <1>2, <1>3, <2>1 DEF TypeOK, CatalogTypeOK, ImageTypeOK
  <1>4. CASE Upload(c)
    <2>1. call[c] \in EnteredImage
      BY <1>4, ImageCallShape DEF Upload, At, OnImage
    <2>2. NewPath \in Blobs
      BY <1>4 DEF Upload, NewPath
    <2>3. [step |-> "stored", request |-> call[c].request, path |-> NewPath] \in ImageCall
      BY <2>1, <2>2 DEF EnteredImage, StoredImage, ImageCall
    <2> QED
      BY <1>4, <2>2, <2>3 DEF Upload, FreshPath, TypeOK, CatalogTypeOK, ImageTypeOK
  <1>5. CASE InsertImage(c)
    <2>1. call[c] \in StoredImage
      BY <1>5, ImageCallShape DEF InsertImage, At
    <2>2. [call[c] EXCEPT !.step = "answered"] \in ImageCall
      BY <2>1 DEF StoredImage, ImageCall
    <2> QED
      BY <1>5, <2>2 DEF InsertImage, imageVars, TypeOK, CatalogTypeOK, ImageTypeOK
  <1>6. CASE InsertFails(c)
    BY <1>6 DEF InsertFails, TypeOK, ImageTypeOK
  <1>7. CASE RemoveImage(c)
    <2>1. call[c] \in EnteredImage
      BY <1>7, ImageCallShape DEF RemoveImage, At, OnImage
    <2>2. images[call[c].request.product][call[c].request.order] \in Blobs
      BY <1>7, <2>1 DEF RemoveImage, EnteredImage, ImageRequest, TypeOK, ImageTypeOK
    <2>3. [step |-> "answered", request |-> call[c].request,
           path |-> images[call[c].request.product][call[c].request.order]] \in ImageCall
      BY <2>1, <2>2 DEF EnteredImage, StoredImage, ImageCall
    <2> QED
      BY <1>7, <2>3 DEF RemoveImage, TypeOK, CatalogTypeOK, ImageTypeOK
  <1>8. CASE AbandonImage(c)
    <2>1. At(c, "answered") => call[c].path \in Blobs
      BY <1>8, ImageCallShape DEF AbandonImage, At, StoredImage
    <2> QED
      BY <1>8, <2>1 DEF AbandonImage, TypeOK, ImageTypeOK
  <1>9. CASE CommitImage(c)
    <2>1. call[c] \in StoredImage
      BY <1>9, ImageCallShape DEF CommitImage, At
    <2>2. images' \in [Products -> [Orders -> Blobs \cup {None}]]
      BY <1>9, <2>1 DEF CommitImage, StoredImage, ImageRequest, TypeOK, ImageTypeOK
    <2> QED
      BY <1>9, <2>2 DEF CommitImage, TypeOK, ImageTypeOK
  <1> QED
    BY <1>4, <1>5, <1>6, <1>7, <1>8, <1>9
------------------------------------------------------------------------------
(* The inductive invariant.                                                *)

(* Without the types, which have lemmas of their own.                      *)
Settled ==
    /\ ProductsAreThere
    /\ OneClaimant
    /\ RepliesMatchRequests
    /\ ReadsAreOld
    /\ WritesFollow
    /\ ClaimsAreChanges
    /\ TokensConfirm
    /\ SpentTokensAreOld

(* Nothing is disturbed by what only ends calls, changes calls about       *)
(* images, or gives out a token.                                           *)
LEMMA FramePreserves ==
  ASSUME ProductsInductive, TypeOK', UNCHANGED <<product, claims, used>>,
         \A t \in Tokens : token[t] # None => token'[t] = token[t],
         \A d \in Calls : (call'[d] # None /\ OnProduct(d)') => call'[d] = call[d]
  PROVE  Settled'
  <1> USE DEF ProductsInductive, At, OnProduct, Writes, Claims, Creates
  <1>1. ProductsAreThere'
    BY DEF ProductsAreThere
  <1>2. OneClaimant'
    BY DEF OneClaimant
  <1>3. RepliesMatchRequests'
    BY DEF RepliesMatchRequests
  <1>4. ReadsAreOld'
    BY DEF ReadsAreOld
  <1>5. WritesFollow'
    BY DEF WritesFollow, SkuIsFree
  <1>6. ClaimsAreChanges'
    BY DEF ClaimsAreChanges
  <1>7. TokensConfirm'
    <2> SUFFICES ASSUME NEW c \in Calls, call[c] # None, OnProduct(c), call'[c] = call[c]
                 PROVE  Confirmed(c)'
      BY DEF TokensConfirm
    <2>1. Confirmed(c) /\ call[c].token \in Tokens \cup {None}
      BY ProductCallShape DEF TokensConfirm
    <2>2. CASE call[c].token = None
      BY <2>1, <2>2 DEF Confirmed
    <2>3. CASE call[c].token # None
      <3>1. token[call[c].token] # None => token'[call[c].token] = token[call[c].token]
        BY <2>1, <2>3
      <3> QED
        BY <2>1, <2>3, <3>1 DEF Confirmed, NamesRequest
    <2> QED
      BY <2>2, <2>3
  <1>8. SpentTokensAreOld'
    BY DEF SpentTokensAreOld, TypeOK, CatalogTypeOK
  <1> QED
    BY <1>1, <1>2, <1>3, <1>4, <1>5, <1>6, <1>7, <1>8 DEF Settled
(* A call that enters names a product that is there, and its user's token. *)
LEMMA EnterPreserves ==
  ASSUME ProductsInductive, TypeOK', NEW c \in Calls, NEW s \in Bearers, NEW key \in Keys,
         NEW request \in Request, NEW t \in Tokens \cup {None}, Enter(c, s, key, request, t)
  PROVE  Settled'
  <1> USE DEF ProductsInductive, At, OnProduct, Writes, Claims, Creates
  <1>1. /\ call[c] = None
        /\ call'[c] = [step |-> "entered", request |-> request, token |-> t,
                       slot |-> [user |-> bearer[s].user, op |-> request.op, key |-> key]]
        /\ \A d \in Calls \ {c} : call'[d] = call[d]
        /\ UNCHANGED <<product, claims, token, used>>
    BY DEF Enter, TypeOK, CatalogTypeOK
  <1>2. ProductsAreThere'
    BY <1>1 DEF ProductsAreThere, Enter
  <1>3. OneClaimant'
    BY <1>1 DEF OneClaimant
  <1>4. RepliesMatchRequests'
    BY <1>1 DEF RepliesMatchRequests
  <1>5. ReadsAreOld'
    BY <1>1 DEF ReadsAreOld
  <1>6. WritesFollow'
    BY <1>1 DEF WritesFollow, SkuIsFree
  <1>7. ClaimsAreChanges'
    BY <1>1 DEF ClaimsAreChanges
  <1>8. TokensConfirm'
    <2>1. Confirmed(c)'
      BY <1>1 DEF Confirmed, Enter, Confirms, NamesRequest
    <2>2. ASSUME NEW d \in Calls \ {c}, Confirmed(d)
          PROVE  Confirmed(d)'
      BY <1>1, <2>2 DEF Confirmed, NamesRequest
    <2> QED
      BY <1>1, <2>1, <2>2 DEF TokensConfirm
  <1>9. SpentTokensAreOld'
    BY <1>1 DEF SpentTokensAreOld
  <1> QED
    BY <1>2, <1>3, <1>4, <1>5, <1>6, <1>7, <1>8, <1>9 DEF Settled

(* A call that claims its key is the only claimant, and reads the product  *)
(* as it is.                                                               *)
LEMMA ReadPreserves ==
  ASSUME ProductsInductive, TypeOK', NEW c \in Calls, Read(c)
  PROVE  Settled'
  <1> USE DEF ProductsInductive, At, OnProduct, Writes, Claims, Creates
  <1> DEFINE request == call[c].request
  <1>1. PICK row \in IF request.op = "create" THEN {None} ELSE {product[request.product]} :
          /\ request.op # "create" => row.version = request.version
          /\ call' = [call EXCEPT ![c] =
               [step |-> "read", slot |-> @.slot, request |-> request, token |-> @.token,
                row |-> row]]
    BY DEF Read
  <1>2. /\ call'[c] = [step |-> "read", slot |-> call[c].slot, request |-> request,
                       token |-> call[c].token, row |-> row]
        /\ \A d \in Calls \ {c} : call'[d] = call[d]
        /\ UNCHANGED <<product, claims, token, used>>
    BY <1>1 DEF Read, TypeOK, CatalogTypeOK
  <1>3. call[c] # None /\ call[c].step = "entered" /\ OnProduct(c) /\ request \in Request
    BY ProductCallShape DEF Read
  <1> HIDE DEF request
  <1>4. ProductsAreThere'
    BY <1>2, <1>3 DEF ProductsAreThere, request
  <1>5. OneClaimant'
    <2>1. claims[call[c].slot] = None
      BY DEF Read, Unclaimed
    <2>2. \A d \in Calls \ {c} : ~Claims(d, call[c].slot)
      BY DEF Read, KeyIsSettled
    <2>3. \A slot \in Slot : Claims(c, slot)' => slot = call[c].slot
      BY <1>2, <1>3 DEF request
    <2> QED
      BY <1>2, <2>1, <2>2, <2>3 DEF OneClaimant
  <1>6. RepliesMatchRequests'
    <2> SUFFICES ASSUME NEW d \in Calls \ {c}, At(d, "answered"), OnProduct(d)
                 PROVE  IF call[d].row = None
                          THEN claims[call[d].slot] = [request |-> call[d].request,
                                                       product |-> call[d].shown]
                          ELSE /\ claims[call[d].slot] = None
                               /\ \A e \in Calls \ {d} : ~Claims(e, call[d].slot)'
      BY <1>2 DEF RepliesMatchRequests
    <2>1. call[d].slot \in Slot
      BY ProductCallShape
    <2> QED
      BY <1>2, <1>5, <2>1 DEF RepliesMatchRequests, OneClaimant
  <1>7. ReadsAreOld'
    <2>1. ASSUME ~Creates(c)
          PROVE  /\ row = product[request.product]
                 /\ row # None
                 /\ row.version <= row.version
      <3>1. row = product[request.product] /\ row # None
        BY <1>1, <1>3, <2>1 DEF ProductsAreThere, request
      <3>2. row \in Row
        BY <1>3, <2>1, <3>1, RequestShape DEF request, TypeOK, CatalogTypeOK
      <3> QED
        BY <3>1, <3>2 DEF Row
    <2> QED
      BY <1>1, <1>2, <2>1 DEF ReadsAreOld, request
  <1>8. WritesFollow'
    BY <1>2 DEF WritesFollow, SkuIsFree
  <1>9. ClaimsAreChanges' /\ SpentTokensAreOld'
    BY <1>2 DEF ClaimsAreChanges, SpentTokensAreOld
  <1>10. TokensConfirm'
    <2>1. \A d \in Calls : Confirmed(d) => Confirmed(d)'
      BY <1>2 DEF Confirmed, NamesRequest, request
    <2> QED
      BY <1>2, <1>3, <2>1 DEF TokensConfirm, request
  <1> QED
    BY <1>4, <1>5, <1>6, <1>7, <1>8, <1>9, <1>10 DEF Settled
(* A row is written when the product still is what was read, and nobody    *)
(* else is about to commit one for the product or the sku.                 *)
LEMMA WritePreserves ==
  ASSUME ProductsInductive, TypeOK', NEW c \in Calls, NEW p \in Products, Write(c, p)
  PROVE  Settled'
  <1> USE DEF ProductsInductive, At, OnProduct, Writes, Claims, Creates
  <1> DEFINE request == call[c].request
             new == Changed(call[c].row, request)
  <1>1. /\ call'[c] = [step |-> "answered", slot |-> call[c].slot, request |-> request,
                       token |-> call[c].token, shown |-> p, row |-> new]
        /\ \A d \in Calls \ {c} : call'[d] = call[d]
        /\ UNCHANGED <<product, claims, token, used>>
    BY DEF Write, TypeOK, CatalogTypeOK
  <1>2. /\ call[c] # None /\ call[c].step = "read" /\ OnProduct(c)
        /\ request \in Request /\ call[c].slot \in Slot
    BY ProductCallShape DEF Write
  <1>3. new \in Row /\ new # None
    BY WrittenType DEF Write
  <1>4. new = Changed(product[p], request)
    <2>1. CASE request.op = "create"
      BY <2>1 DEF Changed
    <2>2. CASE request.op # "create"
      <3>1. p = request.product /\ product[p].version = call[c].row.version
        BY <2>2 DEF Write, Target, StillAtVersion
      <3> QED
        BY <1>2, <2>2, <3>1 DEF ReadsAreOld
    <2> QED
      BY <2>1, <2>2
  <1>5. IF Creates(c)
          THEN product[p] = None /\ SkuIsFree(request.sku)
          ELSE p = request.product /\ product[p].version = request.version
    BY <1>2 DEF Write, Target, StillAtVersion, ReadsAreOld
  <1>6. \A d \in Calls \ {c} : Writes(d) =>
           call[d].shown # p /\ (Creates(c) => call[d].row.sku # request.sku)
    BY DEF Write
  <1> HIDE DEF request, new
  <1>7. ProductsAreThere'
    BY <1>1, <1>2 DEF ProductsAreThere, request
  <1>8. OneClaimant'
    <2>1. \A d \in Calls, slot \in Slot : Claims(d, slot)' => Claims(d, slot)
      BY <1>1, <1>2 DEF request
    <2> QED
      BY <1>1, <2>1 DEF OneClaimant
  <1>9. RepliesMatchRequests'
    <2>1. ASSUME NEW d \in Calls, At(d, "answered")', OnProduct(d)', call'[d].row = None
          PROVE  (claims[call[d].slot] = [request |-> call[d].request,
                                          product |-> call[d].shown])'
      BY <1>1, <1>3, <2>1 DEF RepliesMatchRequests
    <2>2. ASSUME NEW d \in Calls, At(d, "answered")', OnProduct(d)', call'[d].row # None
          PROVE  (/\ claims[call[d].slot] = None
                  /\ \A e \in Calls \ {d} : ~Claims(e, call[d].slot))'
      <3>1. call'[d].slot \in Slot
        <4>1. CASE d = c
          BY <1>1, <1>2, <4>1
        <4>2. CASE d # c
          BY <1>1, <2>2, <4>2, ProductCallShape
        <4> QED
          BY <4>1, <4>2
      <3>2. Claims(d, call[d].slot)'
        BY <2>2
      <3> QED
        BY <1>1, <1>8, <3>1, <3>2 DEF OneClaimant
    <2> QED
      BY <1>1, <2>1, <2>2 DEF RepliesMatchRequests
  <1>10. ReadsAreOld'
    BY <1>1 DEF ReadsAreOld
  <1>11. WritesFollow'
    <2>1. \A d \in Calls \ {c} : (Writes(d) /\ Creates(d)) => call[d].row.sku = call[d].request.sku
      <3> SUFFICES ASSUME NEW d \in Calls \ {c}, Writes(d), Creates(d)
                   PROVE  call[d].row.sku = call[d].request.sku
        OBVIOUS
      <3>1. call[d].row = Changed(product[call[d].shown], call[d].request)
        BY DEF WritesFollow
      <3>2. call[d].row = Draft(call[d].request.sku)
        BY <3>1 DEF Changed
      <3> QED
        BY <3>2 DEF Draft
    <2> QED
      BY <1>1, <1>4, <1>5, <1>6, <2>1 DEF WritesFollow, SkuIsFree, request
  <1>12. ClaimsAreChanges' /\ SpentTokensAreOld'
    BY <1>1 DEF ClaimsAreChanges, SpentTokensAreOld
  <1>13. TokensConfirm'
    <2>1. \A d \in Calls : Confirmed(d) => Confirmed(d)'
      BY <1>1 DEF Confirmed, NamesRequest, request
    <2> QED
      BY <1>1, <1>2, <2>1 DEF TokensConfirm, request
  <1> QED
    BY <1>7, <1>8, <1>9, <1>10, <1>11, <1>12, <1>13 DEF Settled

(* A replay shows what the claim of its key names.                         *)
LEMMA ReplayPreserves ==
  ASSUME ProductsInductive, TypeOK', NEW c \in Calls, Replay(c)
  PROVE  Settled'
  <1> USE DEF ProductsInductive, At, OnProduct, Writes, Claims, Creates
  <1> DEFINE claim == claims[call[c].slot]
  <1>1. /\ call'[c] = [step |-> "answered", slot |-> call[c].slot, request |-> call[c].request,
                       token |-> call[c].token, shown |-> claim.product, row |-> None]
        /\ \A d \in Calls \ {c} : call'[d] = call[d]
        /\ UNCHANGED <<product, claims, token, used>>
    BY DEF Replay, TypeOK, CatalogTypeOK
  <1>2. call[c] # None /\ call[c].step = "entered" /\ OnProduct(c) /\ call[c].slot \in Slot
    BY ProductCallShape DEF Replay
  <1>3. claim = [request |-> call[c].request, product |-> claim.product]
    <2>1. claim \in Claim
      BY <1>2 DEF Replay, Unclaimed, TypeOK, CatalogTypeOK
    <2> QED
      BY <2>1 DEF Replay, SameRequest, Claim
  <1>4. ProductsAreThere'
    BY <1>1, <1>2 DEF ProductsAreThere
  <1>5. OneClaimant'
    BY <1>1 DEF OneClaimant
  <1>6. RepliesMatchRequests'
    BY <1>1, <1>3 DEF RepliesMatchRequests
  <1>7. ReadsAreOld'
    BY <1>1 DEF ReadsAreOld
  <1>8. WritesFollow'
    BY <1>1 DEF WritesFollow, SkuIsFree
  <1>9. ClaimsAreChanges' /\ SpentTokensAreOld'
    BY <1>1 DEF ClaimsAreChanges, SpentTokensAreOld
  <1>10. TokensConfirm'
    <2>1. \A d \in Calls : Confirmed(d) => Confirmed(d)'
      BY <1>1 DEF Confirmed, NamesRequest
    <2> QED
      BY <1>1, <1>2, <2>1 DEF TokensConfirm
  <1> QED
    BY <1>4, <1>5, <1>6, <1>7, <1>8, <1>9, <1>10 DEF Settled

(* What the commit of a row does to the products.                          *)
LEMMA CommittedRow ==
  ASSUME ProductsInductive, NEW c \in Calls, CommitProduct(c), call[c].row # None
  PROVE  /\ call[c].shown \in Products /\ call[c].row \in Row
         /\ product' = [product EXCEPT ![call[c].shown] = call[c].row]
         /\ product[call[c].shown] # None =>
              /\ call[c].row.version = product[call[c].shown].version + 1
              /\ call[c].row.sku = product[call[c].shown].sku
  <1>1. call[c] \in Answered /\ call[c].shown \in Products /\ call[c].row \in Row
    BY ProductCallShape DEF ProductsInductive, CommitProduct, At, Answered
  <1>2. Writes(c)
    BY DEF CommitProduct, Writes
  <1>3. ASSUME product[call[c].shown] # None
        PROVE  /\ call[c].row.version = product[call[c].shown].version + 1
               /\ call[c].row.sku = product[call[c].shown].sku
    <2>1. call[c].row = Changed(product[call[c].shown], call[c].request) /\ ~Creates(c)
      BY <1>2, <1>3 DEF ProductsInductive, WritesFollow
    <2>2. product[call[c].shown] \in Row
      BY <1>1, <1>3 DEF ProductsInductive, TypeOK, CatalogTypeOK
    <2> QED
      BY <2>1, <2>2 DEF Changed, Creates, NextVersion, Row
  <1> QED
    BY <1>1, <1>3 DEF CommitProduct
(* A product that is there stays, and its version never goes back.         *)
LEMMA VersionsGrow ==
  ASSUME ProductsInductive, NEW c \in Calls, CommitProduct(c), NEW p \in Products, product[p] # None
  PROVE  /\ product'[p] # None
         /\ product'[p].sku = product[p].sku
         /\ \/ product'[p] = product[p]
            \/ /\ call[c].row # None /\ p = call[c].shown
               /\ product'[p].version = product[p].version + 1
  <1>1. CASE call[c].row = None
    BY <1>1 DEF CommitProduct
  <1>2. CASE call[c].row # None
    BY <1>2, CommittedRow DEF ProductsInductive, TypeOK, CatalogTypeOK
  <1> QED
    BY <1>1, <1>2

(* What a call spends when it commits is old by then.                      *)
LEMMA CommitSpends ==
  ASSUME ProductsInductive, NEW c \in Calls, CommitProduct(c), call[c].token # None
  PROVE  LET t == call[c].token IN
         /\ token[t] # None
         /\ product'[token[t].product] # None
         /\ product'[token[t].product].version > token[t].version
  <1>1. call[c] \in Answered /\ call[c].request \in Request /\ call[c].slot \in Slot
    BY ProductCallShape DEF ProductsInductive, CommitProduct, At
  <1>2. Confirmed(c) /\ call[c].request.op \in Publications /\ ~Creates(c)
    <2>1. Confirmed(c)
      BY DEF ProductsInductive, CommitProduct, At, TokensConfirm
    <2>2. call[c].request.op \in Publications
      BY <2>1 DEF Confirmed
    <2> QED
      BY <2>1, <2>2 DEF Creates, Publications
  <1>3. /\ token[call[c].token] # None
        /\ token[call[c].token].product = call[c].request.product
        /\ token[call[c].token].version = call[c].request.version
    BY <1>2 DEF Confirmed, NamesRequest
  <1>4. call[c].request.product \in Products /\ call[c].request.version \in Versions
    BY <1>1, <1>2, RequestShape DEF Creates
  <1>5. product[call[c].request.product] # None
    BY <1>2 DEF ProductsInductive, CommitProduct, At, ProductsAreThere
  <1>6. product'[call[c].request.product].version > call[c].request.version
    <2>1. CASE call[c].row = None
      <3>1. claims[call[c].slot] = [request |-> call[c].request, product |-> call[c].shown]
        BY <2>1 DEF ProductsInductive, CommitProduct, RepliesMatchRequests
      <3>2. claims[call[c].slot] # None
        BY <1>1, <3>1 DEF Claim, Answered
      <3>3. claims[call[c].slot].request = call[c].request
        BY <3>1
      <3> QED
        BY <1>1, <1>2, <2>1, <3>2, <3>3 DEF ProductsInductive, ClaimsAreChanges, Creates, CommitProduct
    <2>2. CASE call[c].row # None
      <3>1. call[c].shown = call[c].request.product
            /\ product[call[c].shown].version = call[c].request.version
        BY <1>2, <2>2 DEF ProductsInductive, CommitProduct, Writes, WritesFollow
      <3>2. call[c].row.version = call[c].request.version + 1
        BY <1>5, <2>2, <3>1, CommittedRow
      <3>3. product'[call[c].request.product] = call[c].row
        BY <1>4, <2>2, <3>1, CommittedRow DEF ProductsInductive, TypeOK, CatalogTypeOK
      <3> QED
        BY <1>4, <3>2, <3>3 DEF Versions
    <2> QED
      BY <2>1, <2>2
  <1> QED
    BY <1>3, <1>4, <1>5, <1>6, VersionsGrow

(* A commit writes no claim but its own, which was not there.              *)
LEMMA ClaimsStay ==
  ASSUME ProductsInductive, NEW c \in Calls, CommitProduct(c)
  PROVE  \A slot \in Slot : claims[slot] # None => claims'[slot] = claims[slot]
  <1>1. CASE call[c].row = None
    BY <1>1 DEF CommitProduct
  <1>2. CASE call[c].row # None
    <2>1. call[c] # None /\ call[c].slot \in Slot /\ Claims(c, call[c].slot)
      BY <1>2, ProductCallShape DEF ProductsInductive, CommitProduct, At, Claims, Writes
    <2>2. claims[call[c].slot] = None
      BY <2>1 DEF ProductsInductive, OneClaimant
    <2> QED
      BY <1>2, <2>2 DEF CommitProduct, ProductsInductive, TypeOK, CatalogTypeOK
  <1> QED
    BY <1>1, <1>2

(* The commit of a call: of the others, none named the key, the product or *)
(* the sku that it commits.                                                *)
LEMMA CommitPreserves ==
  ASSUME ProductsInductive, TypeOK', NEW c \in Calls, CommitProduct(c), UNCHANGED <<sessionVars, imageVars>>
  PROVE  Settled'
  <1> USE DEF ProductsInductive, At, OnProduct, Writes, Claims, Creates
  <1>1. /\ call'[c] = None
        /\ \A d \in Calls \ {c} : call'[d] = call[d]
        /\ UNCHANGED token
    BY DEF CommitProduct, TypeOK, CatalogTypeOK
  <1>2. call[c] \in Answered /\ call[c].slot \in Slot /\ call[c].request \in Request
    BY ProductCallShape DEF CommitProduct
  <1>3. \A p \in Products, v \in Nat :
          product[p] # None /\ product[p].version > v =>
            product'[p] # None /\ product'[p].version > v
    <2> SUFFICES ASSUME NEW p \in Products, NEW v \in Nat, product[p] # None,
                        product[p].version > v
                 PROVE  product'[p] # None /\ product'[p].version > v
      OBVIOUS
    <2>1. product[p].version \in Nat
      BY DEF TypeOK, CatalogTypeOK, Row
    <2> QED
      BY <2>1, VersionsGrow
  <1>4. ProductsAreThere'
    <2> SUFFICES ASSUME NEW d \in Calls \ {c}, call[d] # None, OnProduct(d), ~Creates(d)
                 PROVE  product'[call[d].request.product] # None
      BY <1>1 DEF ProductsAreThere
    <2>1. call[d].request.product \in Products
      BY ProductCallShape, RequestShape
    <2> QED
      BY <2>1, VersionsGrow DEF ProductsAreThere
  <1>5. \A slot \in Slot : claims[slot] # None => claims'[slot] = claims[slot]
    BY ClaimsStay
  <1>6. OneClaimant'
    <2> SUFFICES ASSUME NEW d \in Calls \ {c}, NEW slot \in Slot, Claims(d, slot)
                 PROVE  /\ claims'[slot] = None
                        /\ \A e \in Calls \ {d} : ~Claims(e, slot)'
      BY <1>1 DEF OneClaimant
    <2>1. claims[slot] = None /\ \A e \in Calls \ {d} : ~Claims(e, slot)
      BY DEF OneClaimant
    <2>2. claims'[slot] = None
      <3>1. CASE call[c].row = None
        BY <2>1, <3>1 DEF CommitProduct
      <3>2. CASE call[c].row # None
        <4>1. slot # call[c].slot
          BY <2>1, <3>2 DEF CommitProduct
        <4> QED
          BY <2>1, <3>2, <4>1 DEF CommitProduct, TypeOK, CatalogTypeOK
      <3> QED
        BY <3>1, <3>2
    <2> QED
      BY <1>1, <2>1, <2>2
  <1>7. RepliesMatchRequests'
    <2>1. ASSUME NEW d \in Calls \ {c}, At(d, "answered"), OnProduct(d), call[d].row = None
          PROVE  claims'[call[d].slot] = [request |-> call[d].request, product |-> call[d].shown]
      <3>1. call[d] \in Answered /\ call[d].slot \in Slot
        BY <2>1, ProductCallShape
      <3>2. claims[call[d].slot] = [request |-> call[d].request, product |-> call[d].shown]
        BY <2>1 DEF RepliesMatchRequests
      <3>3. claims[call[d].slot] # None
        BY <3>1, <3>2 DEF Claim, Answered
      <3> QED
        BY <1>5, <3>1, <3>2, <3>3
    <2>2. ASSUME NEW d \in Calls \ {c}, At(d, "answered"), OnProduct(d), call[d].row # None
          PROVE  /\ claims'[call[d].slot] = None
                 /\ \A e \in Calls \ {d} : ~Claims(e, call[d].slot)'
      <3>1. call[d].slot \in Slot
        BY <2>2, ProductCallShape
      <3> QED
        BY <1>1, <1>6, <2>2, <3>1 DEF OneClaimant
    <2> QED
      BY <1>1, <2>1, <2>2 DEF RepliesMatchRequests
  <1>8. ReadsAreOld'
    <2> SUFFICES ASSUME NEW d \in Calls \ {c}, At(d, "read"), OnProduct(d), ~Creates(d)
                 PROVE  LET there == product'[call[d].request.product] IN
                        /\ call[d].row # None
                        /\ call[d].row.version = call[d].request.version
                        /\ call[d].row.version <= there.version
                        /\ call[d].row.version = there.version => call[d].row = there
      BY <1>1 DEF ReadsAreOld
    <2>1. call[d].request.product \in Products
      BY ProductCallShape, RequestShape
    <2>2. product[call[d].request.product] # None
      BY DEF ProductsAreThere
    <2>3. product[call[d].request.product] \in Row
      BY <2>1, <2>2 DEF TypeOK, CatalogTypeOK
    <2>4. call[d].row \in Row
      BY ProductCallShape DEF ReadsAreOld, ReadCall
    <2>5. call[d].row.version \in Nat /\ product[call[d].request.product].version \in Nat
      BY <2>3, <2>4 DEF Row
    <2> QED
      BY <2>1, <2>2, <2>5, VersionsGrow DEF ReadsAreOld
  <1>9. WritesFollow'
    <2> SUFFICES ASSUME NEW d \in Calls \ {c}, Writes(d)
                 PROVE  /\ product'[call[d].shown] = product[call[d].shown]
                        /\ Creates(d) => SkuIsFree(call[d].request.sku)'
      BY <1>1 DEF WritesFollow
    <2>1. call[d].shown \in Products
      BY ProductCallShape DEF Answered
    <2>2. product'[call[d].shown] = product[call[d].shown]
      <3>1. CASE call[c].row = None
        BY <3>1 DEF CommitProduct
      <3>2. CASE call[c].row # None
        <4>1. call[d].shown # call[c].shown
          BY <3>2 DEF CommitProduct, WritesFollow
        <4> QED
          BY <2>1, <3>2, <4>1, CommittedRow DEF TypeOK, CatalogTypeOK
      <3> QED
        BY <3>1, <3>2
    <2>3. ASSUME Creates(d), NEW p \in Products, product'[p] # None
          PROVE  product'[p].sku # call[d].request.sku
      <3>1. SkuIsFree(call[d].request.sku)
        BY <2>3 DEF WritesFollow
      <3>2. CASE product[p] # None
        BY <3>1, <3>2, VersionsGrow DEF SkuIsFree
      <3>3. CASE product[p] = None
        <4>1. call[c].row # None /\ p = call[c].shown
          BY <2>3, <3>3, CommittedRow DEF CommitProduct, TypeOK, CatalogTypeOK
        <4>2. product'[p] = call[c].row /\ call[c].row = Changed(product[p], call[c].request)
          BY <4>1, CommittedRow DEF CommitProduct, WritesFollow, TypeOK, CatalogTypeOK
        <4>3. Creates(c)
          BY <3>3, <4>1 DEF CommitProduct, WritesFollow, ProductsAreThere
        <4>4. call[c].row = Draft(call[c].request.sku)
          BY <4>2, <4>3 DEF Changed
        <4>5. call[c].request.sku # call[d].request.sku
          BY <2>3, <4>1, <4>3 DEF CommitProduct, WritesFollow
        <4> QED
          BY <4>2, <4>4, <4>5 DEF Draft
      <3> QED
        BY <3>2, <3>3
    <2> QED
      BY <1>1, <2>2, <2>3 DEF SkuIsFree
  <1>10. ClaimsAreChanges'
    <2> SUFFICES ASSUME NEW slot \in Slot, claims'[slot] # None,
                        claims'[slot].request.op # "create"
                 PROVE  /\ product'[claims'[slot].request.product] # None
                        /\ product'[claims'[slot].request.product].version
                             > claims'[slot].request.version
      BY DEF ClaimsAreChanges
    <2>1. CASE claims[slot] # None
      <3>1. claims'[slot] = claims[slot] /\ claims[slot] \in Claim
        BY <1>5, <2>1 DEF TypeOK, CatalogTypeOK
      <3>2. claims[slot].request.product \in Products /\ claims[slot].request.version \in Nat
        BY <3>1, RequestShape DEF Claim, Versions
      <3> QED
        BY <1>3, <2>1, <3>1, <3>2 DEF ClaimsAreChanges
    <2>2. CASE claims[slot] = None
      <3>1. call[c].row # None /\ slot = call[c].slot
        BY <2>2 DEF CommitProduct, TypeOK, CatalogTypeOK
      <3>2. claims'[slot] = [request |-> call[c].request, product |-> call[c].shown]
        BY <3>1 DEF CommitProduct, TypeOK, CatalogTypeOK
      <3>3. ~Creates(c)
        BY <3>2
      <3>4. call[c].shown = call[c].request.product
            /\ product[call[c].shown].version = call[c].request.version
        BY <3>1, <3>3 DEF CommitProduct, WritesFollow
      <3>5. product[call[c].shown] # None
        BY <3>3, <3>4 DEF CommitProduct, ProductsAreThere
      <3>6. call[c].request.version \in Nat /\ call[c].shown \in Products
        BY <1>2, <3>3, <3>4, RequestShape DEF Versions
      <3> QED
        BY <3>1, <3>2, <3>4, <3>5, <3>6, CommittedRow DEF TypeOK, CatalogTypeOK
    <2> QED
      BY <2>1, <2>2
  <1>11. TokensConfirm'
    <2>1. \A d \in Calls \ {c} : Confirmed(d) => Confirmed(d)'
      BY <1>1 DEF Confirmed, NamesRequest
    <2> QED
      BY <1>1, <2>1 DEF TokensConfirm
  <1>12. SpentTokensAreOld'
    <2> SUFFICES ASSUME NEW t \in used'
                 PROVE  /\ token[t] # None
                        /\ product'[token[t].product] # None
                        /\ product'[token[t].product].version > token[t].version
      BY <1>1 DEF SpentTokensAreOld
    <2>1. CASE t \in used
      <3>1. token[t] \in Token
        BY <2>1 DEF SpentTokensAreOld, TypeOK, CatalogTypeOK
      <3>2. token[t].product \in Products /\ token[t].version \in Nat
        BY <3>1 DEF Token, Versions
      <3> QED
        BY <1>3, <2>1, <3>2 DEF SpentTokensAreOld
    <2>2. CASE t \notin used
      BY <2>2, CommitSpends DEF CommitProduct
    <2> QED
      BY <2>1, <2>2
  <1> QED
    BY <1>4, <1>6, <1>7, <1>8, <1>9, <1>10, <1>11, <1>12 DEF Settled
(* Initially there are no calls, claims or spent tokens.                   *)
LEMMA InitSettled == Init => ProductsInductive
  BY InitTypes DEF Init, CatalogInit, ProductsInductive, ProductsAreThere, OneClaimant,
       RepliesMatchRequests, ReadsAreOld, WritesFollow, ClaimsAreChanges, TokensConfirm,
       SpentTokensAreOld, At, Writes, Claims

(* A step about an image leaves every call about a product as it is.       *)
LEMMA ImagePreserves ==
  ASSUME ProductsInductive, TypeOK', NEW c \in Calls,
         Upload(c) \/ InsertImage(c) \/ InsertFails(c) \/ RemoveImage(c) \/ AbandonImage(c)
           \/ CommitImage(c)
  PROVE  Settled'
  <1>1. call[c] # None /\ (OnImage(c) \/ call[c].step = "stored")
    BY DEF Upload, InsertImage, InsertFails, RemoveImage, AbandonImage, CommitImage, At, OnImage
  <1>2. call[c].request \in ImageRequest /\ call[c] \in ImageCall
    BY <1>1, ImageCallShape DEF ProductsInductive
  <1>3. call[c].request.op \notin Operations
    BY <1>2 DEF ImageRequest, Operations, Publications
  <1>4. /\ call'[c] = None \/ call'[c].request = call[c].request
        /\ \A d \in Calls \ {c} : call'[d] = call[d]
    <2>1. CASE InsertImage(c)
      <3>1. [call[c] EXCEPT !.step = "answered"].request = call[c].request
        BY <1>2 DEF ImageCall, EnteredImage, StoredImage
      <3> QED
        BY <2>1, <3>1 DEF InsertImage, ProductsInductive, TypeOK, CatalogTypeOK
    <2>2. CASE Upload(c)
      BY <2>2 DEF Upload, ProductsInductive, TypeOK, CatalogTypeOK
    <2>3. CASE RemoveImage(c)
      BY <2>3 DEF RemoveImage, ProductsInductive, TypeOK, CatalogTypeOK
    <2>4. CASE InsertFails(c) \/ AbandonImage(c) \/ CommitImage(c)
      BY <2>4 DEF InsertFails, AbandonImage, CommitImage, ProductsInductive, TypeOK, CatalogTypeOK
    <2> QED
      BY <2>1, <2>2, <2>3, <2>4
  <1>5. UNCHANGED <<product, claims, token, used>>
    BY DEF Upload, InsertImage, InsertFails, RemoveImage, AbandonImage, CommitImage
  <1>6. \A d \in Calls : (call'[d] # None /\ OnProduct(d)') => call'[d] = call[d]
    BY <1>3, <1>4 DEF OnProduct
  <1> QED
    BY <1>5, <1>6, FramePreserves

(* Every step keeps the invariant.                                         *)
LEMMA NextPreserves ==
  ASSUME ProductsInductive, [Next]_vars
  PROVE  ProductsInductive'
  <1> SUFFICES TypeOK' /\ Settled'
    BY DEF ProductsInductive, Settled
  <1>1. TypeOK /\ ReadsAreOld
    BY DEF ProductsInductive
  <1>2. CASE (SessionRequest \/ Surroundings) /\ UNCHANGED <<catalogVars, imageVars>>
    BY <1>1, <1>2, SessionTypes, FramePreserves DEF catalogVars
  <1>3. CASE ProductStep /\ UNCHANGED <<sessionVars, imageVars>>
    <2>1. TypeOK'
      BY <1>1, <1>3, ProductStepTypes
    <2>2. ASSUME NEW c \in Calls, AbandonProduct(c)
          PROVE  Settled'
      <3>1. \A d \in Calls : call'[d] # None => call'[d] = call[d]
        BY <1>1, <2>2 DEF AbandonProduct, TypeOK, CatalogTypeOK
      <3> QED
        BY <2>1, <2>2, <3>1, FramePreserves DEF AbandonProduct
    <2>3. Settled'
      BY <1>3, <2>1, <2>2, ReadPreserves, WritePreserves, ReplayPreserves DEF ProductStep
    <2> QED
      BY <2>1, <2>3
  <1>4. CASE ImageStep /\ UNCHANGED sessionVars
    BY <1>1, <1>4, ImageStepTypes, ImagePreserves DEF ImageStep
  <1>5. CASE Start /\ UNCHANGED <<now, role, bearer>>
    <2>1. ASSUME NEW s \in Bearers, NEW t \in Tokens, NEW p \in Products, NEW v \in Versions,
                 NEW a \in Publications, IssueConfirmation(s, t, p, v, a), UNCHANGED imageVars
          PROVE  TypeOK' /\ Settled'
      <3>1. TypeOK'
        BY <1>1, <1>5, <2>1, IssueTypes
      <3>2. UNCHANGED <<product, claims, used, call>>
            /\ \A x \in Tokens : token[x] # None => token'[x] = token[x]
        BY <1>1, <2>1 DEF IssueConfirmation, TypeOK, CatalogTypeOK
      <3> QED
        BY <3>1, <3>2, FramePreserves
    <2>2. ASSUME NEW c \in Calls, NEW s \in Bearers, NEW key \in Keys, NEW request \in Request,
                 NEW t \in Tokens \cup {None}, Enter(c, s, key, request, t), UNCHANGED imageVars
          PROVE  TypeOK' /\ Settled'
      <3>1. TypeOK'
        BY <1>1, <1>5, <2>2, EnterTypes
      <3> QED
        BY <2>2, <3>1, EnterPreserves
    <2>3. ASSUME NEW c \in Calls, NEW s \in Bearers, NEW request \in ImageRequest,
                 EnterImage(c, s, request)
          PROVE  TypeOK' /\ Settled'
      <3>1. TypeOK'
        BY <1>1, <1>5, <2>3, EnterImageTypes
      <3>2. request.op \notin Operations
        BY DEF ImageRequest, Operations, Publications
      <3>3. call'[c].request = request /\ \A d \in Calls \ {c} : call'[d] = call[d]
        BY <1>1, <2>3 DEF EnterImage, TypeOK, CatalogTypeOK
      <3>4. \A d \in Calls : (call'[d] # None /\ OnProduct(d)') => call'[d] = call[d]
        BY <3>2, <3>3 DEF OnProduct
      <3>5. UNCHANGED <<product, claims, token, used>>
        BY <2>3 DEF EnterImage
      <3> QED
        BY <3>1, <3>4, <3>5, FramePreserves
    <2> QED
      BY <1>5, <2>1, <2>2, <2>3 DEF Start
  <1>6. CASE Finish /\ UNCHANGED sessionVars
    <2>1. ASSUME NEW c \in Calls, CommitProduct(c), UNCHANGED imageVars
          PROVE  TypeOK' /\ Settled'
      BY <1>1, <1>6, <2>1, CommitProductTypes, CommitPreserves
    <2>2. ASSUME NEW c \in Calls, CommitImage(c)
          PROVE  TypeOK' /\ Settled'
      BY <1>1, <1>6, <2>2, ImageStepTypes, ImagePreserves
    <2> QED
      BY <1>6, <2>1, <2>2 DEF Finish
  <1>7. CASE UNCHANGED vars
    <2>1. TypeOK'
      BY <1>1, <1>7 DEF vars, sessionVars, catalogVars, imageVars, TypeOK, SessionTypeOK,
                        CatalogTypeOK, ImageTypeOK
    <2> QED
      BY <1>7, <2>1, FramePreserves DEF vars, catalogVars
  <1> QED
    BY <1>2, <1>3, <1>4, <1>5, <1>6, <1>7 DEF Next
------------------------------------------------------------------------------
(* Theorems.                                                               *)

(* What calls about products may rely on holds in every state.             *)
THEOREM ProductsInductiveHolds == Spec => []ProductsInductive
  <1>1. ProductsInductive /\ [Next]_vars => ProductsInductive'
    BY NextPreserves
  <1> QED
    BY InitSettled, <1>1, PTL DEF Spec

(* Every variable stays within its type.                                   *)
THEOREM TypesHold == Spec => []TypeOK
  <1>1. ProductsInductive => TypeOK
    BY DEF ProductsInductive
  <1> QED
    BY ProductsInductiveHolds, <1>1, PTL

(* An idempotency key is answered with what its own request has made.      *)
THEOREM RepliesHold == Spec => []RepliesMatchRequests
  <1>1. ProductsInductive => RepliesMatchRequests
    BY DEF ProductsInductive
  <1> QED
    BY ProductsInductiveHolds, <1>1, PTL

(* A step commits one call, gives out one token, or leaves products, keys  *)
(* and tokens alone.                                                       *)
LEMMA StepsOfCatalog ==
  ASSUME [Next]_vars
  PROVE  \/ UNCHANGED <<product, claims, token, used>>
         \/ \E s \in Bearers, t \in Tokens, p \in Products, v \in Versions, a \in Publications :
              IssueConfirmation(s, t, p, v, a)
         \/ \E c \in Calls : CommitProduct(c)
  <1>1. CASE ProductStep
    BY <1>1 DEF ProductStep, Read, Write, Replay, AbandonProduct
  <1>2. CASE ImageStep
    BY <1>2 DEF ImageStep, Upload, InsertImage, InsertFails, RemoveImage, AbandonImage
  <1>3. CASE Start
    BY <1>3 DEF Start, Enter, EnterImage
  <1>4. CASE Finish
    BY <1>4 DEF Finish, CommitImage
  <1>5. CASE UNCHANGED <<catalogVars, imageVars>> \/ UNCHANGED vars
    BY <1>5 DEF vars, catalogVars
  <1> QED
    BY <1>1, <1>2, <1>3, <1>4, <1>5 DEF Next

(* A key that made a change makes no other.                                *)
THEOREM KeysHold == Spec => KeysStand
  <1>1. ASSUME ProductsInductive, [Next]_vars
        PROVE  \A slot \in Slot : claims[slot] # None => claims'[slot] = claims[slot]
    BY <1>1, StepsOfCatalog, ClaimsStay DEF IssueConfirmation
  <1> QED
    BY ProductsInductiveHolds, <1>1, PTL DEF Spec, KeysStand

(* What a publication that commits has been confirmed with.                *)
LEMMA PublicationIsConfirmed ==
  ASSUME ProductsInductive, NEW c \in Calls, CommitProduct(c), call[c].row # None,
         call[c].request.op \in Publications
  PROVE  LET t == call[c].token IN
         /\ t \in Tokens /\ t \notin used /\ used' = used \cup {t}
         /\ token[t] # None
         /\ token[t].product = call[c].shown
         /\ token[t].version = product[call[c].shown].version
         /\ token[t].user = call[c].slot.user
         /\ token[t].action = call[c].request.op
  <1>1. ~Creates(c)
    BY DEF Creates, Publications
  <1>2. Confirmed(c) /\ call[c].token \in Tokens
    <2>1. call[c] # None /\ OnProduct(c)
      BY DEF CommitProduct, At
    <2>2. call[c].token \in Tokens \cup {None}
      BY <2>1, ProductCallShape DEF ProductsInductive
    <2> QED
      BY <2>1, <2>2 DEF ProductsInductive, TokensConfirm, Confirmed
  <1>3. call[c].shown = call[c].request.product
        /\ product[call[c].shown].version = call[c].request.version
    BY <1>1 DEF ProductsInductive, CommitProduct, Writes, WritesFollow
  <1>4. /\ token[call[c].token] # None
        /\ token[call[c].token].product = call[c].shown
        /\ token[call[c].token].version = product[call[c].shown].version
        /\ token[call[c].token].user = call[c].slot.user
        /\ token[call[c].token].action = call[c].request.op
    BY <1>2, <1>3 DEF Confirmed, NamesRequest
  <1>5. token[call[c].token].version \in Nat
    BY <1>2, <1>4 DEF ProductsInductive, TypeOK, CatalogTypeOK, Token, Versions
  <1>6. call[c].token \notin used
    BY <1>4, <1>5 DEF ProductsInductive, SpentTokensAreOld
  <1>7. used' = used \cup {call[c].token}
    BY <1>2 DEF CommitProduct
  <1> QED
    BY <1>2, <1>4, <1>6, <1>7

(* The status of a product changes only by spending a token for exactly    *)
(* the version that is replaced.                                           *)
THEOREM PublicationsHold == Spec => PublicationsAreConfirmed
  <1>1. ASSUME ProductsInductive, [Next]_vars, NEW p \in Products,
               product[p] # None, product'[p].status # product[p].status
        PROVE  \E t \in used' \ used :
                 /\ token[t].product = p
                 /\ token[t].version = product[p].version
                 /\ token[t].action =
                      IF product'[p].status = "PUBLISHED" THEN "publish" ELSE "unpublish"
    <2>1. PICK c \in Calls : CommitProduct(c)
      BY <1>1, StepsOfCatalog DEF IssueConfirmation
    <2>2. call[c].row # None /\ p = call[c].shown /\ product'[p] = call[c].row
      BY <1>1, <2>1, CommittedRow DEF CommitProduct, ProductsInductive, TypeOK, CatalogTypeOK
    <2>3. call[c].row = Changed(product[p], call[c].request) /\ ~Creates(c)
      BY <1>1, <2>1, <2>2 DEF ProductsInductive, CommitProduct, Writes, WritesFollow
    <2>4. call[c].request.op \in Operations
      BY <2>1 DEF CommitProduct, OnProduct
    <2>5. product[p] \in Row
      BY <1>1 DEF ProductsInductive, TypeOK, CatalogTypeOK
    <2>6. /\ call[c].request.op = "publish" => product'[p].status = "PUBLISHED"
          /\ call[c].request.op = "unpublish" => product'[p].status = "UNPUBLISHED"
          /\ call[c].request.op = "update" => product'[p].status = product[p].status
      BY <2>2, <2>3, <2>5 DEF Changed, Creates, Row, Publications, StatusAfter
    <2>7. call[c].request.op \in Publications
      BY <1>1, <2>3, <2>4, <2>6 DEF Operations, Creates
    <2>8. token[call[c].token].action =
            IF product'[p].status = "PUBLISHED" THEN "publish" ELSE "unpublish"
      BY <1>1, <2>1, <2>2, <2>6, <2>7, PublicationIsConfirmed DEF Publications
    <2> QED
      BY <1>1, <2>1, <2>2, <2>7, <2>8, PublicationIsConfirmed
  <1>2. ProductsInductive /\ [Next]_vars =>
          [\A p \in Products :
             (product[p] # None /\ product'[p].status # product[p].status) =>
               \E t \in used' \ used :
                 /\ token[t].product = p
                 /\ token[t].version = product[p].version
                 /\ token[t].action =
                      IF product'[p].status = "PUBLISHED" THEN "publish" ELSE "unpublish"]_vars
    BY <1>1
  <1> QED
    BY ProductsInductiveHolds, <1>2, PTL DEF Spec, PublicationsAreConfirmed
(* The changes of a product are steps of the contract.                     *)
LEMMA ContractSteps ==
  ASSUME NEW p \in Products, NEW slot
  PROVE  /\ slot \in Contract!Slots({"create"}) /\ Contract!Create(p, slot) => Contract!Next
         /\ \A field \in Fields :
              slot \in Contract!Slots({"update"}) /\ Contract!Edit(p, slot, field) => Contract!Next
         /\ \A t \in Tokens :
              slot \in Contract!Slots({"publish", "unpublish"}) /\ Contract!Publish(p, slot, t)
                => Contract!Next
  BY DEF Contract!Next

(* A commit is one step of the contract, or none of its.                   *)
LEMMA CommitIsChange ==
  ASSUME ProductsInductive, NEW c \in Calls, CommitProduct(c)
  PROVE  [Contract!Next]_Contract!vars
  <1> SUFFICES ASSUME NEW p, NEW slot, NEW request, NEW t, p = call[c].shown,
                      slot = call[c].slot, request = call[c].request, t = call[c].token
               PROVE  [Contract!Next]_Contract!vars
    OBVIOUS
  <1>1. call[c] \in Answered /\ slot \in Slot /\ request \in Request /\ OnProduct(c)
        /\ call[c] # None
    BY ProductCallShape DEF ProductsInductive, CommitProduct, At
  <1>2. Confirmed(c) /\ slot.op = request.op
    BY <1>1 DEF ProductsInductive, TokensConfirm, Confirmed
  <1>3. UNCHANGED token
    BY DEF CommitProduct
  <1>4. CASE call[c].row = None
    <2>1. UNCHANGED <<product, claims>> /\ used' = used \cup ({call[c].token} \ {None})
      BY <1>4 DEF CommitProduct
    <2>2. CASE call[c].token = None \/ call[c].token \in used
      <3>1. used' = used
        BY <2>1, <2>2
      <3> QED
        BY <1>3, <2>1, <3>1 DEF Contract!vars
    <2>3. CASE call[c].token # None /\ call[c].token \notin used
      <3>1. call[c].token \in Tokens /\ token[call[c].token] # None
        BY <1>1, <2>3, CommitSpends DEF Answered
      <3>2. used' = used \cup {call[c].token}
        BY <2>1, <2>3
      <3>3. Contract!Spend(call[c].token)
        BY <1>3, <2>1, <2>3, <3>1, <3>2 DEF Contract!Spend
      <3> QED
        BY <3>1, <3>3 DEF Contract!Next
    <2> QED
      BY <2>2, <2>3
  <1>5. CASE call[c].row # None
    <2>1. /\ p \in Products /\ call[c].row \in Row
          /\ product' = [product EXCEPT ![p] = call[c].row]
      BY <1>5, CommittedRow
    <2>2. DOMAIN product = Products
      BY DEF ProductsInductive, TypeOK, CatalogTypeOK
    <2>3. call[c].row = Changed(product[p], request)
      BY <1>5 DEF ProductsInductive, CommitProduct, Writes, WritesFollow
    <2>4. Contract!Once(slot)
      <3>1. claims[slot] = None
        BY <1>1, <1>5 DEF ProductsInductive, CommitProduct, Writes, Claims, OneClaimant
      <3>2. claims' = [claims EXCEPT ![slot] = [request |-> request, product |-> p]]
        BY <1>5 DEF CommitProduct
      <3>3. [request |-> request, product |-> p] # None
        BY <1>1, <2>1 DEF Claim
      <3>4. \A s \in Slot : claims'[s] # None <=> (claims[s] # None \/ s = slot)
        BY <1>1, <3>2, <3>3 DEF ProductsInductive, TypeOK, CatalogTypeOK
      <3> QED
        BY <1>1, <3>1, <3>4 DEF Contract!Once
    <2>5. CASE Creates(c)
      <3>1. product[p] = None /\ SkuIsFree(request.sku)
        BY <1>5, <2>5 DEF ProductsInductive, CommitProduct, Writes, WritesFollow
      <3>2. call[c].row = Draft(request.sku)
        BY <2>3, <2>5 DEF Changed, Creates
      <3>3. product'[p] = Draft(request.sku) /\ Draft(request.sku) # None
        BY <2>1, <2>2, <3>2
      <3>4. UNCHANGED <<token, used>>
        BY <1>2, <1>3, <2>5 DEF Confirmed, Creates, CommitProduct, Publications
      <3>5. Contract!Create(p, slot)
        <4>1. product' = [product EXCEPT ![p] = product'[p]]
          BY <2>1, <2>2, <3>2, <3>3
        <4>2. /\ product'[p].version = 1 /\ product'[p].status = "DRAFT"
              /\ product'[p].edited = {} /\ product'[p].sku = request.sku
          BY <3>3 DEF Draft
        <4>3. \A q \in Products : product[q] # None => product[q].sku # product'[p].sku
          BY <3>1, <4>2 DEF SkuIsFree
        <4> QED
          BY <1>2, <2>4, <2>5, <3>1, <3>3, <3>4, <4>1, <4>2, <4>3 DEF Contract!Create, Creates
      <3>6. slot \in Contract!Slots({"create"})
        BY <1>1, <1>2, <2>5 DEF Slot, Contract!Slots, Creates
      <3> QED
        BY <2>1, <3>5, <3>6, ContractSteps
    <2>6. CASE ~Creates(c)
      <3>1. p = request.product /\ product[p] # None
        BY <1>1, <1>5, <2>6 DEF ProductsInductive, CommitProduct, Writes, WritesFollow, ProductsAreThere
      <3>2. product[p] \in Row
        BY <2>1, <3>1 DEF ProductsInductive, TypeOK, CatalogTypeOK
      <3>3. CASE request.op = "update"
        <4>1. call[c].row = [product[p] EXCEPT !.edited = @ \cup {request.field},
                                              !.version = @ + 1]
          BY <2>3, <3>2, <3>3, EditOfRow
        <4>2. UNCHANGED <<token, used>>
          BY <1>2, <1>3, <3>3 DEF Confirmed, CommitProduct, Publications
        <4>3. Contract!Edit(p, slot, request.field)
          <5>1. product' = [product EXCEPT ![p].edited = @ \cup {request.field},
                                           ![p].version = @ + 1]
            BY <2>1, <2>2, <4>1
          <5> QED
            BY <1>2, <2>4, <3>1, <3>3, <4>2, <5>1 DEF Contract!Edit
        <4>4. slot \in Contract!Slots({"update"}) /\ request.field \in Fields
          BY <1>1, <1>2, <3>3, RequestShape DEF Slot, Contract!Slots
        <4> QED
          BY <2>1, <4>3, <4>4, ContractSteps
      <3>4. CASE request.op \in Publications
        <4> DEFINE status == IF request.op = "publish" THEN "PUBLISHED" ELSE "UNPUBLISHED"
        <4>1. call[c].row = [product[p] EXCEPT !.status = status, !.version = @ + 1]
          BY <2>3, <3>2, <3>4, PublicationOfRow
        <4>2. /\ t \in Tokens /\ t \notin used /\ used' = used \cup {t}
              /\ token[t] # None
              /\ token[t].product = p
              /\ token[t].version = product[p].version
              /\ token[t].user = slot.user
              /\ token[t].action = request.op
          BY <1>5, <3>4, PublicationIsConfirmed
        <4>3. Contract!Publish(p, slot, t)
          BY <1>2, <1>3, <2>1, <2>4, <3>1, <4>1, <4>2 DEF Contract!Publish
        <4>4. slot \in Contract!Slots({"publish", "unpublish"})
          BY <1>1, <1>2, <3>4 DEF Slot, Contract!Slots, Publications
        <4> QED
          BY <2>1, <4>2, <4>3, <4>4, ContractSteps
      <3> QED
        BY <1>1, <2>6, <3>3, <3>4 DEF OnProduct, Operations, Creates
    <2> QED
      BY <2>5, <2>6
  <1> QED
    BY <1>4, <1>5

(* The calls implement the contract: a product's row is the sequence of    *)
(* its changes, each made once, under its own key, to the row before it.   *)
THEOREM ContractHolds == Spec => ImplementsContract
  <1>1. Init => Contract!Init
    BY DEF Init, CatalogInit, Contract!Init
  <1>2. ASSUME ProductsInductive, [Next]_vars
        PROVE  [Contract!Next]_Contract!vars
    <2>1. CASE UNCHANGED <<product, claims, token, used>>
      BY <2>1 DEF Contract!vars
    <2>2. ASSUME NEW s \in Bearers, NEW t \in Tokens, NEW p \in Products, NEW v \in Versions,
                 NEW a \in Publications, IssueConfirmation(s, t, p, v, a)
          PROVE  Contract!Next
      <3>1. /\ UNCHANGED <<product, claims, used>>
            /\ token[t] = None
            /\ token' = [token EXCEPT ![t] = token'[t]]
        BY <1>2, <2>2 DEF IssueConfirmation, ProductsInductive, TypeOK, CatalogTypeOK
      <3>2. token'[t] # None
        <4>1. token'[t] = [user |-> bearer[s].user, product |-> p, version |-> v, action |-> a,
                           expires |-> now + TokenLife]
          BY <1>2, <2>2 DEF IssueConfirmation, ProductsInductive, TypeOK, CatalogTypeOK
        <4>2. bearer[s] \in Bearer /\ now \in Nat
          BY <1>2, <2>2 DEF IssueConfirmation, MayWrite, Resolves, ProductsInductive, TypeOK, SessionTypeOK
        <4>3. token'[t] \in Token
          BY <4>1, <4>2 DEF Token, Bearer
        <4> QED
          BY <4>3
      <3>3. Contract!Confirm(t)
        BY <3>1, <3>2 DEF Contract!Confirm
      <3> QED
        BY <3>3 DEF Contract!Next
    <2> QED
      BY <1>2, <2>1, <2>2, StepsOfCatalog, CommitIsChange
  <1> QED
    BY ProductsInductiveHolds, <1>1, <1>2, PTL DEF Spec, ImplementsContract, Contract!Spec
------------------------------------------------------------------------------
(* Images.                                                                 *)

(* What leaves rows, blobs and working calls alone disturbs nothing.       *)
LEMMA ImageFrame ==
  ASSUME ImagesInductive, TypeOK', UNCHANGED imageVars,
         \A d \in Calls : Works(d) \/ Works(d)' => call'[d] = call[d]
  PROVE  ImagesInductive'
  <1> USE DEF ImagesInductive, imageVars
  <1>1. \A d \in Calls : /\ Works(d)' <=> Works(d)
                         /\ Works(d) => call'[d] = call[d] /\ (Uploads(d)' <=> Uploads(d))
    BY DEF Works, Uploads, OnImage
  <1>2. BlobsAreOwned'
    BY <1>1 DEF BlobsAreOwned, Uploads
  <1>3. RowsAreHeld'
    BY <1>1 DEF RowsAreHeld, At
  <1>4. ImagesAreStored'
    <2> SUFFICES ASSUME NEW p \in Products, NEW o \in Orders, images[p][o] # None,
                        ~Touched([product |-> p, order |-> o])'
                 PROVE  images[p][o] \in stored \cup torn
      BY DEF ImagesAreStored
    <2>1. ~Touched([product |-> p, order |-> o])
      BY <1>1 DEF Touched, Works, At, OnImage
    <2> QED
      BY <2>1 DEF ImagesAreStored
  <1> QED
    BY <1>2, <1>3, <1>4
(* The blob of an upload is new, and its own.                              *)
LEMMA UploadKeepsImages ==
  ASSUME ImagesInductive, TypeOK', NEW c \in Calls, Upload(c)
  PROVE  ImagesInductive'
  <1> USE DEF ImagesInductive
  <1>1. call[c] # None /\ call[c] \in EnteredImage /\ call[c].step = "entered"
        /\ call[c].request.op = "upload"
    BY ImageCallShape DEF Upload, At, OnImage
  <1>2. /\ call'[c] = [step |-> "stored", request |-> call[c].request, path |-> NewPath]
        /\ \A d \in Calls \ {c} : call'[d] = call[d]
        /\ stored' = stored \cup {NewPath}
        /\ UNCHANGED <<images, torn>>
    BY DEF Upload, FreshPath, TypeOK, CatalogTypeOK
  <1>3. call'[c] # None
    <2>1. NewPath \in Blobs
      BY DEF Upload, NewPath
    <2>2. call'[c] \in StoredImage
      BY <1>1, <1>2, <2>1 DEF EnteredImage, StoredImage
    <2> QED
      BY <2>2 DEF ImageCall
  <1>4. NewPath \notin stored /\ \A p \in Products, o \in Orders : images[p][o] # NewPath
    <2>1. NewPath \notin Named
      BY DEF Upload, NewPath
    <2> QED
      BY <2>1 DEF Named
  <1>5. /\ Uploads(c)' /\ ~Uploads(c)
        /\ \A d \in Calls \ {c} : (Works(d)' <=> Works(d)) /\ (Uploads(d)' <=> Uploads(d))
    BY <1>1, <1>2, <1>3 DEF Works, Uploads, OnImage
  <1>6. BlobsAreOwned'
    BY <1>2, <1>4, <1>5 DEF BlobsAreOwned
  <1>7. RowsAreHeld'
    BY <1>1, <1>2, <1>5 DEF RowsAreHeld, At
  <1>8. ImagesAreStored'
    <2> SUFFICES ASSUME NEW p \in Products, NEW o \in Orders, images[p][o] # None,
                        ~Touched([product |-> p, order |-> o])'
                 PROVE  images[p][o] \in (stored \cup torn)'
      BY <1>2 DEF ImagesAreStored
    <2>1. ~Touched([product |-> p, order |-> o])
      BY <1>1, <1>2 DEF Touched, At, OnImage
    <2> QED
      BY <1>2, <2>1 DEF ImagesAreStored
  <1> QED
    BY <1>6, <1>7, <1>8

(* An insert takes a place that is free and that nobody holds.             *)
LEMMA InsertKeepsImages ==
  ASSUME ImagesInductive, TypeOK', NEW c \in Calls, InsertImage(c)
  PROVE  ImagesInductive'
  <1> USE DEF ImagesInductive
  <1>1. call[c] # None /\ call[c] \in StoredImage /\ call[c].step = "stored" /\ OnImage(c)
    BY ImageCallShape DEF InsertImage, At, StoredImage, ImageRequest, OnImage
  <1>2. /\ call'[c] # None /\ call'[c].step = "answered"
        /\ call'[c].request = call[c].request /\ call'[c].path = call[c].path
        /\ \A d \in Calls \ {c} : call'[d] = call[d]
        /\ UNCHANGED <<images, stored, torn>>
    <2>1. [call[c] EXCEPT !.step = "answered"] \in StoredImage
      BY <1>1 DEF StoredImage
    <2>2. call'[c] = [call[c] EXCEPT !.step = "answered"]
      BY DEF InsertImage, TypeOK, CatalogTypeOK
    <2> QED
      BY <1>1, <2>1, <2>2 DEF InsertImage, imageVars, TypeOK, CatalogTypeOK, StoredImage, ImageCall
  <1>3. call[c].request.product \in Products /\ call[c].request.order \in Orders
    BY <1>1 DEF StoredImage, ImageRequest
  <1>4. \A d \in Calls : (Works(d)' <=> Works(d)) /\ (Uploads(d)' <=> Uploads(d))
    BY <1>1, <1>2 DEF Works, Uploads, OnImage
  <1>5. BlobsAreOwned'
    BY <1>1, <1>2, <1>4 DEF BlobsAreOwned
  <1>6. RowsAreHeld'
    <2>1. call[c].request.op = "upload"
      BY <1>1 DEF RowsAreHeld, Works, At
    <2>2. \A d \in Calls \ {c} : (Works(d) /\ At(d, "answered")) =>
             \/ call[d].request.product # call[c].request.product
             \/ call[d].request.order # call[c].request.order
      BY DEF InsertImage, Touched, Works
    <2> QED
      BY <1>2, <1>4, <2>1, <2>2 DEF RowsAreHeld, At, InsertImage
  <1>7. ImagesAreStored'
    BY <1>1, <1>2 DEF ImagesAreStored, Touched, At, OnImage
  <1> QED
    BY <1>5, <1>6, <1>7

(* The blob that is taken back belongs to no row.                          *)
LEMMA FailureKeepsImages ==
  ASSUME ImagesInductive, TypeOK', NEW c \in Calls, InsertFails(c)
  PROVE  ImagesInductive'
  <1> USE DEF ImagesInductive
  <1>1. call[c] # None /\ call[c].step = "stored" /\ OnImage(c)
    BY ImageCallShape DEF InsertFails, At, ImageRequest, OnImage
  <1>2. Works(c) /\ Uploads(c)
    BY <1>1 DEF RowsAreHeld, Works, Uploads, At
  <1>3. /\ call'[c] = None
        /\ \A d \in Calls \ {c} : call'[d] = call[d]
        /\ stored' = stored \ {call[c].path} /\ UNCHANGED <<images, torn>>
    BY DEF InsertFails, TypeOK, CatalogTypeOK
  <1>4. /\ ~Works(c)' /\ ~Uploads(c)'
        /\ \A d \in Calls \ {c} : (Works(d)' <=> Works(d)) /\ (Uploads(d)' <=> Uploads(d))
    BY <1>3 DEF Works, Uploads, OnImage
  <1>5. BlobsAreOwned'
    BY <1>2, <1>3, <1>4 DEF BlobsAreOwned
  <1>6. RowsAreHeld'
    BY <1>3, <1>4 DEF RowsAreHeld, At
  <1>7. ImagesAreStored'
    BY <1>1, <1>2, <1>3 DEF ImagesAreStored, BlobsAreOwned, Touched, At, OnImage
  <1> QED
    BY <1>5, <1>6, <1>7

(* A removal takes the blob of the row it holds from then on.              *)
LEMMA RemovalKeepsImages ==
  ASSUME ImagesInductive, TypeOK', NEW c \in Calls, RemoveImage(c)
  PROVE  ImagesInductive'
  <1> USE DEF ImagesInductive
  <1> DEFINE request == call[c].request
             path == images[request.product][request.order]
  <1>1. /\ call[c] # None /\ call[c] \in EnteredImage /\ call[c].step = "entered"
        /\ request.op = "remove" /\ request.product \in Products /\ request.order \in Orders
    BY ImageCallShape DEF RemoveImage, At, OnImage, ImageRequest
  <1>2. /\ call'[c] = [step |-> "answered", request |-> request, path |-> path]
        /\ \A d \in Calls \ {c} : call'[d] = call[d]
        /\ stored' = stored \ {path} /\ UNCHANGED <<images, torn>> /\ path # None
    BY DEF RemoveImage, TypeOK, CatalogTypeOK
  <1>3. call'[c] # None
    <2>1. path \in Blobs
      BY <1>1, <1>2 DEF TypeOK, ImageTypeOK
    <2>2. call'[c] \in StoredImage
      BY <1>1, <1>2, <2>1 DEF EnteredImage, StoredImage
    <2> QED
      BY <2>2 DEF ImageCall
  <1>4. /\ Works(c)' /\ ~Works(c) /\ ~Uploads(c)' /\ ~Uploads(c)
        /\ \A d \in Calls \ {c} : (Works(d)' <=> Works(d)) /\ (Uploads(d)' <=> Uploads(d))
    BY <1>1, <1>2, <1>3 DEF Works, Uploads, OnImage
  <1>5. \A d \in Calls \ {c} : (Works(d) /\ At(d, "answered")) =>
           \/ call[d].request.product # request.product
           \/ call[d].request.order # request.order
    BY DEF RemoveImage, Touched, Works
  <1> HIDE DEF request
  <1>6. BlobsAreOwned'
    BY <1>1, <1>2, <1>4 DEF BlobsAreOwned
  <1>7. RowsAreHeld'
    BY <1>1, <1>2, <1>4, <1>5 DEF RowsAreHeld, At
  <1>8. ImagesAreStored'
    <2> SUFFICES ASSUME NEW p \in Products, NEW o \in Orders, images[p][o] # None,
                        ~Touched([product |-> p, order |-> o])'
                 PROVE  images[p][o] \in (stored \cup torn)'
      BY <1>2 DEF ImagesAreStored
    <2>1. ~Touched([product |-> p, order |-> o])
      BY <1>1, <1>2 DEF Touched, At, OnImage
    <2>2. p # request.product \/ o # request.order
      BY <1>1, <1>2, <1>3 DEF Touched, At, OnImage
    <2>3. images[p][o] # path
      BY <1>1, <2>2 DEF BlobsAreOwned
    <2> QED
      BY <1>2, <2>1, <2>3 DEF ImagesAreStored
  <1> QED
    BY <1>6, <1>7, <1>8
(* A commit settles a row that nobody else holds.                          *)
LEMMA CommitKeepsImages ==
  ASSUME ImagesInductive, TypeOK', NEW c \in Calls, CommitImage(c)
  PROVE  ImagesInductive'
  <1> USE DEF ImagesInductive
  <1> SUFFICES ASSUME NEW product0 \in Products, NEW order0 \in Orders,
                      product0 = call[c].request.product, order0 = call[c].request.order
               PROVE  ImagesInductive'
    BY ImageCallShape DEF CommitImage, At, ImageRequest
  <1>1. /\ call[c] # None /\ call[c] \in StoredImage /\ call[c].step = "answered"
        /\ OnImage(c) /\ Works(c) /\ At(c, "answered")
    BY ImageCallShape DEF CommitImage, At, Works
  <1>2. /\ call'[c] = None
        /\ \A d \in Calls \ {c} : call'[d] = call[d]
        /\ UNCHANGED stored
        /\ torn' = torn \ {call[c].path}
        /\ images'[product0][order0] =
             IF call[c].request.op = "upload" THEN call[c].path ELSE None
        /\ \A p \in Products, o \in Orders :
             (p # product0 \/ o # order0) => images'[p][o] = images[p][o]
    BY DEF CommitImage, TypeOK, CatalogTypeOK, ImageTypeOK
  <1>3. /\ ~Works(c)' /\ ~Uploads(c)'
        /\ \A d \in Calls \ {c} : (Works(d)' <=> Works(d)) /\ (Uploads(d)' <=> Uploads(d))
    BY <1>2 DEF Works, Uploads, OnImage
  <1>4. \A d \in Calls \ {c} : (Works(d) /\ At(d, "answered")) =>
           call[d].request.product # product0 \/ call[d].request.order # order0
    BY <1>1 DEF RowsAreHeld
  <1>5. call[c].request.op = "upload" => Uploads(c)
    BY <1>1 DEF Uploads
  <1>6. BlobsAreOwned'
    <2>1. \A p \in Products, o \in Orders :
             (p # product0 \/ o # order0) => images'[p][o] # images'[product0][order0]
                                           \/ images'[p][o] = None
      BY <1>2, <1>5 DEF BlobsAreOwned
    <2>2. ASSUME NEW p \in Products, NEW q \in Products, NEW o \in Orders, NEW n \in Orders,
                 images'[p][o] # None, images'[p][o] = images'[q][n]
          PROVE  p = q /\ o = n
      BY <1>2, <2>1, <2>2 DEF BlobsAreOwned
    <2>3. ASSUME NEW d \in Calls \ {c}, Uploads(d)
          PROVE  /\ call[d].path \in stored
                 /\ \A p \in Products, o \in Orders : images'[p][o] # call[d].path
                 /\ \A e \in Calls \ {d} : Uploads(e) => call[e].path # call[d].path
      <3>1. call[d].path # None
        BY <2>3, ImageCallShape DEF Uploads, Works, StoredImage
      <3> QED
        BY <1>2, <1>5, <2>3, <3>1 DEF BlobsAreOwned
    <2> QED
      BY <1>2, <1>3, <2>2, <2>3 DEF BlobsAreOwned
  <1>7. RowsAreHeld'
    <2> SUFFICES ASSUME NEW d \in Calls \ {c}, Works(d)
                 PROVE  /\ At(d, "stored") => call[d].request.op = "upload"
                        /\ At(d, "answered") =>
                             /\ images'[call[d].request.product][call[d].request.order] =
                                  IF call[d].request.op = "upload" THEN None ELSE call[d].path
                             /\ \A e \in Calls \ {c, d} : (Works(e) /\ At(e, "answered")) =>
                                   \/ call[e].request.product # call[d].request.product
                                   \/ call[e].request.order # call[d].request.order
      BY <1>2, <1>3 DEF RowsAreHeld, At
    <2>1. call[d].request.product \in Products /\ call[d].request.order \in Orders
      BY ImageCallShape DEF Works, ImageRequest
    <2> QED
      BY <1>2, <1>4, <2>1 DEF RowsAreHeld
  <1>8. ImagesAreStored'
    <2> SUFFICES ASSUME NEW p \in Products, NEW o \in Orders, images'[p][o] # None,
                        ~Touched([product |-> p, order |-> o])'
                 PROVE  images'[p][o] \in (stored \cup torn)'
      BY <1>2 DEF ImagesAreStored
    <2>1. CASE p = product0 /\ o = order0
      BY <1>2, <1>5, <2>1 DEF BlobsAreOwned
    <2>2. CASE p # product0 \/ o # order0
      <3>1. ~Touched([product |-> p, order |-> o])
        BY <1>2, <2>2 DEF Touched, At, OnImage
      <3>2. images[p][o] # None /\ images[p][o] = images'[p][o]
        BY <1>2, <2>2
      <3>3. images[p][o] # call[c].path
        <4>1. CASE call[c].request.op = "upload"
          BY <1>5, <4>1 DEF BlobsAreOwned
        <4>2. CASE call[c].request.op # "upload"
          BY <1>1, <2>2, <3>2, <4>2 DEF RowsAreHeld, BlobsAreOwned
        <4> QED
          BY <4>1, <4>2
      <3> QED
        BY <1>2, <3>1, <3>2, <3>3 DEF ImagesAreStored
    <2> QED
      BY <2>1, <2>2
  <1> QED
    BY <1>6, <1>7, <1>8

(* A call that ends early held nothing, or the place of an upload, which   *)
(* is free again, or the row of a removal, whose blob is torn from then on.*)
LEMMA AbandonKeepsImages ==
  ASSUME ImagesInductive, TypeOK', NEW c \in Calls, AbandonImage(c)
  PROVE  ImagesInductive'
  <1> USE DEF ImagesInductive
  <1>1. call[c] # None /\ OnImage(c)
    BY DEF AbandonImage
  <1>2. /\ call'[c] = None
        /\ \A d \in Calls \ {c} : call'[d] = call[d]
        /\ UNCHANGED <<images, stored>>
        /\ torn \subseteq torn'
        /\ (At(c, "answered") /\ call[c].request.op = "remove") => call[c].path \in torn'
    BY DEF AbandonImage, TypeOK, CatalogTypeOK
  <1>3. /\ ~Works(c)' /\ ~Uploads(c)'
        /\ \A d \in Calls \ {c} : (Works(d)' <=> Works(d)) /\ (Uploads(d)' <=> Uploads(d))
    BY <1>2 DEF Works, Uploads, OnImage
  <1>4. BlobsAreOwned'
    BY <1>2, <1>3 DEF BlobsAreOwned
  <1>5. RowsAreHeld'
    BY <1>2, <1>3 DEF RowsAreHeld, At
  <1>6. ImagesAreStored'
    <2> SUFFICES ASSUME NEW p \in Products, NEW o \in Orders, images[p][o] # None,
                        ~Touched([product |-> p, order |-> o])'
                 PROVE  images[p][o] \in (stored \cup torn)'
      BY <1>2 DEF ImagesAreStored
    <2>1. CASE At(c, "answered") /\ call[c].request.product = p /\ call[c].request.order = o
      <3>1. images[p][o] = call[c].path /\ call[c].request.op = "remove"
        <4>1. Works(c) /\ call[c].request.op \in {"upload", "remove"}
          BY <1>1, <2>1 DEF Works, At, OnImage
        <4> QED
          BY <2>1, <4>1 DEF RowsAreHeld
      <3> QED
        BY <1>2, <2>1, <3>1
    <2>2. CASE ~(At(c, "answered") /\ call[c].request.product = p /\ call[c].request.order = o)
      <3>1. ~Touched([product |-> p, order |-> o])
        BY <1>2, <2>2 DEF Touched, At, OnImage
      <3> QED
        BY <1>2, <3>1 DEF ImagesAreStored
    <2> QED
      BY <2>1, <2>2
  <1> QED
    BY <1>4, <1>5, <1>6

(* Steps about products, and requests that enter, hold no image.           *)
LEMMA OthersKeepImages ==
  ASSUME ImagesInductive, TypeOK', UNCHANGED imageVars,
         ProductStep \/ Start \/ (\E c \in Calls : CommitProduct(c)) \/ UNCHANGED call
  PROVE  ImagesInductive'
  <1>1. \A d \in Calls : Works(d) \/ Works(d)' => call'[d] = call[d]
    <2> SUFFICES ASSUME NEW d \in Calls, call'[d] # call[d]
                 PROVE  ~Works(d) /\ ~Works(d)'
      OBVIOUS
    <2>1. DOMAIN call = Calls
      BY DEF ImagesInductive, TypeOK, CatalogTypeOK
    <2>2. CASE Start
      <3>1. call[d] = None /\ call'[d].step = "entered"
        BY <2>1, <2>2 DEF Start, IssueConfirmation, Enter, EnterImage
      <3> QED
        BY <3>1 DEF Works
    <2>3. CASE ProductStep \/ \E c \in Calls : CommitProduct(c)
      <3>1. OnProduct(d) /\ (call'[d] = None \/ call'[d].request = call[d].request)
        <4>1. CASE \E c \in Calls : Read(c)
          BY <2>1, <4>1 DEF Read
        <4>2. CASE \E c \in Calls, p \in Products : Write(c, p)
          BY <2>1, <4>2 DEF Write
        <4>3. CASE \E c \in Calls : Replay(c)
          BY <2>1, <4>3 DEF Replay
        <4>4. CASE \E c \in Calls : AbandonProduct(c) \/ CommitProduct(c)
          BY <2>1, <4>4 DEF AbandonProduct, CommitProduct
        <4> QED
          BY <2>3, <4>1, <4>2, <4>3, <4>4 DEF ProductStep
      <3> QED
        BY <3>1 DEF OnProduct, Works, OnImage, Operations, Publications
    <2> QED
      BY <2>2, <2>3
  <1> QED
    BY <1>1, ImageFrame

(* Initially no call works, and stored are the blobs of the rows.          *)
LEMMA InitImages == Init => ImagesInductive
  <1> SUFFICES ASSUME Init PROVE ImagesInductive
    OBVIOUS
  <1>1. TypeOK /\ \A c \in Calls : ~Works(c) /\ ~Uploads(c)
    BY InitTypes DEF Init, CatalogInit, Works, Uploads
  <1>2. ImagesAreStored
    BY <1>1 DEF Init, ImageInit, ImagesAreStored
  <1>3. \A p, q \in Products, o, n \in Orders :
          (images[p][o] # None /\ images[p][o] = images[q][n]) => p = q /\ o = n
    <2>1. \A p, q \in Products : product[p] # None /\ product[q] # None => p = q
      BY DEF Init, CatalogInit
    <2>2. PICK n \in FirstImages :
            images = [p \in Products |-> [o \in Orders |->
                        IF product[p] # None /\ o < n THEN o ELSE None]]
      BY DEF Init, ImageInit
    <2> QED
      BY <2>1, <2>2
  <1> QED
    BY <1>1, <1>2, <1>3 DEF ImagesInductive, RowsAreHeld, BlobsAreOwned

(* However uploads and removals overlap and whichever of them die, each    *)
(* blob and each row has the call or the row that answers for it.          *)
THEOREM ImagesInductiveHolds == Spec => []ImagesInductive
  <1>1. ASSUME ProductsInductive, ImagesInductive, [Next]_vars
        PROVE  ImagesInductive'
    <2>1. TypeOK'
      BY <1>1, NextPreserves DEF ProductsInductive
    <2>2. CASE ImageStep
      BY <1>1, <2>1, <2>2, UploadKeepsImages, InsertKeepsImages, FailureKeepsImages,
         RemovalKeepsImages, AbandonKeepsImages DEF ImageStep
    <2>3. CASE Start
      BY <1>1, <2>1, <2>3, OthersKeepImages DEF Start, EnterImage
    <2>4. CASE Finish
      BY <1>1, <2>1, <2>4, CommitKeepsImages, OthersKeepImages DEF Finish
    <2>5. CASE (ProductStep /\ UNCHANGED imageVars) \/ UNCHANGED <<catalogVars, imageVars>>
      BY <1>1, <2>1, <2>5, OthersKeepImages DEF catalogVars
    <2> QED
      BY <1>1, <2>2, <2>3, <2>4, <2>5 DEF Next, vars
  <1> QED
    BY InitImages, ProductsInductiveHolds, <1>1, PTL DEF Spec

(* What calls in progress may rely on, about products and images, holds in *)
(* every state: the whole inductive invariant.                             *)
THEOREM InductiveHolds == Spec => []Inductive
  <1>1. ProductsInductive /\ ImagesInductive => Inductive
    BY DEF Inductive
  <1> QED
    BY <1>1, ProductsInductiveHolds, ImagesInductiveHolds, PTL

(* So an image that buyers are shown can be fetched, whatever insert fails *)
(* and whichever call dies, except the one of a removal that died.         *)
THEOREM ImagesHold == Spec => []ImagesAreStored
  <1>1. ImagesInductive => ImagesAreStored
    BY DEF ImagesInductive
  <1> QED
    BY <1>1, ImagesInductiveHolds, PTL
==============================================================================
