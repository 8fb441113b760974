--------------------------- MODULE MerchantCatalog ---------------------------
(***************************************************************************)
(* The merchant's side of the API as one server: sessions, products and    *)
(* images.  The server's event loop starts requests and commits sessions;  *)
(* it does neither while an upload holds it.                               *)
(***************************************************************************)
EXTENDS ProductImages

vars == <<sessionVars, catalogVars, imageVars>>

TypeOK == SessionTypeOK /\ CatalogTypeOK /\ ImageTypeOK

Init == SessionInit /\ CatalogInit /\ ImageInit

Start ==
    \/ \E s \in Bearers, t \in Tokens, p \in Products, v \in Versions, a \in Publications :
         product[p] # None /\ IssueConfirmation(s, t, p, v, a) /\ UNCHANGED imageVars
    \/ \E c \in Calls, s \in Bearers :
         \/ \E key \in Keys, request \in Request, t \in Tokens \cup {None} :
              /\ Enter(c, s, key, request, t)
              /\ UNCHANGED imageVars
         \/ \E request \in ImageRequest : EnterImage(c, s, request)

Finish ==
    \E c \in Calls : (CommitProduct(c) /\ UNCHANGED imageVars) \/ CommitImage(c)

Next ==
    \/ SessionRequest /\ LoopFree /\ UNCHANGED <<catalogVars, imageVars>>
    \/ Surroundings /\ UNCHANGED <<catalogVars, imageVars>>
    \/ ProductStep /\ UNCHANGED <<sessionVars, imageVars>>
    \/ ImageStep /\ UNCHANGED sessionVars
    \/ Start /\ LoopFree /\ UNCHANGED <<now, role, bearer>>
    \/ Finish /\ LoopFree /\ UNCHANGED sessionVars

Spec == Init /\ [][Next]_vars

------------------------------------------------------------------------------
(* Properties.                                                             *)

(* A caller is shown the product its key was claimed for, and only when it *)
(* asks for the same thing again; while the claim of a key is not          *)
(* committed, one call alone is answered under it.                         *)
RepliesMatchRequests ==
    \A c \in Calls : (At(c, "answered") /\ OnProduct(c)) =>
        IF call[c].row = None
          THEN claims[call[c].slot] = [request |-> call[c].request, product |-> call[c].shown]
          ELSE /\ claims[call[c].slot] = None
               /\ \A d \in Calls \ {c} : ~Claims(d, call[c].slot)

(* The status of a product changes only by spending a token that was not   *)
(* spent before and that was given for that action on exactly the version  *)
(* that is replaced: "an old token can never publish twice", also when it  *)
(* expires while it is being checked.                                      *)
PublicationsAreConfirmed ==
    [][\A p \in Products :
          (product[p] # None /\ product'[p].status # product[p].status) =>
             \E t \in used' \ used :
                /\ token[t].product = p
                /\ token[t].version = product[p].version
                /\ token[t].action =
                     IF product'[p].status = "PUBLISHED" THEN "publish" ELSE "unpublish"]_vars

(* A key that made a change makes no other, whatever requests it is sent   *)
(* with, at once or later.                                                 *)
KeysStand ==
    [][\A slot \in Slot : claims[slot] # None => claims'[slot] = claims[slot]]_vars

(* An image that buyers are shown can be fetched: however uploads and      *)
(* removals overlap, whatever insert fails and whichever call dies, every  *)
(* committed row has its blob, unless a removal is about to delete the row *)
(* or died after it had deleted the blob.                                  *)
ImagesAreStored ==
    \A p \in Products, o \in Orders :
        (images[p][o] # None /\ ~Touched([product |-> p, order |-> o]))
           => images[p][o] \in stored \cup torn

(* A product has at most three images, and one more for every further      *)
(* upload that ran at the same time: each counted the committed rows.      *)
LimitIsClose ==
    \A p \in Products : Cardinality(Shown(p)) < MaxImages + Cardinality(Calls)

(* A product's row is the sequence of its changes, each made once to the   *)
(* row before it: the calls implement the contract.                        *)
Contract == INSTANCE CatalogContract WITH
    done <- {slot \in Slot : claims[slot] # None},
    spent <- used

ImplementsContract == Contract!Spec

------------------------------------------------------------------------------
(* The inductive invariant behind these properties: what a call in         *)
(* progress carries against what is committed, first of products.          *)

Creates(c) == call[c].request.op = "create"

(* Products are not deleted, so that what a call names stays there.        *)
ProductsAreThere ==
    \A c \in Calls :
        (call[c] # None /\ OnProduct(c) /\ ~Creates(c)) => product[call[c].request.product] # None

(* An uncommitted claim is alone.                                          *)
OneClaimant ==
    \A c \in Calls, slot \in Slot : Claims(c, slot) =>
        /\ claims[slot] = None
        /\ \A d \in Calls \ {c} : ~Claims(d, slot)

(* What a call has read is the product, or an earlier version of it.       *)
ReadsAreOld ==
    \A c \in Calls : (At(c, "read") /\ OnProduct(c) /\ ~Creates(c)) =>
        LET there == product[call[c].request.product] IN
        /\ call[c].row # None
        /\ call[c].row.version = call[c].request.version
        /\ call[c].row.version <= there.version
        /\ call[c].row.version = there.version => call[c].row = there

(* What a call is about to commit is one change of what stands now, and    *)
(* nobody else is about to change the same.                                *)
WritesFollow ==
    \A c \in Calls : Writes(c) =>
        /\ \A d \in Calls \ {c} : Writes(d) => call[d].shown # call[c].shown
        /\ IF Creates(c)
             THEN /\ product[call[c].shown] = None
                  /\ SkuIsFree(call[c].request.sku)
                  /\ \A d \in Calls \ {c} : (Writes(d) /\ Creates(d)) =>
                        call[d].request.sku # call[c].request.sku
             ELSE /\ call[c].shown = call[c].request.product
                  /\ product[call[c].shown].version = call[c].request.version
        /\ call[c].row = Changed(product[call[c].shown], call[c].request)

(* A request that has its key has changed the version it named.            *)
ClaimsAreChanges ==
    \A slot \in Slot :
        LET request == claims[slot].request IN
        (claims[slot] # None /\ request.op # "create") =>
            product[request.product] # None /\ product[request.product].version > request.version

(* A call carries its user's token for what it asks, or asks for nothing   *)
(* that takes one.                                                         *)
Confirmed(c) ==
    /\ call[c].slot.op = call[c].request.op
    /\ IF call[c].request.op \in Publications
         THEN /\ call[c].token # None
              /\ token[call[c].token] # None
              /\ NamesRequest(call[c].token, call[c].slot.user, call[c].request)
         ELSE call[c].token = None

TokensConfirm == \A c \in Calls : (call[c] # None /\ OnProduct(c)) => Confirmed(c)

(* The version a spent token names is gone for good.                       *)
SpentTokensAreOld ==
    \A t \in used :
        /\ token[t] # None
        /\ product[token[t].product] # None
        /\ product[token[t].product].version > token[t].version

ProductsInductive ==
    /\ TypeOK
    /\ ProductsAreThere
    /\ OneClaimant
    /\ RepliesMatchRequests
    /\ ReadsAreOld
    /\ WritesFollow
    /\ ClaimsAreChanges
    /\ TokensConfirm
    /\ SpentTokensAreOld

Works(c) == call[c] # None /\ OnImage(c) /\ call[c].step # "entered"
Uploads(c) == Works(c) /\ call[c].request.op = "upload"

(* A blob belongs to one row, or to the upload that stored it.             *)
BlobsAreOwned ==
    /\ \A p, q \in Products, o, n \in Orders :
          (images[p][o] # None /\ images[p][o] = images[q][n]) => p = q /\ o = n
    /\ \A c \in Calls : Uploads(c) =>
          /\ call[c].path \in stored
          /\ \A p \in Products, o \in Orders : images[p][o] # call[c].path
          /\ \A d \in Calls \ {c} : Uploads(d) => call[d].path # call[c].path

(* A row that a call has inserted or deleted is no other call's.           *)
RowsAreHeld ==
    \A c \in Calls : Works(c) =>
        LET request == call[c].request IN
        /\ At(c, "stored") => request.op = "upload"
        /\ At(c, "answered") =>
              /\ images[request.product][request.order] =
                   IF request.op = "upload" THEN None ELSE call[c].path
              /\ \A d \in Calls \ {c} : (Works(d) /\ At(d, "answered")) =>
                    \/ call[d].request.product # request.product
                    \/ call[d].request.order # request.order

ImagesInductive == TypeOK /\ BlobsAreOwned /\ RowsAreHeld /\ ImagesAreStored

(* What calls about products, and calls about images, may rely on.         *)
Inductive == ProductsInductive /\ ImagesInductive
==============================================================================
