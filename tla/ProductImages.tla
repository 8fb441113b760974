---------------------------- MODULE ProductImages ----------------------------
(***************************************************************************)
(* Images of the products: a row in the database and a blob in a storage   *)
(* service that takes part in no transaction.                              *)
(*                                                                         *)
(* The upload handler is a coroutine that calls the database and the       *)
(* storage service directly: while it runs, the server's event loop runs   *)
(* nothing else, so that no request starts and no other session commits.   *)
(* All other handlers run in threads.                                      *)
(***************************************************************************)
EXTENDS ProductCatalog

CONSTANTS
  Blobs,       \* storage paths, numbered
  MaxOrder,    \* bound: the greatest sort order that requests name
  FirstImages  \* bound: how many images a product starts with

VARIABLES
  images,  \* product_images: the path at each sort order of a product
  stored,  \* paths the storage service holds
  torn     \* history: paths whose blob a removal deleted before it died

imageVars == <<images, stored, torn>>

(* The sort orders a request may name: the form and the table take any     *)
(* that is not negative.                                                   *)
Orders == 0..MaxOrder

ImageRequest == [op : {"upload", "remove"}, product : Products, order : Orders]

(* An upload has stored its blob, an answered call its row.                *)
EnteredImage  == [step : {"entered"}, request : ImageRequest]
StoredImage   == [step : {"stored", "answered"}, request : ImageRequest, path : Blobs]
ImageCall == EnteredImage \cup StoredImage

MaxImages == 3

ASSUME ImageAssumption ==
    /\ MaxOrder \in Nat
    /\ Blobs \subseteq Nat
    /\ 0..MaxImages - 1 \subseteq Blobs
    /\ FirstImages \subseteq 0..MaxImages
    /\ None \notin Blobs \cup ImageCall

ImageTypeOK ==
    /\ images \in [Products -> [Orders -> Blobs \cup {None}]]
    /\ stored \subseteq Blobs
    /\ torn \subseteq Blobs
    /\ \A c \in Calls : call[c] = None \/ call[c] \in ProductCall \cup ImageCall

(* A product that is there may have images, up to the limit.               *)
ImageInit ==
    /\ images \in {[p \in Products |-> [o \in Orders |->
                      IF product[p] # None /\ o < n THEN o ELSE None]] :
                    n \in FirstImages}
    /\ stored = {images[p][o] : p \in Products, o \in Orders} \ {None}
    /\ torn = {}

LoopFree == \A c \in Calls : ~At(c, "stored")

OnImage(c) == call[c].request.op \in {"upload", "remove"}

(* Rows of this order that a call has inserted or deleted and not yet      *)
(* committed: another insert of the order, or delete of the row, waits.    *)
Touched(request) ==
    \E d \in Calls :
        /\ At(d, "answered")
        /\ OnImage(d)
        /\ call[d].request.product = request.product
        /\ call[d].request.order = request.order

Shown(p) == {o \in Orders : images[p][o] # None}

(* Variant that refuses the fifth image and not the fourth.                *)
AtLimit(p) == Cardinality(Shown(p)) <= MaxImages

(* Rows of uploads that are not yet committed are not counted.             *)
BelowLimit(p) == Cardinality(Shown(p)) < MaxImages

(* Paths that rows, blobs and calls name.                                  *)
Named == stored \cup {images[p][o] : p \in Products, o \in Orders}
            \cup {call[d].path : d \in {d \in Calls : At(d, "answered") /\ OnImage(d)}}

NewPath == CHOOSE path \in Blobs : path \notin Named

(* Variant that names the path after the product and the order.            *)
PathOfOrder(request) ==
    LET same == {d \in Calls : /\ At(d, "answered") /\ OnImage(d)
                               /\ call[d].request = request}
    IN IF same # {} THEN call[CHOOSE d \in same : TRUE].path
                    ELSE NewPath

(* new_id: a path nobody has named.                                        *)
FreshPath(request) == NewPath

EnterImage(c, s, request) ==
    /\ call[c] = None
    /\ Take
    /\ MayWrite(s)
    /\ product[request.product] # None
    /\ call' = [call EXCEPT ![c] = [step |-> "entered", request |-> request]]
    /\ UNCHANGED <<product, claims, token, used, imageVars>>

(* The rows are looked at, and then the blob is stored.                    *)
Upload(c) ==
    /\ At(c, "entered")
    /\ call[c].request.op = "upload"
    /\ LoopFree
    /\ Blobs \ Named # {}  \* bound: paths
    /\ LET request == call[c].request IN
         /\ BelowLimit(request.product)
         /\ request.order \notin Shown(request.product)
         /\ stored' = stored \cup {FreshPath(request)}
         /\ call' = [call EXCEPT ![c] = [step |-> "stored", request |-> request,
                                         path |-> FreshPath(request)]]
    /\ UNCHANGED <<product, claims, token, used, images, torn>>

(* The insert waits, and the loop with it, for a row of the same order.    *)
InsertImage(c) ==
    /\ At(c, "stored")
    /\ ~Touched(call[c].request)
    /\ images[call[c].request.product][call[c].request.order] = None
    /\ call' = [call EXCEPT ![c].step = "answered"]
    /\ UNCHANGED <<product, claims, token, used, imageVars>>

(* The insert raises: the blob is deleted and the request refused.         *)
InsertFails(c) ==
    /\ At(c, "stored")
    /\ stored' = stored \ {call[c].path}
    /\ call' = [call EXCEPT ![c] = None]
    /\ UNCHANGED <<product, claims, token, used, images, torn>>

(* The row is deleted, then the blob, which may be gone already, then the  *)
(* request is answered.                                                    *)
RemoveImage(c) ==
    /\ At(c, "entered")
    /\ call[c].request.op = "remove"
    /\ LET request == call[c].request
           path == images[request.product][request.order]
       IN /\ path # None
          /\ ~Touched(request)
          /\ stored' = stored \ {path}
          /\ call' = [call EXCEPT ![c] =
                        [step |-> "answered", request |-> request, path |-> path]]
    /\ UNCHANGED <<product, claims, token, used, images, torn>>

CommitImage(c) ==
    /\ At(c, "answered")
    /\ OnImage(c)
    /\ LET request == call[c].request IN
         images' = [images EXCEPT ![request.product][request.order] =
                      IF request.op = "upload" THEN call[c].path ELSE None]
    /\ torn' = torn \ {call[c].path}
    /\ call' = [call EXCEPT ![c] = None]
    /\ UNCHANGED <<product, claims, token, used, stored>>

(* A call is refused before it did anything, or dies with its work half    *)
(* done: its row is rolled back and its blob stays as it is, so that a     *)
(* removal leaves a row whose blob is gone.                                *)
AbandonImage(c) ==
    /\ call[c] # None
    /\ OnImage(c)
    /\ torn' = IF At(c, "answered") /\ call[c].request.op = "remove"
                 THEN torn \cup {call[c].path} ELSE torn
    /\ call' = [call EXCEPT ![c] = None]
    /\ UNCHANGED <<product, claims, token, used, images, stored>>

ImageStep ==
    \E c \in Calls :
        Upload(c) \/ InsertImage(c) \/ InsertFails(c) \/ RemoveImage(c) \/ AbandonImage(c)
==============================================================================
