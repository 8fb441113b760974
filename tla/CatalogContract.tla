--------------------------- MODULE CatalogContract ---------------------------
(***************************************************************************)
(* What the catalog promises, with no sessions, calls or locks: every      *)
(* change of a product is one step, made to the product as it stands,      *)
(* under a key of its user that made no change before; a publication       *)
(* spends a token that its user was given for exactly the version that is  *)
(* replaced.                                                               *)
(***************************************************************************)
EXTENDS Naturals

CONSTANTS Users, Products, Keys, Tokens, Fields, None

VARIABLES
  product,  \* None, or [sku, edited, status, version]
  done,     \* keys that made a change: [user, op, key]
  token,    \* None, or [user, product, version, action, expires]
  spent     \* tokens that cannot be used any more

vars == <<product, done, token, spent>>

Init ==
    /\ done = {}
    /\ spent = {}

Confirm(t) ==
    /\ token[t] = None
    /\ token'[t] # None
    /\ token' = [token EXCEPT ![t] = token'[t]]
    /\ UNCHANGED <<product, done, spent>>

(* The key of a change: it made none before.                               *)
Once(slot) == slot \notin done /\ done' = done \cup {slot}

Create(p, slot) ==
    /\ product[p] = None
    /\ Once(slot)
    /\ slot.op = "create"
    /\ LET row == product'[p] IN
         /\ row # None
         /\ row.version = 1 /\ row.status = "DRAFT" /\ row.edited = {}
         /\ \A q \in Products : product[q] # None => product[q].sku # row.sku
         /\ product' = [product EXCEPT ![p] = row]
    /\ UNCHANGED <<token, spent>>

Edit(p, slot, field) ==
    /\ product[p] # None
    /\ Once(slot)
    /\ slot.op = "update"
    /\ product' = [product EXCEPT ![p].edited = @ \cup {field}, ![p].version = @ + 1]
    /\ UNCHANGED <<token, spent>>

Publish(p, slot, t) ==
    /\ product[p] # None
    /\ t \notin spent
    /\ token[t] # None
    /\ token[t].product = p
    /\ token[t].version = product[p].version
    /\ token[t].user = slot.user
    /\ token[t].action = slot.op
    /\ Once(slot)
    /\ spent' = spent \cup {t}
    /\ product' = [product EXCEPT
         ![p].status = IF token[t].action = "publish" THEN "PUBLISHED" ELSE "UNPUBLISHED",
         ![p].version = @ + 1]
    /\ UNCHANGED token

(* A token sent with a key that is answered again is consumed.             *)
Spend(t) ==
    /\ t \notin spent
    /\ token[t] # None
    /\ spent' = spent \cup {t}
    /\ UNCHANGED <<product, done, token>>

Slots(ops) == [user : Users, op : ops, key : Keys]

Next ==
    \/ \E t \in Tokens : Confirm(t) \/ Spend(t)
    \/ \E p \in Products :
         \/ \E slot \in Slots({"create"}) : Create(p, slot)
         \/ \E slot \in Slots({"update"}), field \in Fields : Edit(p, slot, field)
         \/ \E slot \in Slots({"publish", "unpublish"}), t \in Tokens : Publish(p, slot, t)

Spec == Init /\ [][Next]_vars
==============================================================================
