\* Two requests at once, three in all, over one sku with up to three images.
SPECIFICATION Spec
CONSTANTS
  None = none
  Users = {u1, u2}
  Bearers = {s1}
  SessionLife = 2
  Horizon = 1
  Products = {p1, p2}
  Skus = {sku1}
  Fields = {title, price}
  Keys = {k1}
  Tokens = {x1, x2}
  TokenLife = 1
  MaxVersion = 3
  Calls = {c1, c2}
  MaxCalls = 3
  Blobs = {0, 1, 2, 3, 4}
  MaxOrder = 4
  FirstImages = {3}
SYMMETRY Symmetry
INVARIANTS TypeOK RepliesMatchRequests ImagesAreStored LimitIsClose Inductive
PROPERTIES PublicationsAreConfirmed KeysStand ImplementsContract
CHECK_DEADLOCK FALSE
