------------------------------ MODULE Products ------------------------------
(***************************************************************************)
(* ProductsService: administrators create products and edit them, each in  *)
(* one SERIALIZABLE transaction.  Name and price are locked once an order  *)
(* exists; the name is not modelled beside the price because it is read,   *)
(* locked and written with it.  Stock is set to the number given, not      *)
(* moved by a difference.  Numbers larger than the column are left out of  *)
(* the calls: the database refuses them and nothing changes.               *)
(***************************************************************************)
EXTENDS Orders, FileDatabase

CONSTANT
  ProductCalls         \* POST and PATCH /admin/products requests sent

Optional(S) == S \cup {Keep}

ProductCall ==
  [op        : {"create", "update"},
   product   : Products,
   price     : Optional(1..MaxInt),
   stock     : Optional(0..MaxInt),
   orderable : Optional(BOOLEAN),
   published : Optional(BOOLEAN),
   described : Optional(BOOLEAN),
   image     : Optional(Images \cup {NoRow})]

ProductFields == {"price", "stock", "orderable", "published", "described", "image"}

ProductCodes ==
  {"OK", "P400_PRODUCT_UPDATE_REQUIRED", "P400_PRODUCT_NOT_PUBLISHABLE",
   "P404_PRODUCT_NOT_FOUND", "P409_PRODUCT_CORE_FIELDS_LOCKED",
   "P409_PRODUCT_CONCURRENT_UPDATE"} \cup ImageCodes

ASSUME ProductsAssumption ==
  /\ ProductCalls \subseteq ProductCall
  /\ NoCall \notin ProductCalls
  /\ \A c \in ProductCalls :
       c.op = "create" => \A f \in ProductFields \ {"orderable"} : c[f] # Keep

\* The orders that lock the core fields of product p.
DeliveredOrdersOf(p) ==     \* mutant: only delivered orders count
  {k \in Keys : /\ orders[k] # NoOrder /\ orders[k].product = p
                /\ orders[k].status = "DELIVERED"}
OrdersOf(p) == {k \in Keys : orders[k] # NoOrder /\ orders[k].product = p}

\* A published product has a description and an image.
IsDescribed(row) == row.published => row.described     \* mutant
IsPublishable(row) ==
  row.published => row.described /\ row.image # NoRow

\* A field after a request that sets it to new or leaves it out.
Chosen(new, old) == IF new = Keep THEN old ELSE new

CreatedAsSent(c) ==     \* mutant: no default for a field left out
  [f \in ProductFields |-> c[f]]
\* The row that creation request c inserts; products are orderable unless the
\* request says otherwise.
CreatedProduct(c) ==
  [price |-> c.price, stock |-> c.stock,
   orderable |-> Chosen(c.orderable, TRUE),
   published |-> c.published, described |-> c.described, image |-> c.image]

\* The row that update request c leaves.
UpdatedProduct(c) ==
  LET before == products[c.product]
  IN  [price     |-> Chosen(c.price, before.price),
       stock     |-> Chosen(c.stock, before.stock),
       orderable |-> Chosen(c.orderable, before.orderable),
       published |-> Chosen(c.published, before.published),
       described |-> Chosen(c.described, before.described),
       image     |-> Chosen(c.image, before.image)]

CreationRefusal(c) ==
  IF ~IsPublishable(CreatedProduct(c)) THEN "P400_PRODUCT_NOT_PUBLISHABLE"
  ELSE IF c.image # NoRow THEN ImageRefusal(c.image, "PRODUCT_IMAGE")
  ELSE "none"

UpdateRefusal(c) ==
  LET before == products[c.product]
      after  == UpdatedProduct(c)
  IN  IF before = NoRow THEN "P404_PRODUCT_NOT_FOUND"
      ELSE IF OrdersOf(c.product) # {} /\ after.price # before.price
      THEN "P409_PRODUCT_CORE_FIELDS_LOCKED"
      ELSE IF ~IsPublishable(after) THEN "P400_PRODUCT_NOT_PUBLISHABLE"
      ELSE IF after.image # NoRow /\ (c.image # Keep \/ after.published)
      THEN ImageRefusal(after.image, "PRODUCT_IMAGE")
      ELSE "none"

ReceiveProductCall(r, c) ==
  /\ \/ /\ c.op = "update" /\ \A f \in ProductFields : c[f] = Keep
        /\ ReceiveAndRespond(r, c, "P400_PRODUCT_UPDATE_REQUIRED")
     \/ /\ c.op = "update" => \E f \in ProductFields : c[f] # Keep
        /\ Receive(r, c, "tx")
  /\ UNCHANGED <<databaseVars, orderVars>>

RefuseProductCall(r) ==
  LET c == call[r]
      refusal == IF c.op = "create" THEN CreationRefusal(c) ELSE UpdateRefusal(c)
  IN  /\ pc[r] = "tx" /\ c \in ProductCalls
      /\ refusal # "none"
      /\ Respond(r, Answered(refusal))
      /\ UNCHANGED <<databaseVars, orderVars>>

CreateProduct(r) ==
  LET c == call[r]
  IN  /\ pc[r] = "tx" /\ c \in ProductCalls /\ c.op = "create"
      /\ products[c.product] = NoRow
      /\ CreationRefusal(c) = "none"
      /\ products' = [products EXCEPT ![c.product] = CreatedProduct(c)]
      /\ LogAdminAction(c.product)
      /\ Respond(r, Answered("OK"))
      /\ UNCHANGED <<userVars, ledgerVars, orderVars>>

\* A request that changes nothing writes nothing and logs nothing.
UpdateProduct(r) ==
  LET c == call[r]
  IN  /\ pc[r] = "tx" /\ c \in ProductCalls /\ c.op = "update"
      /\ UpdateRefusal(c) = "none"
      /\ \/ /\ UpdatedProduct(c) # products[c.product]
            /\ products' = [products EXCEPT ![c.product] = UpdatedProduct(c)]
            /\ LogAdminAction(c.product)
         \/ /\ UpdatedProduct(c) = products[c.product]
            /\ UNCHANGED <<products, adminActionLogs>>
      /\ Respond(r, Answered("OK"))
      /\ UNCHANGED <<userVars, ledgerVars, orderVars>>

ProductConflict(r) ==
  /\ call[r] \in ProductCalls
  /\ RetryAfterConflict(r, "P409_PRODUCT_CONCURRENT_UPDATE")
  /\ UNCHANGED <<databaseVars, orderVars>>

ProductsNext ==
  \E r \in Slots :
    \/ \E c \in ProductCalls : ReceiveProductCall(r, c)
    \/ RefuseProductCall(r)
    \/ CreateProduct(r)
    \/ UpdateProduct(r)
    \/ ProductConflict(r)

-----------------------------------------------------------------------------
(* Properties *)

\* Every order was placed at the price its product has now: a price cannot
\* change between or after orders, not even while a first order is in flight
\* (the core-field lock of updateProduct against createOrder).
PriceLocked ==
  \A k \in Keys :
    orders[k] # NoOrder =>
      /\ products[orders[k].product] # NoRow
      /\ orders[k].unitPrice = products[orders[k].product].price

\* A product shown to students has a description and an image that can be
\* displayed (createProduct, updateProduct against deleteFile).
PublishedAreComplete ==
  \A p \in Products :
    products[p] # NoRow /\ products[p].published =>
      products[p].described /\ products[p].image \in UsableAs("PRODUCT_IMAGE")

=============================================================================
