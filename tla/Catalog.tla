------------------------------ MODULE Catalog ------------------------------
(***************************************************************************)
(* ProductsService and ProductVariantsService: products with their slugs,  *)
(* and variants with their SKUs, their default and their stock row.        *)
(*                                                                         *)
(* A row is named after the request that inserts it.  A variant and its    *)
(* inventory row are inserted in one transaction: until it commits, the    *)
(* variant is in draft, nobody reads it, and whoever writes its SKU waits. *)
(* Rows are never deleted: no code sets deletedAt.                         *)
(***************************************************************************)
EXTENDS Integers, FiniteSets

CONSTANTS
    NewProducts,    \* POST /products
    ProductUpdates, \* PATCH /products/:productId
    NewVariants,    \* POST /products/:productId/variants
    VariantUpdates, \* PATCH /products/:productId/variants/:variantId
    Slugs,
    Skus,
    None            \* "no such row", Prisma's null

Creations == NewProducts \cup NewVariants
Updates == ProductUpdates \cup VariantUpdates
Requests == Creations \cup Updates

ASSUME RequestsAssumption ==
    /\ NewProducts \cap (NewVariants \cup Updates) = {}
    /\ ProductUpdates \cap (NewVariants \cup VariantUpdates) = {}
    /\ NewVariants \cap VariantUpdates = {}

VariantRow == [product : NewProducts, sku : Skus, isDefault : BOOLEAN]

ASSUME NoneAssumption == None \notin Requests \cup Slugs \cup VariantRow

VARIABLES
    slug,       \* slug[p]: Product.slug of product p, or None
    variants,   \* variants[v]: the committed row of variant v, or None
    stocked,    \* the variants that have an inventory row
    draft,      \* draft[v]: the row that v's transaction has inserted, or None
    pc,         \* pc[r]: where request r is in its handler
    answer,     \* answer[r]: the response of a finished request
    target,     \* target[r]: the product or variant of r's route, or None
    sku,        \* sku[r]: the SKU in r's body, or None
    first,      \* first[r]: isFirstVariant
    overlapped  \* history: the products for which two new variants have been
                \* on their way at the same time

tables == <<slug, variants, stocked>>
locals == <<draft, target, sku, first>>
vars == <<tables, pc, answer, locals, overlapped>>

Goto(r, place) ==
    /\ pc' = [pc EXCEPT ![r] = place]
    /\ UNCHANGED answer

Finish(r, a) ==
    /\ pc' = [pc EXCEPT ![r] = "done"]
    /\ answer' = [answer EXCEPT ![r] = a]

\* An open transaction is rolled back.
Rollback(r) == draft' = [v \in NewVariants |-> IF v = r THEN None ELSE draft[v]]

Fail(r, a) ==
    /\ Finish(r, a) /\ Rollback(r)
    /\ UNCHANGED <<tables, target, sku, first, overlapped>>

Products == {p \in NewProducts : slug[p] # None}
Variants == {v \in NewVariants : variants[v] # None}

Init ==
    /\ slug = [p \in NewProducts |-> None]
    /\ variants = [v \in NewVariants |-> None]
    /\ stocked = {}
    /\ draft = [v \in NewVariants |-> None]
    /\ pc = [r \in Requests |-> "new"]
    /\ answer = [r \in Requests |-> "none"]
    /\ target = [r \in Requests |-> None]
    /\ sku = [r \in Requests |-> None]
    /\ first = [r \in Requests |-> FALSE]
    /\ overlapped = {}

----------------------------------------------------------------------------
\* Mutant: the slug is compared with those of other vendors only.
AnySlug(s, p) == TRUE

\* The unique index on slug.
SlugFree(s, p) == \A q \in Products \ {p} : slug[q] # s

\* Sets the slug of product p, or answers that it is taken.
WriteSlug(r, p, s, a) ==
    IF SlugFree(s, p)
    THEN /\ slug' = [slug EXCEPT ![p] = s]
         /\ Finish(r, a)
         /\ UNCHANGED <<variants, stocked, locals, overlapped>>
    ELSE Fail(r, "409")

\* The vendor and the category are read before; an unknown one is a 403 or 400.
CheckProduct(r) ==
    /\ pc[r] = "new"
    /\ \/ Fail(r, "4xx")
       \/ Goto(r, "insert") /\ UNCHANGED <<tables, locals, overlapped>>

CreateProduct(r) ==
    \/ CheckProduct(r)
    \/ pc[r] = "insert" /\ \E s \in Slugs : WriteSlug(r, r, s, "201")

\* The category of an update is read before it; an update without a slug
\* writes the old one.
UpdateProduct(r) ==
    \/ CheckProduct(r)
    \/ /\ pc[r] = "insert"
       /\ \E p \in Products, s \in Slugs : WriteSlug(r, p, s, "200")

----------------------------------------------------------------------------
\* createForProduct

Open(r) == pc[r] \notin {"new", "done"}

\* assertProductExists
FindProduct(r) ==
    /\ pc[r] = "new"
    /\ \/ Fail(r, "404")
       \/ \E p \in Products, s \in Skus :
             /\ target' = [target EXCEPT ![r] = p]
             /\ sku' = [sku EXCEPT ![r] = s]
             /\ Goto(r, "count")
             /\ overlapped' = overlapped \cup
                    {q \in {p} : \E v \in NewVariants : Open(v) /\ target[v] = q}
             /\ UNCHANGED <<tables, draft, first>>

\* Mutant: the variants of the other products are counted.
CountedOthers(p) == {v \in Variants : variants[v].product # p}

\* The variants that the count finds.
Counted(p) == {v \in Variants : variants[v].product = p}

CountVariants(r) ==
    /\ pc[r] = "count"
    /\ first' = [first EXCEPT ![r] = Counted(target[r]) = {}]
    /\ Goto(r, "insert")
    /\ UNCHANGED <<tables, draft, target, sku, overlapped>>

\* Whether an open transaction has inserted this SKU.
SkuLocked(s) == \E v \in NewVariants : draft[v] # None /\ draft[v].sku = s

\* The unique index on sku.
SkuFree(s, v) == \A w \in Variants \ {v} : variants[w].sku # s

InsertVariant(r) ==
    /\ pc[r] = "insert"
    /\ ~SkuLocked(sku[r])
    /\ IF SkuFree(sku[r], r)
       THEN /\ draft' = [draft EXCEPT ![r] =
                            [product |-> target[r], sku |-> sku[r],
                             isDefault |-> first[r]]]
            /\ Goto(r, "inventory")
            /\ UNCHANGED <<tables, target, sku, first, overlapped>>
       ELSE Fail(r, "409")

\* Mutant: the inventory row is written by a later transaction.
StockRowLater(r) == stocked

\* The inventory row of the new variant.
StockRow(r) == stocked \cup {r}

\* The insert of the inventory row, and the commit.
InsertInventory(r) ==
    /\ pc[r] = "inventory"
    /\ variants' = [variants EXCEPT ![r] = draft[r]]
    /\ stocked' = StockRow(r)
    /\ Rollback(r)
    /\ Finish(r, "201")
    /\ UNCHANGED <<slug, target, sku, first, overlapped>>

CreateVariant(r) ==
    \/ FindProduct(r)
    \/ CountVariants(r)
    \/ InsertVariant(r)
    \/ InsertInventory(r)

\* update: findOne,
FindVariant(r) ==
    /\ pc[r] = "new"
    /\ \/ Fail(r, "404")
       \/ \E v \in Variants, s \in Skus :
             /\ target' = [target EXCEPT ![r] = v]
             /\ sku' = [sku EXCEPT ![r] = s]
             /\ Goto(r, "insert")
             /\ UNCHANGED <<tables, draft, first, overlapped>>

\* then one UPDATE by id, which waits for a SKU that an open transaction has
\* inserted.  isDefault is not among its columns.
WriteVariant(r) ==
    /\ pc[r] = "insert"
    /\ ~SkuLocked(sku[r])
    /\ IF SkuFree(sku[r], target[r])
       THEN /\ variants' = [variants EXCEPT ![target[r]].sku = sku[r]]
            /\ Finish(r, "200")
            /\ UNCHANGED <<slug, stocked, locals, overlapped>>
       ELSE Fail(r, "409")

UpdateVariant(r) == FindVariant(r) \/ WriteVariant(r)

----------------------------------------------------------------------------
\* The request dies between two statements.
Interrupt(r) == Open(r) /\ Fail(r, "5xx")

Step(r) ==
    \/ r \in NewProducts /\ CreateProduct(r)
    \/ r \in ProductUpdates /\ UpdateProduct(r)
    \/ r \in NewVariants /\ CreateVariant(r)
    \/ r \in VariantUpdates /\ UpdateVariant(r)

Next == \E r \in Requests : Step(r) \/ Interrupt(r)

Spec == Init /\ [][Next]_vars

----------------------------------------------------------------------------
TypeOK ==
    /\ slug \in [NewProducts -> Slugs \cup {None}]
    /\ variants \in [NewVariants -> VariantRow \cup {None}]
    /\ stocked \subseteq NewVariants
    /\ draft \in [NewVariants -> VariantRow \cup {None}]
    /\ pc \in [Requests -> {"new", "count", "insert", "inventory", "done"}]
    /\ answer \in [Requests -> {"none", "200", "201", "404", "409", "4xx", "5xx"}]
    /\ target \in [Requests -> Creations \cup {None}]
    /\ sku \in [Requests -> Skus \cup {None}]
    /\ first \in [Requests -> BOOLEAN]
    /\ overlapped \subseteq NewProducts

\* No two products share a slug and no two variants a SKU, whatever creations
\* and updates run at once.
NamesUnique ==
    /\ \A p, q \in Products : slug[p] = slug[q] => p = q
    /\ \A v, w \in Variants : variants[v].sku = variants[w].sku => v = w

DefaultsOf(p) ==
    {v \in Variants : variants[v].product = p /\ variants[v].isDefault}

\* Every variant that anybody can read has its inventory row, and no row is
\* left behind by a transaction that failed.
StockedVariants == stocked = Variants

HasDefault == \A v \in Variants : DefaultsOf(variants[v].product) # {}

OneDefault ==
    \A p \in Products \ overlapped : \A v, w \in DefaultsOf(p) : v = w

\* docs/database/catalog.md:763: "Each product must have a default sellable
\* variant": a product with variants has a default one, although the first
\* insert may fail after later requests have counted.  It has only one
\* (catalog.md:1653) unless two new variants of it were on their way together.
Defaults == HasDefault /\ OneDefault

\* A variant on its way knows its product and SKU, and holds in its draft what
\* it has read; an update knows the variant it writes.
DraftsSound ==
    /\ \A v \in NewVariants :
          /\ variants[v] # None => pc[v] = "done"
          /\ draft[v] # None => pc[v] = "inventory"
          /\ pc[v] = "inventory" =>
                draft[v] = [product |-> target[v], sku |-> sku[v],
                            isDefault |-> first[v]]
          /\ Open(v) => target[v] \in NewProducts /\ sku[v] \in Skus
    /\ \A u \in VariantUpdates : pc[u] = "insert" =>
          target[u] \in Variants /\ sku[u] \in Skus

\* The SKU of a draft is nobody else's.
SkusSound ==
    \A v \in NewVariants : draft[v] # None =>
        /\ \A w \in Variants : variants[w].sku # draft[v].sku
        /\ \A w \in NewVariants \ {v} :
              draft[w] # None => draft[w].sku # draft[v].sku

Counting(v) == pc[v] \in {"insert", "inventory"}

\* A variant that is not the first finds a default; one that is the first, and
\* alone on its way, finds no variant.
DefaultsSound ==
    /\ \A v \in NewVariants :
          /\ Counting(v) /\ ~first[v] => DefaultsOf(target[v]) # {}
          /\ Counting(v) /\ first[v] /\ target[v] \notin overlapped =>
                Counted(target[v]) = {}
          /\ Open(v) /\ target[v] \notin overlapped =>
                \A w \in NewVariants \ {v} : Open(w) => target[w] # target[v]
    /\ \A p \in NewProducts \ overlapped : \A v, w \in DefaultsOf(p) : v = w

\* The inductive invariant behind these properties.
CatalogInv ==
    /\ TypeOK /\ NamesUnique /\ StockedVariants /\ HasDefault
    /\ DraftsSound /\ SkusSound /\ DefaultsSound
============================================================================
