---------------------------- MODULE CatalogProofs ----------------------------
(***************************************************************************)
(* For any number of products, variants and requests: slugs and SKUs are   *)
(* unique, variants have their inventory rows, and every product that has  *)
(* variants has a default one, and only one unless two were created        *)
(* together.                                                               *)
(***************************************************************************)
EXTENDS Catalog, TLAPS

LEMMA Sorts ==
    /\ NewProducts \subseteq Creations /\ NewVariants \subseteq Creations
    /\ NewProducts \subseteq Requests /\ ProductUpdates \subseteq Requests
    /\ NewVariants \subseteq Requests /\ VariantUpdates \subseteq Requests
    /\ (NewProducts \cup ProductUpdates) \cap (NewVariants \cup VariantUpdates) = {}
    /\ NewVariants \cap VariantUpdates = {} /\ NewProducts \cap ProductUpdates = {}
    /\ None \notin Requests /\ None \notin Slugs /\ None \notin VariantRow
BY RequestsAssumption, NoneAssumption DEF Requests, Creations, Updates

Places == {"new", "count", "insert", "inventory", "done"}
Answers == {"none", "200", "201", "404", "409", "4xx", "5xx"}

LEMMA FinishFacts ==
    ASSUME TypeOK, NEW r \in Requests, NEW a \in Answers, Finish(r, a)
    PROVE  /\ pc' \in [Requests -> Places] /\ answer' \in [Requests -> Answers]
           /\ pc'[r] = "done" /\ answer'[r] = a
           /\ \A q \in Requests \ {r} : pc'[q] = pc[q] /\ answer'[q] = answer[q]
BY DEF Finish, TypeOK, Places, Answers

LEMMA GotoFacts ==
    ASSUME TypeOK, NEW r \in Requests, NEW place \in Places, Goto(r, place)
    PROVE  /\ pc' \in [Requests -> Places] /\ answer' \in [Requests -> Answers]
           /\ pc'[r] = place
           /\ \A q \in Requests \ {r} : pc'[q] = pc[q] /\ answer'[q] = answer[q]
BY DEF Goto, TypeOK, Places, Answers

LEMMA RollbackFacts ==
    ASSUME TypeOK, NEW r, Rollback(r)
    PROVE  /\ draft' \in [NewVariants -> VariantRow \cup {None}]
           /\ \A v \in NewVariants : draft'[v] = IF v = r THEN None ELSE draft[v]
BY DEF Rollback, TypeOK

\* The committed variants are rows.
LEMMA VariantRows ==
    ASSUME TypeOK, NEW v \in Variants
    PROVE  /\ v \in NewVariants /\ variants[v] \in VariantRow /\ variants[v] # None
           /\ variants[v].product \in NewProducts /\ variants[v].sku \in Skus
           /\ variants[v].isDefault \in BOOLEAN
BY DEF TypeOK, Variants, VariantRow

LEMMA InitInv == Init => CatalogInv
<1> SUFFICES ASSUME Init PROVE CatalogInv
  OBVIOUS
<1>1. TypeOK
  BY DEF Init, TypeOK
<1>2. Products = {} /\ Variants = {}
  BY DEF Init, Products, Variants
<1>3. NamesUnique /\ StockedVariants /\ HasDefault
  BY <1>2 DEF Init, NamesUnique, StockedVariants, HasDefault
<1>4. DraftsSound
  BY Sorts DEF Init, DraftsSound, Open
<1>5. SkusSound
  BY DEF Init, SkusSound
<1>6. DefaultsSound
  BY <1>2, Sorts DEF Init, DefaultsSound, DefaultsOf, Counting, Open
<1> QED
  BY <1>1, <1>3, <1>4, <1>5, <1>6 DEF CatalogInv

----------------------------------------------------------------------------
\* A step of request r that commits no variant.
LEMMA LocalInv ==
    ASSUME CatalogInv, TypeOK', NEW r \in Requests, UNCHANGED <<variants, stocked>>,
           \A q \in Requests \ {r} : /\ pc'[q] = pc[q] /\ target'[q] = target[q]
                                     /\ sku'[q] = sku[q] /\ first'[q] = first[q],
           \A v \in NewVariants \ {r} : draft'[v] = draft[v],
           \A p, q \in Products' : slug'[p] = slug'[q] => p = q,
           overlapped \subseteq overlapped',
           r \in VariantUpdates /\ pc'[r] = "insert" =>
               target'[r] \in Variants /\ sku'[r] \in Skus,
           r \in NewVariants =>
               /\ pc[r] # "done"
               /\ draft'[r] # None => pc'[r] = "inventory"
               /\ pc'[r] = "inventory" =>
                     draft'[r] = [product |-> target'[r], sku |-> sku'[r],
                                  isDefault |-> first'[r]]
               /\ draft'[r] # None =>
                     /\ \A w \in Variants : variants[w].sku # draft'[r].sku
                     /\ \A w \in NewVariants \ {r} :
                           draft[w] # None => draft[w].sku # draft'[r].sku
               /\ pc'[r] \notin {"new", "done"} =>
                     /\ target'[r] \in NewProducts /\ sku'[r] \in Skus
                     /\ target'[r] \notin overlapped' =>
                           \A w \in NewVariants \ {r} :
                               Open(w) => target[w] # target'[r]
               /\ pc'[r] \in {"insert", "inventory"} =>
                     /\ ~first'[r] => DefaultsOf(target'[r]) # {}
                     /\ first'[r] /\ target'[r] \notin overlapped' =>
                           Counted(target'[r]) = {}
    PROVE  CatalogInv'
<1> USE DEF CatalogInv
<1>1. Variants' = Variants /\ \A p : DefaultsOf(p)' = DefaultsOf(p) /\ Counted(p)' = Counted(p)
  BY DEF Variants, DefaultsOf, Counted
<1>2. NamesUnique' /\ StockedVariants'
  BY <1>1 DEF NamesUnique, StockedVariants
<1>3. HasDefault'
  <2> SUFFICES ASSUME NEW v \in Variants PROVE DefaultsOf(variants[v].product)' # {}
    BY <1>1 DEF HasDefault
  <2>1. DefaultsOf(variants[v].product) # {}
    BY DEF HasDefault
  <2> QED
    BY <1>1, <2>1 DEF DefaultsOf
<1>4. \A v \in NewVariants \ {r} : /\ pc'[v] = pc[v] /\ target'[v] = target[v]
                                   /\ sku'[v] = sku[v] /\ first'[v] = first[v]
                                   /\ draft'[v] = draft[v]
  BY Sorts
<1>5. DraftsSound'
  <2>1. \A u \in VariantUpdates : pc'[u] = "insert" =>
            target'[u] \in Variants /\ sku'[u] \in Skus
    BY Sorts DEF DraftsSound
  <2>2. \A v \in NewVariants : variants[v] # None => pc'[v] = "done"
    BY <1>4 DEF DraftsSound
  <2>3. \A v \in NewVariants :
          /\ draft'[v] # None => pc'[v] = "inventory"
          /\ pc'[v] = "inventory" =>
                draft'[v] = [product |-> target'[v], sku |-> sku'[v],
                             isDefault |-> first'[v]]
          /\ pc'[v] \notin {"new", "done"} => target'[v] \in NewProducts /\ sku'[v] \in Skus
    BY <1>4 DEF DraftsSound, Open
  <2> QED
    BY <1>1, <2>1, <2>2, <2>3 DEF DraftsSound, Open
<1>6. SkusSound'
  <2> SUFFICES ASSUME NEW v \in NewVariants, draft'[v] # None
               PROVE  /\ \A w \in Variants : variants[w].sku # draft'[v].sku
                      /\ \A w \in NewVariants \ {v} :
                            draft'[w] # None => draft'[w].sku # draft'[v].sku
    BY <1>1 DEF SkusSound
  <2>1. CASE v = r
    BY <1>4, <2>1
  <2>2. CASE v # r
    <3>1. draft'[v] = draft[v]
      BY <1>4, <2>2
    <3> QED
      BY <1>4, <2>2, <3>1 DEF SkusSound
  <2> QED
    BY <2>1, <2>2
<1>7. DefaultsSound'
  <2>1. ASSUME NEW v \in NewVariants
        PROVE  /\ pc'[v] \in {"insert", "inventory"} =>
                     /\ ~first'[v] => DefaultsOf(target'[v]) # {}
                     /\ first'[v] /\ target'[v] \notin overlapped' =>
                           Counted(target'[v]) = {}
               /\ pc'[v] \notin {"new", "done"} /\ target'[v] \notin overlapped' =>
                     \A w \in NewVariants \ {v} :
                         pc'[w] \notin {"new", "done"} => target'[w] # target'[v]
    <3>1. CASE v = r
      BY <1>4, <3>1 DEF Open
    <3>2. CASE v # r
      <4>1. /\ pc'[v] \in {"insert", "inventory"} =>
                  /\ ~first'[v] => DefaultsOf(target'[v]) # {}
                  /\ first'[v] /\ target'[v] \notin overlapped' =>
                        Counted(target'[v]) = {}
        BY <1>4, <3>2 DEF DefaultsSound, Counting
      <4>2. ASSUME pc'[v] \notin {"new", "done"}, target'[v] \notin overlapped',
                   NEW w \in NewVariants \ {v}, pc'[w] \notin {"new", "done"}
            PROVE  target'[w] # target'[v]
        BY <1>4, <3>2, <4>2 DEF DefaultsSound, Open
      <4> QED
        BY <4>1, <4>2
    <3> QED
      BY <3>1, <3>2
  <2>2. \A p \in NewProducts \ overlapped' : \A v, w \in DefaultsOf(p) : v = w
    BY DEF DefaultsSound
  <2>3. \A v \in NewVariants : /\ DefaultsOf(target[v])' = DefaultsOf(target'[v])
                               /\ Counted(target[v])' = Counted(target'[v])
    BY <1>1 DEF DefaultsOf, Counted
  <2> QED
    BY <1>1, <2>1, <2>2, <2>3 DEF DefaultsSound, Counting, Open
<1> QED
  BY <1>2, <1>3, <1>5, <1>6, <1>7

LEMMA FailInv ==
    ASSUME CatalogInv, NEW r \in Requests, NEW a \in Answers, Fail(r, a), pc[r] # "done"
    PROVE  CatalogInv'
<1>1. /\ Finish(r, a) /\ Rollback(r)
      /\ UNCHANGED <<slug, variants, stocked, target, sku, first, overlapped>>
  BY DEF Fail, tables
<1>2. /\ pc' \in [Requests -> Places] /\ answer' \in [Requests -> Answers]
      /\ pc'[r] = "done"
      /\ \A q \in Requests \ {r} : pc'[q] = pc[q]
  BY <1>1, FinishFacts DEF CatalogInv
<1>3. /\ draft' \in [NewVariants -> VariantRow \cup {None}]
      /\ \A v \in NewVariants : draft'[v] = IF v = r THEN None ELSE draft[v]
  BY <1>1, RollbackFacts DEF CatalogInv
<1>4. TypeOK'
  BY <1>1, <1>2, <1>3 DEF CatalogInv, TypeOK, Places, Answers
<1>5. \A p, q \in Products' : slug'[p] = slug'[q] => p = q
  BY <1>1 DEF CatalogInv, NamesUnique, Products
<1> QED
  BY <1>1, <1>2, <1>3, <1>4, <1>5, LocalInv

----------------------------------------------------------------------------
\* Products
LEMMA WriteSlugInv ==
    ASSUME CatalogInv, NEW r \in NewProducts \cup ProductUpdates, pc[r] # "done",
           NEW p \in NewProducts, NEW s \in Slugs, NEW a \in Answers,
           WriteSlug(r, p, s, a)
    PROVE  CatalogInv'
<1>1. r \in Requests /\ r \notin NewVariants /\ r \notin VariantUpdates
  BY Sorts
<1>2. CASE ~SlugFree(s, p)
  <2>1. Fail(r, "409") /\ "409" \in Answers
    BY <1>2 DEF WriteSlug, Answers
  <2> QED
    BY <1>1, <2>1, FailInv
<1>3. CASE SlugFree(s, p)
  <2>1. /\ slug' = [slug EXCEPT ![p] = s] /\ Finish(r, a)
        /\ UNCHANGED <<variants, stocked, draft, target, sku, first, overlapped>>
    BY <1>3 DEF WriteSlug, locals
  <2>2. /\ pc' \in [Requests -> Places] /\ answer' \in [Requests -> Answers]
        /\ pc'[r] = "done"
        /\ \A q \in Requests \ {r} : pc'[q] = pc[q]
    BY <1>1, <2>1, FinishFacts DEF CatalogInv
  <2>3. TypeOK'
    BY <2>1, <2>2 DEF CatalogInv, TypeOK, Places, Answers
  <2>4. \A x, y \in Products' : slug'[x] = slug'[y] => x = y
    <3>1. /\ slug'[p] = s /\ \A x \in NewProducts \ {p} : slug'[x] = slug[x]
      BY <2>1 DEF CatalogInv, TypeOK
    <3>2. \A x \in Products' \ {p} : x \in Products /\ slug'[x] = slug[x]
      BY <3>1 DEF Products
    <3>3. \A x \in Products \ {p} : slug[x] # s
      BY <1>3 DEF SlugFree
    <3> QED
      BY <3>1, <3>2, <3>3 DEF CatalogInv, NamesUnique
  <2> QED
    BY <1>1, <2>1, <2>2, <2>3, <2>4, LocalInv
<1> QED
  BY <1>2, <1>3

LEMMA CheckProductInv ==
    ASSUME CatalogInv, NEW r \in NewProducts \cup ProductUpdates, CheckProduct(r)
    PROVE  CatalogInv'
<1>1. r \in Requests /\ r \notin NewVariants /\ r \notin VariantUpdates /\ pc[r] = "new"
      /\ "4xx" \in Answers /\ "insert" \in Places
  BY Sorts DEF CheckProduct, Answers, Places
<1>2. CASE Fail(r, "4xx")
  BY <1>1, <1>2, FailInv
<1>3. CASE Goto(r, "insert") /\ UNCHANGED <<tables, locals, overlapped>>
  <2>1. UNCHANGED <<slug, variants, stocked, draft, target, sku, first, overlapped>>
    BY <1>3 DEF tables, locals
  <2>2. /\ pc' \in [Requests -> Places] /\ answer' \in [Requests -> Answers]
        /\ pc'[r] = "insert"
        /\ \A q \in Requests \ {r} : pc'[q] = pc[q]
    BY <1>1, <1>3, GotoFacts DEF CatalogInv
  <2>3. TypeOK'
    BY <2>1, <2>2 DEF CatalogInv, TypeOK, Places, Answers
  <2>4. \A p, q \in Products' : slug'[p] = slug'[q] => p = q
    BY <2>1 DEF CatalogInv, NamesUnique, Products
  <2> QED
    BY <1>1, <2>1, <2>2, <2>3, <2>4, LocalInv
<1> QED
  BY <1>2, <1>3 DEF CheckProduct

LEMMA ProductInv ==
    ASSUME CatalogInv, NEW r \in Requests,
           \/ r \in NewProducts /\ CreateProduct(r)
           \/ r \in ProductUpdates /\ UpdateProduct(r)
    PROVE  CatalogInv'
<1>1. {"200", "201"} \subseteq Answers /\ \A p \in Products : p \in NewProducts
  BY DEF Answers, Products
<1>2. CASE r \in NewProducts /\ CreateProduct(r)
  BY <1>1, <1>2, CheckProductInv, WriteSlugInv DEF CreateProduct
<1>3. CASE r \in ProductUpdates /\ UpdateProduct(r)
  BY <1>1, <1>3, CheckProductInv, WriteSlugInv DEF UpdateProduct
<1> QED
  BY <1>2, <1>3

----------------------------------------------------------------------------
\* Variants
LEMMA FindProductInv ==
    ASSUME CatalogInv, NEW r \in NewVariants, FindProduct(r)
    PROVE  CatalogInv'
<1>1. r \in Requests /\ r \notin VariantUpdates /\ pc[r] = "new"
      /\ "404" \in Answers /\ "count" \in Places
  BY Sorts DEF FindProduct, Answers, Places
<1>2. CASE Fail(r, "404")
  BY <1>1, <1>2, FailInv
<1>3. ASSUME NEW p \in Products, NEW s \in Skus,
             target' = [target EXCEPT ![r] = p], sku' = [sku EXCEPT ![r] = s],
             Goto(r, "count"),
             overlapped' = overlapped \cup
                 {q \in {p} : \E v \in NewVariants : Open(v) /\ target[v] = q},
             UNCHANGED <<tables, draft, first>>
      PROVE  CatalogInv'
  <2>1. UNCHANGED <<slug, variants, stocked, draft, first>> /\ p \in NewProducts
    BY <1>3 DEF tables, Products
  <2>2. /\ pc' \in [Requests -> Places] /\ answer' \in [Requests -> Answers]
        /\ pc'[r] = "count"
        /\ \A q \in Requests \ {r} : pc'[q] = pc[q]
    BY <1>1, <1>3, GotoFacts DEF CatalogInv
  <2>3. /\ target'[r] = p /\ sku'[r] = s /\ draft[r] = None
        /\ \A q \in Requests \ {r} : target'[q] = target[q] /\ sku'[q] = sku[q]
    BY <1>1, <1>3 DEF CatalogInv, TypeOK, DraftsSound
  <2>4. TypeOK'
    <3>1. /\ target' \in [Requests -> Creations \cup {None}]
          /\ sku' \in [Requests -> Skus \cup {None}]
          /\ overlapped' \subseteq NewProducts
      BY <1>1, <1>3, <2>1, Sorts DEF CatalogInv, TypeOK
    <3> QED
      BY <2>1, <2>2, <3>1 DEF CatalogInv, TypeOK, Places, Answers
  <2>5. \A x, y \in Products' : slug'[x] = slug'[y] => x = y
    BY <2>1 DEF CatalogInv, NamesUnique, Products
  <2>6. /\ target'[r] \notin overlapped' =>
               \A w \in NewVariants \ {r} : Open(w) => target[w] # target'[r]
        /\ overlapped \subseteq overlapped'
    BY <1>3, <2>3
  <2>7. /\ draft'[r] = None /\ \A v \in NewVariants \ {r} : draft'[v] = draft[v]
        /\ \A q \in Requests \ {r} : /\ pc'[q] = pc[q] /\ target'[q] = target[q]
                                      /\ sku'[q] = sku[q] /\ first'[q] = first[q]
        /\ target'[r] \in NewProducts /\ sku'[r] \in Skus
    BY <2>1, <2>2, <2>3
  <2>8. UNCHANGED <<variants, stocked>>
    BY <2>1
  <2> HIDE <1>3
  <2> QED
    BY <1>1, <2>2, <2>4, <2>5, <2>6, <2>7, <2>8, LocalInv
<1> QED
  BY <1>2, <1>3 DEF FindProduct

LEMMA CountVariantsInv ==
    ASSUME CatalogInv, NEW r \in NewVariants, CountVariants(r)
    PROVE  CatalogInv'
<1>1. r \in Requests /\ r \notin VariantUpdates /\ pc[r] = "count" /\ "insert" \in Places
  BY Sorts DEF CountVariants, Places
<1>2. /\ first' = [first EXCEPT ![r] = (Counted(target[r]) = {})] /\ Goto(r, "insert")
      /\ UNCHANGED <<slug, variants, stocked, draft, target, sku, overlapped>>
  BY DEF CountVariants, tables
<1>3. /\ pc' \in [Requests -> Places] /\ answer' \in [Requests -> Answers]
      /\ pc'[r] = "insert"
      /\ \A q \in Requests \ {r} : pc'[q] = pc[q]
  BY <1>1, <1>2, GotoFacts DEF CatalogInv
<1>4. /\ first'[r] <=> Counted(target[r]) = {}
      /\ \A q \in Requests \ {r} : first'[q] = first[q]
      /\ first' \in [Requests -> BOOLEAN]
  BY <1>1, <1>2 DEF CatalogInv, TypeOK
<1>5. TypeOK'
  BY <1>2, <1>3, <1>4 DEF CatalogInv, TypeOK, Places, Answers
<1>6. \A x, y \in Products' : slug'[x] = slug'[y] => x = y
  BY <1>2 DEF CatalogInv, NamesUnique, Products
<1>7. /\ draft[r] = None /\ target[r] \in NewProducts /\ sku[r] \in Skus
      /\ target[r] \notin overlapped =>
            \A w \in NewVariants \ {r} : Open(w) => target[w] # target[r]
  BY <1>1 DEF CatalogInv, DraftsSound, DefaultsSound, Open
<1>8. ~first'[r] => DefaultsOf(target[r]) # {}
  <2> SUFFICES ASSUME ~first'[r] PROVE DefaultsOf(target[r]) # {}
    OBVIOUS
  <2>1. PICK v \in Variants : variants[v].product = target[r]
    BY <1>4 DEF Counted
  <2> QED
    BY <2>1 DEF CatalogInv, HasDefault
<1> QED
  BY <1>1, <1>2, <1>3, <1>4, <1>5, <1>6, <1>7, <1>8, LocalInv

LEMMA InsertVariantInv ==
    ASSUME CatalogInv, NEW r \in NewVariants, InsertVariant(r)
    PROVE  CatalogInv'
<1>1. r \in Requests /\ r \notin VariantUpdates /\ pc[r] = "insert" /\ "409" \in Answers
      /\ "inventory" \in Places /\ ~SkuLocked(sku[r])
  BY Sorts DEF InsertVariant, Answers, Places
<1>2. CASE ~SkuFree(sku[r], r)
  BY <1>1, <1>2, FailInv DEF InsertVariant
<1>3. CASE SkuFree(sku[r], r)
  <2>1. PICK row : row = [product |-> target[r], sku |-> sku[r], isDefault |-> first[r]]
    OBVIOUS
  <2>2. /\ draft' = [draft EXCEPT ![r] = row] /\ Goto(r, "inventory")
        /\ UNCHANGED <<slug, variants, stocked, target, sku, first, overlapped>>
    BY <1>3, <2>1 DEF InsertVariant, tables
  <2>3. /\ pc' \in [Requests -> Places] /\ answer' \in [Requests -> Answers]
        /\ pc'[r] = "inventory"
        /\ \A q \in Requests \ {r} : pc'[q] = pc[q]
    BY <1>1, <2>2, GotoFacts DEF CatalogInv
  <2>4. /\ target[r] \in NewProducts /\ sku[r] \in Skus /\ r \notin Variants
        /\ target[r] \notin overlapped =>
              \A w \in NewVariants \ {r} : Open(w) => target[w] # target[r]
        /\ ~first[r] => DefaultsOf(target[r]) # {}
        /\ first[r] /\ target[r] \notin overlapped => Counted(target[r]) = {}
    BY <1>1 DEF CatalogInv, DraftsSound, DefaultsSound, Open, Counting, Variants
  <2>5. row \in VariantRow /\ row.sku = sku[r]
    <3>1. first[r] \in BOOLEAN
      BY <1>1 DEF CatalogInv, TypeOK
    <3> QED
      BY <2>1, <2>4, <3>1 DEF VariantRow
  <2>6. /\ draft' \in [NewVariants -> VariantRow \cup {None}] /\ draft'[r] = row
        /\ \A v \in NewVariants \ {r} : draft'[v] = draft[v]
    BY <2>2, <2>5 DEF CatalogInv, TypeOK
  <2>7. TypeOK'
    BY <2>2, <2>3, <2>6 DEF CatalogInv, TypeOK, Places, Answers
  <2>8. \A x, y \in Products' : slug'[x] = slug'[y] => x = y
    BY <2>2 DEF CatalogInv, NamesUnique, Products
  <2>9. /\ \A w \in Variants : variants[w].sku # row.sku
        /\ \A w \in NewVariants \ {r} : draft[w] # None => draft[w].sku # row.sku
    BY <1>1, <1>3, <2>4, <2>5 DEF SkuFree, SkuLocked
  <2> QED
    BY <1>1, <2>1, <2>2, <2>3, <2>4, <2>6, <2>7, <2>8, <2>9, LocalInv
<1> QED
  BY <1>2, <1>3

LEMMA FindVariantInv ==
    ASSUME CatalogInv, NEW r \in VariantUpdates, FindVariant(r)
    PROVE  CatalogInv'
<1>1. r \in Requests /\ r \notin NewVariants /\ pc[r] = "new"
      /\ "404" \in Answers /\ "insert" \in Places
  BY Sorts DEF FindVariant, Answers, Places
<1>2. CASE Fail(r, "404")
  BY <1>1, <1>2, FailInv
<1>3. ASSUME NEW v \in Variants, NEW s \in Skus,
             target' = [target EXCEPT ![r] = v], sku' = [sku EXCEPT ![r] = s],
             Goto(r, "insert"), UNCHANGED <<tables, draft, first, overlapped>>
      PROVE  CatalogInv'
  <2>1. UNCHANGED <<slug, variants, stocked, draft, first, overlapped>>
    BY <1>3 DEF tables
  <2>2. /\ pc' \in [Requests -> Places] /\ answer' \in [Requests -> Answers]
        /\ pc'[r] = "insert"
        /\ \A q \in Requests \ {r} : pc'[q] = pc[q]
    BY <1>1, <1>3, GotoFacts DEF CatalogInv
  <2>3. /\ target'[r] = v /\ sku'[r] = s
        /\ \A q \in Requests \ {r} : target'[q] = target[q] /\ sku'[q] = sku[q]
    BY <1>1, <1>3 DEF CatalogInv, TypeOK
  <2>4. TypeOK'
    <3>1. /\ target' \in [Requests -> Creations \cup {None}]
          /\ sku' \in [Requests -> Skus \cup {None}]
      BY <1>1, <1>3, VariantRows, Sorts DEF CatalogInv, TypeOK
    <3> QED
      BY <2>1, <2>2, <3>1 DEF CatalogInv, TypeOK, Places, Answers
  <2>5. \A x, y \in Products' : slug'[x] = slug'[y] => x = y
    BY <2>1 DEF CatalogInv, NamesUnique, Products
  <2> QED
    BY <1>1, <1>3, <2>1, <2>2, <2>3, <2>4, <2>5, LocalInv
<1> QED
  BY <1>2, <1>3 DEF FindVariant

----------------------------------------------------------------------------
\* The commits
LEMMA InsertInventoryInv ==
    ASSUME CatalogInv, NEW r \in NewVariants, InsertInventory(r)
    PROVE  CatalogInv'
<1> USE DEF CatalogInv
<1>1. r \in Requests /\ r \notin VariantUpdates /\ pc[r] = "inventory" /\ "201" \in Answers
  BY Sorts DEF InsertInventory, Answers
<1>2. /\ variants' = [variants EXCEPT ![r] = draft[r]] /\ stocked' = stocked \cup {r}
      /\ Rollback(r) /\ Finish(r, "201")
      /\ UNCHANGED <<slug, target, sku, first, overlapped>>
  BY DEF InsertInventory, StockRow
<1>3. /\ pc' \in [Requests -> Places] /\ answer' \in [Requests -> Answers]
      /\ pc'[r] = "done" /\ \A q \in Requests \ {r} : pc'[q] = pc[q]
  BY <1>1, <1>2, FinishFacts
<1>4. /\ draft' \in [NewVariants -> VariantRow \cup {None}]
      /\ draft'[r] = None /\ \A v \in NewVariants \ {r} : draft'[v] = draft[v]
  BY <1>2, RollbackFacts
<1>5. PICK p : p = target[r]
  OBVIOUS
<1>6. PICK row : row = draft[r]
  OBVIOUS
<1>7. /\ p \in NewProducts /\ row \in VariantRow /\ row # None
      /\ row.product = p /\ row.sku = sku[r] /\ row.isDefault = first[r]
      /\ variants[r] = None
  <2>1. row = [product |-> target[r], sku |-> sku[r], isDefault |-> first[r]]
        /\ p \in NewProducts /\ sku[r] \in Skus
    BY <1>1, <1>5, <1>6 DEF DraftsSound, Open
  <2>2. variants[r] = None
    BY <1>1 DEF DraftsSound
  <2>3. first[r] \in BOOLEAN
    BY <1>1 DEF TypeOK
  <2>4. row \in VariantRow
    BY <1>5, <2>1, <2>3 DEF VariantRow
  <2> QED
    BY <1>5, <2>1, <2>2, <2>4, Sorts
<1>8. /\ variants' \in [NewVariants -> VariantRow \cup {None}] /\ variants'[r] = row
      /\ Variants' = Variants \cup {r} /\ r \notin Variants
      /\ \A v \in Variants : variants'[v] = variants[v]
  BY <1>2, <1>6, <1>7 DEF TypeOK, Variants
<1>9. TypeOK'
  BY <1>2, <1>3, <1>4, <1>8 DEF TypeOK, Places, Answers
<1>10. StockedVariants'
  BY <1>2, <1>8 DEF StockedVariants
<1>11. \A q : DefaultsOf(q)' = DefaultsOf(q) \cup (IF q = p /\ first[r] THEN {r} ELSE {})
  BY <1>7, <1>8 DEF DefaultsOf
<1>12. \A q : q # p => Counted(q)' = Counted(q)
  BY <1>7, <1>8 DEF Counted
<1>13. /\ ~first[r] => DefaultsOf(p) # {}
       /\ first[r] /\ p \notin overlapped => Counted(p) = {}
       /\ p \notin overlapped => \A w \in NewVariants \ {r} : Open(w) => target[w] # p
  BY <1>1, <1>5 DEF DefaultsSound, Counting, Open
<1>14. NamesUnique'
  <2>1. \A v \in Variants : variants[v].sku # row.sku
    BY <1>6, <1>7 DEF SkusSound
  <2>2. \A v, w \in Variants' : variants'[v].sku = variants'[w].sku => v = w
    BY <1>8, <2>1 DEF NamesUnique
  <2>3. \A x, y \in Products' : slug'[x] = slug'[y] => x = y
    BY <1>2 DEF NamesUnique, Products
  <2> QED
    BY <2>2, <2>3 DEF NamesUnique
<1>15. HasDefault'
  <2> SUFFICES ASSUME NEW v \in Variants' PROVE DefaultsOf(variants[v].product)' # {}
    BY DEF HasDefault
  <2>1. PICK q : q = variants'[v].product
    OBVIOUS
  <2>2. DefaultsOf(variants[v].product)' = DefaultsOf(q)'
    BY <2>1 DEF DefaultsOf
  <2>3. CASE v = r
    BY <1>7, <1>8, <1>11, <1>13, <2>1, <2>2, <2>3
  <2>4. CASE v # r
    <3>1. v \in Variants /\ q = variants[v].product
      BY <1>8, <2>1, <2>4
    <3>2. DefaultsOf(q) # {}
      BY <3>1 DEF HasDefault
    <3> QED
      BY <1>11, <2>2, <3>2
  <2> QED
    BY <2>3, <2>4
<1>16. \A v \in NewVariants \ {r} : pc'[v] = pc[v]
  BY <1>3, Sorts
<1>17. DraftsSound'
  <2>1. \A v \in NewVariants :
          /\ variants'[v] # None => pc'[v] = "done"
          /\ draft'[v] # None => pc'[v] = "inventory"
          /\ pc'[v] = "inventory" =>
                draft'[v] = [product |-> target[v], sku |-> sku[v], isDefault |-> first[v]]
          /\ pc'[v] \notin {"new", "done"} => target[v] \in NewProducts /\ sku[v] \in Skus
    <3>1. \A v \in NewVariants \ {r} : variants'[v] = variants[v]
      BY <1>2 DEF TypeOK
    <3> QED
      BY <1>3, <1>4, <1>16, <3>1 DEF DraftsSound, Open
  <2>2. \A u \in VariantUpdates : pc'[u] = "insert" =>
            target[u] \in Variants' /\ sku[u] \in Skus
    BY <1>1, <1>3, <1>8, Sorts DEF DraftsSound
  <2> QED
    BY <1>2, <2>1, <2>2 DEF DraftsSound, Open
<1>18. SkusSound'
  <2> SUFFICES ASSUME NEW v \in NewVariants, draft'[v] # None
               PROVE  /\ \A w \in Variants' : variants'[w].sku # draft'[v].sku
                      /\ \A w \in NewVariants \ {v} :
                            draft'[w] # None => draft'[w].sku # draft'[v].sku
    BY DEF SkusSound
  <2>1. v # r /\ draft'[v] = draft[v]
    BY <1>4
  <2>2. row.sku # draft[v].sku
    BY <1>6, <1>7, <2>1 DEF SkusSound
  <2> QED
    BY <1>4, <1>8, <2>1, <2>2 DEF SkusSound
<1>19. DefaultsSound'
  <2>1. ASSUME NEW v \in NewVariants
        PROVE  /\ pc'[v] \in {"insert", "inventory"} =>
                     /\ ~first[v] => DefaultsOf(target[v])' # {}
                     /\ first[v] /\ target[v] \notin overlapped =>
                           Counted(target[v])' = {}
               /\ pc'[v] \notin {"new", "done"} /\ target[v] \notin overlapped =>
                     \A w \in NewVariants \ {v} :
                         pc'[w] \notin {"new", "done"} => target[w] # target[v]
    <3>1. CASE v = r
      BY <1>3, <3>1
    <3>2. CASE v # r
      <4>1. PICK q : q = target[v]
        OBVIOUS
      <4>2. DefaultsOf(target[v])' = DefaultsOf(q)' /\ Counted(target[v])' = Counted(q)'
        BY <1>2, <4>1 DEF DefaultsOf, Counted
      <4>3. pc'[v] = pc[v]
        BY <1>16, <3>2
      <4>4. pc[v] \in {"insert", "inventory"} =>
                /\ ~first[v] => DefaultsOf(q)' # {}
                /\ first[v] /\ q \notin overlapped => Counted(q)' = {}
        <5>1. pc[v] \in {"insert", "inventory"} /\ ~first[v] => DefaultsOf(q) # {}
          BY <4>1 DEF DefaultsSound, Counting
        <5>2. pc[v] \in {"insert", "inventory"} /\ first[v] /\ q \notin overlapped
                  => Counted(q) = {} /\ q # p
          BY <1>13, <3>2, <4>1 DEF DefaultsSound, Counting, Open
        <5> QED
          BY <1>11, <1>12, <5>1, <5>2
      <4>5. ASSUME pc'[v] \notin {"new", "done"}, target[v] \notin overlapped,
                   NEW w \in NewVariants \ {v}, pc'[w] \notin {"new", "done"}
            PROVE  target[w] # target[v]
        BY <1>3, <1>16, <3>2, <4>5 DEF DefaultsSound, Open
      <4> QED
        BY <4>1, <4>2, <4>3, <4>4, <4>5
    <3> QED
      BY <3>1, <3>2
  <2>2. ASSUME NEW q \in NewProducts \ overlapped PROVE \A v, w \in DefaultsOf(q)' : v = w
    <3>1. q = p /\ first[r] => DefaultsOf(q) = {}
      BY <1>13, <2>2 DEF DefaultsOf, Counted
    <3> QED
      BY <1>11, <2>2, <3>1 DEF DefaultsSound
  <2> QED
    BY <1>2, <2>1, <2>2 DEF DefaultsSound, Counting, Open
<1> QED
  BY <1>9, <1>10, <1>14, <1>15, <1>17, <1>18, <1>19

LEMMA WriteVariantInv ==
    ASSUME CatalogInv, NEW r \in VariantUpdates, WriteVariant(r)
    PROVE  CatalogInv'
<1>1. r \in Requests /\ r \notin NewVariants /\ pc[r] = "insert"
      /\ {"200", "409"} \subseteq Answers /\ ~SkuLocked(sku[r])
  BY Sorts DEF WriteVariant, Answers
<1>2. CASE ~SkuFree(sku[r], target[r])
  BY <1>1, <1>2, FailInv DEF WriteVariant
<1>3. CASE SkuFree(sku[r], target[r])
  <2> USE DEF CatalogInv
  <2>1. PICK v : v = target[r]
    OBVIOUS
  <2>2. PICK s : s = sku[r]
    OBVIOUS
  <2>3. /\ v \in Variants /\ v \in NewVariants /\ s \in Skus /\ variants[v] \in VariantRow
    BY <1>1, <2>1, <2>2, VariantRows DEF DraftsSound
  <2>4. PICK row : row = [variants[v] EXCEPT !.sku = s]
    OBVIOUS
  <2>5. /\ row \in VariantRow /\ row # None /\ row.sku = s
        /\ row.product = variants[v].product /\ row.isDefault = variants[v].isDefault
    <3>1. /\ row \in VariantRow /\ row.sku = s
          /\ row.product = variants[v].product /\ row.isDefault = variants[v].isDefault
      BY <2>3, <2>4 DEF VariantRow
    <3> QED
      BY <3>1, Sorts
  <2>6. /\ variants' = [variants EXCEPT ![v] = row] /\ Finish(r, "200")
        /\ UNCHANGED <<slug, stocked, draft, target, sku, first, overlapped>>
    BY <1>3, <2>1, <2>2, <2>4 DEF WriteVariant, locals
  <2>7. /\ pc' \in [Requests -> Places] /\ answer' \in [Requests -> Answers]
        /\ pc'[r] = "done" /\ \A q \in Requests \ {r} : pc'[q] = pc[q]
    BY <1>1, <2>6, FinishFacts
  <2>8. /\ variants' \in [NewVariants -> VariantRow \cup {None}] /\ variants'[v] = row
        /\ Variants' = Variants
        /\ \A w \in Variants \ {v} : variants'[w] = variants[w]
        /\ \A w \in NewVariants : variants'[w] # None => variants[w] # None
    BY <2>3, <2>5, <2>6 DEF TypeOK, Variants
  <2>9. TypeOK'
    BY <2>6, <2>7, <2>8 DEF TypeOK, Places, Answers
  <2>10. /\ StockedVariants'
         /\ \A p : DefaultsOf(p)' = DefaultsOf(p) /\ Counted(p)' = Counted(p)
    BY <2>5, <2>6, <2>8 DEF StockedVariants, DefaultsOf, Counted
  <2>11. \A w \in Variants \ {v} : variants[w].sku # s
    BY <1>3, <2>1, <2>2 DEF SkuFree
  <2>12. NamesUnique'
    <3>1. \A x, y \in Products' : slug'[x] = slug'[y] => x = y
      BY <2>6 DEF NamesUnique, Products
    <3>2. \A x, y \in Variants' : variants'[x].sku = variants'[y].sku => x = y
      BY <2>5, <2>8, <2>11 DEF NamesUnique
    <3> QED
      BY <3>1, <3>2 DEF NamesUnique
  <2>13. HasDefault'
    <3> SUFFICES ASSUME NEW w \in Variants PROVE DefaultsOf(variants[w].product)' # {}
      BY <2>8 DEF HasDefault
    <3>1. PICK p : p = variants[w].product
      OBVIOUS
    <3>2. variants'[w].product = p
      BY <2>5, <2>8, <3>1
    <3>3. DefaultsOf(p) # {}
      BY <3>1 DEF HasDefault
    <3> QED
      BY <2>10, <3>2, <3>3 DEF DefaultsOf
  <2>14. \A w \in NewVariants : pc'[w] = pc[w]
    BY <1>1, <2>7, Sorts
  <2>15. DraftsSound'
    <3>1. \A u \in VariantUpdates : pc'[u] = "insert" =>
              target[u] \in Variants /\ sku[u] \in Skus
      BY <2>7, Sorts DEF DraftsSound
    <3> QED
      BY <2>6, <2>8, <2>14, <3>1 DEF DraftsSound, Open
  <2>16. SkusSound'
    <3>1. \A w \in NewVariants : draft[w] # None => draft[w].sku # s
      BY <1>1, <2>2 DEF SkuLocked
    <3>2. \A w \in NewVariants : draft[w] # None =>
              \A x \in Variants : variants'[x].sku # draft[w].sku
      BY <2>5, <2>8, <3>1 DEF SkusSound
    <3> QED
      BY <2>6, <2>8, <3>2 DEF SkusSound
  <2>17. DefaultsSound'
    <3>1. \A w \in NewVariants : /\ DefaultsOf(target[w])' = DefaultsOf(target[w])
                                 /\ Counted(target[w])' = Counted(target[w])
      <4> SUFFICES ASSUME NEW w \in NewVariants
                   PROVE  /\ DefaultsOf(target[w])' = DefaultsOf(target[w])
                          /\ Counted(target[w])' = Counted(target[w])
        OBVIOUS
      <4>1. PICK p : p = target[w]
        OBVIOUS
      <4>2. DefaultsOf(target[w])' = DefaultsOf(p)' /\ Counted(target[w])' = Counted(p)'
        BY <2>6, <4>1 DEF DefaultsOf, Counted
      <4> QED
        BY <2>10, <4>1, <4>2
    <3> QED
      BY <2>6, <2>10, <2>14, <3>1 DEF DefaultsSound, Counting, Open
  <2> QED
    BY <2>9, <2>10, <2>12, <2>13, <2>15, <2>16, <2>17
<1> QED
  BY <1>2, <1>3

----------------------------------------------------------------------------
LEMMA NextInv == CatalogInv /\ [Next]_vars => CatalogInv'
<1> SUFFICES ASSUME CatalogInv, [Next]_vars PROVE CatalogInv'
  OBVIOUS
<1>1. ASSUME NEW r \in Requests, Step(r) PROVE CatalogInv'
  <2>1. CASE r \in NewVariants /\ CreateVariant(r)
    BY <2>1, FindProductInv, CountVariantsInv, InsertVariantInv, InsertInventoryInv
       DEF CreateVariant
  <2>2. CASE r \in VariantUpdates /\ UpdateVariant(r)
    BY <2>2, FindVariantInv, WriteVariantInv DEF UpdateVariant
  <2> QED
    BY <1>1, <2>1, <2>2, ProductInv DEF Step
<1>2. ASSUME NEW r \in Requests, Interrupt(r) PROVE CatalogInv'
  BY <1>2, FailInv DEF Interrupt, Open, Answers
<1>3. CASE UNCHANGED vars
  <2>1. UNCHANGED <<slug, variants, stocked, pc, answer, draft, target, sku, first,
                    overlapped>>
    BY <1>3 DEF vars, tables, locals
  <2>2. TypeOK' /\ NamesUnique' /\ StockedVariants' /\ HasDefault'
    BY <2>1 DEF CatalogInv, TypeOK, NamesUnique, StockedVariants, HasDefault,
       DefaultsOf, Variants, Products
  <2>3. DraftsSound' /\ SkusSound'
    BY <2>1 DEF CatalogInv, DraftsSound, SkusSound, Variants, Open
  <2>4. DefaultsSound'
    BY <2>1 DEF CatalogInv, DefaultsSound, DefaultsOf, Counted, Variants, Counting, Open
  <2> QED
    BY <2>2, <2>3, <2>4 DEF CatalogInv
<1> QED
  BY <1>1, <1>2, <1>3 DEF Next

\* The strengthened invariant holds of every reachable state.
THEOREM CatalogInvariant == Spec => []CatalogInv
<1> QED
  BY InitInv, NextInv, PTL DEF Spec

\* Slugs and SKUs are never shared.
THEOREM NamesStayUnique == Spec => []NamesUnique
<1>1. CatalogInv => NamesUnique
  BY DEF CatalogInv
<1> QED
  BY <1>1, CatalogInvariant, PTL

\* Whoever can read a variant finds its inventory row.
THEOREM VariantsAreStocked == Spec => []StockedVariants
<1>1. CatalogInv => StockedVariants
  BY DEF CatalogInv
<1> QED
  BY <1>1, CatalogInvariant, PTL

\* A product with variants has a default one, and one only unless two of its
\* variants were on their way together.
THEOREM DefaultsHold == Spec => []Defaults
<1>1. CatalogInv => Defaults
  BY DEF CatalogInv, DefaultsSound, Defaults, OneDefault, Products
<1> QED
  BY <1>1, CatalogInvariant, PTL
=============================================================================
