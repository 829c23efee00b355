--------------------------------- MODULE Listings ---------------------------------
(***************************************************************************)
(* Reading the catalog page by page while it is edited: the storefront's   *)
(* category pages and the product page a card leads to (catalog/queries.ts,*)
(* app/[slug]/page.tsx), the sitemap and its chunks, the console's product *)
(* list and the export's pages (catalog/console-queries.ts, bulk.ts).      *)
(* Every query is a statement of its own; each page is another request.    *)
(* The cache in front of the storefront's reads is Catalog's.              *)
(***************************************************************************)
EXTENDS Integers, Sequences, SequencesExt

CONSTANTS
    Goods,            \* products, by the order of their ids
    Rooms,            \* categories; ids of their own
    Above,            \* [Rooms -> Rooms \cup {Outside}], the parent
    Outside,
    VariantLists,     \* what a product's variants may be: [price, active, stocked]
    Stores,           \* the catalogs a behaviour may begin with
    PageLength,       \* bound: PAGE_SIZE, CONSOLE_PAGE_SIZE, EXPORT_PAGE_SIZE, URLS_PER_SITEMAP
    MaxRevisions      \* bound: edits while pages are read

ASSUME ListingsAssumption ==
    /\ PageLength \in Nat \ {0} /\ MaxRevisions \in Nat
    /\ Goods \subseteq Nat \ {0}
    /\ Rooms \subseteq Nat \ Goods

VARIABLES
    good,             \* [Goods -> products row with its variants and category]
    room,             \* [Rooms -> [visible, updatedAt]]
    clock,            \* the last time stamp given out
    walk,             \* somebody turning the pages of a listing
    opened,           \* the product page a card led to
    export,           \* the download under way
    crawl,            \* a search engine reading the sitemap
    revisions         \* edits so far

listingVars == <<good, room, clock, walk, opened, export, crawl, revisions>>

(* No product is ever deleted; one not yet committed is unborn, whatever   *)
(* its id, which is taken before the transaction ends.                     *)
Unborn == [status |-> "unborn"]
Born == {g \in Goods : good[g] # Unborn}
NotOpen == [at |-> "closed"]

ListingsInit ==
    /\ good \in Stores /\ room = [r \in Rooms |-> [visible |-> TRUE, updatedAt |-> IF Above[r] = Outside THEN 0 ELSE 1]] /\ clock = Cardinality(Goods)
    /\ walk = NotOpen /\ opened = NotOpen /\ export = NotOpen /\ crawl = NotOpen /\ revisions = 0
--------------------------------------------------------------------------------
(* What the pages are made of.                                             *)

InOrder(S, Ahead(_, _)) ==
    [i \in 1..Cardinality(S) |-> CHOOSE e \in S : Cardinality({f \in S : Ahead(f, e)}) = i - 1]

(* subtreeIds of the visible categories.                                   *)
SubtreeIds(r) ==
    LET Deep[n \in Nat] == IF n = 0 THEN {r}
            ELSE Deep[n - 1] \cup {s \in Rooms : room[s].visible /\ Above[s] \in Deep[n - 1]}
    IN  Deep[Cardinality(Rooms)]

(* publiclyVisible, and the category filter; the console sees everything.  *)
Filtered == {g \in Born : walk.reader = "shopper" =>
                good[g].status = "active" /\ good[g].room \in walk.rooms}
Stamp(g) == IF walk.reader = "shopper" THEN good[g].publishedAt ELSE good[g].updatedAt
Ordered(S) == InOrder(S, LAMBDA g, h : Stamp(g) > Stamp(h) \/ (Stamp(g) = Stamp(h) /\ g < h))
Least(a, b) == IF a < b THEN a ELSE b
Page(seq, n) == SubSeq(seq, n * PageLength + 1, Least((n + 1) * PageLength, Len(seq)))

Active(variants) == {i \in DOMAIN variants : variants[i].active}
Sold(variants) == {i \in Active(variants) : variants[i].stocked}
Lowest(variants, S) == variants[CHOOSE i \in S : \A j \in S : variants[i].price <= variants[j].price].price
PricesOf(variants, S) == IF S = {} THEN {} ELSE {Lowest(variants, S)}     \* the price, if there is one

(* A card needs an active variant for its price; the console's row does    *)
(* without.                                                                *)
HasCard(g) == walk.reader = "console" \/ Active(good[g].variants) # {}
CardsOf(seq) ==
    LET kept == SelectSeq(seq, HasCard)
    IN  [i \in DOMAIN kept |-> [good |-> kept[i], read |-> revisions,
            price |-> PricesOf(good[kept[i]].variants, Active(good[kept[i]].variants))]]
--------------------------------------------------------------------------------
(* Turning pages.                                                          *)

Unedited == UNCHANGED <<good, room, clock, revisions>>
OpenListing(reader, r) ==
    /\ walk.at = "closed" /\ (reader = "console" <=> r = Outside)
    /\ walk' = [at |-> IF reader = "shopper" THEN "rooms" ELSE "count", reader |-> reader,
                room |-> r, rooms |-> {}, page |-> 0, total |-> 0, cards |-> <<>>, since |-> revisions]
    /\ Unedited /\ UNCHANGED <<opened, export, crawl>>
ReadRooms ==
    /\ walk.at = "rooms"
    /\ walk' = IF room[walk.room].visible THEN [walk EXCEPT !.at = "count", !.rooms = SubtreeIds(walk.room)]
               ELSE NotOpen       \* notFound
    /\ Unedited /\ UNCHANGED <<opened, export, crawl>>
CountRows ==
    /\ walk.at = "count"
    /\ walk' = [walk EXCEPT !.at = "rows", !.total = Cardinality(Filtered)]
    /\ Unedited /\ UNCHANGED <<opened, export, crawl>>
ReadRows ==
    /\ walk.at = "rows"
    /\ walk' = [walk EXCEPT !.at = "page", !.cards = @ \o CardsOf(Page(Ordered(Filtered), walk.page))]
    /\ Unedited /\ UNCHANGED <<opened, export, crawl>>

HasNext(w) == (w.page + 1) * PageLength < w.total
NextPage ==
    /\ walk.at = "page" /\ HasNext(walk)
    /\ walk' = [walk EXCEPT !.at = IF walk.reader = "shopper" THEN "rooms" ELSE "count", !.page = @ + 1]
    /\ Unedited /\ UNCHANGED <<opened, export, crawl>>
LeaveListing ==
    /\ walk.at = "page"
    /\ walk' = NotOpen /\ opened' = NotOpen
    /\ Unedited /\ UNCHANGED <<export, crawl>>

(* getProductById, and the variant the picker opens on.                    *)
OpenProduct(i) ==
    LET g == walk.cards[i].good IN
    /\ walk.at = "page" /\ walk.reader = "shopper"
    /\ good[g].status = "active"
    /\ opened' = [at |-> "open", card |-> walk.cards[i], read |-> revisions,
                  variants |-> good[g].variants,
                  price |-> PricesOf(good[g].variants, Sold(good[g].variants))]
    /\ Unedited /\ UNCHANGED <<walk, export, crawl>>
--------------------------------------------------------------------------------
(* exportCatalogCsv: keyset pages of listProductsForExport.                *)

ById(S) == InOrder(S, LAMBDA g, h : g < h)
ExportRows_Offset(after, file) == Page(ById(Born), Len(file) \div PageLength)    \* mutant: by OFFSET
ExportRows(after, file) == Page(ById({g \in Born : g > after}), 0)
StartExport ==
    /\ export.at = "closed"
    /\ export' = [at |-> "paging", after |-> 0, file |-> <<>>, there |-> Born]
    /\ Unedited /\ UNCHANGED <<walk, opened, crawl>>
ReadExportPage ==
    LET rows == ExportRows(export.after, export.file) IN
    /\ export.at = "paging"
    /\ export' = [export EXCEPT !.file = @ \o rows,
                                !.after = IF rows = <<>> THEN @ ELSE rows[Len(rows)],
                                !.at = IF Len(rows) < PageLength THEN "done" ELSE "paging"]
    /\ Unedited /\ UNCHANGED <<walk, opened, crawl>>
--------------------------------------------------------------------------------
(* /sitemap.xml and its chunks, each a reading of listSitemapEntries.      *)

Public == {g \in Born : good[g].status = "active"} \cup {r \in Rooms : room[r].visible}
LastMod(e) == IF e \in Rooms THEN room[e].updatedAt ELSE good[e].updatedAt
(* Newest first; of two that were last written at one time, either.        *)
Sitemap(up) == InOrder(Public, LAMBDA e, f :
    LastMod(e) > LastMod(f) \/ (LastMod(e) = LastMod(f) /\ IF up THEN e < f ELSE e > f))
Chunks(n) == (n + PageLength - 1) \div PageLength
ReadSitemap == \E up \in BOOLEAN : LET entries == Sitemap(up) IN
    /\ crawl.at = "closed"
    /\ crawl' = IF Len(entries) + 1 > PageLength
                THEN [at |-> "chunks", left |-> Chunks(Len(entries)), next |-> 1, urls |-> <<>>, since |-> revisions]
                ELSE [at |-> "done", urls |-> entries, since |-> revisions]
    /\ Unedited /\ UNCHANGED <<walk, opened, export>>
ReadChunk == \E up \in BOOLEAN : LET entries == Sitemap(up) IN
    /\ crawl.at = "chunks"
    /\ crawl' = [crawl EXCEPT !.urls = @ \o Page(entries, crawl.next - 1), !.next = @ + 1,
                              !.at = IF crawl.next = crawl.left THEN "done" ELSE @]
    /\ Unedited /\ UNCHANGED <<walk, opened, export>>
--------------------------------------------------------------------------------
(* The edits meanwhile.                                                    *)

Revise == revisions < MaxRevisions /\ revisions' = revisions + 1 /\ UNCHANGED <<walk, opened, export, crawl>>
PublishedAt(was, status) == IF was = 0 /\ status = "active" THEN clock + 1 ELSE was
Saved(g, was, status, in, variants) ==
    /\ clock' = clock + 1
    /\ good' = [good EXCEPT ![g] = [status |-> status, room |-> in, variants |-> variants,
                    publishedAt |-> PublishedAt(was, status), updatedAt |-> clock + 1]]
AddProduct(g) == \E status \in {"draft", "active"}, r \in Rooms, vs \in VariantLists :
    Revise /\ g \notin Born /\ Saved(g, 0, status, r, vs) /\ UNCHANGED room
UpdateProduct(g) == \E status \in {"active", "archived"}, vs \in VariantLists :
    /\ Revise /\ g \in Born /\ UNCHANGED room
    /\ Saved(g, good[g].publishedAt, status, good[g].room, vs)
UpdateCategory(r) ==
    /\ Revise /\ UNCHANGED good /\ clock' = clock + 1
    /\ room' = [room EXCEPT ![r] = [visible |-> ~room[r].visible, updatedAt |-> clock + 1]]
MoveStock(g) == \E i \in DOMAIN good[g].variants :     \* a sale or a delivery (Inventory)
    /\ Revise /\ UNCHANGED <<room, clock>>
    /\ good' = [good EXCEPT ![g].variants[i].stocked = ~@]

ListingsNext ==
    \/ \E reader \in {"shopper", "console"}, r \in Rooms \cup {Outside} : OpenListing(reader, r)
    \/ ReadRooms \/ CountRows \/ ReadRows \/ NextPage \/ LeaveListing
    \/ walk.at = "page" /\ \E i \in DOMAIN walk.cards : OpenProduct(i)
    \/ StartExport \/ ReadExportPage \/ ReadSitemap \/ ReadChunk
    \/ \E g \in Goods : AddProduct(g) \/ UpdateProduct(g) \/ (g \in Born /\ MoveStock(g))
    \/ \E r \in Rooms : UpdateCategory(r)
--------------------------------------------------------------------------------
(* Whatever is created or saved meanwhile, and in whatever order ids are   *)
(* committed, the export has every product that was there when it began,   *)
(* and none twice (console-queries.ts:518-528).                            *)
ExportIsWhole == export.at = "done" =>
    IsInjective(export.file) /\ export.there \subseteq ToSet(export.file)

(* Whoever follows "Next" to its end while nothing is edited has seen each *)
(* product once, newest first: of a category, those with an active variant *)
(* in a category from which every parent up to this one is visible.        *)
LeadsUp(r, chain) == /\ chain[1] = r /\ \A i \in DOMAIN chain : room[chain[i]].visible
                     /\ \A i \in 1..(Len(chain) - 1) : Above[chain[i + 1]] = chain[i]
Belongs(g) == IF walk.reader = "console" THEN g \in Born
    ELSE /\ g \in Born /\ good[g].status = "active" /\ Active(good[g].variants) # {}
         /\ \E chain \in SeqOf(Rooms, Cardinality(Rooms)) \ {<<>>} :
               LeadsUp(walk.room, chain) /\ chain[Len(chain)] = good[g].room
PagesShowAll == walk.at = "page" /\ ~HasNext(walk) /\ walk.since = revisions =>
    /\ \A i, j \in DOMAIN walk.cards : i < j =>
           walk.cards[i].good # walk.cards[j].good /\ Stamp(walk.cards[i].good) >= Stamp(walk.cards[j].good)
    /\ {walk.cards[i].good : i \in DOMAIN walk.cards} = {g \in Goods : Belongs(g)}

(* The product page opens on the price of the card that led to it, unless  *)
(* all it has at that price is sold out (queries.ts:207-209 and            *)
(* VariantPicker.tsx:46-47 promise it without the exception).              *)
CardPriceHolds == opened.at = "open" /\ opened.card.read = opened.read =>
    \/ opened.price = opened.card.price
    \/ \A i \in Active(opened.variants) :
          opened.variants[i].price \in opened.card.price => ~opened.variants[i].stocked

(* A sitemap read through its chunks while nothing is edited names every   *)
(* page the store shows, once, if no two were last written at one time.    *)
SitemapIsWhole == crawl.at = "done" /\ crawl.since = revisions
                  /\ (\A e, f \in Public : LastMod(e) = LastMod(f) => e = f) =>
    IsInjective(crawl.urls) /\ ToSet(crawl.urls) = Public

(* Page by page, nobody is told less, or other, than the catalog has.      *)
ListingsTell == ExportIsWhole /\ PagesShowAll /\ CardPriceHolds /\ SitemapIsWhole
================================================================================
