-------------------------------- MODULE Catalog --------------------------------
(***************************************************************************)
(* The catalog's pages: what a console save does to a product, a category  *)
(* and their URLs, and what the storefront's cache makes of it.            *)
(*                                                                         *)
(* core/src/catalog/writes.ts (updateProduct, updateCategory and their     *)
(* create halves), slug.ts, categories.ts, queries.ts, purge.ts, and       *)
(* storefront/src/lib/catalog.ts with its revalidate route.  A save is one *)
(* READ COMMITTED transaction: it reads without locks, then takes its      *)
(* entity's row lock, then commits, and only then asks for the purge.      *)
(* Collections are categories that have no parent.                         *)
(***************************************************************************)
EXTENDS Integers, Sequences, FiniteSets

CONSTANTS
    Products, Categories,
    Slugs, Titles,
    Candidates,       \* what availableSlug tries for a title, in order: shirt, shirt-2, ...
    Procs, Readers,   \* console requests, storefront renders
    Cached,           \* the cache entries the storefront fills
    None, Root,
    MaxSaves          \* bound: saves begun

Entities == Products \cup Categories
Rows == [entity : Entities, canonical : BOOLEAN]     \* of url_slugs, apart from the slug
Keys == Slugs \cup Products \cup {"listing", "navigation"}
PageStatuses == {"hidden", "active"}     \* products.status; hidden: draft or archived

ASSUME CatalogAssumption ==
    /\ Products \cap Categories = {}
    /\ Candidates \in [Titles -> Seq(Slugs)] /\ \A t \in Titles : Candidates[t] # <<>>
    /\ Cached \subseteq Keys /\ MaxSaves \in Nat
    /\ Slugs \cap (Products \cup {"listing", "navigation"}) = {}
    /\ None \notin Entities \cup Slugs \cup {Root} \cup Rows /\ Root \notin Entities

VARIABLES
    url,              \* url_slugs: the entity a slug names and is_canonical; None
    status,           \* products.status; None before the product exists
    published,        \* products.published_at IS NOT NULL
    parent,           \* categories.parent_id, Root for NULL; None before it exists
    tx,               \* the save of each console request
    cache,            \* the storefront's data cache: what is stored under a key; None
    fill,             \* the cache miss each render is reading
    named,            \* history: the entity a slug was first committed for
    activated,        \* history: the products that were ever active
    overlapped,       \* history: a save committed over one it had not read
    saves

rowVars == <<url, status, published, parent>>
history == <<named, activated, overlapped>>
vars == <<rowVars, tx, cache, fill, history, saves>>

Idle == [at |-> "idle"]
Exists(e) == IF e \in Products THEN status[e] # None ELSE parent[e] # None
CanonicalOf(e) == {s \in Slugs : url[s] # None /\ url[s].entity = e /\ url[s].canonical}

Init ==
    /\ url = [s \in Slugs |-> None] /\ named = [s \in Slugs |-> None]
    /\ status = [p \in Products |-> None] /\ published = [p \in Products |-> FALSE]
    /\ parent = [c \in Categories |-> None]
    /\ tx = [p \in Procs |-> Idle]
    /\ cache = [k \in Keys |-> None] /\ fill = [r \in Readers |-> None]
    /\ activated = {} /\ overlapped = FALSE /\ saves = 0
--------------------------------------------------------------------------------
(* slug.ts *)
NotFound == [action |-> "notFound"]
ResolveSlug(row, canonicals) ==
    CASE row = None        -> NotFound
      [] row # None /\ row.canonical -> [action |-> "render", entity |-> row.entity]
      [] OTHER -> IF canonicals = {} THEN NotFound
                  ELSE [action |-> "redirect", to |-> CHOOSE s \in canonicals : TRUE]

Taken(e, s) == url[s] # None /\ url[s].entity # e
(* None when every attempt is taken: the code throws.                      *)
AvailableSlug(e, title) ==
    LET tries == Candidates[title]
        free == {i \in DOMAIN tries : ~Taken(e, tries[i])}
    IN  IF free = {} THEN None
        ELSE tries[CHOOSE i \in free : \A j \in free : i <= j]

(* categories.ts: is the candidate inside the root's subtree?              *)
Ancestors(c) ==
    LET up[n \in 0..Cardinality(Categories)] ==
            IF n = 0 THEN {c}
            ELSE up[n - 1] \cup {a \in Categories : \E b \in up[n - 1] : parent[b] = a}
    IN  up[Cardinality(Categories)]
IsDescendant_Itself(root, candidate) == root = candidate     \* mutant: only the CHECK
IsDescendant(root, candidate) == root \in Ancestors(candidate)

(* What a read of the database answers for a key (queries.ts).             *)
View(k) ==
    CASE k = "listing" ->
            {t \in Products \X Slugs : status[t[1]] = "active" /\ t[2] \in CanonicalOf(t[1])}
      [] k = "navigation" ->
            {t \in Categories \X (Categories \cup {Root}) \X Slugs :
                parent[t[1]] = t[2] /\ t[3] \in CanonicalOf(t[1])}
      [] k \in Products -> {<<k, s>> : s \in {x \in CanonicalOf(k) : status[k] = "active"}}
      [] k \in Slugs -> ResolveSlug(url[k], IF url[k] = None THEN {} ELSE CanonicalOf(url[k].entity))
--------------------------------------------------------------------------------
(* The console: a save reads, locks its entity's row, commits, purges.     *)
Saving(p, e) == tx[p].at \in {"read", "written"} /\ tx[p].entity = e

(* resolveParent reads the whole tree, and locks none of it.               *)
MayFileUnder(c, v) ==
    v = Root \/ (v \in Categories /\ Exists(v) /\ (Exists(c) => ~IsDescendant(c, v)))

Begin(p) == \E e \in Entities, t \in Titles :
    \E v \in (IF e \in Products THEN PageStatuses ELSE Categories \cup {Root}) :
    /\ tx[p] = Idle /\ saves < MaxSaves
    /\ Exists(e) \/ \A q \in Procs : ~Saving(q, e)       \* a create makes an id of its own
    /\ e \in Categories => MayFileUnder(e, v)
    /\ tx' = [tx EXCEPT ![p] =
                [at |-> "read", entity |-> e, title |-> t, value |-> v, slug |-> None,
                 published |-> e \in Products /\ published[e], late |-> FALSE]]
    /\ saves' = saves + 1
    /\ UNCHANGED <<rowVars, cache, fill, history>>

(* The UPDATE of the entity's row waits for whoever has it, and only then  *)
(* is a free slug looked for: another entity's save may commit it first.   *)
Write(p) ==
    LET e == tx[p].entity
        s == AvailableSlug(e, tx[p].title)
    IN  /\ tx[p].at = "read"
        /\ \A q \in Procs : ~(tx[q].at = "written" /\ tx[q].entity = e)
        /\ s \in Slugs
        /\ tx' = [tx EXCEPT ![p].at = "written", ![p].slug = s]
        /\ UNCHANGED <<rowVars, cache, fill, history, saves>>

Promotable_Anyones(p) == TRUE     \* mutant: no setWhere on the upsert
Promotable(p) == ~Taken(tx[p].entity, tx[p].slug)

(* Demote the old canonical row, then insert or promote the new one.       *)
SetCanonicalSlug(e, s) ==
    [x \in Slugs |-> IF x = s THEN [entity |-> e, canonical |-> TRUE]
                     ELSE IF x \in CanonicalOf(e) THEN [url[x] EXCEPT !.canonical = FALSE]
                     ELSE url[x]]

PublishedAt(p) == tx[p].published \/ tx[p].value = "active"

SameRows(e, f) == e = f \/ {e, f} \subseteq Categories
Commit(p) ==
    LET e == tx[p].entity IN
    /\ tx[p].at = "written" /\ Promotable(p)
    /\ url' = SetCanonicalSlug(e, tx[p].slug)
    /\ IF e \in Products
       THEN /\ status' = [status EXCEPT ![e] = tx[p].value]
            /\ published' = [published EXCEPT ![e] = PublishedAt(p)]
            /\ UNCHANGED parent
       ELSE /\ parent' = [parent EXCEPT ![e] = tx[p].value]
            /\ UNCHANGED <<status, published>>
    /\ tx' = [q \in Procs |->
                IF q = p THEN [tx[p] EXCEPT !.at = "committed"]
                ELSE IF tx[q].at \in {"read", "written"} /\ SameRows(e, tx[q].entity)
                THEN [tx[q] EXCEPT !.late = TRUE] ELSE tx[q]]
    /\ fill' = [r \in Readers |-> IF fill[r] = None THEN None ELSE [fill[r] EXCEPT !.late = TRUE]]
    /\ named' = [named EXCEPT ![tx[p].slug] = IF @ = None THEN e ELSE @]
    /\ activated' = activated \cup {x \in {e} : tx[p].value = "active"}
    /\ overlapped' = (overlapped \/ tx[p].late)
    /\ UNCHANGED <<cache, saves>>

(* A refused payload, a slug or SKU taken meanwhile, a lost connection:    *)
(* nothing was written.                                                    *)
RollBack(p) ==
    /\ tx[p].at \in {"read", "written"}
    /\ tx' = [tx EXCEPT ![p] = Idle]
    /\ UNCHANGED <<rowVars, cache, fill, history, saves>>

(* cache-tags.ts, and the tags storefront/src/lib/catalog.ts gives a key.  *)
PurgeTags_Named(e) ==     \* mutant: only the tags that name what changed
    {<<"slugs", None>>, <<"categories", None>>, <<"product", e>>}
PurgeTags(e) ==
    {<<"all", None>>, <<"slugs", None>>, <<"categories", None>>}
      \cup {<<"product", q>> : q \in {e} \cap Products}
TagsOf(k) ==
    {<<"all", None>>}
      \cup (CASE k \in Slugs -> {<<"slugs", None>>}
              [] k \in Products -> {<<"product", k>>}
              [] k = "navigation" -> {<<"categories", None>>}
              [] OTHER -> {})

Purge(p) ==
    /\ tx[p].at = "committed"
    /\ cache' = [k \in Keys |-> IF TagsOf(k) \cap PurgeTags(tx[p].entity) # {} THEN None ELSE cache[k]]
    /\ tx' = [tx EXCEPT ![p] = Idle]
    /\ UNCHANGED <<rowVars, fill, history, saves>>

(* Refused, timed out, never sent by a console that died, or heard by      *)
(* another replica: only logged.  What is stored waits for its TTL.        *)
PurgeLost(p) ==
    /\ tx[p].at = "committed"
    /\ cache' = [k \in Keys |-> IF cache[k] = None THEN None ELSE [cache[k] EXCEPT !.late = TRUE]]
    /\ tx' = [tx EXCEPT ![p] = Idle]
    /\ UNCHANGED <<rowVars, fill, history, saves>>
--------------------------------------------------------------------------------
(* The storefront: a miss reads the database and then stores the answer.   *)
(* late marks an answer that a commit overtook, or a lost purge left.      *)
Miss(r, k) ==
    LET historical == k \in Slugs /\ url[k] # None /\ ~url[k].canonical IN
    /\ fill[r] = None /\ k \in Cached /\ cache[k] = None
    /\ fill' = [fill EXCEPT ![r] =
                  IF historical THEN [key |-> k, row |-> url[k], late |-> FALSE]
                  ELSE [key |-> k, value |-> View(k), late |-> FALSE]]
    /\ UNCHANGED <<rowVars, tx, cache, history, saves>>

(* The second lookup of a historical slug: another statement, another      *)
(* snapshot.                                                               *)
ReadCanonical(r) ==
    /\ fill[r] # None /\ "row" \in DOMAIN fill[r]
    /\ fill' = [fill EXCEPT ![r] =
                  [key |-> @.key, late |-> @.late,
                   value |-> ResolveSlug(@.row, CanonicalOf(@.row.entity))]]
    /\ UNCHANGED <<rowVars, tx, cache, history, saves>>

StoreEntry(r) ==
    /\ fill[r] # None /\ "value" \in DOMAIN fill[r]
    /\ cache' = [cache EXCEPT ![fill[r].key] = [value |-> fill[r].value, late |-> fill[r].late]]
    /\ fill' = [fill EXCEPT ![r] = None]
    /\ UNCHANGED <<rowVars, tx, history, saves>>

Expire(k) ==
    /\ cache[k] # None
    /\ cache' = [cache EXCEPT ![k] = None]
    /\ UNCHANGED <<rowVars, tx, fill, history, saves>>

Next ==
    \/ \E p \in Procs : Begin(p) \/ Write(p) \/ Commit(p) \/ RollBack(p) \/ Purge(p) \/ PurgeLost(p)
    \/ \E r \in Readers : ReadCanonical(r) \/ StoreEntry(r) \/ \E k \in Keys : Miss(r, k)
    \/ \E k \in Keys : Expire(k)

Spec == Init /\ [][Next]_vars
--------------------------------------------------------------------------------
(* Every URL the store has ever served still leads, over at most one       *)
(* redirect, to the page it was first given to, however two saves race for *)
(* it (writes.ts: "every URL the store has ever served keeps redirecting").*)
EveryUrlStillLeads == \A s \in Slugs : named[s] # None =>
    /\ url[s] # None /\ url[s].entity = named[s]
    /\ Cardinality(CanonicalOf(named[s])) = 1
    /\ View(s) = [action |-> "render", entity |-> named[s]]
         \/ View(View(s).to) = [action |-> "render", entity |-> named[s]]

(* What the storefront serves from its cache is what the database says,    *)
(* unless a commit overtook the read that filled the entry, its purge is   *)
(* still under way, or the purge was lost: then until the TTL.             *)
StaleOnlyIfOvertaken == \A k \in Keys : cache[k] # None =>
    \/ cache[k].value = View(k) \/ cache[k].late
    \/ \E p \in Procs : tx[p].at = "committed"

(* As long as no save commits over one that committed since it read, no    *)
(* category ends under its own descendant, and a product once active keeps *)
(* its publication date (nulls sort first in a listing).                   *)
SerialSavesLoseNothing == ~overlapped =>
    /\ \A c \in Categories : parent[c] \in Categories => c \notin Ancestors(parent[c])
    /\ \A p \in Products : published[p] <=> p \in activated
================================================================================
