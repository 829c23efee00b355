------------------------------ MODULE Catalog_proofs ------------------------------
(* What holds of URLs for any catalog, any titles and any number of saves.  *)
EXTENDS Catalog, FiniteSetTheorems, TLAPS

Saves ==
    [at : {"read", "written", "committed"}, entity : Entities, title : Titles,
     value : PageStatuses \cup Categories \cup {Root}, published : BOOLEAN,
     slug : Slugs \cup {None}, late : BOOLEAN]
PagesTypeOK ==
    /\ url \in [Slugs -> Rows \cup {None}] /\ named \in [Slugs -> Entities \cup {None}]
    /\ tx \in [Procs -> {Idle} \cup Saves]

(* A save that has written has found a slug.                               *)
SlugsFound == \A p \in Procs : tx[p].at = "written" => tx[p].slug \in Slugs

(* A slug stays with the entity it was first committed for, and an entity  *)
(* that has slugs has one that is canonical.                               *)
NamesStay == \A s \in Slugs : named[s] = IF url[s] = None THEN None ELSE url[s].entity
OneCanonical == \A s \in Slugs, f \in Entities :
    url[s] # None /\ url[s].entity = f => \E t \in Slugs : CanonicalOf(f) = {t}

Pages == PagesTypeOK /\ SlugsFound /\ NamesStay /\ OneCanonical

(* No page, no URL.                                                        *)
LEMMA PagesInit == Init => Pages
<1> SUFFICES ASSUME Init PROVE Pages
  OBVIOUS
<1>1. PagesTypeOK /\ SlugsFound
  BY DEF Init, PagesTypeOK, SlugsFound, Idle
<1>2. NamesStay /\ OneCanonical
  BY DEF Init, NamesStay, OneCanonical
<1> QED
  BY <1>1, <1>2 DEF Pages

(* Demoting the old canonical row and promoting the new one, in one        *)
(* transaction, leaves the entity with one and every other as it was.      *)
LEMMA CanonicalMoves ==
    ASSUME PagesTypeOK, NEW e \in Entities, NEW s \in Slugs, ~Taken(e, s),
           url' = SetCanonicalSlug(e, s)
    PROVE  /\ url' \in [Slugs -> Rows \cup {None}]
           /\ \A x \in Slugs : url'[x] # None <=> url[x] # None \/ x = s
           /\ \A x \in Slugs : x # s /\ url[x] # None => url'[x].entity = url[x].entity
           /\ url'[s].entity = e
           /\ CanonicalOf(e)' = {s}
           /\ \A f \in Entities \ {e} : CanonicalOf(f)' = CanonicalOf(f)
<1>1. \A x \in Slugs : url[x] \in Rows \cup {None}
  BY DEF PagesTypeOK
<1>2. None \notin Rows /\ \A r \in Rows : r.entity \in Entities /\ r.canonical \in BOOLEAN
  BY CatalogAssumption DEF CatalogAssumption, Rows
<1>3. url'[s] = [entity |-> e, canonical |-> TRUE] /\ url'[s] \in Rows
  BY DEF SetCanonicalSlug, Rows
<1>4. ASSUME NEW x \in Slugs, x # s, x \in CanonicalOf(e)
      PROVE  /\ url[x] \in Rows /\ url[x].entity = e
             /\ url'[x] = [url[x] EXCEPT !.canonical = FALSE]
             /\ url'[x] \in Rows /\ url'[x].entity = e /\ url'[x].canonical = FALSE
  BY <1>4, <1>1 DEF SetCanonicalSlug, CanonicalOf, Rows
<1>5. ASSUME NEW x \in Slugs, x # s, x \notin CanonicalOf(e)
      PROVE  url'[x] = url[x]
  BY <1>5 DEF SetCanonicalSlug
<1>6. url' \in [Slugs -> Rows \cup {None}]
  <2>1. \A x \in Slugs : url'[x] \in Rows \cup {None}
    BY <1>1, <1>3, <1>4, <1>5
  <2> QED
    BY <2>1 DEF SetCanonicalSlug
<1>7. \A x \in Slugs : url'[x] # None <=> url[x] # None \/ x = s
  BY <1>1, <1>2, <1>3, <1>4, <1>5
<1>8. \A x \in Slugs : x # s /\ url[x] # None => url'[x].entity = url[x].entity
  BY <1>4, <1>5
<1>9. url'[s].entity = e /\ url'[s].canonical = TRUE
  BY <1>3
<1>10. CanonicalOf(e)' = {s}
  <2>1. s \in CanonicalOf(e)'
    BY <1>2, <1>3, <1>9 DEF CanonicalOf
  <2>2. ASSUME NEW x \in CanonicalOf(e)', x # s PROVE FALSE
    <3>1. x \in Slugs /\ url'[x] # None /\ url'[x].entity = e /\ url'[x].canonical
      BY <2>2 DEF CanonicalOf
    <3>2. x \notin CanonicalOf(e)
      BY <3>1, <2>2, <1>4
    <3>3. url'[x] = url[x]
      BY <3>1, <3>2, <2>2, <1>5
    <3> QED
      BY <3>1, <3>2, <3>3 DEF CanonicalOf
  <2> QED
    BY <2>1, <2>2
<1>11. ASSUME NEW f \in Entities \ {e} PROVE CanonicalOf(f)' = CanonicalOf(f)
  <2>1. ASSUME NEW x \in Slugs PROVE x \in CanonicalOf(f)' <=> x \in CanonicalOf(f)
    <3>1. CASE x = s
      <4>1. x \notin CanonicalOf(f)'
        BY <3>1, <1>9 DEF CanonicalOf
      <4>2. x \notin CanonicalOf(f)
        BY <3>1 DEF CanonicalOf, Taken
      <4> QED
        BY <4>1, <4>2
    <3>2. CASE x # s /\ x \in CanonicalOf(e)
      BY <3>2, <1>4 DEF CanonicalOf
    <3>3. CASE x # s /\ x \notin CanonicalOf(e)
      <4>1. url'[x] = url[x]
        BY <3>3, <1>5
      <4> QED
        BY <4>1 DEF CanonicalOf
    <3> QED
      BY <3>1, <3>2, <3>3
  <2>2. CanonicalOf(f) \subseteq Slugs /\ CanonicalOf(f)' \subseteq Slugs
    BY DEF CanonicalOf
  <2> QED
    BY <2>1, <2>2
<1> QED
  BY <1>6, <1>7, <1>8, <1>9, <1>10, <1>11

(* Saves read, wait, commit, fail and purge; renders read and store.       *)
LEMMA PagesKept == Pages /\ [Next]_vars => Pages'
<1> SUFFICES ASSUME Pages, [Next]_vars PROVE Pages'
  OBVIOUS
<1>type. PagesTypeOK /\ SlugsFound /\ NamesStay /\ OneCanonical
  BY DEF Pages
(* A step that leaves the slugs alone.                                     *)
<1>a. ASSUME UNCHANGED <<url, named>>, tx' \in [Procs -> {Idle} \cup Saves], SlugsFound'
      PROVE  Pages'
  BY <1>a, <1>type DEF Pages, PagesTypeOK, NamesStay, OneCanonical, CanonicalOf
<1>b. ASSUME UNCHANGED <<url, named, tx>> PROVE Pages'
  BY <1>b, <1>a, <1>type DEF PagesTypeOK, SlugsFound
<1>c. ASSUME NEW p \in Procs, UNCHANGED <<url, named>>, tx' = [tx EXCEPT ![p] = Idle] PROVE Pages'
  <2>1. tx' \in [Procs -> {Idle} \cup Saves] /\ SlugsFound'
    BY <1>c, <1>type DEF PagesTypeOK, SlugsFound, Idle
  <2> QED
    BY <1>c, <2>1, <1>a
<1>1. ASSUME NEW p \in Procs, Begin(p) PROVE Pages'
  <2>1. PICK e \in Entities, t \in Titles :
          \E v \in (IF e \in Products THEN PageStatuses ELSE Categories \cup {Root}) :
            tx' = [tx EXCEPT ![p] =
                     [at |-> "read", entity |-> e, title |-> t, value |-> v, slug |-> None,
                      published |-> e \in Products /\ published[e], late |-> FALSE]]
    BY <1>1 DEF Begin
  <2>2. PICK v \in PageStatuses \cup Categories \cup {Root}, b \in BOOLEAN :
          tx' = [tx EXCEPT ![p] =
                   [at |-> "read", entity |-> e, title |-> t, value |-> v, slug |-> None,
                    published |-> b, late |-> FALSE]]
    <3>1. (e \in Products /\ published[e]) \in BOOLEAN
      BY Zenon
    <3> QED
      BY <2>1, <3>1
  <2>3. tx' \in [Procs -> {Idle} \cup Saves] /\ SlugsFound'
    BY <2>2, <1>type DEF PagesTypeOK, SlugsFound, Saves
  <2> QED
    BY <1>1, <2>3, <1>a DEF Begin, rowVars, history
<1>2. ASSUME NEW p \in Procs, Write(p) PROVE Pages'
  <2>1. PICK s \in Slugs : tx' = [tx EXCEPT ![p].at = "written", ![p].slug = s]
    BY <1>2 DEF Write
  <2>2. tx[p] \in Saves /\ UNCHANGED <<url, named>>
    BY <1>2, <1>type DEF Write, PagesTypeOK, Idle, rowVars, history
  <2>3. [tx[p] EXCEPT !.at = "written", !.slug = s] \in Saves
    BY <2>2 DEF Saves
  <2>4. tx' = [tx EXCEPT ![p] = [tx[p] EXCEPT !.at = "written", !.slug = s]]
    BY <2>1, <1>type DEF PagesTypeOK
  <2>5. tx' \in [Procs -> {Idle} \cup Saves] /\ SlugsFound'
    BY <2>2, <2>3, <2>4, <1>type DEF PagesTypeOK, SlugsFound, Saves
  <2> QED
    BY <2>2, <2>5, <1>a
<1>3. ASSUME NEW p \in Procs, Commit(p) PROVE Pages'
  <2>1. PICK e \in Entities, s \in Slugs :
          /\ e = tx[p].entity /\ s = tx[p].slug
          /\ ~Taken(e, s) /\ url' = SetCanonicalSlug(e, s)
          /\ named' = [named EXCEPT ![s] = IF @ = None THEN e ELSE @]
    <3>1. tx[p] \in Saves /\ tx[p].slug \in Slugs
      BY <1>3, <1>type DEF Commit, PagesTypeOK, SlugsFound, Idle
    <3> QED
      BY <1>3, <3>1 DEF Commit, Promotable, Saves
  <2>2. /\ url' \in [Slugs -> Rows \cup {None}]
        /\ \A x \in Slugs : url'[x] # None <=> url[x] # None \/ x = s
        /\ \A x \in Slugs : x # s /\ url[x] # None => url'[x].entity = url[x].entity
        /\ url'[s].entity = e
        /\ CanonicalOf(e)' = {s}
        /\ \A f \in Entities \ {e} : CanonicalOf(f)' = CanonicalOf(f)
    BY <2>1, <1>type, CanonicalMoves
  <2>3. \A x \in Slugs : url[x] # None => url[x].entity \in Entities
    BY <1>type DEF PagesTypeOK, Rows
  <2>4. tx' \in [Procs -> {Idle} \cup Saves] /\ SlugsFound'
    <3>1. \A r \in Saves : /\ [r EXCEPT !.late = TRUE] \in Saves
                           /\ [r EXCEPT !.at = "committed"] \in Saves
      BY DEF Saves
    <3>2. tx[p] \in Saves
      BY <1>3, <1>type DEF Commit, PagesTypeOK, Idle
    <3>3. \A q \in Procs : tx[q].at \in {"read", "written"} => tx[q] \in Saves
      BY <1>type DEF PagesTypeOK, Idle
    <3>4. \A q \in Procs : \/ tx'[q] = tx[q] /\ q # p
                           \/ q = p /\ tx'[q] = [tx[q] EXCEPT !.at = "committed"]
                           \/ tx[q] \in Saves /\ tx'[q] = [tx[q] EXCEPT !.late = TRUE]
      BY <1>3, <3>3 DEF Commit
    <3>5. \A q \in Procs : tx'[q] \in {Idle} \cup Saves
      BY <3>1, <3>2, <3>4, <1>type DEF PagesTypeOK
    <3>6. tx' \in [Procs -> {Idle} \cup Saves]
      BY <1>3, <3>5 DEF Commit
    <3>7. SlugsFound'
      <4>1. \A r \in Saves : /\ [r EXCEPT !.at = "committed"].at = "committed"
                             /\ [r EXCEPT !.late = TRUE].at = r.at
                             /\ [r EXCEPT !.late = TRUE].slug = r.slug
        BY DEF Saves
      <4>2. ASSUME NEW q \in Procs, tx'[q].at = "written" PROVE tx'[q].slug \in Slugs
        <5>1. CASE tx'[q] = tx[q]
          BY <4>2, <5>1, <1>type DEF SlugsFound
        <5>2. CASE q = p /\ tx'[q] = [tx[q] EXCEPT !.at = "committed"]
          BY <4>1, <4>2, <5>2, <3>2
        <5>3. CASE tx[q] \in Saves /\ tx'[q] = [tx[q] EXCEPT !.late = TRUE]
          BY <4>1, <4>2, <5>3, <1>type DEF SlugsFound
        <5> QED
          BY <5>1, <5>2, <5>3, <3>4
      <4> QED
        BY <4>2 DEF SlugsFound
    <3> QED
      BY <3>6, <3>7
  <2>5. named[s] \in {None, e}
    BY <2>1, <1>type DEF NamesStay, Taken
  <2>6. named' \in [Slugs -> Entities \cup {None}] /\ named'[s] = e
        /\ \A x \in Slugs : x # s => named'[x] = named[x]
    BY <2>1, <2>5, <1>type DEF PagesTypeOK
  <2>7. NamesStay'
    BY <2>2, <2>6, <1>type DEF NamesStay
  <2>8. OneCanonical'
    <3>1. ASSUME NEW x \in Slugs, NEW f \in Entities, url'[x] # None, url'[x].entity = f
          PROVE  \E t \in Slugs : CanonicalOf(f)' = {t}
      <4>1. CASE f = e
        BY <4>1, <2>2
      <4>2. CASE f # e
        <5>1. url[x] # None /\ url[x].entity = f
          BY <3>1, <4>2, <2>2
        <5>2. PICK t \in Slugs : CanonicalOf(f) = {t}
          BY <5>1, <1>type DEF OneCanonical
        <5>3. CanonicalOf(f)' = CanonicalOf(f)
          BY <4>2, <2>2
        <5> QED
          BY <5>2, <5>3
      <4> QED
        BY <4>1, <4>2
    <3> QED
      BY <3>1 DEF OneCanonical
  <2> QED
    BY <2>2, <2>4, <2>6, <2>7, <2>8 DEF Pages, PagesTypeOK
<1>4. ASSUME NEW p \in Procs, RollBack(p) \/ Purge(p) \/ PurgeLost(p) PROVE Pages'
  BY <1>4, <1>c DEF RollBack, Purge, PurgeLost, rowVars, history
<1>5. ASSUME NEW r \in Readers, ReadCanonical(r) \/ StoreEntry(r) \/ \E k \in Keys : Miss(r, k)
      PROVE  Pages'
  BY <1>5, <1>b DEF ReadCanonical, StoreEntry, Miss, rowVars, history
<1>6. ASSUME NEW k \in Keys, Expire(k) PROVE Pages'
  BY <1>6, <1>b DEF Expire, rowVars, history
<1>7. CASE UNCHANGED vars
  BY <1>7, <1>b DEF vars, rowVars, history
<1> QED
  BY <1>1, <1>2, <1>3, <1>4, <1>5, <1>6, <1>7 DEF Next

(* The catalog's saves only ever leave such pages.                         *)
THEOREM PagesHold == Spec => []Pages
<1>1. QED
  BY PagesInit, PagesKept, PTL DEF Spec

(* slug.ts: a slug of an entity with one canonical slug renders, or        *)
(* redirects to the one that does.                                         *)
LEMMA SlugLeads == ASSUME Pages, NEW s \in Slugs, url[s] # None, NEW e \in Entities, e = url[s].entity
                   PROVE  \/ View(s) = [action |-> "render", entity |-> e]
                          \/ View(View(s).to) = [action |-> "render", entity |-> e]
<1>1. \A x \in Slugs : View(x) = ResolveSlug(url[x], IF url[x] = None THEN {} ELSE CanonicalOf(url[x].entity))
  BY CatalogAssumption DEF CatalogAssumption, View
<1>2. CASE url[s].canonical
  BY <1>1, <1>2 DEF ResolveSlug
<1>3. CASE ~url[s].canonical
  <2>1. PICK t \in Slugs : CanonicalOf(e) = {t}
    BY DEF Pages, OneCanonical
  <2>2. url[t] # None /\ url[t].entity = e /\ url[t].canonical
    BY <2>1 DEF CanonicalOf
  <2>3. ResolveSlug(url[s], {t}) = [action |-> "redirect", to |-> t]
    <3>1. (CHOOSE x \in {t} : TRUE) = t
      OBVIOUS
    <3> QED
      BY <1>3, <3>1 DEF ResolveSlug
  <2>4. View(s).to = t
    BY <1>1, <2>1, <2>3
  <2>5. View(t) = [action |-> "render", entity |-> e]
    BY <1>1, <2>2 DEF ResolveSlug
  <2> QED
    BY <2>4, <2>5
<1> QED
  BY <1>2, <1>3

(* writes.ts: every URL the store has ever served keeps leading to its     *)
(* page, for any number of products, categories, slugs and racing saves.   *)
THEOREM UrlsStillLead == Spec => []EveryUrlStillLeads
<1>1. Pages => EveryUrlStillLeads
  <2> SUFFICES ASSUME Pages, NEW s \in Slugs, named[s] # None
               PROVE  /\ url[s] # None /\ url[s].entity = named[s]
                      /\ Cardinality(CanonicalOf(named[s])) = 1
                      /\ View(s) = [action |-> "render", entity |-> named[s]]
                           \/ View(View(s).to) = [action |-> "render", entity |-> named[s]]
    BY DEF EveryUrlStillLeads
  <2>1. url[s] # None /\ url[s].entity = named[s] /\ named[s] \in Entities
    BY DEF Pages, NamesStay, PagesTypeOK
  <2>2. Cardinality(CanonicalOf(named[s])) = 1
    BY <2>1, FS_Singleton DEF Pages, OneCanonical
  <2> QED
    BY <2>1, <2>2, SlugLeads
<1> QED
  BY <1>1, PagesHold, PTL
==================================================================================
