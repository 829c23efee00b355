------------------------------- MODULE Cart_proofs -------------------------------
(* What holds of carts for any number of them, of variants and of tabs.     *)
EXTENDS Cart, FiniteSetTheorems, TLAPS

Orders == [bought : [Items -> Nat], hidden : SUBSET Items]
Requests ==
    [at : {"none", "asked", "locked", "checked", "read"}, cart : Carts \cup {NoCart},
     kind : {"none", "put", "coupon", "checkout"}, item : Items \cup {NoItem}, quantity : Nat,
     bought : [Items -> Nat], hidden : SUBSET Items]
CartTypeOK ==
    /\ cartStatus \in [Carts -> {"none", "active", "converted"}]
    /\ lines \in [Carts -> [Items -> Nat]] /\ order \in [Carts -> Orders]
    /\ visible \in SUBSET Items /\ cookie \in Carts \cup {NoCart}
    /\ request \in [Tabs -> Requests]

(* A request names a cart, an add a variant, from the moment it is made.   *)
RequestsName == \A t \in Tabs :
    /\ request[t].at # "none" => request[t].cart \in Carts
    /\ request[t].at # "none" /\ request[t].kind = "put" => request[t].item \in Items

(* Who has a cart's row has it alone, and found it active.                 *)
LocksAreExclusive == \A t, u \in Tabs, c \in Carts :
    HasLock(t, c) => cartStatus[c] = "active" /\ (HasLock(u, c) => t = u)

(* What was read under the lock still holds when it is used.               *)
Mirrors(bought, hidden, c) ==
    \A v \in Items : bought[v] = IF v \in hidden THEN 0 ELSE lines[c][v]
ReadsHold == \A t \in Tabs :
    /\ request[t].at = "checked" =>
          /\ request[t].kind = "put"
          /\ request[t].quantity # 0 =>
                \/ request[t].item \in Held(request[t].cart)
                \/ Cardinality(Held(request[t].cart)) < MaxLines
    /\ request[t].at = "read" => Mirrors(request[t].bought, request[t].hidden, request[t].cart)

Fits == \A c \in Carts : Cardinality(Held(c)) <= MaxLines
Faithful == \A c \in Carts : cartStatus[c] = "converted" => Mirrors(order[c].bought, order[c].hidden, c)

Register == CartTypeOK /\ RequestsName /\ LocksAreExclusive /\ ReadsHold /\ Fits /\ Faithful

(* A cart's lines are finitely many.                                       *)
LEMMA HeldIsFinite == ASSUME NEW c \in Carts
                      PROVE  IsFiniteSet(Held(c)) /\ Cardinality(Held(c)) \in Nat
  BY CartAssumption, FS_Subset, FS_CardinalityType DEF CartAssumption, Held

(* No cart, and no request: nothing to disagree.                           *)
LEMMA RegisterInit == CartInit => Register
<1> SUFFICES ASSUME CartInit PROVE Register
  OBVIOUS
<1>1. CartTypeOK
  BY DEF CartInit, CartTypeOK, Orders, Requests, NoRequest, NoOrder, Empty, Ask
<1>2. \A t \in Tabs : request[t].at = "none"
  BY DEF CartInit, NoRequest, Ask
<1>3. RequestsName /\ LocksAreExclusive /\ ReadsHold
  BY <1>2 DEF RequestsName, LocksAreExclusive, ReadsHold, HasLock
<1>4. Faithful
  BY DEF CartInit, Faithful
<1>5. ASSUME NEW c \in Carts PROVE Cardinality(Held(c)) <= MaxLines
  <2>1. Held(c) = {}
    BY <1>5 DEF CartInit, Held, Empty
  <2> QED
    BY <2>1, FS_EmptySet, CartAssumption DEF CartAssumption
<1> QED
  BY <1>1, <1>3, <1>4, <1>5 DEF Register, Fits

(* The insert after the check: the cap is not passed.                      *)
LEMMA UpsertFits == ASSUME Register, NEW t \in Tabs, UpsertLine(t)
                    PROVE  Fits'
<1>1. PICK c \in Carts, v \in Items, q \in Nat :
        c = request[t].cart /\ v = request[t].item /\ q = request[t].quantity
  BY DEF Register, RequestsName, CartTypeOK, Requests, UpsertLine, In
<1>2. lines' = [lines EXCEPT ![c][v] = q] /\ lines \in [Carts -> [Items -> Nat]]
  BY <1>1 DEF UpsertLine, Register, CartTypeOK
<1>2a. \A d \in Carts : d # c => Held(d)' = Held(d)
  BY <1>2 DEF Held
<1>3. Cardinality(Held(c)) <= MaxLines /\ Cardinality(Held(c)) \in Nat /\ IsFiniteSet(Held(c))
  BY <1>1, HeldIsFinite DEF Register, Fits
<1>4. Cardinality(Held(c)') <= MaxLines
  <2>1. CASE q = 0
    <3>1. Held(c)' \subseteq Held(c)
      BY <1>2, <2>1 DEF Held
    <3>2. Cardinality(Held(c)') <= Cardinality(Held(c)) /\ Cardinality(Held(c)') \in Nat
      BY <3>1, <1>3, FS_Subset, FS_CardinalityType
    <3> QED
      BY <3>2, <1>3, CartAssumption DEF CartAssumption
  <2>2. CASE q # 0
    <3>1. Held(c)' = Held(c) \cup {v}
      BY <1>2, <2>2 DEF Held
    <3>2. v \in Held(c) \/ Cardinality(Held(c)) < MaxLines
      BY <1>1, <2>2 DEF UpsertLine, In, Register, ReadsHold
    <3>3. Cardinality(Held(c) \cup {v}) =
            IF v \in Held(c) THEN Cardinality(Held(c)) ELSE Cardinality(Held(c)) + 1
      BY <1>3, FS_AddElement
    <3> QED
      BY <3>1, <3>2, <3>3, <1>3, CartAssumption DEF CartAssumption
  <2> QED
    BY <2>1, <2>2
<1> QED
  BY <1>2a, <1>4 DEF Register, Fits

(* Every edit, checkout, give-back and relisting keeps it.                 *)
LEMMA RegisterKept == Register /\ [CartNext]_cartVars => Register'
<1> SUFFICES ASSUME Register, [CartNext]_cartVars PROVE Register'
  OBVIOUS
<1>type. CartTypeOK /\ RequestsName
  BY DEF Register
<1>locks. LocksAreExclusive
  BY DEF Register
<1>reads. ReadsHold
  BY DEF Register
<1>books. Fits /\ Faithful
  BY DEF Register
(* A step that gives no tab a lock it did not have, on a cart that stays active. *)
<1>a. ASSUME \A u \in Tabs, d \in Carts : HasLock(u, d)' => HasLock(u, d) /\ cartStatus'[d] = cartStatus[d]
      PROVE  LocksAreExclusive'
  BY <1>a, <1>locks DEF LocksAreExclusive
(* A step that leaves the lines alone, and lets no tab past a check.       *)
<1>b. ASSUME UNCHANGED lines,
             \A u \in Tabs : request'[u].at \in {"checked", "read"} => request'[u] = request[u]
      PROVE  ReadsHold'
  BY <1>b, <1>reads DEF ReadsHold, Held, Mirrors
<1>c. ASSUME UNCHANGED lines PROVE Fits'
  BY <1>c, <1>books DEF Fits, Held
<1>d. ASSUME UNCHANGED <<lines, order>>,
             \A d \in Carts : cartStatus'[d] = "converted" => cartStatus[d] = "converted"
      PROVE  Faithful'
  BY <1>d, <1>books DEF Faithful, Mirrors
(* A request that ends leaves the others as they were.                     *)
<1>e. ASSUME NEW t \in Tabs, Done(t)
      PROVE  /\ request' \in [Tabs -> Requests] /\ RequestsName'
             /\ \A u \in Tabs : request'[u].at # "none" => u # t /\ request'[u] = request[u]
  <2>1. NoRequest \in Requests /\ NoRequest.at = "none"
    BY DEF NoRequest, Requests, Ask, NoCart, NoItem, Empty
  <2> QED
    BY <2>1, <1>e, <1>type DEF Done, CartTypeOK, RequestsName
<1>f. ASSUME NEW t \in Tabs, NEW d \in Carts, NEW kind \in {"put", "coupon", "checkout"},
             NEW v \in Items \cup {NoItem}, NEW q \in Nat, kind = "put" => v \in Items,
             request' = [request EXCEPT ![t] = Ask(d, kind, v, q)]
      PROVE  /\ request' \in [Tabs -> Requests] /\ RequestsName'
             /\ \A u \in Tabs : request'[u].at \in {"locked", "checked", "read"} =>
                    request'[u] = request[u]
  <2>1. /\ Ask(d, kind, v, q) \in Requests /\ Ask(d, kind, v, q).at = "asked"
        /\ Ask(d, kind, v, q).cart = d /\ Ask(d, kind, v, q).kind = kind
        /\ Ask(d, kind, v, q).item = v
    BY <1>f DEF Ask, Requests, Empty
  <2> HIDE DEF Ask
  <2> QED
    BY <2>1, <1>f, <1>type DEF CartTypeOK, RequestsName
<1>1. ASSUME NEW t \in Tabs, AddTo(t) PROVE Register'
  <2>1. PICK c \in Carts, v \in Items, q \in Quantities :
          /\ \/ c = cookie /\ CookieUsable /\ UNCHANGED cartStatus
             \/ ~CookieUsable /\ cartStatus[c] = "none" /\ cartStatus' = [cartStatus EXCEPT ![c] = "active"]
          /\ request' = [request EXCEPT ![t] = Ask(c, "put", v, q)]
          /\ UNCHANGED <<lines, order, visible, cookie>>
    BY <1>1 DEF AddTo
  <2>2. q \in Nat
    BY CartAssumption DEF CartAssumption
  <2>3. /\ request' \in [Tabs -> Requests] /\ RequestsName'
        /\ \A u \in Tabs : request'[u].at \in {"locked", "checked", "read"} => request'[u] = request[u]
    BY <2>1, <2>2, <1>f
  <2>4. CartTypeOK'
    BY <2>1, <2>3, <1>type DEF CartTypeOK
  <2>5. \A d \in Carts : cartStatus[d] = "active" \/ cartStatus'[d] = "converted" => cartStatus'[d] = cartStatus[d]
    BY <2>1, <1>type DEF CartTypeOK
  <2>6. LocksAreExclusive'
    BY <2>3, <2>5, <1>locks, <1>a DEF LocksAreExclusive, HasLock
  <2>7. ReadsHold' /\ Fits' /\ Faithful'
    BY <2>1, <2>3, <2>5, <1>b, <1>c, <1>d
  <2> QED
    BY <2>3, <2>4, <2>6, <2>7 DEF Register
<1>2. ASSUME NEW t \in Tabs, NEW kind \in {"coupon", "checkout"}, AskOf(t, kind) PROVE Register'
  <2>1. cookie \in Carts /\ request' = [request EXCEPT ![t] = Ask(cookie, kind, NoItem, 0)]
    BY <1>2, <1>type DEF AskOf, CartTypeOK
  <2>2. /\ request' \in [Tabs -> Requests] /\ RequestsName'
        /\ \A u \in Tabs : request'[u].at \in {"locked", "checked", "read"} => request'[u] = request[u]
    BY <2>1, <1>f
  <2>3. CartTypeOK'
    BY <1>2, <2>2, <1>type DEF AskOf, CartTypeOK
  <2>4. LocksAreExclusive'
    BY <1>2, <2>2, <1>a DEF AskOf, HasLock
  <2>5. ReadsHold' /\ Fits' /\ Faithful'
    BY <1>2, <2>2, <1>b, <1>c, <1>d DEF AskOf
  <2> QED
    BY <2>2, <2>3, <2>4, <2>5 DEF Register
<1>3. ASSUME NEW t \in Tabs, LoadActiveCart(t) PROVE Register'
  <2> DEFINE c == request[t].cart
  <2>1. c \in Carts /\ UNCHANGED <<cartStatus, lines, order, visible, cookie>>
    BY <1>3, <1>type DEF LoadActiveCart, RequestsName
  <2>2. CASE cartStatus[c] = "active"
    <3>1. request' = [request EXCEPT ![t] = [@ EXCEPT !.at = "locked"]]
      BY <1>3, <2>2 DEF LoadActiveCart
    <3>2. CartTypeOK' /\ RequestsName'
      <4>1. [request[t] EXCEPT !.at = "locked"] \in Requests /\ request[t].at = "asked"
        BY <1>3, <1>type DEF LoadActiveCart, CartTypeOK, Requests
      <4>2. CartTypeOK'
        BY <2>1, <3>1, <4>1, <1>type DEF CartTypeOK
      <4>3. RequestsName'
        BY <3>1, <4>1, <1>type DEF CartTypeOK, RequestsName, Requests
      <4> QED
        BY <4>2, <4>3
    <3>3. \A u \in Tabs : u # t => request'[u] = request[u]
      BY <3>1, <1>type DEF CartTypeOK
    <3>4. request'[t].at = "locked" /\ request'[t].cart = c
      BY <3>1, <1>type DEF CartTypeOK, Requests
    <3>5. \A u \in Tabs \ {t} : ~HasLock(u, c)
      BY <1>3 DEF LoadActiveCart, Lockable
    <3>6. LocksAreExclusive'
      BY <2>1, <2>2, <3>3, <3>4, <3>5, <1>locks DEF LocksAreExclusive, HasLock
    <3>7. ReadsHold' /\ Fits' /\ Faithful'
      BY <2>1, <3>3, <3>4, <1>b, <1>c, <1>d
    <3> QED
      BY <3>2, <3>6, <3>7 DEF Register
  <2>3. CASE cartStatus[c] # "active"
    <3>1. Done(t)
      BY <1>3, <2>3 DEF LoadActiveCart, Done
    <3>2. /\ CartTypeOK' /\ RequestsName'
          /\ \A u \in Tabs : request'[u].at # "none" => u # t /\ request'[u] = request[u]
      BY <2>1, <3>1, <1>e, <1>type DEF CartTypeOK
    <3>3. LocksAreExclusive' /\ ReadsHold' /\ Fits' /\ Faithful'
      BY <2>1, <3>2, <1>a, <1>b, <1>c, <1>d DEF HasLock
    <3> QED
      BY <3>2, <3>3 DEF Register
  <2> QED
    BY <2>2, <2>3
<1>4. ASSUME NEW t \in Tabs, CheckLine(t) PROVE Register'
  <2> DEFINE c == request[t].cart
  <2>1. /\ request[t].at = "locked" /\ request[t].kind = "put"
        /\ request' = [request EXCEPT ![t].at = "checked"]
        /\ UNCHANGED <<cartStatus, lines, order, visible, cookie>>
        /\ request[t].quantity # 0 =>
              request[t].item \in Held(c) \/ Cardinality(Held(c)) < MaxLines
    BY <1>4 DEF CheckLine, In
  <2>2. CartTypeOK' /\ RequestsName'
    BY <2>1, <1>type DEF CartTypeOK, RequestsName, Requests
  <2>3. /\ \A u \in Tabs : u # t => request'[u] = request[u]
        /\ request'[t] = [request[t] EXCEPT !.at = "checked"]
    BY <2>1, <1>type DEF CartTypeOK
  <2>4. /\ request'[t].at = "checked" /\ request'[t].cart = c /\ request'[t].kind = "put"
        /\ request'[t].item = request[t].item /\ request'[t].quantity = request[t].quantity
    BY <2>1, <2>3, <1>type DEF CartTypeOK, Requests
  <2>5. LocksAreExclusive'
    BY <2>1, <2>3, <2>4, <1>a DEF HasLock
  <2>6. ReadsHold'
    <3>1. \A d : Held(d)' = Held(d)
      BY <2>1 DEF Held
    <3> QED
      BY <2>1, <2>3, <2>4, <3>1, <1>reads DEF ReadsHold, Mirrors
  <2>7. Fits' /\ Faithful'
    BY <2>1, <1>c, <1>d
  <2> QED
    BY <2>2, <2>5, <2>6, <2>7 DEF Register
<1>5. ASSUME NEW t \in Tabs, UpsertLine(t) PROVE Register'
  <2> DEFINE c == request[t].cart
  <2>1. /\ c \in Carts /\ HasLock(t, c) /\ request[t].item \in Items /\ request[t].quantity \in Nat
        /\ Done(t) /\ cookie' = c /\ UNCHANGED <<cartStatus, order, visible>>
        /\ lines' = [lines EXCEPT ![c][request[t].item] = request[t].quantity]
    BY <1>5, <1>type DEF UpsertLine, In, HasLock, RequestsName, CartTypeOK, Requests
  <2>2. /\ CartTypeOK' /\ RequestsName'
        /\ \A u \in Tabs : request'[u].at # "none" => u # t /\ request'[u] = request[u]
    BY <2>1, <1>e, <1>type DEF CartTypeOK
  <2>3. LocksAreExclusive'
    BY <2>1, <2>2, <1>a DEF HasLock
  <2>4. \A d \in Carts : d # c => lines'[d] = lines[d]
    BY <2>1, <1>type DEF CartTypeOK
  <2>5. ReadsHold'
    <3>1. ASSUME NEW u \in Tabs, request'[u].at \in {"checked", "read"}
          PROVE  request'[u] = request[u] /\ request[u].cart \in Carts /\ request[u].cart # c
      <4>1. u # t /\ request'[u] = request[u] /\ HasLock(u, request[u].cart)
        BY <3>1, <2>2 DEF HasLock
      <4> QED
        BY <4>1, <3>1, <2>1, <1>locks, <1>type DEF LocksAreExclusive, RequestsName
    <3>2. \A d \in Carts : d # c => Held(d)' = Held(d)
      BY <2>4 DEF Held
    <3> QED
      BY <3>1, <3>2, <2>4, <1>reads DEF ReadsHold, Mirrors
  <2>6. Faithful'
    BY <2>1, <2>4, <1>locks, <1>books DEF LocksAreExclusive, Faithful, Mirrors
  <2> QED
    BY <1>5, <2>2, <2>3, <2>5, <2>6, UpsertFits DEF Register
<1>6. ASSUME NEW t \in Tabs, Done(t), UNCHANGED <<cartStatus, lines, order, visible, cookie>> PROVE Register'
  <2>1. /\ CartTypeOK' /\ RequestsName'
        /\ \A u \in Tabs : request'[u].at # "none" => u # t /\ request'[u] = request[u]
    BY <1>6, <1>e, <1>type DEF CartTypeOK
  <2>2. LocksAreExclusive' /\ ReadsHold' /\ Fits' /\ Faithful'
    BY <1>6, <2>1, <1>a, <1>b, <1>c, <1>d DEF HasLock
  <2> QED
    BY <2>1, <2>2 DEF Register
<1>7. ASSUME NEW t \in Tabs, Snapshot(t) PROVE Register'
  <2> DEFINE c == request[t].cart
             bought == [v \in Items |-> IF v \in visible THEN lines[c][v] ELSE 0]
             hidden == Items \ visible
  <2>1. /\ c \in Carts /\ bought \in [Items -> Nat] /\ hidden \in SUBSET Items
        /\ request[t].at = "locked" /\ UNCHANGED <<cartStatus, lines, order, visible, cookie>>
    BY <1>7, <1>type DEF Snapshot, In, RequestsName, CartTypeOK
  <2>2. Mirrors(bought, hidden, c)
    BY <2>1 DEF Mirrors
  <2>3. request' = [request EXCEPT ![t] =
                      [@ EXCEPT !.at = "read", !.bought = bought, !.hidden = hidden]]
    BY <1>7 DEF Snapshot
  <2> HIDE DEF bought, hidden
  <2>4. CartTypeOK' /\ RequestsName'
    <3>1. [request[t] EXCEPT !.at = "read", !.bought = bought, !.hidden = hidden] \in Requests
      BY <2>1, <1>type DEF CartTypeOK, Requests
    <3>2. CartTypeOK'
      BY <2>1, <2>3, <3>1, <1>type DEF CartTypeOK
    <3>3. RequestsName'
      BY <2>1, <2>3, <1>type DEF CartTypeOK, RequestsName, Requests
    <3> QED
      BY <3>2, <3>3
  <2>5. /\ \A u \in Tabs : u # t => request'[u] = request[u]
        /\ request'[t].at = "read" /\ request'[t].cart = c
        /\ request'[t].bought = bought /\ request'[t].hidden = hidden
    BY <2>3, <1>type DEF CartTypeOK, Requests
  <2>6. LocksAreExclusive'
    BY <2>1, <2>5, <1>a DEF HasLock
  <2>7. ReadsHold'
    BY <2>1, <2>2, <2>5, <1>reads DEF ReadsHold, Held, Mirrors
  <2>8. Fits' /\ Faithful'
    BY <2>1, <1>c, <1>d
  <2> QED
    BY <2>4, <2>6, <2>7, <2>8 DEF Register
<1>8. ASSUME NEW t \in Tabs, Convert(t) PROVE Register'
  <2> DEFINE c == request[t].cart
             made == [bought |-> request[t].bought, hidden |-> request[t].hidden]
  <2>1. /\ c \in Carts /\ HasLock(t, c) /\ request[t].at = "read" /\ made \in Orders
        /\ cartStatus' = [cartStatus EXCEPT ![c] = "converted"] /\ order' = [order EXCEPT ![c] = made]
        /\ Done(t) /\ UNCHANGED <<lines, visible, cookie>>
    BY <1>8, <1>type DEF Convert, In, HasLock, RequestsName, CartTypeOK, Requests, Orders
  <2>2. /\ CartTypeOK' /\ RequestsName'
        /\ \A u \in Tabs : request'[u].at # "none" => u # t /\ request'[u] = request[u]
    BY <2>1, <1>e, <1>type DEF CartTypeOK
  <2>3. \A u \in Tabs, d \in Carts : HasLock(u, d)' => HasLock(u, d) /\ u # t /\ d # c
    BY <2>1, <2>2, <1>locks DEF HasLock, LocksAreExclusive
  <2>4. LocksAreExclusive'
    BY <2>1, <2>3, <1>a, <1>type DEF CartTypeOK
  <2>5. Mirrors(request[t].bought, request[t].hidden, c)
    BY <2>1, <1>reads DEF ReadsHold
  <2>6. Faithful'
    <3>1. ASSUME NEW d \in Carts, cartStatus'[d] = "converted"
          PROVE  Mirrors(order'[d].bought, order'[d].hidden, d)
      <4>1. CASE d = c
        BY <4>1, <2>1, <2>5, <1>type DEF CartTypeOK
      <4>2. CASE d # c
        BY <4>2, <3>1, <2>1, <1>books, <1>type DEF CartTypeOK, Faithful
      <4> QED
        BY <4>1, <4>2
    <3> QED
      BY <3>1, <2>1 DEF Faithful, Mirrors
  <2>7. ReadsHold' /\ Fits'
    BY <2>1, <2>2, <1>b, <1>c
  <2> QED
    BY <2>2, <2>4, <2>6, <2>7 DEF Register
<1>9. ASSUME NEW c \in Carts, GiveBack(c) PROVE Register'
  <2>1. CartTypeOK' /\ RequestsName'
    BY <1>9, <1>type DEF GiveBack, CartTypeOK, RequestsName
  <2>2. \A d \in Carts : d # c => cartStatus'[d] = cartStatus[d]
    BY <1>9, <1>type DEF GiveBack, CartTypeOK
  <2>3. LocksAreExclusive'
    BY <1>9, <2>2, <1>a DEF GiveBack, HasLock
  <2>4. ReadsHold' /\ Fits' /\ Faithful'
    BY <1>9, <2>1, <1>type, <1>b, <1>c, <1>d DEF GiveBack, CartTypeOK
  <2> QED
    BY <2>1, <2>3, <2>4 DEF Register
<1>10. ASSUME UNCHANGED <<cartStatus, lines, order, cookie, request>>, visible' \in SUBSET Items
       PROVE  Register'
  <2>1. CartTypeOK' /\ RequestsName'
    BY <1>10, <1>type DEF CartTypeOK, RequestsName
  <2>2. LocksAreExclusive' /\ ReadsHold' /\ Fits' /\ Faithful'
    BY <1>10, <1>a, <1>b, <1>c, <1>d DEF HasLock
  <2> QED
    BY <2>1, <2>2 DEF Register
<1>11. CASE Relist
  <2>1. visible' \in SUBSET Items
    BY <1>11, <1>type DEF Relist, CartTypeOK
  <2> QED
    BY <1>11, <2>1, <1>10 DEF Relist
<1>12. CASE UNCHANGED cartVars
  BY <1>12, <1>10, <1>type DEF cartVars, CartTypeOK
<1> QED
  BY <1>1, <1>2, <1>3, <1>4, <1>5, <1>6, <1>7, <1>8, <1>9, <1>11, <1>12
  DEF CartNext, SetCartCoupon, Refuse

(* The cart's code only ever leaves such states.                           *)
THEOREM RegisterHolds == CartSpec => []Register
<1>1. QED
  BY RegisterInit, RegisterKept, PTL DEF CartSpec

(* cart/server.ts, createOrderTx: whatever is edited in however many tabs  *)
(* while one checks out, the order is the cart, and fits its hold.         *)
THEOREM OrdersAreTheirCarts == CartSpec => []OrderIsTheCart
<1>1. Register => OrderIsTheCart
  BY DEF Register, Fits, Faithful, Mirrors, OrderIsTheCart
<1> QED
  BY <1>1, RegisterHolds, PTL
================================================================================
