---------------------------------- MODULE Cart ----------------------------------
(***************************************************************************)
(* A buyer's carts, edited from several tabs while one of them checks out: *)
(* cart/server.ts, the cart routes of the storefront, and the part of      *)
(* checkout/server.ts that locks the cart, snapshots and converts it, and  *)
(* gives it back.  Every edit is one transaction that first takes the      *)
(* cart's row lock; stock is asked and coupons previewed, never claimed,   *)
(* so both are only a reason to refuse.                                    *)
(***************************************************************************)
EXTENDS Integers, FiniteSets

CONSTANTS
    Carts,            \* bound: the carts the buyer ever gets
    Items,            \* variants
    Quantities,       \* what is asked of a variant; 0 removes it
    Tabs,
    Coupons,
    MaxLines          \* CART_MAX_LINES

ASSUME CartAssumption ==
    MaxLines \in Nat /\ Quantities \subseteq Nat /\ IsFiniteSet(Items) /\ 0 \notin Carts

VARIABLES
    cartStatus,       \* carts.status; "none" before the row exists
    coupon,           \* carts.coupon_code
    lines,            \* cart_lines: the quantity of each variant, 0 for no line
    order,            \* the snapshot the order that converted the cart was made of
    visible,          \* variants that are active, of active products
    cookie,           \* the browser's cart; NoCart
    request           \* the request of each tab

cartVars == <<cartStatus, coupon, lines, order, visible, cookie, request>>

NoCart == 0
NoCoupon == "none"
NoItem == "none"
Empty == [v \in Items |-> 0]
NoOrder == [bought |-> Empty, hidden |-> {}]
Ask(c, kind, v, q) ==
    [at |-> "asked", cart |-> c, kind |-> kind, item |-> v, quantity |-> q,
     bought |-> Empty, hidden |-> {}]
NoRequest == [Ask(NoCart, "none", NoItem, 0) EXCEPT !.at = "none"]

CartInit ==
    /\ cartStatus = [c \in Carts |-> "none"] /\ lines = [c \in Carts |-> Empty]
    /\ coupon = [c \in Carts |-> NoCoupon] /\ order = [c \in Carts |-> NoOrder]
    /\ visible = Items
    /\ cookie = NoCart /\ request = [t \in Tabs |-> NoRequest]
--------------------------------------------------------------------------------
(* getOrCreateCart, for an add: the cookie's cart if it is active, or else *)
(* a new one, in a transaction of its own.  A removal, a coupon and a      *)
(* checkout take the cookie's cart as it is.                               *)
CookieUsable == cookie # NoCart /\ cartStatus[cookie] = "active"
AddTo(t) == \E c \in Carts, v \in Items, q \in Quantities :
    /\ request[t] = NoRequest
    /\ \/ c = cookie /\ CookieUsable /\ UNCHANGED cartStatus
       \/ ~CookieUsable /\ cartStatus[c] = "none" /\ cartStatus' = [cartStatus EXCEPT ![c] = "active"]
    /\ request' = [request EXCEPT ![t] = Ask(c, "put", v, q)]
    /\ UNCHANGED <<coupon, lines, order, visible, cookie>>

AskOf(t, kind) ==
    /\ request[t] = NoRequest /\ cookie # NoCart
    /\ request' = [request EXCEPT ![t] = Ask(cookie, kind, NoItem, 0)]
    /\ UNCHANGED <<cartStatus, coupon, lines, order, visible, cookie>>

(* SELECT ... FOR UPDATE: waits for the transaction that has the row, and  *)
(* then sees what it committed.  A cart that is not active is refused.     *)
HasLock(t, c) == request[t].at \in {"locked", "checked", "read"} /\ request[t].cart = c
Lockable_Unlocked(t, c) == TRUE     \* mutant: the status is read without the lock
Lockable(t, c) == \A u \in Tabs \ {t} : ~HasLock(u, c)
LoadActiveCart(t) ==
    /\ request[t].at = "asked"
    /\ Lockable(t, request[t].cart)
    /\ request' = [request EXCEPT ![t] =
                      IF cartStatus[request[t].cart] = "active" THEN [@ EXCEPT !.at = "locked"]
                      ELSE NoRequest]
    /\ UNCHANGED <<cartStatus, coupon, lines, order, visible, cookie>>

In(t, kind, at) == request[t].kind = kind /\ request[t].at = at
Held(c) == {v \in Items : lines[c][v] # 0}
Done(t) == request' = [request EXCEPT ![t] = NoRequest]

(* Only a new line can breach the cap; a removal asks nothing.             *)
CheckLine(t) ==
    LET c == request[t].cart  v == request[t].item IN
    /\ In(t, "put", "locked")
    /\ request[t].quantity # 0 =>
          v \in visible /\ (v \in Held(c) \/ Cardinality(Held(c)) < MaxLines)
    /\ request' = [request EXCEPT ![t].at = "checked"]
    /\ UNCHANGED <<cartStatus, coupon, lines, order, visible, cookie>>

UpsertLine(t) ==
    /\ In(t, "put", "checked")
    /\ lines' = [lines EXCEPT ![request[t].cart][request[t].item] = request[t].quantity]
    /\ cookie' = request[t].cart /\ Done(t)
    /\ UNCHANGED <<cartStatus, coupon, order, visible>>

SetCartCoupon(t) == \E code \in Coupons \cup {NoCoupon} :
    /\ In(t, "coupon", "locked")
    /\ coupon' = [coupon EXCEPT ![request[t].cart] = code]
    /\ Done(t)
    /\ UNCHANGED <<cartStatus, lines, order, visible, cookie>>

(* TX-A: what is visible is bought, whatever else the cart holds.          *)
Snapshot(t) ==
    LET c == request[t].cart
        bought == [v \in Items |-> IF v \in visible THEN lines[c][v] ELSE 0]
    IN  /\ In(t, "checkout", "locked")
        /\ bought # Empty
        /\ request' = [request EXCEPT ![t] =
                          [@ EXCEPT !.at = "read", !.bought = bought, !.hidden = Items \ visible]]
        /\ UNCHANGED <<cartStatus, coupon, lines, order, visible, cookie>>

Convert(t) ==
    LET c == request[t].cart IN
    /\ In(t, "checkout", "read")
    /\ cartStatus' = [cartStatus EXCEPT ![c] = "converted"]
    /\ order' = [order EXCEPT ![c] = [bought |-> request[t].bought, hidden |-> request[t].hidden]]
    /\ Done(t)
    /\ UNCHANGED <<coupon, lines, visible, cookie>>

(* Any check that fails, before or after the lock, rolls back.             *)
Refuse(t) ==
    /\ request[t] # NoRequest /\ Done(t)
    /\ UNCHANGED <<cartStatus, coupon, lines, order, visible, cookie>>

(* The pending order is cancelled or expires: the buyer gets the cart back.*)
GiveBack(c) ==
    /\ cartStatus[c] = "converted" /\ \A t \in Tabs : ~HasLock(t, c)
    /\ cartStatus' = [cartStatus EXCEPT ![c] = "active"]
    /\ UNCHANGED <<coupon, lines, order, visible, cookie, request>>

(* The console delists a variant, or lists it again.                       *)
Relist == \E v \in Items :
    /\ visible' = IF v \in visible THEN visible \ {v} ELSE visible \cup {v}
    /\ UNCHANGED <<cartStatus, coupon, lines, order, cookie, request>>

CartNext ==
    \/ \E t \in Tabs :
          AddTo(t) \/ AskOf(t, "coupon") \/ AskOf(t, "checkout") \/ LoadActiveCart(t)
            \/ CheckLine(t) \/ UpsertLine(t) \/ SetCartCoupon(t)
            \/ Snapshot(t) \/ Convert(t) \/ Refuse(t)
    \/ \E c \in Carts : GiveBack(c)
    \/ Relist

CartSpec == CartInit /\ [][CartNext]_cartVars
--------------------------------------------------------------------------------
(* A converted cart still holds, line by line, what its order was made of  *)
(* (but for what was hidden then): no edit slips in between the snapshot   *)
(* and the commit.  And it fits the cap of the hold its order will place.  *)
OrderIsTheCart == \A c \in Carts : cartStatus[c] = "converted" =>
    /\ \A v \in Items : order[c].bought[v] = IF v \in order[c].hidden THEN 0 ELSE lines[c][v]
    /\ Cardinality(Held(c)) <= MaxLines
================================================================================
