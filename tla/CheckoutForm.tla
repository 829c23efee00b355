------------------------------ MODULE CheckoutForm ------------------------------
(***************************************************************************)
(* The checkout page and the requests it makes: CheckoutForm.tsx, the      *)
(* checkout routes of the storefront, and the way of a request through     *)
(* startCheckout and replayCheckout as far as its idempotency key goes.    *)
(*                                                                         *)
(* A mount of the form has one key for all its clicks.  A request whose    *)
(* answer is lost goes on in the server while the buyer changes the fields *)
(* and clicks again.  What stock, coupons and the gateway say is left open;*)
(* Checkout and Settlement say it.                                         *)
(***************************************************************************)
EXTENDS Integers

CONSTANTS
    Browsers,         \* the tabs a buyer has open on one cart
    Posts,            \* threads serving checkout requests
    MaxMounts,        \* bound: page loads, and so keys
    MaxPosts,         \* bound: requests made
    Filled,           \* what may be typed: [region, mode, phone, rest], region a
                      \* pincode with the state chosen, rest name and address
    Mixed,            \* regions whose pincode is not in the state chosen
    Unserved,         \* regions shipping.pincode_policy leaves out
    Baskets,          \* what the cart may hold
    Nothing

ASSUME FormAssumption == MaxMounts \in Nat /\ MaxPosts \in Nat

VARIABLES
    basket,           \* the cart's lines while it is active; checked out: "converted"
    orderOf,          \* orders: the order of each idempotency key
    tab,              \* each tab's form
    post,             \* each thread's request
    mounts, posts     \* how much of the bounds is used

pageVars == <<basket, orderOf, tab, post, mounts, posts>>

Mounts == 1..MaxMounts
NoMount == 0
Converted == "converted"
NoOrderYet == [status |-> "none", print |-> Nothing, details |-> Nothing, lines |-> Nothing,
               ref |-> FALSE, why |-> Nothing]
Unopened == [key |-> NoMount, sent |-> Nothing, waits |-> FALSE, shows |-> Nothing]
Unused == [at |-> "free", seen |-> Nothing, from |-> Nothing, key |-> NoMount, details |-> Nothing]

FormsInit ==
    /\ basket \in Baskets
    /\ orderOf = [k \in Mounts |-> NoOrderYet]
    /\ tab = [t \in Browsers |-> Unopened] /\ post = [p \in Posts |-> Unused]
    /\ mounts = 0 /\ posts = 0
--------------------------------------------------------------------------------
(* The browser.                                                            *)

(* The page shows a form for an active cart only, with a key of its own.   *)
OpenCheckout(t) ==
    /\ basket # Converted /\ mounts < MaxMounts /\ ~tab[t].waits
    /\ mounts' = mounts + 1
    /\ tab' = [tab EXCEPT ![t] = [Unopened EXCEPT !.key = mounts + 1]]
    /\ UNCHANGED <<basket, orderOf, post, posts>>

(* A pincode's prefix tells its state; an unknown prefix agrees with any.  *)
StateMismatch(region) == region \in Mixed
(* checkServiceability: the shop's policy, uncached.                       *)
Serviceable(region) == region \notin Unserved

(* A click sends what the fields hold by then; they stay open while it is  *)
(* on its way.  The pincode's verdict keeps nobody: its answer may be late,*)
(* lost, or about a pincode typed before.                                  *)
Clickable(t) == tab[t].key # NoMount /\ tab[t].shows \notin {"confirmed", "payment_required"}
Submit(t) == \E p \in Posts, d \in Filled :
    /\ Clickable(t) /\ ~tab[t].waits /\ ~StateMismatch(d.region)
    /\ post[p] = Unused /\ posts < MaxPosts
    /\ posts' = posts + 1
    /\ post' = [post EXCEPT ![p] = [Unused EXCEPT !.at = "door", !.from = t,
                                    !.key = tab[t].key, !.details = d]]
    /\ tab' = [tab EXCEPT ![t].waits = TRUE, ![t].sent = d, ![t].shows = Nothing]
    /\ UNCHANGED <<basket, orderOf, mounts>>

(* The connection is lost: the request may have arrived or not.            *)
AnswerLost(t) ==
    /\ tab[t].waits
    /\ tab' = [tab EXCEPT ![t].waits = FALSE]
    /\ post' = [p \in Posts |-> IF post[p].from = t THEN [post[p] EXCEPT !.from = Nothing]
                                ELSE post[p]]
    /\ UNCHANGED <<basket, orderOf, mounts, posts>>

(* The cart page, open beside it.                                          *)
ChangeBasket ==
    /\ basket # Converted /\ basket' \in Baskets \ {basket}
    /\ UNCHANGED <<orderOf, tab, post, mounts, posts>>
--------------------------------------------------------------------------------
(* The server.                                                             *)

OrderThere(k) == orderOf[k].status # "none"
PendingKey(k) == orderOf[k].status = "pending_payment"

(* computeCheckoutFingerprint over the order's own lines; name, e-mail and *)
(* street are not in it.  The coupon is the page's, the same for a key.    *)
Fingerprint_NoMode(d, lines) == <<d.region, d.phone, lines>>   \* mutant: the mode is left out
Fingerprint(d, lines) == <<d.region, d.mode, d.phone, lines>>

Answer(p, what) ==
    /\ post' = [post EXCEPT ![p] = Unused]
    /\ tab' = [t \in Browsers |-> IF post[p].from # t THEN tab[t]
                ELSE [tab[t] EXCEPT !.waits = FALSE, !.shows = what]]
    /\ UNCHANGED <<mounts, posts>>
Onward(p, at, seen) ==
    post' = [post EXCEPT ![p].at = at, ![p].seen = seen] /\ UNCHANGED <<tab, mounts, posts>>

(* cancelPendingOrder: nothing, if another transaction was first.          *)
CancelForm(k, why) ==
    IF PendingKey(k)
    THEN /\ orderOf' = [orderOf EXCEPT ![k].status = "cancelled", ![k].why = why]
         /\ basket' = orderOf[k].lines
    ELSE UNCHANGED <<orderOf, basket>>

(* The rate limit, the schema, the cookie, the modes the shop offers.      *)
RefusedAtDoor(p) ==
    post[p].at = "door" /\ Answer(p, "refused") /\ UNCHANGED <<basket, orderOf>>

(* What the first look at the key finds decides which way the request      *)
(* goes; a new one is asked about its pincode once more.                   *)
Lookup(p) ==
    LET k == post[p].key  region == post[p].details.region IN
    /\ post[p].at = "door" /\ ~StateMismatch(region)
    /\ IF OrderThere(k) THEN Onward(p, "replay", orderOf[k].status)
       ELSE IF ~Serviceable(region) THEN Answer(p, "pincode_unserviceable")
       ELSE Onward(p, "create", Nothing)
    /\ UNCHANGED <<basket, orderOf>>

(* TX-A.  A cart another request has checked out, or a key another request *)
(* has inserted, sends it to the order of its key.                         *)
CreateOrderTx(p) ==
    LET k == post[p].key IN
    /\ post[p].at = "create"
    /\ IF OrderThere(k) THEN Onward(p, "replay", orderOf[k].status) /\ UNCHANGED <<basket, orderOf>>
       ELSE IF basket = Converted THEN Answer(p, "cart_not_active") /\ UNCHANGED <<basket, orderOf>>
       ELSE /\ orderOf' = [orderOf EXCEPT ![k] =
                  [status |-> "pending_payment", print |-> Fingerprint(post[p].details, basket),
                   details |-> post[p].details, lines |-> basket, ref |-> FALSE, why |-> Nothing]]
            /\ basket' = Converted
            /\ Onward(p, "hold", Nothing)
CreateRefused(p) ==
    post[p].at = "create" /\ Answer(p, "refused") /\ UNCHANGED <<basket, orderOf>>

(* holdStock, by the request that made the order or by one that replays it.*)
HoldOk(p) ==
    /\ \/ post[p].at = "hold" /\ Onward(p, "finish", Nothing)
       \/ post[p].at = "rehold" /\ Onward(p, "extend", Nothing)
    /\ UNCHANGED <<basket, orderOf>>
HoldFails(p) ==
    /\ post[p].at \in {"hold", "rehold"}
    /\ CancelForm(post[p].key, "hold_failed")
    /\ Answer(p, "insufficient_stock")

SettledAnswer(status) ==
    CASE status = "cancelled" -> "checkout_cancelled"
      [] status = "abandoned" -> "checkout_expired"
      [] status = "confirmed" -> "confirmed"

(* The status is the one the unlocked look-up saw.                         *)
ReplayCheckout(p) ==
    LET o == orderOf[post[p].key]  seen == post[p].seen IN
    /\ post[p].at = "replay"
    /\ IF Fingerprint(post[p].details, o.lines) # o.print THEN Answer(p, "idempotency_key_reuse")
       ELSE IF seen = "pending_payment" THEN Onward(p, "rehold", Nothing)
       ELSE Answer(p, SettledAnswer(seen))
    /\ UNCHANGED <<basket, orderOf>>

(* The second look, under the order's lock.                                *)
ExtendForm(p) ==
    /\ post[p].at = "extend"
    /\ IF PendingKey(post[p].key) THEN Onward(p, "refinish", Nothing)
       ELSE Answer(p, SettledAnswer(orderOf[post[p].key].status))
    /\ UNCHANGED <<basket, orderOf>>

OnDelivery(p) == orderOf[post[p].key].details.mode = "cod"

(* confirmCodOrder; a replay that comes second reads what the first did.   *)
ConfirmForm(p) ==
    LET k == post[p].key IN
    /\ post[p].at \in {"finish", "refinish"} /\ OnDelivery(p)
    /\ IF PendingKey(k)
       THEN orderOf' = [orderOf EXCEPT ![k].status = "confirmed"] /\ Answer(p, "confirmed")
       ELSE /\ UNCHANGED orderOf
            /\ Answer(p, IF post[p].at = "refinish" /\ orderOf[k].status = "confirmed"
                         THEN "confirmed" ELSE "refused")
    /\ UNCHANGED basket
ConfirmFormFails(p) ==
    LET k == post[p].key IN
    /\ post[p].at \in {"finish", "refinish"} /\ OnDelivery(p) /\ PendingKey(k)
    /\ CancelForm(k, "not_confirmed") /\ Answer(p, "refused")

(* startGatewayPayment: the stored reference, or a new one.  It does not   *)
(* ask whether the order is still pending.                                 *)
StartPayment(p) ==
    LET k == post[p].key IN
    /\ post[p].at \in {"finish", "refinish"} /\ ~OnDelivery(p)
    /\ orderOf' = [orderOf EXCEPT ![k].ref = TRUE]
    /\ Answer(p, "payment_required") /\ UNCHANGED basket
(* No account is enabled: the order is given up, but not by a replay.      *)
NoAccount(p) ==
    /\ post[p].at \in {"finish", "refinish"} /\ ~OnDelivery(p)
    /\ IF post[p].at = "finish" THEN CancelForm(post[p].key, "payments_not_configured")
       ELSE UNCHANGED <<orderOf, basket>>
    /\ Answer(p, "payments_not_configured")

(* The process dies, or a statement or the gateway fails: 500 or no answer.*)
PostDies(p) ==
    post[p] # Unused /\ Answer(p, "error") /\ UNCHANGED <<basket, orderOf>>

(* The capture's webhook; the sweep.                                       *)
OrderPaid(k) ==
    /\ PendingKey(k) /\ orderOf[k].ref
    /\ orderOf' = [orderOf EXCEPT ![k].status = "confirmed"]
    /\ UNCHANGED <<basket, tab, post, mounts, posts>>
OrderExpires(k) ==
    /\ PendingKey(k)
    /\ orderOf' = [orderOf EXCEPT ![k].status = "abandoned"] /\ basket' = orderOf[k].lines
    /\ UNCHANGED <<tab, post, mounts, posts>>

FormsNext ==
    \/ \E t \in Browsers :
          OpenCheckout(t) \/ Submit(t) \/ AnswerLost(t)
    \/ \E p \in Posts :
          RefusedAtDoor(p) \/ Lookup(p) \/ CreateOrderTx(p) \/ CreateRefused(p) \/ HoldOk(p)
            \/ HoldFails(p) \/ ReplayCheckout(p) \/ ExtendForm(p) \/ ConfirmForm(p)
            \/ ConfirmFormFails(p) \/ StartPayment(p) \/ NoAccount(p) \/ PostDies(p)
    \/ \E k \in Mounts : OrderPaid(k) \/ OrderExpires(k)
    \/ ChangeBasket

--------------------------------------------------------------------------------
(* "A double-click or a network retry replays the same checkout instead of *)
(* creating a second order": however often the buyer clicks, from however  *)
(* many tabs, whatever answers are lost, one order of the cart stands; and *)
(* a tab that is told of success is told of the order of its key, placed   *)
(* with what this last click asked for and deliverable there.              *)
Alike(d, e) == d.region = e.region /\ d.mode = e.mode /\ d.phone = e.phone
ClicksOrderOnce ==
    /\ \A k, l \in Mounts :
          {orderOf[k].status, orderOf[l].status} \subseteq {"pending_payment", "confirmed"} => k = l
    /\ \A t \in Browsers : tab[t].shows \in {"confirmed", "payment_required"} =>
          LET o == orderOf[tab[t].key] IN
          /\ o.status # "none" /\ Alike(o.details, tab[t].sent)
          /\ ~StateMismatch(o.details.region) /\ Serviceable(o.details.region)
          /\ IF tab[t].shows = "confirmed" THEN o.status = "confirmed"
             ELSE o.ref /\ o.details.mode # "cod"

(* "The cancelled row leaves the cart-pending index so the buyer's retry   *)
(* on the SAME cart mints a fresh order" (startCheckout, TX-C): a buyer    *)
(* whose stock was short and who tries again is not answered with the      *)
(* order that failed.                                                      *)
RetryIsAFreshOrder == \A t \in Browsers :
    tab[t].shows = "checkout_cancelled" => orderOf[tab[t].key].why # "hold_failed"
================================================================================
