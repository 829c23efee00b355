---------------------------------- MODULE Quote ----------------------------------
(***************************************************************************)
(* What the checkout page shows and what the order then costs.             *)
(*                                                                         *)
(* The page prices the cart with cart/server.ts (readCartView,             *)
(* previewCoupon) and getShippingFeeQuote, statement by statement; the     *)
(* click posts the coupon the page was rendered with and no amount, and    *)
(* startCheckout prices the cart again.  Meanwhile prices, products, the   *)
(* coupon, the settings and the cart itself change.  The amounts of both   *)
(* are Pricing's operators.                                                *)
(***************************************************************************)
EXTENDS Pricing, SequencesExt, TLC

CONSTANTS
    Wares,            \* variants, in the order the cart got them
    TagOf,            \* the fields of a variant no edit changes, as a line of Pricing
    Prices,
    Codes,            \* coupon codes; OffersOf gives the rows a code may have
    OffersOf,
    Quantities,       \* what another tab may set a line to; zero takes it away
    MaxChanges        \* bound: edits between the page and the order

ASSUME QuoteAssumption == MaxChanges \in Nat /\ Wares \subseteq Nat /\ Quantities \subseteq Nat

VARIABLES
    shelf,            \* the variants: price, and whether a buyer may see them
    basket,           \* the cart: quantities, coupon and status
    offers,           \* the promotion of each code, or NoOffer
    page,             \* the page, and how far its rendering has come
    placing,          \* the checkout under way
    placed,           \* the order
    changes           \* edits so far

quoteVars == <<shelf, basket, offers, page, placing, placed, changes>>

Unpriced == [at |-> "closed"]
Unsent == [at |-> "none"]
QuoteInit ==
    /\ shelf \in [Wares -> [price : Prices, seen : {TRUE}]]
    /\ basket \in [quantity : [Wares -> Quantities], coupon : Codes \cup {None}, status : {"active"}]
    /\ offers \in {f \in [Codes -> UNION {OffersOf[c] : c \in Codes}] : \A c \in Codes : f[c] \in OffersOf[c]}
    /\ page = Unpriced /\ placing = Unsent /\ placed = None /\ changes = 0

(* The join of cart_lines with the variants and products a buyer may see.  *)
Visible == SetToSortSeq({v \in Wares : basket.quantity[v] > 0 /\ shelf[v].seen}, LAMBDA v, w : v < w)
LinesNow == [i \in DOMAIN Visible |->
    [TagOf[Visible[i]] EXCEPT !.price = shelf[Visible[i]].price, !.quantity = basket.quantity[Visible[i]]]]

(* loadActivePromotionForUpdate, and previewCoupon's look-up.              *)
Live(code) == offers[code] # NoOffer
--------------------------------------------------------------------------------
(* The page.  Every statement of READ COMMITTED sees what is committed.    *)

OpenPage ==
    /\ page.at = "closed" /\ basket.status = "active"
    /\ page' = [at |-> "lines", coupon |-> basket.coupon, since |-> changes]
    /\ UNCHANGED <<shelf, basket, offers, placing, placed, changes>>
ReadLines ==
    /\ page.at = "lines"
    /\ page' = IF LinesNow = <<>> THEN Unpriced      \* "Your cart is empty."
               ELSE [page EXCEPT !.at = "coupon"] @@ [lines |-> LinesNow]
    /\ UNCHANGED <<shelf, basket, offers, placing, placed, changes>>

(* Nobody is signed in: a first order may apply.                           *)
PreviewCoupon ==
    LET applies == page.coupon # None /\ Live(page.coupon)
                   /\ Applicable(offers[page.coupon], page.lines, TRUE) IN
    /\ page.at = "coupon"
    /\ page' = [page EXCEPT !.at = "fee"] @@
          [applies  |-> applies,
           discount |-> IF applies THEN Discount(offers[page.coupon], page.lines) ELSE 0,
           freely   |-> applies /\ FreeShipping(offers[page.coupon])]
    /\ UNCHANGED <<shelf, basket, offers, placing, placed, changes>>

QuotedFee_Discounted == FeeUnder(policy, Subtotal(page.lines) - page.discount)   \* mutant: after the coupon
QuotedFee == FeeUnder(policy, Subtotal(page.lines))
ShowPage ==
    /\ page.at = "fee"
    /\ page' = [page EXCEPT !.at = "shown"] @@
          [total |-> Subtotal(page.lines) - page.discount + (IF page.freely THEN 0 ELSE QuotedFee)]
    /\ UNCHANGED <<shelf, basket, offers, placing, placed, changes>>
--------------------------------------------------------------------------------
(* The click.                                                              *)

(* The settings are read before the transaction.                           *)
Click(mode, first) ==
    /\ page.at = "shown" /\ placing.at \in {"none", "refused"} /\ placed = None
    /\ mode = "prepaid" \/ policy.codEnabled
    /\ placing' = [at |-> "lock", settings |-> policy, first |-> first]
    /\ UNCHANGED <<shelf, basket, offers, page, placed, changes>>
RefuseClick(why) == placing' = [placing EXCEPT !.at = "refused"] @@ [why |-> why]

(* createOrderTx takes the cart, then its lines: the last live read.       *)
SnapshotLines ==
    /\ placing.at = "lock"
    /\ IF basket.status # "active" THEN RefuseClick("cart_not_active")
       ELSE IF LinesNow = <<>> THEN RefuseClick("cart_empty")
       ELSE placing' = [placing EXCEPT !.at = "price"] @@ [lines |-> LinesNow]
    /\ UNCHANGED <<shelf, basket, offers, page, placed, changes>>

ChargedFee(discount) == FeeUnder(placing.settings, Subtotal(placing.lines))
Priced(offer) ==
    LET discount == IF offer = NoOffer THEN 0 ELSE Discount(offer, placing.lines)
        fee == IF offer # NoOffer /\ FreeShipping(offer) THEN 0 ELSE ChargedFee(discount)
    IN  [lines |-> placing.lines, discount |-> discount, changes |-> changes,
         total |-> Subtotal(placing.lines) - discount + fee]
PlaceOrder ==
    LET code  == page.coupon
        offer == IF code = None THEN NoOffer ELSE offers[code] IN
    /\ placing.at = "price"
    /\ IF code # None /\ ~Live(code)
       THEN RefuseClick("coupon_invalid") /\ UNCHANGED <<placed, basket>>
       ELSE IF code # None /\ ~Applicable(offer, placing.lines, placing.first)
       THEN RefuseClick("coupon_not_applicable") /\ UNCHANGED <<placed, basket>>
       ELSE /\ placed' = Priced(offer) /\ placing' = Unsent
            /\ basket' = [basket EXCEPT !.status = "converted"]
    /\ UNCHANGED <<shelf, offers, page, changes>>
--------------------------------------------------------------------------------
(* What changes meanwhile.                                                 *)

Change == changes < MaxChanges /\ changes' = changes + 1
EditWare == \E v \in Wares :
    /\ Change
    /\ \/ \E p \in Prices \ {shelf[v].price} : shelf' = [shelf EXCEPT ![v].price = p]
       \/ shelf' = [shelf EXCEPT ![v].seen = ~shelf[v].seen]
    /\ UNCHANGED <<basket, offers, page, placing, placed>>
EditOffer == \E c \in Codes : \E o \in OffersOf[c] :
    /\ Change /\ o # offers[c] /\ offers' = [offers EXCEPT ![c] = o]
    /\ UNCHANGED <<shelf, basket, page, placing, placed>>
(* Another tab; the cart's lock is the checkout's from its lines to its end. *)
EditBasket ==
    /\ Change /\ basket.status = "active" /\ placing.at # "price"
    /\ \/ \E v \in Wares : \E q \in Quantities \ {basket.quantity[v]} :
             basket' = [basket EXCEPT !.quantity[v] = q]
       \/ \E c \in (Codes \cup {None}) \ {basket.coupon} : basket' = [basket EXCEPT !.coupon = c]
    /\ UNCHANGED <<shelf, offers, page, placing, placed>>
EditPolicy == \E p \in Policies \ {policy} :
    /\ Change /\ policy' = p
    /\ UNCHANGED <<shelf, basket, offers, page, placing, placed>>
LeavePage ==
    /\ page.at = "shown" /\ placing.at \in {"none", "refused"} /\ placed = None
    /\ page' = Unpriced /\ placing' = Unsent
    /\ UNCHANGED <<shelf, basket, offers, placed, changes>>

QuoteNext ==
    \/ /\ \/ OpenPage \/ ReadLines \/ PreviewCoupon \/ ShowPage \/ LeavePage
          \/ \E mode \in Modes, first \in BOOLEAN : Click(mode, first)
          \/ SnapshotLines \/ PlaceOrder \/ EditWare \/ EditOffer \/ EditBasket
       /\ UNCHANGED policy
    \/ EditPolicy
--------------------------------------------------------------------------------
(* The buyer pays what the page showed.  If nothing was edited from the    *)
(* first read of the page to the last of the order, the order has the lines*)
(* of the page and its total, and the click is not refused for a coupon    *)
(* the page took off, but for a customer who ordered before.               *)
ForFirstOrders(c) == offers[c] # NoOffer /\ \E k \in offers[c].conditions : k.type = "first_order"
ChargedAsShown ==
    /\ placed # None /\ placed.changes = page.since =>
          placed.lines = page.lines /\ placed.total = page.total /\ placed.discount = page.discount
    /\ placing.at = "refused" /\ changes = page.since =>
          /\ placing.why \in {"coupon_invalid", "coupon_not_applicable"}
          /\ page.applies => ForFirstOrders(page.coupon) /\ ~placing.first
================================================================================
