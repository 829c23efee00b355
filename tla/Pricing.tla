--------------------------------- MODULE Pricing ---------------------------------
(***************************************************************************)
(* What an order costs, from the cart to the invoice: the discount of a    *)
(* coupon and its spread over the lines, the shipping fee, GST per line,   *)
(* the advance to collect online, and the document issued at confirmation. *)
(*                                                                         *)
(* checkout/server.ts (createOrderTx, confirmOrderCore), promotions/       *)
(* index.ts, tax/index.ts, serviceability/index.ts, payments/index.ts and  *)
(* invoices/server.ts.  All amounts are paise, all rates basis points.     *)
(* The store's identity is read before the order's transaction and again   *)
(* before the confirming one, and may be another by then.                  *)
(***************************************************************************)
EXTENDS Integers, Sequences, FiniteSetsExt

CONSTANTS
    Carts,            \* sequences of [variant, product, category, price, quantity, rate]
    Offers,           \* promotions rows: [conditions, effects, open]
    NoOffer, NoCap,
    Policies,         \* store_settings: [flatFee, freeAbove, codEnabled, advanceBps, minAdvance]
    NoThreshold,      \* free_above_paise unset
    NoAdvance,        \* advance_bps unset
    Sellers,          \* tenants rows: [registration, state]
    States, NoState,
    None,
    MaxEdits          \* bound: how often the store's identity changes

ASSUME PricingAssumption ==
    /\ \A p \in Policies : p.flatFee \in Nat /\ p.minAdvance \in Nat
                           /\ p.advanceBps \in (0..10000) \cup {NoAdvance}
    /\ \A c \in Carts : Len(c) > 0 /\ \A i, j \in DOMAIN c :
           /\ c[i].price \in Nat /\ c[i].quantity \in Nat \ {0} /\ c[i].rate \in Nat
           /\ i # j => c[i].variant # c[j].variant
    /\ \A s \in Sellers : s.state \in States \cup {NoState}
    /\ MaxEdits \in Nat

VARIABLES
    policy,           \* the store_settings
    seller,           \* the tenants row
    request,          \* the checkout on its way: what it asks for and the seller it read
    order,            \* the orders row with its order_lines
    confirming,       \* the seller the confirming request read
    invoice,          \* the invoices row
    edits

vars == <<policy, seller, request, order, confirming, invoice, edits>>

Modes == {"prepaid", "cod", "cod_advance"}
DocTypes == {"tax_invoice", "bill_of_supply"}
Sum(f) == MapThenSumSet(LAMBDA i : f[i], DOMAIN f)
Least(a, b) == IF a < b THEN a ELSE b
Largest(a, b) == IF a > b THEN a ELSE b

(* divHalfUp of amounts that are not negative.                             *)
DivHalfUp(n, d) == LET q == n \div d IN IF 2 * (n % d) >= d THEN q + 1 ELSE q

LineTotals(cart) == [i \in DOMAIN cart |-> cart[i].price * cart[i].quantity]
Subtotal(cart) == Sum(LineTotals(cart))
--------------------------------------------------------------------------------
(***************************************************************************)
(* The coupon.                                                             *)
(***************************************************************************)
Meets(condition, cart, firstOrder) ==
    CASE condition.type = "cart_subtotal_min" -> Subtotal(cart) >= condition.paise
      [] condition.type = "contains_product" -> \E i \in DOMAIN cart : cart[i].product \in condition.ids
      [] condition.type = "contains_category" -> \E i \in DOMAIN cart : cart[i].category \in condition.ids
      [] condition.type = "first_order" -> firstOrder
      [] condition.type = "channel" -> "web" \in condition.channels
      [] OTHER -> FALSE      \* customer_segment, and any vocabulary of the future

(* buyXGetYDiscount: the free units are the cheapest eligible ones.        *)
Eligible(effect, cart) == {i \in DOMAIN cart : cart[i].variant \in effect.getVariants}
Batches(effect, cart) == Sum([i \in DOMAIN cart |-> cart[i].quantity]) \div effect.buyQty
Before(cart, j, i) ==
    cart[j].price < cart[i].price \/ (cart[j].price = cart[i].price /\ j < i)
GiftOff(effect, cart) ==
    LET free == Batches(effect, cart) * effect.getQty
        Units(S) == MapThenSumSet(LAMBDA i : cart[i].quantity, S)
        Left(i) == Largest(0, free - Units({j \in Eligible(effect, cart) : Before(cart, j, i)}))
    IN  MapThenSumSet(LAMBDA i : cart[i].price * Least(Left(i), cart[i].quantity), Eligible(effect, cart))

EffectOff(effect, cart) ==
    CASE effect.type = "flat_off" -> effect.paise
      [] effect.type = "percent_off" ->
            LET off == (Subtotal(cart) * effect.bps + 5000) \div 10000
            IN  IF effect.cap = NoCap THEN off ELSE Least(off, effect.cap)
      [] effect.type = "buy_x_get_y" -> GiftOff(effect, cart)
      [] OTHER -> 0

(* evaluatePromotion: applicable, and what it takes off.                   *)
Applicable(offer, cart, firstOrder) ==
    /\ offer.open
    /\ \A c \in offer.conditions : Meets(c, cart, firstOrder)
    /\ \A k \in DOMAIN offer.effects : LET e == offer.effects[k] IN
           /\ e.type \in {"flat_off", "percent_off", "free_shipping", "buy_x_get_y"}
           /\ e.type = "buy_x_get_y" => Eligible(e, cart) # {} /\ Batches(e, cart) > 0
Discount(offer, cart) ==
    Least(Sum([k \in DOMAIN offer.effects |-> EffectOff(offer.effects[k], cart)]), Subtotal(cart))
FreeShipping(offer) == \E k \in DOMAIN offer.effects : offer.effects[k].type = "free_shipping"

LineDiscounts_Rounded(cart, target) == \* mutant: every share is rounded on its own
    [i \in DOMAIN cart |-> IF Subtotal(cart) = 0 THEN 0
                           ELSE DivHalfUp(LineTotals(cart)[i] * target, Subtotal(cart))]
(* applyDiscountToLines: floors first, then one paisa each by remainder,   *)
(* larger lines and earlier lines first.                                   *)
LineDiscounts(cart, target) ==
    LET total == Subtotal(cart)
        numer == [i \in DOMAIN cart |-> LineTotals(cart)[i] * target]
        floor == [i \in DOMAIN cart |-> numer[i] \div total]
        leftover == target - Sum(floor)
        Ahead(j, i) == \/ numer[j] % total > numer[i] % total
                       \/ /\ numer[j] % total = numer[i] % total
                          /\ \/ LineTotals(cart)[j] > LineTotals(cart)[i]
                             \/ LineTotals(cart)[j] = LineTotals(cart)[i] /\ j < i
        rank == [i \in DOMAIN cart |-> Cardinality({j \in DOMAIN cart : Ahead(j, i)})]
    IN  IF total = 0 \/ target = 0 THEN [i \in DOMAIN cart |-> 0]
        ELSE [i \in DOMAIN cart |-> IF rank[i] < leftover THEN floor[i] + 1 ELSE floor[i]]
--------------------------------------------------------------------------------
(***************************************************************************)
(* Shipping, tax and advance.                                              *)
(***************************************************************************)
FeeUnder(settings, subtotal) ==
    IF settings.freeAbove # NoThreshold /\ subtotal >= settings.freeAbove THEN 0 ELSE settings.flatFee
ShippingFee(subtotal) == FeeUnder(policy, subtotal)

(* computeLineTaxes of one line, tax-inclusive.                            *)
TaxOf(gross, rate, from) ==
    IF from.registration = "regular" THEN DivHalfUp(gross * rate, 10000 + rate) ELSE 0
TaxedLine_TwoHalves(gross, rate, from, place) ==   \* mutant: both halves rounded up
    LET tax == TaxOf(gross, rate, from)
        half == IF from.state = place THEN DivHalfUp(tax, 2) ELSE 0
    IN  [total |-> gross, rate |-> rate, taxable |-> gross - tax, tax |-> tax,
         cgst |-> half, sgst |-> half, igst |-> IF from.state = place THEN 0 ELSE tax]
TaxedLine(gross, rate, from, place) ==
    LET tax == TaxOf(gross, rate, from)
        central == IF from.state = place THEN DivHalfUp(tax, 2) ELSE 0
    IN  [total |-> gross, rate |-> rate, taxable |-> gross - tax, tax |-> tax,
         cgst |-> central,
         sgst |-> IF from.state = place THEN tax - central ELSE 0,
         igst |-> IF from.state = place THEN 0 ELSE tax]

(* The rate of the first item line of the highest value.                   *)
ShippingRate(cart, gross) ==
    LET Highest == {i \in DOMAIN cart : \A j \in DOMAIN cart : gross[j] <= gross[i]}
    IN  cart[CHOOSE i \in Highest : \A j \in Highest : i <= j].rate

OrderLines(cart, discounts, shipping, from, place) ==
    LET gross == [i \in DOMAIN cart |-> LineTotals(cart)[i] - discounts[i]]
        items == [i \in DOMAIN cart |-> TaxedLine(gross[i], cart[i].rate, from, place)]
    IN  IF shipping > 0
        THEN Append(items, TaxedLine(shipping, ShippingRate(cart, gross), from, place))
        ELSE items

(* computeAdvanceSplit.                                                    *)
SplitRefused(mode) ==
    \/ mode # "prepaid" /\ ~policy.codEnabled
    \/ mode = "cod_advance" /\ policy.advanceBps = NoAdvance
GatewayMinimum == 100
Raised_Never(advance, total) == advance   \* mutant: an advance the gateway refuses
Raised(advance, total) ==
    IF advance > 0 /\ advance < GatewayMinimum THEN Least(GatewayMinimum, total) ELSE advance
ClampedAdvance(total) ==
    Least(Largest((total * policy.advanceBps + 5000) \div 10000, policy.minAdvance), total)
AdvanceOf(total, mode) ==
    CASE mode = "prepaid" -> total
      [] mode = "cod" -> 0
      [] OTHER -> Raised(ClampedAdvance(total), total)
--------------------------------------------------------------------------------
(***************************************************************************)
(* The steps.                                                              *)
(***************************************************************************)
Init ==
    /\ policy \in Policies /\ seller \in Sellers
    /\ request = None /\ order = None /\ confirming = None /\ invoice = None
    /\ edits = 0

(* startCheckout up to TX-A: the cheap refusals on the settings and seller *)
(* it has read.                                                            *)
StartCheckout(cart, offer, mode, place, firstOrder) ==
    /\ request = None /\ order = None
    /\ ~SplitRefused(mode)
    /\ ~ (seller.registration = "regular" /\ seller.state = NoState)
    /\ request' = [cart |-> cart, offer |-> offer, mode |-> mode, place |-> place,
                   firstOrder |-> firstOrder, seller |-> seller]
    /\ UNCHANGED <<policy, seller, order, confirming, invoice, edits>>

(* createOrderTx: the amounts of the order and of its lines.               *)
CreateOrder ==
    /\ request # None /\ order = None
    /\ LET cart == request.cart
           couponed == request.offer # NoOffer
           discount == IF couponed THEN Discount(request.offer, cart) ELSE 0
           discounts == IF couponed THEN LineDiscounts(cart, discount) ELSE [i \in DOMAIN cart |-> 0]
           shipping == IF couponed /\ FreeShipping(request.offer) THEN 0 ELSE ShippingFee(Subtotal(cart))
           total == Subtotal(cart) - discount + shipping
           advance == AdvanceOf(total, request.mode)
           lines == OrderLines(cart, discounts, shipping, request.seller, request.place)
       IN  /\ couponed => Applicable(request.offer, cart, request.firstOrder)
           /\ order' = [lines |-> lines, discounts |-> discounts,
                        subtotal |-> Subtotal(cart), discount |-> discount, shipping |-> shipping,
                        tax |-> Sum([i \in DOMAIN lines |-> lines[i].tax]),
                        total |-> total, advance |-> advance, codDue |-> total - advance]
    /\ UNCHANGED <<policy, seller, request, confirming, invoice, edits>>

(* The confirming request reads the store's identity before its            *)
(* transaction.                                                            *)
ReadSeller ==
    /\ order # None /\ confirming = None
    /\ confirming' = seller
    /\ UNCHANGED <<policy, seller, request, order, invoice, edits>>

DocTypeFor(registration) == IF registration = "regular" THEN "tax_invoice" ELSE "bill_of_supply"
Column(field) == Sum([i \in DOMAIN order.lines |-> order.lines[i][field]])

(* confirmOrderCore and createInvoice: the document is summed from the     *)
(* order's lines; the seller's block is as read now.                       *)
InvoiceRefused(docType) ==
    docType = "bill_of_supply" /\ Column("cgst") + Column("sgst") + Column("igst") # 0
ConfirmOrder ==
    /\ confirming # None /\ invoice = None
    /\ LET docType == DocTypeFor(confirming.registration)
       IN  /\ ~InvoiceRefused(docType)
           /\ invoice' = [docType |-> docType, seller |-> confirming, place |-> request.place,
                          taxable |-> Column("taxable"), cgst |-> Column("cgst"),
                          sgst |-> Column("sgst"), igst |-> Column("igst"), total |-> order.total]
    /\ UNCHANGED <<policy, seller, request, order, confirming, edits>>

(* createInvoice throws and the transaction rolls back.                    *)
ConfirmRefused ==
    /\ confirming # None /\ invoice = None
    /\ InvoiceRefused(DocTypeFor(confirming.registration))
    /\ confirming' = None
    /\ UNCHANGED <<policy, seller, request, order, invoice, edits>>

(* The operator changes the store's tax identity (external: the tenants    *)
(* row has no editor in the code).                                         *)
EditSeller(new) ==
    /\ new # seller /\ edits < MaxEdits
    /\ seller' = new /\ edits' = edits + 1
    /\ UNCHANGED <<policy, request, order, confirming, invoice>>

Next ==
    \/ \E cart \in Carts, offer \in Offers \cup {NoOffer}, mode \in Modes, place \in States,
          first \in BOOLEAN : StartCheckout(cart, offer, mode, place, first)
    \/ CreateOrder
    \/ ReadSeller \/ ConfirmOrder \/ ConfirmRefused
    \/ \E new \in Sellers : EditSeller(new)

Spec == Init /\ [][Next]_vars
--------------------------------------------------------------------------------
(***************************************************************************)
(* Properties.                                                             *)
(***************************************************************************)
(* Nothing is lost between the order and its lines (createOrderTx): the    *)
(* lines' totals are the order's, every line is its base and its tax, the  *)
(* tax is its parts, and the parts are the order's tax.  The document that *)
(* createInvoice sums up again adds up too, whatever the seller has become *)
(* since the order was priced, and a bill of supply carries no tax.        *)
LinesAddUp ==
    /\ order # None =>
        /\ Column("total") = order.total
        /\ order.total = order.subtotal - order.discount + order.shipping
        /\ Column("cgst") + Column("sgst") + Column("igst") = order.tax
        /\ \A i \in DOMAIN order.lines : LET l == order.lines[i] IN
               l.taxable + l.tax = l.total /\ l.cgst + l.sgst + l.igst = l.tax
    /\ invoice # None =>
        /\ invoice.taxable + invoice.cgst + invoice.sgst + invoice.igst = invoice.total
        /\ invoice.docType = "bill_of_supply" => invoice.cgst + invoice.sgst + invoice.igst = 0

(* applyDiscountToLines gives the whole discount away, every line within a *)
(* paisa of its proportional share and never more than the line is worth.  *)
SharesAreProportional == order # None =>
    /\ Sum(order.discounts) = order.discount
    /\ \A i \in DOMAIN order.discounts :
           LET worth == LineTotals(request.cart)[i]
               error == order.discounts[i] * order.subtotal - worth * order.discount
           IN  /\ order.discounts[i] \in 0..worth
               /\ order.subtotal > 0 => error < order.subtotal /\ -error < order.subtotal

(* buyXGetYDiscount is kind to the store: no choice of as many eligible    *)
(* units of the cart would cost less.                                      *)
Gifts(cart, effect, n) ==
    {take \in [Eligible(effect, cart) -> 0..n] :
        (\A i \in DOMAIN take : take[i] <= cart[i].quantity) /\ Sum(take) = n}
GiftsAreCheapest == request # None /\ request.offer # NoOffer =>
    \A k \in DOMAIN request.offer.effects :
        LET e == request.offer.effects[k]
            cart == request.cart
        IN  e.type = "buy_x_get_y" =>
            LET there == Sum([i \in Eligible(e, cart) |-> cart[i].quantity])
                n == Least(there, Batches(e, cart) * e.getQty)
                Worth(take) == Sum([i \in DOMAIN take |-> cart[i].price * take[i]])
            IN  /\ \A take \in Gifts(cart, e, n) : GiftOff(e, cart) <= Worth(take)
                /\ \E take \in Gifts(cart, e, n) : GiftOff(e, cart) = Worth(take)

(* What a coupon takes off is fair to the customer and to the store.       *)
DiscountIsFair == SharesAreProportional /\ GiftsAreCheapest

(* computeLineTaxes: the tax of a line is the nearest paisa to what the    *)
(* rate asks of its gross amount, charged by a registered seller only, and *)
(* goes to the state it is owed to.                                        *)
TaxIsNearest == order # None =>
    LET regular == request.seller.registration = "regular"
        intra == request.seller.state = request.place
    IN  \A i \in DOMAIN order.lines :
            LET l == order.lines[i]
                error == 2 * (l.tax * (10000 + l.rate) - l.total * l.rate)
            IN  /\ regular => error <= 10000 + l.rate /\ -error <= 10000 + l.rate
                /\ ~regular => l.tax = 0
                /\ IF intra THEN l.igst = 0 /\ l.cgst - l.sgst \in {0, 1} ELSE l.cgst + l.sgst = 0

(* What is charged, what is invoiced and what is taxed agree to the paisa. *)
BooksAgree == LinesAddUp /\ TaxIsNearest

(* computeAdvanceSplit: what is asked for online and at the door is the    *)
(* total, and an advance the gateway refuses although the order could give *)
(* it more comes from nothing but a rate that rounds to nothing of this    *)
(* total, in a store without a minimum.                                    *)
AdvanceCollectable == order # None =>
    /\ order.codDue >= 0 /\ order.advance + order.codDue = order.total
    /\ request.mode = "prepaid" => order.codDue = 0
    /\ request.mode = "cod" => order.advance = 0
    /\ request.mode = "cod_advance" /\ order.advance < Least(GatewayMinimum, order.total) =>
          order.advance = 0 /\ policy.minAdvance = 0 /\ order.total * policy.advanceBps < 5000

(* An order that waits for an advance asks the gateway for an amount it    *)
(* takes, or for all there is: "A cod_advance split must never produce an  *)
(* advance the gateway will 400" (payments/index.ts:94-97).                *)
AdvanceIsPayable == order # None /\ request.mode = "cod_advance" =>
    order.advance >= Least(GatewayMinimum, order.total)
================================================================================
