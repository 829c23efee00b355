--------------------------------- MODULE MCShop ---------------------------------
(***************************************************************************)
(* A product's variants under concurrent writers, or under one console     *)
(* form; one image; one buyer's carts; two refunds; four products listed   *)
(* two to a page; two promotions edited in two tabs.  They share no state: *)
(* the run explores one or another of them.                                *)
(***************************************************************************)
EXTENDS ProductForm, Media, Cart, RefundWorker, Listings, PromotionForm

Row(id, sku, price) ==
    [id |-> id, sku |-> sku, price |-> price, options |-> "size" :> sku]
SomePayloads == [l \in Lines |->
    IF l = "mug" THEN {<<Row(NoId, "C", 1)>>}
    ELSE {<<Row(NoId, "A", 1)>>, <<Row(NoId, "A", 1), Row(NoId, "B", 1)>>,
          <<Row(1, "B", 1), Row(2, "A", 1)>>, <<Row(NoId, "B", 1), Row(2, "C", 1)>>,
          <<Row(1, "B", 1), Row(NoId, "A", 1)>>, <<Row(3, "A", 2), Row(2, "B", 1)>>}]
SomeFiles == [l \in Lines |->
    IF l = "mug" THEN {<<Row(NoId, "C", 2)>>}
    ELSE {<<Row(NoId, "A", 2)>>, <<Row(NoId, "C", 1)>>, <<Row(NoId, "B", 1), Row(NoId, "A", 1)>>}]

Axis(name, values) == [name |-> name, values |-> values]
SomeAxes == {Axis("size", <<<<"M">>, <<"S">>, <<"L">>>>), Axis("", <<<<"S">>>>)}
SomeSkus == {"A", "C", "D"}
SomePrices == {"1"}
Shirt == [line |-> "shirt", axes |-> <<Axis("size", <<<<"S">>, <<"M">>>>)>>,
          rows |-> <<[sku |-> "A", price |-> "1", options |-> "size" :> <<"S">>],
                     [sku |-> "B", price |-> "1", options |-> "size" :> <<"M">>]>>]

At(price, active, stocked) == [price |-> price, active |-> active, stocked |-> stocked]
SomeVariants == {<<At(3, TRUE, TRUE), At(2, TRUE, TRUE)>>, <<At(1, FALSE, TRUE)>>}
Good(is, in, variants, published, updated) ==
    [status |-> is, room |-> in, variants |-> variants,
     publishedAt |-> published, updatedAt |-> updated]
TwoPrices == <<At(3, TRUE, TRUE), At(2, TRUE, FALSE)>>
Parents == [r \in Rooms |-> CASE r = 11 -> Outside [] r = 12 -> 11 [] OTHER -> 12]
SomeStores == {
    [g \in Goods |-> CASE g = 1 -> Good("active", 13, TwoPrices, 1, 4)
                       [] g = 3 -> Good("active", 12, <<At(2, FALSE, TRUE)>>, 2, 3)
                       [] g = 4 -> Good("active", 11, <<At(2, TRUE, TRUE)>>, 2, 2)
                       [] OTHER -> Unborn],
    [g \in Goods |-> CASE g = 1 -> Good("archived", 12, TwoPrices, 1, 1)
                       [] g = 2 -> Good("active", 13, TwoPrices, 2, 4)
                       [] g = 4 -> Good("draft", 13, TwoPrices, 0, 3)
                       [] OTHER -> Unborn]}
SomeUpper == "sale" :> "SALE" @@ "SALE" :> "SALE" @@ "NEW" :> "NEW"
Amount(whole, digits) == [whole |-> whole, digits |-> digits]
SomeAmounts == {Amount(10, <<>>), Amount(0, <<0, 5>>), Amount(0, <<0, 0, 5>>), Amount(0, <<>>)}
SomeIds == {<<"a", ",", "b">>, <<",">>}
SomeImports ==
    {[code |-> "SALE", status |-> "active", startsAt |-> 101, endsAt |-> 204, limit |-> 1,
      conditions |-> <<[Rule("cart_subtotal_min") EXCEPT !.amount = 150]>>,
      effects |-> <<[Rule("percent_off") EXCEPT !.amount = 1005, !.cap = 0],
                    [Rule("buy_x_get_y") EXCEPT !.ids = <<"a", "b">>]>>]}

(* The staff's tabs are named like the buyer's.                            *)
Alike == Permutations(Tabs) \cup Permutations(Items)

VARIABLE part     \* which of the nine the behaviour is about
shopVars == <<variantVars, formVars, mediaVars, cartVars, vars, listingVars, promoVars, part>>
InitEither ==
    /\ part \in {"variants", "form", "media", "cart", "refunds", "lists", "download", "crawl",
                "promotions"}
    /\ IF part = "form" THEN FormInit ELSE VariantsInit /\ FormClosed
    /\ MediaInit /\ CartInit /\ Init /\ ListingsInit /\ PromotionsInit
    /\ part \notin {"lists", "download", "crawl"} => good[1].status = "active"
(* In "cart" only the second cart gets a coupon.                           *)
(* After two saves of promotions only one of the tabs is still at work, or *)
(* one field was edited at most.                                           *)
OneAtWork == Len(trail) >= 2 => edits <= 1 \/ \E d \in Desks : desk[d] = Away
SpecEither ==
    /\ InitEither
    /\ [][ \/ /\ part = "variants" /\ VariantsNext
              /\ UNCHANGED <<formVars, mediaVars, cartVars, vars, listingVars, promoVars, part>>
           \/ /\ part = "form" /\ FormNext
              /\ UNCHANGED <<mediaVars, cartVars, vars, listingVars, promoVars, part>>
           \/ /\ part = "media" /\ MediaNext
              /\ UNCHANGED <<variantVars, formVars, cartVars, vars, listingVars, promoVars, part>>
           \/ /\ part = "cart" /\ CartNext /\ coupon'[1] = NoCoupon
              /\ UNCHANGED <<variantVars, formVars, mediaVars, vars, listingVars, promoVars, part>>
           \/ /\ part = "refunds" /\ Next
              /\ UNCHANGED <<variantVars, formVars, mediaVars, cartVars, listingVars, promoVars, part>>
           \/ /\ \/ part = "lists" /\ UNCHANGED <<export, crawl>>
                 \/ part = "download" /\ UNCHANGED <<walk, opened, crawl>>
                 \/ part = "crawl" /\ UNCHANGED <<walk, opened, export>>
              /\ ListingsNext
              /\ UNCHANGED <<variantVars, formVars, mediaVars, cartVars, vars, promoVars, part>>
           \/ /\ part = "promotions" /\ PromotionsNext /\ OneAtWork'
              /\ UNCHANGED <<variantVars, formVars, mediaVars, cartVars, vars, listingVars, part>>
         ]_shopVars
================================================================================
