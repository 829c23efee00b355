-------------------------------- MODULE MCPricing --------------------------------
(***************************************************************************)
(* Small carts, coupons, settings and sellers for Pricing; parcels,        *)
(* bids, rules and texts for Logistics; three attempts of two customers,   *)
(* two of them on one cart, for Settlement; two variants, a coupon and two *)
(* edits for Quote, which shares the settings with Pricing; three accounts *)
(* of two providers for GatewayAccounts.  The run explores one or another  *)
(* of Parts.                                                               *)
(***************************************************************************)
EXTENDS Quote, Logistics, Settlement, GatewayAccounts

CONSTANTS o1, o2, o3, c1, c2, k1, k2
CONSTANT Parts            \* which of the five the run explores

Interchangeable == Permutations(Procs) \cup Permutations(Starts)
SharedCart == [o \in Orders |-> IF o = o3 THEN c2 ELSE c1]
TwoBuyers == [o \in Orders |-> IF o = o2 THEN k2 ELSE k1]

Item(v, price, quantity, rate) ==
    [variant |-> v, product |-> v, category |-> v % 2, price |-> price,
     quantity |-> quantity, rate |-> rate]
LinesOf(v) ==
    CASE v = 1 -> {Item(1, 33, 1, 1800), Item(1, 100, 2, 500)}
      [] v = 2 -> {Item(2, 1, 1, 500), Item(2, 67, 3, 2800)}
      [] v = 3 -> {Item(3, 33, 2, 0), Item(3, 0, 1, 1800)}
SomeCarts ==
    {<<a>> : a \in LinesOf(1) \cup LinesOf(2)}
      \cup {<<b, a>> : a \in LinesOf(1), b \in LinesOf(2)}
      \cup {<<c, b, a>> : a \in LinesOf(1), b \in LinesOf(2), c \in LinesOf(3)}
      \cup {<<c>> : c \in LinesOf(3)}

Offer(conditions, effects) == [conditions |-> conditions, effects |-> effects, open |-> TRUE]
Flat(paise) == [type |-> "flat_off", paise |-> paise]
Percent(bps, cap) == [type |-> "percent_off", bps |-> bps, cap |-> cap]
Gift(buy, get, variants) ==
    [type |-> "buy_x_get_y", buyQty |-> buy, getQty |-> get, getVariants |-> variants]
FreeDelivery == [type |-> "free_shipping"]
SomeOffers == {
    Offer({}, <<Flat(50)>>),
    Offer({}, <<Flat(1000)>>),
    Offer({[type |-> "cart_subtotal_min", paise |-> 100]}, <<Percent(3333, NoCap), Flat(1)>>),
    Offer({[type |-> "first_order"]}, <<Percent(10000, 95), FreeDelivery>>),
    Offer({[type |-> "contains_product", ids |-> {2}]}, <<Gift(2, 1, {1, 2})>>),
    Offer({[type |-> "contains_category", ids |-> {1}]}, <<Gift(1, 2, {2, 3})>>),
    Offer({[type |-> "channel", channels |-> {"web"}]}, <<Percent(10000, NoCap), FreeDelivery>>),
    Offer({[type |-> "customer_segment"]}, <<Flat(9)>>),
    [Offer({}, <<Flat(50)>>) EXCEPT !.open = FALSE]}

Settings(flatFee, freeAbove, advanceBps, minAdvance) ==
    [flatFee |-> flatFee, freeAbove |-> freeAbove, codEnabled |-> TRUE,
     advanceBps |-> advanceBps, minAdvance |-> minAdvance]
SomePolicies == {
    Settings(49, 250, 2000, 0),
    Settings(0, NoThreshold, 9999, 150),
    Settings(0, NoThreshold, 0, 0),
    [Settings(7, 100, NoAdvance, 0) EXCEPT !.codEnabled = FALSE]}
SomeSellers == {
    [registration |-> "regular", state |-> "27"],
    [registration |-> "unregistered", state |-> NoState],
    [registration |-> "regular", state |-> NoState]}

Box(dead, length, width, height, slab) ==
    [dead |-> dead, length |-> length, width |-> width, height |-> height, slab |-> slab]
SomeParcels == {
    Box(499, 100, 100, 100, 500), Box(200, 300, 200, 101, 500),
    Box(200, 250, 200, 50, 500), Box(501, 10, 10, 11, 0)}
Bid(carrier, total, days, onDelivery, success) ==
    [carrier |-> carrier, total |-> total, days |-> days, cod |-> onDelivery, success |-> success]
SomeQuotes == {
    <<Bid(1, 60, 3, TRUE, 80), Bid(2, 60, 3, TRUE, 80), Bid(3, 50, 5, FALSE, NoHistory)>>,
    <<Bid(2, 40, 4, TRUE, 99), Bid(1, 90, 2, TRUE, NoHistory), Bid(4, 90, 2, FALSE, 60)>>,
    <<Bid(3, 70, 9, TRUE, 90)>>,
    <<Bid(4, 55, 2, FALSE, 95), Bid(2, 54, 3, TRUE, 95)>>}
Shop(strategy, preferred, excluded, maxDays, minSuccess) ==
    [strategy |-> strategy, preferred |-> preferred, excluded |-> excluded, maxDays |-> maxDays,
     maxFreight |-> 80, minSuccess |-> minSuccess, dayValue |-> 15]
SomeRules == {
    Shop("cheapest", <<>>, {}, 9, 0), Shop("fastest", <<2>>, {}, 9, 0),
    Shop("preferred", <<3, 2>>, {4}, 9, 0), Shop("balanced", <<>>, {1}, 9, 70),
    Shop("balanced", <<2, 1>>, {}, 4, 0)}

Known(s) == [mapped |-> s, words |-> {}]
Text(words) == [mapped |-> Unmapped, words |-> words]
SomeTexts == {Known(s) : s \in Statuses \ {"created"}} \cup {
    Text({"rto", "rto_deliver", "deliver", "delivered"}), Text({"rto", "deliver", "delivered", "fail"}),
    Text({"deliver", "delivered", "attempt"}), Text({"pickup", "cancel"}), Text({"pickup", "exception"}), Text({})}

NoTags == Item(0, 0, 0, 500)
Tags == [v \in {1, 2} |-> [NoTags EXCEPT !.variant = v, !.product = v, !.category = v % 2]]
SomeCodes == [c \in {"SAVE"} |-> {
    NoOffer,
    Offer({[type |-> "cart_subtotal_min", paise |-> 100]}, <<Percent(3333, NoCap)>>),
    Offer({[type |-> "first_order"]}, <<Flat(45), FreeDelivery>>),
    Offer({[type |-> "contains_product", ids |-> {2}]}, <<Gift(2, 1, {1, 2})>>)}]

SomeProviders ==
    "c1" :> "razorpay" @@ "c2" :> "mock"
    @@ "k1" :> "razorpay" @@ "k2" :> "razorpay" @@ "k3" :> "mock"

OneStore == policy = Settings(49, 250, 2000, 0) /\ seller.state = "27"
(* Which carrier was chosen for what does not matter to the tracking.      *)
OneTracked == shipment' # shipment =>
    parcel.slab = 0 /\ Len(quotes) = 1 /\ rules.strategy = "cheapest" /\ ~cod
OneBasket ==
    /\ \A v \in Wares : basket.quantity[v] = 2
    /\ basket.coupon # None /\ \A c \in Codes : offers[c] = NoOffer
    /\ \A v, w \in Wares : shelf[v].price = shelf[w].price /\ shelf[v].price > 100
(* By the last save of the accounts only one gateway order has been made.  *)
OneMinted == saves = MaxSaves => \A r \in References \ {1} : minted[r] = Unminted
VARIABLE part     \* which of them the behaviour is about
InitEither ==
    /\ part \in Parts
    /\ Init /\ ParcelInit /\ SettlementInit /\ QuoteInit /\ GatewaysInit
    /\ part # "prices" => seller = [registration |-> "regular", state |-> "27"]
    /\ part \notin {"prices", "quotes"} => OneStore
    /\ part # "quotes" => OneBasket
SpecEither ==
    /\ InitEither
    /\ [][ \/ /\ part = "prices" /\ Next
              /\ UNCHANGED <<quoteVars, parcelVars, settlementVars, gatewayVars, part>>
           \/ /\ part = "quotes" /\ QuoteNext
              /\ UNCHANGED <<seller, request, order, confirming, invoice, edits>>
              /\ UNCHANGED <<parcelVars, settlementVars, gatewayVars, part>>
           \/ /\ part = "parcels" /\ ParcelNext /\ OneTracked
              /\ UNCHANGED <<vars, quoteVars, settlementVars, gatewayVars, part>>
           \/ /\ part = "orders" /\ SettlementNext
              /\ UNCHANGED <<vars, quoteVars, parcelVars, gatewayVars, part>>
           \/ /\ part = "gateways" /\ GatewaysNext /\ OneMinted'
              /\ UNCHANGED <<vars, quoteVars, parcelVars, settlementVars, part>>
         ]_<<vars, quoteVars, parcelVars, settlementVars, gatewayVars, part>>
================================================================================
