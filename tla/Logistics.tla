-------------------------------- MODULE Logistics --------------------------------
(***************************************************************************)
(* The fulfilment layer's decisions: what a carrier bills for a parcel     *)
(* (logistics/weight.ts), which carrier gets it (selection.ts), and which  *)
(* of its events are believed (status.ts, types.ts).                       *)
(*                                                                         *)
(* The functions are pure; the steps below are the life of one shipment    *)
(* that consults them: it is weighed, quoted, given to a carrier, and then *)
(* tracked by events that arrive late, twice, or in the wrong order.       *)
(***************************************************************************)
EXTENDS Integers, Sequences, FiniteSets

CONSTANTS
    Parcels,          \* [dead, length, width, height, slab], grams and millimetres
    Divisor,          \* the carrier's volumetric divisor, cm3 per kg
    QuoteLists,       \* sequences of [carrier, total, days, cod, success], carriers by name
    NoHistory,        \* performanceScore unset
    RuleSets,         \* [strategy, preferred, excluded, maxDays, maxFreight, minSuccess, dayValue]
    NoParcel,
    RawTexts,         \* what carriers send: [mapped, words]
    Unmapped,         \* the carrier's map does not know the text
    Tier, Unlisted    \* 1_000_000 and 9_999 in scoreQuote

ASSUME LogisticsAssumption ==
    /\ Divisor \in Nat \ {0} /\ Tier \in Nat /\ Unlisted \in Nat
    /\ \A p \in Parcels : {p.dead, p.length, p.width, p.height, p.slab} \subseteq Nat
    /\ \A list \in QuoteLists : \A i \in DOMAIN list : list[i].total \in 0..(Tier - 1)

VARIABLES
    parcel,           \* the parcel, or NoParcel
    volumetric,       \* its volumetric weight as computed
    quotes, rules, cod,   \* what selectCarrier is asked
    chosen,           \* the place of its choice in quotes; 0 is null
    shipment,         \* the shipment's status
    entered           \* the statuses it entered since its last hold

parcelVars == <<parcel, volumetric, quotes, rules, cod, chosen, shipment, entered>>
--------------------------------------------------------------------------------
(***************************************************************************)
(* Billable weight.                                                        *)
(***************************************************************************)
CeilDiv(n, d) == (n + d - 1) \div d

(* (L x W x H in cm) / divisor as kg, in grams.  The division is one of    *)
(* floating point numbers: a quotient that is a whole number of grams may  *)
(* come out a little above it, and is then rounded up to the next.         *)
VolumetricWeights(p) ==
    LET volume == p.length * p.width * p.height
        grams == CeilDiv(volume, Divisor)
    IN  {grams} \cup {g \in {grams + 1} : volume % Divisor = 0 /\ volume > 0}

ApplySlab(grams, slab) ==
    IF slab = 0 THEN grams ELSE CeilDiv(grams, slab) * slab
Billable == ApplySlab(IF volumetric > parcel.dead THEN volumetric ELSE parcel.dead, parcel.slab)
--------------------------------------------------------------------------------
(***************************************************************************)
(* Carrier selection.                                                      *)
(***************************************************************************)
Position(carrier) ==
    LET At == {i \in DOMAIN rules.preferred : rules.preferred[i] = carrier}
    IN  IF At = {} THEN Unlisted ELSE (CHOOSE i \in At : \A j \in At : i <= j) - 1

Rejected(q) ==
    \/ cod /\ ~q.cod
    \/ q.carrier \in rules.excluded
    \/ q.days > rules.maxDays
    \/ q.total > rules.maxFreight
    \/ q.success # NoHistory /\ q.success < rules.minSuccess

(* The failure rate of a carrier, 10 percent without history, times what   *)
(* a return costs: twice the freight.  Percent, rounded.                   *)
RiskCost(q) ==
    LET success == IF q.success = NoHistory THEN 90 ELSE q.success
    IN  ((100 - success) * 2 * q.total + 50) \div 100
Score(q) ==
    CASE rules.strategy = "cheapest" -> q.total
      [] rules.strategy = "fastest" -> q.days * Tier + q.total
      [] rules.strategy = "preferred" -> Position(q.carrier) * Tier + q.total
      [] rules.strategy = "balanced" -> q.total + q.days * rules.dayValue + RiskCost(q)

(* The comparison of the sort in selectCarrier.                            *)
Outranks_ScoreOnly(q, r) ==            \* mutant: no tie-break
    Score(q) < Score(r)
Outranks(q, r) ==
    \/ Score(q) < Score(r)
    \/ /\ Score(q) = Score(r)
       /\ \/ Position(q.carrier) < Position(r.carrier)
          \/ Position(q.carrier) = Position(r.carrier) /\ q.carrier < r.carrier

(* The first of a stable sort of the quotes that are not rejected.         *)
SelectCarrier(list) ==
    LET eligible == {i \in DOMAIN list : ~Rejected(list[i])}
    IN  IF eligible = {} THEN 0
        ELSE CHOOSE i \in eligible : \A j \in eligible \ {i} :
                \/ Outranks(list[i], list[j])
                \/ ~Outranks(list[j], list[i]) /\ i < j
--------------------------------------------------------------------------------
(***************************************************************************)
(* Status events.                                                          *)
(***************************************************************************)
Rank == [created |-> 0, manifested |-> 10, pickup_scheduled |-> 20, pickup_failed |-> 25,
         picked_up |-> 30, in_transit |-> 40, on_hold |-> 45, reached_destination_hub |-> 50,
         out_for_delivery |-> 60, delivery_failed |-> 65, rto_initiated |-> 70,
         rto_in_transit |-> 80, damaged |-> 90, delivered |-> 100, rto_delivered |-> 100,
         cancelled |-> 100, lost |-> 100]
Statuses == DOMAIN Rank
Terminal == {"delivered", "rto_delivered", "cancelled", "lost"}

(* translateStatus: a text is the set of the needles it contains.  The     *)
(* first rule with one of "any" (and, where there are some, one of "and")  *)
(* tells the status.                                                       *)
Rule(any, and, means) == [any |-> any, and |-> and, means |-> means]
Keywords == <<
    Rule({"rto_deliver", "rto_complete", "rto_received", "return_received"}, {}, "rto_delivered"),
    Rule({"rto", "return_to_origin", "returned_to_origin", "return_to_shipper"}, {}, "rto_initiated"),
    Rule({"lost", "untraceable"}, {}, "lost"),
    Rule({"damage"}, {}, "damaged"),
    Rule({"cancel"}, {}, "cancelled"),
    Rule({"deliver"}, {"fail", "unsuccess", "attempt", "undeliver", "ndr"}, "delivery_failed"),
    Rule({"delivered"}, {}, "delivered"),
    Rule({"out_for_delivery", "ofd"}, {}, "out_for_delivery"),
    Rule({"destination", "reached_hub", "arrived_at_destination"}, {}, "reached_destination_hub"),
    Rule({"in_transit", "shipped", "dispatch", "bagged", "intransit"}, {}, "in_transit"),
    Rule({"picked", "pickup_done", "collected"}, {}, "picked_up"),
    Rule({"pickup"}, {"fail", "cancel", "exception"}, "pickup_failed"),
    Rule({"pickup", "pick_up"}, {}, "pickup_scheduled"),
    Rule({"manifest", "awb_assigned", "label"}, {}, "manifested"),
    Rule({"hold", "exception", "delay"}, {}, "on_hold") >>
TranslateStatus(raw) ==
    LET Matching == {i \in DOMAIN Keywords :
                        /\ Keywords[i].any \cap raw.words # {}
                        /\ Keywords[i].and = {} \/ Keywords[i].and \cap raw.words # {}}
    IN  IF raw.mapped # Unmapped THEN raw.mapped
        ELSE IF Matching = {} THEN "on_hold"
        ELSE Keywords[CHOOSE i \in Matching : \A j \in Matching : i <= j].means

(* The statuses an event may walk back from.                               *)
OnTheRoad == {"in_transit", "reached_destination_hub", "out_for_delivery"}
MayFollow(incoming) ==
    CASE incoming = "delivery_failed" -> OnTheRoad
      [] incoming = "on_hold" -> OnTheRoad \cup {"picked_up"}
      [] incoming = "rto_initiated" -> OnTheRoad \cup {"delivery_failed", "on_hold"}
      [] incoming = "rto_in_transit" -> {"rto_initiated"}
      [] incoming = "pickup_failed" -> {"pickup_scheduled", "manifested"}
      [] incoming = "damaged" -> OnTheRoad \cup {"picked_up"}
      [] incoming = "lost" -> OnTheRoad \cup {"picked_up", "on_hold"}
      [] incoming = "cancelled" -> {"created", "manifested", "pickup_scheduled", "pickup_failed"}
      [] OTHER -> {}
IsStatusRegression_ByRank(current, incoming) ==   \* mutant: any later rank is believed
    current \notin MayFollow(incoming) /\ Rank[incoming] < Rank[current]
IsStatusRegression(current, incoming) ==
    \/ current = incoming
    \/ current \in Terminal
    \/ current \notin MayFollow(incoming) /\ Rank[incoming] <= Rank[current]

FulfilmentStatus(s) ==
    CASE s \in {"created", "manifested", "pickup_scheduled", "pickup_failed"} -> "ready_to_ship"
      [] s \in {"picked_up", "in_transit", "reached_destination_hub", "on_hold"} -> "shipped"
      [] s \in {"out_for_delivery", "delivery_failed"} -> "out_for_delivery"
      [] s \in {"rto_initiated", "rto_in_transit"} -> "rto_initiated"
      [] s \in {"lost", "damaged"} -> "exception"
      [] OTHER -> s
--------------------------------------------------------------------------------
(***************************************************************************)
(* The life of a shipment.                                                 *)
(***************************************************************************)
ParcelInit ==
    /\ parcel = NoParcel /\ volumetric = 0
    /\ quotes = <<>> /\ rules = NoParcel /\ cod = FALSE /\ chosen = 0
    /\ shipment = "created" /\ entered = {"created"}

Weigh(p) ==
    /\ parcel = NoParcel
    /\ parcel' = p /\ volumetric' \in VolumetricWeights(p)
    /\ UNCHANGED <<quotes, rules, cod, chosen, shipment, entered>>

Quote(list, some, onDelivery) ==
    /\ parcel # NoParcel /\ quotes = <<>>
    /\ quotes' = list /\ rules' = some /\ cod' = onDelivery
    /\ UNCHANGED <<parcel, volumetric, chosen, shipment, entered>>

Choose ==
    /\ quotes # <<>> /\ chosen = 0 /\ SelectCarrier(quotes) # 0
    /\ chosen' = SelectCarrier(quotes)
    /\ UNCHANGED <<parcel, volumetric, quotes, rules, cod, shipment, entered>>

(* An event of the carrier: dropped as stale, or the shipment's status.    *)
Track(raw) ==
    LET incoming == TranslateStatus(raw)
    IN  /\ chosen # 0 /\ ~IsStatusRegression(shipment, incoming)
        /\ shipment' = incoming
        /\ entered' = IF incoming = "on_hold" THEN {"on_hold"} ELSE entered \cup {incoming}
        /\ UNCHANGED <<parcel, volumetric, quotes, rules, cod, chosen>>

ParcelNext ==
    \/ \E p \in Parcels : Weigh(p)
    \/ \E list \in QuoteLists, some \in RuleSets, onDelivery \in BOOLEAN : Quote(list, some, onDelivery)
    \/ Choose
    \/ \E raw \in RawTexts : Track(raw)

ParcelSpec == ParcelInit /\ [][ParcelNext]_parcelVars
--------------------------------------------------------------------------------
(***************************************************************************)
(* Properties.                                                             *)
(***************************************************************************)

(* computeBillableWeight: whole slabs that cover what the parcel weighs    *)
(* and the room it takes, and not a slab more, the gram of the floating    *)
(* division aside.                                                         *)
BillsTheSlab == parcel # NoParcel =>
    LET room == CeilDiv(parcel.length * parcel.width * parcel.height, Divisor)
    IN  /\ parcel.slab > 0 => Billable % parcel.slab = 0
        /\ Billable >= parcel.dead /\ Billable >= room
        /\ LET less == Billable - (IF parcel.slab = 0 THEN 1 ELSE parcel.slab)
           IN  less < parcel.dead \/ less < room + 1

(* selectCarrier: the choice obeys the merchant's rules, does what the     *)
(* strategy says, and is the same whatever order the quotes arrived in, as *)
(* the comment on the tie-break wants.                                     *)
Orderings(n) == {f \in [1..n -> 1..n] : \A i, j \in 1..n : i # j => f[i] # f[j]}
ChoiceIsSettled == chosen # 0 =>
    LET best == quotes[chosen]
        Allowed == {q \in {quotes[i] : i \in DOMAIN quotes} : ~Rejected(q)}
    IN  /\ best \in Allowed
        /\ \A f \in Orderings(Len(quotes)) :
               LET list == [i \in DOMAIN quotes |-> quotes[f[i]]]
               IN  list[SelectCarrier(list)] = best
        /\ \A q \in Allowed :
               /\ rules.strategy = "cheapest" => best.total <= q.total
               /\ rules.strategy = "fastest" => best.days <= q.days
               /\ rules.strategy = "preferred" => Position(best.carrier) <= Position(q.carrier)

(* What the parcel is quoted for is what it weighs, and the carrier that   *)
(* gets it is the one the rules ask for.                                   *)
QuoteIsSettled == BillsTheSlab /\ ChoiceIsSettled

(* isStatusRegression: terminal statuses are final, a parcel on its way    *)
(* back is never shown on its way out, and between two holds no status is  *)
(* entered twice, so that a delayed or repeated event changes nothing.     *)
EventsOnlyAdvance == [][shipment' # shipment =>
    /\ shipment \notin Terminal
    /\ FulfilmentStatus(shipment) = "rto_initiated" =>
           FulfilmentStatus(shipment') \notin {"ready_to_ship", "shipped", "out_for_delivery"}
    /\ shipment' \in entered => shipment' = "on_hold"]_parcelVars
================================================================================
