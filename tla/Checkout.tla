-------------------------------- MODULE Checkout --------------------------------
(***************************************************************************)
(* packages/core/src/checkout/server.ts: from a cart to a paid or a given  *)
(* up order.  One action is one database transaction, or the one vendor    *)
(* call; between the transactions of a request or of a webhook delivery    *)
(* anything else may happen, and the process may die.                      *)
(*                                                                         *)
(* Stock is StockPromise, which Inventory implements.  Time is what ends a *)
(* hold (Lapse) or passes an order's expires_at (TimeOut), in any order:   *)
(* both are refreshed by a replay, in two transactions.                    *)
(***************************************************************************)
EXTENDS OrderLifecycle, Integers, FiniteSets

CONSTANTS
    Orders,          \* checkout attempts: one idempotency key, one order at most
    Carts, Variants,
    GatewayRefs,     \* ids the payment gateway may mint for its orders
    Requests, Hooks, \* threads serving checkout requests and webhook deliveries
    NoOrder, NoRef,
    CartOf,          \* CartOf[o]: the cart the attempt checks out
    LinesOf,         \* LinesOf[o][v]: its stock-tracked lines
    Mode,            \* Mode[o]: "prepaid", "cod" or "cod_advance"
    Total, Advance,  \* what it costs, and how much of that is paid up front
    Coupons,         \* the attempts with a coupon that may run out meanwhile
    Stock,           \* units on the shelf at the start
    DatabaseErrors,  \* whether a consume's statement may fail for no reason of stock
    MaxReplays, MaxCrashes  \* bounds: replayed requests, killed processes

(* computeAdvanceSplit: a prepaid order pays its total up front, a COD     *)
(* order nothing.                                                          *)
ASSUME AttemptsAreWellFormed ==
    /\ CartOf \in [Orders -> Carts]
    /\ LinesOf \in [Orders -> [Variants -> Nat]]
    /\ Mode \in [Orders -> {"prepaid", "cod", "cod_advance"}]
    /\ Total \in [Orders -> Nat] /\ Advance \in [Orders -> Nat]
    /\ \A o \in Orders : /\ Advance[o] <= Total[o]
                         /\ Mode[o] = "prepaid" => Advance[o] = Total[o]
                         /\ Mode[o] = "cod" => Advance[o] = 0
    /\ Coupons \subseteq Orders
ASSUME StockIsNatural == Stock \in [Variants -> Nat]
ASSUME BoundsAreNaturals ==
    MaxReplays \in Nat /\ MaxCrashes \in Nat /\ DatabaseErrors \in BOOLEAN
ASSUME NullsAreFresh == NoOrder \notin Orders /\ NoRef \notin GatewayRefs

VARIABLES
    status,          \* orders.status; "none" before the order exists
    paymentStatus,   \* orders.payment_status
    amountPaid,      \* orders.amount_paid_paise
    gatewayOrderRef, \* orders.gateway_order_ref
    expired,         \* orders.expires_at has passed
    cart,            \* carts.status
    payment,         \* payment[g]: status of the payments row for gateway order g
    refund,          \* refund[g]: status of the refunds row for that payment
    onHand, promised,\* the stock (see StockPromise)
    request,         \* request[s]: where thread s is in a checkout request
    hook,            \* hook[h]: the gateway order whose oversold cancel h still owes
    releases,        \* orders whose hold release is still to run
    minted,          \* minted[g]: the order the gateway minted g for
    shown,           \* gateway orders a buyer has been handed
    paid,            \* paid[g]: what the buyer paid the gateway
    acked,           \* captures the gateway got a 2xx for
    replays, crashes \* how much of the bounds is used

orderVars == <<status, paymentStatus, amountPaid, gatewayOrderRef, expired, cart>>
moneyVars == <<payment, refund>>
stockVars == <<onHand, promised>>
gatewayVars == <<minted, paid, acked>>
boundVars == <<replays, crashes>>
vars == <<orderVars, moneyVars, stockVars, request, hook, releases, shown, gatewayVars, boundVars>>

Shelf == INSTANCE StockPromise WITH Refs <- Orders, Quantities <- {}

RequestStep == {"idle", "hold", "rehold", "extend", "confirm", "reconfirm",
                "stored", "mint", "store", "cancel"}

RequestState == [at: RequestStep, order: Orders \cup {NoOrder}, ref: GatewayRefs \cup {NoRef}]
Idle == [at |-> "idle", order |-> NoOrder, ref |-> NoRef]

TypeOK ==
    /\ status \in [Orders -> OrderStatus \cup {"none"}]
    /\ paymentStatus \in [Orders ->
         {"pending", "paid", "partially_paid", "refund_initiated", "refunded"}]
    /\ amountPaid \in [Orders -> Nat]
    /\ gatewayOrderRef \in [Orders -> GatewayRefs \cup {NoRef}]
    /\ expired \in [Orders -> BOOLEAN]
    /\ cart \in [Carts -> {"active", "converted"}]
    /\ payment \in [GatewayRefs -> {"none", "created", "failed", "captured"}]
    /\ refund \in [GatewayRefs -> {"none", "pending", "processed"}]
    /\ onHand \in [Variants -> Nat]
    /\ promised \in [Orders -> [Variants -> Nat]]
    /\ request \in [Requests -> RequestState]
    /\ hook \in [Hooks -> GatewayRefs \cup {NoRef}]
    /\ releases \in SUBSET Orders
    /\ minted \in [GatewayRefs -> Orders \cup {NoOrder}]
    /\ shown \in SUBSET GatewayRefs /\ acked \in SUBSET GatewayRefs
    /\ paid \in [GatewayRefs -> {"nothing", "in_full", "another_amount"}]
    /\ replays \in 0..MaxReplays /\ crashes \in 0..MaxCrashes

Init ==
    /\ status = [o \in Orders |-> "none"]
    /\ paymentStatus = [o \in Orders |-> "pending"]
    /\ amountPaid = [o \in Orders |-> 0]
    /\ gatewayOrderRef = [o \in Orders |-> NoRef]
    /\ expired = [o \in Orders |-> FALSE]
    /\ cart = [c \in Carts |-> "active"]
    /\ payment = [g \in GatewayRefs |-> "none"]
    /\ refund = [g \in GatewayRefs |-> "none"]
    /\ onHand = Stock
    /\ promised = [o \in Orders |-> [v \in Variants |-> 0]]
    /\ request = [s \in Requests |-> Idle]
    /\ hook = [h \in Hooks |-> NoRef]
    /\ releases = {}
    /\ minted = [g \in GatewayRefs |-> NoOrder]
    /\ shown = {} /\ acked = {}
    /\ paid = [g \in GatewayRefs |-> "nothing"]
    /\ replays = 0 /\ crashes = 0
--------------------------------------------------------------------------------
(* The pieces handlers share.                                              *)

Pending(o) == status[o] = "pending_payment"
UsesGateway(o) == Mode[o] # "cod" /\ Total[o] > 0

(* transitionOrder: the table's edges only; confirming clears expires_at.  *)
Transition(o, to) ==
    /\ CanTransition(status[o], to)
    /\ status' = [status EXCEPT ![o] = to]
    /\ expired' = [expired EXCEPT ![o] = @ /\ to # "confirmed"]

(* A pending order given up hands its cart back to the buyer.              *)
GiveUp(o, to) ==
    /\ Pending(o)
    /\ Transition(o, to)
    /\ cart' = [cart EXCEPT ![CartOf[o]] = "active"]

(* What a call to holdStock or consumeStockWithin would be answered.       *)
HoldFits(o) == Shelf!Covers(onHand, Shelf!Give(o, LinesOf[o]))
SaleFits(o) == Shelf!Covers([v \in Variants |-> onHand[v] - LinesOf[o][v]],
                            Shelf!Give(o, [v \in Variants |-> 0]))

(* isStockFailure: consumeStockWithin reports any failed statement of its  *)
(* movement as a ConsumeShortfallError.                                    *)
StockFails(o) == DatabaseErrors \/ ~SaleFits(o)

(* confirmOrderCore.                                                       *)
ConfirmOrder_Blind(o) ==               \* mutant: the sale does not look at the shelf
    /\ Pending(o)
    /\ onHand' = [v \in Variants |-> onHand[v] - LinesOf[o][v]]
    /\ promised' = Shelf!Give(o, Shelf!NoLines)
    /\ Transition(o, "confirmed")
    /\ UNCHANGED cart
ConfirmOrder(o) ==
    /\ Pending(o)
    /\ Shelf!Sell(o, LinesOf[o])
    /\ Transition(o, "confirmed")
    /\ UNCHANGED cart

(* markPaymentCaptured and the order's amount, in the caller's transaction.*)
Capture(o, g) ==
    /\ payment' = [payment EXCEPT ![g] = "captured"]
    /\ amountPaid' = [amountPaid EXCEPT ![o] = @ + Advance[o]]

(* createRefundIntent: inserted once per payment.                          *)
RefundIntent_ByJob(g) == UNCHANGED refund   \* mutant: the row is left to the queue
RefundIntent(g) == refund' = [refund EXCEPT ![g] = IF @ = "none" THEN "pending" ELSE @]

PaymentStatus(o, s) == paymentStatus' = [paymentStatus EXCEPT ![o] = s]

At(s, step) == request[s].at = step
Step(s, step) == request' = [request EXCEPT ![s].at = step]
Answer(s) == request' = [request EXCEPT ![s] = Idle]
Owed(o) == releases' = releases \cup {o}
--------------------------------------------------------------------------------
(* A checkout request.                                                     *)

(* The cart row is locked and must be active; the belt index               *)
(* orders_tenant_cart_pending_key refuses a second pending claim.          *)
CartFree_BeltOnly(c) ==                \* mutant: only the index guards the cart
    \A o \in Orders : CartOf[o] = c => ~Pending(o)
CartFree(c) ==
    /\ cart[c] = "active"
    /\ \A o \in Orders : CartOf[o] = c => ~Pending(o)

(* TX-A: the order is placed and claims its cart.                          *)
Start(s, o) ==
    /\ At(s, "idle") /\ status[o] = "none"
    /\ CartFree(CartOf[o])
    /\ status' = [status EXCEPT ![o] = "pending_payment"]
    /\ cart' = [cart EXCEPT ![CartOf[o]] = "converted"]
    /\ request' = [request EXCEPT ![s] = [at |-> "hold", order |-> o, ref |-> NoRef]]
    /\ UNCHANGED <<paymentStatus, amountPaid, gatewayOrderRef, expired, moneyVars,
                   stockVars, hook, releases, shown, gatewayVars, boundVars>>

(* The same key again: the unlocked look-up finds the order still pending. *)
Replay(s, o) ==
    /\ At(s, "idle") /\ Pending(o)
    /\ replays < MaxReplays
    /\ replays' = replays + 1
    /\ request' = [request EXCEPT ![s] = [at |-> "rehold", order |-> o, ref |-> NoRef]]
    /\ UNCHANGED <<orderVars, moneyVars, stockVars, hook, releases, shown, gatewayVars, crashes>>

(* TX-B.  A gateway order of a store without an enabled account is given up.*)
Hold(s) == LET o == request[s].order IN
    /\ \/ /\ At(s, "hold")
          /\ IF UsesGateway(o) THEN Step(s, "stored") \/ Step(s, "cancel") ELSE Step(s, "confirm")
       \/ At(s, "rehold") /\ Step(s, "extend")
    /\ Shelf!Grant(o, LinesOf[o])
    /\ UNCHANGED <<orderVars, moneyVars, hook, releases, shown, gatewayVars, boundVars>>

HoldRefused(s) ==
    /\ At(s, "hold") \/ At(s, "rehold")
    /\ ~HoldFits(request[s].order)
    /\ Step(s, "cancel")
    /\ UNCHANGED <<orderVars, moneyVars, stockVars, hook, releases, shown, gatewayVars, boundVars>>

(* A replay extends the expiry of the order it finds pending under lock;   *)
(* then it confirms, starts the payment, hands out the stored reference or *)
(* (no account) gives no reference.                                        *)
Extend(s) == LET o == request[s].order  g == gatewayOrderRef[o] IN
    /\ At(s, "extend") /\ Pending(o)
    /\ expired' = [expired EXCEPT ![o] = FALSE]
    /\ \/ ~UsesGateway(o) /\ Step(s, "reconfirm") /\ UNCHANGED shown
       \/ UsesGateway(o) /\ g = NoRef /\ Step(s, "stored") /\ UNCHANGED shown
       \/ UsesGateway(o) /\ g # NoRef /\ Answer(s) /\ shown' = shown \cup {g}
       \/ UsesGateway(o) /\ Answer(s) /\ UNCHANGED shown
    /\ UNCHANGED <<status, paymentStatus, amountPaid, gatewayOrderRef, cart, moneyVars,
                   stockVars, hook, releases, gatewayVars, boundVars>>

(* A replay that lost the race drops the hold it took again.               *)
ExtendTooLate(s) == LET o == request[s].order IN
    /\ At(s, "extend") /\ ~Pending(o)
    /\ Owed(o) /\ Answer(s)
    /\ UNCHANGED <<orderVars, moneyVars, stockVars, hook, shown, gatewayVars, boundVars>>

(* confirmCodOrder, for COD and for zero-total orders.                     *)
ConfirmCod(s) == LET o == request[s].order IN
    /\ At(s, "confirm") \/ At(s, "reconfirm")
    /\ ConfirmOrder(o)
    /\ PaymentStatus(o, IF Total[o] = 0 THEN "paid" ELSE "pending")
    /\ Answer(s)
    /\ UNCHANGED <<amountPaid, gatewayOrderRef, moneyVars, hook, releases, shown,
                   gatewayVars, boundVars>>

ConfirmCodFails(s) == LET o == request[s].order IN
    /\ At(s, "confirm") \/ At(s, "reconfirm")
    /\ Pending(o) /\ (StockFails(o) \/ o \in Coupons)
    /\ Step(s, "cancel")
    /\ UNCHANGED <<orderVars, moneyVars, stockVars, hook, releases, shown, gatewayVars, boundVars>>

ConfirmCodTooLate(s) ==
    /\ At(s, "confirm") \/ At(s, "reconfirm")
    /\ ~Pending(request[s].order)
    /\ Answer(s)
    /\ UNCHANGED <<orderVars, moneyVars, stockVars, hook, releases, shown, gatewayVars, boundVars>>

(* TX-C: no effect on an order that is no longer pending; the hold is      *)
(* released either way and the buyer refused.                              *)
CancelPending(s) == LET o == request[s].order IN
    /\ At(s, "cancel")
    /\ \/ GiveUp(o, "cancelled")
       \/ ~Pending(o) /\ UNCHANGED <<status, expired, cart>>
    /\ Owed(o) /\ Answer(s)
    /\ UNCHANGED <<paymentStatus, amountPaid, gatewayOrderRef, moneyVars, stockVars,
                   hook, shown, gatewayVars, boundVars>>

(* Never mint while a reference is stored: the look under the row lock.    *)
StoredRef(s) == LET g == gatewayOrderRef[request[s].order] IN
    /\ At(s, "stored")
    /\ \/ g = NoRef /\ Step(s, "mint") /\ UNCHANGED shown
       \/ g # NoRef /\ Answer(s) /\ shown' = shown \cup {g}
    /\ UNCHANGED <<orderVars, moneyVars, stockVars, hook, releases, gatewayVars, boundVars>>

(* The vendor call.  A gateway that dedupes on the receipt returns the     *)
(* reference it minted for this order before; another mints a new one.     *)
Mint(s, g) == LET o == request[s].order IN
    /\ At(s, "mint") /\ minted[g] \in {NoOrder, o}
    /\ minted' = [minted EXCEPT ![g] = o]
    /\ request' = [request EXCEPT ![s].at = "store", ![s].ref = g]
    /\ UNCHANGED <<orderVars, moneyVars, stockVars, hook, releases, shown, paid, acked, boundVars>>

(* TX-D: the first writer's reference stays, and is what the buyer gets.   *)
LoserRef_LastWriter(o, g) == FALSE     \* mutant: the minted reference is always stored
LoserRef(o, g) == gatewayOrderRef[o] \notin {NoRef, g}

StoreRef(s) == LET o == request[s].order  g == request[s].ref IN
    /\ At(s, "store") /\ Answer(s)
    /\ IF LoserRef(o, g)
       THEN /\ shown' = shown \cup {gatewayOrderRef[o]}
            /\ UNCHANGED <<gatewayOrderRef, payment>>
       ELSE /\ Advance[o] > 0     \* insertPayment refuses anything else
            /\ gatewayOrderRef' = [gatewayOrderRef EXCEPT ![o] = g]
            /\ payment' = [payment EXCEPT ![g] = IF @ = "none" THEN "created" ELSE @]
            /\ shown' = shown \cup {g}
    /\ UNCHANGED <<status, paymentStatus, amountPaid, expired, cart, refund, stockVars,
                   hook, releases, gatewayVars, boundVars>>

(* The process dies, or a statement fails and the buyer sees a 5xx.        *)
Crash(s) ==
    /\ ~At(s, "idle") /\ crashes < MaxCrashes
    /\ crashes' = crashes + 1
    /\ Answer(s)
    /\ UNCHANGED <<orderVars, moneyVars, stockVars, hook, releases, shown, gatewayVars, replays>>
--------------------------------------------------------------------------------
(* The gateway and its webhook.                                            *)

(* The buyer pays a gateway order that was handed out.                     *)
Pay(g) ==
    /\ g \in shown /\ paid[g] = "nothing"
    /\ \E amount \in {"in_full", "another_amount"} : paid' = [paid EXCEPT ![g] = amount]
    /\ UNCHANGED <<orderVars, moneyVars, stockVars, request, hook, releases, shown,
                   minted, acked, boundVars>>

Ack(g) == acked' = acked \cup {g} /\ UNCHANGED <<minted, paid>>

(* processCaptured finds the order by the stored reference, then its row.  *)
Concerns_Pending(g, o) ==              \* mutant: a capture after the end is not ours
    gatewayOrderRef[o] = g /\ payment[g] # "none" /\ Pending(o)
Concerns(g, o) == gatewayOrderRef[o] = g /\ payment[g] # "none"
AlreadyCaptured_Never(g) == FALSE      \* mutant: no idempotence gate
AlreadyCaptured(g) == payment[g] = "captured"

(* An unknown reference or a capture already recorded: only acknowledged.  *)
CaptureReplayed(g) ==
    /\ paid[g] # "nothing"
    /\ (\A o \in Orders : ~Concerns(g, o)) \/ AlreadyCaptured(g)
    /\ Ack(g)
    /\ UNCHANGED <<orderVars, moneyVars, stockVars, request, hook, releases, shown, boundVars>>

CaptureMismatch(g) ==
    /\ paid[g] = "another_amount" /\ ~AlreadyCaptured(g)
    /\ \E o \in Orders : Concerns(g, o)
    /\ payment' = [payment EXCEPT ![g] = "failed"]
    /\ Ack(g)
    /\ UNCHANGED <<orderVars, refund, stockVars, request, hook, releases, shown, boundVars>>

(* The capture of an order that is no longer pending: money back.          *)
LateCapture(g, o) ==
    /\ paid[g] = "in_full" /\ Concerns(g, o) /\ ~AlreadyCaptured(g)
    /\ ~Pending(o)
    /\ Capture(o, g) /\ PaymentStatus(o, "refund_initiated")
    /\ RefundIntent(g)
    /\ Ack(g)
    /\ UNCHANGED <<status, gatewayOrderRef, expired, cart, stockVars, request, hook,
                   releases, shown, boundVars>>

CaptureConfirms(g, o) ==
    /\ paid[g] = "in_full" /\ Concerns(g, o) /\ ~AlreadyCaptured(g)
    /\ ConfirmOrder(o) /\ Capture(o, g)
    /\ PaymentStatus(o, IF amountPaid'[o] >= Total[o] THEN "paid" ELSE "partially_paid")
    /\ Ack(g)
    /\ UNCHANGED <<gatewayOrderRef, refund, request, hook, releases, shown, boundVars>>

(* The stock is gone: TX-2 rolls back, and the delivery goes on to TX-3.   *)
CaptureOversold(h, g, o) ==
    /\ paid[g] = "in_full" /\ Concerns(g, o) /\ ~AlreadyCaptured(g)
    /\ Pending(o) /\ StockFails(o)
    /\ hook[h] = NoRef
    /\ hook' = [hook EXCEPT ![h] = g]
    /\ UNCHANGED <<orderVars, moneyVars, stockVars, request, releases, shown, gatewayVars, boundVars>>

(* TX-3, oversoldCancel: record the capture, cancel if still pending, owe  *)
(* the refund.                                                             *)
OversoldCancel(h, o) == LET g == hook[h] IN
    /\ g # NoRef /\ Concerns(g, o)
    /\ \/ ~AlreadyCaptured(g) /\ Capture(o, g)
       \/ AlreadyCaptured(g) /\ UNCHANGED <<payment, amountPaid>>
    /\ \/ GiveUp(o, "cancelled") /\ PaymentStatus(o, "refund_initiated")
       \/ ~Pending(o) /\ UNCHANGED <<status, expired, cart, paymentStatus>>
    /\ RefundIntent(g)
    /\ Owed(o)
    /\ hook' = [hook EXCEPT ![h] = NoRef]
    /\ Ack(g)
    /\ UNCHANGED <<gatewayOrderRef, stockVars, request, shown, boundVars>>

(* The delivery dies between TX-2 and TX-3; the gateway delivers again.    *)
HookCrash(h) ==
    /\ hook[h] # NoRef /\ crashes < MaxCrashes
    /\ crashes' = crashes + 1
    /\ hook' = [hook EXCEPT ![h] = NoRef]
    /\ UNCHANGED <<orderVars, moneyVars, stockVars, request, releases, shown, gatewayVars, replays>>

(* processFailed: a failed attempt, reported late or early.                *)
PaymentFailed(g) ==
    /\ g \in shown /\ ~AlreadyCaptured(g)
    /\ \E o \in Orders : Concerns(g, o)
    /\ payment' = [payment EXCEPT ![g] = "failed"]
    /\ UNCHANGED <<orderVars, refund, stockVars, request, hook, releases, shown,
                   gatewayVars, boundVars>>

(* The refund was sent and refund.processed comes back.                    *)
RefundProcessed(g, o) ==
    /\ refund[g] = "pending" /\ Concerns(g, o)
    /\ refund' = [refund EXCEPT ![g] = "processed"]
    /\ PaymentStatus(o, "refunded")
    /\ UNCHANGED <<status, amountPaid, gatewayOrderRef, expired, cart, payment, stockVars,
                   request, hook, releases, shown, gatewayVars, boundVars>>
--------------------------------------------------------------------------------
(* Time, the clean-up jobs and the merchant.                               *)

TimeOut(o) ==
    /\ Pending(o) /\ ~expired[o]
    /\ expired' = [expired EXCEPT ![o] = TRUE]
    /\ UNCHANGED <<status, paymentStatus, amountPaid, gatewayOrderRef, cart, moneyVars,
                   stockVars, request, hook, releases, shown, gatewayVars, boundVars>>

HoldLapses(o) ==
    /\ promised[o] # [v \in Variants |-> 0]
    /\ Shelf!Lapse({o} \X Variants)
    /\ UNCHANGED <<orderVars, moneyVars, request, hook, releases, shown, gatewayVars, boundVars>>

(* expireCheckout, the one door of the delayed job and of the sweep.       *)
Expirable_ByJob(o) ==                  \* mutant: no sweep behind the job payment-start enqueues
    Pending(o) /\ expired[o] /\ UsesGateway(o)
Expirable(o) == Pending(o) /\ expired[o]

ExpireCheckout(o) ==
    /\ Expirable(o)
    /\ GiveUp(o, "abandoned")
    /\ Owed(o)
    /\ UNCHANGED <<paymentStatus, amountPaid, gatewayOrderRef, moneyVars, stockVars,
                   request, hook, shown, gatewayVars, boundVars>>

(* releaseStock in its own transaction, fail-soft: it may never happen.    *)
ReleaseHold(o) ==
    /\ o \in releases
    /\ releases' = releases \ {o}
    /\ Shelf!Release(o) \/ UNCHANGED stockVars
    /\ UNCHANGED <<orderVars, moneyVars, request, hook, shown, gatewayVars, boundVars>>

RestockLines_Forgotten(o) == UNCHANGED stockVars    \* mutant: cancelled goods stay off the shelf
RestockLines(o) == Shelf!Restock(LinesOf[o])

(* Console cancel: restock, and money back if any was captured.            *)
CancelOrder(o) ==
    /\ status[o] \in CancellableByStaff
    /\ RestockLines(o)
    /\ Transition(o, "cancelled")
    /\ \/ \E g \in GatewayRefs :
            /\ amountPaid[o] > 0 /\ minted[g] = o /\ AlreadyCaptured(g)
            /\ RefundIntent(g) /\ PaymentStatus(o, "refund_initiated")
       \/ /\ amountPaid[o] = 0 \/ \A g \in GatewayRefs : ~(minted[g] = o /\ AlreadyCaptured(g))
          /\ UNCHANGED <<refund, paymentStatus>>
    /\ UNCHANGED <<amountPaid, gatewayOrderRef, cart, payment, request, hook, releases,
                   shown, gatewayVars, boundVars>>

(* Delivering an order that is not prepaid collects the balance.           *)
CollectsCod(o, to) == to = "delivered" /\ Mode[o] # "prepaid" /\ paymentStatus[o] # "paid"

(* manualTransition: one rung of the ladder.                               *)
ManualTransition(o, to) ==
    /\ <<status[o], to>> \in ManualTransitions
    /\ Transition(o, to)
    /\ IF CollectsCod(o, to)
       THEN PaymentStatus(o, "paid") /\ amountPaid' = [amountPaid EXCEPT ![o] = Total[o]]
       ELSE UNCHANGED <<paymentStatus, amountPaid>>
    /\ UNCHANGED <<gatewayOrderRef, cart, moneyVars, stockVars, request, hook, releases,
                   shown, gatewayVars, boundVars>>
--------------------------------------------------------------------------------
RequestStepOf(s) ==
    \/ \E o \in Orders : Start(s, o) \/ Replay(s, o)
    \/ Hold(s) \/ HoldRefused(s) \/ Extend(s) \/ ExtendTooLate(s)
    \/ ConfirmCod(s) \/ ConfirmCodFails(s) \/ ConfirmCodTooLate(s) \/ CancelPending(s)
    \/ StoredRef(s) \/ (\E g \in GatewayRefs : Mint(s, g)) \/ StoreRef(s) \/ Crash(s)

(* One processing of a payment.captured delivery.                          *)
DeliverCapture(g) ==
    \/ CaptureReplayed(g) \/ CaptureMismatch(g)
    \/ \E o \in Orders : LateCapture(g, o) \/ CaptureConfirms(g, o)
                         \/ \E h \in Hooks : CaptureOversold(h, g, o)

Next ==
    \/ \E s \in Requests : RequestStepOf(s)
    \/ \E g \in GatewayRefs : Pay(g) \/ DeliverCapture(g) \/ PaymentFailed(g)
    \/ \E g \in GatewayRefs, o \in Orders : RefundProcessed(g, o)
    \/ \E h \in Hooks : (\E o \in Orders : OversoldCancel(h, o)) \/ HookCrash(h)
    \/ \E o \in Orders : TimeOut(o) \/ HoldLapses(o) \/ ExpireCheckout(o) \/ ReleaseHold(o)
    \/ \E o \in Orders : CancelOrder(o) \/ \E to \in OrderStatus : ManualTransition(o, to)

Spec == Init /\ [][Next]_vars

(* Time passes; the sweep and the delayed jobs run; the gateway delivers a *)
(* capture until it is acknowledged, and a delivery that is not killed     *)
(* goes on to TX-3.  Nothing obliges a buyer to pay or to try again.       *)
Fairness ==
    /\ \A o \in Orders : WF_vars(TimeOut(o)) /\ WF_vars(ExpireCheckout(o))
    /\ \A g \in GatewayRefs : WF_vars(DeliverCapture(g))
    /\ \A h \in Hooks : WF_vars(\E o \in Orders : OversoldCancel(h, o))
FairSpec == Spec /\ Fairness
--------------------------------------------------------------------------------
CapturedFor(g, o) == gatewayOrderRef[o] = g /\ payment[g] = "captured"
HasCaptured(o) == \E g \in GatewayRefs : CapturedFor(g, o)

(* A cart is checked out by one order at a time, and a cart that was sold  *)
(* is never checked out again: createOrderTx's cart lock against every     *)
(* handler that hands the cart back.                                       *)
Claims(o) == Pending(o) \/ status[o] \in Sold
CartsClaimedOnce ==
    /\ \A o \in Orders : Claims(o) => cart[CartOf[o]] = "converted"
    /\ \A o, p \in Orders : Claims(o) /\ Claims(p) /\ CartOf[o] = CartOf[p] => o = p

(* "A superseded ref strands captured money" (startGatewayPayment): every  *)
(* gateway order a buyer was ever handed is its order's stored reference,  *)
(* with a payments row the webhook will find.                              *)
ShownRefsAreStored == \A g \in shown :
    payment[g] # "none" /\ minted[g] \in Orders /\ gatewayOrderRef[minted[g]] = g

(* Captured money of an order that was given up is owed back, whichever of *)
(* the capture, the expiry, the cancellation and the stock failure won.    *)
CapturedMoneyIsOwedBack == \A o \in Orders :
    status[o] \in {"cancelled", "abandoned"} => \A g \in GatewayRefs :
        CapturedFor(g, o) => refund[g] # "none"

(* Every capture counts once in amount_paid, whatever was delivered twice  *)
(* or cut short; goods leave against the advance; the balance is counted   *)
(* at the door.                                                            *)
MoneyCounted == \A o \in Orders :
    /\ \/ amountPaid[o] = IF HasCaptured(o) THEN Advance[o] ELSE 0
       \/ status[o] = "delivered" /\ amountPaid[o] = Total[o]
    /\ status[o] \in Sold /\ UsesGateway(o) => HasCaptured(o)

(* What the money rests on.  A request knows its order and its kind, and   *)
(* stores only what was minted for it; reference, payments row and minted  *)
(* order point at each other; a capture and the move out of                *)
(* pending_payment are one transaction.                                    *)
RequestsKeepTheirOrder == \A s \in Requests : LET r == request[s] IN
    /\ r.at # "idle" => r.order \in Orders /\ status[r.order] # "none"
    /\ r.at \in {"confirm", "reconfirm"} => ~UsesGateway(r.order)
    /\ r.at \in {"stored", "mint", "store"} => UsesGateway(r.order)
    /\ r.at = "store" => r.ref \in GatewayRefs /\ minted[r.ref] = r.order
RefsPointBothWays ==
    /\ \A o \in Orders : gatewayOrderRef[o] # NoRef =>
         /\ payment[gatewayOrderRef[o]] # "none" /\ minted[gatewayOrderRef[o]] = o
         /\ UsesGateway(o) /\ Advance[o] > 0 /\ status[o] # "none"
    /\ \A g \in GatewayRefs : payment[g] # "none" =>
         minted[g] \in Orders /\ gatewayOrderRef[minted[g]] = g
CaptureEndsPending == \A o \in Orders : HasCaptured(o) => ~Pending(o)
MoneyTrail == RequestsKeepTheirOrder /\ RefsPointBothWays /\ CaptureEndsPending

(* The shelf and the orders agree: what is missing from the opening stock  *)
(* is exactly the lines of the orders that are sold.                       *)
StockAccounted == \A v \in Variants :
    onHand[v] + Shelf!PromisedIn(LinesOf, {o \in Orders : status[o] \in Sold}, v) = Stock[v]

(* Every order leaves pending_payment, whoever crashed: either driver of   *)
(* expireCheckout gets it.                                                 *)
PendingEnds == \A o \in Orders : Pending(o) ~> ~Pending(o)

(* A buyer who paid what was asked ends with the goods or a refund.        *)
PaidMoneyLands == \A g \in GatewayRefs : paid[g] = "in_full" ~>
    \E o \in Orders : CapturedFor(g, o) /\ (status[o] \in Sold \/ refund[g] # "none")
--------------------------------------------------------------------------------
(* What comments and the design say, and the code does not do.             *)

(* "Every step no-ops when already done" (oversoldCancel): the money of an *)
(* order that is being delivered is not on its way back.                   *)
RefundOnlyIfGivenUp == \A o \in Orders :
    status[o] \in Sold => \A g \in GatewayRefs : CapturedFor(g, o) => refund[g] = "none"
================================================================================
