----------------------------- MODULE Checkout_proofs -----------------------------
(***************************************************************************)
(* Theorems about Checkout, for any number of orders, carts, variants,     *)
(* gateway orders, request threads and webhook deliveries, and any bounds. *)
(*                                                                         *)
(* MoneyTrail is the inductive strengthening: none of the money invariants *)
(* is inductive without it, because a webhook finds its order through the  *)
(* stored reference alone and a request acts on what it read earlier.      *)
(***************************************************************************)
EXTENDS Checkout, TLAPS

(* What a step of the stock does to the types.  Covers is what keeps the   *)
(* shelf from going below nothing.                                         *)
LEMMA ShelfTypes ==
    ASSUME TypeOK, NEW o \in Orders,
           \/ Shelf!Grant(o, LinesOf[o]) \/ Shelf!Sell(o, LinesOf[o]) \/ Shelf!Release(o)
           \/ Shelf!Restock(LinesOf[o]) \/ Shelf!Lapse({o} \X Variants) \/ UNCHANGED stockVars
    PROVE  onHand' \in [Variants -> Nat] /\ promised' \in [Orders -> [Variants -> Nat]]
<1> LinesOf[o] \in [Variants -> Nat] /\ onHand \in [Variants -> Nat]
       /\ promised \in [Orders -> [Variants -> Nat]]
    BY AttemptsAreWellFormed DEF TypeOK
<1>1. CASE Shelf!Grant(o, LinesOf[o])
    BY <1>1 DEF Shelf!Grant, Shelf!Give
<1>2. CASE Shelf!Sell(o, LinesOf[o])
    <2>1. \A v \in Variants : onHand'[v] \in Int /\ 0 <= onHand'[v]
        BY <1>2 DEF Shelf!Sell, Shelf!Covers
    <2>2. promised' \in [Orders -> [Variants -> Nat]]
        BY <1>2 DEF Shelf!Sell, Shelf!Give, Shelf!NoLines
    <2> QED BY <1>2, <2>1, <2>2 DEF Shelf!Sell
<1>3. CASE Shelf!Release(o)
    BY <1>3 DEF Shelf!Release, Shelf!Give, Shelf!NoLines
<1>4. CASE Shelf!Restock(LinesOf[o])
    BY <1>4 DEF Shelf!Restock
<1>5. CASE Shelf!Lapse({o} \X Variants)
    BY <1>5 DEF Shelf!Lapse
<1>6. CASE UNCHANGED stockVars
    BY <1>6 DEF stockVars
<1> QED BY <1>1, <1>2, <1>3, <1>4, <1>5, <1>6

LEMMA TransitionTypes ==
    ASSUME TypeOK, NEW o \in Orders, NEW to \in OrderStatus, Transition(o, to)
    PROVE  status' \in [Orders -> OrderStatus \cup {"none"}] /\ expired' \in [Orders -> BOOLEAN]
BY DEF TypeOK, Transition
LEMMA GiveUpTypes ==
    ASSUME TypeOK, NEW o \in Orders, NEW to \in OrderStatus, GiveUp(o, to)
    PROVE  /\ status' \in [Orders -> OrderStatus \cup {"none"}]
           /\ expired' \in [Orders -> BOOLEAN]
           /\ cart' \in [Carts -> {"active", "converted"}]
<1>1. CartOf[o] \in Carts /\ cart \in [Carts -> {"active", "converted"}]
    BY AttemptsAreWellFormed DEF TypeOK
<1>2. cart' \in [Carts -> {"active", "converted"}]
    BY <1>1 DEF GiveUp
<1> QED BY <1>2, TransitionTypes DEF GiveUp

LEMMA CaptureTypes ==
    ASSUME TypeOK, NEW o \in Orders, NEW g \in GatewayRefs, Capture(o, g)
    PROVE  /\ amountPaid' \in [Orders -> Nat]
           /\ payment' \in [GatewayRefs -> {"none", "created", "failed", "captured"}]
<1>1. Advance[o] \in Nat /\ amountPaid[o] \in Nat
    BY AttemptsAreWellFormed DEF TypeOK
<1> QED BY <1>1 DEF TypeOK, Capture

LEMMA RefundTypes ==
    ASSUME refund \in [GatewayRefs -> {"none", "pending", "processed"}],
           NEW g \in GatewayRefs, RefundIntent(g)
    PROVE  refund' \in [GatewayRefs -> {"none", "pending", "processed"}]
BY DEF RefundIntent

PaymentStatuses == {"pending", "paid", "partially_paid", "refund_initiated", "refunded"}

(* What a step of a request does to the types.                             *)
LEMMA RequestTypes ==
    ASSUME TypeOK, NEW s \in Requests,
           Answer(s) \/ \E step \in RequestStep : Step(s, step)
    PROVE  request' \in [Requests -> RequestState]
<1>1. request \in [Requests -> RequestState]
    BY DEF TypeOK
<1>2. CASE Answer(s)
    <2>1. Idle \in RequestState
        BY DEF Idle, RequestState, RequestStep
    <2> QED BY <1>1, <1>2, <2>1 DEF Answer
<1>3. ASSUME NEW step \in RequestStep, Step(s, step)
      PROVE  request' \in [Requests -> RequestState]
    <2>1. [request[s] EXCEPT !.at = step] \in RequestState
        BY <1>1 DEF RequestState
    <2>2. request' = [request EXCEPT ![s] = [request[s] EXCEPT !.at = step]]
        BY <1>3, <1>1 DEF Step
    <2> QED BY <1>1, <2>1, <2>2
<1> QED BY <1>2, <1>3

(* A request that is not idle knows its order.                             *)
LEMMA RequestOrder ==
    ASSUME TypeOK, MoneyTrail, NEW s \in Requests, ~At(s, "idle")
    PROVE  request[s].order \in Orders /\ status[request[s].order] # "none"
BY DEF MoneyTrail, RequestsKeepTheirOrder, At

(* Every step of a request, a delivery, a job or the merchant keeps every  *)
(* row in its type; the requests' memory of their order is what the        *)
(* handlers that start from a request need for it.                         *)
THEOREM TypeStep == TypeOK /\ MoneyTrail /\ [Next]_vars => TypeOK'
<1> SUFFICES ASSUME TypeOK, MoneyTrail, [Next]_vars PROVE TypeOK'
    OBVIOUS
<1> USE AttemptsAreWellFormed, BoundsAreNaturals
        DEF TypeOK, orderVars, moneyVars, stockVars, gatewayVars, boundVars
<1>1. ASSUME NEW s \in Requests, NEW o \in Orders, Start(s, o) PROVE TypeOK'
    <2>1. request' \in [Requests -> RequestState]
        BY <1>1 DEF Start, RequestState, RequestStep
    <2> QED BY <1>1, <2>1 DEF Start, OrderStatus
<1>2. ASSUME NEW s \in Requests, NEW o \in Orders, Replay(s, o) PROVE TypeOK'
    <2>1. request' \in [Requests -> RequestState]
        BY <1>2 DEF Replay, RequestState, RequestStep
    <2> QED BY <1>2, <2>1 DEF Replay
<1>3. ASSUME NEW s \in Requests, Hold(s) PROVE TypeOK'
    <2> DEFINE o == request[s].order
    <2>1. o \in Orders
        BY <1>3, RequestOrder DEF Hold, At
    <2>2. onHand' \in [Variants -> Nat] /\ promised' \in [Orders -> [Variants -> Nat]]
        BY <1>3, <2>1, ShelfTypes DEF Hold
    <2>3. request' \in [Requests -> RequestState]
        BY <1>3, RequestTypes DEF Hold, RequestStep
    <2> QED BY <1>3, <2>2, <2>3 DEF Hold
<1>4. ASSUME NEW s \in Requests, HoldRefused(s) PROVE TypeOK'
    <2>1. request' \in [Requests -> RequestState]
        BY <1>4, RequestTypes DEF HoldRefused, RequestStep
    <2> QED BY <1>4, <2>1 DEF HoldRefused
<1>5. ASSUME NEW s \in Requests, Extend(s) PROVE TypeOK'
    <2>1. request[s].order \in Orders
        BY <1>5, RequestOrder DEF Extend, At
    <2>2. request' \in [Requests -> RequestState]
        BY <1>5, RequestTypes DEF Extend, RequestStep
    <2> QED BY <1>5, <2>1, <2>2 DEF Extend
<1>6. ASSUME NEW s \in Requests, ExtendTooLate(s) PROVE TypeOK'
    <2>1. request[s].order \in Orders
        BY <1>6, RequestOrder DEF ExtendTooLate, At
    <2>2. request' \in [Requests -> RequestState]
        BY <1>6, RequestTypes DEF ExtendTooLate, RequestStep
    <2> QED BY <1>6, <2>1, <2>2 DEF ExtendTooLate, Owed
<1>7. ASSUME NEW s \in Requests, ConfirmCod(s) PROVE TypeOK'
    <2> DEFINE o == request[s].order
    <2>1. o \in Orders
        BY <1>7, RequestOrder DEF ConfirmCod, At
    <2>2. onHand' \in [Variants -> Nat] /\ promised' \in [Orders -> [Variants -> Nat]]
        BY <1>7, <2>1, ShelfTypes DEF ConfirmCod, ConfirmOrder
    <2>3. status' \in [Orders -> OrderStatus \cup {"none"}] /\ expired' \in [Orders -> BOOLEAN]
        BY <1>7, <2>1, TransitionTypes DEF ConfirmCod, ConfirmOrder, OrderStatus
    <2>4. request' \in [Requests -> RequestState]
        BY <1>7, RequestTypes DEF ConfirmCod, RequestStep
    <2> QED BY <1>7, <2>1, <2>2, <2>3, <2>4 DEF ConfirmCod, ConfirmOrder, PaymentStatus
<1>8. ASSUME NEW s \in Requests, ConfirmCodFails(s) PROVE TypeOK'
    <2>1. request' \in [Requests -> RequestState]
        BY <1>8, RequestTypes DEF ConfirmCodFails, RequestStep
    <2> QED BY <1>8, <2>1 DEF ConfirmCodFails
<1>9. ASSUME NEW s \in Requests, ConfirmCodTooLate(s) PROVE TypeOK'
    <2>1. request' \in [Requests -> RequestState]
        BY <1>9, RequestTypes DEF ConfirmCodTooLate, RequestStep
    <2> QED BY <1>9, <2>1 DEF ConfirmCodTooLate
<1>10. ASSUME NEW s \in Requests, CancelPending(s) PROVE TypeOK'
    <2> DEFINE o == request[s].order
    <2>1. o \in Orders
        BY <1>10, RequestOrder DEF CancelPending, At
    <2>2. /\ status' \in [Orders -> OrderStatus \cup {"none"}] /\ expired' \in [Orders -> BOOLEAN]
          /\ cart' \in [Carts -> {"active", "converted"}]
        BY <1>10, <2>1, GiveUpTypes DEF CancelPending, OrderStatus
    <2>3. request' \in [Requests -> RequestState]
        BY <1>10, RequestTypes DEF CancelPending, RequestStep
    <2> QED BY <1>10, <2>1, <2>2, <2>3 DEF CancelPending, Owed
<1>11. ASSUME NEW s \in Requests, StoredRef(s) PROVE TypeOK'
    <2>1. request[s].order \in Orders
        BY <1>11, RequestOrder DEF StoredRef, At
    <2>2. request' \in [Requests -> RequestState]
        BY <1>11, RequestTypes DEF StoredRef, RequestStep
    <2> QED BY <1>11, <2>1, <2>2 DEF StoredRef
<1>12. ASSUME NEW s \in Requests, NEW g \in GatewayRefs, Mint(s, g) PROVE TypeOK'
    <2>1. request[s].order \in Orders
        BY <1>12, RequestOrder DEF Mint, At
    <2>2. request' \in [Requests -> RequestState]
        <3>1. [request[s] EXCEPT !.at = "store", !.ref = g] \in RequestState
            <4>1. request[s] \in RequestState
                OBVIOUS
            <4> QED BY <4>1 DEF RequestState, RequestStep
        <3>2. request' = [request EXCEPT ![s] = [request[s] EXCEPT !.at = "store", !.ref = g]]
            BY <1>12 DEF Mint
        <3> QED BY <3>1, <3>2
    <2> QED BY <1>12, <2>1, <2>2 DEF Mint
<1>13. ASSUME NEW s \in Requests, StoreRef(s) PROVE TypeOK'
    <2>1. request[s].order \in Orders /\ request[s].ref \in GatewayRefs
        BY <1>13 DEF StoreRef, At, MoneyTrail, RequestsKeepTheirOrder
    <2>2. request' \in [Requests -> RequestState]
        BY <1>13, RequestTypes DEF StoreRef, RequestStep
    <2>3. /\ gatewayOrderRef' \in [Orders -> GatewayRefs \cup {NoRef}]
          /\ payment' \in [GatewayRefs -> {"none", "created", "failed", "captured"}]
          /\ shown' \in SUBSET GatewayRefs
        <3>1. CASE LoserRef(request[s].order, request[s].ref)
            BY <1>13, <2>1, <3>1 DEF StoreRef, LoserRef
        <3>2. CASE ~LoserRef(request[s].order, request[s].ref)
            <4> DEFINE o == request[s].order
                       g == request[s].ref
            <4>1. /\ gatewayOrderRef' = [gatewayOrderRef EXCEPT ![o] = g]
                  /\ payment' = [payment EXCEPT ![g] = IF @ = "none" THEN "created" ELSE @]
                  /\ shown' = shown \cup {g}
                BY <1>13, <3>2 DEF StoreRef
            <4> HIDE DEF o, g
            <4>2. o \in Orders /\ g \in GatewayRefs
                BY <2>1 DEF o, g
            <4> QED BY <4>1, <4>2
        <3> QED BY <3>1, <3>2
    <2> QED BY <1>13, <2>2, <2>3 DEF StoreRef
<1>14. ASSUME NEW s \in Requests, Crash(s) PROVE TypeOK'
    <2>1. request' \in [Requests -> RequestState]
        BY <1>14, RequestTypes DEF Crash, RequestStep
    <2> QED BY <1>14, <2>1 DEF Crash
<1>15. ASSUME NEW g \in GatewayRefs, Pay(g) PROVE TypeOK'
    BY <1>15 DEF Pay
<1>16. ASSUME NEW g \in GatewayRefs, CaptureReplayed(g) PROVE TypeOK'
    BY <1>16 DEF CaptureReplayed, Ack
<1>17. ASSUME NEW g \in GatewayRefs, CaptureMismatch(g) PROVE TypeOK'
    BY <1>17 DEF CaptureMismatch, Ack
<1>18. ASSUME NEW g \in GatewayRefs, NEW o \in Orders, LateCapture(g, o) PROVE TypeOK'
    BY <1>18 DEF LateCapture, Capture, PaymentStatus, RefundIntent, Ack
<1>19. ASSUME NEW g \in GatewayRefs, NEW o \in Orders, CaptureConfirms(g, o) PROVE TypeOK'
    <2>1. onHand' \in [Variants -> Nat] /\ promised' \in [Orders -> [Variants -> Nat]]
        BY <1>19, ShelfTypes DEF CaptureConfirms, ConfirmOrder
    <2>2. status' \in [Orders -> OrderStatus \cup {"none"}] /\ expired' \in [Orders -> BOOLEAN]
        BY <1>19, TransitionTypes DEF CaptureConfirms, ConfirmOrder, OrderStatus
    <2>3. amountPaid' \in [Orders -> Nat]
          /\ payment' \in [GatewayRefs -> {"none", "created", "failed", "captured"}]
        BY <1>19, CaptureTypes DEF CaptureConfirms
    <2>4. paymentStatus' \in [Orders -> PaymentStatuses]
        BY <1>19 DEF CaptureConfirms, PaymentStatus, PaymentStatuses
    <2> QED BY <1>19, <2>1, <2>2, <2>3, <2>4
            DEF CaptureConfirms, ConfirmOrder, Ack, PaymentStatuses
<1>20. ASSUME NEW h \in Hooks, NEW g \in GatewayRefs, NEW o \in Orders, CaptureOversold(h, g, o)
       PROVE TypeOK'
    BY <1>20 DEF CaptureOversold
<1>21. ASSUME NEW h \in Hooks, NEW o \in Orders, OversoldCancel(h, o) PROVE TypeOK'
    <2>1. hook[h] \in GatewayRefs
        BY <1>21 DEF OversoldCancel
    <2>2. /\ status' \in [Orders -> OrderStatus \cup {"none"}] /\ expired' \in [Orders -> BOOLEAN]
          /\ cart' \in [Carts -> {"active", "converted"}]
        BY <1>21, GiveUpTypes DEF OversoldCancel, OrderStatus
    <2>3. paymentStatus' \in [Orders -> PaymentStatuses]
        <3>1. paymentStatus' = paymentStatus \/ PaymentStatus(o, "refund_initiated")
            BY <1>21 DEF OversoldCancel
        <3> QED BY <3>1 DEF PaymentStatus, PaymentStatuses
    <2>4. amountPaid' \in [Orders -> Nat]
          /\ payment' \in [GatewayRefs -> {"none", "created", "failed", "captured"}]
        BY <1>21, <2>1, CaptureTypes DEF OversoldCancel
    <2>5. /\ refund' \in [GatewayRefs -> {"none", "pending", "processed"}]
          /\ hook' \in [Hooks -> GatewayRefs \cup {NoRef}]
          /\ releases' \in SUBSET Orders /\ acked' \in SUBSET GatewayRefs
        BY <1>21, <2>1 DEF OversoldCancel, RefundIntent, Owed, Ack
    <2> QED BY <1>21, <2>2, <2>3, <2>4, <2>5 DEF OversoldCancel, Ack, PaymentStatuses
<1>22. ASSUME NEW h \in Hooks, HookCrash(h) PROVE TypeOK'
    BY <1>22 DEF HookCrash
<1>23. ASSUME NEW g \in GatewayRefs, PaymentFailed(g) PROVE TypeOK'
    BY <1>23 DEF PaymentFailed
<1>24. ASSUME NEW g \in GatewayRefs, NEW o \in Orders, RefundProcessed(g, o) PROVE TypeOK'
    BY <1>24 DEF RefundProcessed, PaymentStatus
<1>25. ASSUME NEW o \in Orders, TimeOut(o) PROVE TypeOK'
    BY <1>25 DEF TimeOut
<1>26. ASSUME NEW o \in Orders, HoldLapses(o) PROVE TypeOK'
    <2>1. onHand' \in [Variants -> Nat] /\ promised' \in [Orders -> [Variants -> Nat]]
        BY <1>26, ShelfTypes DEF HoldLapses
    <2> QED BY <1>26, <2>1 DEF HoldLapses
<1>27. ASSUME NEW o \in Orders, ExpireCheckout(o) PROVE TypeOK'
    <2>1. status' \in [Orders -> OrderStatus \cup {"none"}] /\ expired' \in [Orders -> BOOLEAN]
        BY <1>27, TransitionTypes DEF ExpireCheckout, GiveUp, OrderStatus
    <2> QED BY <1>27, <2>1 DEF ExpireCheckout, GiveUp, Owed
<1>28. ASSUME NEW o \in Orders, ReleaseHold(o) PROVE TypeOK'
    <2>1. onHand' \in [Variants -> Nat] /\ promised' \in [Orders -> [Variants -> Nat]]
        BY <1>28, ShelfTypes DEF ReleaseHold
    <2> QED BY <1>28, <2>1 DEF ReleaseHold
<1>29. ASSUME NEW o \in Orders, CancelOrder(o) PROVE TypeOK'
    <2>1. onHand' \in [Variants -> Nat] /\ promised' \in [Orders -> [Variants -> Nat]]
        BY <1>29, ShelfTypes DEF CancelOrder, RestockLines
    <2>2. status' \in [Orders -> OrderStatus \cup {"none"}] /\ expired' \in [Orders -> BOOLEAN]
        BY <1>29, TransitionTypes DEF CancelOrder, OrderStatus
    <2>3. paymentStatus' \in [Orders -> PaymentStatuses]
          /\ refund' \in [GatewayRefs -> {"none", "pending", "processed"}]
        <3>1. CASE UNCHANGED <<refund, paymentStatus>>
            BY <3>1 DEF PaymentStatuses
        <3>2. ASSUME NEW g \in GatewayRefs, RefundIntent(g), PaymentStatus(o, "refund_initiated")
              PROVE  paymentStatus' \in [Orders -> PaymentStatuses]
                     /\ refund' \in [GatewayRefs -> {"none", "pending", "processed"}]
            BY <3>2, RefundTypes DEF PaymentStatus, PaymentStatuses
        <3> QED BY <1>29, <3>1, <3>2 DEF CancelOrder
    <2> QED BY <1>29, <2>1, <2>2, <2>3 DEF CancelOrder, PaymentStatuses
<1>30. ASSUME NEW o \in Orders, NEW to \in OrderStatus, ManualTransition(o, to) PROVE TypeOK'
    <2>1. status' \in [Orders -> OrderStatus \cup {"none"}] /\ expired' \in [Orders -> BOOLEAN]
        BY <1>30, TransitionTypes DEF ManualTransition
    <2>2. paymentStatus' \in [Orders -> PaymentStatuses] /\ amountPaid' \in [Orders -> Nat]
        <3>1. CASE CollectsCod(o, to)
            <4>1. /\ paymentStatus' = [paymentStatus EXCEPT ![o] = "paid"]
                  /\ amountPaid' = [amountPaid EXCEPT ![o] = Total[o]]
                BY <1>30, <3>1 DEF ManualTransition, PaymentStatus
            <4> QED BY <4>1 DEF PaymentStatuses
        <3>2. CASE ~CollectsCod(o, to)
            BY <1>30, <3>2 DEF ManualTransition, PaymentStatuses
        <3> QED BY <3>1, <3>2
    <2> QED BY <1>30, <2>1, <2>2 DEF ManualTransition, PaymentStatuses
<1>31. CASE UNCHANGED vars
    BY <1>31 DEF vars
<1> QED BY <1>1, <1>2, <1>3, <1>4, <1>5, <1>6, <1>7, <1>8, <1>9, <1>10, <1>11, <1>12, <1>13,
           <1>14, <1>15, <1>16, <1>17, <1>18, <1>19, <1>20, <1>21, <1>22, <1>23, <1>24, <1>25,
           <1>26, <1>27, <1>28, <1>29, <1>30, <1>31
        DEF Next, RequestStepOf, DeliverCapture
--------------------------------------------------------------------------------
(* A cart is checked out once.                                             *)

LEMMA ClaimMovesOn ==
    ASSUME TypeOK, CartsClaimedOnce, NEW o \in Orders, NEW to, Claims(o),
           status' = [status EXCEPT ![o] = to], cart' = cart
    PROVE  CartsClaimedOnce'
BY DEF TypeOK, CartsClaimedOnce, Claims, Pending

LEMMA ClaimGivenUp ==
    ASSUME TypeOK, CartsClaimedOnce, NEW o \in Orders, NEW to \in {"cancelled", "abandoned"},
           GiveUp(o, to)
    PROVE  CartsClaimedOnce'
<1>1. /\ status' = [status EXCEPT ![o] = to]
      /\ cart' = [cart EXCEPT ![CartOf[o]] = "active"]
      /\ Claims(o)
    BY DEF GiveUp, Transition, Claims
<1>2. \A p \in Orders : CartOf[p] \in Carts
    BY AttemptsAreWellFormed
<1>3. ASSUME NEW p \in Orders, Claims(p)'
      PROVE  Claims(p) /\ p # o
    BY <1>1, <1>3 DEF TypeOK, Claims, Pending, Sold
<1>4. ASSUME NEW p \in Orders, Claims(p)'
      PROVE  CartOf[p] # CartOf[o] /\ cart'[CartOf[p]] = "converted"
    BY <1>1, <1>2, <1>3, <1>4 DEF TypeOK, CartsClaimedOnce
<1> QED BY <1>3, <1>4 DEF CartsClaimedOnce

LEMMA ClaimTaken ==
    ASSUME TypeOK, CartsClaimedOnce, NEW s \in Requests, NEW o \in Orders, Start(s, o)
    PROVE  CartsClaimedOnce'
<1>1. /\ status' = [status EXCEPT ![o] = "pending_payment"]
      /\ cart' = [cart EXCEPT ![CartOf[o]] = "converted"]
      /\ cart[CartOf[o]] = "active"
    BY DEF Start, CartFree
<1>2. \A p \in Orders : CartOf[p] \in Carts
    BY AttemptsAreWellFormed
<1>3. ASSUME NEW p \in Orders, p # o, Claims(p)'
      PROVE  Claims(p) /\ CartOf[p] # CartOf[o] /\ cart'[CartOf[p]] = "converted"
    BY <1>1, <1>2, <1>3 DEF TypeOK, CartsClaimedOnce, Claims, Pending
<1>4. cart'[CartOf[o]] = "converted"
    BY <1>1, <1>2 DEF TypeOK
<1> QED BY <1>3, <1>4 DEF CartsClaimedOnce

(* No handler leaves a cart claimed twice or a claimed cart open: the cart *)
(* lock of createOrderTx against cancel, expiry and oversold cancel.       *)
THEOREM CartStep == TypeOK /\ MoneyTrail /\ CartsClaimedOnce /\ [Next]_vars => CartsClaimedOnce'
<1> SUFFICES ASSUME TypeOK, MoneyTrail, CartsClaimedOnce, [Next]_vars PROVE CartsClaimedOnce'
    OBVIOUS
<1>1. ASSUME UNCHANGED <<status, cart>> PROVE CartsClaimedOnce'
    BY <1>1 DEF CartsClaimedOnce, Claims, Pending
<1>2. ASSUME NEW s \in Requests, RequestStepOf(s) PROVE CartsClaimedOnce'
    <2>1. CASE \E o \in Orders : Start(s, o)
        BY <2>1, ClaimTaken
    <2>2. CASE ConfirmCod(s)
        <3>1. request[s].order \in Orders
            BY <2>2, RequestOrder DEF ConfirmCod, At
        <3> QED BY <2>2, <3>1, ClaimMovesOn DEF ConfirmCod, ConfirmOrder, Transition, Claims
    <2>3. CASE CancelPending(s)
        <3>1. request[s].order \in Orders
            BY <2>3, RequestOrder DEF CancelPending, At
        <3>2. CASE GiveUp(request[s].order, "cancelled")
            BY <3>1, <3>2, ClaimGivenUp
        <3>3. CASE UNCHANGED <<status, expired, cart>>
            BY <1>1, <3>3
        <3> QED BY <2>3, <3>2, <3>3 DEF CancelPending
    <2>4. CASE (\E o \in Orders : Replay(s, o)) \/ Hold(s) \/ HoldRefused(s) \/ Extend(s)
               \/ ExtendTooLate(s) \/ ConfirmCodFails(s) \/ ConfirmCodTooLate(s)
        BY <1>1, <2>4 DEF Replay, Hold, HoldRefused, Extend, ExtendTooLate, ConfirmCodFails,
                          ConfirmCodTooLate, orderVars
    <2>5. CASE StoredRef(s) \/ (\E g \in GatewayRefs : Mint(s, g)) \/ StoreRef(s) \/ Crash(s)
        BY <1>1, <2>5 DEF StoredRef, Mint, StoreRef, Crash, orderVars
    <2> QED BY <1>2, <2>1, <2>2, <2>3, <2>4, <2>5 DEF RequestStepOf
<1>3. ASSUME NEW g \in GatewayRefs, Pay(g) \/ DeliverCapture(g) \/ PaymentFailed(g)
             \/ \E o \in Orders : RefundProcessed(g, o)
      PROVE  CartsClaimedOnce'
    <2>1. ASSUME NEW o \in Orders, CaptureConfirms(g, o) PROVE CartsClaimedOnce'
        BY <2>1, ClaimMovesOn DEF CaptureConfirms, ConfirmOrder, Transition, Claims
    <2>2. ASSUME NEW o \in Orders, LateCapture(g, o) \/ RefundProcessed(g, o)
                                   \/ \E h \in Hooks : CaptureOversold(h, g, o)
          PROVE  CartsClaimedOnce'
        BY <1>1, <2>2 DEF LateCapture, RefundProcessed, CaptureOversold, orderVars
    <2>3. CASE Pay(g) \/ CaptureReplayed(g) \/ CaptureMismatch(g) \/ PaymentFailed(g)
        BY <1>1, <2>3 DEF Pay, CaptureReplayed, CaptureMismatch, PaymentFailed, orderVars
    <2> QED BY <1>3, <2>1, <2>2, <2>3 DEF DeliverCapture
<1>4. ASSUME NEW h \in Hooks, HookCrash(h) \/ \E o \in Orders : OversoldCancel(h, o)
      PROVE  CartsClaimedOnce'
    <2>1. ASSUME NEW o \in Orders, OversoldCancel(h, o) PROVE CartsClaimedOnce'
        <3>1. GiveUp(o, "cancelled") \/ UNCHANGED <<status, cart>>
            BY <2>1 DEF OversoldCancel
        <3> QED BY <1>1, <3>1, ClaimGivenUp
    <2>2. CASE HookCrash(h)
        BY <1>1, <2>2 DEF HookCrash, orderVars
    <2> QED BY <1>4, <2>1, <2>2
<1>5. ASSUME NEW o \in Orders, ExpireCheckout(o) PROVE CartsClaimedOnce'
    BY <1>5, ClaimGivenUp DEF ExpireCheckout
<1>6. ASSUME NEW o \in Orders, CancelOrder(o) PROVE CartsClaimedOnce'
    <2>1. Claims(o)
        BY <1>6 DEF CancelOrder, CancellableByStaff, Claims, Sold
    <2> QED BY <1>6, <2>1, ClaimMovesOn DEF CancelOrder, Transition
<1>7. ASSUME NEW o \in Orders, NEW to \in OrderStatus, ManualTransition(o, to)
      PROVE  CartsClaimedOnce'
    <2>1. Claims(o)
        BY <1>7 DEF ManualTransition, ManualTransitions, Claims, Sold
    <2> QED BY <1>7, <2>1, ClaimMovesOn DEF ManualTransition, Transition
<1>8. ASSUME NEW o \in Orders, TimeOut(o) \/ HoldLapses(o) \/ ReleaseHold(o)
      PROVE  CartsClaimedOnce'
    BY <1>1, <1>8 DEF TimeOut, HoldLapses, ReleaseHold, orderVars
<1>9. CASE UNCHANGED vars
    BY <1>1, <1>9 DEF vars, orderVars
<1> QED BY <1>2, <1>3, <1>4, <1>5, <1>6, <1>7, <1>8, <1>9 DEF Next
--------------------------------------------------------------------------------
(* The money trail.                                                        *)

StaysPlaced == \A o \in Orders : status[o] # "none" => status'[o] # "none"
SamePayments == \A g \in GatewayRefs : payment'[g] = "none" <=> payment[g] = "none"

LEMMA MovedStaysPlaced ==
    ASSUME TypeOK, NEW o \in Orders, NEW to \in OrderStatus, status' = [status EXCEPT ![o] = to]
    PROVE  StaysPlaced
BY DEF TypeOK, StaysPlaced, OrderStatus

LEMMA RequestsUntouched ==
    ASSUME TypeOK, RequestsKeepTheirOrder, StaysPlaced, UNCHANGED <<request, minted>>
    PROVE  RequestsKeepTheirOrder'
BY DEF RequestsKeepTheirOrder, StaysPlaced, UsesGateway

LEMMA RequestAnswered ==
    ASSUME TypeOK, RequestsKeepTheirOrder, StaysPlaced, UNCHANGED minted,
           NEW s \in Requests, Answer(s)
    PROVE  RequestsKeepTheirOrder'
BY DEF TypeOK, RequestsKeepTheirOrder, StaysPlaced, UsesGateway, Answer, Idle

LEMMA RequestStepped ==
    ASSUME TypeOK, RequestsKeepTheirOrder, StaysPlaced, UNCHANGED minted,
           NEW s \in Requests, ~At(s, "idle"), NEW step \in RequestStep \ {"store"}, Step(s, step),
           step \in {"confirm", "reconfirm"} => ~UsesGateway(request[s].order),
           step \in {"stored", "mint"} => UsesGateway(request[s].order)
    PROVE  RequestsKeepTheirOrder'
<1> request[s] \in RequestState
    BY DEF TypeOK
<1>1. /\ request'[s].at = step
      /\ request'[s].order = request[s].order
      /\ request'[s].ref = request[s].ref
    BY DEF TypeOK, Step, RequestState
<1>2. \A t \in Requests : t # s => request'[t] = request[t]
    BY DEF TypeOK, Step
<1> QED BY <1>1, <1>2 DEF RequestsKeepTheirOrder, StaysPlaced, UsesGateway, At, RequestStep

LEMMA RequestOpened ==
    ASSUME TypeOK, RequestsKeepTheirOrder, StaysPlaced, UNCHANGED minted,
           NEW s \in Requests, NEW o \in Orders, NEW step \in {"hold", "rehold"},
           status'[o] # "none",
           request' = [request EXCEPT ![s] = [at |-> step, order |-> o, ref |-> NoRef]]
    PROVE  RequestsKeepTheirOrder'
BY DEF TypeOK, RequestsKeepTheirOrder, StaysPlaced, UsesGateway

LEMMA RefsUntouched ==
    ASSUME TypeOK, RefsPointBothWays, StaysPlaced, SamePayments,
           UNCHANGED <<gatewayOrderRef, minted>>
    PROVE  RefsPointBothWays'
BY DEF TypeOK, RefsPointBothWays, StaysPlaced, SamePayments, UsesGateway

LEMMA CaptureStillEnds ==
    ASSUME TypeOK, CaptureEndsPending, UNCHANGED gatewayOrderRef,
           \A g \in GatewayRefs : payment'[g] = "captured" => payment[g] = "captured",
           \A o \in Orders : Pending(o)' => Pending(o)
    PROVE  CaptureEndsPending'
BY DEF CaptureEndsPending, HasCaptured, CapturedFor

(* A gateway order belongs to one order.                                   *)
LEMMA OneOrderPerRef ==
    ASSUME TypeOK, RefsPointBothWays, NEW g \in GatewayRefs, NEW o \in Orders, NEW p \in Orders,
           gatewayOrderRef[o] = g, gatewayOrderRef[p] = g
    PROVE  o = p
BY NullsAreFresh DEF RefsPointBothWays

(* Steps that leave the trail alone but may move an order on.              *)
LEMMA TrailKept ==
    ASSUME TypeOK, MoneyTrail, StaysPlaced, SamePayments,
           UNCHANGED <<request, minted, gatewayOrderRef>>,
           \A g \in GatewayRefs : payment'[g] = "captured" => payment[g] = "captured",
           \A o \in Orders : Pending(o)' => Pending(o)
    PROVE  MoneyTrail'
BY RequestsUntouched, RefsUntouched, CaptureStillEnds DEF MoneyTrail

(* A capture and the end of pending_payment are one step.                  *)
LEMMA TrailCaptured ==
    ASSUME TypeOK, MoneyTrail, StaysPlaced, UNCHANGED <<request, minted, gatewayOrderRef>>,
           NEW g \in GatewayRefs, NEW o \in Orders, Concerns(g, o), ~Pending(o)',
           \A p \in Orders : Pending(p)' => Pending(p),
           payment' = [payment EXCEPT ![g] = "captured"]
    PROVE  MoneyTrail'
<1>1. SamePayments
    BY DEF TypeOK, SamePayments, Concerns
<1>2. ASSUME NEW p \in Orders, HasCaptured(p)' PROVE ~Pending(p)'
    <2>1. CASE p = o
        BY <2>1
    <2>2. CASE p # o
        <3>1. gatewayOrderRef[p] # g
            BY <2>2, OneOrderPerRef DEF MoneyTrail, Concerns
        <3>2. HasCaptured(p)
            BY <1>2, <3>1 DEF TypeOK, HasCaptured, CapturedFor
        <3> QED BY <3>2 DEF MoneyTrail, CaptureEndsPending
    <2> QED BY <2>1, <2>2
<1> QED BY <1>1, <1>2, RequestsUntouched, RefsUntouched DEF MoneyTrail, CaptureEndsPending
(* Requests keep acting on the order they found, TX-D and the webhook keep *)
(* reference and payments row together, and every handler that records a   *)
(* capture moves the order out of pending_payment with it.                 *)
THEOREM TrailStep == TypeOK /\ MoneyTrail /\ [Next]_vars => MoneyTrail'
<1> SUFFICES ASSUME TypeOK, MoneyTrail, [Next]_vars PROVE MoneyTrail'
    OBVIOUS
<1> USE DEF orderVars, moneyVars, gatewayVars
<1>1. ASSUME UNCHANGED <<status, gatewayOrderRef, payment, request, minted>> PROVE MoneyTrail'
    BY <1>1, TrailKept DEF StaysPlaced, SamePayments, Pending
<1>2. ASSUME NEW s \in Requests, UNCHANGED <<status, gatewayOrderRef, payment, minted>>,
             RequestsKeepTheirOrder'
      PROVE  MoneyTrail'
    <2>1. StaysPlaced /\ SamePayments
        BY <1>2 DEF StaysPlaced, SamePayments
    <2>2. RefsPointBothWays'
        BY <1>2, <2>1, RefsUntouched DEF MoneyTrail
    <2>3. CaptureEndsPending'
        BY <1>2, CaptureStillEnds DEF MoneyTrail, Pending
    <2> QED BY <1>2, <2>2, <2>3 DEF MoneyTrail
<1>3. ASSUME NEW s \in Requests, UNCHANGED <<status, gatewayOrderRef, payment, minted>>, Answer(s)
      PROVE  MoneyTrail'
    <2>1. StaysPlaced
        BY <1>3 DEF StaysPlaced
    <2> QED BY <1>2, <1>3, <2>1, RequestAnswered DEF MoneyTrail
<1>4. ASSUME NEW s \in Requests, NEW step \in RequestStep \ {"store"}, ~At(s, "idle"),
             UNCHANGED <<status, gatewayOrderRef, payment, minted>>, Step(s, step),
             step \in {"confirm", "reconfirm"} => ~UsesGateway(request[s].order),
             step \in {"stored", "mint"} => UsesGateway(request[s].order)
      PROVE  MoneyTrail'
    <2>1. StaysPlaced
        BY <1>4 DEF StaysPlaced
    <2>2. RequestsKeepTheirOrder'
        BY <1>4, <2>1, RequestStepped DEF MoneyTrail
    <2> QED BY <1>2, <1>4, <2>2
<1>5. ASSUME NEW s \in Requests, NEW o \in Orders, Start(s, o) PROVE MoneyTrail'
    <2>1. /\ status' = [status EXCEPT ![o] = "pending_payment"] /\ status[o] = "none"
          /\ request' = [request EXCEPT ![s] = [at |-> "hold", order |-> o, ref |-> NoRef]]
          /\ UNCHANGED <<gatewayOrderRef, payment, minted>>
        BY <1>5 DEF Start
    <2>2. StaysPlaced
        BY <2>1, MovedStaysPlaced DEF OrderStatus
    <2>3. RequestsKeepTheirOrder'
        BY <2>1, <2>2, RequestOpened DEF MoneyTrail, TypeOK
    <2>4. RefsPointBothWays'
        BY <2>1, <2>2, RefsUntouched DEF MoneyTrail, SamePayments
    <2>5. ASSUME NEW p \in Orders, HasCaptured(p)' PROVE ~Pending(p)'
        <3>1. HasCaptured(p)
            BY <2>1, <2>5 DEF HasCaptured, CapturedFor
        <3>2. p # o
            BY <2>1, <3>1, NullsAreFresh
            DEF MoneyTrail, RefsPointBothWays, HasCaptured, CapturedFor
        <3> QED BY <2>1, <3>1, <3>2 DEF MoneyTrail, CaptureEndsPending, Pending, TypeOK
    <2> QED BY <2>3, <2>4, <2>5 DEF MoneyTrail, CaptureEndsPending
<1>6. ASSUME NEW s \in Requests, NEW o \in Orders, Replay(s, o) PROVE MoneyTrail'
    <2>1. StaysPlaced /\ status'[o] # "none"
        BY <1>6 DEF Replay, StaysPlaced, Pending
    <2>2. RequestsKeepTheirOrder'
        BY <1>6, <2>1, RequestOpened DEF Replay, MoneyTrail
    <2> QED BY <1>2, <1>6, <2>2 DEF Replay
<1>7. ASSUME NEW s \in Requests, Hold(s) PROVE MoneyTrail'
    BY <1>4, <1>7 DEF Hold, At, RequestStep
<1>8. ASSUME NEW s \in Requests, HoldRefused(s) PROVE MoneyTrail'
    BY <1>4, <1>8 DEF HoldRefused, At, RequestStep
<1>9. ASSUME NEW s \in Requests, Extend(s) PROVE MoneyTrail'
    BY <1>3, <1>4, <1>9 DEF Extend, At, RequestStep
<1>10. ASSUME NEW s \in Requests, ExtendTooLate(s) PROVE MoneyTrail'
    BY <1>3, <1>10 DEF ExtendTooLate
<1>11. ASSUME NEW s \in Requests, ConfirmCod(s) PROVE MoneyTrail'
    <2>1. request[s].order \in Orders
        BY <1>11, RequestOrder DEF ConfirmCod, At
    <2>2. /\ status' = [status EXCEPT ![request[s].order] = "confirmed"]
          /\ Answer(s) /\ UNCHANGED <<gatewayOrderRef, payment, minted>>
        BY <1>11 DEF ConfirmCod, ConfirmOrder, Transition
    <2>3. StaysPlaced
        BY <2>1, <2>2, MovedStaysPlaced DEF OrderStatus
    <2>4. \A o \in Orders : Pending(o)' => Pending(o)
        BY <2>1, <2>2 DEF TypeOK, Pending
    <2> QED BY <2>2, <2>3, <2>4, RequestAnswered, RefsUntouched, CaptureStillEnds
            DEF MoneyTrail, SamePayments
<1>12. ASSUME NEW s \in Requests, ConfirmCodFails(s) PROVE MoneyTrail'
    BY <1>4, <1>12 DEF ConfirmCodFails, At, RequestStep
<1>13. ASSUME NEW s \in Requests, ConfirmCodTooLate(s) PROVE MoneyTrail'
    BY <1>3, <1>13 DEF ConfirmCodTooLate
<1>14. ASSUME NEW s \in Requests, CancelPending(s) PROVE MoneyTrail'
    <2>1. request[s].order \in Orders
        BY <1>14, RequestOrder DEF CancelPending, At
    <2>2. /\ \/ status' = [status EXCEPT ![request[s].order] = "cancelled"]
             \/ status' = status
          /\ Answer(s) /\ UNCHANGED <<gatewayOrderRef, payment, minted>>
        BY <1>14 DEF CancelPending, GiveUp, Transition
    <2>3. StaysPlaced
        BY <2>1, <2>2, MovedStaysPlaced DEF OrderStatus, StaysPlaced
    <2>4. \A o \in Orders : Pending(o)' => Pending(o)
        BY <2>1, <2>2 DEF TypeOK, Pending
    <2> QED BY <2>2, <2>3, <2>4, RequestAnswered, RefsUntouched, CaptureStillEnds
            DEF MoneyTrail, SamePayments
<1>15. ASSUME NEW s \in Requests, StoredRef(s) PROVE MoneyTrail'
    <2>1. UsesGateway(request[s].order)
        BY <1>15 DEF StoredRef, At, MoneyTrail, RequestsKeepTheirOrder
    <2> QED BY <1>3, <1>4, <1>15, <2>1 DEF StoredRef, At, RequestStep
<1>16. ASSUME NEW s \in Requests, NEW g \in GatewayRefs, Mint(s, g) PROVE MoneyTrail'
    <2> DEFINE o == request[s].order
    <2>1. /\ minted' = [minted EXCEPT ![g] = o] /\ minted[g] \in {NoOrder, o}
          /\ request' = [request EXCEPT ![s].at = "store", ![s].ref = g]
          /\ UNCHANGED <<status, gatewayOrderRef, payment>>
        BY <1>16 DEF Mint
    <2>2. o \in Orders /\ status[o] # "none" /\ UsesGateway(o)
        BY <1>16 DEF Mint, At, MoneyTrail, RequestsKeepTheirOrder
    <2>3. RequestsKeepTheirOrder'
        <3>1. request[s] \in RequestState
            BY DEF TypeOK
        <3>2. request'[s].at = "store" /\ request'[s].order = o /\ request'[s].ref = g
            BY <2>1, <3>1 DEF TypeOK, RequestState
        <3>3. minted'[g] = o
            BY <2>1 DEF TypeOK
        <3>4. ASSUME NEW t \in Requests, t # s
              PROVE  /\ request'[t] = request[t]
                     /\ request[t].at = "store" => minted'[request[t].ref] = request[t].order
            <4>1. request'[t] = request[t]
                BY <2>1, <3>4 DEF TypeOK
            <4>2. ASSUME request[t].at = "store" PROVE minted'[request[t].ref] = request[t].order
                BY <2>1, <2>2, <4>2, NullsAreFresh DEF TypeOK, MoneyTrail, RequestsKeepTheirOrder
            <4> QED BY <4>1, <4>2
        <3>5. UNCHANGED status
            BY <2>1
        <3> DEFINE KeepsOrder(r) ==
                /\ r.at # "idle" => r.order \in Orders /\ status[r.order] # "none"
                /\ r.at \in {"confirm", "reconfirm"} => ~UsesGateway(r.order)
                /\ r.at \in {"stored", "mint", "store"} => UsesGateway(r.order)
        <3>6. KeepsOrder(request'[s])
            BY <2>2, <3>2
        <3>7. ASSUME NEW t \in Requests, t # s PROVE KeepsOrder(request'[t])
            BY <3>4, <3>7 DEF MoneyTrail, RequestsKeepTheirOrder
        <3>8. ASSUME NEW t \in Requests, request'[t].at = "store"
              PROVE  request'[t].ref \in GatewayRefs /\ minted'[request'[t].ref] = request'[t].order
            BY <3>2, <3>3, <3>4, <3>8 DEF MoneyTrail, RequestsKeepTheirOrder
        <3>9. \A t \in Requests : KeepsOrder(request'[t])
            BY <3>6, <3>7
        <3> QED BY <3>5, <3>8, <3>9 DEF RequestsKeepTheirOrder, UsesGateway
    <2>4. RefsPointBothWays'
        BY <2>1, <2>2, NullsAreFresh DEF TypeOK, MoneyTrail, RefsPointBothWays, UsesGateway
    <2>5. CaptureEndsPending'
        BY <2>1, CaptureStillEnds DEF MoneyTrail, Pending
    <2> QED BY <2>3, <2>4, <2>5 DEF MoneyTrail
<1>17. ASSUME NEW s \in Requests, StoreRef(s) PROVE MoneyTrail'
    <2> DEFINE o == request[s].order
               g == request[s].ref
    <2>1. o \in Orders /\ g \in GatewayRefs /\ status[o] # "none" /\ UsesGateway(o) /\ minted[g] = o
        BY <1>17 DEF StoreRef, At, MoneyTrail, RequestsKeepTheirOrder
    <2>2. CASE LoserRef(o, g)
        BY <1>3, <1>17, <2>2 DEF StoreRef
    <2>3. CASE ~LoserRef(o, g)
        <3>1. /\ Answer(s) /\ Advance[o] > 0
              /\ gatewayOrderRef' = [gatewayOrderRef EXCEPT ![o] = g]
              /\ payment' = [payment EXCEPT ![g] = IF @ = "none" THEN "created" ELSE @]
              /\ UNCHANGED <<status, minted>>
            BY <1>17, <2>3 DEF StoreRef
        <3>2. gatewayOrderRef[o] \in {NoRef, g}
            BY <2>3 DEF LoserRef
        <3> HIDE DEF o, g
        <3>3. RequestsKeepTheirOrder'
            BY <3>1, RequestAnswered DEF MoneyTrail, StaysPlaced
        <3>4. RefsPointBothWays'
            BY <2>1, <3>1, <3>2, NullsAreFresh
            DEF TypeOK, MoneyTrail, RefsPointBothWays, UsesGateway
        <3>5. ASSUME NEW p \in Orders, HasCaptured(p)' PROVE HasCaptured(p)
            BY <2>1, <3>1, <3>2, <3>5, NullsAreFresh
            DEF TypeOK, MoneyTrail, RefsPointBothWays, HasCaptured, CapturedFor
        <3> QED BY <3>1, <3>3, <3>4, <3>5 DEF MoneyTrail, CaptureEndsPending, Pending
    <2> QED BY <2>2, <2>3
<1>18. ASSUME NEW s \in Requests, Crash(s) PROVE MoneyTrail'
    BY <1>3, <1>18 DEF Crash
<1>19. ASSUME NEW g \in GatewayRefs, Pay(g) \/ CaptureReplayed(g) PROVE MoneyTrail'
    BY <1>1, <1>19 DEF Pay, CaptureReplayed, Ack
<1>20. ASSUME NEW g \in GatewayRefs, CaptureMismatch(g) \/ PaymentFailed(g) PROVE MoneyTrail'
    <2>1. /\ payment' = [payment EXCEPT ![g] = "failed"] /\ payment[g] # "none"
          /\ UNCHANGED <<status, gatewayOrderRef, request, minted>>
        BY <1>20 DEF CaptureMismatch, PaymentFailed, Concerns, Ack
    <2>2. StaysPlaced /\ SamePayments
        BY <2>1 DEF TypeOK, StaysPlaced, SamePayments
    <2> QED BY <2>1, <2>2, TrailKept DEF TypeOK, Pending
<1>21. ASSUME NEW g \in GatewayRefs, NEW o \in Orders, LateCapture(g, o) PROVE MoneyTrail'
    <2>1. /\ payment' = [payment EXCEPT ![g] = "captured"] /\ Concerns(g, o) /\ ~Pending(o)
          /\ UNCHANGED <<status, gatewayOrderRef, request, minted>>
        BY <1>21 DEF LateCapture, Capture, Ack
    <2> QED BY <2>1, TrailCaptured DEF StaysPlaced, Pending
<1>22. ASSUME NEW g \in GatewayRefs, NEW o \in Orders, CaptureConfirms(g, o) PROVE MoneyTrail'
    <2>1. /\ payment' = [payment EXCEPT ![g] = "captured"] /\ Concerns(g, o)
          /\ status' = [status EXCEPT ![o] = "confirmed"]
          /\ UNCHANGED <<gatewayOrderRef, request, minted>>
        BY <1>22 DEF CaptureConfirms, ConfirmOrder, Transition, Capture, Ack
    <2>2. StaysPlaced
        BY <2>1, MovedStaysPlaced DEF OrderStatus
    <2> QED BY <2>1, <2>2, TrailCaptured DEF TypeOK, Pending
<1>23. ASSUME NEW h \in Hooks, NEW o \in Orders, OversoldCancel(h, o) PROVE MoneyTrail'
    <2>1. /\ hook[h] \in GatewayRefs /\ Concerns(hook[h], o)
          /\ UNCHANGED <<gatewayOrderRef, request, minted>>
        BY <1>23 DEF OversoldCancel, Ack, TypeOK
    <2>2. \/ status' = [status EXCEPT ![o] = "cancelled"]
          \/ status' = status /\ ~Pending(o)
        BY <1>23 DEF OversoldCancel, GiveUp, Transition
    <2>3. StaysPlaced
        BY <2>2, MovedStaysPlaced DEF OrderStatus, StaysPlaced
    <2>4. ~Pending(o)' /\ \A p \in Orders : Pending(p)' => Pending(p)
        BY <2>2 DEF TypeOK, Pending
    <2>5. CASE payment' = [payment EXCEPT ![hook[h]] = "captured"]
        BY <2>1, <2>3, <2>4, <2>5, TrailCaptured
    <2>6. CASE payment' = payment
        BY <2>1, <2>3, <2>4, <2>6, TrailKept DEF SamePayments
    <2> QED BY <1>23, <2>5, <2>6 DEF OversoldCancel, Capture
<1>24. ASSUME NEW o \in Orders, NEW to \in OrderStatus \ {"pending_payment"}, Transition(o, to),
              UNCHANGED <<gatewayOrderRef, payment, request, minted>>
       PROVE  MoneyTrail'
    <2>1. StaysPlaced
        BY <1>24, MovedStaysPlaced DEF Transition
    <2>2. \A p \in Orders : Pending(p)' => Pending(p)
        BY <1>24 DEF TypeOK, Transition, Pending
    <2> QED BY <1>24, <2>1, <2>2, TrailKept DEF SamePayments
<1>25. ASSUME NEW o \in Orders, ExpireCheckout(o) PROVE MoneyTrail'
    BY <1>24, <1>25 DEF ExpireCheckout, GiveUp, OrderStatus
<1>26. ASSUME NEW o \in Orders, CancelOrder(o) PROVE MoneyTrail'
    BY <1>24, <1>26 DEF CancelOrder, OrderStatus
<1>27. ASSUME NEW o \in Orders, NEW to \in OrderStatus, ManualTransition(o, to) PROVE MoneyTrail'
    <2>1. to # "pending_payment"
        BY <1>27 DEF ManualTransition, ManualTransitions
    <2> QED BY <1>24, <1>27, <2>1 DEF ManualTransition
<1>28. ASSUME NEW o \in Orders, TimeOut(o) \/ HoldLapses(o) \/ ReleaseHold(o)
              \/ (\E g \in GatewayRefs : RefundProcessed(g, o) \/ \E h \in Hooks : CaptureOversold(h, g, o))
       PROVE  MoneyTrail'
    BY <1>1, <1>28 DEF TimeOut, HoldLapses, ReleaseHold, RefundProcessed, CaptureOversold
<1>29. ASSUME NEW h \in Hooks, HookCrash(h) PROVE MoneyTrail'
    BY <1>1, <1>29 DEF HookCrash
<1>30. CASE UNCHANGED vars
    BY <1>1, <1>30 DEF vars
<1> QED BY <1>5, <1>6, <1>7, <1>8, <1>9, <1>10, <1>11, <1>12, <1>13, <1>14, <1>15, <1>16, <1>17,
           <1>18, <1>19, <1>20, <1>21, <1>22, <1>23, <1>25, <1>26, <1>27, <1>28, <1>29, <1>30
        DEF Next, RequestStepOf, DeliverCapture
--------------------------------------------------------------------------------
(* The books: what is owed back, and what counts as paid.                  *)

MoneyBooks == CapturedMoneyIsOwedBack /\ MoneyCounted

GivenUp == {"cancelled", "abandoned"}
SameCaptures == \A g \in GatewayRefs : payment'[g] = "captured" <=> payment[g] = "captured"
RefundsKept == \A g \in GatewayRefs : refund[g] # "none" => refund'[g] # "none"

LEMMA BooksUntouched ==
    ASSUME MoneyBooks, UNCHANGED <<status, amountPaid, gatewayOrderRef, payment, refund>>
    PROVE  MoneyBooks'
BY DEF MoneyBooks, CapturedMoneyIsOwedBack, MoneyCounted, HasCaptured, CapturedFor, UsesGateway

LEMMA BooksMoved ==
    ASSUME TypeOK, MoneyBooks, NEW o \in Orders, NEW to,
           status' = [status EXCEPT ![o] = to], status[o] # "delivered",
           UNCHANGED <<amountPaid, gatewayOrderRef>>, SameCaptures, RefundsKept,
           to \in GivenUp => \A g \in GatewayRefs : CapturedFor(g, o) => refund'[g] # "none",
           to \in Sold /\ UsesGateway(o) => HasCaptured(o)
    PROVE  MoneyBooks'
<1>1. \A p \in Orders : HasCaptured(p)' <=> HasCaptured(p)
    BY DEF SameCaptures, HasCaptured, CapturedFor
<1>2. status'[o] = to /\ \A p \in Orders : p # o => status'[p] = status[p]
    BY DEF TypeOK
<1>3. CapturedMoneyIsOwedBack'
    BY <1>2 DEF MoneyBooks, CapturedMoneyIsOwedBack, CapturedFor, SameCaptures, RefundsKept, GivenUp
<1>4. MoneyCounted'
    BY <1>1, <1>2 DEF MoneyBooks, MoneyCounted, UsesGateway
<1> QED BY <1>3, <1>4 DEF MoneyBooks

LEMMA BooksCaptured ==
    ASSUME TypeOK, MoneyTrail, MoneyBooks, NEW g \in GatewayRefs, NEW o \in Orders,
           Concerns(g, o), ~AlreadyCaptured(g), Capture(o, g), UNCHANGED gatewayOrderRef,
           \A p \in Orders : p # o => status'[p] = status[p], RefundsKept,
           status'[o] \in GivenUp => refund'[g] # "none"
    PROVE  MoneyBooks'
<1>1. /\ payment' = [payment EXCEPT ![g] = "captured"]
      /\ amountPaid' = [amountPaid EXCEPT ![o] = @ + Advance[o]]
    BY DEF Capture
<1>2. \A p \in Orders : p # o => gatewayOrderRef[p] # g
    BY OneOrderPerRef DEF MoneyTrail, Concerns
<1>3. ASSUME NEW p \in Orders, p # o, NEW f \in GatewayRefs
      PROVE  CapturedFor(f, p)' <=> CapturedFor(f, p)
    BY <1>1, <1>2, <1>3 DEF TypeOK, CapturedFor
<1>4. \A f \in GatewayRefs : CapturedFor(f, o)' <=> f = g
    BY <1>1 DEF TypeOK, CapturedFor, Concerns
<1>5. ~HasCaptured(o)
    BY DEF HasCaptured, CapturedFor, Concerns, AlreadyCaptured
<1>6. amountPaid[o] = 0
    <2>1. UsesGateway(o)
        BY NullsAreFresh DEF MoneyTrail, RefsPointBothWays, Concerns
    <2>2. status[o] # "delivered"
        BY <1>5, <2>1 DEF MoneyBooks, MoneyCounted, Sold
    <2> QED BY <1>5, <2>2 DEF MoneyBooks, MoneyCounted
<1>7. CapturedMoneyIsOwedBack'
    BY <1>3, <1>4 DEF MoneyBooks, CapturedMoneyIsOwedBack, RefundsKept, GivenUp
<1>8. MoneyCounted'
    <2>1. HasCaptured(o)' /\ amountPaid'[o] = Advance[o]
        <3>1. HasCaptured(o)'
            BY <1>4 DEF HasCaptured
        <3>2. Advance[o] \in Nat
            BY AttemptsAreWellFormed
        <3>3. amountPaid'[o] = Advance[o]
            BY <1>1, <1>6, <3>2 DEF TypeOK
        <3> QED BY <3>1, <3>3
    <2>2. ASSUME NEW p \in Orders, p # o
          PROVE  HasCaptured(p)' = HasCaptured(p) /\ amountPaid'[p] = amountPaid[p]
        BY <1>1, <1>3, <2>2 DEF TypeOK, HasCaptured
    <2> QED BY <2>1, <2>2 DEF MoneyBooks, MoneyCounted, UsesGateway
<1> QED BY <1>7, <1>8 DEF MoneyBooks

(* No handler loses or doubles captured money: processCaptured and         *)
(* oversoldCancel against each other, expireCheckout, cancelOrder and the  *)
(* merchant's transitions.                                                 *)
THEOREM BooksStep == TypeOK /\ MoneyTrail /\ MoneyBooks /\ [Next]_vars => MoneyBooks'
<1> SUFFICES ASSUME TypeOK, MoneyTrail, MoneyBooks, [Next]_vars PROVE MoneyBooks'
    OBVIOUS
<1> USE DEF orderVars, moneyVars
<1>1. ASSUME NEW s \in Requests, NEW o \in Orders, Start(s, o) PROVE MoneyBooks'
    BY <1>1, BooksMoved DEF Start, SameCaptures, RefundsKept, GivenUp, Sold
<1>2. ASSUME NEW s \in Requests, ConfirmCod(s) PROVE MoneyBooks'
    <2> DEFINE o == request[s].order
    <2>1. o \in Orders /\ ~UsesGateway(o)
        BY <1>2 DEF ConfirmCod, At, MoneyTrail, RequestsKeepTheirOrder
    <2>2. /\ status' = [status EXCEPT ![o] = "confirmed"]
          /\ status[o] = "pending_payment"
          /\ UNCHANGED <<amountPaid, gatewayOrderRef, payment, refund>>
        BY <1>2 DEF ConfirmCod, ConfirmOrder, Transition, Pending
    <2>3. SameCaptures /\ RefundsKept /\ "confirmed" \notin GivenUp
        BY <2>2 DEF SameCaptures, RefundsKept, GivenUp
    <2> HIDE DEF o
    <2> QED BY <2>1, <2>2, <2>3, BooksMoved
<1>3. ASSUME NEW o \in Orders, NEW to \in GivenUp, GiveUp(o, to),
             UNCHANGED <<amountPaid, gatewayOrderRef, payment, refund>>
      PROVE  MoneyBooks'
    <2>1. ~HasCaptured(o)
        BY <1>3 DEF GiveUp, MoneyTrail, CaptureEndsPending
    <2> QED BY <1>3, <2>1, BooksMoved
            DEF GiveUp, Transition, Pending, SameCaptures, RefundsKept, GivenUp, Sold, HasCaptured
<1>4. ASSUME NEW s \in Requests, CancelPending(s) PROVE MoneyBooks'
    <2>1. request[s].order \in Orders
        BY <1>4, RequestOrder DEF CancelPending, At
    <2> QED BY <1>3, <1>4, <2>1, BooksUntouched DEF CancelPending, GivenUp
<1>5. ASSUME NEW s \in Requests, StoreRef(s) PROVE MoneyBooks'
    <2> DEFINE o == request[s].order
               g == request[s].ref
    <2>1. o \in Orders /\ g \in GatewayRefs /\ minted[g] = o
        BY <1>5 DEF StoreRef, At, MoneyTrail, RequestsKeepTheirOrder
    <2>2. CASE LoserRef(o, g)
        BY <1>5, <2>2, BooksUntouched DEF StoreRef
    <2>3. CASE ~LoserRef(o, g)
        <3>1. /\ gatewayOrderRef' = [gatewayOrderRef EXCEPT ![o] = g]
              /\ payment' = [payment EXCEPT ![g] = IF @ = "none" THEN "created" ELSE @]
              /\ UNCHANGED <<status, amountPaid, refund>>
            BY <1>5, <2>3 DEF StoreRef
        <3>2. gatewayOrderRef[o] \in {NoRef, g}
            BY <2>3 DEF LoserRef
        <3> HIDE DEF o, g
        <3>3. \A p \in Orders, f \in GatewayRefs : CapturedFor(f, p)' <=> CapturedFor(f, p)
            BY <2>1, <3>1, <3>2, NullsAreFresh
            DEF TypeOK, MoneyTrail, RefsPointBothWays, CapturedFor
        <3> QED BY <3>1, <3>3
                DEF MoneyBooks, CapturedMoneyIsOwedBack, MoneyCounted, HasCaptured, UsesGateway
    <2> QED BY <2>2, <2>3
<1>6. ASSUME NEW g \in GatewayRefs, CaptureMismatch(g) \/ PaymentFailed(g) PROVE MoneyBooks'
    <2>1. /\ payment' = [payment EXCEPT ![g] = "failed"] /\ payment[g] # "captured"
          /\ UNCHANGED <<status, amountPaid, gatewayOrderRef, refund>>
        BY <1>6 DEF CaptureMismatch, PaymentFailed, AlreadyCaptured
    <2>2. \A p \in Orders, f \in GatewayRefs : CapturedFor(f, p)' <=> CapturedFor(f, p)
        BY <2>1 DEF TypeOK, CapturedFor
    <2> QED BY <2>1, <2>2
            DEF MoneyBooks, CapturedMoneyIsOwedBack, MoneyCounted, HasCaptured, UsesGateway
<1>7. ASSUME NEW g \in GatewayRefs, NEW o \in Orders, LateCapture(g, o) PROVE MoneyBooks'
    <2>1. RefundsKept /\ refund'[g] # "none"
        BY <1>7 DEF LateCapture, RefundIntent, RefundsKept, TypeOK
    <2> QED BY <1>7, <2>1, BooksCaptured DEF LateCapture
<1>8. ASSUME NEW g \in GatewayRefs, NEW o \in Orders, CaptureConfirms(g, o) PROVE MoneyBooks'
    <2>1. status' = [status EXCEPT ![o] = "confirmed"]
        BY <1>8 DEF CaptureConfirms, ConfirmOrder, Transition
    <2>2. status'[o] \notin GivenUp /\ \A p \in Orders : p # o => status'[p] = status[p]
        BY <2>1 DEF TypeOK, GivenUp
    <2> QED BY <1>8, <2>2, BooksCaptured DEF CaptureConfirms, RefundsKept
<1>9. ASSUME NEW h \in Hooks, NEW o \in Orders, OversoldCancel(h, o) PROVE MoneyBooks'
    <2> DEFINE g == hook[h]
    <2>1. g \in GatewayRefs /\ Concerns(g, o) /\ UNCHANGED gatewayOrderRef
        BY <1>9 DEF OversoldCancel, TypeOK
    <2>2. RefundsKept /\ refund'[g] # "none"
        BY <1>9, <2>1 DEF OversoldCancel, RefundIntent, RefundsKept, TypeOK
    <2>3. \A p \in Orders : p # o => status'[p] = status[p]
        BY <1>9 DEF OversoldCancel, GiveUp, Transition, TypeOK
    <2>4. CASE ~AlreadyCaptured(g)
        <3>1. Capture(o, g)
            BY <1>9, <2>4 DEF OversoldCancel
        <3> QED BY <2>1, <2>2, <2>3, <2>4, <3>1, BooksCaptured
    <2>5. CASE AlreadyCaptured(g)
        <3>1. UNCHANGED <<payment, amountPaid>>
            BY <1>9, <2>5 DEF OversoldCancel
        <3>2. HasCaptured(o)
            BY <2>1, <2>5 DEF HasCaptured, CapturedFor, Concerns, AlreadyCaptured
        <3>3. UNCHANGED status
            BY <1>9, <3>2 DEF OversoldCancel, GiveUp, MoneyTrail, CaptureEndsPending
        <3> QED BY <2>1, <2>2, <3>1, <3>3
                DEF MoneyBooks, CapturedMoneyIsOwedBack, MoneyCounted, HasCaptured, CapturedFor,
                    UsesGateway, RefundsKept
    <2> QED BY <2>4, <2>5
<1>10. ASSUME NEW g \in GatewayRefs, NEW o \in Orders, RefundProcessed(g, o) PROVE MoneyBooks'
    <2>1. RefundsKept /\ UNCHANGED <<status, amountPaid, gatewayOrderRef, payment>>
        BY <1>10 DEF RefundProcessed, RefundsKept, TypeOK
    <2> QED BY <2>1 DEF MoneyBooks, CapturedMoneyIsOwedBack, MoneyCounted, HasCaptured, CapturedFor,
                        UsesGateway, RefundsKept
<1>11. ASSUME NEW o \in Orders, ExpireCheckout(o) PROVE MoneyBooks'
    BY <1>3, <1>11 DEF ExpireCheckout, GivenUp
<1>12. ASSUME NEW o \in Orders, CancelOrder(o) PROVE MoneyBooks'
    <2>1. /\ status' = [status EXCEPT ![o] = "cancelled"] /\ status[o] \in CancellableByStaff
          /\ UNCHANGED <<amountPaid, gatewayOrderRef, payment>>
        BY <1>12 DEF CancelOrder, Transition
    <2>2. RefundsKept
        BY <1>12 DEF CancelOrder, RefundIntent, RefundsKept, TypeOK
    <2>3. ASSUME NEW g \in GatewayRefs, CapturedFor(g, o) PROVE refund'[g] # "none"
        <3>1. HasCaptured(o) /\ minted[g] = o /\ AlreadyCaptured(g) /\ Advance[o] > 0
            BY <2>3, NullsAreFresh
            DEF HasCaptured, CapturedFor, AlreadyCaptured, MoneyTrail, RefsPointBothWays
        <3>2. amountPaid[o] > 0
            BY <2>1, <3>1 DEF MoneyBooks, MoneyCounted, CancellableByStaff
        <3>3. PICK f \in GatewayRefs : minted[f] = o /\ AlreadyCaptured(f) /\ RefundIntent(f)
            BY <1>12, <3>1, <3>2, AttemptsAreWellFormed DEF CancelOrder, TypeOK
        <3>4. f = g
            BY <2>3, <3>3 DEF CapturedFor, AlreadyCaptured, MoneyTrail, RefsPointBothWays
        <3> QED BY <3>3, <3>4 DEF RefundIntent, TypeOK
    <2> QED BY <2>1, <2>2, <2>3, BooksMoved DEF SameCaptures, CancellableByStaff, GivenUp, Sold
<1>13. ASSUME NEW o \in Orders, NEW to \in OrderStatus, ManualTransition(o, to) PROVE MoneyBooks'
    <2>1. /\ status' = [status EXCEPT ![o] = to] /\ <<status[o], to>> \in ManualTransitions
          /\ UNCHANGED <<gatewayOrderRef, payment, refund>>
        BY <1>13 DEF ManualTransition, Transition
    <2>2. status[o] \in Sold /\ to \in Sold /\ status[o] # "delivered" /\ to \notin GivenUp
        BY <2>1 DEF ManualTransitions, Sold, GivenUp
    <2>3. CASE CollectsCod(o, to)
        <3>1. to = "delivered" /\ amountPaid' = [amountPaid EXCEPT ![o] = Total[o]]
            BY <1>13, <2>3 DEF ManualTransition, CollectsCod
        <3>2. CapturedMoneyIsOwedBack'
            BY <2>1, <2>2 DEF TypeOK, MoneyBooks, CapturedMoneyIsOwedBack, CapturedFor, GivenUp
        <3>3. MoneyCounted'
            <4>1. status'[o] = "delivered" /\ amountPaid'[o] = Total[o]
                BY <2>1, <3>1 DEF TypeOK
            <4>2. UsesGateway(o) => HasCaptured(o)'
                BY <2>1, <2>2 DEF MoneyBooks, MoneyCounted, HasCaptured, CapturedFor
            <4>3. ASSUME NEW p \in Orders, p # o
                  PROVE  /\ status'[p] = status[p] /\ amountPaid'[p] = amountPaid[p]
                         /\ HasCaptured(p)' = HasCaptured(p)
                BY <2>1, <3>1, <4>3 DEF TypeOK, HasCaptured, CapturedFor
            <4> QED BY <4>1, <4>2, <4>3 DEF MoneyBooks, MoneyCounted, UsesGateway
        <3> QED BY <3>2, <3>3 DEF MoneyBooks
    <2>4. CASE ~CollectsCod(o, to)
        <3>1. UNCHANGED amountPaid
            BY <1>13, <2>4 DEF ManualTransition
        <3>2. UsesGateway(o) => HasCaptured(o)
            BY <2>2 DEF MoneyBooks, MoneyCounted
        <3> QED BY <2>1, <2>2, <3>1, <3>2, BooksMoved DEF SameCaptures, RefundsKept
    <2> QED BY <2>3, <2>4
<1>14. ASSUME NEW s \in Requests,
              \/ (\E o \in Orders : Replay(s, o)) \/ Hold(s) \/ HoldRefused(s) \/ Extend(s)
              \/ ExtendTooLate(s) \/ ConfirmCodFails(s) \/ ConfirmCodTooLate(s)
              \/ StoredRef(s) \/ (\E g \in GatewayRefs : Mint(s, g)) \/ Crash(s)
       PROVE  MoneyBooks'
    BY <1>14, BooksUntouched
    DEF Replay, Hold, HoldRefused, Extend, ExtendTooLate, ConfirmCodFails, ConfirmCodTooLate,
        StoredRef, Mint, Crash
<1>15. ASSUME NEW g \in GatewayRefs,
              \/ Pay(g) \/ CaptureReplayed(g)
              \/ \E h \in Hooks, o \in Orders : CaptureOversold(h, g, o)
       PROVE  MoneyBooks'
    BY <1>15, BooksUntouched DEF Pay, CaptureReplayed, CaptureOversold
<1>16. ASSUME NEW o \in Orders, TimeOut(o) \/ HoldLapses(o) \/ ReleaseHold(o) PROVE MoneyBooks'
    BY <1>16, BooksUntouched DEF TimeOut, HoldLapses, ReleaseHold
<1>17. ASSUME NEW h \in Hooks, HookCrash(h) PROVE MoneyBooks'
    BY <1>17, BooksUntouched DEF HookCrash
<1>18. CASE UNCHANGED vars
    BY <1>18, BooksUntouched DEF vars
<1> QED BY <1>1, <1>2, <1>4, <1>5, <1>6, <1>7, <1>8, <1>9, <1>10, <1>11, <1>12, <1>13, <1>14,
           <1>15, <1>16, <1>17, <1>18
        DEF Next, RequestStepOf, DeliverCapture
--------------------------------------------------------------------------------
(* A payments row is never unwritten, and a request or delivery that hands *)
(* a reference to a buyer hands out the stored one.                        *)
LEMMA HandedOut ==
    ASSUME TypeOK', MoneyTrail', ShownRefsAreStored,
           \A g \in GatewayRefs : payment[g] # "none" => payment'[g] # "none",
           \A g \in shown' : g \in shown \/ payment'[g] # "none"
    PROVE  ShownRefsAreStored'
<1> SUFFICES ASSUME NEW g \in shown'
             PROVE  payment'[g] # "none" /\ minted'[g] \in Orders /\ gatewayOrderRef'[minted'[g]] = g
    BY DEF ShownRefsAreStored
<1>1. g \in GatewayRefs
    BY DEF TypeOK
<1>2. payment'[g] # "none"
    BY <1>1 DEF ShownRefsAreStored
<1> QED BY <1>1, <1>2 DEF MoneyTrail, RefsPointBothWays

(* "A superseded ref strands captured money": no step hands a buyer a      *)
(* gateway order that is not its order's stored reference, and none takes  *)
(* the row the webhook looks up away again.                                *)
THEOREM ShownStep ==
    TypeOK /\ MoneyTrail /\ ShownRefsAreStored /\ [Next]_vars => ShownRefsAreStored'
<1> SUFFICES ASSUME TypeOK, MoneyTrail, ShownRefsAreStored, [Next]_vars
             PROVE  ShownRefsAreStored'
    OBVIOUS
<1> USE DEF orderVars, moneyVars
<1> DEFINE RowsStay == \A g \in GatewayRefs : payment[g] # "none" => payment'[g] # "none"
           ShownHaveRows == \A g \in shown' : g \in shown \/ payment'[g] # "none"
<1>1. TypeOK' /\ MoneyTrail'
    BY TypeStep, TrailStep
<1>2. ASSUME UNCHANGED <<payment, shown>> PROVE RowsStay /\ ShownHaveRows
    BY <1>2
<1>3. ASSUME NEW s \in Requests, Extend(s) \/ StoredRef(s) PROVE RowsStay /\ ShownHaveRows
    <2> DEFINE g == gatewayOrderRef[request[s].order]
    <2>1. UNCHANGED payment /\ ((UNCHANGED shown) \/ (g # NoRef /\ shown' = shown \cup {g}))
        <3>1. CASE Extend(s)
            BY <3>1 DEF Extend
        <3>2. CASE StoredRef(s)
            BY <3>2 DEF StoredRef
        <3> QED BY <1>3, <3>1, <3>2
    <2>2. request[s].order \in Orders
        BY <1>3, RequestOrder DEF Extend, StoredRef, At
    <2>3. g # NoRef => payment[g] # "none"
        BY <2>2 DEF MoneyTrail, RefsPointBothWays
    <2> QED BY <2>1, <2>3
<1>4. ASSUME NEW s \in Requests, StoreRef(s) PROVE RowsStay /\ ShownHaveRows
    <2> DEFINE o == request[s].order
               g == request[s].ref
    <2>1. o \in Orders /\ g \in GatewayRefs
        BY <1>4, RequestOrder DEF StoreRef, At, MoneyTrail, RequestsKeepTheirOrder
    <2>2. CASE LoserRef(o, g)
        <3>1. UNCHANGED payment /\ shown' = shown \cup {gatewayOrderRef[o]}
            BY <1>4, <2>2 DEF StoreRef
        <3>2. payment[gatewayOrderRef[o]] # "none"
            BY <2>1, <2>2 DEF LoserRef, MoneyTrail, RefsPointBothWays
        <3> QED BY <3>1, <3>2
    <2>3. CASE ~LoserRef(o, g)
        <3>1. /\ payment' = [payment EXCEPT ![g] = IF @ = "none" THEN "created" ELSE @]
              /\ shown' = shown \cup {g}
            BY <1>4, <2>3 DEF StoreRef
        <3> HIDE DEF o, g
        <3> QED BY <2>1, <3>1 DEF TypeOK
    <2> QED BY <2>2, <2>3
<1>5. ASSUME NEW g \in GatewayRefs,
             \/ CaptureMismatch(g) \/ PaymentFailed(g)
             \/ \E o \in Orders : LateCapture(g, o) \/ CaptureConfirms(g, o)
      PROVE  RowsStay /\ ShownHaveRows
    BY <1>5 DEF CaptureMismatch, PaymentFailed, LateCapture, CaptureConfirms, Capture, TypeOK
<1>6. ASSUME NEW h \in Hooks, NEW o \in Orders, OversoldCancel(h, o)
      PROVE  RowsStay /\ ShownHaveRows
    BY <1>6 DEF OversoldCancel, Capture, TypeOK
<1>7. ASSUME NEW s \in Requests,
             \/ (\E o \in Orders : Start(s, o) \/ Replay(s, o)) \/ Hold(s) \/ HoldRefused(s)
             \/ ExtendTooLate(s) \/ ConfirmCod(s) \/ ConfirmCodFails(s)
             \/ ConfirmCodTooLate(s) \/ CancelPending(s)
             \/ (\E g \in GatewayRefs : Mint(s, g)) \/ Crash(s)
      PROVE  RowsStay /\ ShownHaveRows
    BY <1>7, <1>2 DEF Start, Replay, Hold, HoldRefused, ExtendTooLate, ConfirmCod, ConfirmCodFails,
                      ConfirmCodTooLate, CancelPending, Mint, Crash
<1>8. ASSUME NEW g \in GatewayRefs,
             \/ Pay(g) \/ CaptureReplayed(g)
             \/ \E o \in Orders : RefundProcessed(g, o) \/ \E h \in Hooks : CaptureOversold(h, g, o)
      PROVE  RowsStay /\ ShownHaveRows
    BY <1>8, <1>2 DEF Pay, CaptureReplayed, RefundProcessed, CaptureOversold
<1>9. ASSUME NEW h \in Hooks, HookCrash(h) PROVE RowsStay /\ ShownHaveRows
    BY <1>9, <1>2 DEF HookCrash
<1>10. ASSUME NEW o \in Orders,
              \/ TimeOut(o) \/ HoldLapses(o) \/ ExpireCheckout(o) \/ ReleaseHold(o) \/ CancelOrder(o)
              \/ \E to \in OrderStatus : ManualTransition(o, to)
       PROVE  RowsStay /\ ShownHaveRows
    BY <1>10, <1>2 DEF TimeOut, HoldLapses, ExpireCheckout, ReleaseHold, CancelOrder, ManualTransition
<1>11. ASSUME UNCHANGED vars PROVE RowsStay /\ ShownHaveRows
    BY <1>11, <1>2 DEF vars
<1>12. RowsStay /\ ShownHaveRows
    <2> HIDE DEF RowsStay, ShownHaveRows
    <2> QED BY <1>3, <1>4, <1>5, <1>6, <1>7, <1>8, <1>9, <1>10, <1>11
            DEF Next, RequestStepOf, DeliverCapture
<1> QED BY <1>1, <1>12, HandedOut
--------------------------------------------------------------------------------
(* The inductive invariant, and what it gives of every reachable state.    *)
Books == /\ TypeOK /\ MoneyTrail /\ CartsClaimedOnce
         /\ ShownRefsAreStored /\ MoneyBooks

LEMMA BooksInit == Init => Books
<1> SUFFICES ASSUME Init PROVE Books
    OBVIOUS
<1> USE AttemptsAreWellFormed, StockIsNatural, BoundsAreNaturals, NullsAreFresh DEF Init
<1>1. TypeOK
    BY DEF TypeOK, RequestState, RequestStep, Idle
<1>2. MoneyTrail
    BY DEF MoneyTrail, RequestsKeepTheirOrder, RefsPointBothWays, CaptureEndsPending, HasCaptured,
           CapturedFor, Idle
<1>3. CartsClaimedOnce
    BY DEF CartsClaimedOnce, Claims, Pending, Sold
<1>4. ShownRefsAreStored
    BY DEF ShownRefsAreStored
<1>5. MoneyBooks
    BY DEF MoneyBooks, CapturedMoneyIsOwedBack, MoneyCounted, HasCaptured, CapturedFor, Sold
<1> QED BY <1>1, <1>2, <1>3, <1>4, <1>5 DEF Books

LEMMA BooksKept == Spec => []Books
<1>1. Books /\ [Next]_vars => Books'
    BY TypeStep, TrailStep, CartStep, ShownStep, BooksStep DEF Books
<1> QED BY <1>1, BooksInit, PTL DEF Spec

(* Every row keeps its type: no capture, redelivery or staff cancel drives *)
(* a quantity below nothing or an order out of the status table.           *)
THEOREM TypeCorrect == Spec => []TypeOK
<1>1. Books => TypeOK
    BY DEF Books
<1> QED BY <1>1, BooksKept, PTL

(* The reference, the payments row and the gateway's order point at each   *)
(* other, and no order with captured money is pending.                     *)
THEOREM TrailHolds == Spec => []MoneyTrail
<1>1. Books => MoneyTrail
    BY DEF Books
<1> QED BY <1>1, BooksKept, PTL

(* Two checkouts, a replay, a cancel and an expiry of one cart: it is      *)
(* claimed by one order at a time and never again once it was sold.        *)
THEOREM CartsAreClaimedOnce == Spec => []CartsClaimedOnce
<1>1. Books => CartsClaimedOnce
    BY DEF Books
<1> QED BY <1>1, BooksKept, PTL

(* No buyer is ever handed a gateway order the webhook would not know.     *)
THEOREM ShownRefsStayStored == Spec => []ShownRefsAreStored
<1>1. Books => ShownRefsAreStored
    BY DEF Books
<1> QED BY <1>1, BooksKept, PTL

(* Captured money of an order that was cancelled or abandoned always has   *)
(* its refund row, whoever won.                                            *)
THEOREM CapturedMoneyIsAlwaysOwed == Spec => []CapturedMoneyIsOwedBack
<1>1. Books => CapturedMoneyIsOwedBack
    BY DEF Books, MoneyBooks
<1> QED BY <1>1, BooksKept, PTL

(* A capture delivered twice, late or cut short counts once, and no goods  *)
(* are sold against money that was not captured.                           *)
THEOREM MoneyIsCountedOnce == Spec => []MoneyCounted
<1>1. Books => MoneyCounted
    BY DEF Books, MoneyBooks
<1> QED BY <1>1, BooksKept, PTL
================================================================================
