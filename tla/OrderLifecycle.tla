----------------------------- MODULE OrderLifecycle -----------------------------
(***************************************************************************)
(* packages/core/src/orders/index.ts: the order states and the edges       *)
(* between them, as data.                                                  *)
(***************************************************************************)

OrderStatus == {"pending_payment", "confirmed", "processing", "ready_to_ship", "shipped",
                "out_for_delivery", "delivered", "rto_initiated", "rto_delivered",
                "return_requested", "return_picked", "refunded", "abandoned", "cancelled"}

(* ORDER_TRANSITIONS: where an order may go from each status.              *)
Transitions(from) ==
    CASE from = "pending_payment"  -> {"confirmed", "abandoned", "cancelled"}
      [] from = "confirmed"        -> {"processing", "cancelled"}
      [] from = "processing"       -> {"ready_to_ship", "cancelled"}
      [] from = "ready_to_ship"    -> {"shipped"}
      [] from = "shipped"          -> {"out_for_delivery", "rto_initiated"}
      [] from = "out_for_delivery" -> {"delivered", "rto_initiated"}
      [] from = "rto_initiated"    -> {"rto_delivered"}
      [] from = "delivered"        -> {"return_requested"}
      [] from = "return_requested" -> {"return_picked"}
      [] from = "return_picked"    -> {"refunded"}
      [] OTHER                     -> {}

CanTransition(from, to) == to \in Transitions(from)

(* MANUAL_ORDER_TRANSITIONS: the ladder staff may click an order up.       *)
ManualTransitions ==
    {<<"confirmed", "processing">>, <<"processing", "ready_to_ship">>,
     <<"ready_to_ship", "shipped">>, <<"shipped", "out_for_delivery">>,
     <<"out_for_delivery", "delivered">>}

(* CANCELLABLE_BY_STAFF: what the console may still cancel.                *)
CancellableByStaff == {"confirmed", "processing"}

(* A buyer's order the shop has committed to: confirmed or further along.  *)
Sold == {"confirmed", "processing", "ready_to_ship", "shipped", "out_for_delivery", "delivered"}
================================================================================
