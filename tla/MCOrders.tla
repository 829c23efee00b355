--------------------------------- MODULE MCOrders ---------------------------------
(***************************************************************************)
(* Two instances of Checkout in one run: two carts, tried prepaid and      *)
(* part-advance, or one cart tried prepaid and on delivery.                *)
(***************************************************************************)
EXTENDS MCCheckout

PairedCarts == [o \in Orders |-> IF o = o1 THEN c1 ELSE IF o = o2 THEN c2 ELSE c3]
PairedModes == [o \in Orders |->
    IF o = o2 THEN "cod_advance" ELSE IF o = o4 THEN "cod" ELSE "prepaid"]
PairedAdvances == [o \in Orders |-> IF o = o2 THEN 1 ELSE IF o = o4 THEN 0 ELSE 2]

VARIABLE pair     \* which two attempts the behaviour is about
InitEither == Init /\ pair \in {{o1, o2}, {o3, o4}}
SpecEither ==
    /\ InitEither
    /\ [][Next /\ UNCHANGED pair /\ \A o \in Orders \ pair : status'[o] = "none"]_<<vars, pair>>
================================================================================
