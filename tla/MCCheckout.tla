-------------------------------- MODULE MCCheckout --------------------------------
(* Small instances of Checkout for TLC: two attempts on one unit of stock. *)
EXTENDS Checkout, TLC

CONSTANTS o1, o2, o3, o4, c1, c2, c3, v1

(* Sound for safety only: the liveness run does not use it.              *)
Interchangeable == Permutations(GatewayRefs) \cup Permutations(Requests) \cup Permutations(Hooks)

TwoCarts == [o \in Orders |-> IF o = o1 THEN c1 ELSE c2]
OneUnitEach == [o \in Orders |-> [v \in Variants |-> 1]]
OneUnit == [v \in Variants |-> 1]

PrepaidAndAdvance == [o \in Orders |-> IF o = o1 THEN "prepaid" ELSE "cod_advance"]
BothPrepaid == [o \in Orders |-> "prepaid"]
Two == [o \in Orders |-> 2]
AllOrNothing == [o \in Orders |-> IF o = o1 THEN 2 ELSE 0]
AllOrHalf == [o \in Orders |-> IF o = o1 THEN 2 ELSE 1]
================================================================================
