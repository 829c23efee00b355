------------------------------- MODULE MCInventory -------------------------------
(* Small instances of Inventory for TLC: a stocked pair of variants, which *)
(* buyers and a merchant want, or a pair that was never stocked, which     *)
(* only receives adjustments.                                              *)
EXTENDS Inventory

CONSTANTS r1, r2, k1, p1, p2, p3

Connections == Permutations({p1, p2})

Line(v, q) == [w \in Variants |-> IF w = v THEN q ELSE 0]
Adjust(v, delta, key) == [op |-> "adjust", ref |-> NoRef, lines |-> Line(v, delta), key |-> key]
Call(op, r, lines) == [op |-> op, ref |-> r, lines |-> lines, key |-> NoKey]
Each(pair) == [v \in Variants |-> IF v \in pair THEN 1 ELSE 0]
Shelved == {1, 2}
Bare == {3, 4}

StockedPair == Each(Shelved)

(* Two buyers of the same pair of variants, a merchant correcting stock.   *)
BuyersAndMerchant ==
    {Call(op, r, Each(Shelved)) : op \in {"hold", "consume"}, r \in {r1, r2}}
    \cup {Call("restock", r1, Line(1, 1)), Adjust(1, -1, NoKey)}

(* Adjustments only, with and without a key, of never stocked variants.    *)
Adjustments ==
    {Adjust(3, 1, k1), Adjust(3, 1, NoKey), Adjust(3, 2, k1), Adjust(3, -1, NoKey),
     Adjust(4, 1, k1), Call("restock", r1, Each(Bare))}
AllCalls == BuyersAndMerchant \cup Adjustments

VARIABLE stocked  \* whether the behaviour is about the stocked pair
Wanted == IF stocked THEN BuyersAndMerchant ELSE Adjustments
InitEither == Init /\ stocked \in BOOLEAN
SpecEither ==
    /\ InitEither
    /\ [][/\ Next /\ UNCHANGED stocked
          /\ \A p \in Procs : tx'[p].open => tx'[p].call \in Wanted
          /\ IF stocked THEN tx'[p3] = tx[p3] ELSE clock' = clock /\ catalog' = catalog
         ]_<<vars, stocked>>
================================================================================
