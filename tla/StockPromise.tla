------------------------------ MODULE StockPromise ------------------------------
(***************************************************************************)
(* What stock keeping promises its callers, whatever transactions, row     *)
(* locks, clocks and clean-up jobs it is made of: a buyer who was granted  *)
(* a hold keeps those units until the buyer's own checkout gives them up   *)
(* or time runs out, and the shelf always holds at least what is promised. *)
(*                                                                         *)
(* Inventory.tla implements this specification with sorted row locks and   *)
(* an expires_at column; Checkout.tla composes it with the order lifecycle.*)
(***************************************************************************)
EXTENDS Integers, FiniteSetsExt

CONSTANTS
    Variants,   \* the sellable variants
    Refs,       \* who may hold stock: one reference per order
    Quantities  \* the quantities one line of a request may carry

VARIABLES
    onHand,     \* units on the shelf, per variant
    promised    \* promised[r][v]: units of v kept for reference r right now

NoLines == [v \in Variants |-> 0]
Lines == [Variants -> Quantities \cup {0}]

PromisedIn(p, R, v) == MapThenSumSet(LAMBDA r : p[r][v], R)

(* Every promise in p is covered by what would be on the shelf, which is   *)
(* never less than nothing.                                                *)
Covers(shelf, p) == \A v \in Variants :
    0 <= shelf[v] /\ PromisedIn(p, Refs, v) <= shelf[v]

Give(r, lines) == [promised EXCEPT ![r] = lines]

(* A hold is granted whole or not at all, and replaces the reference's own *)
(* earlier hold.                                                           *)
Grant(r, lines) ==
    /\ promised' = Give(r, lines)
    /\ Covers(onHand, promised')
    /\ UNCHANGED onHand

Release(r) ==
    /\ promised' = Give(r, NoLines)
    /\ UNCHANGED onHand

(* A sale takes the units off the shelf and ends the buyer's own hold; it  *)
(* never takes what is promised to another buyer.                          *)
Sell(r, lines) ==
    /\ promised' = Give(r, NoLines)
    /\ onHand' = [v \in Variants |-> onHand[v] - lines[v]]
    /\ Covers(onHand', promised')

Restock(lines) ==
    /\ onHand' = [v \in Variants |-> onHand[v] + lines[v]]
    /\ UNCHANGED promised

(* A merchant's correction: downwards only as far as the promises allow.   *)
Adjust(v, delta) ==
    /\ onHand' = [onHand EXCEPT ![v] = @ + delta]
    /\ Covers(onHand', promised)
    /\ UNCHANGED promised

(* Time passes: some promises end of themselves.                           *)
Lapse(lapsed) ==
    /\ promised' = [r \in Refs |-> [v \in Variants |->
                        IF <<r, v>> \in lapsed THEN 0 ELSE promised[r][v]]]
    /\ UNCHANGED onHand

Init ==
    /\ onHand \in [Variants -> Nat]
    /\ promised = [r \in Refs |-> NoLines]

Next ==
    \/ \E r \in Refs, lines \in Lines : Grant(r, lines) \/ Sell(r, lines)
    \/ \E r \in Refs : Release(r)
    \/ \E lines \in Lines : Restock(lines)
    \/ \E v \in Variants, q \in Quantities : Adjust(v, q) \/ Adjust(v, -q)
    \/ \E lapsed \in SUBSET (Refs \X Variants) : Lapse(lapsed)

Spec == Init /\ [][Next]_<<onHand, promised>>
================================================================================
