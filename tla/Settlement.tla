------------------------------- MODULE Settlement -------------------------------
(***************************************************************************)
(* What an order shares with other orders while it is placed, confirmed or *)
(* given up: its cart, the coupon, the customer, the order counter and the *)
(* invoice series.  Checkout has each transaction as one action; here a    *)
(* transaction takes its row locks one by one, in the order the code takes *)
(* them, computes what it computes under each, and commits or rolls back.  *)
(*                                                                         *)
(* checkout/server.ts (createOrderTx, confirmOrderCore and the handlers    *)
(* that give an order up), promotions/server.ts, invoices/server.ts and    *)
(* customers/server.ts.  Stock rows are left to Inventory: a transaction   *)
(* that has them waits here for none of the rows their other holders want. *)
(***************************************************************************)
EXTENDS Integers, FiniteSets, Sequences

CONSTANTS
    Orders, Baskets, Customers, Procs,
    NoProc,
    CartOf, CustomerOf,
    WithCoupon,       \* the attempts that carry the coupon code
    PaidUpFront,      \* confirmed by a captured payment, never refused over a coupon
    LimitTotal, LimitPerCustomer,
    MaxRollbacks, MaxReplays     \* bounds: failed transactions, extended orders

ASSUME SettlementAssumption ==
    /\ CartOf \in [Orders -> Baskets] /\ CustomerOf \in [Orders -> Customers]
    /\ WithCoupon \subseteq Orders /\ PaidUpFront \subseteq Orders
    /\ LimitTotal \in Nat \ {0} /\ LimitPerCustomer \in Nat \ {0}
    /\ MaxRollbacks \in Nat /\ MaxReplays \in Nat
    /\ NoProc \notin Procs

VARIABLES
    status,           \* orders.status: none, pending, confirmed, given_up
    live,             \* orders.expires_at > now()
    lapsed,           \* history: expires_at has passed while the order was pending
    orderNumber,      \* orders.order_number; 0 while there is none
    cart,             \* carts.status
    promotion,        \* promotions.status
    limit,            \* promotions.usage_limit_total
    slot,             \* coupon_redemptions.slot of the order's redemption; NoSlot
    customerSlot,     \* its customer_slot
    overredeemed,     \* orders with a promotion.overredeemed event
    refused,          \* history: orders refused at confirmation over the coupon
    ordered,          \* customers.first_order_at IS NOT NULL
    nextNumber,       \* order_counters.next_number
    nextInvoice,      \* invoice_series.next_number
    invoiced,          \* invoices.number of the order; 0 while there is none
    lock,             \* who holds the row
    tx,               \* the open transaction of each connection
    rollbacks, replays

rowVars == <<status, live, lapsed, orderNumber, cart, slot, customerSlot, overredeemed,
             ordered, invoiced>>
promotionVars == <<promotion, limit>>
counterVars == <<nextNumber, nextInvoice>>
settlementVars == <<rowVars, promotionVars, counterVars, refused, lock, tx, rollbacks, replays>>

NoSlot == -1
Cart(o) == <<"cart", CartOf[o]>>
Order(o) == <<"order", o>>
Customer(o) == <<"customer", CustomerOf[o]>>
Promotion == <<"promotion", NoProc>>
Counter == <<"counter", NoProc>>
Series == <<"series", NoProc>>
Rows == UNION {{Cart(o), Order(o), Customer(o)} : o \in Orders} \cup {Promotion, Counter, Series}

(* An open transaction: what it is doing to which order, how many of its   *)
(* rows it has, the numbers and slots it took, whether the coupon ran out. *)
Kinds == {"create", "confirm", "giveUp", "extend"}
Closed == [kind |-> "none", at |-> 0, number |-> 0, slots |-> <<NoSlot, NoSlot>>]
SettlementInit ==
    /\ status = [o \in Orders |-> "none"] /\ live = [o \in Orders |-> FALSE]
    /\ lapsed = {} /\ orderNumber = [o \in Orders |-> 0] /\ invoiced = [o \in Orders |-> 0]
    /\ cart = [c \in Baskets |-> "active"]
    /\ promotion = "active" /\ limit = LimitTotal
    /\ slot = [o \in Orders |-> NoSlot] /\ customerSlot = [o \in Orders |-> NoSlot]
    /\ overredeemed = {} /\ refused = {} /\ ordered = {}
    /\ nextNumber = 1 /\ nextInvoice = 1     \* counted from the first (1001 in the code)
    /\ lock = [r \in Rows |-> NoProc]
    /\ tx = [p \in Procs |-> Closed]
    /\ rollbacks = 0 /\ replays = 0
--------------------------------------------------------------------------------
(* The rows a transaction locks, in the code's order.  markFirstOrder's    *)
(* UPDATE ... WHERE first_order_at IS NULL locks nothing once it is set.   *)
CouponRow(o) == IF o \in WithCoupon THEN <<Promotion>> ELSE <<>>
Plan_CustomerFirst(kind, o) ==        \* mutant: the upsert before the coupon
    CASE kind = "create"  -> <<Cart(o), Customer(o)>> \o CouponRow(o) \o <<Counter>>
      [] kind = "confirm" -> <<Order(o)>> \o CouponRow(o) \o <<Series>>
                             \o (IF CustomerOf[o] \in ordered THEN <<>> ELSE <<Customer(o)>>)
      [] kind = "giveUp"  -> <<Order(o), Cart(o)>>
      [] kind = "extend"  -> <<Order(o)>>
Plan(kind, o) ==
    CASE kind = "create"  -> <<Cart(o)>> \o CouponRow(o) \o <<Customer(o), Counter>>
      [] kind = "confirm" -> <<Order(o)>> \o CouponRow(o) \o <<Series>>
                             \o (IF CustomerOf[o] \in ordered THEN <<>> ELSE <<Customer(o)>>)
      [] kind = "giveUp"  -> <<Order(o), Cart(o)>>
      [] kind = "extend"  -> <<Order(o)>>

Open(p) == tx[p].kind # "none"
PlanOf(p) == Plan(tx[p].kind, tx[p].order)
HasAll(p) == tx[p].at >= Len(PlanOf(p))
NextRow(p) == PlanOf(p)[tx[p].at + 1]
ReleaseAll(p) == [r \in Rows |-> IF lock[r] = p THEN NoProc ELSE lock[r]]

(* countRedemptions, countPendingClaims and their per-customer forms.      *)
Redeemed(S) == Cardinality({o \in S : slot[o] # NoSlot})
PendingClaims_Ignored(S) == 0             \* mutant: only redemptions are counted
PendingClaims(S) == Cardinality({o \in S \cap WithCoupon : status[o] = "pending" /\ live[o]})
SameCustomer(o) == {p \in Orders : CustomerOf[p] = CustomerOf[o]}

(* createOrderTx's advisory, computed after the customer's upsert, under   *)
(* the promotion's lock.                                                   *)
AdvisoryFits(o) ==
    /\ Redeemed(Orders) + PendingClaims(Orders) < limit
    /\ Redeemed(SameCustomer(o)) + PendingClaims(SameCustomer(o)) < LimitPerCustomer

(* claimRedemption, under the promotion's lock, against the limit the row  *)
(* has now.                                                                *)
ClaimFits_OffByOne(o) ==              \* mutant: > for >=
    Redeemed(Orders) <= limit /\ Redeemed(SameCustomer(o)) <= LimitPerCustomer
ClaimFits(o) ==
    Redeemed(Orders) < limit /\ Redeemed(SameCustomer(o)) < LimitPerCustomer

(* What the transaction finds under a row's lock lets it go on.            *)
Admits(kind, o, row) ==
    CASE row[1] = "cart" /\ kind = "create"         -> cart[CartOf[o]] = "active"
      [] row[1] = "order"                           -> status[o] = "pending"
      [] row[1] = "promotion" /\ kind = "create"    -> promotion = "active"
      [] row[1] = "promotion" /\ kind = "confirm"   -> ClaimFits(o) \/ o \in PaidUpFront
      [] row[1] = "customer" /\ kind = "create"     -> o \in WithCoupon => AdvisoryFits(o)
      [] OTHER                                      -> TRUE
--------------------------------------------------------------------------------
(* A request, a webhook or a job begins; an order is looked for by what an *)
(* earlier, unlocked read found.                                           *)
Begin(p, kind, o) ==
    /\ ~Open(p)
    /\ IF kind = "create" THEN status[o] = "none" ELSE status[o] = "pending"
    /\ kind = "extend" => replays < MaxReplays
    /\ replays' = IF kind = "extend" THEN replays + 1 ELSE replays
    /\ tx' = [tx EXCEPT ![p] = [kind |-> kind, order |-> o, at |-> 0, number |-> 0,
                                slots |-> <<NoSlot, NoSlot>>]]
    /\ UNCHANGED <<rowVars, promotionVars, counterVars, refused, lock, rollbacks>>

(* The number the row gives: UPDATE ... SET next = next + 1 RETURNING.     *)
Allocate(p, row) ==
    /\ nextNumber' = IF row = Counter THEN nextNumber + 1 ELSE nextNumber
    /\ nextInvoice' = IF row = Series THEN nextInvoice + 1 ELSE nextInvoice

(* One row lock, and what is read or computed under it.                    *)
Acquire(p) == LET o == tx[p].order  row == NextRow(p) IN
    /\ Open(p) /\ ~HasAll(p)
    /\ lock[row] = NoProc
    /\ Admits(tx[p].kind, o, row)
    /\ lock' = [lock EXCEPT ![row] = p]
    /\ tx' = [tx EXCEPT ![p].at = @ + 1,
                        ![p].number = CASE row = Counter -> nextNumber
                                        [] row = Series  -> nextInvoice
                                        [] OTHER         -> @,
                        ![p].slots = IF row = Promotion /\ tx[p].kind = "confirm" /\ ClaimFits(o)
                                     THEN <<Redeemed(Orders), Redeemed(SameCustomer(o))>> ELSE @]
    /\ Allocate(p, row)
    /\ UNCHANGED <<rowVars, promotionVars, refused, rollbacks, replays>>

(* What it finds ends it: it never gets past this row.                     *)
Refuse(p) == LET o == tx[p].order  row == NextRow(p) IN
    /\ Open(p) /\ ~HasAll(p)
    /\ lock[row] = NoProc
    /\ ~Admits(tx[p].kind, o, row)
    /\ refused' = IF row = Promotion /\ tx[p].kind = "confirm" THEN refused \cup {o} ELSE refused
    /\ lock' = ReleaseAll(p)
    /\ tx' = [tx EXCEPT ![p] = Closed]
    /\ UNCHANGED <<rowVars, promotionVars, counterVars, rollbacks, replays>>

(* A failed statement, a lost connection, a shortage of stock: everything  *)
(* the transaction wrote is undone, the counter it raised with it.         *)
Undo_Sequence(p) == UNCHANGED counterVars  \* mutant: numbers from a SEQUENCE
Undo(p) ==
    /\ nextNumber' = IF lock[Counter] = p THEN tx[p].number ELSE nextNumber
    /\ nextInvoice' = IF lock[Series] = p THEN tx[p].number ELSE nextInvoice

Rollback(p) ==
    /\ Open(p) /\ tx[p].at > 0 /\ rollbacks < MaxRollbacks
    /\ rollbacks' = rollbacks + 1
    /\ Undo(p)
    /\ lock' = ReleaseAll(p)
    /\ tx' = [tx EXCEPT ![p] = Closed]
    /\ UNCHANGED <<rowVars, promotionVars, refused, replays>>

(* orders_idem_key: the insert of an attempt that another request has      *)
(* placed meanwhile fails, and the request replays that order instead.     *)
KeyTaken(p) ==
    /\ tx[p].kind = "create" /\ HasAll(p)
    /\ status[tx[p].order] # "none"
    /\ Undo(p)
    /\ lock' = ReleaseAll(p)
    /\ tx' = [tx EXCEPT ![p] = Closed]
    /\ UNCHANGED <<rowVars, promotionVars, refused, rollbacks, replays>>

Commit(p) ==
    /\ Open(p) /\ HasAll(p)
    /\ lock' = ReleaseAll(p)
    /\ tx' = [tx EXCEPT ![p] = Closed]
    /\ UNCHANGED <<promotionVars, counterVars, refused, rollbacks, replays>>

(* createOrderTx: the order is placed, the cart is converted.              *)
CommitCreate(p) == LET o == tx[p].order IN
    /\ tx[p].kind = "create" /\ Commit(p)
    /\ status[o] = "none"
    /\ status' = [status EXCEPT ![o] = "pending"]
    /\ live' = [live EXCEPT ![o] = TRUE]
    /\ orderNumber' = [orderNumber EXCEPT ![o] = tx[p].number]
    /\ cart' = [cart EXCEPT ![CartOf[o]] = "converted"]
    /\ UNCHANGED <<lapsed, slot, customerSlot, overredeemed, ordered, invoiced>>

(* confirmOrderCore: redemption or flag, invoice and first-order mark in   *)
(* the confirming transaction.                                             *)
CommitConfirm(p) == LET o == tx[p].order IN
    /\ tx[p].kind = "confirm" /\ Commit(p)
    /\ status' = [status EXCEPT ![o] = "confirmed"]
    /\ live' = [live EXCEPT ![o] = FALSE]
    /\ slot' = [slot EXCEPT ![o] = tx[p].slots[1]]
    /\ customerSlot' = [customerSlot EXCEPT ![o] = tx[p].slots[2]]
    /\ overredeemed' = IF o \in WithCoupon /\ tx[p].slots[1] = NoSlot
                       THEN overredeemed \cup {o} ELSE overredeemed
    /\ invoiced' = [invoiced EXCEPT ![o] = tx[p].number]
    /\ ordered' = ordered \cup {CustomerOf[o]}
    /\ UNCHANGED <<lapsed, orderNumber, cart>>

(* expireCheckout, cancelPendingOrder, oversoldCancel: the cart goes back. *)
CommitGiveUp(p) == LET o == tx[p].order IN
    /\ tx[p].kind = "giveUp" /\ Commit(p)
    /\ status' = [status EXCEPT ![o] = "given_up"]
    /\ cart' = [cart EXCEPT ![CartOf[o]] = "active"]
    /\ UNCHANGED <<live, lapsed, orderNumber, slot, customerSlot, overredeemed, ordered, invoiced>>

(* replayCheckout: expires_at is set anew, the coupon is not looked at.    *)
CommitExtend(p) == LET o == tx[p].order IN
    /\ tx[p].kind = "extend" /\ Commit(p)
    /\ live' = [live EXCEPT ![o] = TRUE]
    /\ UNCHANGED <<status, lapsed, orderNumber, cart, slot, customerSlot, overredeemed,
                   ordered, invoiced>>

(* Time passes an order's expires_at; nothing has to notice.               *)
Lapse(o) ==
    /\ status[o] = "pending" /\ live[o]
    /\ live' = [live EXCEPT ![o] = FALSE]
    /\ lapsed' = lapsed \cup {o}
    /\ UNCHANGED <<status, orderNumber, cart, slot, customerSlot, overredeemed, ordered, invoiced,
                   promotionVars, counterVars, refused, lock, tx, rollbacks, replays>>

(* updatePromotion lowers the limit, archivePromotion ends the coupon;     *)
(* each is a transaction with the promotion's row lock alone.              *)
EditPromotion ==
    /\ lock[Promotion] = NoProc
    /\ \/ limit > 1 /\ limit' = limit - 1 /\ UNCHANGED promotion
       \/ promotion = "active" /\ promotion' = "archived" /\ UNCHANGED limit
    /\ UNCHANGED <<rowVars, counterVars, refused, lock, tx, rollbacks, replays>>

SettlementNext ==
    \/ \E p \in Procs, kind \in Kinds, o \in Orders : Begin(p, kind, o)
    \/ \E p \in Procs : Acquire(p) \/ Refuse(p) \/ Rollback(p) \/ KeyTaken(p)
    \/ \E p \in Procs : CommitCreate(p) \/ CommitConfirm(p) \/ CommitGiveUp(p) \/ CommitExtend(p)
    \/ \E o \in Orders : Lapse(o)
    \/ EditPromotion
SettlementSpec == SettlementInit /\ [][SettlementNext]_settlementVars
--------------------------------------------------------------------------------
(* LOCK-ORDER INVARIANT (createOrderTx, confirmOrderCore): the handlers    *)
(* never wait for each other in a circle, across all these tables.         *)
WaitsFor(p, q) == Open(p) /\ ~HasAll(p) /\ lock[NextRow(p)] = q /\ p # q
NoWaitCycle == \A S \in SUBSET Procs :
    S # {} => \E p \in S : \A q \in S : ~WaitsFor(p, q)

(* Redemptions fill the window from 0 without holes, whoever confirms or   *)
(* rolls back, and never beyond what the merchant allowed: in all, and for *)
(* each customer.                                                          *)
SlotsFillTheWindow ==
    /\ {slot[o] : o \in {p \in Orders : slot[p] # NoSlot}} = 0..(Redeemed(Orders) - 1)
    /\ Redeemed(Orders) <= LimitTotal
    /\ \A o \in Orders :
         /\ {customerSlot[p] : p \in {q \in SameCustomer(o) : slot[q] # NoSlot}}
              = 0..(Redeemed(SameCustomer(o)) - 1)
         /\ Redeemed(SameCustomer(o)) <= LimitPerCustomer

(* The advisory at creation reserves: an order is told at confirmation     *)
(* that the coupon is used up (a refusal, or the merchant's flag) only if  *)
(* its own claim had lapsed, or an order whose claim had lapsed was        *)
(* confirmed all the same, or the merchant lowered the limit.              *)
PromisesAreKept ==
    \A o \in overredeemed \cup refused :
        \/ o \in lapsed \/ limit < LimitTotal
        \/ \E p \in lapsed : slot[p] # NoSlot

(* The last use of a coupon goes to one order, and to the one it was       *)
(* promised to.                                                            *)
CouponsAreKept == SlotsFillTheWindow /\ PromisesAreKept

(* GST: invoice numbers are 1..n without gaps or doubles, one for each     *)
(* confirmed order, although confirmations roll back; order numbers        *)
(* likewise, one for every order ever placed.  The number a transaction    *)
(* has taken and not committed is the next one.                            *)
Taken(row) == \E p \in Procs : lock[row] = p
GapFree(numbered, number, next, row) ==
    LET last == IF Taken(row) THEN next - 2 ELSE next - 1
    IN  {number[o] : o \in numbered} = 1..last /\ Cardinality(numbered) = last
NumbersGapFree ==
    /\ GapFree({o \in Orders : status[o] = "confirmed"}, invoiced, nextInvoice, Series)
    /\ GapFree({o \in Orders : status[o] # "none"}, orderNumber, nextNumber, Counter)
    /\ \A o \in Orders : invoiced[o] # 0 => status[o] = "confirmed"
================================================================================
