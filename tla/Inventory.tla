-------------------------------- MODULE Inventory --------------------------------
(***************************************************************************)
(* packages/core/src/inventory/server.ts: the stock ledger, its on-hand    *)
(* projection and the checkout holds, at the level of database             *)
(* transactions under READ COMMITTED.                                      *)
(*                                                                         *)
(* A call opens a transaction and makes its unlocked reads (BeginTx), takes*)
(* the row locks of stock_levels one at a time in variant-id order         *)
(* (LockLevel), then writes and commits while it holds them (HoldStock,    *)
(* MoveStock).  What no lock protects, the reads of BeginTx and the        *)
(* transaction's now(), is stale by the time it is used.                   *)
(***************************************************************************)
EXTENDS Integers, Sequences, SequencesExt

CONSTANTS
    Variants,        \* product variants; the ids are ordered, as uuids are
    Refs,            \* hold references: one per order
    Procs,           \* database connections serving a call each
    Keys,            \* idempotency keys a client may send
    NoProc, NoRef, NoKey,
    Requests,        \* the calls a client may make (see Request)
    Opening,         \* stock opened before the first call; 0: never stocked
    STOCK_ADJUSTMENT_MAX,
    TTL,             \* RESERVATION_TTL_MINUTES, in clock ticks
    Grace,           \* the sweep's grace day, in clock ticks
    Editable,        \* bound: the variants a merchant edits meanwhile
    MaxClock,        \* bound: the clock stops here
    MaxCalls         \* bound: calls made altogether

Quantities == 1..STOCK_ADJUSTMENT_MAX

(* One call: an adjustment of one variant carries its signed delta and the *)
(* client's key; the others carry a reference and positive quantities.     *)
Request == [op: {"adjust", "hold", "consume", "restock"},
            ref: Refs \cup {NoRef},
            lines: [Variants -> -STOCK_ADJUSTMENT_MAX..STOCK_ADJUSTMENT_MAX],
            key: Keys \cup {NoKey}]

ASSUME VariantsAreOrdered == Variants \subseteq Nat
ASSUME RequestsAreCalls == Requests # {} /\ Requests \subseteq Request
ASSUME AdjustmentsNameOneVariant ==
    \A c \in Requests : c.op = "adjust" => \E v \in Variants :
        c.lines[v] # 0 /\ \A w \in Variants \ {v} : c.lines[w] = 0
ASSUME LinesArePositive ==
    \A c \in Requests : c.op # "adjust" =>
        c.ref \in Refs /\ c.key = NoKey /\ \A v \in Variants : c.lines[v] >= 0
ASSUME OpeningStock == Opening \in [Variants -> Nat]
ASSUME BoundsAreNaturals ==
    {TTL, Grace, MaxClock, MaxCalls, STOCK_ADJUSTMENT_MAX} \subseteq Nat
ASSUME EditableAreVariants == Editable \subseteq Variants
ASSUME NullsAreFresh == NoProc \notin Procs /\ NoRef \notin Refs /\ NoKey \notin Keys

VARIABLES
    clock,           \* Postgres now() outside a transaction
    catalog,         \* catalog[v]: product_variants.tracks_inventory / deleted_at
    ledger,          \* ledger[v]: stock_movements of v, in commit order
    levels,          \* the variants that have a stock_levels row
    onHand,          \* stock_levels.on_hand; 0 where there is no row
    reservation,     \* reservation[r][v]: the stock_reservations row, or NoHold
    lock,            \* lock[v]: who holds v's stock_levels row FOR UPDATE
    tx,              \* tx[p]: the transaction of connection p
    calls            \* calls made so far

vars == <<clock, catalog, ledger, levels, onHand, reservation, lock, tx, calls>>

CatalogState == {"tracked", "untracked", "deleted"}
Reason == {"opening_balance", "adjustment", "sale", "cancellation_restock"}
Movement == [delta: Int, reason: Reason, key: Keys \cup {NoKey}, ref: Refs \cup {NoRef}]
Outcome == {"none", "ok", "refused", "replayed", "key_reuse",
            "insufficient", "stock_held", "conflict", "aborted"}
HoldRow == [quantity: Nat, expiresAt: Nat]
NoHold == [quantity |-> 0, expiresAt |-> 0]

(* open: a transaction is running; now: its now(), fixed when it began;    *)
(* tracked: the lines it found to be stock-tracked; todo: levels it still  *)
(* has to lock; absent: levels it looked for and found no row; first: it   *)
(* found no earlier movement of the variant it adjusts.                    *)
Transaction == [open: BOOLEAN, call: Requests, now: Nat, tracked: SUBSET Variants,
                todo: SUBSET Variants, absent: SUBSET Variants, first: BOOLEAN,
                outcome: Outcome]

(* Between calls; the answer to a keyed call is remembered.                *)
Closed(c, outcome) ==
    [open |-> FALSE, now |-> 0, tracked |-> {}, todo |-> {}, absent |-> {}, first |-> FALSE,
     call |-> IF c.key = NoKey THEN CHOOSE d \in Requests : TRUE ELSE c,
     outcome |-> IF c.key = NoKey THEN "none" ELSE outcome]

TypeOK ==
    /\ clock \in Nat /\ calls \in Nat
    /\ catalog \in [Variants -> CatalogState]
    /\ ledger \in [Variants -> Seq(Movement)]
    /\ levels \in SUBSET Variants
    /\ onHand \in [Variants -> Nat]
    /\ reservation \in [Refs -> [Variants -> HoldRow]]
    /\ lock \in [Variants -> Procs \cup {NoProc}]
    /\ tx \in [Procs -> Transaction]

Init ==
    /\ clock = 0 /\ calls = 0
    /\ catalog = [v \in Variants |-> "tracked"]
    /\ ledger = [v \in Variants |-> IF Opening[v] = 0 THEN <<>> ELSE
                    <<[delta |-> Opening[v], reason |-> "opening_balance",
                       key |-> NoKey, ref |-> NoRef]>>]
    /\ levels = {v \in Variants : Opening[v] > 0}
    /\ onHand = Opening
    /\ reservation = [r \in Refs |-> [v \in Variants |-> NoHold]]
    /\ lock = [v \in Variants |-> NoProc]
    /\ tx = [p \in Procs |-> Closed(CHOOSE c \in Requests : TRUE, "none")]
--------------------------------------------------------------------------------
(* Reads.                                                                  *)

Asked(c) == {v \in Variants : c.lines[v] # 0}

(* loadLineVariants and the first read of recordMovement refuse a deleted  *)
(* variant; only recordMovement also refuses an untracked one.             *)
Refused(c) == \E v \in Asked(c) :
    catalog[v] = "deleted" \/ (c.op = "adjust" /\ catalog[v] = "untracked")

(* stock_movements_tenant_idem_key: the key is taken by a committed row.   *)
KeyTaken(c) == c.key # NoKey /\ \E v \in Variants : \E i \in DOMAIN ledger[v] :
    ledger[v][i].key = c.key

(* What the INSERT of a movement meets: a second row under a taken key.    *)
DuplicateKey_FastPathOnly(c) == FALSE   \* mutant: only the unlocked look-up guards the key
DuplicateKey(c) == KeyTaken(c)

(* The fingerprint check of a replay: same variant, same delta.            *)
KeyMatches(c) == \E v \in Asked(c) : \E i \in DOMAIN ledger[v] :
    ledger[v][i].key = c.key /\ ledger[v][i].delta = c.lines[v]

KeyAnswer(c) == IF KeyMatches(c) THEN "replayed" ELSE "key_reuse"

(* Units of v in the hold rows that a transaction with this now() counts.  *)
ActiveHeld(rows, v, now) ==
    MapThenSumSet(LAMBDA r : IF rows[r][v].expiresAt > now THEN rows[r][v].quantity ELSE 0, Refs)

Drop(rows, r, S) ==
    [rows EXCEPT ![r] = [v \in Variants |-> IF v \in S THEN NoHold ELSE @[v]]]
--------------------------------------------------------------------------------
(* Transactions.                                                           *)

(* Sales and restocks run under their order's row lock: one at a time per  *)
(* reference.  Holds do not.                                               *)
OrderLockFree(c) == c.op \in {"consume", "restock"} =>
    ~ \E q \in Procs : tx[q].open /\ tx[q].call.ref = c.ref /\ tx[q].call.op # "hold"

(* withTenant opens the transaction, whose now() stands still from here on,*)
(* and the call makes the reads it will rely on without locking: which     *)
(* lines are tracked, whether its key is known, whether the variant it     *)
(* adjusts has moved before.  A call these reads already answer ends here. *)
Begin(p, c) ==
    LET answer == IF Refused(c) THEN "refused"
                  ELSE IF KeyTaken(c) THEN KeyAnswer(c) ELSE "none"
        tracked == {v \in Asked(c) : catalog[v] = "tracked"}
    IN  /\ ~tx[p].open
        /\ OrderLockFree(c)
        /\ calls < MaxCalls
        /\ calls' = calls + 1
        /\ tx' = [tx EXCEPT ![p] =
                    IF answer # "none" THEN Closed(c, answer)
                    ELSE [open |-> TRUE, call |-> c, now |-> clock, tracked |-> tracked,
                          todo |-> tracked, absent |-> {},
                          first |-> \A v \in Asked(c) : ledger[v] = <<>>,
                          outcome |-> "none"]]
        /\ UNCHANGED <<clock, catalog, ledger, levels, onHand, reservation, lock>>

(* lockLevels: the next row in variant-id order.                           *)
NextLevel_CallerOrder(p) ==             \* mutant: a hold locks in the cart's order
    IF tx[p].call.op = "hold" THEN Max(tx[p].todo) ELSE Min(tx[p].todo)
NextLevel(p) == Min(tx[p].todo)

(* SELECT ... FOR UPDATE of one level (for an adjustment, its UPDATE): it  *)
(* waits for the row's holder; without a row there is nothing to lock.     *)
LockLevel(p) ==
    /\ tx[p].open /\ tx[p].todo # {}
    /\ LET v == NextLevel(p)
       IN  \/ /\ v \in levels
              /\ lock[v] = NoProc
              /\ lock' = [lock EXCEPT ![v] = p]
              /\ tx' = [tx EXCEPT ![p].todo = @ \ {v}]
           \/ /\ v \notin levels
              /\ tx' = [tx EXCEPT ![p].todo = @ \ {v}, ![p].absent = @ \cup {v}]
              /\ UNCHANGED lock
    /\ UNCHANGED <<clock, catalog, ledger, levels, onHand, reservation, calls>>

Ready(p) == tx[p].open /\ tx[p].todo = {}

(* COMMIT or ROLLBACK: the row locks go.                                   *)
End(p, outcome) ==
    /\ tx' = [tx EXCEPT ![p] = Closed(tx[p].call, outcome)]
    /\ lock' = [v \in Variants |-> IF lock[v] = p THEN NoProc ELSE lock[v]]
    /\ UNCHANGED <<clock, catalog, calls>>

(* holdStock: the reference's earlier set stops counting, expired rows of  *)
(* the locked variants are collected, and the lines are held if every one  *)
(* of them fits beside the other references' active holds.                 *)
HoldStock(p) ==
    LET c == tx[p].call
        now == tx[p].now
        mine == Drop(reservation, c.ref, Variants)
        rows == [r \in Refs |-> [v \in Variants |->
                    IF v \in tx[p].tracked /\ mine[r][v].expiresAt <= now
                    THEN NoHold ELSE mine[r][v]]]
        available(v) == (IF v \in tx[p].absent THEN 0 ELSE onHand[v]) - ActiveHeld(rows, v, now)
        fits == \A v \in tx[p].tracked : c.lines[v] <= available(v)
    IN  /\ Ready(p) /\ c.op = "hold"
        /\ reservation' = IF fits
             THEN [rows EXCEPT ![c.ref] = [v \in Variants |->
                     IF v \in tx[p].tracked
                     THEN [quantity |-> c.lines[v], expiresAt |-> now + TTL] ELSE NoHold]]
             ELSE reservation
        /\ End(p, IF fits THEN "ok" ELSE "insufficient")
        /\ UNCHANGED <<ledger, levels, onHand>>

ReasonOf(p) == CASE tx[p].call.op = "consume" -> "sale"
                 [] tx[p].call.op = "restock" -> "cancellation_restock"
                 [] OTHER -> IF tx[p].first THEN "opening_balance" ELSE "adjustment"

(* applyMovement's projection write: UPDATE, or INSERT where no row exists.*)
Projected_ByReason(p, v, delta) ==      \* mutant: an opening balance writes, not adds
    IF ReasonOf(p) = "opening_balance" THEN delta ELSE onHand[v] + delta
Projected(p, v, delta) == IF v \in levels THEN onHand[v] + delta ELSE delta

(* stock_levels_on_hand_check.                                             *)
Oversold(after) == after < 0

(* A negative movement may not take on-hand below the active holds.        *)
StockHeld_NoGuard(delta, after, reserved) == FALSE   \* mutant: the guard is missing
StockHeld(delta, after, reserved) == delta < 0 /\ after < reserved

(* The line's movement throws, and with it the whole call.                 *)
LineFails(delta, after, reserved) == Oversold(after) \/ StockHeld(delta, after, reserved)

(* recordMovement, consumeStockWithin and restockWithin: per tracked line, *)
(* the sale's own hold row goes first, then the movement, the projection   *)
(* with its CHECK (on_hand >= 0) and, going down, the stock_held guard.    *)
(* The first line to fail rolls the whole transaction back.  A level that  *)
(* was not there to be locked is written now, waiting for its holder.      *)
MoveStock(p) ==
    LET c == tx[p].call
        T == tx[p].tracked
        sale == c.op = "consume"
        delta == [v \in T |-> IF sale THEN -c.lines[v] ELSE c.lines[v]]
        rows == IF sale THEN Drop(reservation, c.ref, T) ELSE reservation
        after == [v \in T |-> Projected(p, v, delta[v])]
        failing == {v \in T :
                      LineFails(delta[v], after[v], ActiveHeld(rows, v, tx[p].now))}
        verdict == IF DuplicateKey(c) THEN KeyAnswer(c)
                   ELSE IF failing = {} THEN "ok"
                   ELSE IF Oversold(after[Min(failing)]) THEN "insufficient" ELSE "stock_held"
        moved == IF verdict = "ok" THEN T ELSE {}
    IN  /\ Ready(p) /\ c.op # "hold"
        /\ \A v \in T \cap levels : lock[v] \in {p, NoProc}
        /\ ledger' = [v \in Variants |-> IF v \in moved
                        THEN Append(ledger[v], [delta |-> delta[v], reason |-> ReasonOf(p),
                                                key |-> c.key, ref |-> c.ref])
                        ELSE ledger[v]]
        /\ onHand' = [v \in Variants |-> IF v \in moved THEN after[v] ELSE onHand[v]]
        /\ levels' = levels \cup moved
        /\ reservation' = IF sale /\ verdict = "ok" THEN Drop(rows, c.ref, Variants)
                          ELSE reservation
        /\ End(p, verdict)

(* Two first movements met: both found no row, this INSERT came second.    *)
InsertCollides(p) ==
    /\ Ready(p) /\ tx[p].call.op \in {"adjust", "restock"} /\ ~DuplicateKey(tx[p].call)
    /\ \E v \in tx[p].absent \cap levels : tx[p].call.lines[v] > 0
    /\ End(p, "conflict")
    /\ UNCHANGED <<ledger, levels, onHand, reservation>>

(* The connection is lost, or Postgres picks the transaction to break a    *)
(* deadlock: everything it did is undone.                                  *)
Rollback(p) ==
    /\ tx[p].open
    /\ End(p, "aborted")
    /\ UNCHANGED <<ledger, levels, onHand, reservation>>
--------------------------------------------------------------------------------
(* Steps of one statement, and the world.                                  *)

(* releaseStock takes no level lock.                                       *)
ReleaseStock(r) ==
    /\ reservation' = Drop(reservation, r, Variants)
    /\ UNCHANGED <<clock, catalog, ledger, levels, onHand, lock, tx, calls>>

(* The worker's daily sweep-reservations.                                  *)
SweepReservations ==
    /\ reservation' = [r \in Refs |-> [v \in Variants |->
                         IF reservation[r][v].expiresAt + Grace <= clock
                         THEN NoHold ELSE reservation[r][v]]]
    /\ UNCHANGED <<clock, catalog, ledger, levels, onHand, lock, tx, calls>>

(* A merchant edits the variant: stock tracking on or off, or deletion.    *)
EditVariant(v) ==
    /\ catalog[v] # "deleted"
    /\ \E state \in CatalogState \ {catalog[v]} : catalog' = [catalog EXCEPT ![v] = state]
    /\ UNCHANGED <<clock, ledger, levels, onHand, reservation, lock, tx, calls>>

Tick ==
    /\ clock < MaxClock
    /\ clock' = clock + 1
    /\ UNCHANGED <<catalog, ledger, levels, onHand, reservation, lock, tx, calls>>

Next ==
    \/ \E p \in Procs : \/ \E c \in Requests : Begin(p, c)
                        \/ LockLevel(p) \/ HoldStock(p) \/ MoveStock(p)
                        \/ InsertCollides(p) \/ Rollback(p)
    \/ \E r \in Refs : ReleaseStock(r)
    \/ \E v \in Editable : EditVariant(v)
    \/ SweepReservations
    \/ Tick

Spec == Init /\ [][Next]_vars
--------------------------------------------------------------------------------
(* Correctness.                                                            *)

(* The projection, never below nothing, is the ledger's sum:               *)
(* reconcileStockLevels never finds a mismatch, whatever transactions      *)
(* raced to write either of them.                                          *)
Reconciled == TypeOK /\ \A v \in Variants :
    onHand[v] = FoldSeq(LAMBDA m, sum : m.delta + sum, 0, ledger[v])

(* A caller told its keyed adjustment is recorded, now or by an earlier    *)
(* request, finds under that key exactly one movement, the one it asked    *)
(* for: a double click or a retry after a lost answer moves stock once.    *)
KeyedOnce == \A p \in Procs :
    /\ tx[p].call.key # NoKey
    /\ tx[p].outcome \in {"ok", "replayed"}
    => \E v \in Asked(tx[p].call) :
         {<<w, i>> \in Variants \X (1..MaxCalls + 1) :
            i \in DOMAIN ledger[w] /\ ledger[w][i].key = tx[p].call.key}
         = {<<v, i>> : i \in {j \in DOMAIN ledger[v] :
               ledger[v][j].key = tx[p].call.key /\ ledger[v][j].delta = tx[p].call.lines[v]}}

(* p's next statement waits for a stock_levels row q has locked.           *)
WaitsFor(p, q) ==
    /\ p # q /\ tx[p].open
    /\ IF tx[p].todo # {} THEN lock[NextLevel(p)] = q
       ELSE tx[p].call.op # "hold" /\ \E v \in tx[p].tracked \cap levels : lock[v] = q

(* The deadlock discipline for multi-line operations: transactions that    *)
(* lock overlapping variants queue up, they never wait for each other in a *)
(* circle.                                                                 *)
NoWaitCycle == ~ \E S \in SUBSET Procs \ {{}} : \A p \in S : \E q \in S : WaitsFor(p, q)

(* Inventory implements StockPromise: stock is promised while the hold row *)
(* is unexpired.  So no interleaving of stale now()s, sweeps, adjustments  *)
(* and re-holds promises more than the shelf has or takes an unexpired     *)
(* hold from a buyer who did not give it up.                               *)
Promise == INSTANCE StockPromise WITH
    promised <- [r \in Refs |-> [v \in Variants |->
                   IF reservation[r][v].expiresAt > clock
                   THEN reservation[r][v].quantity ELSE 0]]

KeepsPromises == Promise!Spec
================================================================================
