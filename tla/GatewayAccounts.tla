----------------------------- MODULE GatewayAccounts -----------------------------
(***************************************************************************)
(* payment_accounts: the gateway accounts a merchant connects, at most one *)
(* of them enabled, and the four who read the enabled one with no lock:    *)
(* payment-start, its replay, the webhook route and the refund worker.     *)
(*                                                                         *)
(* Checkout has one gateway account that never changes; here the staff     *)
(* change it while orders are being paid.  A key of the model stands for   *)
(* an account at a gateway: its key id, its API secret and its webhook     *)
(* secret, which one save stores together.                                 *)
(***************************************************************************)
EXTENDS Integers

CONSTANTS
    Connections,      \* rows: a provider and a label
    Keys,             \* accounts at the gateways
    ProviderOf,       \* of connections and keys
    Repeating,        \* providers that mint one order for one receipt (the mock)
    Savers,           \* requests that save the settings
    Starts,           \* requests that start or replay a payment
    Purchases,        \* orders pending payment
    MaxSaves,         \* bound: saves begun
    MaxMints,         \* bound: orders made at a gateway
    MaxTries,         \* deliveries a gateway makes before it gives up
    NoKey

ASSUME GatewaysAssumption == MaxSaves \in Nat /\ MaxMints \in Nat /\ MaxTries \in Nat \ {0}

VARIABLES
    account,          \* the rows: the key stored, and whether it is enabled
    saver,            \* the saves under way
    start,            \* the payment-starts under way
    gatewayOrder,     \* orders.gateway_order_ref
    minted,           \* at the gateways: what each reference is for
    given,            \* answers to buyers: a reference and the key to pay it with
    capture,          \* at the gateways: the payment of a reference and its webhook
    tries,            \* deliveries of that webhook refused so far
    evidence,         \* payment_webhook_events
    booked,           \* references whose capture is on its order
    refunded,         \* what became of the refund of a booked capture
    saves, edition    \* history: saves begun, saves committed

gatewayVars == <<account, saver, start, gatewayOrder, minted, given, capture, tries,
                 evidence, booked, refunded, saves, edition>>
settingsVars == <<account, saver, saves, edition>>
paymentVars == <<start, gatewayOrder, minted, given>>
webhookVars == <<capture, tries, evidence, booked>>

References == 1..MaxMints
NoReference == 0
Idle == [at |-> "idle"]
Unminted == [purchase |-> NoKey, key |-> NoKey, edition |-> 0]
TestEvent == NoReference

GatewaysInit ==
    /\ account = [c \in Connections |-> [key |-> NoKey, live |-> FALSE]]
    /\ saver = [s \in Savers |-> Idle] /\ start = [p \in Starts |-> Idle]
    /\ gatewayOrder = [o \in Purchases |-> NoReference]
    /\ minted = [r \in References |-> Unminted] /\ given = {}
    /\ capture = [r \in References |-> "none"] /\ tries = [r \in References |-> 0]
    /\ evidence = {} /\ booked = {} /\ refunded = [r \in References |-> "no"]
    /\ saves = 0 /\ edition = 0
--------------------------------------------------------------------------------
(* The settings.  Statements of upsertPaymentAccount's transaction; a row  *)
(* one has changed is locked until it commits.                             *)

(* PUT with what the form holds.  The disabling statement's snapshot is    *)
(* taken here, its locks in the next step.                                 *)
SaveBegin(s) == \E c \in Connections, k \in Keys, on \in BOOLEAN :
    /\ saver[s] = Idle /\ saves < MaxSaves /\ ProviderOf[c] = ProviderOf[k]
    /\ saves' = saves + 1
    /\ saver' = [saver EXCEPT ![s] =
          [at |-> "disable", row |-> c, key |-> k, live |-> on, holds |-> {},
           others |-> IF on THEN {d \in Connections \ {c} : account[d].live} ELSE {}]]
    /\ UNCHANGED <<account, edition, paymentVars, webhookVars, refunded>>

Saving(s) == saver[s].at \in {"upsert", "commit"}
Locked(c, s) == \E t \in Savers \ {s} : Saving(t) /\ c \in saver[t].holds

(* A row that is no longer enabled once its lock is free is left alone.    *)
DisableOthers(s) ==
    /\ saver[s].at = "disable" /\ \A d \in saver[s].others : ~Locked(d, s)
    /\ saver' = [saver EXCEPT ![s].at = "upsert",
                    ![s].holds = {d \in saver[s].others : account[d].live}]
    /\ UNCHANGED <<account, saves, edition, paymentVars, webhookVars, refunded>>

(* payment_accounts_one_enabled_key: another row enabled and committed,    *)
(* and not disabled in this transaction, fails the statement; one that is  *)
(* being enabled is waited for.                                            *)
OthersLive(s) == {d \in Connections \ {saver[s].row} : account[d].live} \ saver[s].holds
AwaitsIndex(s) ==
    \/ \E t \in Savers \ {s} : saver[t].at = "commit" /\ saver[t].live
    \/ \E d \in OthersLive(s) : Locked(d, s)
Conflict_NoIndex(s) == FALSE   \* mutant: the partial unique index is gone
Conflict(s) == saver[s].live /\ OthersLive(s) # {}

Upsert(s) ==
    /\ saver[s].at = "upsert" /\ ~Locked(saver[s].row, s)
    /\ saver[s].live => ~AwaitsIndex(s)
    /\ saver' = [saver EXCEPT ![s] =
          IF Conflict(s) THEN Idle      \* 409 concurrent_modification
          ELSE [saver[s] EXCEPT !.at = "commit", !.holds = @ \cup {saver[s].row}]]
    /\ UNCHANGED <<account, saves, edition, paymentVars, webhookVars, refunded>>

SaveCommit(s) ==
    /\ saver[s].at = "commit"
    /\ account' = [c \in Connections |->
          IF c = saver[s].row THEN [key |-> saver[s].key, live |-> saver[s].live]
          ELSE IF c \in saver[s].holds THEN [account[c] EXCEPT !.live = FALSE]
          ELSE account[c]]
    /\ edition' = edition + 1 /\ saver' = [saver EXCEPT ![s] = Idle]
    /\ UNCHANGED <<saves, paymentVars, webhookVars, refunded>>
SaveFails(s) ==
    /\ saver[s] # Idle /\ saver' = [saver EXCEPT ![s] = Idle]
    /\ UNCHANGED <<account, saves, edition, paymentVars, webhookVars, refunded>>

(* getEnabledAccount: LIMIT 1.                                             *)
Enabled == {c \in Connections : account[c].live}
--------------------------------------------------------------------------------
(* Payment-start.                                                          *)

(* startCheckout and replayCheckout read the account before the order.     *)
ReadAccount(p, o) == \E c \in Enabled :
    /\ start[p] = Idle
    /\ start' = [start EXCEPT ![p] = [at |-> "stored", purchase |-> o, key |-> account[c].key,
                                      edition |-> edition, ref |-> NoReference]]
    /\ UNCHANGED <<settingsVars, gatewayOrder, minted, given, webhookVars, refunded>>

Hand(p, r) ==
    /\ given' = given \cup {[ref |-> r, key |-> start[p].key, edition |-> start[p].edition]}
    /\ start' = [start EXCEPT ![p] = Idle]

(* The stored reference, whoever minted it, with the key just read.        *)
StoredReference(p) ==
    LET r == gatewayOrder[start[p].purchase] IN
    /\ start[p].at = "stored"
    /\ IF r # NoReference THEN Hand(p, r)
       ELSE start' = [start EXCEPT ![p].at = "mint"] /\ UNCHANGED given
    /\ UNCHANGED <<settingsVars, gatewayOrder, minted, webhookVars, refunded>>

MintedFor(p) == [purchase |-> start[p].purchase, key |-> start[p].key, edition |-> start[p].edition]
SameReceipt(p) == {r \in References : /\ minted[r].purchase = start[p].purchase
                                      /\ ProviderOf[start[p].key] \in Repeating
                                      /\ ProviderOf[minted[r].key] = ProviderOf[start[p].key]}
CreateGatewayOrder(p) == \E r \in References :
    /\ start[p].at = "mint"
    /\ IF SameReceipt(p) # {} THEN r \in SameReceipt(p) /\ UNCHANGED minted
       ELSE /\ minted[r] = Unminted /\ \A q \in 1..(r - 1) : minted[q] # Unminted
            /\ minted' = [minted EXCEPT ![r] = MintedFor(p)]
    /\ start' = [start EXCEPT ![p].at = "store", ![p].ref = r]
    /\ UNCHANGED <<settingsVars, gatewayOrder, given, webhookVars, refunded>>

(* TX-D: the first reference stays.                                        *)
StoreReference_Last(p) ==   \* mutant: the last reference wins
    /\ start[p].at = "store"
    /\ gatewayOrder' = [gatewayOrder EXCEPT ![start[p].purchase] = start[p].ref]
    /\ Hand(p, start[p].ref)
    /\ UNCHANGED <<settingsVars, minted, webhookVars, refunded>>
StoreReference(p) ==
    LET stored == gatewayOrder[start[p].purchase]
        kept   == IF stored = NoReference THEN start[p].ref ELSE stored IN
    /\ start[p].at = "store"
    /\ gatewayOrder' = [gatewayOrder EXCEPT ![start[p].purchase] = kept]
    /\ Hand(p, kept)
    /\ UNCHANGED <<settingsVars, minted, webhookVars, refunded>>

(* The gateway refuses or the process dies; the order stays pending.       *)
StartFails(p) ==
    /\ start[p] # Idle /\ start' = [start EXCEPT ![p] = Idle]
    /\ UNCHANGED <<settingsVars, gatewayOrder, minted, given, webhookVars, refunded>>
--------------------------------------------------------------------------------
(* The gateways.                                                           *)

(* A buyer can pay a reference with the key of the account it is of.       *)
BuyerPays(r) ==
    /\ capture[r] = "none" /\ \E g \in given : g.ref = r /\ g.key = minted[r].key
    /\ capture' = [capture EXCEPT ![r] = "waiting"]
    /\ UNCHANGED <<settingsVars, paymentVars, tries, evidence, booked, refunded>>

(* The webhook route checks the signature with the enabled account's secret*)
(* and stores the event, once for each provider and event id.              *)
Signed(r, c) == account[c].key = minted[r].key
RefusedDelivery(r) ==
    /\ capture[r] = "waiting"
    /\ Enabled = {} \/ \E c \in Enabled : ~Signed(r, c)
    /\ tries' = [tries EXCEPT ![r] = tries[r] + 1]
    /\ capture' = [capture EXCEPT ![r] = IF tries'[r] = MaxTries THEN "lost" ELSE "waiting"]
    /\ UNCHANGED <<settingsVars, paymentVars, evidence, booked, refunded>>
RecordEvent(r) == \E c \in Enabled :
    /\ capture[r] = "waiting" /\ Signed(r, c)
    /\ evidence' = evidence \cup {<<ProviderOf[c], r>>}
    /\ capture' = [capture EXCEPT ![r] = "processing"]
    /\ UNCHANGED <<settingsVars, paymentVars, tries, booked, refunded>>

(* processCaptured: the order is found by the reference it stores; a       *)
(* reference of no order is acknowledged and nothing is done.              *)
BookCapture(r) ==
    /\ capture[r] = "processing"
    /\ booked' = IF \E o \in Purchases : gatewayOrder[o] = r THEN booked \cup {r} ELSE booked
    /\ capture' = [capture EXCEPT ![r] = "acked"]
    /\ UNCHANGED <<settingsVars, paymentVars, tries, evidence, refunded>>
BookingFails(r) ==
    /\ capture[r] = "processing" /\ capture' = [capture EXCEPT ![r] = "waiting"]
    /\ UNCHANGED <<settingsVars, paymentVars, tries, evidence, booked, refunded>>

(* The settings page's button: an event of no order, for the mock only.    *)
SendTestEvent == \E c \in Enabled :
    /\ ProviderOf[c] \in Repeating /\ evidence' = evidence \cup {<<ProviderOf[c], TestEvent>>}
    /\ UNCHANGED <<settingsVars, paymentVars, capture, tries, booked, refunded>>

(* processGatewayRefund asks the account enabled by now, not the one that  *)
(* took the money; refused after the claim, the row stays "processing".    *)
RefundJob(r) == \E c \in Enabled :
    /\ r \in booked /\ refunded[r] = "no"
    /\ refunded' = [refunded EXCEPT ![r] = IF Signed(r, c) THEN "yes" ELSE "stuck"]
    /\ UNCHANGED <<settingsVars, paymentVars, webhookVars>>

GatewaysNext ==
    \/ \E s \in Savers :
          SaveBegin(s) \/ DisableOthers(s) \/ Upsert(s) \/ SaveCommit(s) \/ SaveFails(s)
    \/ \E p \in Starts :
          (\E o \in Purchases : ReadAccount(p, o)) \/ StoredReference(p) \/ CreateGatewayOrder(p)
            \/ StoreReference(p) \/ StartFails(p)
    \/ \E r \in References :
          BuyerPays(r) \/ RefusedDelivery(r) \/ RecordEvent(r) \/ BookCapture(r)
            \/ BookingFails(r) \/ RefundJob(r)
    \/ SendTestEvent
--------------------------------------------------------------------------------
(* Payments meet the gateway account they belong to.  A capture that is    *)
(* acknowledged is on the order the buyer paid; and for as long as no save *)
(* of the settings commits, the key given with a reference is the one that *)
(* pays it, no capture is refused until the gateway gives up, and no refund*)
(* is asked of another account -- also while several of the staff enable   *)
(* accounts and several requests start one payment.                        *)
ChangedSince(r) == edition > minted[r].edition
PaymentsMeetTheirAccount ==
    /\ \A r \in References :
          /\ capture[r] = "acked" => r \in booked /\ gatewayOrder[minted[r].purchase] = r
          /\ capture[r] = "lost" \/ refunded[r] = "stuck" => ChangedSince(r)
    /\ \A g \in given : g.edition = minted[g.ref].edition => g.key = minted[g.ref].key
================================================================================
