------------------------------ MODULE RefundWorker ------------------------------
(***************************************************************************)
(* apps/worker/src/jobs/gateway-refund.ts: a refund intent on its way to   *)
(* the payment gateway.  The gateway does not dedupe refunds, so the row is*)
(* claimed before the vendor call and the gateway's reference is recorded  *)
(* after it; the queue may run a job again at any point, also while an     *)
(* earlier run of it is still under way.                                   *)
(*                                                                         *)
(* Checkout creates the intents (RefundIntent) and has all of this in its  *)
(* one action RefundProcessed.                                             *)
(***************************************************************************)
EXTENDS Naturals

CONSTANTS
    Refunds,         \* rows of refunds
    Workers,         \* job runs that may be under way at the same time
    NoRefund,
    MaxAttempts      \* defaultJobOptions.attempts; bounds the stalls of a job as well

ASSUME AttemptsAreNatural == MaxAttempts \in Nat \ {0}
ASSUME NullIsFresh == NoRefund \notin Refunds
ASSUME WorkersAreNoStates == Workers \cap {"none", "waiting", "done", "dead"} = {}

VARIABLES
    status,          \* refunds.status; "none" before the intent exists
    recorded,        \* the refunds with a gateway_refund_id
    job,             \* job[r]: the queue's job "refund-<r>", or the run that has it
    attempts,        \* attempts[r]: times the queue handed that job out
    run,             \* run[w]: the refund w works on, and how far it is
    sent,            \* sent[r]: times the gateway paid it back
    acked            \* the refunds whose refund.processed got a 2xx

vars == <<status, recorded, job, attempts, run, sent, acked>>
queueVars == <<job, attempts>>

Idle == [at |-> "idle", refund |-> NoRefund]
RunState == [at: {"idle", "claim", "call", "record"}, refund: Refunds \cup {NoRefund}]

TypeOK ==
    /\ status \in [Refunds -> {"none", "pending", "processing", "processed"}]
    /\ recorded \in SUBSET Refunds
    /\ job \in [Refunds -> {"none", "waiting", "done", "dead"} \cup Workers]
    /\ attempts \in [Refunds -> 0..MaxAttempts]
    /\ run \in [Workers -> RunState]
    /\ sent \in [Refunds -> Nat]
    /\ acked \in SUBSET Refunds

Init ==
    /\ status = [r \in Refunds |-> "none"]
    /\ recorded = {}
    /\ job = [r \in Refunds |-> "none"]
    /\ attempts = [r \in Refunds |-> 0]
    /\ run = [w \in Workers |-> Idle]
    /\ sent = [r \in Refunds |-> 0]
    /\ acked = {}
--------------------------------------------------------------------------------
(* The intent and the queue.                                               *)

(* createRefundIntent commits; enqueueing comes after and is fail-soft.    *)
CreateIntent(r) ==
    /\ status[r] = "none"
    /\ status' = [status EXCEPT ![r] = "pending"]
    /\ UNCHANGED <<recorded, queueVars, run, sent, acked>>

(* enqueueRefundJob, perhaps again by a redelivered webhook.  A job id the *)
(* queue still keeps is not added twice.                                   *)
Enqueue(r) ==
    /\ status[r] # "none" /\ job[r] = "none"
    /\ job' = [job EXCEPT ![r] = "waiting"]
    /\ attempts' = [attempts EXCEPT ![r] = 0]
    /\ UNCHANGED <<status, recorded, run, sent, acked>>

(* removeOnComplete: a finished job is forgotten; a failed one is kept.    *)
Forget(r) ==
    /\ job[r] = "done"
    /\ job' = [job EXCEPT ![r] = "none"]
    /\ UNCHANGED <<status, recorded, attempts, run, sent, acked>>

(* Tried again while attempts are left; then kept among the failed jobs.   *)
Retried(r) == job' = [job EXCEPT ![r] = IF attempts[r] < MaxAttempts THEN "waiting" ELSE "dead"]

(* The lock of an active job runs out, its worker dead or merely slow.     *)
Stall(r) ==
    /\ job[r] \in Workers
    /\ Retried(r)
    /\ UNCHANGED <<status, recorded, attempts, run, sent, acked>>

(* The end of a run: the job is done, or it threw and is tried again while *)
(* attempts are left.  A run whose lock ran out no longer has a say.       *)
Returns(w, r) ==
    /\ run' = [run EXCEPT ![w] = Idle]
    /\ job' = [job EXCEPT ![r] = IF @ = w THEN "done" ELSE @]
Throws_Swallowed(w, r) == Returns(w, r)     \* mutant: the error is logged, not thrown
Throws(w, r) ==
    /\ run' = [run EXCEPT ![w] = Idle]
    /\ IF job[r] = w THEN Retried(r) ELSE UNCHANGED job
--------------------------------------------------------------------------------
(* processGatewayRefund.                                                   *)

HandedOut(w, r) ==
    /\ run[w].at = "idle" /\ job[r] = "waiting"
    /\ attempts' = [attempts EXCEPT ![r] = @ + 1]
    /\ UNCHANGED <<status, recorded, sent, acked>>

(* getRefundForProcessing finds an intent that may go out.                 *)
Take(w, r) ==
    /\ HandedOut(w, r) /\ status[r] = "pending"
    /\ job' = [job EXCEPT ![r] = w]
    /\ run' = [run EXCEPT ![w] = [at |-> "claim", refund |-> r]]

(* The row was already claimed: with a reference it is on its way, without *)
(* one nobody can say whether the gateway was called (needs_reconciliation)*)
(* and it is never sent again.                                             *)
TakeSettled(w, r) ==
    /\ HandedOut(w, r) /\ status[r] # "pending"
    /\ job' = [job EXCEPT ![r] = "done"]
    /\ UNCHANGED run

(* No enabled account, no gateway payment id, or the credentials cannot be *)
(* unsealed: before the claim, so that a retry finds the row as it was.    *)
LocalFailure(w) == LET r == run[w].refund IN
    /\ run[w].at = "claim"
    /\ Throws(w, r)
    /\ UNCHANGED <<status, recorded, attempts, sent, acked>>

(* CLAIM: the update moves a pending row only.                             *)
Claimable_AsRead(r) == TRUE       \* mutant: trusts the read made before
Claimable(r) == status[r] = "pending"

(* The claim moved no row: another run has it.                             *)
AlreadyClaimed(w) == LET r == run[w].refund IN
    /\ run[w].at = "claim" /\ ~Claimable(r)
    /\ Returns(w, r)
    /\ UNCHANGED <<status, recorded, attempts, sent, acked>>

Claim(w) == LET r == run[w].refund IN
    /\ run[w].at = "claim" /\ Claimable(r)
    /\ status' = [status EXCEPT ![r] = "processing"]
    /\ run' = [run EXCEPT ![w].at = "call"]
    /\ UNCHANGED <<recorded, queueVars, sent, acked>>

(* The vendor call: the gateway pays back and answers with its reference,  *)
(* or the call fails, before or after the gateway acted on it.             *)
CallGateway(w) == LET r == run[w].refund IN
    /\ run[w].at = "call"
    /\ sent' = [sent EXCEPT ![r] = @ + 1]
    /\ run' = [run EXCEPT ![w].at = "record"]
    /\ UNCHANGED <<status, recorded, queueVars, acked>>

(* What an exception of the call leaves behind: the claim stands.          *)
AfterFailedCall_Unclaimed(r) ==   \* mutant: the claim is undone for the retry
    status' = [status EXCEPT ![r] = "pending"]
AfterFailedCall(r) == UNCHANGED status
CallFails(w) == LET r == run[w].refund IN
    /\ run[w].at = "call"
    /\ \E moved \in {0, 1} : sent' = [sent EXCEPT ![r] = @ + moved]
    /\ AfterFailedCall(r)
    /\ Throws(w, r)
    /\ UNCHANGED <<recorded, attempts, acked>>

RecordReference(w) == LET r == run[w].refund IN
    /\ run[w].at = "record"
    /\ recorded' = recorded \cup {r}
    /\ Returns(w, r)
    /\ UNCHANGED <<status, attempts, sent, acked>>

(* The process dies; its job stays active until its lock runs out.         *)
Die(w) ==
    /\ run[w].at # "idle"
    /\ run' = [run EXCEPT ![w] = Idle]
    /\ UNCHANGED <<status, recorded, queueVars, sent, acked>>

(* The webhook refund.processed, delivered at least once, finds the row by *)
(* the recorded reference and is acknowledged either way.                  *)
RefundProcessed(r) ==
    /\ sent[r] > 0
    /\ status' = [status EXCEPT ![r] =
                    IF r \in recorded /\ @ \in {"pending", "processing"} THEN "processed" ELSE @]
    /\ acked' = acked \cup {r}
    /\ UNCHANGED <<recorded, queueVars, run, sent>>

Next ==
    \/ \E r \in Refunds : CreateIntent(r) \/ Enqueue(r) \/ Forget(r) \/ Stall(r)
                          \/ RefundProcessed(r)
    \/ \E w \in Workers : \/ \E r \in Refunds : Take(w, r) \/ TakeSettled(w, r)
                          \/ LocalFailure(w) \/ AlreadyClaimed(w) \/ Claim(w)
                          \/ CallGateway(w) \/ CallFails(w) \/ RecordReference(w) \/ Die(w)

Spec == Init /\ [][Next]_vars
--------------------------------------------------------------------------------
(* "Double-refund impossible": the gateway pays a capture back at most     *)
(* once, however often the job is run, stalls, dies or loses the answer of *)
(* its call.                                                               *)
SentAtMostOnce == \A r \in Refunds : sent[r] <= 1

(* What a retry would send was never sent: a pending row has not reached   *)
(* the gateway and no run is on its way there.                             *)
OnTheWire(w, r) == run[w].refund = r /\ run[w].at \in {"call", "record"}
PendingWasNeverSent == \A r \in Refunds : status[r] = "pending" =>
    sent[r] = 0 /\ \A w \in Workers : ~OnTheWire(w, r)

(* A stall is visible: no job ends as completed while its refund has still *)
(* to be sent; it is retried, or kept among the failed jobs.               *)
DoneMeansCarried == \A r \in Refunds : job[r] = "done" => status[r] # "pending"

(* "refund.processed: refunds row -> processed" (design, 4.4): once the    *)
(* reference is recorded, an acknowledged refund.processed has ended the   *)
(* refund, also one that came before the reference.                        *)
AckedIsProcessed == \A r \in Refunds : r \in acked /\ r \in recorded => status[r] = "processed"
================================================================================
