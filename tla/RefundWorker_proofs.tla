--------------------------- MODULE RefundWorker_proofs ---------------------------
(* What holds of refunds for any number of them, of runs and of attempts.   *)
EXTENDS RefundWorker, TLAPS

(* A run knows its refund, and one run at most is beyond the claim: until  *)
(* it calls, nothing was sent.                                             *)
RunsAreKnown == \A w \in Workers :
    run[w].at # "idle" => run[w].refund \in Refunds /\ status[run[w].refund] # "none"
ClaimedOnce == \A r \in Refunds : \A w, x \in Workers :
    OnTheWire(w, r) /\ OnTheWire(x, r) => w = x
CallsAreFirst == \A w \in Workers : run[w].at = "call" => sent[run[w].refund] = 0
AttemptsAreLeft == \A r \in Refunds : job[r] = "waiting" => attempts[r] < MaxAttempts
NoneIsUntouched == \A r \in Refunds : status[r] = "none" => job[r] = "none" /\ sent[r] = 0

Claims == /\ TypeOK
          /\ RunsAreKnown /\ ClaimedOnce /\ CallsAreFirst
          /\ AttemptsAreLeft /\ NoneIsUntouched
          /\ SentAtMostOnce /\ PendingWasNeverSent /\ DoneMeansCarried

(* Every refund starts without intent, job or payment.                     *)
LEMMA ClaimsInit == Init => Claims
  BY NullIsFresh, AttemptsAreNatural
  DEF Init, Claims, TypeOK, RunsAreKnown, ClaimedOnce, CallsAreFirst, AttemptsAreLeft,
      NoneIsUntouched, SentAtMostOnce, PendingWasNeverSent, DoneMeansCarried, OnTheWire, Idle, RunState

(* Each step of the job, the queue and the webhook keeps the claim.        *)
LEMMA ClaimsKept == Claims /\ [Next]_vars => Claims'
<1> SUFFICES ASSUME Claims, [Next]_vars PROVE Claims'
  OBVIOUS
<1> USE AttemptsAreNatural, NullIsFresh, WorkersAreNoStates
    DEF Claims, TypeOK, RunsAreKnown, ClaimedOnce, CallsAreFirst, AttemptsAreLeft,
        NoneIsUntouched, SentAtMostOnce, PendingWasNeverSent, DoneMeansCarried, OnTheWire, Idle, RunState,
        queueVars
<1>1. ASSUME NEW r \in Refunds, CreateIntent(r) PROVE Claims'
  BY <1>1 DEF CreateIntent
<1>2. ASSUME NEW r \in Refunds, Enqueue(r) PROVE Claims'
  BY <1>2 DEF Enqueue
<1>3. ASSUME NEW r \in Refunds, Forget(r) PROVE Claims'
  BY <1>3 DEF Forget
<1>4. ASSUME NEW r \in Refunds, Stall(r) PROVE Claims'
  BY <1>4 DEF Stall, Retried
<1>5. ASSUME NEW r \in Refunds, RefundProcessed(r) PROVE Claims'
  BY <1>5 DEF RefundProcessed
<1>6. ASSUME NEW w \in Workers, NEW r \in Refunds, Take(w, r) PROVE Claims'
  <2>1. attempts[r] + 1 \in 0..MaxAttempts
    BY <1>6 DEF Take, HandedOut
  <2> QED
    BY <1>6, <2>1 DEF Take, HandedOut
<1>7. ASSUME NEW w \in Workers, NEW r \in Refunds, TakeSettled(w, r) PROVE Claims'
  <2>1. attempts[r] + 1 \in 0..MaxAttempts
    BY <1>7 DEF TakeSettled, HandedOut
  <2> QED
    BY <1>7, <2>1 DEF TakeSettled, HandedOut
<1>8. ASSUME NEW w \in Workers, LocalFailure(w) PROVE Claims'
  <2> DEFINE r == run[w].refund
  <2>1. r \in Refunds /\ status[r] # "none"
    BY <1>8 DEF LocalFailure
  <2>2. CASE job[r] = w
    <3>1. /\ job' \in [Refunds -> {"none", "waiting", "done", "dead"} \cup Workers]
          /\ \A q \in Refunds : job'[q] = "done" => job[q] = "done"
          /\ \A q \in Refunds : job'[q] = "waiting" => attempts[q] < MaxAttempts
          /\ \A q \in Refunds : status[q] = "none" => job'[q] = "none"
      BY <1>8, <2>1, <2>2 DEF LocalFailure, Throws, Retried
    <3>2. run' = [run EXCEPT ![w] = Idle] /\ UNCHANGED <<status, recorded, attempts, sent, acked>>
      BY <1>8 DEF LocalFailure, Throws
    <3> QED
      BY <3>1, <3>2
  <2>3. CASE job[r] # w
    BY <1>8, <2>1, <2>3 DEF LocalFailure, Throws
  <2> QED
    BY <2>2, <2>3
<1>9. ASSUME NEW w \in Workers, AlreadyClaimed(w) PROVE Claims'
  BY <1>9 DEF AlreadyClaimed, Returns, Claimable
<1>10. ASSUME NEW w \in Workers, Claim(w) PROVE Claims'
  BY <1>10 DEF Claim, Claimable
<1>11. ASSUME NEW w \in Workers, CallGateway(w) PROVE Claims'
  BY <1>11 DEF CallGateway
<1>12. ASSUME NEW w \in Workers, CallFails(w) PROVE Claims'
  <2> DEFINE r == run[w].refund
  <2>1. r \in Refunds /\ OnTheWire(w, r) /\ sent[r] = 0 /\ status[r] \notin {"none", "pending"}
    BY <1>12 DEF CallFails
  <2>2. CASE job[r] = w
    BY <1>12, <2>1, <2>2 DEF CallFails, AfterFailedCall, Throws, Retried
  <2>3. CASE job[r] # w
    BY <1>12, <2>1, <2>3 DEF CallFails, AfterFailedCall, Throws
  <2> QED
    BY <2>2, <2>3
<1>13. ASSUME NEW w \in Workers, RecordReference(w) PROVE Claims'
  BY <1>13 DEF RecordReference, Returns
<1>14. ASSUME NEW w \in Workers, Die(w) PROVE Claims'
  BY <1>14 DEF Die
<1>15. CASE UNCHANGED vars
  BY <1>15 DEF vars
<1> QED
  BY <1>1, <1>2, <1>3, <1>4, <1>5, <1>6, <1>7, <1>8, <1>9, <1>10, <1>11, <1>12, <1>13,
     <1>14, <1>15 DEF Next

(* So the inductive invariant holds in every behaviour.                    *)
THEOREM ClaimsHold == Spec => []Claims
  BY ClaimsInit, ClaimsKept, PTL DEF Spec

(* Every row, job and run keeps its type.                                  *)
THEOREM TypeCorrect == Spec => []TypeOK
<1> Claims => TypeOK
  BY DEF Claims
<1> QED
  BY ClaimsHold, PTL

(* gateway-refund.ts calls a gateway that does not dedupe: still no refund *)
(* is sent twice, however many runs there are and wherever they die.       *)
THEOREM NeverSentTwice == Spec => []SentAtMostOnce
<1> Claims => SentAtMostOnce
  BY DEF Claims
<1> QED
  BY ClaimsHold, PTL

(* What the queue may retry has not reached the gateway.                   *)
THEOREM RetriesAreSafe == Spec => []PendingWasNeverSent
<1> Claims => PendingWasNeverSent
  BY DEF Claims
<1> QED
  BY ClaimsHold, PTL

(* No job completes with its refund still to be sent.                      *)
THEOREM StallsStayVisible == Spec => []DoneMeansCarried
<1> Claims => DoneMeansCarried
  BY DEF Claims
<1> QED
  BY ClaimsHold, PTL
================================================================================
