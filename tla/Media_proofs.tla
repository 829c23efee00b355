------------------------------ MODULE Media_proofs ------------------------------
(* What holds of an image for any number of consoles, jobs and attempts.    *)
EXTENDS Media, TLAPS

Stages == {"idle", "stored", "conflict", "claimed", "written", "refused"}
JobStates == {"unused", "queued", "running", "failing", "marked", "done", "dead"}
MediaTypeOK ==
    /\ row \in {"none", "pending", "ready", "failed"}
    /\ upload \in [Consoles -> Stages] /\ jobState \in [Jobs -> JobStates]
    /\ left \in [Jobs -> Int]
    /\ orphaned \in BOOLEAN /\ contested \in BOOLEAN

(* An attempt that has marked the row ready will not do so again: a row    *)
(* that is pending must have another job, or an upload.                    *)
StillToMark(j) == jobState[j] \in {"queued", "running", "failing"}
Pursued == row = "pending" =>
    \/ orphaned
    \/ \E c \in Consoles : upload[c] \in {"written", "refused"}
    \/ \E j \in Jobs : StillToMark(j)

(* An uncontested image became ready with nobody else at work, and nobody  *)
(* can begin: the dedupe finds it.                                         *)
Undisturbed == row = "ready" /\ ~contested =>
    /\ \A c \in Consoles : upload[c] = "idle"
    /\ \A j \in Jobs : ~StillToMark(j)

Care == MediaTypeOK /\ Pursued /\ Undisturbed

(* Nothing is pending or ready before the first upload.                    *)
LEMMA CareInit == MediaInit => Care
<1> SUFFICES ASSUME MediaInit PROVE Care
  OBVIOUS
<1>1. orphaned \in BOOLEAN /\ contested \in BOOLEAN
  BY Zenon DEF MediaInit
<1>2. /\ row \in {"none", "pending", "ready", "failed"}
      /\ upload \in [Consoles -> Stages] /\ jobState \in [Jobs -> JobStates]
  BY DEF MediaInit, Stages, JobStates
<1>3. left \in [Jobs -> Int]
  BY MediaAssumption DEF MediaInit, MediaAssumption
<1> QED
  BY <1>1, <1>2, <1>3 DEF MediaInit, Care, MediaTypeOK, Pursued, Undisturbed

(* Every step of an upload, an attempt and the queue keeps it.             *)
LEMMA CareKept == Care /\ [MediaNext]_mediaVars => Care'
<1> SUFFICES ASSUME Care, [MediaNext]_mediaVars PROVE Care'
  OBVIOUS
<1> USE DEF Care, MediaTypeOK, Pursued, Undisturbed, StillToMark, Stages, JobStates, Stage
<1>1. ASSUME NEW c \in Consoles, Dedupe(c) PROVE Care'
  BY <1>1 DEF Dedupe, Reusable
<1>2. ASSUME NEW c \in Consoles, Reject(c) PROVE Care'
  BY <1>2 DEF Reject
<1>3. ASSUME NEW c \in Consoles, Insert(c) PROVE Care'
  BY <1>3 DEF Insert
<1>4. ASSUME NEW c \in Consoles, TakeFailed(c) PROVE Care'
  BY <1>4 DEF TakeFailed
<1>5. ASSUME NEW c \in Consoles, Reset(c) PROVE Care'
  BY <1>5 DEF Reset
<1>6. ASSUME NEW c \in Consoles, AddJob(c) PROVE Care'
  BY <1>6 DEF AddJob
<1>7. ASSUME NEW c \in Consoles, EnqueueFails(c) PROVE Care'
  BY <1>7 DEF EnqueueFails
<1>8. ASSUME NEW c \in Consoles, MarkUnqueued(c) PROVE Care'
  BY <1>8 DEF MarkUnqueued, RowUnqueued
<1>9. ASSUME NEW c \in Consoles, ConsoleDies(c) PROVE Care'
  BY <1>9 DEF ConsoleDies
<1>10. ASSUME NEW j \in Jobs, Start(j) PROVE Care'
  BY <1>10 DEF Start
<1>11. ASSUME NEW j \in Jobs, Fail(j) PROVE Care'
  BY <1>11 DEF Fail
<1>12. ASSUME NEW j \in Jobs, MarkFailed(j) PROVE Care'
  BY <1>12 DEF MarkFailed, EndAttempt
<1>13. ASSUME NEW j \in Jobs, AttemptLost(j) PROVE Care'
  <2>1. orphaned' \in BOOLEAN /\ contested' \in BOOLEAN
    BY <1>13, Zenon DEF AttemptLost
  <2>2. left' \in [Jobs -> Int] /\ jobState' \in [Jobs -> JobStates]
    BY <1>13 DEF AttemptLost, EndAttempt
  <2>3. Pursued'
    <3>1. CASE left[j] = 1
      BY <1>13, <3>1 DEF AttemptLost
    <3>2. CASE left[j] # 1
      BY <1>13, <3>2 DEF AttemptLost, EndAttempt
    <3> QED
      BY <3>1, <3>2
  <2>4. Undisturbed'
    BY <1>13 DEF AttemptLost, EndAttempt
  <2> QED
    BY <1>13, <2>1, <2>2, <2>3, <2>4 DEF AttemptLost
<1>14. ASSUME NEW j \in Jobs, MarkReady(j) PROVE Care'
  <2>1. contested' \in BOOLEAN
    BY <1>14, Zenon DEF MarkReady
  <2>2. MediaTypeOK' /\ Pursued'
    BY <1>14, <2>1 DEF MarkReady
  <2>3. Undisturbed'
    BY <1>14 DEF MarkReady, Alive
  <2> QED
    BY <2>2, <2>3
<1>15. ASSUME NEW j \in Jobs, AnswerLost(j) PROVE Care'
  BY <1>15 DEF AnswerLost
<1>16. ASSUME NEW j \in Jobs, Complete(j) PROVE Care'
  BY <1>16 DEF Complete
<1>17. CASE UNCHANGED mediaVars
  BY <1>17 DEF mediaVars
<1> QED
  BY <1>1, <1>2, <1>3, <1>4, <1>5, <1>6, <1>7, <1>8, <1>9, <1>10, <1>11, <1>12, <1>13,
     <1>14, <1>15, <1>16, <1>17 DEF MediaNext

(* Route and worker only ever leave such states.                           *)
THEOREM CareHolds == MediaSpec => []Care
<1>1. QED
  BY CareInit, CareKept, PTL DEF MediaSpec

(* route.ts, process-media.ts: no image is left pending with nobody at     *)
(* work on it, short of a crash, however many uploads and attempts race.   *)
THEOREM PendingImagesHaveJobs == MediaSpec => []PendingHasAJob
<1>1. Care => PendingHasAJob
  BY DEF Care, Pursued, StillToMark, PendingHasAJob, Alive
<1> QED
  BY <1>1, CareHolds, PTL

(* route.ts, process-media.ts: a finished image is only taken back by work *)
(* that had begun before it was finished.                                  *)
THEOREM ReadyImagesStay == MediaSpec => ReadyImageStays
<1>1. Care /\ [MediaNext]_mediaVars => [row = "ready" /\ row' # "ready" => contested]_mediaVars
  <2> SUFFICES ASSUME Care, MediaNext, row = "ready", row' # "ready", ~contested PROVE FALSE
    BY DEF mediaVars
  <2>1. /\ \A c \in Consoles : upload[c] = "idle"
        /\ \A j \in Jobs : ~StillToMark(j)
    BY DEF Care, Undisturbed
  <2>2. \/ \E c \in Consoles : Insert(c) \/ Reset(c) \/ MarkUnqueued(c)
        \/ \E j \in Jobs : MarkFailed(j)
    BY DEF MediaNext, Dedupe, Reject, TakeFailed, AddJob, EnqueueFails, ConsoleDies, Start, Fail,
           AttemptLost, MarkReady, AnswerLost, Complete
  <2> QED
    BY <2>1, <2>2 DEF Insert, Reset, MarkUnqueued, MarkFailed, Stage, StillToMark
<1> QED
  BY <1>1, CareHolds, PTL DEF MediaSpec, ReadyImageStays
================================================================================
