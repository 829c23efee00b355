---------------------------------- MODULE Media ----------------------------------
(***************************************************************************)
(* One image file: its media row, the console uploads of it and the        *)
(* worker's jobs.  console/src/app/api/media/upload/route.ts and           *)
(* worker/src/jobs/process-media.ts; files are independent, a row is found *)
(* by the checksum of the bytes.  The original is stored before the row,   *)
(* so a job that finds none is one more reason to fail.  BullMQ (attempts  *)
(* with backoff, a stalled job taken up again) is external.  The row is    *)
(* never soft-deleted by any code yet, so that branch is left out.         *)
(***************************************************************************)
EXTENDS Integers

CONSTANTS
    Consoles,         \* console processes, each with one upload of the file at a time
    Jobs,             \* bound: the jobs ever enqueued
    Attempts          \* attempts of a job (queues.ts: 5)

ASSUME MediaAssumption == Attempts \in Nat \ {0}

VARIABLES
    row,              \* media.status; "none" before the row exists
    upload,           \* how far each console's upload has come
    jobState,         \* how far each job has come
    left,             \* the attempts each job has left
    orphaned,         \* history: a console died, or an attempt ended, with the row unmarked
    contested         \* history: when the row last became ready something still worked on it

mediaVars == <<row, upload, jobState, left, orphaned, contested>>

MediaInit ==
    /\ row = "none" /\ orphaned = FALSE /\ contested = FALSE
    /\ upload = [c \in Consoles |-> "idle"]
    /\ jobState = [j \in Jobs |-> "unused"] /\ left = [j \in Jobs |-> Attempts]

Alive(j) == jobState[j] \in {"queued", "running", "failing", "marked"}
Stage(c, from, to) == upload[c] = from /\ upload' = [upload EXCEPT ![c] = to]
--------------------------------------------------------------------------------
(* The dedupe SELECT returns a row that is not failed; that upload is over.*)
Reusable == row \in {"pending", "ready"}

Dedupe(c) ==
    /\ ~Reusable
    /\ Stage(c, "idle", "stored")
    /\ UNCHANGED <<row, jobState, left, orphaned, contested>>

(* Bytes that do not decode, or that the store does not take.              *)
Reject(c) ==
    /\ Stage(c, "stored", "idle")
    /\ UNCHANGED <<row, jobState, left, orphaned, contested>>

Insert(c) ==
    /\ IF row = "none" THEN row' = "pending" /\ Stage(c, "stored", "written")
                       ELSE Stage(c, "stored", "conflict") /\ UNCHANGED row
    /\ UNCHANGED <<jobState, left, orphaned, contested>>

(* The row that was in the way: only a failed one is started again.        *)
TakeFailed(c) ==
    /\ Stage(c, "conflict", IF row = "failed" THEN "claimed" ELSE "idle")
    /\ UNCHANGED <<row, jobState, left, orphaned, contested>>

Reset(c) ==
    /\ Stage(c, "claimed", "written")
    /\ row' = "pending"
    /\ UNCHANGED <<jobState, left, orphaned, contested>>

AddJob(c) == \E j \in Jobs :
    /\ jobState[j] = "unused" /\ jobState' = [jobState EXCEPT ![j] = "queued"]
    /\ Stage(c, "written", "idle")
    /\ UNCHANGED <<row, left, orphaned, contested>>

(* Redis refuses, or takes the job and does not say so.                    *)
EnqueueFails(c) ==
    /\ Stage(c, "written", "refused")
    /\ \/ UNCHANGED jobState
       \/ \E j \in Jobs : jobState[j] = "unused" /\ jobState' = [jobState EXCEPT ![j] = "queued"]
    /\ UNCHANGED <<row, left, orphaned, contested>>

RowUnqueued_Kept == row     \* mutant: the error is thrown without marking the row
RowUnqueued == "failed"
MarkUnqueued(c) ==
    /\ Stage(c, "refused", "idle")
    /\ row' = RowUnqueued
    /\ UNCHANGED <<jobState, left, orphaned, contested>>

(* The process dies, or the database is away: a row it wrote stays as is.  *)
ConsoleDies(c) ==
    /\ upload[c] # "idle" /\ upload' = [upload EXCEPT ![c] = "idle"]
    /\ orphaned' = (orphaned \/ upload[c] \in {"written", "refused"})
    /\ UNCHANGED <<row, jobState, left, contested>>
--------------------------------------------------------------------------------
(* The worker.  An attempt ends by completing the job or by a throw, which *)
(* queues it again as long as attempts are left.                           *)
Start(j) ==
    /\ jobState[j] = "queued" /\ jobState' = [jobState EXCEPT ![j] = "running"]
    /\ UNCHANGED <<row, upload, left, orphaned, contested>>

Fail(j) ==
    /\ jobState[j] = "running" /\ jobState' = [jobState EXCEPT ![j] = "failing"]
    /\ UNCHANGED <<row, upload, left, orphaned, contested>>

EndAttempt(j) ==
    /\ jobState' = [jobState EXCEPT ![j] = IF left[j] = 1 THEN "dead" ELSE "queued"]
    /\ left' = [left EXCEPT ![j] = @ - 1]

MarkFailed(j) ==
    /\ jobState[j] = "failing" /\ row' = "failed"
    /\ EndAttempt(j)
    /\ UNCHANGED <<upload, orphaned, contested>>

(* The row could not be read or marked, or the worker died: the attempt is *)
(* spent and the row is as it was.                                         *)
AttemptLost(j) ==
    /\ jobState[j] \in {"running", "failing", "marked"}
    /\ EndAttempt(j)
    /\ orphaned' = (orphaned \/ left[j] = 1)
    /\ contested' = (contested \/ jobState[j] = "marked")
    /\ UNCHANGED <<row, upload>>

MarkReady(j) ==
    /\ jobState[j] = "running" /\ row' = "ready"
    /\ jobState' = [jobState EXCEPT ![j] = "marked"]
    /\ contested' = ((\E c \in Consoles : upload[c] # "idle") \/ \E k \in Jobs \ {j} : Alive(k))
    /\ UNCHANGED <<upload, left, orphaned>>

(* The commit went through but its answer was lost: the catch marks it.    *)
AnswerLost(j) ==
    /\ jobState[j] = "marked" /\ jobState' = [jobState EXCEPT ![j] = "failing"]
    /\ contested' = TRUE
    /\ UNCHANGED <<row, upload, left, orphaned>>

(* The cache is purged after the row is ready, outside the catch, and the  *)
(* purge never throws: the job is done.                                    *)
Complete_Throws(j) ==     \* mutant: a failed purge throws inside the block that marks
    /\ jobState[j] = "marked" /\ jobState' = [jobState EXCEPT ![j] = "failing"]
    /\ UNCHANGED <<row, upload, left, orphaned, contested>>
Complete(j) ==
    /\ jobState[j] = "marked" /\ jobState' = [jobState EXCEPT ![j] = "done"]
    /\ UNCHANGED <<row, upload, left, orphaned, contested>>

MediaNext ==
    \/ \E c \in Consoles :
          Dedupe(c) \/ Reject(c) \/ Insert(c) \/ TakeFailed(c) \/ Reset(c) \/ AddJob(c)
            \/ EnqueueFails(c) \/ MarkUnqueued(c) \/ ConsoleDies(c)
    \/ \E j \in Jobs :
          Start(j) \/ Fail(j) \/ MarkFailed(j) \/ AttemptLost(j) \/ MarkReady(j)
            \/ AnswerLost(j) \/ Complete(j)

MediaSpec == MediaInit /\ [][MediaNext]_mediaVars
--------------------------------------------------------------------------------
(* A pending image is being worked on: an upload is about to enqueue it or *)
(* to mark it failed, or a job for it is alive; it is stranded only if a   *)
(* console died there or a job's last attempt could not mark it (route.ts: *)
(* "without this the row sits pending forever").                           *)
PendingHasAJob == row = "pending" =>
    \/ orphaned
    \/ \E c \in Consoles : upload[c] \in {"written", "refused"}
    \/ \E j \in Jobs : Alive(j)

(* A finished image stays finished, whatever is uploaded afterwards: it is *)
(* taken back only by an upload, a job or an unacknowledged attempt that   *)
(* was still under way when it became ready (process-media.ts: to mark     *)
(* failed a row that is ready is worse than a stale cache).                *)
ReadyImageStays == [][row = "ready" /\ row' # "ready" => contested]_mediaVars
================================================================================
