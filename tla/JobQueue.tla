------------------------------ MODULE JobQueue ------------------------------
(***************************************************************************)
(* The life of a transcription job: the jobs table in Postgres, the Redis  *)
(* stream that hands jobs to workers, the API handlers that create,        *)
(* cancel, retry and delete jobs, the Python workers that claim and        *)
(* process them, and the reaper goroutine that recovers expired leases.    *)
(*                                                                         *)
(* Neither side opens a transaction (the worker connection is autocommit,  *)
(* the Go stores query the pool directly), so every SQL statement, every   *)
(* stream command and every object-store call is one atomic step, and      *)
(* another process may run, or the calling one may die, between any two.   *)
(***************************************************************************)
EXTENDS Naturals, Sequences, FiniteSets

CONSTANTS
  Jobs,         \* job ids; uuid.New never repeats one
  Workers,      \* worker processes, one message at a time each
  Requests,     \* API calls that change a job, each made once
  None,         \* SQL NULL in worker_id; no job in a process's hands
  MaxAttempts,  \* jobs.max_attempts
  LateRenewal,  \* may the lease of a live, working worker run out?
  Faults,       \* which kinds of failure happen
  MaxFaults,    \* bound: how many failures happen
  MaxStream     \* bound: undelivered stream entries

FaultKinds == {"worker_crash", "worker_exception", "request_error", "api_crash", "reaper_error"}

ASSUME NoneAssumption == None \notin Workers \cup Jobs
ASSUME ProcessesAssumption == IsFiniteSet(Workers) /\ IsFiniteSet(Requests)
ASSUME MaxAttemptsAssumption == MaxAttempts \in Nat \ {0}
ASSUME BoundsAssumption == MaxFaults \in Nat /\ MaxStream \in Nat
ASSUME FaultsAssumption == Faults \subseteq FaultKinds /\ LateRenewal \in BOOLEAN

VARIABLES
  status, attempts, workerId, lease, deleted,  \* columns of the jobs table
  transcripts, segments,  \* jobs with a transcripts row, with its segments
  events,                 \* the event types job_events holds for each job
  objects,                \* jobs whose audio is in the object store
  stream,                 \* undelivered entries of jobs:pending, oldest first
  abandoned,              \* delivered entries whose worker died before XACK
  rpc, rjob,              \* API handlers: next call, and the job
  wpc, wjob, wattempts,   \* workers: next call, job, ClaimedJob.attempts
  reapPc, reapJob, expired,  \* reaper: next call, job, rest of its batch
  faults,                 \* failures so far
  claims,                 \* history: claims since creation or user retry, up to
                          \* one more than the budget allows
  completions             \* history: complete_job updates

row == <<status, attempts, workerId, lease, deleted>>
result == <<transcripts, segments>>
db == <<row, result, events, objects>>
queue == <<stream, abandoned>>
api == <<rpc, rjob>>
workers == <<wpc, wjob, wattempts>>
reaper == <<reapPc, reapJob, expired>>
history == <<claims, completions>>
vars == <<db, queue, api, workers, reaper, faults, history>>

-----------------------------------------------------------------------------
(* Statuses and events of job.go.  "absent": no row yet.                   *)

Statuses == {"absent", "pending", "queued", "processing", "retrying", "succeeded", "failed", "cancelled"}
EventTypes == {"created", "queued", "leased", "succeeded", "failed", "retrying", "cancelled"}

CanCancel(s) == s \in {"queued", "processing"}
CanRetry(s) == s = "failed"

Visible(j) == status[j] # "absent" /\ ~deleted[j]

(* The job_events inserts: at the label, write the type, go on to the next *)
(* label.                                                                  *)
ApiEvents ==
  {<<"created_event", "created", "transition">>,
   <<"queued_event", "queued", "enqueue">>,
   <<"cancelled_event", "cancelled", "done">>,
   <<"retrying_event", "retrying", "retry_enqueue">>,
   <<"retry_queued_event", "queued", "done">>}
WorkerEvents ==
  {<<"leased_event", "leased", "download">>,
   <<"failed_event", "failed", "ack">>,
   <<"retrying_event", "retrying", "queued_event">>,
   <<"queued_event", "queued", "xadd">>,
   <<"succeeded_event", "succeeded", "ack">>}
ReaperEvents ==
  {<<"failed_event", "failed", "idle">>,
   <<"retrying_event", "retrying", "queued_event">>,
   <<"queued_event", "queued", "enqueue">>}

ApiPcs ==
  {"ready", "done", "created_event", "transition", "queued_event", "enqueue",
   "cancel", "cancelled_event", "retry", "retrying_event", "retry_enqueue",
   "retry_queued_event", "delete", "delete_object"}
WorkerPcs ==
  {"idle", "claim", "leased_event", "download", "transcribe", "fail", "failed_event",
   "retrying_event", "queued_event", "xadd", "insert_transcript", "insert_segments",
   "complete", "succeeded_event", "ack"}
ReaperPcs == {"idle", "failed_event", "retrying_event", "queued_event", "enqueue"}

(* The claim of job j is in worker w's hands: it has taken the row and has *)
(* not yet written its outcome.                                            *)
Holds(w, j) ==
  /\ wjob[w] = j
  /\ wpc[w] \in {"leased_event", "download", "transcribe", "fail",
                 "insert_transcript", "insert_segments", "complete"}

-----------------------------------------------------------------------------
Init ==
  /\ status = [j \in Jobs |-> "absent"]
  /\ attempts = [j \in Jobs |-> 0]
  /\ workerId = [j \in Jobs |-> None]
  /\ lease = [j \in Jobs |-> "none"]
  /\ deleted = [j \in Jobs |-> FALSE]
  /\ transcripts = {} /\ segments = {}
  /\ events = [j \in Jobs |-> {}]
  /\ objects = Jobs
  /\ stream = <<>>
  /\ abandoned = 0
  /\ rpc = [r \in Requests |-> "ready"]
  /\ rjob = [r \in Requests |-> None]
  /\ wpc = [w \in Workers |-> "idle"]
  /\ wjob = [w \in Workers |-> None]
  /\ wattempts = [w \in Workers |-> 0]
  /\ reapPc = "idle" /\ reapJob = None /\ expired = {}
  /\ faults = 0
  /\ claims = [j \in Jobs |-> 0]
  /\ completions = [j \in Jobs |-> 0]

-----------------------------------------------------------------------------
(* The WHERE clauses of the updates, and the tests around them.            *)

(* A cancel that trusts the check Service.Cancel made before the update.   *)
CancelWhereUnchecked(j) == ~deleted[j]
CancelWhere(j) == status[j] \in {"queued", "processing"} /\ ~deleted[j]

(* A retry that trusts the check Service.Retry made before the update.     *)
RetryWhereUnchecked(j) == ~deleted[j]
RetryWhere(j) == status[j] = "failed" /\ ~deleted[j]

ClaimWhere(j) == status[j] \in {"queued", "retrying"} /\ ~deleted[j]

(* Without the UNIQUE on transcripts.job_id.                               *)
NoUniqueViolation(j) == FALSE
UniqueViolation(j) == j \in transcripts

(* A scan that forgets the lease, and one that looks for unowned jobs.     *)
AllProcessing == {j \in Jobs : status[j] = "processing" /\ ~deleted[j]}
UnownedExpired ==
  {j \in Jobs : status[j] = "processing" /\ lease[j] = "expired" /\ workerId[j] = None}
ExpiredLeases ==
  {j \in Jobs : status[j] = "processing" /\ lease[j] = "expired" /\ ~deleted[j]}

(* The attempt just made is, or is not, the last one; off by one.          *)
ExhaustedLate(n) == n >= MaxAttempts
Exhausted(n) == n + 1 >= MaxAttempts

(* A failure that is not counted.                                          *)
SameAttempts(w) == wattempts[w]
NewAttempts(w) == wattempts[w] + 1

-----------------------------------------------------------------------------
(* Shared steps.                                                           *)

(* job_events kept as one row per job.                                     *)
RecordLatestEvent(j, type) == events' = [events EXCEPT ![j] = {type}]
RecordEvent(j, type) == events' = [events EXCEPT ![j] = @ \cup {type}]

Enqueue(j) ==
  /\ Len(stream) < MaxStream
  /\ stream' = Append(stream, j)

(* A handler goes on to its next call; "done" is its return to the client. *)
ApiGoto(r, l) ==
  /\ rpc' = [rpc EXCEPT ![r] = l]
  /\ rjob' = [rjob EXCEPT ![r] = IF l = "done" THEN None ELSE @]

(* A user's call on a job they can see begins.  A call GetJob or CanCancel *)
(* or CanRetry turns away changes nothing and is not a step.               *)
ApiStart(r, j, l) ==
  /\ rpc[r] = "ready"
  /\ rpc' = [rpc EXCEPT ![r] = l]
  /\ rjob' = [rjob EXCEPT ![r] = j]

WorkerGoto(w, l) == wpc' = [wpc EXCEPT ![w] = l] /\ UNCHANGED <<wjob, wattempts>>

Fault(kind) ==
  /\ kind \in Faults
  /\ faults < MaxFaults
  /\ faults' = faults + 1

-----------------------------------------------------------------------------
(* The API handlers.                                                       *)

(* Create without an idempotency key: CreateJob under a fresh id.          *)
CreateJob(r, j) ==
  /\ status[j] = "absent"
  /\ ApiStart(r, j, "created_event")
  /\ status' = [status EXCEPT ![j] = "pending"]
  /\ UNCHANGED <<attempts, workerId, lease, deleted, result, events, objects, queue, workers,
                 reaper, faults, history>>

(* transition: UpdateJobStatus to queued; its only guard is deleted_at.    *)
Transition(r) ==
  /\ rpc[r] = "transition"
  /\ LET j == rjob[r] IN
       IF deleted[j]
       THEN ApiGoto(r, "done") /\ UNCHANGED status
       ELSE ApiGoto(r, "queued_event") /\ status' = [status EXCEPT ![j] = "queued"]
  /\ UNCHANGED <<attempts, workerId, lease, deleted, result, events, objects, queue, workers,
                 reaper, faults, history>>

ApiEnqueue(r) ==
  /\ rpc[r] \in {"enqueue", "retry_enqueue"}
  /\ Enqueue(rjob[r])
  /\ ApiGoto(r, IF rpc[r] = "enqueue" THEN "done" ELSE "retry_queued_event")
  /\ UNCHANGED <<db, abandoned, workers, reaper, faults, history>>

CancelStart(r, j) ==
  /\ Visible(j) /\ CanCancel(status[j])
  /\ ApiStart(r, j, "cancel")
  /\ UNCHANGED <<db, queue, workers, reaper, faults, history>>

CancelJob(r) ==
  /\ rpc[r] = "cancel"
  /\ LET j == rjob[r] IN
       IF CancelWhere(j)
       THEN ApiGoto(r, "cancelled_event") /\ status' = [status EXCEPT ![j] = "cancelled"]
       ELSE ApiGoto(r, "done") /\ UNCHANGED status
  /\ UNCHANGED <<attempts, workerId, lease, deleted, result, events, objects, queue, workers,
                 reaper, faults, history>>

RetryStart(r, j) ==
  /\ Visible(j) /\ CanRetry(status[j])
  /\ ApiStart(r, j, "retry")
  /\ UNCHANGED <<db, queue, workers, reaper, faults, history>>

RetryJob(r) ==
  /\ rpc[r] = "retry"
  /\ LET j == rjob[r] IN
       IF RetryWhere(j)
       THEN /\ ApiGoto(r, "retrying_event")
            /\ status' = [status EXCEPT ![j] = "queued"]
            /\ attempts' = [attempts EXCEPT ![j] = 0]
            /\ workerId' = [workerId EXCEPT ![j] = None]
            /\ lease' = [lease EXCEPT ![j] = "none"]
            /\ claims' = [claims EXCEPT ![j] = 0]
       ELSE ApiGoto(r, "done") /\ UNCHANGED <<status, attempts, workerId, lease, claims>>
  /\ UNCHANGED <<deleted, result, events, objects, queue, workers, reaper, faults, completions>>

(* The object goes before the row is hidden.                               *)
DeleteStartObjectFirst(r, j) ==
  /\ Visible(j)
  /\ ApiStart(r, j, "delete")
  /\ objects' = objects \ {j}
  /\ UNCHANGED <<row, result, events, queue, workers, reaper, faults, history>>

DeleteStart(r, j) ==
  /\ Visible(j)
  /\ ApiStart(r, j, "delete")
  /\ UNCHANGED <<db, queue, workers, reaper, faults, history>>

SoftDeleteJob(r) ==
  /\ rpc[r] = "delete"
  /\ LET j == rjob[r] IN
       IF deleted[j]
       THEN ApiGoto(r, "done") /\ UNCHANGED deleted
       ELSE ApiGoto(r, "delete_object") /\ deleted' = [deleted EXCEPT ![j] = TRUE]
  /\ UNCHANGED <<status, attempts, workerId, lease, result, events, objects, queue, workers,
                 reaper, faults, history>>

(* Best effort: the error of DeleteObject is discarded.                    *)
DeleteObject(r) ==
  /\ rpc[r] = "delete_object"
  /\ objects' \in {objects, objects \ {rjob[r]}}
  /\ ApiGoto(r, "done")
  /\ UNCHANGED <<row, result, events, queue, workers, reaper, faults, history>>

ApiEvent(r) ==
  /\ \E e \in ApiEvents :
       rpc[r] = e[1] /\ RecordEvent(rjob[r], e[2]) /\ ApiGoto(r, e[3])
  /\ UNCHANGED <<row, result, objects, queue, workers, reaper, faults, history>>

(* A store or queue call fails, or the client disconnects and its context  *)
(* is cancelled: the handler returns with its earlier effects in place.    *)
RequestError(r) ==
  /\ Fault("request_error")
  /\ rpc[r] \notin {"ready", "done"}
  /\ ApiGoto(r, "done")
  /\ UNCHANGED <<db, queue, workers, reaper, history>>

-----------------------------------------------------------------------------
(* The worker.                                                             *)

(* XREADGROUP with ">", count 1: the oldest entry no consumer was given.   *)
ReadGroup(w) ==
  /\ wpc[w] = "idle"
  /\ stream # <<>>
  /\ stream' = Tail(stream)
  /\ wpc' = [wpc EXCEPT ![w] = "claim"]
  /\ wjob' = [wjob EXCEPT ![w] = Head(stream)]
  /\ UNCHANGED <<db, abandoned, api, wattempts, reaper, faults, history>>

ClaimNext(w) ==
  /\ wpc[w] = "claim"
  /\ LET j == wjob[w] IN
       IF ClaimWhere(j)
       THEN /\ status' = [status EXCEPT ![j] = "processing"]
            /\ workerId' = [workerId EXCEPT ![j] = w]
            /\ lease' = [lease EXCEPT ![j] = "live"]
            /\ wattempts' = [wattempts EXCEPT ![w] = attempts[j]]
            /\ wpc' = [wpc EXCEPT ![w] = "leased_event"]
            /\ claims' = [claims EXCEPT ![j] = IF @ > MaxAttempts THEN @ ELSE @ + 1]
       ELSE /\ wpc' = [wpc EXCEPT ![w] = "ack"]
            /\ UNCHANGED <<status, workerId, lease, wattempts, claims>>
  /\ UNCHANGED <<attempts, deleted, result, events, objects, queue, api, wjob, reaper, faults,
                 completions>>

(* download_object: a missing object, or any other failure, is a           *)
(* DownloadError.                                                          *)
Download(w) ==
  /\ wpc[w] = "download"
  /\ \/ wjob[w] \in objects /\ WorkerGoto(w, "transcribe")
     \/ WorkerGoto(w, "fail")
  /\ UNCHANGED <<db, queue, api, reaper, faults, history>>

(* The job is completed before its transcript is stored.                   *)
TranscribeCompletesFirst(w) ==
  /\ wpc[w] = "transcribe"
  /\ WorkerGoto(w, "complete")
  /\ UNCHANGED <<db, queue, api, reaper, faults, history>>

(* probe, normalize and transcribe: a result or a TranscriptionError.      *)
Transcribe(w) ==
  /\ wpc[w] = "transcribe"
  /\ \/ WorkerGoto(w, "insert_transcript")
     \/ WorkerGoto(w, "fail")
  /\ UNCHANGED <<db, queue, api, reaper, faults, history>>

(* fail_or_retry_job counts from the attempts claim_next returned and      *)
(* updates the row whatever its status.                                    *)
FailOrRetryJob(w) ==
  /\ wpc[w] = "fail"
  /\ LET j == wjob[w] IN
       /\ attempts' = [attempts EXCEPT ![j] = NewAttempts(w)]
       /\ IF Exhausted(wattempts[w])
          THEN /\ status' = [status EXCEPT ![j] = "failed"]
               /\ WorkerGoto(w, "failed_event")
               /\ UNCHANGED <<workerId, lease>>
          ELSE /\ status' = [status EXCEPT ![j] = "queued"]
               /\ workerId' = [workerId EXCEPT ![j] = None]
               /\ lease' = [lease EXCEPT ![j] = "none"]
               /\ WorkerGoto(w, "retrying_event")
  /\ UNCHANGED <<deleted, result, events, objects, queue, api, reaper, faults, history>>

(* The requeued job is never published.                                    *)
WorkerSkipsXadd(w) ==
  /\ wpc[w] = "xadd"
  /\ WorkerGoto(w, "ack")
  /\ UNCHANGED <<db, queue, api, reaper, faults, history>>

WorkerXadd(w) ==
  /\ wpc[w] = "xadd"
  /\ Enqueue(wjob[w])
  /\ WorkerGoto(w, "ack")
  /\ UNCHANGED <<db, abandoned, api, reaper, faults, history>>

(* transcripts.job_id is UNIQUE: a second insert raises, run() logs it and *)
(* acknowledges the message.                                               *)
InsertTranscript(w) ==
  /\ wpc[w] = "insert_transcript"
  /\ IF UniqueViolation(wjob[w])
     THEN WorkerGoto(w, "ack") /\ UNCHANGED transcripts
     ELSE WorkerGoto(w, "insert_segments") /\ transcripts' = transcripts \cup {wjob[w]}
  /\ UNCHANGED <<row, segments, events, objects, queue, api, reaper, faults, history>>

InsertSegments(w) ==
  /\ wpc[w] = "insert_segments"
  /\ segments' = segments \cup {wjob[w]}
  /\ WorkerGoto(w, "complete")
  /\ UNCHANGED <<row, transcripts, events, objects, queue, api, reaper, faults, history>>

(* complete_job updates the row whatever its status.                       *)
CompleteJob(w) ==
  /\ wpc[w] = "complete"
  /\ status' = [status EXCEPT ![wjob[w]] = "succeeded"]
  /\ completions' = [completions EXCEPT ![wjob[w]] = @ + 1]
  /\ WorkerGoto(w, "succeeded_event")
  /\ UNCHANGED <<attempts, workerId, lease, deleted, result, events, objects, queue, api,
                 reaper, faults, claims>>

WorkerEvent(w) ==
  /\ \E e \in WorkerEvents :
       wpc[w] = e[1] /\ RecordEvent(wjob[w], e[2]) /\ WorkerGoto(w, e[3])
  /\ UNCHANGED <<row, result, objects, queue, api, reaper, faults, history>>

(* The worker goes back to XREADGROUP (or keeps the last job in hand).     *)
WorkerIdleWithJob(w) ==
  /\ wpc' = [wpc EXCEPT ![w] = "idle"]
  /\ UNCHANGED <<wjob, wattempts>>
WorkerIdle(w) ==
  /\ wpc' = [wpc EXCEPT ![w] = "idle"]
  /\ wjob' = [wjob EXCEPT ![w] = None]
  /\ wattempts' = [wattempts EXCEPT ![w] = 0]

(* xack runs in the finally clause, whatever became of the job.            *)
Ack(w) ==
  /\ wpc[w] = "ack"
  /\ WorkerIdle(w)
  /\ UNCHANGED <<db, queue, api, reaper, faults, history>>

(* The renewer thread lives until the "with" block is left, before the     *)
(* transcript is written.  renew_lease names the job, not the worker.      *)
RenewLease(w) ==
  /\ wpc[w] \in {"download", "transcribe", "fail", "failed_event", "retrying_event",
                 "queued_event", "xadd"}
  /\ status[wjob[w]] = "processing" /\ lease[wjob[w]] = "expired"
  /\ lease' = [lease EXCEPT ![wjob[w]] = "live"]
  /\ UNCHANGED <<status, attempts, workerId, deleted, result, events, objects, queue, api,
                 workers, reaper, faults, history>>

(* Any other exception ends process_job and still acknowledges.            *)
WorkerException(w) ==
  /\ Fault("worker_exception")
  /\ wpc[w] \notin {"idle", "ack"}
  /\ WorkerGoto(w, "ack")
  /\ UNCHANGED <<db, queue, api, reaper, history>>

(* The process dies; its successor reads new entries only, so the entry    *)
(* it was given stays in the pending-entries list.                         *)
WorkerCrash(w) ==
  /\ Fault("worker_crash")
  /\ wpc[w] # "idle"
  /\ WorkerIdle(w)
  /\ abandoned' = abandoned + 1
  /\ UNCHANGED <<db, stream, api, reaper, history>>

-----------------------------------------------------------------------------
(* Leases and the reaper.                                                  *)

(* lease_expires_at passes.  Only the reaper reads it, and only while the  *)
(* job is processing.  Without LateRenewal a worker that still holds the   *)
(* claim keeps ahead of its lease.                                         *)
LeaseExpires(j) ==
  /\ status[j] = "processing" /\ lease[j] = "live"
  /\ LateRenewal \/ \A w \in Workers : ~Holds(w, j)
  /\ lease' = [lease EXCEPT ![j] = "expired"]
  /\ UNCHANGED <<status, attempts, workerId, deleted, result, events, objects, queue, api,
                 workers, reaper, faults, history>>

(* ReapOnce reads its batch once and works through it.                     *)
ListExpiredLeases ==
  /\ reapPc = "idle" /\ expired = {} /\ ExpiredLeases # {}
  /\ expired' = {<<j, attempts[j]>> : j \in ExpiredLeases}
  /\ UNCHANGED <<db, queue, api, workers, reapPc, reapJob, faults, history>>

(* FailExpiredJob or RequeueExpiredJob, chosen by the attempts in the      *)
(* batch; the update asks only that the job is still processing, and no    *)
(* row updated is an error that skips the job.                             *)
ReapJob(e) ==
  /\ reapPc = "idle"
  /\ expired' = expired \ {e}
  /\ LET j == e[1] IN
       IF status[j] # "processing"
       THEN UNCHANGED <<status, attempts, workerId, lease, reapPc, reapJob>>
       ELSE /\ attempts' = [attempts EXCEPT ![j] = @ + 1]
            /\ reapJob' = j
            /\ IF Exhausted(e[2])
               THEN /\ status' = [status EXCEPT ![j] = "failed"]
                    /\ reapPc' = "failed_event"
                    /\ UNCHANGED <<workerId, lease>>
               ELSE /\ status' = [status EXCEPT ![j] = "queued"]
                    /\ workerId' = [workerId EXCEPT ![j] = None]
                    /\ lease' = [lease EXCEPT ![j] = "none"]
                    /\ reapPc' = "retrying_event"
  /\ UNCHANGED <<deleted, result, events, objects, queue, api, workers, faults, history>>

ReaperGoto(l) ==
  /\ reapPc' = l
  /\ reapJob' = IF l = "idle" THEN None ELSE reapJob

ReaperEvent ==
  /\ \E e \in ReaperEvents :
       reapPc = e[1] /\ RecordEvent(reapJob, e[2]) /\ ReaperGoto(e[3])
  /\ UNCHANGED <<row, result, objects, queue, api, workers, expired, faults, history>>

ReaperEnqueue ==
  /\ reapPc = "enqueue"
  /\ Enqueue(reapJob)
  /\ ReaperGoto("idle")
  /\ UNCHANGED <<db, abandoned, api, workers, expired, faults, history>>

(* A call fails: ReapOnce logs it and continues with the rest of the batch.*)
ReaperError ==
  /\ Fault("reaper_error")
  /\ \/ reapPc # "idle" /\ ReaperGoto("idle") /\ UNCHANGED expired
     \/ /\ reapPc = "idle" /\ UNCHANGED <<reapPc, reapJob>>
        /\ \E e \in expired : expired' = expired \ {e}
  /\ UNCHANGED <<db, queue, api, workers, history>>

(* The API process dies with its handlers and its reaper.                  *)
ApiCrash ==
  /\ Fault("api_crash")
  /\ rpc' = [r \in Requests |-> IF rpc[r] = "ready" THEN "ready" ELSE "done"]
  /\ rjob' = [r \in Requests |-> None]
  /\ reapPc' = "idle" /\ reapJob' = None /\ expired' = {}
  /\ UNCHANGED <<db, queue, workers, history>>

-----------------------------------------------------------------------------
ApiStep(r) ==
  \/ Transition(r) \/ ApiEnqueue(r) \/ CancelJob(r) \/ RetryJob(r)
  \/ SoftDeleteJob(r) \/ DeleteObject(r) \/ ApiEvent(r)

UserCall(r) ==
  \E j \in Jobs : CreateJob(r, j) \/ CancelStart(r, j) \/ RetryStart(r, j) \/ DeleteStart(r, j)

WorkerStep(w) ==
  \/ ReadGroup(w) \/ ClaimNext(w) \/ Download(w) \/ Transcribe(w) \/ FailOrRetryJob(w)
  \/ WorkerXadd(w) \/ InsertTranscript(w) \/ InsertSegments(w) \/ CompleteJob(w)
  \/ WorkerEvent(w) \/ Ack(w)

ReaperStep ==
  ListExpiredLeases \/ ReaperEvent \/ ReaperEnqueue \/ \E e \in expired : ReapJob(e)

Failure ==
  \/ \E r \in Requests : RequestError(r)
  \/ \E w \in Workers : WorkerException(w) \/ WorkerCrash(w)
  \/ ReaperError
  \/ ApiCrash

Next ==
  \/ \E r \in Requests : UserCall(r) \/ ApiStep(r)
  \/ \E w \in Workers : WorkerStep(w) \/ RenewLease(w)
  \/ \E j \in Jobs : LeaseExpires(j)
  \/ ReaperStep
  \/ Failure

Spec == Init /\ [][Next]_vars

(* Every process that is running goes on, the lease of a claim nobody      *)
(* holds runs out, and the reaper's ticker fires.  Users need not call,    *)
(* no failure has to happen and no live worker has to lose its lease.      *)
AbandonedLeaseExpires(j) == (\A w \in Workers : ~Holds(w, j)) /\ LeaseExpires(j)

Fairness ==
  /\ \A r \in Requests : WF_vars(ApiStep(r))
  /\ \A w \in Workers : WF_vars(WorkerStep(w))
  /\ \A j \in Jobs : WF_vars(AbandonedLeaseExpires(j))
  /\ WF_vars(ReaperStep)

FairSpec == Spec /\ Fairness

-----------------------------------------------------------------------------
(* Properties.                                                             *)

RowType ==
  /\ status \in [Jobs -> Statuses]
  /\ attempts \in [Jobs -> Nat]
  /\ workerId \in [Jobs -> Workers \cup {None}]
  /\ lease \in [Jobs -> {"none", "live", "expired"}]
  /\ deleted \in [Jobs -> BOOLEAN]
StoreType ==
  /\ transcripts \subseteq Jobs /\ segments \subseteq Jobs /\ objects \subseteq Jobs
  /\ events \in [Jobs -> SUBSET EventTypes]
QueueType == stream \in Seq(Jobs) /\ abandoned \in Nat
ApiType ==
  /\ rpc \in [Requests -> ApiPcs]
  /\ rjob \in [Requests -> Jobs \cup {None}]
  /\ \A r \in Requests : rjob[r] = None <=> rpc[r] \in {"ready", "done"}
WorkerType ==
  /\ wpc \in [Workers -> WorkerPcs]
  /\ wjob \in [Workers -> Jobs \cup {None}]
  /\ \A w \in Workers : wjob[w] = None <=> wpc[w] = "idle"
  /\ wattempts \in [Workers -> Nat]
ReaperType ==
  /\ reapPc \in ReaperPcs
  /\ reapJob \in Jobs \cup {None}
  /\ reapJob = None <=> reapPc = "idle"
  /\ expired \subseteq Jobs \X Nat
CountType == faults \in Nat /\ claims \in [Jobs -> Nat] /\ completions \in [Jobs -> Nat]

(* Type invariant; a process has a job in its hands exactly when one of    *)
(* its handlers is running.                                                *)
TypeOK ==
  RowType /\ StoreType /\ QueueType /\ ApiType /\ WorkerType /\ ReaperType /\ CountType

(* complete_job runs at most once for a job, so its "succeeded" event and  *)
(* metric are recorded at most once, however many workers were given the   *)
(* job, whatever died and however late: the UNIQUE transcripts.job_id lets *)
(* one of them past insert_transcript.                                     *)
CompletedOnce == \A j \in Jobs : completions[j] <= 1

(* GetTranscript of a succeeded job finds the transcript and its segments: *)
(* no writer of the status column makes a job succeeded before both are in *)
(* Postgres.                                                               *)
SucceededHasTranscript ==
  \A j \in Jobs : status[j] = "succeeded" => j \in transcripts /\ j \in segments

(* The audio of a job its owner can still see, play back or retry is never *)
(* removed: Delete hides the row before it touches the object, and no      *)
(* concurrent or failed call reverses that order.                          *)
VisibleJobHasAudio == \A j \in Jobs : ~deleted[j] => j \in objects

(* Who still has to put job j before a worker: entries in the stream,      *)
(* processes that have made it queued and have yet to XADD it, and workers *)
(* that were given it and have yet to claim it.                            *)
StreamEntries(j) == {i \in 1..Len(stream) : stream[i] = j}
Announcers(j) ==
  {r \in Requests : rjob[r] = j /\ rpc[r] \in {"queued_event", "enqueue", "retrying_event", "retry_enqueue"}}
Deliverers(j) ==
  {w \in Workers : wjob[w] = j /\ wpc[w] \in {"claim", "retrying_event", "queued_event", "xadd"}}
ReaperAnnounces(j) == reapJob = j /\ reapPc \in {"retrying_event", "queued_event", "enqueue"}
Deliveries(j) ==
  Cardinality(StreamEntries(j)) + Cardinality(Announcers(j)) + Cardinality(Deliverers(j))
    + (IF ReaperAnnounces(j) THEN 1 ELSE 0)

(* While nothing fails no queued job is stranded: it has a stream entry,   *)
(* or a process that will add one, or a worker about to claim it.  This is *)
(* what moving the row to queued before Enqueue is for (service.go's       *)
(* comment on the lost race); the reaper only looks at processing jobs and *)
(* would never find a stranded one.                                        *)
QueuedIsDelivered ==
  faults = 0 => \A j \in Jobs : status[j] = "queued" /\ ~deleted[j] => Deliveries(j) > 0

(* When renewals keep ahead of the lease, a job is in the hands of at most *)
(* one worker, and that is the worker the row names while the job is       *)
(* processing, across cancels, user retries, duplicate deliveries, crashes *)
(* and the reaper acting on a batch it read earlier.                       *)
SingleHolder ==
  \A j \in Jobs : \A w \in Workers : Holds(w, j) =>
    /\ \A v \in Workers : Holds(v, j) => v = w
    /\ status[j] = "processing" => workerId[j] = w

(* When renewals keep ahead of the lease, the retry budget is exact: a job *)
(* is claimed at most max_attempts times between user retries, and is      *)
(* failed only after all of them, though the worker counts from the        *)
(* attempts it claimed with and the reaper decides on those in its batch.  *)
BudgetExact ==
  \A j \in Jobs :
    /\ claims[j] <= MaxAttempts
    /\ status[j] = "failed" => claims[j] = MaxAttempts

(* When renewals keep ahead of the lease, a job never has two deliveries   *)
(* under way: no interleaving of handlers, workers and reaper publishes it *)
(* twice (two concurrent retries of a failed job, for one).                *)
OneDelivery == \A j \in Jobs : Deliveries(j) <= 1

(* When renewals keep ahead of the lease, no step takes a job out of       *)
(* succeeded, though neither fail_or_retry_job nor complete_job looks at   *)
(* the status it overwrites ("succeeded is terminal", job_test.go).        *)
SucceededIsFinal == [][\A j \in Jobs : status[j] = "succeeded" => status'[j] = "succeeded"]_vars

(* A cancelled job stays cancelled ("cancelled is terminal", job_test.go). *)
(* complete_job and fail_or_retry_job overwrite it: their WHERE clause     *)
(* names the id alone, and a worker never looks whether its job was        *)
(* cancelled.                                                              *)
CancelledIsFinal == [][\A j \in Jobs : status[j] = "cancelled" => status'[j] = "cancelled"]_vars

(* While nothing fails, every status a job has is accounted for by a       *)
(* job_events row, written or about to be written by the process that set  *)
(* the status ("Every transition writes a job_events row. No exceptions.").*)
(* A process that dies between the two statements leaves a gap.            *)
EventOf(s) ==
  CASE s = "pending" -> "created" [] s = "processing" -> "leased" [] OTHER -> s
Upcoming(j) ==
  {e[2] : e \in {a \in ApiEvents : \E r \in Requests : rjob[r] = j /\ rpc[r] = a[1]}
           \cup {a \in WorkerEvents : \E w \in Workers : wjob[w] = j /\ wpc[w] = a[1]}
           \cup {a \in ReaperEvents : reapJob = j /\ reapPc = a[1]}}
EventTrail ==
  faults = 0 =>
    \A j \in Jobs : status[j] # "absent" => EventOf(status[j]) \in events[j] \cup Upcoming(j)

Settled(j) == deleted[j] \/ status[j] \in {"succeeded", "failed", "cancelled"}

(* While nothing fails, every job the API accepted reaches a final status  *)
(* (or is deleted), whatever its users call and in whatever order the      *)
(* processes run.                                                          *)
EveryJobSettles == \A j \in Jobs : (status[j] = "pending") ~> (Settled(j) \/ faults > 0)

(* A job left processing by a worker that died or gave up on it leaves     *)
(* that status: its lease runs out and the reaper requeues or fails it,    *)
(* even after passes that failed or an API process that died mid-batch.    *)
ProcessingIsReclaimed ==
  \A j \in Jobs : (status[j] = "processing") ~> (status[j] # "processing" \/ deleted[j])

(* A queued job is claimed, or leaves queued another way: no worker's      *)
(* death loses it.                                                         *)
QueuedIsClaimed ==
  \A j \in Jobs : (status[j] = "queued") ~> (status[j] # "queued" \/ deleted[j])

=============================================================================
