--------------------------- MODULE JobQueueProofs ---------------------------
(***************************************************************************)
(* Proofs about JobQueue and its readers, for any number of jobs, workers, *)
(* API calls and pages, any retry budget, any choice and number of         *)
(* failures, and however late a lease is renewed.                          *)
(***************************************************************************)
EXTENDS JobReads, TLAPS

(* Most steps are first-order reasoning, for which Zenon is the quicker    *)
(* prover; the steps that need arithmetic or long case splits name SMT.    *)
USE Zenon

-----------------------------------------------------------------------------
(* Type correctness.                                                       *)

(* What the tables of event inserts lead from, write and lead to.          *)
LEMMA EventTables ==
  /\ \A e \in ApiEvents :
       e[1] \in ApiPcs \ {"ready", "done"} /\ e[2] \in EventTypes /\ e[3] \in ApiPcs \ {"ready"}
  /\ \A e \in WorkerEvents :
       e[1] \in WorkerPcs \ {"idle"} /\ e[2] \in EventTypes /\ e[3] \in WorkerPcs \ {"idle"}
  /\ \A e \in ReaperEvents :
       e[1] \in ReaperPcs \ {"idle"} /\ e[2] \in EventTypes /\ e[3] \in ReaperPcs
BY SMT DEF ApiEvents, WorkerEvents, ReaperEvents, ApiPcs, WorkerPcs, ReaperPcs, EventTypes

(* Each part of the type invariant depends on one group of variables.      *)
LEMMA RowFrame == RowType /\ UNCHANGED row => RowType'
BY DEF RowType, row
LEMMA StoreFrame == StoreType /\ UNCHANGED <<result, events, objects>> => StoreType'
BY DEF StoreType, result
LEMMA DbFrame == RowType /\ StoreType /\ UNCHANGED db => RowType' /\ StoreType'
BY RowFrame, StoreFrame DEF db
LEMMA QueueFrame == QueueType /\ UNCHANGED queue => QueueType'
BY DEF QueueType, queue
LEMMA ApiFrame == ApiType /\ UNCHANGED api => ApiType'
BY DEF ApiType, api
LEMMA WorkerFrame == WorkerType /\ UNCHANGED workers => WorkerType'
BY DEF WorkerType, workers
LEMMA ReaperFrame == ReaperType /\ UNCHANGED reaper => ReaperType'
BY DEF ReaperType, reaper
LEMMA CountFrame == CountType /\ UNCHANGED <<faults, history>> => CountType'
BY DEF CountType, history

(* The shared steps preserve the part of the type invariant they touch.    *)
LEMMA ApiStartType ==
  ASSUME ApiType, NEW r \in Requests, NEW j \in Jobs, NEW l \in ApiPcs \ {"ready", "done"},
         ApiStart(r, j, l)
  PROVE  ApiType'
BY NoneAssumption DEF ApiType, ApiStart

LEMMA ApiGotoType ==
  ASSUME ApiType, NEW r \in Requests, rpc[r] \notin {"ready", "done"},
         NEW l \in ApiPcs \ {"ready"}, ApiGoto(r, l)
  PROVE  ApiType' /\ rjob[r] \in Jobs
BY NoneAssumption DEF ApiType, ApiGoto

LEMMA WorkerGotoType ==
  ASSUME WorkerType, NEW w \in Workers, wpc[w] # "idle",
         NEW l \in WorkerPcs \ {"idle"}, WorkerGoto(w, l)
  PROVE  WorkerType' /\ wjob[w] \in Jobs /\ wattempts[w] \in Nat
BY NoneAssumption DEF WorkerType, WorkerGoto

LEMMA WorkerIdleType ==
  ASSUME WorkerType, NEW w \in Workers, WorkerIdle(w)
  PROVE  WorkerType'
BY NoneAssumption DEF WorkerType, WorkerIdle, WorkerPcs

LEMMA RecordEventType ==
  ASSUME StoreType, NEW j \in Jobs, NEW type \in EventTypes, RecordEvent(j, type),
         UNCHANGED <<result, objects>>
  PROVE  StoreType'
BY DEF StoreType, RecordEvent, result

LEMMA EnqueueType ==
  ASSUME QueueType, NEW j \in Jobs, Enqueue(j), UNCHANGED abandoned
  PROVE  QueueType'
BY SMT DEF QueueType, Enqueue

LEMMA FaultType ==
  ASSUME CountType, NEW k, Fault(k), UNCHANGED history
  PROVE  CountType'
BY SMT DEF CountType, Fault, history

LEMMA TypeInit == Init => TypeOK
BY NoneAssumption, SMT
   DEF Init, TypeOK, RowType, StoreType, QueueType, ApiType, WorkerType, ReaperType, CountType,
       Statuses, EventTypes, ApiPcs, WorkerPcs, ReaperPcs

LEMMA TypeUser ==
  ASSUME TypeOK, NEW r \in Requests, NEW j \in Jobs,
         CreateJob(r, j) \/ CancelStart(r, j) \/ RetryStart(r, j) \/ DeleteStart(r, j)
  PROVE  TypeOK'
<1>. USE DbFrame, StoreFrame, QueueFrame, WorkerFrame, ReaperFrame, CountFrame, ApiStartType
     DEF TypeOK, ApiPcs
<1>1. CASE CreateJob(r, j)
  <2>1. RowType'
    BY <1>1 DEF CreateJob, RowType, Statuses
  <2>. QED  BY <1>1, <2>1 DEF CreateJob
<1>2. CASE CancelStart(r, j)
  BY <1>2 DEF CancelStart
<1>3. CASE RetryStart(r, j)
  BY <1>3 DEF RetryStart
<1>4. CASE DeleteStart(r, j)
  BY <1>4 DEF DeleteStart
<1>. QED  BY <1>1, <1>2, <1>3, <1>4

LEMMA TypeApi ==
  ASSUME TypeOK, NEW r \in Requests, ApiStep(r)
  PROVE  TypeOK'
<1>. USE DbFrame, RowFrame, StoreFrame, QueueFrame, WorkerFrame, ReaperFrame, CountFrame,
         ApiGotoType
     DEF TypeOK, ApiPcs
<1>1. CASE Transition(r)
  <2>1. RowType'
    BY <1>1 DEF Transition, RowType, Statuses
  <2>. QED  BY <1>1, <2>1 DEF Transition
<1>2. CASE ApiEnqueue(r)
  <2>1. ApiType' /\ rjob[r] \in Jobs
    BY <1>2 DEF ApiEnqueue
  <2>. QED  BY <1>2, <2>1, EnqueueType DEF ApiEnqueue
<1>3. CASE CancelJob(r)
  <2>1. RowType'
    BY <1>3 DEF CancelJob, RowType, Statuses
  <2>. QED  BY <1>3, <2>1 DEF CancelJob
<1>4. CASE RetryJob(r)
  <2>1. RowType'
    BY <1>4, SMT DEF RetryJob, RowType, Statuses
  <2>2. CountType'
    BY <1>4, SMT DEF RetryJob, CountType
  <2>. QED  BY <1>4, <2>1, <2>2 DEF RetryJob
<1>5. CASE SoftDeleteJob(r)
  <2>1. RowType'
    BY <1>5 DEF SoftDeleteJob, RowType
  <2>. QED  BY <1>5, <2>1 DEF SoftDeleteJob
<1>6. CASE DeleteObject(r)
  <2>1. StoreType'
    BY <1>6 DEF DeleteObject, StoreType, result
  <2>. QED  BY <1>6, <2>1 DEF DeleteObject
<1>7. CASE ApiEvent(r)
  <2>. PICK e \in ApiEvents :
         rpc[r] = e[1] /\ RecordEvent(rjob[r], e[2]) /\ ApiGoto(r, e[3])
    BY <1>7 DEF ApiEvent
  <2>1. ApiType' /\ rjob[r] \in Jobs
    BY EventTables
  <2>2. StoreType'
    BY <1>7, <2>1, EventTables, RecordEventType DEF ApiEvent
  <2>. QED  BY <1>7, <2>1, <2>2 DEF ApiEvent
<1>. QED  BY <1>1, <1>2, <1>3, <1>4, <1>5, <1>6, <1>7 DEF ApiStep

LEMMA TypeWorker ==
  ASSUME TypeOK, NEW w \in Workers, WorkerStep(w) \/ RenewLease(w)
  PROVE  TypeOK'
<1>. USE DbFrame, RowFrame, StoreFrame, QueueFrame, ApiFrame, WorkerFrame, ReaperFrame,
         CountFrame, WorkerGotoType
     DEF TypeOK, WorkerPcs
<1>1. CASE ReadGroup(w)
  <2>1. Head(stream) \in Jobs /\ QueueType'
    BY <1>1, SMT DEF ReadGroup, QueueType
  <2>2. WorkerType'
    BY <1>1, <2>1, NoneAssumption DEF ReadGroup, WorkerType
  <2>. QED  BY <1>1, <2>1, <2>2 DEF ReadGroup
<1>2. CASE ClaimNext(w)
  <2>1. wjob[w] \in Jobs
    BY <1>2 DEF ClaimNext, WorkerType
  <2>2. RowType'
    BY <1>2, <2>1 DEF ClaimNext, RowType, Statuses
  <2>3. WorkerType'
    BY <1>2, <2>1, SMT DEF ClaimNext, WorkerType, RowType
  <2>4. CountType'
    BY <1>2, <2>1, SMT DEF ClaimNext, CountType
  <2>. QED  BY <1>2, <2>2, <2>3, <2>4 DEF ClaimNext
<1>3. CASE Download(w)
  BY <1>3 DEF Download
<1>4. CASE Transcribe(w)
  BY <1>4 DEF Transcribe
<1>5. CASE FailOrRetryJob(w)
  <2>1. WorkerType' /\ wjob[w] \in Jobs /\ NewAttempts(w) \in Nat
    BY <1>5, SMT DEF FailOrRetryJob, NewAttempts
  <2>2. RowType'
    BY <1>5, <2>1 DEF FailOrRetryJob, RowType, Statuses
  <2>. QED  BY <1>5, <2>1, <2>2 DEF FailOrRetryJob
<1>6. CASE WorkerXadd(w)
  <2>1. WorkerType' /\ wjob[w] \in Jobs
    BY <1>6 DEF WorkerXadd
  <2>. QED  BY <1>6, <2>1, EnqueueType DEF WorkerXadd
<1>7. CASE InsertTranscript(w)
  <2>1. WorkerType' /\ wjob[w] \in Jobs
    BY <1>7 DEF InsertTranscript
  <2>2. StoreType'
    BY <1>7, <2>1 DEF InsertTranscript, StoreType
  <2>. QED  BY <1>7, <2>1, <2>2 DEF InsertTranscript
<1>8. CASE InsertSegments(w)
  <2>1. WorkerType' /\ wjob[w] \in Jobs
    BY <1>8 DEF InsertSegments
  <2>2. StoreType'
    BY <1>8, <2>1 DEF InsertSegments, StoreType
  <2>. QED  BY <1>8, <2>1, <2>2 DEF InsertSegments
<1>9. CASE CompleteJob(w)
  <2>1. WorkerType' /\ wjob[w] \in Jobs
    BY <1>9 DEF CompleteJob
  <2>2. RowType'
    BY <1>9, <2>1 DEF CompleteJob, RowType, Statuses
  <2>3. CountType'
    BY <1>9, <2>1, SMT DEF CompleteJob, CountType
  <2>. QED  BY <1>9, <2>1, <2>2, <2>3 DEF CompleteJob
<1>10. CASE WorkerEvent(w)
  <2>. PICK e \in WorkerEvents :
         wpc[w] = e[1] /\ RecordEvent(wjob[w], e[2]) /\ WorkerGoto(w, e[3])
    BY <1>10 DEF WorkerEvent
  <2>1. WorkerType' /\ wjob[w] \in Jobs
    BY EventTables
  <2>2. StoreType'
    BY <1>10, <2>1, EventTables, RecordEventType DEF WorkerEvent
  <2>. QED  BY <1>10, <2>1, <2>2 DEF WorkerEvent
<1>11. CASE Ack(w)
  BY <1>11, WorkerIdleType DEF Ack
<1>12. CASE RenewLease(w)
  <2>1. RowType'
    BY <1>12 DEF RenewLease, RowType
  <2>. QED  BY <1>12, <2>1 DEF RenewLease
<1>. QED
  BY <1>1, <1>2, <1>3, <1>4, <1>5, <1>6, <1>7, <1>8, <1>9, <1>10, <1>11, <1>12 DEF WorkerStep

LEMMA TypeReaper ==
  ASSUME TypeOK, ReaperStep \/ \E j \in Jobs : LeaseExpires(j)
  PROVE  TypeOK'
<1>. USE DbFrame, RowFrame, StoreFrame, QueueFrame, ApiFrame, WorkerFrame, ReaperFrame,
         CountFrame
     DEF TypeOK, ReaperPcs
<1>1. CASE ListExpiredLeases
  <2>1. ReaperType'
    BY <1>1, SMT DEF ListExpiredLeases, ExpiredLeases, ReaperType, RowType
  <2>. QED  BY <1>1, <2>1 DEF ListExpiredLeases
<1>2. CASE ReaperEvent
  <2>. PICK e \in ReaperEvents : reapPc = e[1] /\ RecordEvent(reapJob, e[2]) /\ ReaperGoto(e[3])
    BY <1>2 DEF ReaperEvent
  <2>1. ReaperType' /\ reapJob \in Jobs
    BY <1>2, EventTables DEF ReaperEvent, ReaperType, ReaperGoto
  <2>2. StoreType'
    BY <1>2, <2>1, EventTables, RecordEventType DEF ReaperEvent
  <2>. QED  BY <1>2, <2>1, <2>2 DEF ReaperEvent
<1>3. CASE ReaperEnqueue
  <2>1. ReaperType' /\ reapJob \in Jobs
    BY <1>3 DEF ReaperEnqueue, ReaperType, ReaperGoto
  <2>. QED  BY <1>3, <2>1, EnqueueType DEF ReaperEnqueue
<1>4. ASSUME NEW e \in expired, ReapJob(e)  PROVE TypeOK'
  <2>1. e[1] \in Jobs
    BY DEF ReaperType
  <2>2. RowType'
    BY <1>4, <2>1, SMT DEF ReapJob, RowType, Statuses
  <2>3. ReaperType'
    BY <1>4, <2>1, NoneAssumption DEF ReapJob, ReaperType
  <2>. QED  BY <1>4, <2>2, <2>3 DEF ReapJob
<1>5. ASSUME NEW j \in Jobs, LeaseExpires(j)  PROVE TypeOK'
  <2>1. RowType'
    BY <1>5 DEF LeaseExpires, RowType
  <2>. QED  BY <1>5, <2>1 DEF LeaseExpires
<1>. QED  BY <1>1, <1>2, <1>3, <1>4, <1>5 DEF ReaperStep

LEMMA TypeFailure ==
  ASSUME TypeOK, Failure
  PROVE  TypeOK'
<1>. USE DbFrame, QueueFrame, ApiFrame, WorkerFrame, ReaperFrame, FaultType
     DEF TypeOK
<1>1. ASSUME NEW r \in Requests, RequestError(r)  PROVE TypeOK'
  BY <1>1, ApiGotoType DEF RequestError, ApiPcs
<1>2. ASSUME NEW w \in Workers, WorkerException(w)  PROVE TypeOK'
  BY <1>2, WorkerGotoType DEF WorkerException, WorkerPcs
<1>3. ASSUME NEW w \in Workers, WorkerCrash(w)  PROVE TypeOK'
  <2>1. QueueType'
    BY <1>3, SMT DEF WorkerCrash, QueueType
  <2>. QED  BY <1>3, <2>1, WorkerIdleType DEF WorkerCrash
<1>4. CASE ReaperError
  <2>1. ReaperType'
    BY <1>4 DEF ReaperError, ReaperType, ReaperGoto, ReaperPcs
  <2>. QED  BY <1>4, <2>1 DEF ReaperError
<1>5. CASE ApiCrash
  <2>1. ApiType' /\ ReaperType'
    BY <1>5, NoneAssumption DEF ApiCrash, ApiType, ReaperType, ApiPcs, ReaperPcs
  <2>. QED  BY <1>5, <2>1 DEF ApiCrash
<1>. QED  BY <1>1, <1>2, <1>3, <1>4, <1>5 DEF Failure

LEMMA TypeStep == TypeOK /\ [Next]_vars => TypeOK'
<1>. SUFFICES ASSUME TypeOK, [Next]_vars  PROVE TypeOK'
  OBVIOUS
<1>1. CASE UNCHANGED vars
  BY <1>1, DbFrame, QueueFrame, ApiFrame, WorkerFrame, ReaperFrame, CountFrame DEF vars, TypeOK
<1>. QED  BY <1>1, TypeUser, TypeApi, TypeWorker, TypeReaper, TypeFailure DEF Next, UserCall

(* Every variable keeps its type, and a process has a job in its hands     *)
(* exactly while one of its handlers runs: RequestError, WorkerException,  *)
(* WorkerCrash and ApiCrash leave no process half way.                     *)
THEOREM TypeCorrect == Spec => []TypeOK
BY TypeInit, TypeStep, PTL DEF Spec

-----------------------------------------------------------------------------
(* Completion and transcripts.                                             *)

(* Worker w got past insert_transcript for job j and has not completed it. *)
Storing(w, j) == wjob[w] = j /\ wpc[w] \in {"insert_segments", "complete"}

(* The inductive invariant: a transcripts row admits one worker to the     *)
(* rest of the writes, and none once the job was completed.                *)
CompletionInv ==
  \A j \in Jobs :
    /\ completions[j] <= 1
    /\ completions[j] = 1 => j \in transcripts /\ \A w \in Workers : ~Storing(w, j)
    /\ \A w \in Workers :
         /\ Storing(w, j) => j \in transcripts /\ \A v \in Workers : Storing(v, j) => v = w
         /\ Storing(w, j) /\ wpc[w] = "complete" => j \in segments
    /\ status[j] = "succeeded" => j \in transcripts /\ j \in segments

(* A step that stores nothing, completes nothing and moves no worker on to *)
(* these writes preserves the invariant.                                   *)
LEMMA CompletionQuiet ==
  ASSUME CompletionInv, UNCHANGED <<result, completions>>,
         \A j \in Jobs : status'[j] = "succeeded" => status[j] = "succeeded",
         \A w \in Workers : wpc'[w] \in {"insert_segments", "complete"} =>
                              wpc'[w] = wpc[w] /\ wjob'[w] = wjob[w]
  PROVE  CompletionInv'
BY SMT DEF CompletionInv, Storing, result

LEMMA CompletionStep == TypeOK /\ CompletionInv /\ [Next]_vars => CompletionInv'
<1>. SUFFICES ASSUME TypeOK, CompletionInv, [Next]_vars  PROVE CompletionInv'
  OBVIOUS
<1>. RowType /\ WorkerType /\ CountType
  BY DEF TypeOK
<1>. USE DEF db, row, workers, history
<1>1. ASSUME NEW r \in Requests, UserCall(r)  PROVE CompletionInv'
  <2>. PICK j \in Jobs : CreateJob(r, j) \/ CancelStart(r, j) \/ RetryStart(r, j) \/ DeleteStart(r, j)
    BY <1>1 DEF UserCall
  <2>1. CASE CreateJob(r, j)
    BY <2>1, CompletionQuiet DEF CreateJob, RowType
  <2>. QED  BY <2>1, CompletionQuiet DEF CancelStart, RetryStart, DeleteStart
<1>2. ASSUME NEW r \in Requests, ApiStep(r)  PROVE CompletionInv'
  <2>1. CASE Transition(r) \/ CancelJob(r) \/ RetryJob(r)
    BY <2>1, CompletionQuiet DEF Transition, CancelJob, RetryJob, RowType
  <2>. QED
    BY <1>2, <2>1, CompletionQuiet
    DEF ApiStep, ApiEnqueue, SoftDeleteJob, DeleteObject, ApiEvent
<1>3. ASSUME NEW w \in Workers, WorkerStep(w)  PROVE CompletionInv'
  <2>. USE DEF WorkerGoto, WorkerType
  <2>1. CASE ReadGroup(w) \/ ClaimNext(w)
    BY <2>1, CompletionQuiet DEF ReadGroup, ClaimNext, RowType
  <2>2. CASE Download(w) \/ Transcribe(w) \/ WorkerXadd(w)
    BY <2>2, CompletionQuiet DEF Download, Transcribe, WorkerXadd
  <2>3. CASE FailOrRetryJob(w)
    BY <2>3, CompletionQuiet DEF FailOrRetryJob, RowType
  <2>4. CASE InsertTranscript(w)
    <3>1. CASE UniqueViolation(wjob[w])
      BY <2>4, <3>1, CompletionQuiet DEF InsertTranscript, result
    <3>2. CASE ~UniqueViolation(wjob[w])
      BY <2>4, <3>2, SMT DEF InsertTranscript, UniqueViolation, CompletionInv, Storing, CountType
    <3>. QED  BY <3>1, <3>2
  <2>5. CASE InsertSegments(w)
    <3>1. /\ wjob[w] \in Jobs /\ Storing(w, wjob[w])
          /\ segments' = segments \cup {wjob[w]}
          /\ UNCHANGED <<status, transcripts, completions, wjob>>
      BY <2>5 DEF InsertSegments, Storing
    <3>2. \A v \in Workers : /\ v # w => wpc'[v] = wpc[v]
                            /\ \A j \in Jobs : Storing(v, j)' <=> Storing(v, j)
      BY <2>5 DEF InsertSegments, Storing
    <3>. QED
      BY <3>1, <3>2, SMT DEF CompletionInv, Storing
  <2>6. CASE CompleteJob(w)
    <3>1. PICK j \in Jobs : j = wjob[w]
      BY <2>6 DEF CompleteJob
    <3>2. /\ Storing(w, j) /\ completions[j] \in Nat
          /\ completions[j] # 1 /\ completions[j] <= 1
          /\ j \in transcripts /\ j \in segments /\ \A v \in Workers : Storing(v, j) => v = w
      BY <2>6, <3>1 DEF CompleteJob, CompletionInv, Storing, CountType
    <3>3. /\ completions'[j] = completions[j] + 1 /\ UNCHANGED <<transcripts, segments, wjob>>
          /\ \A k \in Jobs \ {j} : completions'[k] = completions[k] /\ status'[k] = status[k]
          /\ wpc'[w] = "succeeded_event" /\ \A v \in Workers \ {w} : wpc'[v] = wpc[v]
      BY <2>6, <3>1 DEF CompleteJob, result, RowType, CountType
    <3>. QED  BY <3>1, <3>2, <3>3, SMT DEF CompletionInv, Storing
  <2>7. CASE WorkerEvent(w)
    <3>1. PICK e \in WorkerEvents : WorkerGoto(w, e[3])
      BY <2>7 DEF WorkerEvent
    <3>2. e[3] \notin {"insert_segments", "complete"}
      BY SMT DEF WorkerEvents
    <3>. QED  BY <2>7, <3>1, <3>2, CompletionQuiet DEF WorkerEvent
  <2>8. CASE Ack(w)
    BY <2>8, CompletionQuiet DEF Ack, WorkerIdle
  <2>. QED  BY <1>3, <2>1, <2>2, <2>3, <2>4, <2>5, <2>6, <2>7, <2>8 DEF WorkerStep
<1>4. ASSUME NEW w \in Workers, RenewLease(w)  PROVE CompletionInv'
  BY <1>4, CompletionQuiet DEF RenewLease
<1>5. ASSUME NEW j \in Jobs, LeaseExpires(j)  PROVE CompletionInv'
  BY <1>5, CompletionQuiet DEF LeaseExpires
<1>6. CASE ReaperStep
  <2>1. ASSUME NEW e \in expired, ReapJob(e)  PROVE CompletionInv'
    BY <2>1, CompletionQuiet DEF ReapJob, RowType
  <2>. QED
    BY <1>6, <2>1, CompletionQuiet
    DEF ReaperStep, ListExpiredLeases, ReaperEvent, ReaperEnqueue
<1>7. CASE Failure
  <2>1. ASSUME NEW w \in Workers, WorkerException(w)  PROVE CompletionInv'
    BY <2>1, CompletionQuiet DEF WorkerException, WorkerGoto, WorkerType
  <2>2. ASSUME NEW w \in Workers, WorkerCrash(w)  PROVE CompletionInv'
    BY <2>2, CompletionQuiet DEF WorkerCrash, WorkerIdle, WorkerType
  <2>. QED
    BY <1>7, <2>1, <2>2, CompletionQuiet DEF Failure, RequestError, ReaperError, ApiCrash
<1>8. CASE UNCHANGED vars
  BY <1>8, CompletionQuiet DEF vars
<1>. QED  BY <1>1, <1>2, <1>3, <1>4, <1>5, <1>6, <1>7, <1>8 DEF Next

THEOREM CompletionInvariant == Spec => []CompletionInv
<1>1. Init => CompletionInv
  BY SMT DEF Init, CompletionInv, Storing
<1>. QED  BY <1>1, TypeCorrect, CompletionStep, PTL DEF Spec

(* complete_job runs at most once per job, for any number of workers,      *)
(* duplicate deliveries, lost leases and failures.                         *)
THEOREM CompletedAtMostOnce == Spec => []CompletedOnce
<1>1. CompletionInv => CompletedOnce
  BY DEF CompletionInv, CompletedOnce
<1>. QED  BY <1>1, CompletionInvariant, PTL

(* A succeeded job has its transcript and segments in Postgres, whatever   *)
(* the other writers of the row did before.                                *)
THEOREM SucceededJobsHaveTranscripts == Spec => []SucceededHasTranscript
<1>1. CompletionInv => SucceededHasTranscript
  BY DEF CompletionInv, SucceededHasTranscript
<1>. QED  BY <1>1, CompletionInvariant, PTL

-----------------------------------------------------------------------------
(* Audio objects.                                                          *)

(* Delete reaches the object store only after the row is hidden.           *)
AudioInv ==
  /\ \A r \in Requests : rpc[r] = "delete_object" => deleted[rjob[r]]
  /\ VisibleJobHasAudio

LEMMA AudioQuiet ==
  ASSUME AudioInv, UNCHANGED <<deleted, objects>>,
         \A r \in Requests : rpc'[r] = "delete_object" => rpc'[r] = rpc[r] /\ rjob'[r] = rjob[r]
  PROVE  AudioInv'
BY DEF AudioInv, VisibleJobHasAudio

LEMMA AudioStep == TypeOK /\ AudioInv /\ [Next]_vars => AudioInv'
<1>. SUFFICES ASSUME TypeOK, AudioInv, [Next]_vars  PROVE AudioInv'
  OBVIOUS
<1>. ApiType /\ deleted \in [Jobs -> BOOLEAN]
  BY DEF TypeOK, RowType
<1>. USE DEF db, row, api
<1>1. ASSUME NEW r \in Requests, UserCall(r)  PROVE AudioInv'
  BY <1>1, AudioQuiet
  DEF UserCall, CreateJob, CancelStart, RetryStart, DeleteStart, ApiStart, ApiType
<1>2. ASSUME NEW r \in Requests, ApiStep(r)  PROVE AudioInv'
  <2>. USE DEF ApiGoto, ApiType
  <2>1. CASE Transition(r) \/ ApiEnqueue(r) \/ CancelJob(r) \/ RetryJob(r)
    BY <2>1, AudioQuiet DEF Transition, ApiEnqueue, CancelJob, RetryJob
  <2>2. CASE SoftDeleteJob(r)
    <3>1. rjob[r] \in Jobs
      BY <2>2 DEF SoftDeleteJob
    <3>2. CASE deleted[rjob[r]]
      BY <2>2, <3>2, AudioQuiet DEF SoftDeleteJob
    <3>3. CASE ~deleted[rjob[r]]
      BY <2>2, <3>1, <3>3 DEF SoftDeleteJob, AudioInv, VisibleJobHasAudio
    <3>. QED  BY <3>2, <3>3
  <2>3. CASE DeleteObject(r)
    BY <2>3 DEF DeleteObject, AudioInv, VisibleJobHasAudio
  <2>4. CASE ApiEvent(r)
    <3>1. PICK e \in ApiEvents : ApiGoto(r, e[3])
      BY <2>4 DEF ApiEvent
    <3>2. e[3] # "delete_object"
      BY SMT DEF ApiEvents
    <3>. QED  BY <2>4, <3>1, <3>2, AudioQuiet DEF ApiEvent
  <2>. QED  BY <1>2, <2>1, <2>2, <2>3, <2>4 DEF ApiStep
<1>3. ASSUME NEW w \in Workers, WorkerStep(w) \/ RenewLease(w)  PROVE AudioInv'
  <2>1. CASE ReadGroup(w) \/ Download(w) \/ Transcribe(w) \/ WorkerXadd(w) \/ Ack(w)
    BY <2>1, AudioQuiet DEF ReadGroup, Download, Transcribe, WorkerXadd, Ack
  <2>2. CASE ClaimNext(w) \/ FailOrRetryJob(w) \/ CompleteJob(w) \/ RenewLease(w)
    BY <2>2, AudioQuiet DEF ClaimNext, FailOrRetryJob, CompleteJob, RenewLease
  <2>3. CASE InsertTranscript(w) \/ InsertSegments(w) \/ WorkerEvent(w)
    BY <2>3, AudioQuiet DEF InsertTranscript, InsertSegments, WorkerEvent
  <2>. QED  BY <1>3, <2>1, <2>2, <2>3 DEF WorkerStep
<1>4. ASSUME NEW j \in Jobs, LeaseExpires(j)  PROVE AudioInv'
  BY <1>4, AudioQuiet DEF LeaseExpires
<1>5. CASE ReaperStep
  <2>1. ASSUME NEW e \in expired, ReapJob(e)  PROVE AudioInv'
    BY <2>1, AudioQuiet DEF ReapJob
  <2>. QED
    BY <1>5, <2>1, AudioQuiet DEF ReaperStep, ListExpiredLeases, ReaperEvent, ReaperEnqueue
<1>6. CASE Failure
  BY <1>6, AudioQuiet
  DEF Failure, RequestError, WorkerException, WorkerCrash, ReaperError, ApiCrash, ApiGoto, ApiType
<1>7. CASE UNCHANGED vars
  BY <1>7, AudioQuiet DEF vars
<1>. QED  BY <1>1, <1>2, <1>3, <1>4, <1>5, <1>6, <1>7 DEF Next

(* A job its owner can see keeps its audio, however Delete interleaves     *)
(* with other handlers and wherever it is cut off.                         *)
THEOREM VisibleJobsKeepAudio == Spec => []VisibleJobHasAudio
<1>1. Init => AudioInv
  BY DEF Init, AudioInv, VisibleJobHasAudio
<1>2. AudioInv => VisibleJobHasAudio
  BY DEF AudioInv
<1>. QED  BY <1>1, <1>2, TypeCorrect, AudioStep, PTL DEF Spec

-----------------------------------------------------------------------------
(* Job pages.  The queries of GetTranscript run without a transaction, so  *)
(* the proof rests on what no step of the queue undoes: a transcript and   *)
(* its segments, once stored, stay; a deleted job stays deleted; and a job *)
(* that was seen has a row.                                                *)

Monotone ==
  /\ transcripts \subseteq transcripts' /\ segments \subseteq segments'
  /\ \A j \in Jobs : /\ deleted[j] => deleted'[j]
                     /\ status[j] # "absent" => status'[j] # "absent"

(* The queue knows nothing of its readers.                                 *)
LEMMA ReadersOnlyRead == ReadSpec => Spec
<1>1. ReadInit => Init
  BY DEF ReadInit
<1>2. [ReadNext]_allVars => [Next]_vars
  BY DEF ReadNext, allVars
<1>. QED  BY <1>1, <1>2, PTL DEF ReadSpec, Spec

(* No step of the queue takes back what a page's answer depends on.        *)
LEMMA QueueIsMonotone ==
  ASSUME TypeOK, [Next]_vars
  PROVE  Monotone
<1>. RowType
  BY DEF TypeOK
<1>1. ASSUME NEW r \in Requests, UserCall(r)  PROVE Monotone
  BY <1>1 DEF UserCall, CreateJob, CancelStart, RetryStart, DeleteStart, Monotone, RowType,
              db, row, result
<1>2. ASSUME NEW r \in Requests, ApiStep(r)  PROVE Monotone
  <2>1. CASE Transition(r) \/ CancelJob(r) \/ RetryJob(r)
    BY <2>1 DEF Transition, CancelJob, RetryJob, Monotone, RowType, result
  <2>2. CASE SoftDeleteJob(r)
    BY <2>2 DEF SoftDeleteJob, Monotone, RowType, result
  <2>3. CASE ApiEnqueue(r) \/ DeleteObject(r) \/ ApiEvent(r)
    BY <2>3 DEF ApiEnqueue, DeleteObject, ApiEvent, Monotone, db, row, result
  <2>. QED  BY <1>2, <2>1, <2>2, <2>3 DEF ApiStep
<1>3. ASSUME NEW w \in Workers, WorkerStep(w) \/ RenewLease(w)  PROVE Monotone
  <2>1. CASE ClaimNext(w)
    BY <2>1 DEF ClaimNext, Monotone, RowType, result
  <2>2. CASE FailOrRetryJob(w)
    BY <2>2 DEF FailOrRetryJob, Monotone, RowType, result
  <2>3. CASE CompleteJob(w)
    BY <2>3 DEF CompleteJob, Monotone, RowType, result
  <2>4. CASE InsertTranscript(w) \/ InsertSegments(w)
    BY <2>4 DEF InsertTranscript, InsertSegments, Monotone, row
  <2>5. CASE \/ ReadGroup(w) \/ Download(w) \/ Transcribe(w) \/ WorkerXadd(w) \/ WorkerEvent(w)
             \/ Ack(w) \/ RenewLease(w)
    BY <2>5 DEF ReadGroup, Download, Transcribe, WorkerXadd, WorkerEvent, Ack, RenewLease,
                Monotone, db, row, result
  <2>. QED  BY <1>3, <2>1, <2>2, <2>3, <2>4, <2>5 DEF WorkerStep
<1>4. ASSUME NEW j \in Jobs, LeaseExpires(j)  PROVE Monotone
  BY <1>4 DEF LeaseExpires, Monotone, result
<1>5. ASSUME ReaperStep  PROVE Monotone
  <2>1. ASSUME NEW e \in expired, ReapJob(e)  PROVE Monotone
    BY <2>1 DEF ReapJob, Monotone, RowType, result
  <2>. QED  BY <1>5, <2>1 DEF ReaperStep, ListExpiredLeases, ReaperEvent, ReaperEnqueue,
                               Monotone, db, row, result
<1>6. ASSUME Failure  PROVE Monotone
  BY <1>6 DEF Failure, RequestError, WorkerException, WorkerCrash, ReaperError, ApiCrash,
              Monotone, db, row, result
<1>7. CASE UNCHANGED vars
  BY <1>7 DEF vars, db, row, result, Monotone
<1>. QED  BY <1>1, <1>2, <1>3, <1>4, <1>5, <1>6, <1>7 DEF Next

(* The inductive invariant: a reader that shows its job as succeeded has a *)
(* job with a row, whose transcript and segments are stored, and was not   *)
(* answered otherwise unless the job was deleted.                          *)
PageOf(v) ==
  /\ qpc[v] # "done" => answer[v] = "none"
  /\ qpc[v] = "idle" => seen[v] = "other"
  /\ seen[v] = "succeeded" =>
       /\ qjob[v] \in Jobs /\ status[qjob[v]] # "absent"
       /\ qjob[v] \in transcripts /\ qjob[v] \in segments
       /\ answer[v] # "unfinished"
       /\ answer[v] = "not_found" => deleted[qjob[v]]
Tables ==
  /\ qpc \in [Readers -> {"idle", "shown", "job", "transcript", "segments", "done"}]
  /\ qjob \in [Readers -> Jobs \cup {None}]
  /\ seen \in [Readers -> {"succeeded", "other"}]
  /\ answer \in [Readers -> {"none", "not_found", "unfinished", "finished"}]
PageInv == Tables /\ \A v \in Readers : PageOf(v)

LEMMA PageInit == ReadInit => PageInv
<1>. SUFFICES ASSUME ReadInit  PROVE PageInv
  OBVIOUS
<1>1. Tables
  BY DEF ReadInit, Tables
<1>2. \A v \in Readers : PageOf(v)
  BY DEF ReadInit, PageOf
<1>. QED  BY <1>1, <1>2 DEF PageInv

(* A step of the queue.                                                    *)
LEMMA PageQueueStep ==
  ASSUME PageInv, Monotone, UNCHANGED reads
  PROVE  PageInv'
<1>1. ASSUME NEW v \in Readers  PROVE PageOf(v)'
  <2>1. PageOf(v)
    BY DEF PageInv
  <2>. QED  BY <2>1, SMT DEF PageOf, Monotone, reads
<1>. QED  BY <1>1 DEF PageInv, Tables, reads

(* A step of another reader leaves this one as it is.                      *)
LEMMA OtherPage ==
  ASSUME NEW v \in Readers, PageOf(v), UNCHANGED vars,
         qpc'[v] = qpc[v], qjob'[v] = qjob[v], seen'[v] = seen[v], answer'[v] = answer[v]
  PROVE  PageOf(v)'
BY DEF PageOf, vars, db, row, result

LEMMA PageReadStep ==
  ASSUME TypeOK, CompletionInv, PageInv, ReadStep, UNCHANGED vars
  PROVE  PageInv'
<1>1. UNCHANGED <<status, deleted, transcripts, segments>>
  BY DEF vars, db, row, result
<1>2. Tables
  BY DEF PageInv
<1>. status \in [Jobs -> Statuses]
  BY DEF TypeOK, RowType
<1>3. ASSUME NEW u \in Readers, NEW v \in Readers,
             \/ AskTranscript(u)
             \/ \E j \in Jobs : ReadJob(u, j) \/ CallTranscript(u, j)
             \/ TranscriptJob(u) \/ TranscriptRow(u) \/ TranscriptSegments(u)
      PROVE  PageOf(v)'
  <2>. PageOf(v)
    BY DEF PageInv
  <2>1. CASE u # v
    <3>1. /\ qpc'[v] = qpc[v] /\ qjob'[v] = qjob[v]
          /\ seen'[v] = seen[v] /\ answer'[v] = answer[v]
      BY <1>2, <1>3, <2>1 DEF Tables, AskTranscript, ReadJob, CallTranscript,
                        TranscriptJob, TranscriptRow, TranscriptSegments, Answer, ReadGoto
    <3>. QED  BY <3>1, OtherPage
  <2>2. CASE u = v
    <3>1. CASE AskTranscript(v)
      BY <1>1, <1>2, <3>1 DEF Tables, AskTranscript, ReadGoto, PageOf
    <3>2. ASSUME NEW j \in Jobs, ReadJob(v, j)  PROVE PageOf(v)'
      <4>1. /\ qpc'[v] = "shown" /\ qjob'[v] = j /\ answer'[v] = "none"
            /\ seen'[v] = "succeeded" => status[j] = "succeeded"
        BY <1>2, <3>2 DEF Tables, ReadJob, ReadGoto, GetJob, PageOf
      <4>2. status[j] = "succeeded" => j \in transcripts /\ j \in segments
        BY DEF CompletionInv
      <4>. QED  BY <1>1, <4>1, <4>2 DEF PageOf
    <3>3. ASSUME NEW j \in Jobs, CallTranscript(v, j)  PROVE PageOf(v)'
      BY <1>1, <1>2, <3>3 DEF Tables, CallTranscript, ReadGoto, PageOf
    <3>4. CASE TranscriptJob(v)
      BY <1>1, <1>2, <3>4 DEF Tables, TranscriptJob, Answer, ReadGoto, GetJob, Visible, PageOf
    <3>5. CASE TranscriptRow(v)
      BY <1>1, <1>2, <3>5 DEF Tables, TranscriptRow, Answer, ReadGoto, GetTranscript, PageOf
    <3>6. CASE TranscriptSegments(v)
      BY <1>1, <1>2, <3>6 DEF Tables, TranscriptSegments, Answer, ReadGoto, ListSegments, PageOf
    <3>. QED  BY <1>3, <2>2, <3>1, <3>2, <3>3, <3>4, <3>5, <3>6
  <2>. QED  BY <2>1, <2>2
<1>4. \A v \in Readers : PageOf(v)'
  BY <1>3 DEF ReadStep
<1>5. Tables'
  <2>1. ASSUME NEW v \in Readers, AskTranscript(v)  PROVE Tables'
    BY <1>2, <2>1 DEF Tables, AskTranscript, ReadGoto
  <2>2. ASSUME NEW v \in Readers, NEW j \in Jobs, ReadJob(v, j) \/ CallTranscript(v, j)
        PROVE  Tables'
    BY <1>2, <2>2 DEF Tables, ReadJob, CallTranscript, ReadGoto
  <2>3. ASSUME NEW v \in Readers, TranscriptJob(v) \/ TranscriptRow(v) \/ TranscriptSegments(v)
        PROVE  Tables'
    BY <1>2, <2>3 DEF Tables, TranscriptJob, TranscriptRow, TranscriptSegments, ListSegments,
                      Answer, ReadGoto
  <2>. QED  BY <2>1, <2>2, <2>3 DEF ReadStep
<1>. QED  BY <1>4, <1>5 DEF PageInv

(* A page that has shown a job as succeeded is given the whole transcript, *)
(* or told the job is gone after its owner deleted it, for any number of   *)
(* jobs, workers, pages and failures and however late a lease is renewed.  *)
THEOREM PagesGetWholeTranscripts == ReadSpec => []PageGetsWholeTranscript
<1>1. TypeOK /\ CompletionInv /\ PageInv /\ [ReadNext]_allVars => PageInv'
  <2>. SUFFICES ASSUME TypeOK, CompletionInv, PageInv, [ReadNext]_allVars  PROVE PageInv'
    OBVIOUS
  <2>1. CASE ReadStep /\ UNCHANGED vars
    BY <2>1, PageReadStep
  <2>2. CASE [Next]_vars /\ UNCHANGED reads
    BY <2>2, QueueIsMonotone, PageQueueStep
  <2>. QED  BY <2>1, <2>2 DEF ReadNext, allVars
<1>2. PageInv => PageGetsWholeTranscript
  BY DEF PageInv, PageOf, PageGetsWholeTranscript
<1>. QED
  BY <1>1, <1>2, PageInit, ReadersOnlyRead, TypeCorrect, CompletionInvariant, PTL DEF ReadSpec

-----------------------------------------------------------------------------
(* The event trail.                                                        *)

(* The events of job j, written or about to be written.                    *)
Trail(j) == events[j] \cup Upcoming(j)

EverQueued(j) == status[j] \notin {"absent", "pending"}

(* EventTrail is not inductive: the retry of a failed job makes it queued  *)
(* with only "retrying" to be written next.  Its "queued" event is the one *)
(* of its first queueing, and a worker can only put back a job that had    *)
(* one.                                                                    *)
TrailInv ==
  /\ \A w \in Workers, j \in Jobs : Holds(w, j) => EverQueued(j)
  /\ faults = 0 => \A j \in Jobs : status[j] # "absent" => EventOf(status[j]) \in Trail(j)
  /\ faults = 0 => \A j \in Jobs : EverQueued(j) => "queued" \in Trail(j)

(* At no other call is an event about to be written.                       *)
LEMMA EventLabels ==
  /\ \A e \in ApiEvents :
       e[1] \notin {"ready", "done", "transition", "enqueue", "retry_enqueue", "cancel", "retry",
                    "delete", "delete_object"}
  /\ \A e \in WorkerEvents :
       e[1] \notin {"idle", "claim", "download", "transcribe", "fail", "xadd",
                    "insert_transcript", "insert_segments", "complete", "ack"}
  /\ \A e \in ReaperEvents : e[1] \notin {"idle", "enqueue"}
BY SMT DEF ApiEvents, WorkerEvents, ReaperEvents

(* An event about to be written stays so until it is written.              *)
LEMMA TrailKept ==
  ASSUME NEW j \in Jobs, events[j] \subseteq events'[j],
         \A e \in ApiEvents, r \in Requests : rjob[r] = j /\ rpc[r] = e[1] =>
           e[2] \in events'[j] \/ (rjob'[r] = j /\ rpc'[r] = e[1]),
         \A e \in WorkerEvents, w \in Workers : wjob[w] = j /\ wpc[w] = e[1] =>
           e[2] \in events'[j] \/ (wjob'[w] = j /\ wpc'[w] = e[1]),
         \A e \in ReaperEvents : reapJob = j /\ reapPc = e[1] =>
           e[2] \in events'[j] \/ (reapJob' = j /\ reapPc' = e[1])
  PROVE  Trail(j) \subseteq Trail(j)'
<1>. DEFINE A == {a \in ApiEvents : \E r \in Requests : rjob[r] = j /\ rpc[r] = a[1]}
            B == {a \in WorkerEvents : \E w \in Workers : wjob[w] = j /\ wpc[w] = a[1]}
            C == {a \in ReaperEvents : reapJob = j /\ reapPc = a[1]}
<1>1. Upcoming(j) = {e[2] : e \in A \cup B \cup C} /\ Upcoming(j)' = {e[2] : e \in A' \cup B' \cup C'}
  BY DEF Upcoming
<1>2. \A e \in A \cup B \cup C : e \in A' \cup B' \cup C' \/ e[2] \in events'[j]
  OBVIOUS
<1>3. Upcoming(j) \subseteq Upcoming(j)' \cup events'[j]
  <2>. HIDE DEF A, B, C
  <2>. QED  BY <1>1, <1>2
<1>. QED  BY <1>3 DEF Trail

(* Steps of one process that record nothing and leave a call that is not   *)
(* an insert of an event.                                                  *)
LEMMA TrailApi ==
  ASSUME NEW r \in Requests, \A e \in ApiEvents : rpc[r] # e[1],
         \A s \in Requests \ {r} : rpc'[s] = rpc[s] /\ rjob'[s] = rjob[s],
         UNCHANGED <<events, workers, reaper>>
  PROVE  \A j \in Jobs : Trail(j) \subseteq Trail(j)'
BY TrailKept DEF workers, reaper

LEMMA TrailWorker ==
  ASSUME NEW w \in Workers, \A e \in WorkerEvents : wpc[w] # e[1],
         \A v \in Workers \ {w} : wpc'[v] = wpc[v] /\ wjob'[v] = wjob[v],
         UNCHANGED <<events, api, reaper>>
  PROVE  \A j \in Jobs : Trail(j) \subseteq Trail(j)'
BY TrailKept DEF api, reaper

LEMMA TrailReaper ==
  ASSUME \A e \in ReaperEvents : reapPc # e[1], UNCHANGED <<events, api, workers>>
  PROVE  \A j \in Jobs : Trail(j) \subseteq Trail(j)'
BY TrailKept DEF api, workers

(* The tables name one event for a label.                                  *)
LEMMA EventUnique ==
  /\ \A e, f \in ApiEvents : e[1] = f[1] => e = f
  /\ \A e, f \in WorkerEvents : e[1] = f[1] => e = f
  /\ \A e, f \in ReaperEvents : e[1] = f[1] => e = f
BY SMT DEF ApiEvents, WorkerEvents, ReaperEvents

(* No step but a failure drops an event from the trail of a job.           *)
LEMMA TrailGrows ==
  ASSUME TypeOK, [Next]_vars, ~Failure
  PROVE  \A j \in Jobs : Trail(j) \subseteq Trail(j)'
<1>. StoreType /\ ApiType /\ WorkerType /\ ReaperType
  BY DEF TypeOK
<1>1. ASSUME NEW r \in Requests, UserCall(r)  PROVE \A j \in Jobs : Trail(j) \subseteq Trail(j)'
  <2>. PICK j \in Jobs : CreateJob(r, j) \/ CancelStart(r, j) \/ RetryStart(r, j) \/ DeleteStart(r, j)
    BY <1>1 DEF UserCall
  <2>1. UNCHANGED <<events, workers, reaper>> /\ rpc[r] = "ready"
    BY DEF CreateJob, CancelStart, RetryStart, DeleteStart, ApiStart, db
  <2>2. \A s \in Requests \ {r} : rpc'[s] = rpc[s] /\ rjob'[s] = rjob[s]
    BY DEF CreateJob, CancelStart, RetryStart, DeleteStart, ApiStart, ApiType
  <2>. QED  BY <2>1, <2>2, EventLabels, TrailApi
<1>2. ASSUME NEW r \in Requests, ApiStep(r)  PROVE \A j \in Jobs : Trail(j) \subseteq Trail(j)'
  <2>1. CASE ApiEvent(r)
    <3>. PICK e \in ApiEvents : rpc[r] = e[1] /\ RecordEvent(rjob[r], e[2]) /\ ApiGoto(r, e[3])
      BY <2>1 DEF ApiEvent
    <3>1. UNCHANGED <<workers, reaper>> /\ \A s \in Requests \ {r} : rpc'[s] = rpc[s] /\ rjob'[s] = rjob[s]
      BY <2>1 DEF ApiEvent, ApiGoto, ApiType
    <3>2. \A j \in Jobs : events[j] \subseteq events'[j] /\ (j = rjob[r] => e[2] \in events'[j])
      BY DEF RecordEvent, StoreType
    <3>3. ASSUME NEW j \in Jobs, NEW f \in ApiEvents, NEW s \in Requests, rjob[s] = j, rpc[s] = f[1]
          PROVE  f[2] \in events'[j] \/ (rjob'[s] = j /\ rpc'[s] = f[1])
      BY <3>1, <3>2, <3>3, EventUnique
    <3>4. UNCHANGED <<wpc, wjob, reapPc, reapJob>>
      BY <3>1 DEF workers, reaper
    <3>5. ASSUME NEW j \in Jobs  PROVE Trail(j) \subseteq Trail(j)'
      <4>1. \A f \in ApiEvents, s \in Requests : rjob[s] = j /\ rpc[s] = f[1] =>
              f[2] \in events'[j] \/ (rjob'[s] = j /\ rpc'[s] = f[1])
        BY <3>3
      <4>. QED  BY <3>2, <3>4, <4>1, TrailKept
    <3>. QED  BY <3>5
  <2>2. CASE ~ApiEvent(r)
    <3>1. /\ UNCHANGED <<events, workers, reaper>>
          /\ rpc[r] \in {"transition", "enqueue", "retry_enqueue", "cancel", "retry", "delete",
                         "delete_object"}
      BY <1>2, <2>2
      DEF ApiStep, Transition, ApiEnqueue, CancelJob, RetryJob, SoftDeleteJob, DeleteObject, db
    <3>2. \E l : ApiGoto(r, l)
      BY <1>2, <2>2
      DEF ApiStep, Transition, ApiEnqueue, CancelJob, RetryJob, SoftDeleteJob, DeleteObject
    <3>3. \A s \in Requests \ {r} : rpc'[s] = rpc[s] /\ rjob'[s] = rjob[s]
      BY <3>2 DEF ApiGoto, ApiType
    <3>. QED  BY <3>1, <3>3, EventLabels, TrailApi
  <2>. QED  BY <2>1, <2>2
<1>3. ASSUME NEW w \in Workers, WorkerStep(w)  PROVE \A j \in Jobs : Trail(j) \subseteq Trail(j)'
  <2>1. CASE WorkerEvent(w)
    <3>. PICK e \in WorkerEvents : wpc[w] = e[1] /\ RecordEvent(wjob[w], e[2]) /\ WorkerGoto(w, e[3])
      BY <2>1 DEF WorkerEvent
    <3>1. UNCHANGED <<api, reaper, wjob>> /\ \A v \in Workers \ {w} : wpc'[v] = wpc[v]
      BY <2>1 DEF WorkerEvent, WorkerGoto, WorkerType
    <3>2. \A j \in Jobs : events[j] \subseteq events'[j] /\ (j = wjob[w] => e[2] \in events'[j])
      BY DEF RecordEvent, StoreType
    <3>. QED  BY <3>1, <3>2, EventUnique, TrailKept DEF api, reaper
  <2>2. CASE ~WorkerEvent(w)
    <3>1. /\ UNCHANGED <<events, api, reaper>>
          /\ wpc[w] \in {"idle", "claim", "download", "transcribe", "fail", "xadd",
                         "insert_transcript", "insert_segments", "complete", "ack"}
      BY <1>3, <2>2
      DEF WorkerStep, ReadGroup, ClaimNext, Download, Transcribe, FailOrRetryJob, WorkerXadd,
          InsertTranscript, InsertSegments, CompleteJob, Ack, db
    <3>2. \A v \in Workers \ {w} : wpc'[v] = wpc[v] /\ wjob'[v] = wjob[v]
      <4>1. CASE ReadGroup(w) \/ ClaimNext(w) \/ Ack(w)
        BY <4>1 DEF ReadGroup, ClaimNext, Ack, WorkerIdle, WorkerType
      <4>2. CASE \E l : WorkerGoto(w, l)
        BY <4>2 DEF WorkerGoto, WorkerType
      <4>. QED
        BY <1>3, <2>2, <4>1, <4>2
        DEF WorkerStep, Download, Transcribe, FailOrRetryJob, WorkerXadd, InsertTranscript,
            InsertSegments, CompleteJob
    <3>. QED  BY <3>1, <3>2, EventLabels, TrailWorker
  <2>. QED  BY <2>1, <2>2
<1>4. CASE UNCHANGED <<events, api, workers, reapPc, reapJob>>
  BY <1>4, TrailKept DEF api, workers
<1>5. CASE ReaperStep
  <2>1. CASE ReaperEvent
    <3>. PICK e \in ReaperEvents : reapPc = e[1] /\ RecordEvent(reapJob, e[2]) /\ ReaperGoto(e[3])
      BY <2>1 DEF ReaperEvent
    <3>1. UNCHANGED <<api, workers>>
      BY <2>1 DEF ReaperEvent
    <3>2. \A j \in Jobs : events[j] \subseteq events'[j] /\ (j = reapJob => e[2] \in events'[j])
      BY DEF RecordEvent, StoreType
    <3>. QED  BY <3>1, <3>2, EventUnique, TrailKept DEF api, workers
  <2>2. CASE ListExpiredLeases
    BY <2>2, <1>4 DEF ListExpiredLeases, db
  <2>3. CASE ReaperEnqueue
    BY <2>3, EventLabels, TrailReaper DEF ReaperEnqueue, db
  <2>4. ASSUME NEW e \in expired, ReapJob(e)  PROVE \A j \in Jobs : Trail(j) \subseteq Trail(j)'
    BY <2>4, EventLabels, TrailReaper DEF ReapJob
  <2>. QED  BY <1>5, <2>1, <2>2, <2>3, <2>4 DEF ReaperStep
<1>6. CASE (\E w \in Workers : RenewLease(w)) \/ \E j \in Jobs : LeaseExpires(j)
  BY <1>4, <1>6 DEF RenewLease, LeaseExpires, reaper
<1>7. CASE UNCHANGED vars
  BY <1>4, <1>7 DEF vars, db, reaper
<1>. QED  BY <1>1, <1>2, <1>3, <1>5, <1>6, <1>7 DEF Next

(* A step that moves at most the status of job j, whose new status has its *)
(* event in the trail, and gives no worker a claim on another job.         *)
LEMMA TrailMoves ==
  ASSUME TrailInv, NEW j \in Jobs,
         faults' = 0 => faults = 0 /\ \A k \in Jobs : Trail(k) \subseteq Trail(k)',
         \A k \in Jobs \ {j} : status'[k] = status[k],
         EverQueued(j) => EverQueued(j)',
         \A w \in Workers, k \in Jobs : Holds(w, k)' => Holds(w, k) \/ (k = j /\ EverQueued(j)'),
         faults' = 0 => EventOf(status'[j]) \in Trail(j)',
         faults' = 0 => (EverQueued(j)' => "queued" \in Trail(j)')
  PROVE  TrailInv'
<1>1. \A k \in Jobs : EverQueued(k) => EverQueued(k)'
  BY DEF EverQueued
<1>2. \A w \in Workers, k \in Jobs : Holds(w, k)' => EverQueued(k)'
  BY <1>1 DEF TrailInv
<1>3. ASSUME faults' = 0, NEW k \in Jobs, k # j
      PROVE  /\ status'[k] # "absent" => EventOf(status'[k]) \in Trail(k)'
             /\ EverQueued(k)' => "queued" \in Trail(k)'
  BY <1>3 DEF TrailInv, EverQueued
<1>. QED  BY <1>2, <1>3 DEF TrailInv

LEMMA TrailQuiet ==
  ASSUME TrailInv, UNCHANGED status,
         faults' = 0 => faults = 0 /\ \A k \in Jobs : Trail(k) \subseteq Trail(k)',
         \A w \in Workers, k \in Jobs : Holds(w, k)' => Holds(w, k)
  PROVE  TrailInv'
<1>1. \A k \in Jobs : EverQueued(k)' <=> EverQueued(k)
  BY DEF EverQueued
<1>2. \A w \in Workers, k \in Jobs : Holds(w, k)' => EverQueued(k)'
  BY <1>1 DEF TrailInv
<1>3. ASSUME faults' = 0, NEW k \in Jobs
      PROVE  /\ status'[k] # "absent" => EventOf(status'[k]) \in Trail(k)'
             /\ EverQueued(k)' => "queued" \in Trail(k)'
  BY <1>1, <1>3 DEF TrailInv
<1>. QED  BY <1>2, <1>3 DEF TrailInv

(* What is about to be written after the updates of a status.              *)
LEMMA Upcomings ==
  ASSUME NEW j \in Jobs
  PROVE  /\ \A r \in Requests : rjob'[r] = j =>
              /\ rpc'[r] = "created_event" => "created" \in Trail(j)'
              /\ rpc'[r] = "queued_event" => "queued" \in Trail(j)'
              /\ rpc'[r] = "cancelled_event" => "cancelled" \in Trail(j)'
         /\ \A w \in Workers : wjob'[w] = j =>
              /\ wpc'[w] = "leased_event" => "leased" \in Trail(j)'
              /\ wpc'[w] = "failed_event" => "failed" \in Trail(j)'
              /\ wpc'[w] = "succeeded_event" => "succeeded" \in Trail(j)'
         /\ reapJob' = j /\ reapPc' = "failed_event" => "failed" \in Trail(j)'
<1>1. \A e \in ApiEvents, r \in Requests : rjob'[r] = j /\ rpc'[r] = e[1] => e[2] \in Trail(j)'
  BY DEF Upcoming, Trail
<1>2. \A e \in WorkerEvents, w \in Workers : wjob'[w] = j /\ wpc'[w] = e[1] => e[2] \in Trail(j)'
  BY DEF Upcoming, Trail
<1>3. \A e \in ReaperEvents : reapJob' = j /\ reapPc' = e[1] => e[2] \in Trail(j)'
  BY DEF Upcoming, Trail
<1>4. /\ {<<"created_event", "created", "transition">>, <<"queued_event", "queued", "enqueue">>,
          <<"cancelled_event", "cancelled", "done">>} \subseteq ApiEvents
      /\ {<<"leased_event", "leased", "download">>, <<"failed_event", "failed", "ack">>,
          <<"succeeded_event", "succeeded", "ack">>} \subseteq WorkerEvents
      /\ <<"failed_event", "failed", "idle">> \in ReaperEvents
  BY DEF ApiEvents, WorkerEvents, ReaperEvents
<1>. HIDE DEF Trail
<1>5. \A r \in Requests : rjob'[r] = j =>
        /\ rpc'[r] = "created_event" => "created" \in Trail(j)'
        /\ rpc'[r] = "queued_event" => "queued" \in Trail(j)'
        /\ rpc'[r] = "cancelled_event" => "cancelled" \in Trail(j)'
  BY <1>1, <1>4, SMT
<1>6. \A w \in Workers : wjob'[w] = j =>
        /\ wpc'[w] = "leased_event" => "leased" \in Trail(j)'
        /\ wpc'[w] = "failed_event" => "failed" \in Trail(j)'
        /\ wpc'[w] = "succeeded_event" => "succeeded" \in Trail(j)'
  BY <1>2, <1>4, SMT
<1>7. reapJob' = j /\ reapPc' = "failed_event" => "failed" \in Trail(j)'
  BY <1>3, <1>4, SMT
<1>. QED  BY <1>5, <1>6, <1>7

LEMMA EventNames ==
  /\ EventOf("pending") = "created" /\ EventOf("queued") = "queued"
  /\ EventOf("processing") = "leased" /\ EventOf("succeeded") = "succeeded"
  /\ EventOf("failed") = "failed" /\ EventOf("cancelled") = "cancelled"
BY SMT DEF EventOf

(* Where a worker has a claim in its hands.                                *)
Holding ==
  {"leased_event", "download", "transcribe", "fail", "insert_transcript", "insert_segments",
   "complete"}

(* A worker that goes on takes no claim, and loses none it does not drop.  *)
LEMMA GotoHolds ==
  ASSUME WorkerType, NEW w \in Workers, NEW l, WorkerGoto(w, l),
         l \notin Holding \/ wpc[w] \in Holding
  PROVE  \A v \in Workers, j \in Jobs : Holds(v, j)' => Holds(v, j) /\ wattempts'[v] = wattempts[v]
BY DEF WorkerType, WorkerGoto, Holds, Holding

LEMMA IdleHolds ==
  ASSUME WorkerType, NEW w \in Workers, WorkerIdle(w)
  PROVE  \A v \in Workers, j \in Jobs : Holds(v, j)' => Holds(v, j) /\ wattempts'[v] = wattempts[v]
BY NoneAssumption DEF WorkerType, WorkerIdle, Holds

LEMMA EventHolds ==
  ASSUME WorkerType, NEW w \in Workers, WorkerEvent(w)
  PROVE  \A v \in Workers, j \in Jobs : Holds(v, j)' => Holds(v, j) /\ wattempts'[v] = wattempts[v]
<1>. PICK e \in WorkerEvents : wpc[w] = e[1] /\ WorkerGoto(w, e[3])
  BY DEF WorkerEvent
<1>1. e[3] \in Holding => e[1] \in Holding
  BY SMT DEF WorkerEvents, Holding
<1>. QED  BY <1>1, GotoHolds

(* The steps that claim job j or find it not to be claimed.                *)
Claims(j) == \E w \in Workers : wjob[w] = j /\ ClaimNext(w)

(* Only a claim gives a worker a job to hold.                              *)
LEMMA OnlyClaimsHold ==
  ASSUME TypeOK, [Next]_vars, NEW j \in Jobs, ~Claims(j)
  PROVE  \A w \in Workers : Holds(w, j)' => Holds(w, j)
<1>. WorkerType
  BY DEF TypeOK
<1>1. CASE UNCHANGED workers
  BY <1>1 DEF workers, Holds
<1>2. ASSUME NEW w \in Workers, WorkerStep(w)
      PROVE  \A v \in Workers : Holds(v, j)' => Holds(v, j)
  <2>1. CASE ReadGroup(w)
    BY <2>1 DEF ReadGroup, Holds, WorkerType
  <2>2. CASE ClaimNext(w)
    BY <2>2 DEF ClaimNext, Claims, Holds, WorkerType
  <2>3. CASE Ack(w)
    BY <2>3, IdleHolds DEF Ack
  <2>4. CASE WorkerEvent(w)
    BY <2>4, EventHolds
  <2>5. CASE WorkerXadd(w) \/ FailOrRetryJob(w) \/ CompleteJob(w)
    BY <2>5, GotoHolds DEF WorkerXadd, FailOrRetryJob, CompleteJob, Holding
  <2>6. CASE Download(w) \/ Transcribe(w) \/ InsertTranscript(w) \/ InsertSegments(w)
    BY <2>6, GotoHolds DEF Download, Transcribe, InsertTranscript, InsertSegments, Holding
  <2>. QED  BY <1>2, <2>1, <2>2, <2>3, <2>4, <2>5, <2>6 DEF WorkerStep
<1>3. CASE Failure
  <2>1. ASSUME NEW w \in Workers, WorkerException(w)
        PROVE  \A v \in Workers : Holds(v, j)' => Holds(v, j)
    BY <2>1, GotoHolds DEF WorkerException, Holding
  <2>2. ASSUME NEW w \in Workers, WorkerCrash(w)
        PROVE  \A v \in Workers : Holds(v, j)' => Holds(v, j)
    BY <2>2, IdleHolds DEF WorkerCrash
  <2>. QED  BY <1>1, <1>3, <2>1, <2>2 DEF Failure, RequestError, ReaperError, ApiCrash
<1>4. ASSUME NEW r \in Requests, UserCall(r) \/ ApiStep(r)  PROVE UNCHANGED workers
  BY <1>4
  DEF UserCall, CreateJob, CancelStart, RetryStart, DeleteStart, ApiStep, Transition, ApiEnqueue,
      CancelJob, RetryJob, SoftDeleteJob, DeleteObject, ApiEvent
<1>5. CASE (\E w \in Workers : RenewLease(w)) \/ (\E i \in Jobs : LeaseExpires(i)) \/ ReaperStep
  BY <1>1, <1>5
  DEF RenewLease, LeaseExpires, ReaperStep, ListExpiredLeases, ReaperEvent, ReaperEnqueue, ReapJob
<1>6. CASE UNCHANGED vars
  BY <1>1, <1>6 DEF vars
<1>. QED  BY <1>1, <1>2, <1>3, <1>4, <1>5, <1>6 DEF Next

(* The only steps that write a status.                                     *)
StatusWrite ==
  \/ \E r \in Requests, j \in Jobs : CreateJob(r, j)
  \/ \E r \in Requests : Transition(r) \/ CancelJob(r) \/ RetryJob(r)
  \/ \E w \in Workers : ClaimNext(w) \/ FailOrRetryJob(w) \/ CompleteJob(w)
  \/ \E e \in expired : ReapJob(e)

LEMMA OnlyWritesChangeStatus == [Next]_vars /\ ~StatusWrite => UNCHANGED status
<1>. SUFFICES ASSUME [Next]_vars, ~StatusWrite  PROVE UNCHANGED status
  OBVIOUS
<1>. USE DEF StatusWrite, db, row
<1>1. ASSUME NEW r \in Requests, UserCall(r)  PROVE UNCHANGED status
  BY <1>1 DEF UserCall, CancelStart, RetryStart, DeleteStart
<1>2. ASSUME NEW r \in Requests, ApiStep(r)  PROVE UNCHANGED status
  BY <1>2 DEF ApiStep, ApiEnqueue, SoftDeleteJob, DeleteObject, ApiEvent
<1>3. ASSUME NEW w \in Workers, WorkerStep(w)  PROVE UNCHANGED status
  BY <1>3
  DEF WorkerStep, ReadGroup, Download, Transcribe, WorkerXadd, InsertTranscript, InsertSegments,
      WorkerEvent, Ack
<1>4. CASE (\E w \in Workers : RenewLease(w)) \/ (\E j \in Jobs : LeaseExpires(j)) \/ ReaperStep
  BY <1>4 DEF RenewLease, LeaseExpires, ReaperStep, ListExpiredLeases, ReaperEvent, ReaperEnqueue
<1>5. CASE Failure
  BY <1>5 DEF Failure, RequestError, WorkerException, WorkerCrash, ReaperError, ApiCrash
<1>6. CASE UNCHANGED vars
  BY <1>6 DEF vars
<1>. QED  BY <1>1, <1>2, <1>3, <1>4, <1>5, <1>6 DEF Next

LEMMA NoFailure == TypeOK /\ [Next]_vars /\ faults' = 0 => faults = 0 /\ ~Failure
<1>. SUFFICES ASSUME TypeOK, [Next]_vars, faults' = 0  PROVE faults = 0 /\ ~Failure
  OBVIOUS
<1>1. faults \in Nat
  BY DEF TypeOK, CountType
<1>2. ASSUME NEW k, Fault(k)  PROVE FALSE
  BY <1>1, <1>2, SMT DEF Fault
<1>3. ~Failure
  BY <1>2 DEF Failure, RequestError, WorkerException, WorkerCrash, ReaperError, ApiCrash
<1>4. ASSUME Next  PROVE UNCHANGED faults
  <2>1. ASSUME NEW r \in Requests, UserCall(r) \/ ApiStep(r)  PROVE UNCHANGED faults
    BY <2>1
    DEF UserCall, CreateJob, CancelStart, RetryStart, DeleteStart, ApiStep, Transition, ApiEnqueue,
        CancelJob, RetryJob, SoftDeleteJob, DeleteObject, ApiEvent
  <2>2. ASSUME NEW w \in Workers, WorkerStep(w) \/ RenewLease(w)  PROVE UNCHANGED faults
    BY <2>2
    DEF WorkerStep, ReadGroup, ClaimNext, Download, Transcribe, FailOrRetryJob, WorkerXadd,
        InsertTranscript, InsertSegments, CompleteJob, WorkerEvent, Ack, RenewLease
  <2>3. CASE (\E j \in Jobs : LeaseExpires(j)) \/ ReaperStep
    BY <2>3
    DEF LeaseExpires, ReaperStep, ListExpiredLeases, ReaperEvent, ReaperEnqueue, ReapJob
  <2>. QED  BY <1>3, <1>4, <2>1, <2>2, <2>3 DEF Next
<1>. QED  BY <1>3, <1>4 DEF vars

LEMMA TrailStep == TypeOK /\ TrailInv /\ [Next]_vars => TrailInv'
<1>. SUFFICES ASSUME TypeOK, TrailInv, [Next]_vars  PROVE TrailInv'
  OBVIOUS
<1>. RowType /\ ApiType /\ WorkerType /\ ReaperType
  BY DEF TypeOK
<1>1. faults' = 0 => faults = 0 /\ \A k \in Jobs : Trail(k) \subseteq Trail(k)'
  BY NoFailure, TrailGrows
<1>2. faults' = 0 => \A j \in Jobs : EverQueued(j) => "queued" \in Trail(j)'
  BY <1>1 DEF TrailInv
<1>3. CASE ~StatusWrite
  <2>1. \A w \in Workers, j \in Jobs : Holds(w, j)' => Holds(w, j)
    BY <1>3, OnlyClaimsHold DEF StatusWrite, Claims
  <2>. QED  BY <1>1, <1>3, <2>1, OnlyWritesChangeStatus, TrailQuiet
<1>. USE EventNames DEF EverQueued
<1>4. ASSUME NEW r \in Requests, NEW j \in Jobs, CreateJob(r, j)  PROVE TrailInv'
  <2>1. /\ status[j] = "absent" /\ status' = [status EXCEPT ![j] = "pending"]
        /\ rpc' = [rpc EXCEPT ![r] = "created_event"] /\ rjob' = [rjob EXCEPT ![r] = j]
        /\ UNCHANGED workers
    BY <1>4 DEF CreateJob, ApiStart
  <2>2. status'[j] = "pending" /\ \A k \in Jobs \ {j} : status'[k] = status[k]
    BY <2>1 DEF RowType
  <2>3. "created" \in Trail(j)'
    BY <2>1, Upcomings DEF ApiType
  <2>4. \A w \in Workers, k \in Jobs : Holds(w, k)' => Holds(w, k)
    BY <2>1 DEF workers, Holds
  <2>. QED  BY <1>1, <2>1, <2>2, <2>3, <2>4, TrailMoves
<1>5. ASSUME NEW r \in Requests, Transition(r) \/ CancelJob(r) \/ RetryJob(r)  PROVE TrailInv'
  <2>. PICK j \in Jobs : j = rjob[r]
    BY <1>5 DEF Transition, CancelJob, RetryJob, ApiType
  <2>1. \A w \in Workers, k \in Jobs : Holds(w, k)' => Holds(w, k)
    BY <1>5 DEF Transition, CancelJob, RetryJob, workers, Holds
  <2>2. CASE UNCHANGED status
    BY <1>1, <2>1, <2>2, TrailQuiet
  <2>3. CASE Transition(r) /\ ~deleted[j]
    <3>1. rpc'[r] = "queued_event" /\ rjob'[r] = j /\ status' = [status EXCEPT ![j] = "queued"]
      BY <2>3 DEF Transition, ApiGoto, ApiType
    <3>2. status'[j] = "queued" /\ \A k \in Jobs \ {j} : status'[k] = status[k]
      BY <3>1 DEF RowType
    <3>3. "queued" \in Trail(j)'
      BY <3>1, Upcomings
    <3>. QED  BY <1>1, <2>1, <3>2, <3>3, TrailMoves
  <2>4. CASE CancelJob(r) /\ CancelWhere(j)
    <3>1. /\ rpc'[r] = "cancelled_event" /\ rjob'[r] = j /\ status' = [status EXCEPT ![j] = "cancelled"]
          /\ status[j] \in {"queued", "processing"}
      BY <2>4 DEF CancelJob, CancelWhere, ApiGoto, ApiType
    <3>2. status'[j] = "cancelled" /\ \A k \in Jobs \ {j} : status'[k] = status[k]
      BY <3>1 DEF RowType
    <3>3. "cancelled" \in Trail(j)'
      BY <3>1, Upcomings
    <3>. QED  BY <1>1, <1>2, <2>1, <3>1, <3>2, <3>3, TrailMoves
  <2>5. CASE RetryJob(r) /\ RetryWhere(j)
    <3>1. status[j] = "failed" /\ status' = [status EXCEPT ![j] = "queued"]
      BY <2>5 DEF RetryJob, RetryWhere
    <3>2. status'[j] = "queued" /\ \A k \in Jobs \ {j} : status'[k] = status[k]
      BY <3>1 DEF RowType
    <3>. QED  BY <1>1, <1>2, <2>1, <3>1, <3>2, TrailMoves
  <2>. QED  BY <1>5, <2>2, <2>3, <2>4, <2>5 DEF Transition, CancelJob, RetryJob
<1>6. ASSUME NEW w \in Workers, ClaimNext(w)  PROVE TrailInv'
  <2>. PICK j \in Jobs : j = wjob[w]
    BY <1>6 DEF ClaimNext, WorkerType
  <2>1. CASE ~ClaimWhere(j)
    <3>1. UNCHANGED <<status, wjob>> /\ wpc' = [wpc EXCEPT ![w] = "ack"]
      BY <1>6, <2>1 DEF ClaimNext
    <3>2. \A v \in Workers, k \in Jobs : Holds(v, k)' => Holds(v, k)
      BY <3>1 DEF Holds, WorkerType
    <3>. QED  BY <1>1, <3>1, <3>2, TrailQuiet
  <2>2. CASE ClaimWhere(j)
    <3>1. /\ status' = [status EXCEPT ![j] = "processing"] /\ UNCHANGED wjob
          /\ wpc' = [wpc EXCEPT ![w] = "leased_event"] /\ status[j] \in {"queued", "retrying"}
      BY <1>6, <2>2 DEF ClaimNext, ClaimWhere
    <3>2. status'[j] = "processing" /\ \A k \in Jobs \ {j} : status'[k] = status[k]
      BY <3>1 DEF RowType
    <3>3. \A v \in Workers, k \in Jobs : Holds(v, k)' => Holds(v, k) \/ k = j
      BY <3>1 DEF Holds, WorkerType
    <3>4. "leased" \in Trail(j)'
      BY <3>1, Upcomings DEF WorkerType
    <3>5. EverQueued(j) /\ EverQueued(j)'
      BY <3>1, <3>2 DEF EverQueued
    <3>6. faults' = 0 => EventOf(status'[j]) \in Trail(j)' /\ "queued" \in Trail(j)'
      BY <1>1, <1>2, <3>2, <3>4, <3>5
    <3>. QED  BY <1>1, <3>2, <3>3, <3>5, <3>6, TrailMoves
  <2>. QED  BY <2>1, <2>2
<1>7. ASSUME NEW w \in Workers, FailOrRetryJob(w) \/ CompleteJob(w)  PROVE TrailInv'
  <2>. PICK j \in Jobs : j = wjob[w]
    BY <1>7 DEF FailOrRetryJob, CompleteJob, WorkerType
  <2>1. EverQueued(j)
    BY <1>7 DEF FailOrRetryJob, CompleteJob, TrailInv, Holds
  <2>2. \A v \in Workers, k \in Jobs : Holds(v, k)' => Holds(v, k)
    BY <1>7, GotoHolds DEF FailOrRetryJob, CompleteJob, Holding
  <2>3. PICK s \in {"failed", "queued", "succeeded"} :
          /\ status' = [status EXCEPT ![j] = s] /\ wjob'[w] = j
          /\ s = "failed" => wpc'[w] = "failed_event"
          /\ s = "succeeded" => wpc'[w] = "succeeded_event"
    BY <1>7 DEF FailOrRetryJob, CompleteJob, WorkerGoto, WorkerType
  <2>4. status'[j] = s /\ \A k \in Jobs \ {j} : status'[k] = status[k]
    BY <2>3 DEF RowType
  <2>5. faults' = 0 => EventOf(s) \in Trail(j)' /\ "queued" \in Trail(j)'
    BY <1>2, <2>1, <2>3, Upcomings
  <2>. QED  BY <1>1, <2>2, <2>4, <2>5, TrailMoves
<1>8. ASSUME NEW e \in expired, ReapJob(e)  PROVE TrailInv'
  <2>. PICK j \in Jobs : j = e[1]
    BY DEF ReaperType
  <2>1. \A v \in Workers, k \in Jobs : Holds(v, k)' => Holds(v, k)
    BY <1>8 DEF ReapJob, workers, Holds
  <2>2. CASE status[j] # "processing"
    BY <1>1, <1>8, <2>1, <2>2, TrailQuiet DEF ReapJob
  <2>3. CASE status[j] = "processing"
    <3>1. PICK s \in {"failed", "queued"} :
            /\ status' = [status EXCEPT ![j] = s]
            /\ s = "failed" => reapPc' = "failed_event" /\ reapJob' = j
      BY <1>8, <2>3 DEF ReapJob
    <3>2. status'[j] = s /\ \A k \in Jobs \ {j} : status'[k] = status[k]
      BY <3>1 DEF RowType
    <3>3. faults' = 0 => EventOf(s) \in Trail(j)' /\ "queued" \in Trail(j)'
      BY <1>2, <2>3, <3>1, Upcomings
    <3>. QED  BY <1>1, <2>1, <3>2, <3>3, TrailMoves
  <2>. QED  BY <2>2, <2>3
<1>. QED  BY <1>3, <1>4, <1>5, <1>6, <1>7, <1>8 DEF StatusWrite

(* While nothing fails, every status a job has is accounted for by an      *)
(* event written or about to be written by the process that set it, for    *)
(* every interleaving of handlers, workers and reaper, late renewals       *)
(* included.                                                               *)
THEOREM EveryStatusHasItsEvent == Spec => []EventTrail
<1>1. Init => TrailInv
  <2>. SUFFICES ASSUME Init  PROVE TrailInv
    OBVIOUS
  <2>1. /\ \A j \in Jobs : status[j] = "absent"
        /\ \A w \in Workers : wpc[w] = "idle"
    BY DEF Init
  <2>. QED  BY <2>1 DEF TrailInv, EverQueued, Holds
<1>2. TrailInv => EventTrail
  BY DEF TrailInv, EventTrail, Trail
<1>. QED  BY <1>1, <1>2, TypeCorrect, TrailStep, PTL DEF Spec
=============================================================================
