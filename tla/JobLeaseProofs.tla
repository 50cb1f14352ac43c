--------------------------- MODULE JobLeaseProofs ---------------------------
(***************************************************************************)
(* What leases guarantee when renewals keep ahead of them (LateRenewal is  *)
(* FALSE): one holder per job, an exact retry budget, succeeded as a final *)
(* status, and the refinement of JobLifecycle.  Each theorem carries that  *)
(* assumption; without it TLC finds counterexamples.                       *)
(***************************************************************************)
EXTENDS JobRefinement, JobQueueProofs

(* Most steps are first-order reasoning, for which Zenon is the quicker    *)
(* prover; the steps that need arithmetic or long case splits name SMT.    *)
USE Zenon

(* Handler r of Create has inserted the row of j and not yet queued it.    *)
Creating(r, j) == rjob[r] = j /\ rpc[r] \in {"created_event", "transition"}

Inactive(j) == \A w \in Workers : ~Holds(w, j)

(* Nothing but its own Create handler moves a pending job.                 *)
Creators ==
  \A r \in Requests, j \in Jobs :
    Creating(r, j) => status[j] = "pending" /\ \A s \in Requests : Creating(s, j) => s = r

(* A claim in a worker's hands is the one the row records, with the        *)
(* attempts the worker counts from; only a cancel may have come between.   *)
Holders ==
  \A w \in Workers, j \in Jobs : Holds(w, j) =>
    /\ status[j] \in {"processing", "cancelled"}
    /\ workerId[j] = w
    /\ lease[j] = "live"
    /\ wattempts[w] = attempts[j]

(* What the reaper read stays true until it acts on it.                    *)
Batch ==
  \A e \in expired :
    /\ status[e[1]] \in {"processing", "cancelled"}
    /\ Inactive(e[1])
    /\ e[2] = attempts[e[1]]

(* attempts counts the claims that have ended.                             *)
BudgetOf(j) ==
  /\ status[j] \in {"absent", "pending", "queued"} =>
       claims[j] = attempts[j] /\ claims[j] < MaxAttempts
  /\ status[j] = "processing" \/ ~Inactive(j) => claims[j] = attempts[j] + 1
  /\ status[j] # "retrying"
  /\ claims[j] <= MaxAttempts
  /\ status[j] = "failed" => claims[j] = MaxAttempts
Budget == \A j \in Jobs : BudgetOf(j)

LeaseInv == Creators /\ Holders /\ Batch /\ Budget

-----------------------------------------------------------------------------
(* A step that leaves the rows' columns alone, starts no claim and no      *)
(* creation, and adds nothing to the reaper's batch.                       *)
LEMMA LeaseQuiet ==
  ASSUME LeaseInv, UNCHANGED <<status, attempts, workerId, claims>>,
         expired' \subseteq expired,
         \A r \in Requests, j \in Jobs : Creating(r, j)' => Creating(r, j),
         \A w \in Workers, j \in Jobs : Holds(w, j)' =>
           Holds(w, j) /\ wattempts'[w] = wattempts[w] /\ lease'[j] = lease[j],
         expired \subseteq Jobs \X Nat
  PROVE  LeaseInv'
<1>1. Creators'
  BY DEF LeaseInv, Creators
<1>2. Holders'
  BY SMT DEF LeaseInv, Holders
<1>3. \A j \in Jobs : Inactive(j) => Inactive(j)'
  BY DEF Inactive
<1>4. Batch'
  BY <1>3 DEF LeaseInv, Batch
<1>5. Budget'
  BY <1>3 DEF LeaseInv, Budget, BudgetOf
<1>. QED  BY <1>1, <1>2, <1>4, <1>5 DEF LeaseInv

(* A step that changes the row of one job, which no worker holds and no    *)
(* handler is creating afterwards, and which leaves the reaper's batch.    *)
LEMMA RowChange ==
  ASSUME LeaseInv, expired \subseteq Jobs \X Nat, NEW j \in Jobs,
         \A k \in Jobs \ {j} : /\ status'[k] = status[k] /\ attempts'[k] = attempts[k]
                               /\ workerId'[k] = workerId[k] /\ lease'[k] = lease[k]
                               /\ claims'[k] = claims[k],
         BudgetOf(j)', Inactive(j)',
         \A r \in Requests : ~Creating(r, j)',
         \A r \in Requests, k \in Jobs : Creating(r, k)' => Creating(r, k),
         \A w \in Workers, k \in Jobs : Holds(w, k)' => Holds(w, k) /\ wattempts'[w] = wattempts[w],
         expired' \subseteq expired, \A f \in expired' : f[1] # j
  PROVE  LeaseInv'
<1>1. Creators'
  BY SMT DEF LeaseInv, Creators
<1>2. Holders'
  BY SMT DEF LeaseInv, Holders, Inactive
<1>3. \A k \in Jobs : Inactive(k) => Inactive(k)'
  BY DEF Inactive
<1>4. Batch'
  BY <1>3 DEF LeaseInv, Batch
<1>5. ASSUME NEW k \in Jobs, k # j  PROVE BudgetOf(k)'
  <2>1. /\ BudgetOf(k) /\ Inactive(k) => Inactive(k)'
        /\ status'[k] = status[k] /\ attempts'[k] = attempts[k] /\ claims'[k] = claims[k]
    BY <1>3, <1>5 DEF LeaseInv, Budget
  <2>2. BudgetOf(k)
    BY DEF LeaseInv, Budget
  <2>. QED  BY <1>3, <2>1, <2>2 DEF BudgetOf
<1>6. Budget'
  BY <1>5 DEF Budget
<1>. QED  BY <1>1, <1>2, <1>4, <1>6 DEF LeaseInv

LEMMA LeaseInit == Init => LeaseInv
BY MaxAttemptsAssumption, SMT
   DEF Init, LeaseInv, Creators, Holders, Batch, Budget, BudgetOf, Creating, Inactive, Holds

(* What an invariant says of one job.                                      *)
LEMMA NotHeld ==
  ASSUME LeaseInv, NEW j \in Jobs, status[j] \notin {"processing", "cancelled"}
  PROVE  Inactive(j) /\ \A e \in expired : e[1] # j
BY DEF LeaseInv, Holders, Batch, Inactive

LEMMA SameWorkers ==
  UNCHANGED workers =>
    /\ \A w \in Workers, j \in Jobs : (Holds(w, j)' <=> Holds(w, j)) /\ wattempts'[w] = wattempts[w]
    /\ \A j \in Jobs : Inactive(j)' <=> Inactive(j)
BY DEF workers, Holds, Inactive

LEMMA SameHandlers ==
  UNCHANGED api => \A r \in Requests, j \in Jobs : Creating(r, j)' <=> Creating(r, j)
BY DEF api, Creating

-----------------------------------------------------------------------------
(* Steps of the API handlers.                                              *)

LEMMA LeaseCreate ==
  ASSUME TypeOK, LeaseInv, NEW r \in Requests, NEW j \in Jobs, CreateJob(r, j)
  PROVE  LeaseInv'
<1>1. /\ status[j] = "absent" /\ status' = [status EXCEPT ![j] = "pending"]
      /\ UNCHANGED <<attempts, workerId, lease, workers, expired, claims>>
      /\ rpc' = [rpc EXCEPT ![r] = "created_event"] /\ rjob' = [rjob EXCEPT ![r] = j]
  BY DEF CreateJob, ApiStart, reaper, history
<1>2. status \in [Jobs -> Statuses] /\ ApiType /\ expired \subseteq Jobs \X Nat
  BY DEF TypeOK, RowType, ReaperType
<1>3. Creators'
  BY <1>1, <1>2, SMT DEF LeaseInv, Creators, Creating, ApiType
<1>4. Holders'
  BY <1>1, <1>2, SameWorkers, SMT DEF LeaseInv, Holders
<1>5. Batch'
  BY <1>1, <1>2, SameWorkers DEF LeaseInv, Batch
<1>6. Budget'
  BY <1>1, <1>2, SameWorkers DEF LeaseInv, Budget, BudgetOf
<1>. QED  BY <1>3, <1>4, <1>5, <1>6 DEF LeaseInv

(* A handler that goes on creates nothing new.                             *)
LEMMA GotoCreating ==
  ASSUME ApiType, NEW r \in Requests, NEW l, ApiGoto(r, l),
         l \notin {"created_event", "transition"} \/ rpc[r] = "created_event"
  PROVE  \A s \in Requests, j \in Jobs : Creating(s, j)' => Creating(s, j)
BY DEF ApiType, ApiGoto, Creating

LEMMA StartCreating ==
  ASSUME ApiType, NEW r \in Requests, NEW i, NEW l, ApiStart(r, i, l),
         l \notin {"created_event", "transition"}
  PROVE  \A s \in Requests, j \in Jobs : Creating(s, j)' => Creating(s, j)
BY DEF ApiType, ApiStart, Creating

(* A step of a handler that leaves rows, workers and reaper alone.         *)
LEMMA ApiQuiet ==
  ASSUME TypeOK, LeaseInv, UNCHANGED <<status, attempts, workerId, lease, workers, expired, claims>>,
         \A r \in Requests, j \in Jobs : Creating(r, j)' => Creating(r, j)
  PROVE  LeaseInv'
BY LeaseQuiet, SameWorkers DEF TypeOK, ReaperType

LEMMA LeaseUser ==
  ASSUME TypeOK, LeaseInv, NEW r \in Requests, UserCall(r)
  PROVE  LeaseInv'
<1>. PICK j \in Jobs : CreateJob(r, j) \/ CancelStart(r, j) \/ RetryStart(r, j) \/ DeleteStart(r, j)
  BY DEF UserCall
<1>1. CASE CancelStart(r, j)
  BY <1>1, ApiQuiet, StartCreating DEF CancelStart, TypeOK, db, row, reaper, history
<1>2. CASE RetryStart(r, j)
  BY <1>2, ApiQuiet, StartCreating DEF RetryStart, TypeOK, db, row, reaper, history
<1>3. CASE DeleteStart(r, j)
  BY <1>3, ApiQuiet, StartCreating DEF DeleteStart, TypeOK, db, row, reaper, history
<1>. QED  BY <1>1, <1>2, <1>3, LeaseCreate

LEMMA LeaseTransition ==
  ASSUME TypeOK, LeaseInv, NEW r \in Requests, Transition(r)
  PROVE  LeaseInv'
<1>1. /\ ApiType /\ rpc[r] = "transition" /\ rjob[r] \in Jobs
      /\ status \in [Jobs -> Statuses] /\ expired \subseteq Jobs \X Nat
  BY DEF TypeOK, RowType, ReaperType, ApiType, Transition
<1>. PICK j \in Jobs : j = rjob[r]
  BY <1>1
<1>2. UNCHANGED <<attempts, workerId, lease, workers, expired, claims>>
  BY DEF Transition, reaper, history
<1>3. CASE deleted[j]
  BY <1>1, <1>2, <1>3, ApiQuiet, GotoCreating DEF Transition
<1>4. CASE ~deleted[j]
  <2>1. ApiGoto(r, "queued_event") /\ status' = [status EXCEPT ![j] = "queued"]
    BY <1>4 DEF Transition
  <2>2. status[j] = "pending" /\ \A s \in Requests : Creating(s, j) => s = r
    BY <1>1 DEF LeaseInv, Creators, Creating
  <2>3. \A s \in Requests : ~Creating(s, j)'
    BY <1>1, <2>1, <2>2 DEF ApiGoto, ApiType, Creating
  <2>4. BudgetOf(j)'
    BY <1>1, <1>2, <2>1, <2>2, NotHeld, SameWorkers DEF LeaseInv, Budget, BudgetOf
  <2>. QED
    BY <1>1, <1>2, <2>1, <2>2, <2>3, <2>4, NotHeld, SameWorkers, GotoCreating, RowChange
<1>. QED  BY <1>3, <1>4

LEMMA LeaseCancel ==
  ASSUME TypeOK, LeaseInv, NEW r \in Requests, CancelJob(r)
  PROVE  LeaseInv'
<1>1. /\ ApiType /\ rpc[r] = "cancel" /\ rjob[r] \in Jobs
      /\ status \in [Jobs -> Statuses] /\ expired \subseteq Jobs \X Nat
  BY DEF TypeOK, RowType, ReaperType, ApiType, CancelJob
<1>. PICK j \in Jobs : j = rjob[r]
  BY <1>1
<1>2. UNCHANGED <<attempts, workerId, lease, workers, expired, claims>>
  BY DEF CancelJob, reaper, history
<1>3. \A s \in Requests, k \in Jobs : Creating(s, k)' => Creating(s, k)
  BY <1>1, GotoCreating DEF CancelJob
<1>4. CASE ~CancelWhere(j)
  BY <1>2, <1>3, <1>4, ApiQuiet DEF CancelJob
<1>5. CASE CancelWhere(j)
  <2>1. status[j] \in {"queued", "processing"} /\ status' = [status EXCEPT ![j] = "cancelled"]
    BY <1>5 DEF CancelJob, CancelWhere
  <2>2. Creators'
    BY <1>1, <1>3, <2>1 DEF LeaseInv, Creators
  <2>3. Holders'
    BY <1>1, <1>2, <2>1, SameWorkers, SMT DEF LeaseInv, Holders
  <2>4. Batch'
    BY <1>1, <1>2, <2>1, SameWorkers DEF LeaseInv, Batch
  <2>5. Budget'
    BY <1>1, <1>2, <2>1, SameWorkers DEF LeaseInv, Budget, BudgetOf
  <2>. QED  BY <2>2, <2>3, <2>4, <2>5 DEF LeaseInv
<1>. QED  BY <1>4, <1>5

LEMMA LeaseRetry ==
  ASSUME TypeOK, LeaseInv, NEW r \in Requests, RetryJob(r)
  PROVE  LeaseInv'
<1>1. /\ ApiType /\ rpc[r] = "retry" /\ rjob[r] \in Jobs
      /\ RowType /\ claims \in [Jobs -> Nat] /\ expired \subseteq Jobs \X Nat
  BY DEF TypeOK, CountType, ReaperType, ApiType, RetryJob
<1>. PICK j \in Jobs : j = rjob[r]
  BY <1>1
<1>2. UNCHANGED <<workers, expired>>
  BY DEF RetryJob, reaper
<1>3. \A s \in Requests, k \in Jobs : Creating(s, k)' => Creating(s, k)
  BY <1>1, GotoCreating DEF RetryJob
<1>4. CASE ~RetryWhere(j)
  BY <1>2, <1>3, <1>4, ApiQuiet DEF RetryJob
<1>5. CASE RetryWhere(j)
  <2>1. /\ status[j] = "failed"
        /\ status'[j] = "queued" /\ attempts'[j] = 0 /\ claims'[j] = 0
        /\ \A k \in Jobs \ {j} : /\ status'[k] = status[k] /\ attempts'[k] = attempts[k]
                                 /\ workerId'[k] = workerId[k] /\ lease'[k] = lease[k]
                                 /\ claims'[k] = claims[k]
    BY <1>1, <1>5, SMT DEF RetryJob, RetryWhere, RowType
  <2>2. Inactive(j)' /\ \A e \in expired : e[1] # j
    BY <1>2, <2>1, NotHeld, SameWorkers
  <2>3. BudgetOf(j)'
    BY <2>1, <2>2, MaxAttemptsAssumption, SMT DEF BudgetOf
  <2>4. \A s \in Requests : ~Creating(s, j)'
    BY <1>3, <2>1 DEF LeaseInv, Creators
  <2>. QED  BY <1>1, <1>2, <1>3, <2>1, <2>2, <2>3, <2>4, SameWorkers, RowChange
<1>. QED  BY <1>4, <1>5

LEMMA LeaseApi ==
  ASSUME TypeOK, LeaseInv, NEW r \in Requests, ApiStep(r)
  PROVE  LeaseInv'
<1>1. CASE ApiEnqueue(r)
  BY <1>1, ApiQuiet, GotoCreating DEF ApiEnqueue, TypeOK, db, row, reaper, history
<1>2. CASE SoftDeleteJob(r)
  BY <1>2, ApiQuiet, GotoCreating DEF SoftDeleteJob, TypeOK, reaper, history
<1>3. CASE DeleteObject(r)
  BY <1>3, ApiQuiet, GotoCreating DEF DeleteObject, TypeOK, row, reaper, history
<1>4. CASE ApiEvent(r)
  <2>1. \A s \in Requests, j \in Jobs : Creating(s, j)' => Creating(s, j)
    BY <1>4, GotoCreating, SMT DEF ApiEvent, ApiEvents, TypeOK
  <2>. QED  BY <1>4, <2>1, ApiQuiet DEF ApiEvent, row, reaper, history
<1>. QED
  BY <1>1, <1>2, <1>3, <1>4, LeaseTransition, LeaseCancel, LeaseRetry DEF ApiStep

-----------------------------------------------------------------------------
(* Steps of the workers.                                                   *)

(* A step of a worker that leaves rows, handlers and reaper alone.         *)
LEMMA WorkerQuiet ==
  ASSUME TypeOK, LeaseInv, UNCHANGED <<status, attempts, workerId, lease, api, expired, claims>>,
         \A w \in Workers, j \in Jobs : Holds(w, j)' => Holds(w, j) /\ wattempts'[w] = wattempts[w]
  PROVE  LeaseInv'
BY LeaseQuiet, SameHandlers DEF TypeOK, ReaperType

LEMMA LeaseClaim ==
  ASSUME TypeOK, LeaseInv, NEW w \in Workers, ClaimNext(w)
  PROVE  LeaseInv'
<1>1. /\ WorkerType /\ wpc[w] = "claim" /\ wjob[w] \in Jobs
      /\ RowType /\ claims \in [Jobs -> Nat] /\ expired \subseteq Jobs \X Nat
  BY DEF TypeOK, CountType, ReaperType, WorkerType, ClaimNext
<1>. PICK j \in Jobs : j = wjob[w]
  BY <1>1
<1>2. UNCHANGED <<attempts, api, wjob, expired>>
  BY DEF ClaimNext, reaper
<1>3. CASE ~ClaimWhere(j)
  <2>1. WorkerGoto(w, "ack") /\ UNCHANGED <<status, workerId, lease, claims>>
    BY <1>2, <1>3 DEF ClaimNext, WorkerGoto
  <2>. QED  BY <1>1, <1>2, <2>1, GotoHolds, WorkerQuiet DEF Holding
<1>4. CASE ClaimWhere(j)
  <2>1. status[j] = "queued" /\ claims[j] = attempts[j] /\ claims[j] < MaxAttempts
    BY <1>4 DEF ClaimWhere, LeaseInv, Budget, BudgetOf
  <2>2. Inactive(j) /\ \A e \in expired : e[1] # j
    BY <2>1, NotHeld
  <2>3. /\ status'[j] = "processing" /\ workerId'[j] = w /\ lease'[j] = "live"
        /\ \A k \in Jobs \ {j} : /\ status'[k] = status[k] /\ workerId'[k] = workerId[k]
                                 /\ lease'[k] = lease[k] /\ claims'[k] = claims[k]
    BY <1>1, <1>4, SMT DEF ClaimNext, RowType
  <2>4. claims'[j] = claims[j] + 1
    BY <1>1, <1>4, <2>1, MaxAttemptsAssumption, SMT DEF ClaimNext
  <2>5. /\ wattempts'[w] = attempts[j] /\ wpc'[w] = "leased_event"
        /\ \A v \in Workers \ {w} : wattempts'[v] = wattempts[v] /\ wpc'[v] = wpc[v]
    BY <1>1, <1>4 DEF ClaimNext, WorkerType
  <2>6. \A v \in Workers, k \in Jobs : Holds(v, k)' =>
          IF v = w THEN k = j ELSE Holds(v, k) /\ wattempts'[v] = wattempts[v]
    BY <1>2, <2>5 DEF Holds
  <2>7. Creators'
    BY <1>2, <2>1, <2>3, SameHandlers DEF LeaseInv, Creators
  <2>8. Holders'
    BY <1>2, <2>2, <2>3, <2>5, <2>6, SMT DEF LeaseInv, Holders, Inactive
  <2>9. \A k \in Jobs \ {j} : Inactive(k) => Inactive(k)'
    BY <2>6 DEF Inactive
  <2>10. Batch'
    BY <1>1, <1>2, <2>2, <2>3, <2>9 DEF LeaseInv, Batch
  <2>11. BudgetOf(j)'
    BY <1>1, <1>2, <2>1, <2>3, <2>4, MaxAttemptsAssumption, SMT DEF BudgetOf, RowType
  <2>12. ASSUME NEW k \in Jobs, k # j  PROVE BudgetOf(k)'
    <3>1. BudgetOf(k)
      BY DEF LeaseInv, Budget
    <3>. QED  BY <1>2, <2>3, <2>9, <2>12, <3>1 DEF BudgetOf
  <2>13. Budget'
    BY <2>11, <2>12 DEF Budget
  <2>. QED  BY <2>7, <2>8, <2>10, <2>13 DEF LeaseInv
<1>. QED  BY <1>3, <1>4

(* What LeaseInv says of a job a worker holds.                             *)
LEMMA Held ==
  ASSUME TypeOK, LeaseInv, NEW w \in Workers, wpc[w] \in Holding
  PROVE  /\ wjob[w] \in Jobs
         /\ status[wjob[w]] \in {"processing", "cancelled"}
         /\ workerId[wjob[w]] = w
         /\ lease[wjob[w]] = "live"
         /\ wattempts[w] = attempts[wjob[w]]
         /\ claims[wjob[w]] = attempts[wjob[w]] + 1
         /\ claims[wjob[w]] <= MaxAttempts
         /\ \A v \in Workers : Holds(v, wjob[w]) => v = w
         /\ \A e \in expired : e[1] # wjob[w]
<1>. wjob[w] \in Jobs
  BY DEF TypeOK, WorkerType, Holding
<1>. PICK j \in Jobs : j = wjob[w]
  OBVIOUS
<1>1. Holds(w, j)
  BY DEF Holds, Holding
<1>2. /\ status[j] \in {"processing", "cancelled"} /\ workerId[j] = w /\ lease[j] = "live"
      /\ wattempts[w] = attempts[j]
      /\ \A v \in Workers : Holds(v, j) => v = w
  BY <1>1, SMT DEF LeaseInv, Holders
<1>3. claims[j] = attempts[j] + 1 /\ claims[j] <= MaxAttempts
  BY <1>1 DEF LeaseInv, Budget, BudgetOf, Inactive
<1>4. \A e \in expired : e[1] # j
  BY <1>1 DEF LeaseInv, Batch, Inactive
<1>. QED  BY <1>2, <1>3, <1>4

LEMMA LeaseOutcome ==
  ASSUME TypeOK, LeaseInv, NEW w \in Workers, FailOrRetryJob(w) \/ CompleteJob(w)
  PROVE  LeaseInv'
<1>1. /\ WorkerType /\ RowType /\ claims \in [Jobs -> Nat]
      /\ expired \subseteq Jobs \X Nat
  BY DEF TypeOK, CountType, ReaperType
<1>2. wpc[w] \in Holding
  BY DEF FailOrRetryJob, CompleteJob, Holding
<1>. PICK j \in Jobs : j = wjob[w]
  BY <1>2, Held
<1>3. /\ status[j] \in {"processing", "cancelled"} /\ wattempts[w] = attempts[j]
      /\ claims[j] = attempts[j] + 1 /\ claims[j] <= MaxAttempts
      /\ \A v \in Workers : Holds(v, j) => v = w
      /\ \A e \in expired : e[1] # j
  BY <1>2, Held
<1>4. UNCHANGED <<api, expired, claims>>
  BY DEF FailOrRetryJob, CompleteJob, reaper, history
<1>5. PICK l : WorkerGoto(w, l) /\ l \notin Holding
  BY SMT DEF FailOrRetryJob, CompleteJob, Holding
<1>6. \A v \in Workers, k \in Jobs : Holds(v, k)' => Holds(v, k) /\ wattempts'[v] = wattempts[v]
  BY <1>1, <1>5, GotoHolds
<1>7. Inactive(j)'
  BY <1>1, <1>3, <1>5, <1>6 DEF Inactive, Holds, Holding, WorkerGoto, WorkerType
<1>8. \A s \in Requests : ~Creating(s, j)'
  BY <1>3, <1>4, SameHandlers DEF LeaseInv, Creators
<1>9. \A k \in Jobs \ {j} : /\ status'[k] = status[k] /\ attempts'[k] = attempts[k]
                            /\ workerId'[k] = workerId[k] /\ lease'[k] = lease[k]
  <2>1. CASE CompleteJob(w)
    BY <1>1, <2>1 DEF CompleteJob, RowType
  <2>2. CASE FailOrRetryJob(w)
    BY <1>1, <2>2 DEF FailOrRetryJob, RowType
  <2>. QED  BY <2>1, <2>2
<1>10. \/ status'[j] = "succeeded"
       \/ status'[j] = "failed" /\ claims[j] = MaxAttempts
       \/ status'[j] = "queued" /\ attempts'[j] = claims[j] /\ claims[j] < MaxAttempts
  <2>1. CASE CompleteJob(w)
    BY <1>1, <2>1 DEF CompleteJob, RowType
  <2>2. CASE FailOrRetryJob(w)
    <3>1. attempts[j] \in Nat /\ claims[j] \in Nat
      BY <1>1 DEF RowType
    <3>2. attempts'[j] = claims[j]
      BY <1>1, <1>3, <2>2 DEF FailOrRetryJob, NewAttempts, RowType
    <3>3. CASE Exhausted(wattempts[w])
      <4>1. claims[j] = MaxAttempts
        BY <1>3, <3>1, <3>3, MaxAttemptsAssumption, SMT DEF Exhausted
      <4>. QED  BY <1>1, <2>2, <3>3, <4>1 DEF FailOrRetryJob, RowType
    <3>4. CASE ~Exhausted(wattempts[w])
      <4>1. claims[j] < MaxAttempts
        BY <1>3, <3>1, <3>4, MaxAttemptsAssumption, SMT DEF Exhausted
      <4>. QED  BY <1>1, <2>2, <3>2, <3>4, <4>1 DEF FailOrRetryJob, RowType
    <3>. QED  BY <3>3, <3>4
  <2>. QED  BY <2>1, <2>2
<1>11. BudgetOf(j)'
  BY <1>1, <1>3, <1>4, <1>7, <1>10, MaxAttemptsAssumption DEF BudgetOf
<1>. QED
  BY <1>1, <1>3, <1>4, <1>6, <1>7, <1>8, <1>9, <1>11, SameHandlers, RowChange, SMT

LEMMA LeaseWorker ==
  ASSUME TypeOK, LeaseInv, NEW w \in Workers, WorkerStep(w) \/ RenewLease(w)
  PROVE  LeaseInv'
<1>. WorkerType
  BY DEF TypeOK
<1>1. CASE ReadGroup(w)
  <2>1. \A v \in Workers, j \in Jobs : Holds(v, j)' => Holds(v, j) /\ wattempts'[v] = wattempts[v]
    BY <1>1 DEF ReadGroup, WorkerType, Holds
  <2>. QED  BY <1>1, <2>1, WorkerQuiet DEF ReadGroup, db, row, reaper, history
<1>2. CASE Download(w)
  BY <1>2, GotoHolds, WorkerQuiet DEF Download, Holding, db, row, reaper, history
<1>3. CASE Transcribe(w)
  BY <1>3, GotoHolds, WorkerQuiet DEF Transcribe, Holding, db, row, reaper, history
<1>4. CASE WorkerXadd(w)
  BY <1>4, GotoHolds, WorkerQuiet DEF WorkerXadd, Holding, db, row, reaper, history
<1>5. CASE InsertTranscript(w)
  BY <1>5, GotoHolds, WorkerQuiet DEF InsertTranscript, Holding, row, reaper, history
<1>6. CASE InsertSegments(w)
  BY <1>6, GotoHolds, WorkerQuiet DEF InsertSegments, Holding, row, reaper, history
<1>7. CASE WorkerEvent(w)
  <2>1. PICK l : WorkerGoto(w, l) /\ (l \notin Holding \/ wpc[w] \in Holding)
    BY <1>7, SMT DEF WorkerEvent, WorkerEvents, Holding
  <2>. QED  BY <1>7, <2>1, GotoHolds, WorkerQuiet DEF WorkerEvent, row, reaper, history
<1>8. CASE Ack(w)
  BY <1>8, IdleHolds, WorkerQuiet DEF Ack, db, row, reaper, history
<1>9. CASE RenewLease(w)
  <2>1. /\ \A j \in Jobs : lease[j] = "live" => lease'[j] = lease[j]
        /\ UNCHANGED <<status, attempts, workerId, api, workers, expired, claims>>
    BY <1>9 DEF RenewLease, TypeOK, RowType, reaper, history
  <2>2. \A v \in Workers, j \in Jobs : Holds(v, j) => lease'[j] = lease[j]
    BY <2>1 DEF LeaseInv, Holders
  <2>. QED  BY <2>1, <2>2, SameWorkers, SameHandlers, LeaseQuiet DEF TypeOK, ReaperType
<1>. QED
  BY <1>1, <1>2, <1>3, <1>4, <1>5, <1>6, <1>7, <1>8, <1>9, LeaseClaim, LeaseOutcome
  DEF WorkerStep

-----------------------------------------------------------------------------
(* The reaper, the clock and the failures.                                 *)

LEMMA LeaseExpiry ==
  ASSUME LateRenewal = FALSE, TypeOK, LeaseInv, NEW j \in Jobs, LeaseExpires(j)
  PROVE  LeaseInv'
<1>1. /\ Inactive(j) /\ \A k \in Jobs \ {j} : lease'[k] = lease[k]
      /\ UNCHANGED <<status, attempts, workerId, api, workers, expired, claims>>
  BY DEF LeaseExpires, Inactive, TypeOK, RowType, reaper, history
<1>2. \A v \in Workers, k \in Jobs : Holds(v, k) => lease'[k] = lease[k]
  BY <1>1 DEF Inactive
<1>. QED  BY <1>1, <1>2, SameWorkers, SameHandlers, LeaseQuiet DEF TypeOK, ReaperType

LEMMA LeaseList ==
  ASSUME TypeOK, LeaseInv, ListExpiredLeases
  PROVE  LeaseInv'
<1>1. UNCHANGED <<status, attempts, workerId, lease, api, workers, claims>>
  BY DEF ListExpiredLeases, db, row, history
<1>2. \A e \in expired' : \E j \in Jobs :
        e = <<j, attempts[j]>> /\ status[j] = "processing" /\ lease[j] = "expired"
  BY DEF ListExpiredLeases, ExpiredLeases
<1>3. \A j \in Jobs : lease[j] = "expired" => Inactive(j)
  BY DEF LeaseInv, Holders, Inactive
<1>4. Creators'
  BY <1>1, SameHandlers DEF LeaseInv, Creators
<1>5. Holders'
  BY <1>1, SameWorkers, SMT DEF LeaseInv, Holders
<1>6. Batch'
  <2>. SUFFICES ASSUME NEW e \in expired'
                PROVE  status'[e[1]] = "processing" /\ Inactive(e[1])' /\ e[2] = attempts'[e[1]]
    BY DEF Batch
  <2>1. PICK j \in Jobs :
          e = <<j, attempts[j]>> /\ status[j] = "processing" /\ lease[j] = "expired"
    BY <1>2
  <2>2. Inactive(j)' /\ status'[j] = "processing" /\ attempts'[j] = attempts[j]
    BY <1>1, <1>3, <2>1, SameWorkers
  <2>. QED  BY <2>1, <2>2
<1>7. Budget'
  BY <1>1, SameWorkers DEF LeaseInv, Budget, BudgetOf
<1>. QED  BY <1>4, <1>5, <1>6, <1>7 DEF LeaseInv

LEMMA LeaseReap ==
  ASSUME TypeOK, LeaseInv, NEW e \in expired, ReapJob(e)
  PROVE  LeaseInv'
<1>1. RowType /\ claims \in [Jobs -> Nat] /\ expired \subseteq Jobs \X Nat /\ e[1] \in Jobs
  BY DEF TypeOK, CountType, ReaperType
<1>. PICK j \in Jobs : j = e[1]
  BY <1>1
<1>2. expired' = expired \ {e} /\ UNCHANGED <<api, workers, claims>>
  BY DEF ReapJob, history
<1>3. Inactive(j) /\ e[2] = attempts[j]
  BY DEF LeaseInv, Batch
<1>4. CASE status[j] # "processing"
  <2>1. UNCHANGED <<status, attempts, workerId, lease>>
    BY <1>4 DEF ReapJob
  <2>. QED  BY <1>1, <1>2, <2>1, SameWorkers, SameHandlers, LeaseQuiet
<1>5. CASE status[j] = "processing"
  <2>1. claims[j] = attempts[j] + 1 /\ claims[j] <= MaxAttempts
        /\ attempts[j] \in Nat /\ claims[j] \in Nat
    BY <1>1, <1>5 DEF LeaseInv, Budget, BudgetOf, RowType
  <2>2. \A f \in expired' : f[1] # j
    <3>. SUFFICES ASSUME NEW f \in expired, f[1] = j  PROVE f = e
      BY <1>2
    <3>1. f[2] = attempts[j] /\ f \in Jobs \X Nat /\ e \in Jobs \X Nat
      BY <1>1 DEF LeaseInv, Batch
    <3>. QED  BY <1>3, <3>1, SMT
  <2>3. attempts'[j] = claims[j]
    BY <1>1, <1>5, <2>1 DEF ReapJob, RowType
  <2>4. \A k \in Jobs \ {j} : /\ status'[k] = status[k] /\ attempts'[k] = attempts[k]
                              /\ workerId'[k] = workerId[k] /\ lease'[k] = lease[k]
    BY <1>1, <1>5 DEF ReapJob, RowType
  <2>5. \/ status'[j] = "failed" /\ claims[j] = MaxAttempts
        \/ status'[j] = "queued" /\ claims[j] < MaxAttempts
    <3>1. CASE Exhausted(e[2])
      <4>1. claims[j] = MaxAttempts
        BY <1>3, <2>1, <3>1, MaxAttemptsAssumption, SMT DEF Exhausted
      <4>. QED  BY <1>1, <1>5, <3>1, <4>1 DEF ReapJob, RowType
    <3>2. CASE ~Exhausted(e[2])
      <4>1. claims[j] < MaxAttempts
        BY <1>3, <2>1, <3>2, MaxAttemptsAssumption, SMT DEF Exhausted
      <4>. QED  BY <1>1, <1>5, <3>2, <4>1 DEF ReapJob, RowType
    <3>. QED  BY <3>1, <3>2
  <2>6. Inactive(j)' /\ \A s \in Requests : ~Creating(s, j)'
    BY <1>2, <1>3, <1>5, SameWorkers, SameHandlers DEF LeaseInv, Creators
  <2>7. BudgetOf(j)'
    BY <1>2, <2>1, <2>3, <2>5, <2>6, MaxAttemptsAssumption DEF BudgetOf
  <2>. QED
    BY <1>1, <1>2, <2>2, <2>4, <2>6, <2>7, SameWorkers, SameHandlers, RowChange, SMT
<1>. QED  BY <1>4, <1>5

LEMMA LeaseFailure ==
  ASSUME TypeOK, LeaseInv, Failure
  PROVE  LeaseInv'
<1>. ApiType /\ WorkerType /\ expired \subseteq Jobs \X Nat
  BY DEF TypeOK, ReaperType
<1>1. ASSUME NEW r \in Requests, RequestError(r)  PROVE LeaseInv'
  BY <1>1, GotoCreating, ApiQuiet DEF RequestError, db, row, reaper, history
<1>2. ASSUME NEW w \in Workers, WorkerException(w)  PROVE LeaseInv'
  BY <1>2, GotoHolds, WorkerQuiet DEF WorkerException, Holding, db, row, reaper, history
<1>3. ASSUME NEW w \in Workers, WorkerCrash(w)  PROVE LeaseInv'
  BY <1>3, IdleHolds, WorkerQuiet DEF WorkerCrash, db, row, reaper, history
<1>4. CASE ReaperError
  <2>1. /\ UNCHANGED <<status, attempts, workerId, lease, api, workers, claims>>
        /\ expired' \subseteq expired
    BY <1>4 DEF ReaperError, db, row, history
  <2>. QED  BY <2>1, SameWorkers, SameHandlers, LeaseQuiet
<1>5. CASE ApiCrash
  <2>1. /\ UNCHANGED <<status, attempts, workerId, lease, workers, claims>>
        /\ expired' \subseteq expired
        /\ \A r \in Requests : rjob'[r] = None
    BY <1>5 DEF ApiCrash, db, row, history
  <2>2. \A r \in Requests, j \in Jobs : ~Creating(r, j)'
    BY <2>1, NoneAssumption DEF Creating
  <2>. QED  BY <2>1, <2>2, SameWorkers, LeaseQuiet
<1>. QED  BY <1>1, <1>2, <1>3, <1>4, <1>5 DEF Failure

LEMMA LeaseStep ==
  ASSUME LateRenewal = FALSE, TypeOK, LeaseInv, [Next]_vars
  PROVE  LeaseInv'
<1>1. ASSUME ReaperEvent \/ ReaperEnqueue  PROVE LeaseInv'
  <2>1. UNCHANGED <<status, attempts, workerId, lease, api, workers, expired, claims>>
    BY <1>1 DEF ReaperEvent, ReaperEnqueue, db, row, history
  <2>. QED  BY <2>1, SameWorkers, WorkerQuiet
<1>2. CASE UNCHANGED vars
  <2>1. UNCHANGED <<status, attempts, workerId, lease, api, workers, expired, claims>>
    BY <1>2 DEF vars, db, row, reaper, history
  <2>. QED  BY <2>1, SameWorkers, WorkerQuiet
<1>. QED
  BY <1>1, <1>2, LeaseUser, LeaseApi, LeaseWorker, LeaseExpiry, LeaseList, LeaseReap,
     LeaseFailure
  DEF Next, ReaperStep

(* With renewals ahead of leases, the claim a worker holds is the one the  *)
(* row records, the batch the reaper read stays true, and attempts counts  *)
(* the ended claims: the inductive invariant of this module.               *)
THEOREM LeaseInvariant ==
  ASSUME LateRenewal = FALSE
  PROVE  Spec => []LeaseInv
BY LeaseInit, TypeCorrect, LeaseStep, PTL DEF Spec

(* One worker at a time has a job in its hands, the one the row names, for *)
(* any number of workers, duplicate deliveries, crashes and reaper passes. *)
THEOREM OneHolderPerJob ==
  ASSUME LateRenewal = FALSE
  PROVE  Spec => []SingleHolder
<1>1. LeaseInv => SingleHolder
  BY SMT DEF LeaseInv, Holders, SingleHolder
<1>. QED  BY <1>1, LeaseInvariant, PTL

(* A job is claimed at most max_attempts times between user retries, and   *)
(* failed only after exactly that many claims.                             *)
THEOREM RetryBudgetIsExact ==
  ASSUME LateRenewal = FALSE
  PROVE  Spec => []BudgetExact
<1>1. LeaseInv => BudgetExact
  BY DEF LeaseInv, Budget, BudgetOf, BudgetExact
<1>. QED  BY <1>1, LeaseInvariant, PTL

(* No step of any process takes a job out of succeeded, though the         *)
(* worker's updates and Create's transition do not look at the status.     *)
THEOREM SucceededJobsStaySucceeded ==
  ASSUME LateRenewal = FALSE
  PROVE  Spec => SucceededIsFinal
<1>1. ASSUME TypeOK, LeaseInv, [Next]_vars, NEW j \in Jobs, status[j] = "succeeded"
      PROVE  status'[j] = "succeeded"
  <2>. status \in [Jobs -> Statuses] /\ status[j] = "succeeded"
    BY <1>1 DEF TypeOK, RowType
  <2>1. ASSUME NEW r \in Requests, UserCall(r)  PROVE status'[j] = "succeeded"
    BY <2>1 DEF UserCall, CreateJob, CancelStart, RetryStart, DeleteStart, db, row
  <2>2. ASSUME NEW r \in Requests, ApiStep(r)  PROVE status'[j] = "succeeded"
    <3>1. CASE Transition(r)
      <4>1. rjob[r] \in Jobs /\ status[rjob[r]] = "pending"
        BY <1>1, <3>1 DEF Transition, LeaseInv, Creators, Creating, TypeOK, ApiType
      <4>. QED  BY <3>1, <4>1 DEF Transition
    <3>2. CASE CancelJob(r)
      BY <3>2 DEF CancelJob, CancelWhere
    <3>3. CASE RetryJob(r)
      BY <3>3 DEF RetryJob, RetryWhere
    <3>4. CASE ApiEnqueue(r) \/ SoftDeleteJob(r) \/ DeleteObject(r) \/ ApiEvent(r)
      BY <3>4 DEF ApiEnqueue, SoftDeleteJob, DeleteObject, ApiEvent, db, row
    <3>. QED  BY <2>2, <3>1, <3>2, <3>3, <3>4 DEF ApiStep
  <2>3. ASSUME NEW w \in Workers, WorkerStep(w) \/ RenewLease(w)
        PROVE  status'[j] = "succeeded"
    <3>1. CASE ClaimNext(w)
      BY <3>1 DEF ClaimNext, ClaimWhere
    <3>2. CASE FailOrRetryJob(w)
      <4>1. wjob[w] # j
        BY <1>1, <3>2 DEF FailOrRetryJob, LeaseInv, Holders, Holds
      <4>. QED  BY <3>2, <4>1 DEF FailOrRetryJob
    <3>3. CASE CompleteJob(w)
      BY <3>3 DEF CompleteJob
    <3>4. CASE ReadGroup(w) \/ Download(w) \/ Transcribe(w) \/ WorkerXadd(w) \/ Ack(w)
      BY <3>4 DEF ReadGroup, Download, Transcribe, WorkerXadd, Ack, db, row
    <3>5. CASE InsertTranscript(w) \/ InsertSegments(w) \/ WorkerEvent(w) \/ RenewLease(w)
      BY <3>5 DEF InsertTranscript, InsertSegments, WorkerEvent, RenewLease, row
    <3>. QED  BY <2>3, <3>1, <3>2, <3>3, <3>4, <3>5 DEF WorkerStep
  <2>4. ASSUME NEW i \in Jobs, LeaseExpires(i)  PROVE status'[j] = "succeeded"
    BY <2>4 DEF LeaseExpires
  <2>5. CASE ReaperStep
    <3>1. CASE ListExpiredLeases \/ ReaperEvent \/ ReaperEnqueue
      BY <3>1 DEF ListExpiredLeases, ReaperEvent, ReaperEnqueue, db, row
    <3>2. ASSUME NEW e \in expired, ReapJob(e)  PROVE status'[j] = "succeeded"
      BY <3>2 DEF ReapJob
    <3>. QED  BY <2>5, <3>1, <3>2 DEF ReaperStep
  <2>6. CASE Failure
    BY <2>6 DEF Failure, RequestError, WorkerException, WorkerCrash, ReaperError, ApiCrash, db, row
  <2>7. CASE UNCHANGED vars
    BY <2>7 DEF vars, db, row
  <2>. QED  BY <1>1, <2>1, <2>2, <2>3, <2>4, <2>5, <2>6, <2>7 DEF Next
<1>2. TypeOK /\ LeaseInv /\ [Next]_vars =>
        [\A j \in Jobs : status[j] = "succeeded" => status'[j] = "succeeded"]_vars
  BY <1>1
<1>. QED  BY <1>2, TypeCorrect, LeaseInvariant, PTL DEF Spec, SucceededIsFinal

-----------------------------------------------------------------------------
(* The refinement: every step of a handler, a worker, the reaper or a      *)
(* failure is one step of one job's life cycle in JobLifecycle, the one    *)
(* departure CancelIgnored, or changes nothing the owner sees.  First, how *)
(* the steps of the workers move the mapped variable.                      *)

LEMMA WorkingAt == \A j \in Jobs : Working[j] <=> ~Inactive(j)
BY DEF Working, Inactive

(* No worker takes a claim or lets one go.                                 *)
LEMMA WorkingSame ==
  ASSUME \A w \in Workers, j \in Jobs : Holds(w, j)' <=> Holds(w, j)
  PROVE  Working' = Working
BY DEF Working

(* A worker goes on and no other moves.                                    *)
LEMMA OneMoves ==
  ASSUME NEW w \in Workers,
         \A v \in Workers \ {w} : wpc'[v] = wpc[v] /\ wjob'[v] = wjob[v]
  PROVE  \A v \in Workers \ {w}, j \in Jobs : Holds(v, j)' <=> Holds(v, j)
BY DEF Holds

(* It had no claim and takes none, or it keeps the one it has.             *)
LEMMA WorkingGoesOn ==
  ASSUME NEW w \in Workers,
         \A v \in Workers \ {w} : wpc'[v] = wpc[v] /\ wjob'[v] = wjob[v],
         wpc'[w] \in Holding <=> wpc[w] \in Holding,
         wpc[w] \in Holding => wjob'[w] = wjob[w]
  PROVE  Working' = Working
<1>1. \A j \in Jobs : Holds(w, j)' <=> Holds(w, j)
  BY DEF Holds, Holding
<1>. QED  BY <1>1, OneMoves, WorkingSame

(* It lets the claim it has go.                                            *)
LEMMA WorkingDrops ==
  ASSUME TypeOK, LeaseInv, NEW w \in Workers, NEW j \in Jobs, wjob[w] = j,
         \A v \in Workers \ {w} : wpc'[v] = wpc[v] /\ wjob'[v] = wjob[v],
         wpc[w] \in Holding, wpc'[w] \notin Holding
  PROVE  Working[j] /\ Working' = [Working EXCEPT ![j] = FALSE]
<1>1. Holds(w, j) /\ \A k \in Jobs : ~Holds(w, k)' /\ (Holds(w, k) => k = j)
  BY DEF Holds, Holding
<1>2. \A v \in Workers : Holds(v, j) => v = w
  BY Held
<1>3. \A k \in Jobs : (\E v \in Workers : Holds(v, k))' <=> k # j /\ \E v \in Workers : Holds(v, k)
  BY <1>1, <1>2, OneMoves
<1>. QED  BY <1>1, <1>3 DEF Working

-----------------------------------------------------------------------------
(* One lemma per kind of step.                                             *)

LEMMA MapInit == Init => Lifecycle!Init
BY DEF Init, Lifecycle!Init, Working, Holds

(* A step that leaves what the owner sees, and every claim, alone.         *)
LEMMA MapQuiet ==
  ASSUME UNCHANGED <<status, deleted, claims>>, Working' = Working
  PROVE  [Lifecycle!Next]_(Lifecycle!vars)
BY DEF Lifecycle!vars

LEMMA MapApi ==
  ASSUME TypeOK, LeaseInv, NEW r \in Requests, UserCall(r) \/ ApiStep(r)
  PROVE  [Lifecycle!Next]_(Lifecycle!vars)
<1>1. UNCHANGED workers /\ Working' = Working
  <2>1. UNCHANGED workers
    BY DEF UserCall, ApiStep, CreateJob, CancelStart, RetryStart, DeleteStart, Transition,
           ApiEnqueue, CancelJob, RetryJob, SoftDeleteJob, DeleteObject, ApiEvent
  <2>. QED  BY <2>1, SameWorkers, WorkingSame
<1>2. ASSUME NEW j \in Jobs, CreateJob(r, j)  PROVE Lifecycle!Next
  BY <1>1, <1>2 DEF CreateJob, history, Lifecycle!Next, Lifecycle!JobStep, Lifecycle!Create,
                    Lifecycle!Moves
<1>3. ASSUME NEW j \in Jobs, CancelStart(r, j) \/ RetryStart(r, j) \/ DeleteStart(r, j)
      PROVE  [Lifecycle!Next]_(Lifecycle!vars)
  BY <1>1, <1>3, MapQuiet DEF CancelStart, RetryStart, DeleteStart, db, row, history
<1>4. ASSUME rpc[r] \notin {"ready", "done"}  PROVE rjob[r] \in Jobs
  BY <1>4 DEF TypeOK, ApiType
<1>5. CASE Transition(r)
  <2>. PICK j \in Jobs : j = rjob[r]
    BY <1>4, <1>5 DEF Transition
  <2>1. status[j] = "pending"
    BY <1>5 DEF Transition, LeaseInv, Creators, Creating
  <2>2. CASE deleted[j]
    BY <1>1, <1>5, <2>2, MapQuiet DEF Transition, history
  <2>3. CASE ~deleted[j]
    <3>1. Lifecycle!Publish(j)
      BY <1>1, <1>5, <2>1, <2>3 DEF Transition, history, Lifecycle!Publish, Lifecycle!Moves
    <3>. QED  BY <3>1 DEF Lifecycle!Next, Lifecycle!JobStep
  <2>. QED  BY <2>2, <2>3
<1>6. CASE CancelJob(r)
  <2>. PICK j \in Jobs : j = rjob[r]
    BY <1>4, <1>6 DEF CancelJob
  <2>1. CASE ~CancelWhere(j)
    BY <1>1, <1>6, <2>1, MapQuiet DEF CancelJob, history
  <2>2. CASE CancelWhere(j)
    <3>1. Lifecycle!Cancel(j)
      BY <1>1, <1>6, <2>2 DEF CancelJob, CancelWhere, history, Lifecycle!Cancel, Lifecycle!Moves
    <3>. QED  BY <3>1 DEF Lifecycle!Next, Lifecycle!JobStep
  <2>. QED  BY <2>1, <2>2
<1>7. CASE RetryJob(r)
  <2>. PICK j \in Jobs : j = rjob[r]
    BY <1>4, <1>7 DEF RetryJob
  <2>1. CASE ~RetryWhere(j)
    BY <1>1, <1>7, <2>1, MapQuiet DEF RetryJob
  <2>2. CASE RetryWhere(j)
    <3>1. Lifecycle!Retry(j)
      BY <1>1, <1>7, <2>2 DEF RetryJob, RetryWhere, Lifecycle!Retry, Lifecycle!Moves
    <3>. QED  BY <3>1 DEF Lifecycle!Next, Lifecycle!JobStep
  <2>. QED  BY <2>1, <2>2
<1>8. CASE SoftDeleteJob(r)
  <2>. PICK j \in Jobs : j = rjob[r]
    BY <1>4, <1>8 DEF SoftDeleteJob
  <2>1. CASE deleted[j]
    BY <1>1, <1>8, <2>1, MapQuiet DEF SoftDeleteJob, history
  <2>2. CASE ~deleted[j]
    <3>1. Lifecycle!Hide(j)
      BY <1>1, <1>8, <2>2 DEF SoftDeleteJob, history, Lifecycle!Hide
    <3>. QED  BY <3>1 DEF Lifecycle!Next, Lifecycle!JobStep
  <2>. QED  BY <2>1, <2>2
<1>9. CASE ApiEnqueue(r) \/ DeleteObject(r) \/ ApiEvent(r)
  BY <1>1, <1>9, MapQuiet DEF ApiEnqueue, DeleteObject, ApiEvent, db, row, history
<1>. QED
  BY <1>2, <1>3, <1>5, <1>6, <1>7, <1>8, <1>9 DEF UserCall, ApiStep

LEMMA MapClaim ==
  ASSUME TypeOK, LeaseInv, NEW w \in Workers, ClaimNext(w)
  PROVE  [Lifecycle!Next]_(Lifecycle!vars)
<1>1. /\ wpc \in [Workers -> WorkerPcs] /\ wpc[w] = "claim" /\ wjob[w] \in Jobs
      /\ UNCHANGED <<wjob, deleted>>
  BY DEF ClaimNext, TypeOK, WorkerType
<1>. PICK j \in Jobs : j = wjob[w]
  BY <1>1
<1>2. wpc[w] \notin Holding /\ \A v \in Workers \ {w} : wpc'[v] = wpc[v] /\ wjob'[v] = wjob[v]
  BY <1>1 DEF ClaimNext, Holding
<1>3. CASE ~ClaimWhere(j)
  <2>1. UNCHANGED <<status, claims>> /\ wpc'[w] = "ack"
    BY <1>1, <1>3 DEF ClaimNext
  <2>. QED  BY <1>1, <1>2, <2>1, WorkingGoesOn, MapQuiet DEF Holding
<1>4. CASE ClaimWhere(j)
  <2>1. /\ status[j] = "queued" /\ claims[j] < MaxAttempts /\ ~deleted[j]
        /\ claims \in [Jobs -> Nat]
    BY <1>4 DEF ClaimWhere, LeaseInv, Budget, BudgetOf, TypeOK, CountType
  <2>2. /\ status' = [status EXCEPT ![j] = "processing"] /\ wpc'[w] = "leased_event"
        /\ claims' = [claims EXCEPT ![j] = IF claims[j] > MaxAttempts THEN claims[j] ELSE claims[j] + 1]
    BY <1>1, <1>4 DEF ClaimNext
  <2>3. claims' = [claims EXCEPT ![j] = claims[j] + 1]
    <3>1. ~(claims[j] > MaxAttempts)
      BY <2>1, MaxAttemptsAssumption, SMT
    <3>. QED  BY <2>2, <3>1
  <2>4. Inactive(j)
    BY <2>1, NotHeld
  <2>5. \A k \in Jobs : (\E v \in Workers : Holds(v, k))' <=> k = j \/ \E v \in Workers : Holds(v, k)
    <3>1. \A k \in Jobs : ~Holds(w, k) /\ (Holds(w, k)' <=> k = j)
      BY <1>1, <1>2, <2>2 DEF Holds, Holding
    <3>. QED  BY <1>2, <3>1, OneMoves
  <2>6. Working' = [Working EXCEPT ![j] = TRUE]
    BY <2>5 DEF Working
  <2>7. Lifecycle!Claim(j)
    BY <1>1, <2>1, <2>2, <2>3, <2>4, <2>6, WorkingAt DEF Lifecycle!Claim, Lifecycle!Moves
  <2>. QED  BY <2>7 DEF Lifecycle!Next, Lifecycle!JobStep
<1>. QED  BY <1>3, <1>4

(* The attempt under way ends: in its turn, or over a cancel.              *)
LEMMA MapOutcome ==
  ASSUME TypeOK, LeaseInv, NEW w \in Workers, FailOrRetryJob(w) \/ CompleteJob(w)
  PROVE  LifeStep
<1>1. wpc[w] \in Holding /\ wjob[w] \in Jobs
  BY Held DEF FailOrRetryJob, CompleteJob, Holding
<1>. PICK j \in Jobs : j = wjob[w]
  BY <1>1
<1>2. /\ status[j] \in {"processing", "cancelled"}
      /\ wattempts[w] = attempts[j] /\ claims[j] = attempts[j] + 1 /\ claims[j] <= MaxAttempts
  BY <1>1, Held
<1>3. /\ wpc'[w] \notin Holding /\ UNCHANGED <<deleted, claims>>
      /\ \A v \in Workers \ {w} : wpc'[v] = wpc[v] /\ wjob'[v] = wjob[v]
  BY DEF FailOrRetryJob, CompleteJob, WorkerGoto, Holding, TypeOK, WorkerType, history
<1>4. Working[j] /\ Working' = [Working EXCEPT ![j] = FALSE]
  BY <1>1, <1>3, WorkingDrops
<1>5. \/ status' = [status EXCEPT ![j] = "succeeded"]
      \/ status' = [status EXCEPT ![j] = IF claims[j] = MaxAttempts THEN "failed" ELSE "queued"]
  <2>1. CASE CompleteJob(w)
    BY <2>1 DEF CompleteJob
  <2>2. CASE FailOrRetryJob(w)
    <3>1. Exhausted(wattempts[w]) <=> claims[j] = MaxAttempts
      BY <1>2, MaxAttemptsAssumption, SMT DEF Exhausted, TypeOK, RowType
    <3>. QED  BY <2>2, <3>1 DEF FailOrRetryJob
  <2>. QED  BY <2>1, <2>2
<1>6. CASE status[j] = "processing"
  <2>1. Lifecycle!Succeed(j) \/ Lifecycle!Fail(j)
    BY <1>3, <1>4, <1>5, <1>6 DEF Lifecycle!Succeed, Lifecycle!Fail, Lifecycle!Moves
  <2>. QED  BY <2>1 DEF LifeStep, Lifecycle!Next, Lifecycle!JobStep
<1>7. CASE status[j] = "cancelled"
  <2>1. CancelIgnored(j)
    BY <1>3, <1>4, <1>5, <1>7 DEF CancelIgnored
  <2>. QED  BY <2>1 DEF LifeStep
<1>. QED  BY <1>2, <1>6, <1>7

(* A worker moves without writing a status: it goes on, or drops its claim.*)
LEMMA MapWorkerMoves ==
  ASSUME TypeOK, LeaseInv, NEW w \in Workers, UNCHANGED <<status, deleted, claims>>,
         \A v \in Workers \ {w} : wpc'[v] = wpc[v] /\ wjob'[v] = wjob[v],
         wpc'[w] \in Holding => wpc[w] \in Holding /\ wjob'[w] = wjob[w]
  PROVE  [Lifecycle!Next]_(Lifecycle!vars)
<1>1. CASE wpc'[w] \in Holding \/ wpc[w] \notin Holding
  BY <1>1, WorkingGoesOn, MapQuiet
<1>2. CASE wpc'[w] \notin Holding /\ wpc[w] \in Holding
  <2>. PICK j \in Jobs : j = wjob[w]
    BY <1>2, Held
  <2>1. Working[j] /\ Working' = [Working EXCEPT ![j] = FALSE]
    BY <1>2, WorkingDrops
  <2>2. Lifecycle!Lose(j)
    BY <2>1 DEF Lifecycle!Lose
  <2>. QED  BY <2>2 DEF Lifecycle!Next, Lifecycle!JobStep
<1>. QED  BY <1>1, <1>2

LEMMA MapWorker ==
  ASSUME TypeOK, LeaseInv, NEW w \in Workers,
         WorkerStep(w) \/ RenewLease(w) \/ WorkerException(w) \/ WorkerCrash(w)
  PROVE  [LifeStep]_(Lifecycle!vars)
<1>. WorkerType
  BY DEF TypeOK
<1>1. CASE RenewLease(w)
  BY <1>1, SameWorkers, WorkingSame, MapQuiet DEF RenewLease, history, LifeStep
<1>2. CASE ReadGroup(w)
  <2>1. /\ UNCHANGED <<status, deleted, claims>> /\ wpc'[w] \notin Holding
        /\ \A v \in Workers \ {w} : wpc'[v] = wpc[v] /\ wjob'[v] = wjob[v]
    BY <1>2 DEF ReadGroup, db, row, history, WorkerType, Holding
  <2>. QED  BY <2>1, MapWorkerMoves DEF LifeStep
<1>3. CASE Ack(w) \/ WorkerCrash(w)
  <2>1. /\ UNCHANGED <<status, deleted, claims>> /\ wpc'[w] \notin Holding
        /\ \A v \in Workers \ {w} : wpc'[v] = wpc[v] /\ wjob'[v] = wjob[v]
    BY <1>3 DEF Ack, WorkerCrash, WorkerIdle, db, row, history, WorkerType, Holding
  <2>. QED  BY <2>1, MapWorkerMoves DEF LifeStep
<1>4. ASSUME NEW l, WorkerGoto(w, l), UNCHANGED <<status, deleted, claims>>,
             l \notin Holding \/ wpc[w] \in Holding
      PROVE  [Lifecycle!Next]_(Lifecycle!vars)
  <2>1. /\ wpc'[w] = l /\ wjob'[w] = wjob[w]
        /\ \A v \in Workers \ {w} : wpc'[v] = wpc[v] /\ wjob'[v] = wjob[v]
    BY <1>4 DEF WorkerGoto, WorkerType
  <2>. QED  BY <1>4, <2>1, MapWorkerMoves
<1>5. CASE Download(w) \/ Transcribe(w) \/ WorkerXadd(w) \/ WorkerException(w)
  <2>1. UNCHANGED <<status, deleted, claims>>
    BY <1>5 DEF Download, Transcribe, WorkerXadd, WorkerException, db, row, history
  <2>. QED
    BY <1>4, <1>5, <2>1 DEF Download, Transcribe, WorkerXadd, WorkerException, Holding, LifeStep
<1>6. CASE InsertTranscript(w) \/ InsertSegments(w)
  <2>1. UNCHANGED <<status, deleted, claims>>
    BY <1>6 DEF InsertTranscript, InsertSegments, row, history
  <2>. QED  BY <1>4, <1>6, <2>1 DEF InsertTranscript, InsertSegments, Holding, LifeStep
<1>7. CASE WorkerEvent(w)
  <2>1. UNCHANGED <<status, deleted, claims>>
    BY <1>7 DEF WorkerEvent, row, history
  <2>2. PICK e \in WorkerEvents : wpc[w] = e[1] /\ WorkerGoto(w, e[3])
    BY <1>7 DEF WorkerEvent
  <2>3. e[3] \notin Holding \/ e[1] \in Holding
    BY SMT DEF WorkerEvents, Holding
  <2>. QED  BY <1>4, <2>1, <2>2, <2>3 DEF LifeStep
<1>. QED
  BY <1>1, <1>2, <1>3, <1>5, <1>6, <1>7, MapClaim, MapOutcome DEF WorkerStep, LifeStep

(* The reaper ends a claim whose lease ran out, of a worker that was lost. *)
LEMMA MapReap ==
  ASSUME TypeOK, LeaseInv, NEW e \in expired, ReapJob(e)
  PROVE  [Lifecycle!Next]_(Lifecycle!vars)
<1>1. UNCHANGED <<deleted, claims>> /\ Working' = Working
  BY SameWorkers, WorkingSame DEF ReapJob, history
<1>2. e[1] \in Jobs /\ attempts[e[1]] \in Nat /\ claims[e[1]] \in Nat
  BY DEF TypeOK, ReaperType, RowType, CountType
<1>. PICK j \in Jobs : j = e[1]
  BY <1>2
<1>3. CASE status[j] # "processing"
  BY <1>1, <1>3, MapQuiet DEF ReapJob
<1>4. CASE status[j] = "processing"
  <2>1. Inactive(j) /\ e[2] = attempts[j]
    BY DEF LeaseInv, Batch
  <2>2. claims[j] = attempts[j] + 1 /\ claims[j] <= MaxAttempts
    BY <1>4 DEF LeaseInv, Budget, BudgetOf
  <2>3. Exhausted(e[2]) <=> claims[j] = MaxAttempts
    BY <1>2, <2>1, <2>2, MaxAttemptsAssumption, SMT DEF Exhausted
  <2>4. status' = [status EXCEPT ![j] = IF claims[j] = MaxAttempts THEN "failed" ELSE "queued"]
    BY <1>4, <2>3 DEF ReapJob
  <2>5. Working' = [Working EXCEPT ![j] = FALSE]
    BY <1>1, <2>1 DEF Working, Inactive
  <2>6. Lifecycle!Fail(j)
    BY <1>1, <1>4, <2>4, <2>5 DEF Lifecycle!Fail, Lifecycle!Moves
  <2>. QED  BY <2>6 DEF Lifecycle!Next, Lifecycle!JobStep
<1>. QED  BY <1>3, <1>4

LEMMA MapStep ==
  ASSUME TypeOK, LeaseInv, [Next]_vars
  PROVE  [LifeStep]_(Lifecycle!vars)
<1>1. ASSUME \/ \E j \in Jobs : LeaseExpires(j)
             \/ ListExpiredLeases \/ ReaperEvent \/ ReaperEnqueue \/ ReaperError \/ ApiCrash
             \/ \E r \in Requests : RequestError(r)
             \/ UNCHANGED vars
      PROVE  [Lifecycle!Next]_(Lifecycle!vars)
  <2>1. UNCHANGED <<status, deleted, claims>> /\ UNCHANGED workers
    BY <1>1 DEF LeaseExpires, ListExpiredLeases, ReaperEvent, ReaperEnqueue, ReaperError,
                ApiCrash, RequestError, vars, db, row, history
  <2>. QED  BY <2>1, SameWorkers, WorkingSame, MapQuiet
<1>. QED  BY <1>1, MapApi, MapWorker, MapReap DEF Next, ReaperStep, Failure, LifeStep

(* With renewals ahead of leases, the handlers, workers, reaper and their  *)
(* failures implement the life cycle a job's owner is promised, but for an *)
(* attempt under way that writes its outcome over a cancel, for any number *)
(* of jobs, workers, requests, attempts and failures.                      *)
THEOREM QueueImplementsLifecycle ==
  ASSUME LateRenewal = FALSE
  PROVE  Spec => ImplementsLifecycle
BY MapInit, MapStep, TypeCorrect, LeaseInvariant, PTL
DEF Spec, ImplementsLifecycle
=============================================================================
