------------------------- MODULE JobDeliveryProofs -------------------------
(***************************************************************************)
(* How jobs reach the workers: a queued job is on its way to one while     *)
(* nothing fails, and when renewals keep ahead of the leases no job is on  *)
(* its way twice.  Both are matters of book-keeping: the lemmas on         *)
(* balances say of every step how many deliveries of a job it adds or      *)
(* takes away.                                                             *)
(***************************************************************************)
EXTENDS JobLeaseProofs, FiniteSetTheorems

USE Zenon

One(b) == IF b THEN 1 ELSE 0

(* A set that gains or loses at most one element.                          *)
LEMMA OneMore ==
  ASSUME NEW S, NEW T, NEW x, IsFiniteSet(S), S \ {x} = T \ {x}
  PROVE  /\ IsFiniteSet(T) /\ Cardinality(S) \in Nat /\ Cardinality(T) \in Nat
         /\ Cardinality(T) + One(x \in S) = Cardinality(S) + One(x \in T)
<1>1. IsFiniteSet(T)
  <2>1. IsFiniteSet(S \cup {x})
    BY FS_AddElement
  <2>2. T \subseteq S \cup {x}
    OBVIOUS
  <2>. QED  BY <2>1, <2>2, FS_Subset
<1>2. Cardinality(S) \in Nat /\ Cardinality(T) \in Nat
  BY <1>1, FS_CardinalityType
<1>3. /\ Cardinality(S \ {x}) = IF x \in S THEN Cardinality(S) - 1 ELSE Cardinality(S)
      /\ Cardinality(T \ {x}) = IF x \in T THEN Cardinality(T) - 1 ELSE Cardinality(T)
  BY <1>1, FS_RemoveElement
<1>. QED  BY <1>1, <1>2, <1>3, SMT DEF One

LEMMA FiniteParts ==
  ASSUME TypeOK, NEW j \in Jobs
  PROVE  /\ IsFiniteSet(StreamEntries(j)) /\ IsFiniteSet(Announcers(j)) /\ IsFiniteSet(Deliverers(j))
         /\ Cardinality(StreamEntries(j)) \in Nat /\ Cardinality(Announcers(j)) \in Nat
         /\ Cardinality(Deliverers(j)) \in Nat
         /\ Deliveries(j) \in Nat
<1>1. IsFiniteSet(StreamEntries(j))
  <2>1. Len(stream) \in Nat
    BY SMT DEF TypeOK, QueueType
  <2>2. IsFiniteSet(1 .. Len(stream))
    BY <2>1, FS_Interval, SMT
  <2>. QED  BY <2>2, FS_Subset DEF StreamEntries
<1>2. IsFiniteSet(Announcers(j))
  BY ProcessesAssumption, FS_Subset DEF Announcers
<1>3. IsFiniteSet(Deliverers(j))
  BY ProcessesAssumption, FS_Subset DEF Deliverers
<1>4. /\ Cardinality(StreamEntries(j)) \in Nat /\ Cardinality(Announcers(j)) \in Nat
      /\ Cardinality(Deliverers(j)) \in Nat
  BY <1>1, <1>2, <1>3, FS_CardinalityType
<1>. QED  BY <1>1, <1>2, <1>3, <1>4, SMT DEF Deliveries

(* One XADD and one XREADGROUP in the stream.                              *)
LEMMA StreamGrows ==
  ASSUME TypeOK, NEW i \in Jobs, Enqueue(i), NEW j \in Jobs
  PROVE  Cardinality(StreamEntries(j))' = Cardinality(StreamEntries(j)) + One(i = j)
<1>. PICK n : n = Len(stream) + 1
  OBVIOUS
<1>1. /\ stream \in Seq(Jobs) /\ stream' = Append(stream, i)
      /\ Len(stream) \in Nat /\ Len(stream)' = n
  BY SMT DEF TypeOK, QueueType, Enqueue
<1>2. /\ StreamEntries(j) \ {n} = StreamEntries(j)' \ {n}
      /\ n \notin StreamEntries(j) /\ (n \in StreamEntries(j)' <=> i = j)
  BY <1>1, SMT DEF StreamEntries
<1>3. /\ Cardinality(StreamEntries(j)) \in Nat /\ Cardinality(StreamEntries(j)') \in Nat
      /\ Cardinality(StreamEntries(j)') + One(n \in StreamEntries(j))
           = Cardinality(StreamEntries(j)) + One(n \in StreamEntries(j)')
  <2>1. IsFiniteSet(StreamEntries(j))
    BY FiniteParts
  <2>2. StreamEntries(j) \ {n} = StreamEntries(j)' \ {n}
    BY <1>2
  <2>. QED  BY <2>1, <2>2, OneMore
<1>4. One(n \in StreamEntries(j)) = 0 /\ One(n \in StreamEntries(j)') = One(i = j)
  BY <1>2 DEF One
<1>5. One(i = j) \in Int
  BY SMT DEF One
<1>. QED  BY <1>3, <1>4, <1>5, SMT

LEMMA StreamShrinks ==
  ASSUME TypeOK, stream # <<>>, stream' = Tail(stream), NEW j \in Jobs
  PROVE  Cardinality(StreamEntries(j))' = Cardinality(StreamEntries(j)) + (0 - One(Head(stream) = j))
<1>. DEFINE S == StreamEntries(j)
            T == StreamEntries(j)'
            R == S \ {1}
            f == [m \in T |-> m + 1]
<1>1. /\ stream \in Seq(Jobs) /\ Len(stream) \in Nat /\ Len(stream) >= 1
      /\ Len(stream)' = Len(stream) - 1 /\ Head(stream) = stream[1]
      /\ \A m \in 1 .. Len(stream) - 1 : stream'[m] = stream[m + 1]
  BY SMT DEF TypeOK, QueueType
<1>2. \A m : m \in T <=> m \in 1 .. Len(stream) - 1 /\ stream[m + 1] = j
  BY <1>1, SMT DEF StreamEntries
<1>3. \A m : m \in R <=> m \in 2 .. Len(stream) /\ stream[m] = j
  BY <1>1, SMT DEF StreamEntries
<1>4. IsFiniteSet(S) /\ IsFiniteSet(T)
  <2>1. TypeOK => IsFiniteSet(S)
    BY FiniteParts
  <2>2. IsFiniteSet(1 .. Len(stream) - 1)
    BY <1>1, FS_Interval, SMT
  <2>3. T \subseteq 1 .. Len(stream) - 1
    BY <1>2
  <2>. QED  BY <2>1, <2>2, <2>3, FS_Subset
<1>5. ExistsBijection(T, R)
  <2>1. f \in [T -> R]
    BY <1>1, <1>2, <1>3, SMT
  <2>2. \A a, b \in T : f[a] = f[b] => a = b
    BY <1>1, <1>2, SMT
  <2>3. \A b \in R : \E a \in T : f[a] = b
    <3>. SUFFICES ASSUME NEW b \in R  PROVE b - 1 \in T /\ f[b - 1] = b
      OBVIOUS
    <3>. QED  BY <1>1, <1>2, <1>3, SMT
  <2>. HIDE DEF f, T, R
  <2>. QED  BY <2>1, <2>2, <2>3 DEF ExistsBijection, Bijection, Injection, Surjection, IsInjective
<1>6. Cardinality(R) = Cardinality(T)
  BY <1>4, <1>5, FS_Bijection
<1>7. /\ Cardinality(S) \in Nat /\ Cardinality(R) \in Nat
      /\ Cardinality(R) = IF 1 \in S THEN Cardinality(S) - 1 ELSE Cardinality(S)
  BY <1>4, FS_RemoveElement, FS_CardinalityType
<1>8. 1 \in S <=> Head(stream) = j
  BY <1>1, SMT DEF StreamEntries
<1>. HIDE DEF S, T, R
<1>9. Cardinality(T) = Cardinality(S) + (0 - One(Head(stream) = j))
  BY <1>6, <1>7, <1>8, SMT DEF One
<1>. QED  BY <1>9 DEF S, T

(* The balance of a step of one process: how the deliveries of a job       *)
(* change with the entries of the stream and with what that process still  *)
(* has to announce or to claim.                                            *)
LEMMA ApiBalance ==
  ASSUME TypeOK, NEW r \in Requests, NEW j \in Jobs, NEW c \in Int,
         \A s \in Requests \ {r} : rpc'[s] = rpc[s] /\ rjob'[s] = rjob[s],
         UNCHANGED <<workers, reaper>>,
         Cardinality(StreamEntries(j))' = Cardinality(StreamEntries(j)) + c
  PROVE  /\ Deliveries(j) \in Nat /\ Deliveries(j)' \in Int
         /\ Deliveries(j)' + One(r \in Announcers(j)) = Deliveries(j) + c + One(r \in Announcers(j)')
<1>1. Announcers(j) \ {r} = Announcers(j)' \ {r}
  BY DEF Announcers
<1>2. IsFiniteSet(Announcers(j))
  BY FiniteParts
<1>3. /\ Cardinality(Announcers(j)) \in Nat /\ Cardinality(Announcers(j)') \in Nat
      /\ Cardinality(Announcers(j)') + One(r \in Announcers(j))
           = Cardinality(Announcers(j)) + One(r \in Announcers(j)')
  BY <1>1, <1>2, OneMore
<1>4. Deliverers(j)' = Deliverers(j) /\ (ReaperAnnounces(j)' <=> ReaperAnnounces(j))
  BY DEF Deliverers, ReaperAnnounces, workers, reaper
<1>5. Cardinality(StreamEntries(j)) \in Nat /\ Cardinality(Deliverers(j)) \in Nat
  BY FiniteParts
<1>. QED  BY <1>3, <1>4, <1>5, SMT DEF Deliveries, One

LEMMA WorkerBalance ==
  ASSUME TypeOK, NEW w \in Workers, NEW j \in Jobs, NEW c \in Int,
         \A v \in Workers \ {w} : wpc'[v] = wpc[v] /\ wjob'[v] = wjob[v],
         UNCHANGED <<api, reaper>>,
         Cardinality(StreamEntries(j))' = Cardinality(StreamEntries(j)) + c
  PROVE  /\ Deliveries(j) \in Nat /\ Deliveries(j)' \in Int
         /\ Deliveries(j)' + One(w \in Deliverers(j)) = Deliveries(j) + c + One(w \in Deliverers(j)')
<1>1. Deliverers(j) \ {w} = Deliverers(j)' \ {w}
  BY DEF Deliverers
<1>2. IsFiniteSet(Deliverers(j))
  BY FiniteParts
<1>3. /\ Cardinality(Deliverers(j)) \in Nat /\ Cardinality(Deliverers(j)') \in Nat
      /\ Cardinality(Deliverers(j)') + One(w \in Deliverers(j))
           = Cardinality(Deliverers(j)) + One(w \in Deliverers(j)')
  BY <1>1, <1>2, OneMore
<1>4. Announcers(j)' = Announcers(j) /\ (ReaperAnnounces(j)' <=> ReaperAnnounces(j))
  BY DEF Announcers, ReaperAnnounces, api, reaper
<1>5. Cardinality(StreamEntries(j)) \in Nat /\ Cardinality(Announcers(j)) \in Nat
  BY FiniteParts
<1>. QED  BY <1>3, <1>4, <1>5, SMT DEF Deliveries, One

LEMMA ReaperBalance ==
  ASSUME TypeOK, NEW j \in Jobs, NEW c \in Int, UNCHANGED <<api, workers>>,
         Cardinality(StreamEntries(j))' = Cardinality(StreamEntries(j)) + c
  PROVE  /\ Deliveries(j) \in Nat /\ Deliveries(j)' \in Int
         /\ Deliveries(j)' + One(ReaperAnnounces(j)) = Deliveries(j) + c + One(ReaperAnnounces(j)')
<1>1. Announcers(j)' = Announcers(j) /\ Deliverers(j)' = Deliverers(j)
  BY DEF Announcers, Deliverers, api, workers
<1>2. /\ Cardinality(StreamEntries(j)) \in Nat /\ Cardinality(Announcers(j)) \in Nat
      /\ Cardinality(Deliverers(j)) \in Nat
  BY FiniteParts
<1>. QED  BY <1>1, <1>2, SMT DEF Deliveries, One

LEMMA Zero == 0 \in Int
BY SMT

LEMMA StreamStays ==
  ASSUME TypeOK, NEW j \in Jobs, UNCHANGED stream
  PROVE  Cardinality(StreamEntries(j))' = Cardinality(StreamEntries(j)) + 0
<1>1. StreamEntries(j)' = StreamEntries(j) /\ Cardinality(StreamEntries(j)) \in Nat
  BY FiniteParts DEF StreamEntries
<1>. QED  BY <1>1, SMT

(* The steps that make job j queued.                                       *)
Queues(j) ==
  \/ \E r \in Requests : rjob[r] = j /\ Transition(r) /\ ~deleted[j]
  \/ \E r \in Requests : rjob[r] = j /\ RetryJob(r) /\ RetryWhere(j)
  \/ \E w \in Workers : wjob[w] = j /\ FailOrRetryJob(w) /\ ~Exhausted(wattempts[w])
  \/ \E e \in expired : e[1] = j /\ ReapJob(e) /\ status[j] = "processing" /\ ~Exhausted(e[2])

LEMMA QueuesBalance ==
  ASSUME TypeOK, NEW j \in Jobs, Queues(j)
  PROVE  Deliveries(j)' = Deliveries(j) + 1
<1>. ApiType /\ WorkerType /\ ReaperType /\ Deliveries(j) \in Nat
  BY FiniteParts DEF TypeOK
<1>1. ASSUME NEW r \in Requests, rjob[r] = j,
             (Transition(r) /\ ~deleted[j]) \/ (RetryJob(r) /\ RetryWhere(j))
      PROVE  Deliveries(j)' = Deliveries(j) + 1
  <2>1. /\ UNCHANGED <<stream, workers, reaper>>
        /\ rpc[r] \in {"transition", "retry"} /\ rpc'[r] \in {"queued_event", "retrying_event"}
        /\ rjob'[r] = j /\ \A s \in Requests \ {r} : rpc'[s] = rpc[s] /\ rjob'[s] = rjob[s]
    BY <1>1 DEF Transition, RetryJob, ApiGoto, ApiType, queue
  <2>2. r \notin Announcers(j) /\ r \in Announcers(j)'
    BY <2>1 DEF Announcers
  <2>3. /\ Deliveries(j) \in Nat /\ Deliveries(j)' \in Int
        /\ Deliveries(j)' + One(r \in Announcers(j)) = Deliveries(j) + 0 + One(r \in Announcers(j)')
    BY <2>1, StreamStays, ApiBalance, Zero
  <2>. QED  BY <2>2, <2>3, SMT DEF One
<1>2. ASSUME NEW w \in Workers, wjob[w] = j, FailOrRetryJob(w), ~Exhausted(wattempts[w])
      PROVE  Deliveries(j)' = Deliveries(j) + 1
  <2>1. /\ UNCHANGED <<stream, api, reaper>> /\ wpc[w] = "fail" /\ wpc'[w] = "retrying_event"
        /\ wjob'[w] = j /\ \A v \in Workers \ {w} : wpc'[v] = wpc[v] /\ wjob'[v] = wjob[v]
    BY <1>2 DEF FailOrRetryJob, WorkerGoto, WorkerType, queue
  <2>2. w \notin Deliverers(j) /\ w \in Deliverers(j)'
    BY <2>1 DEF Deliverers
  <2>3. /\ Deliveries(j) \in Nat /\ Deliveries(j)' \in Int
        /\ Deliveries(j)' + One(w \in Deliverers(j)) = Deliveries(j) + 0 + One(w \in Deliverers(j)')
    BY <2>1, StreamStays, WorkerBalance, Zero
  <2>. QED  BY <2>2, <2>3, SMT DEF One
<1>3. ASSUME NEW e \in expired, e[1] = j, ReapJob(e), status[j] = "processing", ~Exhausted(e[2])
      PROVE  Deliveries(j)' = Deliveries(j) + 1
  <2>1. /\ UNCHANGED <<stream, api, workers>>
        /\ reapPc = "idle" /\ reapPc' = "retrying_event" /\ reapJob' = j
    BY <1>3 DEF ReapJob, queue
  <2>2. ~ReaperAnnounces(j) /\ ReaperAnnounces(j)'
    BY <2>1 DEF ReaperAnnounces
  <2>3. /\ Deliveries(j) \in Nat /\ Deliveries(j)' \in Int
        /\ Deliveries(j)' + One(ReaperAnnounces(j)) = Deliveries(j) + 0 + One(ReaperAnnounces(j)')
    BY <2>1, StreamStays, ReaperBalance, Zero
  <2>. QED  BY <2>2, <2>3, SMT DEF One
<1>. QED  BY <1>1, <1>2, <1>3 DEF Queues

LEMMA ClaimsBalance ==
  ASSUME TypeOK, NEW j \in Jobs, Claims(j)
  PROVE  Deliveries(j)' \in Nat /\ Deliveries(j)' + 1 = Deliveries(j)
<1>. PICK w \in Workers : wjob[w] = j /\ ClaimNext(w)
  BY DEF Claims
<1>1. WorkerType /\ Deliveries(j) \in Nat
  BY FiniteParts DEF TypeOK
<1>2. /\ UNCHANGED <<stream, api, reaper>> /\ wpc[w] = "claim" /\ wpc'[w] \in {"leased_event", "ack"}
      /\ \A v \in Workers \ {w} : wpc'[v] = wpc[v] /\ wjob'[v] = wjob[v]
  BY <1>1 DEF ClaimNext, WorkerType, queue
<1>3. w \in Deliverers(j) /\ w \notin Deliverers(j)'
  BY <1>2 DEF Deliverers
<1>4. /\ Deliveries(j) \in Nat /\ Deliveries(j)' \in Int
      /\ Deliveries(j)' + One(w \in Deliverers(j)) = Deliveries(j) + 0 + One(w \in Deliverers(j)')
  BY <1>2, StreamStays, WorkerBalance, Zero
<1>5. Cardinality(Deliverers(j)) # 0
  BY <1>3, FiniteParts, FS_EmptySet
<1>6. Deliveries(j) >= 1
  <2>1. /\ Cardinality(StreamEntries(j)) \in Nat /\ Cardinality(Announcers(j)) \in Nat
        /\ Cardinality(Deliverers(j)) \in Nat
    BY FiniteParts
  <2>. QED  BY <1>5, <2>1, SMT DEF Deliveries
<1>. QED  BY <1>3, <1>4, <1>6, SMT DEF One

(* No other step but a failure changes the deliveries of a job: an entry   *)
(* that is added ends an announcement, one that is read goes to a worker   *)
(* about to claim it.                                                      *)
LEMMA ApiKeeps ==
  ASSUME TypeOK, NEW r \in Requests, UserCall(r) \/ ApiStep(r), NEW j \in Jobs, ~Queues(j)
  PROVE  Deliveries(j)' = Deliveries(j)
<1>. ApiType
  BY DEF TypeOK
<1>1. CASE ApiEnqueue(r)
  <2>1. /\ UNCHANGED <<workers, reaper>> /\ Enqueue(rjob[r]) /\ rjob[r] \in Jobs
        /\ rpc[r] \in {"enqueue", "retry_enqueue"} /\ rpc'[r] \in {"done", "retry_queued_event"}
        /\ \A s \in Requests \ {r} : rpc'[s] = rpc[s] /\ rjob'[s] = rjob[s]
    BY <1>1 DEF ApiEnqueue, ApiGoto, ApiType
  <2>2. (r \in Announcers(j) <=> rjob[r] = j) /\ r \notin Announcers(j)'
    BY <2>1 DEF Announcers
  <2>3. One(rjob[r] = j) \in Int
    BY SMT DEF One
  <2>4. Cardinality(StreamEntries(j))' = Cardinality(StreamEntries(j)) + One(rjob[r] = j)
    <3>. PICK i \in Jobs : i = rjob[r]
      BY <2>1
    <3>1. Enqueue(i)
      BY <2>1
    <3>2. Cardinality(StreamEntries(j))' = Cardinality(StreamEntries(j)) + One(i = j)
      BY <3>1, StreamGrows
    <3>. QED  BY <3>2
  <2>5. /\ Deliveries(j) \in Nat /\ Deliveries(j)' \in Int
        /\ Deliveries(j)' + One(r \in Announcers(j))
             = Deliveries(j) + One(rjob[r] = j) + One(r \in Announcers(j)')
    BY <2>1, <2>3, <2>4, ApiBalance
  <2>. QED  BY <2>2, <2>5, SMT DEF One
<1>2. CASE ~ApiEnqueue(r)
  <2>1. UNCHANGED <<stream, workers, reaper>>
    BY <1>2
    DEF UserCall, CreateJob, CancelStart, RetryStart, DeleteStart, ApiStep, Transition, CancelJob,
        RetryJob, SoftDeleteJob, DeleteObject, ApiEvent, queue
  <2>2. /\ \A s \in Requests \ {r} : rpc'[s] = rpc[s] /\ rjob'[s] = rjob[s]
        /\ r \in Announcers(j)' <=> r \in Announcers(j)
    <3>1. CASE UserCall(r)
      <4>1. PICK i \in Jobs, l \in {"created_event", "cancel", "retry", "delete"} : ApiStart(r, i, l)
        BY <3>1 DEF UserCall, CreateJob, CancelStart, RetryStart, DeleteStart
      <4>. QED  BY <4>1 DEF ApiStart, ApiType, Announcers
    <3>2. CASE ApiEvent(r)
      <4>1. PICK e \in ApiEvents : rpc[r] = e[1] /\ ApiGoto(r, e[3])
        BY <3>2 DEF ApiEvent
      <4>2. /\ e[3] \in {"queued_event", "enqueue", "retrying_event", "retry_enqueue"} <=>
                 e[1] \in {"queued_event", "enqueue", "retrying_event", "retry_enqueue"}
            /\ e[3] = "done" => e[1] \notin {"queued_event", "enqueue", "retrying_event", "retry_enqueue"}
        BY SMT DEF ApiEvents
      <4>. QED  BY <4>1, <4>2 DEF ApiGoto, ApiType, Announcers
    <3>3. CASE SoftDeleteJob(r) \/ DeleteObject(r) \/ CancelJob(r)
      <4>1. /\ rpc[r] \in {"delete", "delete_object", "cancel"}
            /\ \E l \in {"done", "delete_object", "cancelled_event"} : ApiGoto(r, l)
        BY <3>3 DEF SoftDeleteJob, DeleteObject, CancelJob
      <4>. QED  BY <4>1 DEF ApiGoto, ApiType, Announcers
    <3>4. CASE Transition(r) \/ RetryJob(r)
      <4>1. CASE rjob[r] = j
        <5>1. rpc[r] \in {"transition", "retry"} /\ ApiGoto(r, "done")
          BY <3>4, <4>1 DEF Transition, RetryJob, Queues
        <5>. QED  BY <5>1 DEF ApiGoto, ApiType, Announcers
      <4>2. CASE rjob[r] # j
        <5>1. /\ \E l \in {"done", "queued_event", "retrying_event"} : ApiGoto(r, l)
              /\ rpc[r] \in {"transition", "retry"}
          BY <3>4 DEF Transition, RetryJob
        <5>. QED  BY <4>2, <5>1, NoneAssumption DEF ApiGoto, ApiType, Announcers
      <4>. QED  BY <4>1, <4>2
    <3>. QED  BY <1>2, <3>1, <3>2, <3>3, <3>4 DEF ApiStep
  <2>3. /\ Deliveries(j) \in Nat /\ Deliveries(j)' \in Int
        /\ Deliveries(j)' + One(r \in Announcers(j)) = Deliveries(j) + 0 + One(r \in Announcers(j)')
    BY <2>1, <2>2, StreamStays, ApiBalance, Zero
  <2>. QED  BY <2>2, <2>3, SMT DEF One
<1>. QED  BY <1>1, <1>2

LEMMA WorkerKeeps ==
  ASSUME TypeOK, NEW w \in Workers, WorkerStep(w), NEW j \in Jobs, ~Queues(j), ~Claims(j)
  PROVE  Deliveries(j)' = Deliveries(j)
<1>. WorkerType /\ stream \in Seq(Jobs)
  BY DEF TypeOK, QueueType
<1>. DEFINE Delivering == {"claim", "retrying_event", "queued_event", "xadd"}
<1>1. CASE ReadGroup(w)
  <2>1. /\ UNCHANGED <<api, reaper>> /\ stream # <<>> /\ stream' = Tail(stream) /\ wpc[w] = "idle"
        /\ wpc' = [wpc EXCEPT ![w] = "claim"] /\ wjob' = [wjob EXCEPT ![w] = Head(stream)]
    BY <1>1 DEF ReadGroup
  <2>2. \A v \in Workers \ {w} : wpc'[v] = wpc[v] /\ wjob'[v] = wjob[v]
    BY <2>1 DEF WorkerType
  <2>3. w \notin Deliverers(j) /\ (w \in Deliverers(j)' <=> Head(stream) = j)
    BY <2>1 DEF Deliverers, WorkerType
  <2>4. (0 - One(Head(stream) = j)) \in Int
    BY SMT DEF One
  <2>5. Cardinality(StreamEntries(j))' = Cardinality(StreamEntries(j)) + (0 - One(Head(stream) = j))
    BY <2>1, StreamShrinks
  <2>6. /\ Deliveries(j) \in Nat /\ Deliveries(j)' \in Int
        /\ Deliveries(j)' + One(w \in Deliverers(j))
             = Deliveries(j) + (0 - One(Head(stream) = j)) + One(w \in Deliverers(j)')
    BY <2>1, <2>2, <2>4, <2>5, WorkerBalance
  <2>. QED  BY <2>3, <2>6, SMT DEF One
<1>2. CASE WorkerXadd(w)
  <2>1. /\ UNCHANGED <<api, reaper, wjob>> /\ Enqueue(wjob[w]) /\ wjob[w] \in Jobs
        /\ wpc[w] = "xadd" /\ wpc'[w] = "ack"
        /\ \A v \in Workers \ {w} : wpc'[v] = wpc[v] /\ wjob'[v] = wjob[v]
    BY <1>2 DEF WorkerXadd, WorkerGoto, WorkerType
  <2>2. (w \in Deliverers(j) <=> wjob[w] = j) /\ w \notin Deliverers(j)'
    BY <2>1 DEF Deliverers
  <2>3. One(wjob[w] = j) \in Int
    BY SMT DEF One
  <2>4. Cardinality(StreamEntries(j))' = Cardinality(StreamEntries(j)) + One(wjob[w] = j)
    <3>. PICK i \in Jobs : i = wjob[w]
      BY <2>1
    <3>1. Enqueue(i)
      BY <2>1
    <3>2. Cardinality(StreamEntries(j))' = Cardinality(StreamEntries(j)) + One(i = j)
      BY <3>1, StreamGrows
    <3>. QED  BY <3>2
  <2>5. /\ Deliveries(j) \in Nat /\ Deliveries(j)' \in Int
        /\ Deliveries(j)' + One(w \in Deliverers(j))
             = Deliveries(j) + One(wjob[w] = j) + One(w \in Deliverers(j)')
    BY <2>1, <2>3, <2>4, WorkerBalance
  <2>. QED  BY <2>2, <2>5, SMT DEF One
<1>3. CASE ~ReadGroup(w) /\ ~WorkerXadd(w)
  <2>1. UNCHANGED <<stream, api, reaper>>
    BY <1>3
    DEF WorkerStep, ClaimNext, Download, Transcribe, FailOrRetryJob, InsertTranscript,
        InsertSegments, CompleteJob, WorkerEvent, Ack, queue
  <2>2. /\ \A v \in Workers \ {w} : wpc'[v] = wpc[v] /\ wjob'[v] = wjob[v]
        /\ w \in Deliverers(j)' <=> w \in Deliverers(j)
    <3>1. CASE WorkerEvent(w)
      <4>1. PICK e \in WorkerEvents : wpc[w] = e[1] /\ WorkerGoto(w, e[3])
        BY <3>1 DEF WorkerEvent
      <4>2. e[3] \in Delivering <=> e[1] \in Delivering
        BY SMT DEF WorkerEvents
      <4>. QED  BY <4>1, <4>2 DEF WorkerGoto, WorkerType, Deliverers
    <3>2. CASE Ack(w)
      BY <3>2 DEF Ack, WorkerIdle, WorkerType, Deliverers
    <3>3. CASE ClaimNext(w)
      <4>1. wjob[w] # j /\ UNCHANGED wjob /\ \A v \in Workers \ {w} : wpc'[v] = wpc[v]
        BY <3>3 DEF ClaimNext, Claims, WorkerType
      <4>. QED  BY <4>1 DEF Deliverers
    <3>4. CASE FailOrRetryJob(w)
      <4>1. CASE Exhausted(wattempts[w])
        BY <3>4, <4>1 DEF FailOrRetryJob, WorkerGoto, WorkerType, Deliverers
      <4>2. CASE ~Exhausted(wattempts[w])
        <5>1. wjob[w] # j /\ UNCHANGED wjob /\ \A v \in Workers \ {w} : wpc'[v] = wpc[v]
          BY <3>4, <4>2 DEF FailOrRetryJob, Queues, WorkerGoto, WorkerType
        <5>. QED  BY <5>1 DEF Deliverers
      <4>. QED  BY <4>1, <4>2
    <3>5. CASE Download(w) \/ Transcribe(w) \/ InsertTranscript(w) \/ InsertSegments(w) \/ CompleteJob(w)
      <4>1. /\ wpc[w] \in {"download", "transcribe", "insert_transcript", "insert_segments", "complete"}
            /\ \E l \in {"transcribe", "fail", "insert_transcript", "ack", "insert_segments",
                         "complete", "succeeded_event"} : WorkerGoto(w, l)
        BY <3>5 DEF Download, Transcribe, InsertTranscript, InsertSegments, CompleteJob
      <4>. QED  BY <4>1 DEF WorkerGoto, WorkerType, Deliverers
    <3>. QED  BY <1>3, <3>1, <3>2, <3>3, <3>4, <3>5 DEF WorkerStep
  <2>3. /\ Deliveries(j) \in Nat /\ Deliveries(j)' \in Int
        /\ Deliveries(j)' + One(w \in Deliverers(j)) = Deliveries(j) + 0 + One(w \in Deliverers(j)')
    BY <2>1, <2>2, StreamStays, WorkerBalance, Zero
  <2>. QED  BY <2>2, <2>3, SMT DEF One
<1>. QED  BY <1>1, <1>2, <1>3

LEMMA ReaperKeeps ==
  ASSUME TypeOK, ReaperStep, NEW j \in Jobs, ~Queues(j)
  PROVE  Deliveries(j)' = Deliveries(j)
<1>. ReaperType
  BY DEF TypeOK
<1>. DEFINE Announcing == {"retrying_event", "queued_event", "enqueue"}
<1>1. CASE ReaperEnqueue
  <2>1. /\ UNCHANGED <<api, workers>> /\ Enqueue(reapJob) /\ reapJob \in Jobs
        /\ reapPc = "enqueue" /\ reapPc' = "idle"
    BY <1>1 DEF ReaperEnqueue, ReaperGoto, ReaperType
  <2>2. (ReaperAnnounces(j) <=> reapJob = j) /\ ~ReaperAnnounces(j)'
    BY <2>1 DEF ReaperAnnounces
  <2>3. One(reapJob = j) \in Int
    BY SMT DEF One
  <2>4. Cardinality(StreamEntries(j))' = Cardinality(StreamEntries(j)) + One(reapJob = j)
    BY <2>1, StreamGrows
  <2>5. /\ Deliveries(j) \in Nat /\ Deliveries(j)' \in Int
        /\ Deliveries(j)' + One(ReaperAnnounces(j))
             = Deliveries(j) + One(reapJob = j) + One(ReaperAnnounces(j)')
    BY <2>1, <2>3, <2>4, ReaperBalance
  <2>. QED  BY <2>2, <2>5, SMT DEF One
<1>2. CASE ~ReaperEnqueue
  <2>1. UNCHANGED <<stream, api, workers>>
    BY <1>2 DEF ReaperStep, ListExpiredLeases, ReaperEvent, ReapJob, queue
  <2>2. ReaperAnnounces(j)' <=> ReaperAnnounces(j)
    <3>1. CASE ListExpiredLeases
      BY <3>1 DEF ListExpiredLeases, ReaperAnnounces
    <3>2. CASE ReaperEvent
      <4>1. PICK e \in ReaperEvents : reapPc = e[1] /\ ReaperGoto(e[3])
        BY <3>2 DEF ReaperEvent
      <4>2. (e[3] \in Announcing <=> e[1] \in Announcing) /\ (e[3] = "idle" => e[1] \notin Announcing)
        BY SMT DEF ReaperEvents
      <4>. QED  BY <4>1, <4>2 DEF ReaperGoto, ReaperAnnounces
    <3>3. ASSUME NEW e \in expired, ReapJob(e)  PROVE ReaperAnnounces(j)' <=> ReaperAnnounces(j)
      <4>1. ~ReaperAnnounces(j)
        BY <3>3 DEF ReapJob, ReaperAnnounces
      <4>2. ~ReaperAnnounces(j)'
        BY <3>3, <4>1 DEF ReapJob, ReaperAnnounces, Queues
      <4>. QED  BY <4>1, <4>2
    <3>. QED  BY <1>2, <3>1, <3>2, <3>3 DEF ReaperStep
  <2>3. /\ Deliveries(j) \in Nat /\ Deliveries(j)' \in Int
        /\ Deliveries(j)' + One(ReaperAnnounces(j)) = Deliveries(j) + 0 + One(ReaperAnnounces(j)')
    BY <2>1, StreamStays, ReaperBalance, Zero
  <2>. QED  BY <2>2, <2>3, SMT DEF One
<1>. QED  BY <1>1, <1>2

LEMMA DeliveriesKept ==
  ASSUME TypeOK, [Next]_vars, ~Failure, NEW j \in Jobs, ~Queues(j), ~Claims(j)
  PROVE  Deliveries(j)' = Deliveries(j)
<1>1. CASE UNCHANGED <<stream, api, workers, reapPc, reapJob>>
  BY <1>1
  DEF Deliveries, StreamEntries, Announcers, Deliverers, ReaperAnnounces, api, workers
<1>2. CASE (\E w \in Workers : RenewLease(w)) \/ (\E i \in Jobs : LeaseExpires(i)) \/ UNCHANGED vars
  BY <1>1, <1>2 DEF RenewLease, LeaseExpires, vars, queue, reaper
<1>. QED  BY <1>2, ApiKeeps, WorkerKeeps, ReaperKeeps DEF Next

(* A failure only takes deliveries away.                                   *)
LEMMA DeliveriesDropped ==
  ASSUME TypeOK, Failure, NEW j \in Jobs
  PROVE  Deliveries(j)' \in Nat /\ Deliveries(j)' <= Deliveries(j)
<1>. ApiType /\ WorkerType /\ ReaperType
  BY DEF TypeOK
<1>1. /\ UNCHANGED stream
      /\ Announcers(j)' \subseteq Announcers(j) /\ Deliverers(j)' \subseteq Deliverers(j)
      /\ ReaperAnnounces(j)' => ReaperAnnounces(j)
  <2>1. ASSUME NEW r \in Requests, RequestError(r)
        PROVE  UNCHANGED <<stream, workers, reaper>> /\ Announcers(j)' \subseteq Announcers(j)
    BY <2>1 DEF RequestError, ApiGoto, ApiType, Announcers, queue
  <2>2. ASSUME NEW w \in Workers, WorkerException(w) \/ WorkerCrash(w)
        PROVE  UNCHANGED <<stream, api, reaper>> /\ Deliverers(j)' \subseteq Deliverers(j)
    BY <2>2
    DEF WorkerException, WorkerCrash, WorkerGoto, WorkerIdle, WorkerType, Deliverers, queue
  <2>3. CASE ReaperError
    BY <2>3
    DEF ReaperError, ReaperGoto, ReaperAnnounces, Announcers, Deliverers, queue, api, workers
  <2>4. CASE ApiCrash
    <3>1. /\ UNCHANGED <<stream, workers>> /\ reapPc' = "idle"
          /\ \A r \in Requests : rpc'[r] \in {"ready", "done"}
      BY <2>4 DEF ApiCrash, queue
    <3>. QED  BY <3>1 DEF ReaperAnnounces, Announcers, Deliverers, workers
  <2>. QED
    BY <2>1, <2>2, <2>3, <2>4
    DEF Failure, Announcers, Deliverers, ReaperAnnounces, api, workers, reaper
<1>2. /\ StreamEntries(j)' = StreamEntries(j)
      /\ Cardinality(StreamEntries(j)) \in Nat /\ Cardinality(Announcers(j)) \in Nat
      /\ Cardinality(Deliverers(j)) \in Nat
  BY <1>1, FiniteParts DEF StreamEntries
<1>3. /\ Cardinality(Announcers(j)') \in Nat /\ Cardinality(Announcers(j)') <= Cardinality(Announcers(j))
      /\ Cardinality(Deliverers(j)') \in Nat /\ Cardinality(Deliverers(j)') <= Cardinality(Deliverers(j))
  BY <1>1, FiniteParts, FS_Subset, FS_CardinalityType
<1>. QED  BY <1>1, <1>2, <1>3, SMT DEF Deliveries

(* A job becomes queued in these steps only.                               *)
LEMMA BecomesQueued ==
  ASSUME TypeOK, [Next]_vars, NEW j \in Jobs, status'[j] = "queued", status[j] # "queued"
  PROVE  Queues(j)
<1>. RowType /\ ApiType /\ WorkerType /\ ReaperType
  BY DEF TypeOK
<1>1. ASSUME NEW r \in Requests, NEW i \in Jobs, CreateJob(r, i)  PROVE FALSE
  BY <1>1 DEF CreateJob, RowType
<1>2. ASSUME NEW r \in Requests, Transition(r) \/ CancelJob(r) \/ RetryJob(r)  PROVE Queues(j)
  <2>1. ~CancelJob(r)
    BY DEF CancelJob, RowType, ApiType
  <2>2. rjob[r] = j
    BY <1>2, <2>1 DEF Transition, RetryJob, RowType
  <2>. QED  BY <1>2, <2>1, <2>2 DEF Transition, RetryJob, Queues
<1>3. ASSUME NEW w \in Workers, ClaimNext(w) \/ FailOrRetryJob(w) \/ CompleteJob(w)  PROVE Queues(j)
  <2>1. ~ClaimNext(w) /\ ~CompleteJob(w)
    BY DEF ClaimNext, CompleteJob, RowType
  <2>2. wjob[w] = j /\ ~Exhausted(wattempts[w])
    BY <1>3, <2>1 DEF FailOrRetryJob, RowType
  <2>. QED  BY <1>3, <2>1, <2>2 DEF Queues
<1>4. ASSUME NEW e \in expired, ReapJob(e)  PROVE Queues(j)
  <2>1. e[1] = j /\ status[j] = "processing" /\ ~Exhausted(e[2])
    BY <1>4 DEF ReapJob, RowType
  <2>. QED  BY <1>4, <2>1 DEF Queues
<1>. QED  BY <1>1, <1>2, <1>3, <1>4, OnlyWritesChangeStatus DEF StatusWrite

(* While nothing fails no queued job is stranded: it has a stream entry, a *)
(* process that will add one, or a worker about to claim it, late renewals *)
(* and second deliveries included.                                         *)
THEOREM QueuedJobsAreDelivered == Spec => []QueuedIsDelivered
<1>1. Init => QueuedIsDelivered
  <2>. SUFFICES ASSUME Init  PROVE \A j \in Jobs : status[j] # "queued"
    BY DEF QueuedIsDelivered
  <2>. QED  BY DEF Init
<1>2. TypeOK /\ QueuedIsDelivered /\ [Next]_vars => QueuedIsDelivered'
  <2>. SUFFICES ASSUME TypeOK, QueuedIsDelivered, [Next]_vars, faults' = 0,
                       NEW j \in Jobs, status'[j] = "queued", ~deleted'[j]
                PROVE  Deliveries(j)' > 0
    BY DEF QueuedIsDelivered
  <2>1. faults = 0 /\ ~Failure
    BY NoFailure
  <2>2. ~deleted[j] /\ Deliveries(j) \in Nat
    BY QueueIsMonotone, FiniteParts DEF Monotone
  <2>3. CASE Queues(j)
    <3>1. Deliveries(j)' = Deliveries(j) + 1
      BY <2>3, QueuesBalance
    <3>. QED  BY <2>2, <3>1, SMT
  <2>4. CASE ~Queues(j)
    <3>1. status[j] = "queued"
      BY <2>4, BecomesQueued
    <3>2. ASSUME Claims(j)  PROVE FALSE
      <4>. PICK w \in Workers : wjob[w] = j /\ ClaimNext(w)
        BY <3>2 DEF Claims
      <4>1. ClaimWhere(j)
        BY <2>2, <3>1 DEF ClaimWhere
      <4>2. status' = [status EXCEPT ![j] = "processing"] /\ status \in [Jobs -> Statuses]
        BY <4>1 DEF ClaimNext, TypeOK, RowType
      <4>. QED  BY <4>2
    <3>3. Deliveries(j)' = Deliveries(j) /\ Deliveries(j) > 0
      BY <2>1, <2>2, <2>4, <3>1, <3>2, DeliveriesKept DEF QueuedIsDelivered
    <3>. QED  BY <3>3
  <2>. QED  BY <2>3, <2>4
<1>. QED  BY <1>1, <1>2, TypeCorrect, PTL DEF Spec

-----------------------------------------------------------------------------
(* One delivery at a time.                                                 *)

(* A job that is not waiting for a worker: it is elsewhere in its life, or *)
(* a worker has it in its hands though it was cancelled.                   *)
NotWaiting(j) == status[j] \notin {"queued", "cancelled"} \/ ~Inactive(j)

(* OneDelivery alone is not inductive: a job is put back by processes that *)
(* do not look at the stream, so none may be under way by then.            *)
DeliveryInv == \A j \in Jobs : Deliveries(j) <= 1 /\ (NotWaiting(j) => Deliveries(j) = 0)

(* What makes a job queued finds it not waiting, and leaves it waiting.    *)
LEMMA QueuesOnce ==
  ASSUME TypeOK, LeaseInv, NEW j \in Jobs, Queues(j)
  PROVE  NotWaiting(j) /\ ~NotWaiting(j)'
<1>. RowType /\ ApiType /\ WorkerType
  BY DEF TypeOK
<1>1. ASSUME NEW r \in Requests, rjob[r] = j, Transition(r), ~deleted[j]
      PROVE  NotWaiting(j) /\ ~NotWaiting(j)'
  <2>1. status[j] = "pending" /\ UNCHANGED workers /\ status' = [status EXCEPT ![j] = "queued"]
    BY <1>1 DEF Transition, LeaseInv, Creators, Creating
  <2>. QED  BY <2>1, NotHeld, SameWorkers DEF NotWaiting, RowType
<1>2. ASSUME NEW r \in Requests, rjob[r] = j, RetryJob(r), RetryWhere(j)
      PROVE  NotWaiting(j) /\ ~NotWaiting(j)'
  <2>1. status[j] = "failed" /\ UNCHANGED workers /\ status' = [status EXCEPT ![j] = "queued"]
    BY <1>2 DEF RetryJob, RetryWhere
  <2>. QED  BY <2>1, NotHeld, SameWorkers DEF NotWaiting, RowType
<1>3. ASSUME NEW w \in Workers, wjob[w] = j, FailOrRetryJob(w), ~Exhausted(wattempts[w])
      PROVE  NotWaiting(j) /\ ~NotWaiting(j)'
  <2>1. /\ wpc[w] = "fail" /\ status' = [status EXCEPT ![j] = "queued"]
        /\ WorkerGoto(w, "retrying_event")
    BY <1>3 DEF FailOrRetryJob
  <2>2. Holds(w, j)
    BY <1>3, <2>1 DEF Holds
  <2>3. \A v \in Workers : Holds(v, j) => v = w
    <3>1. workerId[j] = w
      BY <1>3, <2>1, Held DEF Holding
    <3>2. \A v \in Workers : Holds(v, j) => workerId[j] = v
      BY Held DEF Holds, Holding
    <3>. QED  BY <3>1, <3>2
  <2>4. ~Holds(w, j)'
    BY <2>1 DEF Holds, WorkerGoto, WorkerType
  <2>5. Inactive(j)'
    BY <2>1, <2>3, <2>4, GotoHolds DEF Inactive, Holding
  <2>. QED  BY <2>1, <2>2, <2>5 DEF NotWaiting, Inactive, RowType
<1>4. ASSUME NEW e \in expired, e[1] = j, ReapJob(e), status[j] = "processing", ~Exhausted(e[2])
      PROVE  NotWaiting(j) /\ ~NotWaiting(j)'
  <2>1. Inactive(j) /\ UNCHANGED workers /\ status' = [status EXCEPT ![j] = "queued"]
    BY <1>4 DEF ReapJob, LeaseInv, Batch
  <2>. QED  BY <1>4, <2>1, SameWorkers DEF NotWaiting, RowType
<1>. QED  BY <1>1, <1>2, <1>3, <1>4 DEF Queues

(* A waiting job goes on waiting until it is claimed.                      *)
LEMMA WaitsForClaim ==
  ASSUME TypeOK, LeaseInv, [Next]_vars, NEW j \in Jobs, ~Claims(j), NotWaiting(j)'
  PROVE  NotWaiting(j)
<1>. SUFFICES ASSUME Inactive(j), status[j] \in {"queued", "cancelled"}
              PROVE  FALSE
  BY DEF NotWaiting
<1>. RowType /\ ApiType /\ WorkerType /\ ReaperType
  BY DEF TypeOK
<1>1. Inactive(j)'
  BY OnlyClaimsHold DEF Inactive
<1>2. status'[j] \notin {"queued", "cancelled"}
  BY <1>1 DEF NotWaiting
<1>3. StatusWrite
  BY <1>2, OnlyWritesChangeStatus
<1>4. ASSUME NEW r \in Requests, NEW i \in Jobs, CreateJob(r, i)  PROVE FALSE
  BY <1>2, <1>4 DEF CreateJob, RowType
<1>5. ASSUME NEW r \in Requests, Transition(r) \/ CancelJob(r) \/ RetryJob(r)  PROVE FALSE
  BY <1>2, <1>5 DEF Transition, CancelJob, RetryJob, RowType
<1>6. ASSUME NEW w \in Workers, ClaimNext(w)  PROVE FALSE
  BY <1>2, <1>6 DEF ClaimNext, Claims, RowType
<1>7. ASSUME NEW w \in Workers, FailOrRetryJob(w) \/ CompleteJob(w)  PROVE FALSE
  <2>1. wjob[w] # j
    BY <1>7 DEF FailOrRetryJob, CompleteJob, Inactive, Holds
  <2>. QED  BY <1>2, <1>7, <2>1 DEF FailOrRetryJob, CompleteJob, RowType
<1>8. ASSUME NEW e \in expired, ReapJob(e)  PROVE FALSE
  BY <1>2, <1>8 DEF ReapJob, RowType
<1>. QED  BY <1>3, <1>4, <1>5, <1>6, <1>7, <1>8 DEF StatusWrite

LEMMA DeliveryStep == TypeOK /\ LeaseInv /\ DeliveryInv /\ [Next]_vars => DeliveryInv'
<1>. SUFFICES ASSUME TypeOK, LeaseInv, DeliveryInv, [Next]_vars, NEW j \in Jobs
              PROVE  Deliveries(j)' <= 1 /\ (NotWaiting(j)' => Deliveries(j)' = 0)
  BY DEF DeliveryInv
<1>1. /\ Deliveries(j) \in Nat /\ Deliveries(j) <= 1
      /\ NotWaiting(j) => Deliveries(j) = 0
  BY FiniteParts DEF DeliveryInv
<1>2. CASE Queues(j)
  <2>1. NotWaiting(j) /\ ~NotWaiting(j)' /\ Deliveries(j)' = Deliveries(j) + 1
    BY <1>2, QueuesOnce, QueuesBalance
  <2>. QED  BY <1>1, <2>1, SMT
<1>3. CASE Claims(j)
  <2>1. Deliveries(j)' \in Nat /\ Deliveries(j)' + 1 = Deliveries(j)
    BY <1>3, ClaimsBalance
  <2>. QED  BY <1>1, <2>1, SMT
<1>4. CASE Failure /\ ~Claims(j)
  <2>1. Deliveries(j)' \in Nat /\ Deliveries(j)' <= Deliveries(j) /\ (NotWaiting(j)' => NotWaiting(j))
    BY <1>4, DeliveriesDropped, WaitsForClaim
  <2>. QED  BY <1>1, <2>1, SMT
<1>5. CASE ~Failure /\ ~Queues(j) /\ ~Claims(j)
  <2>1. Deliveries(j)' = Deliveries(j) /\ (NotWaiting(j)' => NotWaiting(j))
    BY <1>5, DeliveriesKept, WaitsForClaim
  <2>. QED  BY <1>1, <2>1
<1>. QED  BY <1>2, <1>3, <1>4, <1>5

(* A job never has two deliveries under way, for any number of handlers,   *)
(* workers, retries, failures and reaper passes: Create, Retry, the worker *)
(* and the reaper each put a job back only when nobody else is about to.   *)
THEOREM OneDeliveryAtATime ==
  ASSUME LateRenewal = FALSE
  PROVE  Spec => []OneDelivery
<1>1. Init => DeliveryInv
  <2>. SUFFICES ASSUME Init, NEW j \in Jobs  PROVE Deliveries(j) = 0
    BY SMT DEF DeliveryInv
  <2>1. /\ stream = <<>> /\ \A r \in Requests : rpc[r] = "ready"
        /\ \A w \in Workers : wpc[w] = "idle"
        /\ reapPc = "idle"
    BY DEF Init
  <2>2. Announcers(j) = {} /\ Deliverers(j) = {} /\ ~ReaperAnnounces(j)
    BY <2>1 DEF Announcers, Deliverers, ReaperAnnounces
  <2>3. StreamEntries(j) = {}
    BY <2>1, SMT DEF StreamEntries
  <2>. QED  BY <2>2, <2>3, FS_EmptySet, SMT DEF Deliveries
<1>2. DeliveryInv => OneDelivery
  BY DEF DeliveryInv, OneDelivery
<1>. QED  BY <1>1, <1>2, TypeCorrect, LeaseInvariant, DeliveryStep, PTL DEF Spec
=============================================================================
