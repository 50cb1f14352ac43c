---------------------------- MODULE ChannelProofs ----------------------------
(***************************************************************************)
(* The two channels of the system: the stream of jobs to the workers, and  *)
(* the hub's feed of events to the dashboards.                             *)
(***************************************************************************)
EXTENDS JobStream, Hub, SequenceTheorems, TLAPS

USE Zenon

-----------------------------------------------------------------------------
(* The stream of jobs, for any number of jobs, workers and failures.       *)

(* The part of a sequence after position n, when the sequence is extended  *)
(* and when n moves on.                                                    *)
LEMMA RestAppended ==
  ASSUME NEW S, NEW s \in Seq(S), NEW x \in S, NEW n \in 0..Len(s)
  PROVE  SubSeq(Append(s, x), n + 1, Len(Append(s, x))) = Append(SubSeq(s, n + 1, Len(s)), x)
<1>. DEFINE a == Append(s, x)
            r == SubSeq(s, n + 1, Len(s))
            ra == SubSeq(a, n + 1, Len(a))
<1>1. a \in Seq(S) /\ Len(a) = Len(s) + 1 /\ a[Len(s) + 1] = x /\ \A i \in 1..Len(s) : a[i] = s[i]
  BY SMT
<1>2. r \in Seq(S) /\ Len(r) = Len(s) - n /\ \A i \in 1..(Len(s) - n) : r[i] = s[n + i]
  BY SMT
<1>3. ra \in Seq(S) /\ Len(ra) = Len(s) + 1 - n /\ \A i \in 1..(Len(s) + 1 - n) : ra[i] = a[n + i]
  BY <1>1, SMT
<1>4. /\ Append(r, x) \in Seq(S) /\ Len(Append(r, x)) = Len(s) + 1 - n
      /\ Append(r, x)[Len(s) + 1 - n] = x
      /\ \A i \in 1..(Len(s) - n) : Append(r, x)[i] = s[n + i]
  BY <1>2, SMT
<1>5. \A i \in 1..(Len(s) + 1 - n) : ra[i] = Append(r, x)[i]
  BY <1>1, <1>3, <1>4, SMT
<1>. QED  BY <1>3, <1>4, <1>5, SeqEqual

LEMMA RestMovesOn ==
  ASSUME NEW S, NEW s \in Seq(S), NEW n \in 0..Len(s), n < Len(s)
  PROVE  LET r == SubSeq(s, n + 1, Len(s))
         IN  r # <<>> /\ Head(r) = s[n + 1] /\ SubSeq(s, n + 2, Len(s)) = Tail(r)
<1>1. n + 1 \in 1..Len(s) /\ Len(s) \in (n + 1)..Len(s) /\ n + 1 + 1 = n + 2
  BY SMT
<1>2. SubSeq(s, n + 1, Len(s)) # <<>>
  <2>1. Len(SubSeq(s, n + 1, Len(s))) = Len(s) - n /\ Len(<<>>) = 0 /\ Len(s) - n # 0
    BY SMT
  <2>. QED  BY <2>1
<1>. QED  BY <1>1, <1>2, HeadTailOfSubSeq

(* A group that exists points into the log, a worker that has connected    *)
(* finds it there, and a worker between a read and its XACK has an entry   *)
(* of the log in hand.                                                     *)
StreamInv ==
  /\ log \in Seq(Jobs) /\ created \subseteq Jobs /\ lost \subseteq Jobs
  /\ group \in {None} \cup 0..Len(log)
  /\ consumer \in [Workers -> {"down", "reading", "claiming", "processing", "xadd", "ack"}]
  /\ entry \in [Workers -> {None} \cup 1..Len(log)]
  /\ \A w \in Workers : consumer[w] # "down" => group # None
  /\ \A w \in Workers : entry[w] = None <=> consumer[w] \in {"down", "reading"}

LEMMA StreamInvInit == StreamInit => StreamInv
<1>. SUFFICES ASSUME StreamInit  PROVE StreamInv
  OBVIOUS
<1>1. log = <<>> /\ created = {} /\ lost = {} /\ group = None
  BY DEF StreamInit
<1>2. consumer = [w \in Workers |-> "down"] /\ entry = [w \in Workers |-> None]
  BY DEF StreamInit
<1>3. log \in Seq(Jobs)
  BY <1>1, SMT
<1>. QED  BY <1>1, <1>2, <1>3 DEF StreamInv

(* An entry added to the log leaves the others in place.                   *)
LEMMA Adds ==
  ASSUME StreamInv, NEW j \in Jobs, log' = Append(log, j)
  PROVE  /\ log' \in Seq(Jobs) /\ 0..Len(log) \subseteq 0..Len(log')
         /\ 1..Len(log) \subseteq 1..Len(log')
BY SMT DEF StreamInv

LEMMA EntryIsJob ==
  ASSUME StreamInv, NEW w \in Workers, consumer[w] \in {"claiming", "processing", "xadd", "ack"}
  PROVE  log[entry[w]] \in Jobs
<1>1. entry[w] \in 1..Len(log) /\ log \in Seq(Jobs)
  BY DEF StreamInv
<1>. QED  BY <1>1, SMT

LEMMA StreamStep == StreamInv /\ [StreamNext]_streamVars => StreamInv'
<1>. SUFFICES ASSUME StreamInv, [StreamNext]_streamVars  PROVE StreamInv'
  OBVIOUS
<1>1. ASSUME NEW j \in Jobs, Transition(j) \/ ReapJob(j) \/ \E by \in Producers : Enqueue(j, by)
      PROVE  StreamInv'
  <2>1. /\ created' \subseteq Jobs /\ lost' \subseteq Jobs /\ UNCHANGED <<group, consumer, entry>>
        /\ UNCHANGED log \/ log' = Append(log, j)
    BY <1>1 DEF Transition, ReapJob, Enqueue, workers, StreamInv
  <2>2. CASE UNCHANGED log
    BY <2>1, <2>2 DEF StreamInv
  <2>3. CASE log' = Append(log, j)
    BY <2>1, <2>3, Adds DEF StreamInv
  <2>. QED  BY <2>1, <2>2, <2>3
<1>2. ASSUME NEW w \in Workers, ConnectRedis(w)  PROVE StreamInv'
  <2>1. /\ UNCHANGED <<log, created, lost, entry>> /\ consumer[w] = "down"
        /\ consumer' = [consumer EXCEPT ![w] = "reading"] /\ group' = GroupCreated
    BY <1>2 DEF ConnectRedis, jobs
  <2>2. None \notin Int /\ 0 \in Int /\ 0 \in 0..Len(log)
    BY StreamAssumption, SMT DEF StreamInv
  <2>3. group' \in 0..Len(log) /\ group' # None
    BY <2>1, <2>2 DEF GroupCreated, StreamInv
  <2>. QED  BY <2>1, <2>3 DEF StreamInv
<1>3. ASSUME NEW w \in Workers, ReadGroup(w)  PROVE StreamInv'
  <2>1. /\ UNCHANGED <<log, created, lost>> /\ consumer[w] = "reading"
        /\ group < Len(log) /\ group' = group + 1
        /\ consumer' = [consumer EXCEPT ![w] = "claiming"] /\ entry' = [entry EXCEPT ![w] = group']
    BY <1>3 DEF ReadGroup, jobs
  <2>2. group \in 0..Len(log)
    BY <2>1 DEF StreamInv
  <2>3. group' \in 0..Len(log) /\ group' \in 1..Len(log) /\ group' \in Int
    BY <2>1, <2>2, SMT DEF StreamInv
  <2>4. group' # None
    BY <2>3, StreamAssumption
  <2>. QED  BY <2>1, <2>3, <2>4 DEF StreamInv
<1>4. ASSUME NEW w \in Workers, Claim(w) \/ Ack(w)  PROVE StreamInv'
  <2>1. UNCHANGED <<log, group, created, lost>>
    BY <1>4 DEF Claim, Ack, jobs
  <2>2. CASE Claim(w)
    BY <2>1, <2>2 DEF Claim, StreamInv
  <2>3. CASE Ack(w)
    BY <2>1, <2>3 DEF Ack, StreamInv
  <2>. QED  BY <1>4, <2>2, <2>3
<1>5. ASSUME NEW w \in Workers, ProcessJob(w)  PROVE StreamInv'
  <2>1. /\ consumer[w] = "processing" /\ UNCHANGED <<log, group, entry, created>>
        /\ \E l \in {"ack", "xadd"} : consumer' = [consumer EXCEPT ![w] = l]
        /\ lost' \in {lost, lost \cup {log[entry[w]]}}
    BY <1>5 DEF ProcessJob
  <2>2. lost \subseteq Jobs /\ log[entry[w]] \in Jobs
    BY <2>1, EntryIsJob DEF StreamInv
  <2>3. lost' \subseteq Jobs
    BY ONLY <2>1, <2>2
  <2>. QED  BY <2>1, <2>3 DEF StreamInv
<1>8. ASSUME NEW w \in Workers, Xadd(w)  PROVE StreamInv'
  <2>1. /\ consumer[w] = "xadd" /\ consumer' = [consumer EXCEPT ![w] = "ack"]
        /\ UNCHANGED <<group, entry, created, lost>>
        /\ UNCHANGED log \/ log' = Append(log, log[entry[w]])
    BY <1>8 DEF Xadd, jobs
  <2>2. PICK j \in Jobs : j = log[entry[w]]
    BY <2>1, EntryIsJob
  <2>3. CASE UNCHANGED log
    BY <2>1, <2>3 DEF StreamInv
  <2>4. CASE log' = Append(log, j)
    BY <2>1, <2>4, Adds DEF StreamInv
  <2>. QED  BY <2>1, <2>2, <2>3, <2>4
<1>6. ASSUME NEW w \in Workers, WorkerCrash(w)  PROVE StreamInv'
  <2>1. /\ UNCHANGED <<log, group, created>> /\ consumer' = [consumer EXCEPT ![w] = "down"]
        /\ entry' = [entry EXCEPT ![w] = None]
    BY <1>6 DEF WorkerCrash
  <2>2. lost' \subseteq Jobs
    BY <1>6, EntryIsJob DEF WorkerCrash, StreamInv
  <2>. QED  BY <2>1, <2>2 DEF StreamInv
<1>7. CASE Refresh \/ UNCHANGED streamVars
  BY <1>7 DEF Refresh, streamVars, workers, jobs, StreamInv
<1>9. CASE ApiCrash
  BY <1>9 DEF ApiCrash, workers, StreamInv
<1>. QED  BY <1>1, <1>2, <1>3, <1>4, <1>5, <1>6, <1>7, <1>8, <1>9 DEF StreamNext, WorkerStep

(* The step that ActsAsQueue allows.                                       *)
QueueStep ==
  \/ Undelivered' = Undelivered
  \/ \E j \in Jobs : Undelivered' = Append(Undelivered, j)
  \/ /\ Undelivered # <<>> /\ Undelivered' = Tail(Undelivered)
     /\ \E w \in Workers :
          entry[w] = None /\ entry'[w] # None /\ log[entry'[w]] = Head(Undelivered)

LEMMA AddsOne ==
  ASSUME StreamInv, NEW j \in Jobs, log' = Append(log, j), UNCHANGED group
  PROVE  Undelivered' = Append(Undelivered, j)
<1>. PICK n : n = IF group = None THEN 0 ELSE group
  OBVIOUS
<1>1. log \in Seq(Jobs) /\ n \in 0..Len(log)
  BY SMT DEF StreamInv
<1>2. Undelivered = SubSeq(log, n + 1, Len(log)) /\ Undelivered' = SubSeq(log', n + 1, Len(log'))
  BY DEF Undelivered
<1>. QED  BY <1>1, <1>2, RestAppended

LEMMA QueueSteps == StreamInv /\ [StreamNext]_streamVars => QueueStep
<1>. SUFFICES ASSUME StreamInv, [StreamNext]_streamVars  PROVE QueueStep
  OBVIOUS
<1>1. ASSUME UNCHANGED <<log, group>>  PROVE QueueStep
  BY <1>1 DEF QueueStep, Undelivered
<1>2. ASSUME NEW j \in Jobs, log' = Append(log, j), UNCHANGED group  PROVE QueueStep
  BY <1>2, AddsOne DEF QueueStep
<1>3. ASSUME NEW j \in Jobs, NEW by \in Producers, Enqueue(j, by)  PROVE QueueStep
  BY <1>1, <1>2, <1>3 DEF Enqueue
<1>4. ASSUME NEW w \in Workers, ConnectRedis(w)  PROVE QueueStep
  <2>1. Undelivered' = Undelivered
    BY <1>4, StreamAssumption, SMT DEF ConnectRedis, GroupCreated, Undelivered
  <2>. QED  BY <2>1 DEF QueueStep
<1>5. ASSUME NEW w \in Workers, ReadGroup(w)  PROVE QueueStep
  <2>. PICK n : n = group
    OBVIOUS
  <2>1. n \in 0..Len(log) /\ n < Len(log) /\ log \in Seq(Jobs) /\ group # None
    BY <1>5 DEF ReadGroup, StreamInv
  <2>2. group' = n + 1 /\ UNCHANGED log /\ entry[w] = None /\ entry'[w] = n + 1
    BY <1>5 DEF ReadGroup, StreamInv
  <2>3. n + 1 # None /\ n + 1 + 1 = n + 2
    BY <2>1, StreamAssumption, SMT
  <2>4. Undelivered = SubSeq(log, n + 1, Len(log)) /\ Undelivered' = SubSeq(log, n + 2, Len(log))
    BY <2>1, <2>2, <2>3 DEF Undelivered
  <2>5. Undelivered # <<>> /\ Undelivered' = Tail(Undelivered) /\ log[entry'[w]] = Head(Undelivered)
    BY <2>1, <2>2, <2>4, RestMovesOn
  <2>. QED  BY <2>2, <2>3, <2>5 DEF QueueStep
<1>6. ASSUME NEW w \in Workers, Xadd(w)  PROVE QueueStep
  <2>1. /\ consumer[w] = "xadd" /\ UNCHANGED group
        /\ UNCHANGED log \/ log' = Append(log, log[entry[w]])
    BY <1>6 DEF Xadd
  <2>. QED  BY <1>1, <1>2, <2>1, EntryIsJob
<1>7. ASSUME NEW w \in Workers, Claim(w) \/ ProcessJob(w) \/ Ack(w) \/ WorkerCrash(w)  PROVE QueueStep
  BY <1>1, <1>7 DEF Claim, ProcessJob, Ack, WorkerCrash
<1>8. CASE (\E j \in Jobs : Transition(j) \/ ReapJob(j)) \/ ApiCrash \/ Refresh \/ UNCHANGED streamVars
  BY <1>1, <1>8 DEF Transition, ReapJob, ApiCrash, Refresh, streamVars
<1>. QED  BY <1>3, <1>4, <1>5, <1>6, <1>7, <1>8 DEF StreamNext, WorkerStep

(* What module JobQueue takes the stream for: whatever the order in which  *)
(* API and workers start, fail and restart, each step of the stream is     *)
(* that of a queue, and an entry is given to one worker.                   *)
THEOREM StreamActsAsQueue == StreamSpec => ActsAsQueue
<1>1. StreamInv /\ [StreamNext]_streamVars => [QueueStep]_streamVars
  BY QueueSteps
<1>2. StreamSpec => [][QueueStep]_streamVars
  BY <1>1, StreamInvInit, StreamStep, PTL DEF StreamSpec
<1>. QED  BY <1>2 DEF ActsAsQueue, QueueStep

(* An added entry waits, and moves nothing else.                           *)
LEMMA AddedWaits ==
  ASSUME StreamInv, NEW j \in Jobs, log' = Append(log, j), UNCHANGED group
  PROVE  /\ Waits(j)' /\ \A k : Waits(k) => Waits(k)'
         /\ \A i \in 1..Len(log) : log'[i] = log[i]
<1>1. /\ Len(log) \in Nat /\ Len(log') = Len(log) + 1 /\ log'[Len(log) + 1] = j
      /\ \A i \in 1..Len(log) : log'[i] = log[i]
  BY SMT DEF StreamInv
<1>2. Len(log) + 1 \in 1..Len(log') /\ 1..Len(log) \subseteq 1..Len(log')
  BY <1>1, SMT
<1>3. group = None \/ group < Len(log) + 1
  BY <1>1, SMT DEF StreamInv
<1>. QED  BY <1>1, <1>2, <1>3 DEF Waits

(* A worker other than w stays at work when w moves.                       *)
LEMMA OthersAtWork ==
  ASSUME StreamInv, NEW w \in Workers, NEW j, AtWork(j),
         consumer[w] \in {"claiming", "processing", "xadd"} => log[entry[w]] # j,
         \A v \in Workers \ {w} : consumer'[v] = consumer[v] /\ entry'[v] = entry[v],
         \A i \in 1..Len(log) : log'[i] = log[i]
  PROVE  AtWork(j)'
<1>. PICK v \in Workers : consumer[v] \in {"claiming", "processing", "xadd"} /\ log[entry[v]] = j
  BY DEF AtWork
<1>1. v # w /\ entry[v] \in 1..Len(log)
  BY DEF StreamInv
<1>. QED  BY <1>1 DEF AtWork

(* Handlers and reaper leave every worker at its job.                      *)
LEMMA WorkersUndisturbed ==
  ASSUME StreamInv, UNCHANGED <<group, consumer, entry>>, NEW j \in Jobs,
         UNCHANGED log \/ log' = Append(log, j), NEW k
  PROVE  (Waits(k) => Waits(k)') /\ (AtWork(k) => AtWork(k)')
<1>1. \A i \in 1..Len(log) : log'[i] = log[i]
  BY AddedWaits
<1>2. Waits(k) => Waits(k)'
  BY AddedWaits DEF Waits
<1>3. ASSUME NEW v \in Workers, consumer[v] \in {"claiming", "processing", "xadd"}, log[entry[v]] = k
      PROVE  AtWork(k)'
  <2>1. entry[v] \in 1..Len(log)
    BY <1>3 DEF StreamInv
  <2>. QED  BY <1>1, <1>3, <2>1 DEF AtWork
<1>. QED  BY <1>2, <1>3 DEF AtWork

LEMMA ForgottenStep == StreamInv /\ NoJobForgotten /\ [StreamNext]_streamVars => NoJobForgotten'
<1>. SUFFICES ASSUME StreamInv, NoJobForgotten, [StreamNext]_streamVars  PROVE NoJobForgotten'
  OBVIOUS
<1>. DEFINE Safe(k) ==
       k \in settled \cup lost \cup stranded \/ Waits(k) \/ AtWork(k) \/ BeingPublished(k)
<1>0. SUFFICES ASSUME NEW k \in created'  PROVE Safe(k)'
  BY DEF NoJobForgotten
<1>k. k \in created => k \in Jobs /\ Safe(k)
  BY DEF NoJobForgotten, StreamInv
<1>1. ASSUME NEW j \in Jobs, Transition(j)  PROVE Safe(k)'
  <2>1. /\ UNCHANGED <<log, group, consumer, entry, settled, lost, stranded>>
        /\ created' = created \cup {j} /\ publishing' = publishing \cup {<<j, "handler">>}
    BY <1>1 DEF Transition, workers, streamHistory
  <2>2. (Waits(k) => Waits(k)') /\ (AtWork(k) => AtWork(k)')
    BY <2>1, WorkersUndisturbed
  <2>3. k = j => BeingPublished(k)'
    BY <2>1 DEF BeingPublished, Producers
  <2>4. BeingPublished(k) => BeingPublished(k)'
    BY <2>1 DEF BeingPublished
  <2>. QED  BY <1>k, <2>1, <2>2, <2>3, <2>4
<1>2. ASSUME NEW j \in Jobs, ReapJob(j)  PROVE Safe(k)'
  <2>1. /\ UNCHANGED <<log, group, consumer, entry, created, stranded>> /\ lost' = lost \ {j}
        /\ \/ settled' = settled \cup {j} /\ UNCHANGED publishing
           \/ publishing' = publishing \cup {<<j, "reaper">>} /\ UNCHANGED settled
    BY <1>2 DEF ReapJob, workers, streamHistory
  <2>2. (Waits(k) => Waits(k)') /\ (AtWork(k) => AtWork(k)')
    BY <2>1, WorkersUndisturbed
  <2>3. k = j => k \in settled' \/ BeingPublished(k)'
    BY <2>1 DEF BeingPublished, Producers
  <2>4. BeingPublished(k) => BeingPublished(k)'
    BY <2>1 DEF BeingPublished
  <2>. QED  BY <1>k, <2>1, <2>2, <2>3, <2>4
<1>8. ASSUME NEW j \in Jobs, NEW by \in Producers, Enqueue(j, by)  PROVE Safe(k)'
  <2>1. /\ UNCHANGED <<group, consumer, entry, created, settled, lost>>
        /\ publishing' = publishing \ {<<j, by>>}
        /\ \/ log' = Append(log, j) /\ UNCHANGED stranded
           \/ UNCHANGED log /\ stranded' = stranded \cup {j}
    BY <1>8 DEF Enqueue, workers
  <2>2. (Waits(k) => Waits(k)') /\ (AtWork(k) => AtWork(k)')
    BY <2>1, WorkersUndisturbed
  <2>3. k = j => k \in stranded' \/ Waits(k)'
    BY <2>1, AddedWaits
  <2>4. BeingPublished(k) /\ k # j => BeingPublished(k)'
    BY <2>1 DEF BeingPublished
  <2>. QED  BY <1>k, <2>1, <2>2, <2>3, <2>4
<1>9. CASE ApiCrash
  <2>1. /\ UNCHANGED <<log, group, consumer, entry, created, settled, lost>>
        /\ stranded' = stranded \cup {j \in Jobs : \E by \in Producers : <<j, by>> \in publishing}
    BY <1>9 DEF ApiCrash, workers
  <2>2. (Waits(k) => Waits(k)') /\ (AtWork(k) => AtWork(k)')
    BY <2>1 DEF Waits, AtWork
  <2>3. BeingPublished(k) => k \in stranded'
    BY <1>k, <2>1 DEF BeingPublished
  <2>. QED  BY <1>k, <2>1, <2>2, <2>3
<1>. SUFFICES ASSUME ~ApiCrash,
                     \A j \in Jobs : ~Transition(j) /\ ~ReapJob(j) /\ \A by \in Producers : ~Enqueue(j, by)
              PROVE  Safe(k)'
  BY <1>1, <1>2, <1>8, <1>9
<1>10. /\ k \in created /\ settled \subseteq settled' /\ lost \subseteq lost'
       /\ stranded \subseteq stranded' /\ UNCHANGED publishing
  <2>1. ASSUME NEW w \in Workers, WorkerStep(w) \/ WorkerCrash(w)
        PROVE  /\ created' = created /\ settled \subseteq settled' /\ lost \subseteq lost'
               /\ stranded \subseteq stranded' /\ UNCHANGED publishing
    BY <2>1 DEF WorkerStep, WorkerCrash, ConnectRedis, ReadGroup, Claim, ProcessJob, Xadd, Ack, jobs, streamHistory
  <2>2. CASE Refresh \/ UNCHANGED streamVars
    BY <2>2 DEF Refresh, streamVars, jobs, streamHistory
  <2>. QED  BY <2>1, <2>2 DEF StreamNext
<1>11. BeingPublished(k) => BeingPublished(k)'
  BY <1>10 DEF BeingPublished
<1>. SUFFICES ASSUME Waits(k) \/ AtWork(k)  PROVE Safe(k)'
  BY <1>k, <1>10, <1>11
<1>3. ASSUME NEW w \in Workers, ConnectRedis(w)  PROVE Safe(k)'
  <2>1. /\ consumer[w] = "down" /\ UNCHANGED <<log, entry>> /\ group' = GroupCreated
        /\ \A v \in Workers \ {w} : consumer'[v] = consumer[v]
    BY <1>3 DEF ConnectRedis, StreamInv
  <2>2. AtWork(k) => AtWork(k)'
    BY <2>1, OthersAtWork
  <2>3. Waits(k) => Waits(k)'
    BY <2>1, SMT DEF Waits, GroupCreated
  <2>. QED  BY <2>2, <2>3
<1>4. ASSUME NEW w \in Workers, ReadGroup(w)  PROVE Safe(k)'
  <2>1. /\ consumer[w] = "reading" /\ UNCHANGED log
        /\ group \in 0..Len(log) /\ group < Len(log) /\ group' = group + 1
        /\ consumer'[w] = "claiming" /\ entry'[w] = group'
        /\ \A v \in Workers \ {w} : consumer'[v] = consumer[v] /\ entry'[v] = entry[v]
    BY <1>4 DEF ReadGroup, StreamInv
  <2>2. AtWork(k) => AtWork(k)'
    BY <2>1, OthersAtWork
  <2>3. ASSUME NEW i \in 1..Len(log), log[i] = k, group = None \/ group < i  PROVE Safe(k)'
    <3>1. group # None
      BY <2>1 DEF StreamInv
    <3>2. i = group' \/ group' < i
      BY <2>1, <2>3, <3>1, SMT DEF StreamInv
    <3>3. CASE i = group'
      BY <2>1, <2>3, <3>3 DEF AtWork
    <3>4. CASE group' < i
      BY <2>1, <2>3, <3>4 DEF Waits
    <3>. QED  BY <3>2, <3>3, <3>4
  <2>. QED  BY <2>2, <2>3 DEF Waits
<1>5. ASSUME NEW w \in Workers, Claim(w) \/ ProcessJob(w) \/ Ack(w) \/ WorkerCrash(w)  PROVE Safe(k)'
  <2>1. /\ UNCHANGED <<log, group>>
        /\ \A v \in Workers \ {w} : consumer'[v] = consumer[v] /\ entry'[v] = entry[v]
    BY <1>5 DEF Claim, ProcessJob, Ack, WorkerCrash, StreamInv
  <2>2. CASE Waits(k)
    BY <2>1, <2>2 DEF Waits
  <2>3. CASE AtWork(k) /\ ~(consumer[w] \in {"claiming", "processing", "xadd"} /\ log[entry[w]] = k)
    BY <2>1, <2>3, OthersAtWork
  <2>4. CASE consumer[w] \in {"claiming", "processing", "xadd"} /\ log[entry[w]] = k
    <3>1. CASE Claim(w)
      BY <2>1, <2>4, <3>1 DEF Claim, AtWork, StreamInv
    <3>2. CASE WorkerCrash(w)
      BY <2>4, <3>2 DEF WorkerCrash
    <3>3. CASE ProcessJob(w)
      BY <2>1, <2>4, <3>3 DEF ProcessJob, AtWork, StreamInv
    <3>. QED  BY <1>5, <2>4, <3>1, <3>2, <3>3 DEF Ack
  <2>. QED  BY <2>2, <2>3, <2>4
<1>6. ASSUME NEW w \in Workers, Xadd(w)  PROVE Safe(k)'
  <2>1. /\ consumer[w] = "xadd" /\ UNCHANGED <<group, entry>>
        /\ \A v \in Workers \ {w} : consumer'[v] = consumer[v] /\ entry'[v] = entry[v]
    BY <1>6 DEF Xadd, StreamInv
  <2>. PICK j \in Jobs : j = log[entry[w]]
    BY <2>1, EntryIsJob
  <2>2. UNCHANGED log \/ log' = Append(log, j)
    BY <1>6 DEF Xadd
  <2>3. \A i \in 1..Len(log) : log'[i] = log[i]
    BY <2>1, <2>2, AddedWaits
  <2>4. CASE Waits(k)
    <3>1. CASE UNCHANGED log
      BY <2>1, <2>4, <3>1 DEF Waits
    <3>2. CASE log' = Append(log, j)
      BY <2>1, <2>4, <3>2, AddedWaits
    <3>. QED  BY <2>2, <3>1, <3>2
  <2>5. CASE AtWork(k) /\ k # j
    BY <2>1, <2>3, <2>5, OthersAtWork
  <2>6. CASE k = j
    <3>1. k \in stranded' \/ log' = Append(log, j)
      BY <1>6, <2>6 DEF Xadd
    <3>. QED  BY <2>1, <2>6, <3>1, AddedWaits
  <2>. QED  BY <2>4, <2>5, <2>6
<1>7. CASE Refresh \/ UNCHANGED streamVars
  <2>1. UNCHANGED <<log, group, consumer, entry>>
    BY <1>7 DEF Refresh, streamVars, workers
  <2>. QED  BY <2>1 DEF Waits, AtWork
<1>. QED  BY <1>3, <1>4, <1>5, <1>6, <1>7 DEF StreamNext, WorkerStep

(* For any number of jobs, workers and failures, a job whose row the API   *)
(* has queued is waiting on the stream, at a worker, about to be added by  *)
(* a handler or the reaper, finished, under a lease the reaper will find,  *)
(* or one of the stranded ones: its process died, or Redis or Postgres     *)
(* failed, after the row was queued and before an XADD followed, or a      *)
(* worker read its entry and failed before claim_next had committed.       *)
THEOREM JobsAreNotForgotten == StreamSpec => []NoJobForgotten
<1>1. StreamInit => NoJobForgotten
  BY DEF StreamInit, NoJobForgotten
<1>. QED  BY <1>1, StreamInvInit, StreamStep, ForgottenStep, PTL DEF StreamSpec

-----------------------------------------------------------------------------
(* The hub's channels, for any number of users, connections and events and *)
(* any buffer size.                                                        *)

(* A broadcast goes to registered clients, a registered client's channel   *)
(* is open, and a connection registers once.                               *)
Locking ==
  /\ cpc \in [Conns -> {"new", "accepted", "reading", "closing", "done"}]
  /\ left \subseteq clients /\ clients \subseteq Conns
  /\ lpc # "broadcasting" => left = {}
  /\ \A c \in clients : c \notin closed /\ cpc[c] \in {"reading", "closing"}
  /\ \A c \in closed : c \in Conns /\ cpc[c] = "done"

LEMMA LockingStep == Locking /\ [Next]_vars => Locking'
<1>. SUFFICES ASSUME Locking, [Next]_vars  PROVE Locking'
  OBVIOUS
<1>1. ASSUME NEW u \in Users, NotifyJobEvent(u)  PROVE Locking'
  BY <1>1 DEF NotifyJobEvent, Locking, channels
<1>2. CASE Listen \/ ConnectionLost \/ Broadcasted
  BY <1>2 DEF Listen, ConnectionLost, Broadcasted, Locking, channels
<1>3. CASE Handle
  BY <1>3 DEF Handle, ClientsOf, Locking, channels
<1>4. ASSUME NEW c \in Conns, Send(c)  PROVE Locking'
  BY <1>4 DEF Send, Locking
<1>5. ASSUME NEW c \in Conns, Accept(c)  PROVE Locking'
  BY <1>5 DEF Accept, Locking, listener, channels
<1>6. ASSUME NEW c \in Conns, Register(c)  PROVE Locking'
  BY <1>6 DEF Register, Locking, listener, channels
<1>7. ASSUME NEW c \in Conns, ReadFails(c)  PROVE Locking'
  BY <1>7 DEF ReadFails, Locking, listener, channels
<1>8. ASSUME NEW c \in Conns, Unregister(c)  PROVE Locking'
  BY <1>8 DEF Unregister, Locking, listener
<1>9. ASSUME NEW c \in Conns, WriteLoop(c)  PROVE Locking'
  BY <1>9 DEF WriteLoop, Receive, Write, Locking, listener, channels
<1>10. CASE UNCHANGED vars
  BY <1>10 DEF vars, Locking, listener, channels
<1>. QED  BY <1>1, <1>2, <1>3, <1>4, <1>5, <1>6, <1>7, <1>8, <1>9, <1>10 DEF Next, ListenerStep

LEMMA LockingInvariant == Spec => []Locking
<1>1. Init => Locking
  BY DEF Init, Locking
<1>. QED  BY <1>1, LockingStep, PTL DEF Spec

(* BroadcastToUser never sends on a channel that Unregister has closed.    *)
THEOREM SendsOnOpenChannels == Spec => []NoSendOnClosedChannel
<1>1. Locking => NoSendOnClosedChannel
  BY DEF Locking, NoSendOnClosedChannel
<1>. QED  BY <1>1, LockingInvariant, PTL

-----------------------------------------------------------------------------
(* What a client receives.                                                 *)

Messages == Users \X Nat

FeedType ==
  /\ written \in Nat /\ inbox \in Seq(Messages)
  /\ lpc = "broadcasting" => msg \in Messages
  /\ queue \in [Conns -> Seq(Messages)] /\ offered \in [Conns -> Seq(Messages)]
  /\ hand \in [Conns -> Seq(Messages)] /\ sent \in [Conns -> Seq(Messages)]
  /\ wpc \in [Conns -> {"none", "receive", "write", "ended"}]
  /\ \A c \in Conns : wpc[c] \in {"none", "receive"} => hand[c] = <<>>
  /\ \A c \in Conns : cpc[c] \in {"new", "accepted"} => wpc[c] = "none"

(* What is on its way to client c.                                         *)
Pipe(c) == sent[c] \o hand[c] \o queue[c]
Pending(c) == IF c \in left THEN <<msg>> ELSE <<>>

(* A send moves the message from the loop into the channel.                *)
LEMMA PipeAppend ==
  ASSUME NEW S, NEW a \in Seq(S), NEW q \in Seq(S), NEW m \in S
  PROVE  a \o Append(q, m) = Append(a \o q, m)
<1>1. <<m>> \in Seq(S)
  BY SMT
<1>2. Append(q, m) = q \o <<m>>
  BY AppendIsConcat
<1>3. a \o q \in Seq(S)
  BY ConcatProperties
<1>4. Append(a \o q, m) = (a \o q) \o <<m>>
  BY <1>3, AppendIsConcat
<1>. QED  BY <1>1, <1>2, <1>4, ConcatAssociative, SMT

(* A receive takes the first message out of the channel.                   *)
LEMMA PipeReceive ==
  ASSUME NEW S, NEW a \in Seq(S), NEW q \in Seq(S), q # <<>>
  PROVE  /\ <<Head(q)>> \in Seq(S) /\ Tail(q) \in Seq(S)
         /\ (a \o <<>>) \o q = (a \o <<Head(q)>>) \o Tail(q)
<1>1. Head(q) \in S /\ Tail(q) \in Seq(S)
  BY HeadTailProperties
<1>2. <<Head(q)>> \in Seq(S)
  BY <1>1, SMT
<1>3. <<Head(q)>> \o Tail(q) = q
  BY SMT
<1>4. a \o <<>> = a
  BY ConcatEmptySeq
<1>. QED  BY <1>1, <1>2, <1>3, <1>4, ConcatAssociative, SMT

LEMMA FeedTypeStep == FeedType /\ Locking /\ [Next]_vars => FeedType'
<1>. SUFFICES ASSUME FeedType, Locking, [Next]_vars  PROVE FeedType'
  OBVIOUS
<1>1. ASSUME NEW u \in Users, NotifyJobEvent(u)  PROVE FeedType'
  <2>1. written + 1 \in Nat
    BY SMT DEF FeedType
  <2>2. <<u, written + 1>> \in Messages
    BY <2>1 DEF Messages
  <2>3. Append(inbox, <<u, written + 1>>) \in Seq(Messages)
    BY <2>2, AppendProperties DEF FeedType
  <2>. QED  BY <1>1, <2>1, <2>3 DEF NotifyJobEvent, FeedType, channels, writers, history
<1>2. CASE Listen \/ ConnectionLost \/ Broadcasted
  <2>1. <<>> \in Seq(Messages)
    BY EmptySeq
  <2>. QED
    BY <1>2, <2>1
    DEF Listen, ConnectionLost, Broadcasted, FeedType, channels, writers, history
<1>3. CASE Handle
  <2>1. Head(inbox) \in Messages /\ Tail(inbox) \in Seq(Messages)
    BY <1>3, HeadTailProperties DEF Handle, FeedType
  <2>2. \A c \in Conns : Append(offered[c], Head(inbox)) \in Seq(Messages)
    BY <2>1, AppendProperties DEF FeedType
  <2>3. offered' \in [Conns -> Seq(Messages)]
    BY <1>3, <2>2 DEF Handle, FeedType
  <2>. QED  BY <1>3, <2>1, <2>3 DEF Handle, FeedType, channels, writers
<1>4. ASSUME NEW c \in Conns, Send(c)  PROVE FeedType'
  <2>1. Append(queue[c], msg) \in Seq(Messages)
    BY <1>4, AppendProperties DEF Send, FeedType
  <2>. QED  BY <1>4, <2>1 DEF Send, FeedType, writers
<1>5. ASSUME NEW c \in Conns, Accept(c) \/ ReadFails(c) \/ Unregister(c)  PROVE FeedType'
  <2>1. UNCHANGED <<written, listener, queue, writers, history>>
    BY <1>5 DEF Accept, ReadFails, Unregister, channels
  <2>2. \A d \in Conns : cpc'[d] \in {"new", "accepted"} => cpc[d] \in {"new", "accepted"}
    BY <1>5 DEF Accept, ReadFails, Unregister, Locking
  <2>. QED  BY <2>1, <2>2 DEF FeedType, listener, writers, history
<1>6. ASSUME NEW c \in Conns, Register(c)  PROVE FeedType'
  BY <1>6 DEF Register, FeedType, Locking, listener, channels, history
<1>7. ASSUME NEW c \in Conns, Receive(c)  PROVE FeedType'
  <2>1. CASE queue[c] = <<>>
    BY <1>7, <2>1 DEF Receive, FeedType, listener, history
  <2>2. CASE queue[c] # <<>>
    <3>1. <<Head(queue[c])>> \in Seq(Messages) /\ Tail(queue[c]) \in Seq(Messages)
      BY <2>2, EmptySeq, PipeReceive DEF FeedType
    <3>2. /\ hand' = [hand EXCEPT ![c] = <<Head(queue[c])>>] /\ queue' = [queue EXCEPT ![c] = Tail(@)]
          /\ wpc' = [wpc EXCEPT ![c] = "write"] /\ wpc[c] = "receive"
      BY <1>7, <2>2 DEF Receive
    <3>3. hand' \in [Conns -> Seq(Messages)] /\ queue' \in [Conns -> Seq(Messages)]
      BY <3>1, <3>2 DEF FeedType
    <3>4. wpc' \in [Conns -> {"none", "receive", "write", "ended"}]
      BY <3>2 DEF FeedType
    <3>5. \A d \in Conns : wpc'[d] \in {"none", "receive"} => hand'[d] = <<>>
      BY <3>2 DEF FeedType
    <3>6. \A d \in Conns : cpc[d] \in {"new", "accepted"} => wpc'[d] = "none"
      BY <3>2 DEF FeedType
    <3>. QED  BY <1>7, <3>3, <3>4, <3>5, <3>6 DEF Receive, FeedType, listener, history
  <2>. QED  BY <2>1, <2>2
<1>8. ASSUME NEW c \in Conns, Write(c)  PROVE FeedType'
  <2>1. sent[c] \o hand[c] \in Seq(Messages) /\ <<>> \in Seq(Messages)
    BY EmptySeq, ConcatProperties DEF FeedType
  <2>2. hand' \in [Conns -> Seq(Messages)] /\ sent' \in [Conns -> Seq(Messages)]
    <3>1. hand' = hand \/ hand' = [hand EXCEPT ![c] = <<>>]
      BY <1>8 DEF Write
    <3>2. sent' = sent \/ sent' = [sent EXCEPT ![c] = @ \o hand[c]]
      BY <1>8 DEF Write
    <3>3. hand' \in [Conns -> Seq(Messages)]
      BY <2>1, <3>1 DEF FeedType
    <3>4. sent' \in [Conns -> Seq(Messages)]
      BY <2>1, <3>2 DEF FeedType
    <3>. QED  BY <3>3, <3>4
  <2>3. wpc' \in [Conns -> {"none", "receive", "write", "ended"}]
    BY <1>8 DEF Write, FeedType
  <2>4. \A d \in Conns : wpc'[d] \in {"none", "receive"} => hand'[d] = <<>>
    BY <1>8 DEF Write, FeedType
  <2>5. \A d \in Conns : cpc[d] \in {"new", "accepted"} => wpc'[d] = "none"
    BY <1>8 DEF Write, FeedType
  <2>. QED  BY <1>8, <2>2, <2>3, <2>4, <2>5 DEF Write, FeedType, listener, channels, history
<1>9. CASE UNCHANGED vars
  BY <1>9 DEF vars, FeedType, listener, channels, writers, history
<1>. QED
  BY <1>1, <1>2, <1>3, <1>4, <1>5, <1>6, <1>7, <1>8, <1>9 DEF Next, ListenerStep, WriteLoop

Delivered(c) == Pipe(c) \o Pending(c) = offered[c]

LEMMA DeliveredStep ==
  ASSUME FeedType, Locking, [Next]_vars, NEW c \in Conns \ overflowed',
         c \notin overflowed => Delivered(c)
  PROVE  Delivered(c)'
<1>. DEFINE Same == UNCHANGED <<sent[c], hand[c], queue[c], offered[c]>>
<1>. /\ sent[c] \in Seq(Messages) /\ hand[c] \in Seq(Messages) /\ queue[c] \in Seq(Messages)
     /\ offered[c] \in Seq(Messages) /\ Pipe(c) \in Seq(Messages)
     /\ sent[c] \o hand[c] \in Seq(Messages)
  BY ConcatProperties DEF FeedType, Pipe
<1>. Delivered(c)
  BY DEF Next, ListenerStep, WriteLoop, vars, history, NotifyJobEvent, Listen,
         Handle, Broadcasted, Send,
         ConnectionLost, Accept, Register, ReadFails, Unregister, Receive, Write
<1>1. CASE Same /\ (c \in left' <=> c \in left) /\ (c \in left => msg' = msg)
  BY <1>1 DEF Delivered, Pipe, Pending
<1>2. ASSUME NEW u \in Users, NotifyJobEvent(u)  PROVE Delivered(c)'
  BY <1>1, <1>2 DEF NotifyJobEvent, channels, writers, history
<1>3. CASE Listen \/ ConnectionLost \/ Broadcasted
  BY <1>1, <1>3 DEF Listen, ConnectionLost, Broadcasted, channels, writers, history
<1>4. CASE Handle
  <2>1. msg' \in Messages
    BY <1>4, HeadTailProperties DEF Handle, FeedType
  <2>2. c \notin left /\ UNCHANGED Pipe(c)
    BY <1>4 DEF Handle, Locking, Pipe, channels, writers
  <2>3. Pipe(c) = offered[c]
    BY <2>2, ConcatEmptySeq DEF Delivered, Pending
  <2>4. CASE c \in left'
    <3>1. Pending(c)' = <<msg'>> /\ offered'[c] = Append(offered[c], msg')
      BY <1>4, <2>4 DEF Pending, Handle
    <3>2. Append(offered[c], msg') = offered[c] \o <<msg'>>
      BY <2>1, AppendIsConcat
    <3>. QED  BY <2>2, <2>3, <3>1, <3>2 DEF Delivered
  <2>5. CASE c \notin left'
    BY <1>4, <2>2, <2>5 DEF Delivered, Pending, Handle
  <2>. QED  BY <2>4, <2>5
<1>5. ASSUME NEW d \in Conns, Send(d)  PROVE Delivered(c)'
  <2>1. CASE d # c
    BY <1>1, <1>5, <2>1 DEF Send, FeedType, writers
  <2>2. CASE d = c
    <3>1. msg \in Messages /\ c \in left /\ c \notin left'
      BY <1>5, <2>2 DEF Send, FeedType
    <3>2. queue'[c] = Append(queue[c], msg) /\ UNCHANGED <<sent, hand, offered>>
      BY <1>5, <2>2 DEF Send, FeedType, writers
    <3>3. Pipe(c)' = Append(Pipe(c), msg)
      <4>. DEFINE a == sent[c] \o hand[c]
      <4>1. a \o Append(queue[c], msg) = Append(a \o queue[c], msg)
        <5>1. a \in Seq(Messages)
          OBVIOUS
        <5>. HIDE DEF a
        <5>2. queue[c] \in Seq(Messages) /\ msg \in Messages
          BY <3>1
        <5>. QED  BY ONLY <5>1, <5>2, PipeAppend, SMT
      <4>. QED  BY <3>2, <4>1 DEF Pipe
    <3>4. Pipe(c)' = offered[c] /\ Pipe(c)' \in Seq(Messages)
      <4>1. Pipe(c) \o <<msg>> = offered[c]
        BY <3>1 DEF Delivered, Pending
      <4>2. Append(Pipe(c), msg) = Pipe(c) \o <<msg>>
        BY <3>1, AppendIsConcat
      <4>. QED  BY <3>3, <4>1, <4>2
    <3>5. Pipe(c)' \o <<>> = Pipe(c)'
      BY <3>4, ConcatEmptySeq
    <3>. QED  BY <3>1, <3>2, <3>4, <3>5 DEF Delivered, Pending
  <2>. QED  BY <2>1, <2>2
<1>6. ASSUME NEW d \in Conns, Accept(d) \/ Register(d) \/ ReadFails(d) \/ Unregister(d)
      PROVE  Delivered(c)'
  BY <1>1, <1>6
  DEF Accept, Register, ReadFails, Unregister, listener, channels, writers, history
<1>7. ASSUME NEW d \in Conns, Receive(d)  PROVE Delivered(c)'
  <2>1. CASE d # c \/ queue[d] = <<>>
    BY <1>1, <1>7, <2>1 DEF Receive, FeedType, listener, history
  <2>2. CASE d = c /\ queue[c] # <<>>
    <3>1. hand[c] = <<>> /\ sent' = sent /\ hand'[c] = <<Head(queue[c])>> /\ queue'[c] = Tail(queue[c])
      BY <1>7, <2>2 DEF Receive, FeedType
    <3>2. Pipe(c)' = Pipe(c)
      <4>1. (sent[c] \o <<>>) \o queue[c] = (sent[c] \o <<Head(queue[c])>>) \o Tail(queue[c])
        BY <2>2, PipeReceive
      <4>. QED  BY <3>1, <4>1 DEF Pipe
    <3>. QED  BY <1>7, <3>2 DEF Receive, Delivered, Pending, listener, history
  <2>. QED  BY <2>1, <2>2
<1>8. ASSUME NEW d \in Conns, Write(d)  PROVE Delivered(c)'
  <2>1. CASE UNCHANGED <<sent[c], hand[c]>>
    BY <1>1, <1>8, <2>1 DEF Write, listener, channels, history
  <2>2. CASE ~UNCHANGED <<sent[c], hand[c]>>
    <3>1. sent'[c] = sent[c] \o hand[c] /\ hand'[c] = <<>> /\ queue' = queue
      BY <1>8, <2>2 DEF Write, FeedType, channels
    <3>2. Pipe(c)' = Pipe(c)
      BY <3>1, ConcatEmptySeq DEF Pipe
    <3>. QED  BY <1>8, <3>2 DEF Write, Delivered, Pending, listener, history
  <2>. QED  BY <2>1, <2>2
<1>9. CASE UNCHANGED vars
  BY <1>1, <1>9 DEF vars, listener, channels, writers, history
<1>. QED  BY <1>2, <1>3, <1>4, <1>5, <1>6, <1>7, <1>8, <1>9 DEF Next, ListenerStep, WriteLoop

(* A write loop has a message in hand while it writes, and one that ended  *)
(* without has found its channel closed and empty.                         *)
Drained ==
  \A c \in Conns : /\ wpc[c] = "write" => hand[c] # <<>>
                   /\ wpc[c] = "ended" /\ hand[c] = <<>> => queue[c] = <<>> /\ c \in closed

LEMMA DrainedStep == FeedType /\ Locking /\ Drained /\ [Next]_vars => Drained'
<1>. SUFFICES ASSUME FeedType, Locking, Drained, [Next]_vars, NEW c \in Conns
              PROVE  /\ wpc'[c] = "write" => hand'[c] # <<>>
                     /\ wpc'[c] = "ended" /\ hand'[c] = <<>> => queue'[c] = <<>> /\ c \in closed'
  BY DEF Drained
<1>1. CASE UNCHANGED <<wpc[c], hand[c], queue[c]>> /\ closed \subseteq closed'
  BY <1>1 DEF Drained
<1>2. CASE (\E u \in Users : NotifyJobEvent(u)) \/ Listen \/ ConnectionLost \/ Handle \/ Broadcasted
            \/ UNCHANGED vars
  BY <1>1, <1>2
  DEF NotifyJobEvent, Listen, ConnectionLost, Handle, Broadcasted, vars, channels, writers
<1>3. ASSUME NEW d \in Conns, Accept(d) \/ ReadFails(d) \/ Unregister(d)
      PROVE  UNCHANGED <<wpc[c], hand[c], queue[c]>> /\ closed \subseteq closed'
  BY <1>3 DEF Accept, ReadFails, Unregister, channels, writers
<1>4. ASSUME NEW d \in Conns, Register(d)
      PROVE  /\ wpc'[c] = "write" => hand'[c] # <<>>
             /\ wpc'[c] = "ended" /\ hand'[c] = <<>> => queue'[c] = <<>> /\ c \in closed'
  BY <1>4 DEF Register, channels, FeedType, Drained
<1>5. ASSUME NEW d \in Conns, Send(d)
      PROVE  /\ wpc'[c] = "write" => hand'[c] # <<>>
             /\ wpc'[c] = "ended" /\ hand'[c] = <<>> => queue'[c] = <<>> /\ c \in closed'
  <2>1. d \notin closed /\ UNCHANGED <<wpc, hand, closed>>
    BY <1>5 DEF Send, Locking, writers
  <2>2. c # d => queue'[c] = queue[c]
    BY <1>5 DEF Send, FeedType
  <2>. QED  BY <2>1, <2>2 DEF Drained
<1>6. ASSUME NEW d \in Conns, WriteLoop(d)
      PROVE  /\ wpc'[c] = "write" => hand'[c] # <<>>
             /\ wpc'[c] = "ended" /\ hand'[c] = <<>> => queue'[c] = <<>> /\ c \in closed'
  <2>1. CASE d # c
    BY <1>1, <1>6, <2>1 DEF WriteLoop, Receive, Write, FeedType, channels
  <2>2. CASE d = c
    <3>1. ASSUME Receive(c)
          PROVE  \/ wpc'[c] = "write" /\ hand'[c] = <<Head(queue[c])>>
                 \/ wpc'[c] = "ended" /\ queue'[c] = <<>> /\ c \in closed'
      BY <3>1 DEF Receive, FeedType
    <3>2. ASSUME Write(c)
          PROVE  wpc'[c] = "receive" \/ (wpc'[c] = "ended" /\ hand'[c] = hand[c] /\ wpc[c] = "write")
      BY <3>2 DEF Write, FeedType
    <3>3. <<Head(queue[c])>> # <<>>
      BY SMT
    <3>. QED  BY <1>6, <2>2, <3>1, <3>2, <3>3 DEF WriteLoop, Drained
  <2>. QED  BY <2>1, <2>2
<1>. QED  BY <1>1, <1>2, <1>3, <1>4, <1>5, <1>6 DEF Next, ListenerStep

(* The front of a concatenation is its first part.                         *)
LEMMA FrontOfConcat ==
  ASSUME NEW S, NEW a \in Seq(S), NEW b \in Seq(S)
  PROVE  \A i \in 1..Len(a) : /\ i \in 1..Len(a \o b) /\ i <= Len(a \o b)
                             /\ (a \o b)[i] = a[i]
<1>1. /\ Len(a) \in Nat /\ Len(b) \in Nat /\ Len(a \o b) = Len(a) + Len(b)
      /\ \A i \in 1..Len(a) : (a \o b)[i] = a[i]
  BY SMT
<1>. QED  BY <1>1, SMT

(* For any number of clients and any buffer size, a client whose buffer    *)
(* never overflowed has been written the first broadcasts made while it    *)
(* was registered without a gap, and gets all of them unless one of its    *)
(* own writes fails.                                                       *)
THEOREM OverflowLeavesTheOnlyGaps == Spec => []OnlyOverflowLeavesGaps
<1>. DEFINE Inv == Locking /\ FeedType /\ Drained /\ \A c \in Conns \ overflowed : Delivered(c)
<1>1. Init => Inv
  <2>. SUFFICES ASSUME Init  PROVE Inv
    OBVIOUS
  <2>1. Locking
    BY DEF Init, Locking
  <2>2. <<>> \in Seq(Messages)
    BY EmptySeq
  <2>3. FeedType
    BY <2>2, SMT DEF Init, FeedType
  <2>4. ASSUME NEW c \in Conns  PROVE Delivered(c)
    BY <2>2, ConcatEmptySeq DEF Init, Delivered, Pipe, Pending
  <2>5. Drained
    BY DEF Init, Drained
  <2>. QED  BY <2>1, <2>3, <2>4, <2>5
<1>2. Inv /\ [Next]_vars => Inv'
  BY LockingStep, FeedTypeStep, DrainedStep, DeliveredStep
<1>3. Inv => OnlyOverflowLeavesGaps
  <2>. SUFFICES ASSUME Inv, NEW c \in Conns \ overflowed
                PROVE  /\ \A i \in 1..Len(sent[c]) : i <= Len(offered[c]) /\ sent[c][i] = offered[c][i]
                       /\ wpc[c] # "ended" => Pipe(c) \o Pending(c) = offered[c]
                       /\ wpc[c] = "ended" /\ ~WriteFailed(c) => sent[c] = offered[c]
    BY DEF OnlyOverflowLeavesGaps, Pipe, Pending
  <2>1. /\ sent[c] \in Seq(Messages) /\ hand[c] \in Seq(Messages) /\ queue[c] \in Seq(Messages)
        /\ Pending(c) \in Seq(Messages)
    <3>1. c \in left => msg \in Messages
      BY DEF Locking, FeedType
    <3>2. c \in left => <<msg>> \in Seq(Messages)
      BY <3>1, SMT
    <3>. QED  BY <3>2, EmptySeq DEF FeedType, Pending
  <2>2. sent[c] \o hand[c] \in Seq(Messages) /\ Pipe(c) \in Seq(Messages)
    BY <2>1, ConcatProperties DEF Pipe
  <2>3. \A i \in 1..Len(sent[c]) : i <= Len(offered[c]) /\ sent[c][i] = offered[c][i]
    <3>. SUFFICES ASSUME NEW i \in 1..Len(sent[c])
                  PROVE  i <= Len(offered[c]) /\ offered[c][i] = sent[c][i]
      OBVIOUS
    <3>1. i \in 1..Len(sent[c] \o hand[c]) /\ (sent[c] \o hand[c])[i] = sent[c][i]
      <4>1. i \in 1..Len(sent[c])
        OBVIOUS
      <4>. QED  BY ONLY <2>1, <4>1, FrontOfConcat
    <3>2. i \in 1..Len(Pipe(c)) /\ Pipe(c)[i] = sent[c][i]
      <4>. PICK a \in Seq(Messages) : a = sent[c] \o hand[c]
        BY <2>2
      <4>1. i \in 1..Len(a) /\ a[i] = sent[c][i]
        BY <3>1
      <4>2. i \in 1..Len(a \o queue[c]) /\ (a \o queue[c])[i] = a[i]
        BY ONLY <2>1, <4>1, FrontOfConcat
      <4>. QED  BY <4>1, <4>2 DEF Pipe
    <3>3. i <= Len(Pipe(c) \o Pending(c)) /\ (Pipe(c) \o Pending(c))[i] = Pipe(c)[i]
      <4>1. /\ i \in 1..Len(Pipe(c) \o Pending(c))
            /\ (Pipe(c) \o Pending(c))[i] = Pipe(c)[i]
        BY ONLY <2>1, <2>2, <3>2, FrontOfConcat
      <4>. QED  BY ONLY <4>1, SMT
    <3>. QED  BY <3>2, <3>3 DEF Delivered
  <2>4. ASSUME wpc[c] = "ended", ~WriteFailed(c)  PROVE sent[c] = offered[c]
    <3>1. hand[c] = <<>> /\ queue[c] = <<>> /\ c \notin left
      BY <2>4 DEF WriteFailed, Drained, Locking
    <3>2. sent[c] \o <<>> = sent[c]
      BY <2>1, ConcatEmptySeq
    <3>. QED  BY <3>1, <3>2 DEF Delivered, Pipe, Pending
  <2>. QED  BY <2>3, <2>4 DEF Delivered
<1>. QED  BY <1>1, <1>2, <1>3, PTL DEF Spec
=============================================================================
