------------------------------ MODULE JobStream ------------------------------
(***************************************************************************)
(* The jobs:pending stream and its consumer group "workers", which module  *)
(* JobQueue takes for a plain queue: who creates the group and when, what  *)
(* XREADGROUP and XACK do to it, and the job_queue_depth gauge the API     *)
(* derives from it.  A row is made queued in one statement and published   *)
(* by a later XADD, by an API handler, a worker or the reaper; what else   *)
(* happens to a job between delivery and XACK is JobQueue's subject: here  *)
(* it settles the job or loses it to the reaper.                           *)
(***************************************************************************)
EXTENDS Integers, Sequences, FiniteSets

CONSTANTS
  Jobs,      \* each created once
  Workers,
  None,      \* no consumer group; no entry in a worker's hands
  Faults,    \* which of FaultKinds happen
  MaxFaults  \* bound: how many

Producers == {"handler", "reaper"}
FaultKinds == {"crash", "api_crash", "exception", "retry", "redis_error"}

ASSUME StreamAssumption ==
  /\ None \notin Jobs \cup Int /\ MaxFaults \in Nat
  /\ Faults \subseteq FaultKinds

VARIABLES
  log,        \* entries of the stream; nothing trims or deletes them
  group,      \* the group's last-delivered entry, or None
  pending,    \* its pending-entries list
  consumer,   \* workers: next call
  entry,      \* and the entry being processed
  created,    \* jobs the API has made queued
  publishing, \* <<job, by whom>>: row queued by the API process, XADD to come
  settled,    \* jobs that reached a terminal status
  lost,       \* jobs left processing, whose lease will run out
  faults,
  depth,      \* metrics.JobQueueDepth
  stranded,   \* history: jobs left queued by a failure before their XADD, or
              \* between XREADGROUP and the claim
  orphans     \* history: entries whose worker died before it acked them

workers == <<consumer, entry>>
jobs == <<created, publishing, settled, lost>>
streamHistory == <<stranded, orphans>>
streamVars == <<log, group, pending, workers, jobs, faults, depth, streamHistory>>

StreamInit ==
  /\ log = <<>> /\ group = None /\ pending = {}
  /\ consumer = [w \in Workers |-> "down"]
  /\ entry = [w \in Workers |-> None]
  /\ created = {} /\ publishing = {} /\ settled = {} /\ lost = {}
  /\ faults = 0 /\ depth = 0 /\ stranded = {} /\ orphans = {}

Fault(kind) == kind \in Faults /\ faults < MaxFaults /\ faults' = faults + 1

(* The entries no worker has been given.                                   *)
Undelivered == SubSeq(log, (IF group = None THEN 0 ELSE group) + 1, Len(log))

-----------------------------------------------------------------------------
(* Producers.  The stream exists from the first XADD, or from the first    *)
(* worker's XGROUP CREATE MKSTREAM, whichever comes first.                 *)

(* Service.Create: the row becomes queued, and Enqueue is its last call.   *)
Transition(j) ==
  /\ j \notin created
  /\ created' = created \cup {j}
  /\ publishing' = publishing \cup {<<j, "handler">>}
  /\ UNCHANGED <<log, group, pending, workers, settled, lost, faults, depth, streamHistory>>

(* ReapOnce, one job at a time: failed after the last attempt, or queued   *)
(* again and to be published.                                              *)
ReapJob(j) ==
  /\ j \in lost /\ \A e \in publishing : e[2] # "reaper"
  /\ lost' = lost \ {j}
  /\ \/ settled' = settled \cup {j} /\ UNCHANGED publishing
     \/ publishing' = publishing \cup {<<j, "reaper">>} /\ UNCHANGED settled
  /\ UNCHANGED <<log, group, pending, workers, created, faults, depth, streamHistory>>

(* Producer.Enqueue: a fresh entry; an old one stays where it is.  On an   *)
(* error the handler returns, the reaper goes on to the next job.          *)
Enqueue(j, by) ==
  /\ <<j, by>> \in publishing
  /\ publishing' = publishing \ {<<j, by>>}
  /\ \/ log' = Append(log, j) /\ UNCHANGED <<faults, stranded>>
     \/ Fault("redis_error") /\ stranded' = stranded \cup {j} /\ UNCHANGED log
  /\ UNCHANGED <<group, pending, workers, created, settled, lost, depth, orphans>>

(* The API process dies with its handlers and its reaper.                  *)
ApiCrash ==
  /\ Fault("api_crash") /\ publishing # {}
  /\ publishing' = {}
  /\ stranded' = stranded \cup {j \in Jobs : \E by \in Producers : <<j, by>> \in publishing}
  /\ UNCHANGED <<log, group, pending, workers, created, settled, lost, depth, orphans>>

-----------------------------------------------------------------------------
(* Workers.                                                                *)

(* XGROUP CREATE ... id "0"; with a group there it is a BUSYGROUP error.   *)
(* Altered: id "$".                                                        *)
GroupFromLastEntry == IF group = None THEN Len(log) ELSE group
(* Altered: an existing group is set back to the first entry.              *)
GroupReset == 0
GroupCreated == IF group = None THEN 0 ELSE group

ConnectRedis(w) ==
  /\ consumer[w] = "down"
  /\ consumer' = [consumer EXCEPT ![w] = "reading"]
  /\ group' = GroupCreated
  /\ UNCHANGED <<log, pending, entry, jobs, faults, depth, streamHistory>>

(* XREADGROUP with ">" and count 1; without a new entry it blocks, times   *)
(* out and is repeated.                                                    *)
ReadGroup(w) ==
  /\ consumer[w] = "reading"
  /\ group < Len(log)
  /\ group' = group + 1
  /\ pending' = pending \cup {group'}
  /\ entry' = [entry EXCEPT ![w] = group']
  /\ consumer' = [consumer EXCEPT ![w] = "claiming"]
  /\ UNCHANGED <<log, jobs, faults, depth, streamHistory>>

(* claim_next: the row is processing under a lease, and the reaper's from  *)
(* now on if the worker gives up; before, an exception or a death leaves   *)
(* it queued and no one comes back to it.                                  *)
Claim(w) ==
  /\ consumer[w] = "claiming"
  /\ \/ /\ consumer' = [consumer EXCEPT ![w] = "processing"]
        /\ UNCHANGED <<faults, stranded>>
     \/ /\ Fault("exception")
        /\ consumer' = [consumer EXCEPT ![w] = "ack"]
        /\ stranded' = stranded \cup {log[entry[w]]}
  /\ UNCHANGED <<log, group, pending, entry, jobs, depth, orphans>>

(* process_job: a terminal status, a failed attempt whose row is queued    *)
(* again, or an exception it lets through; the entry is acked in any case. *)
(* Altered: an exception skips the XACK.                                   *)
ProcessAckOnSuccess(w) ==
  /\ consumer[w] = "processing"
  /\ \/ /\ settled' = settled \cup {log[entry[w]]}
        /\ consumer' = [consumer EXCEPT ![w] = "ack"]
        /\ UNCHANGED <<lost, entry, faults>>
     \/ /\ Fault("exception")
        /\ lost' = lost \cup {log[entry[w]]}
        /\ consumer' = [consumer EXCEPT ![w] = "reading"]
        /\ entry' = [entry EXCEPT ![w] = None]
        /\ UNCHANGED settled
  /\ UNCHANGED <<log, group, pending, created, publishing, depth, streamHistory>>
ProcessJob(w) ==
  /\ consumer[w] = "processing"
  /\ \/ /\ settled' = settled \cup {log[entry[w]]}
        /\ consumer' = [consumer EXCEPT ![w] = "ack"]
        /\ UNCHANGED <<lost, faults>>
     \/ /\ Fault("retry")
        /\ consumer' = [consumer EXCEPT ![w] = "xadd"]
        /\ UNCHANGED <<settled, lost>>
     \/ /\ Fault("exception")
        /\ lost' = lost \cup {log[entry[w]]}
        /\ consumer' = [consumer EXCEPT ![w] = "ack"]
        /\ UNCHANGED settled
  /\ UNCHANGED <<log, group, pending, entry, created, publishing, depth, streamHistory>>

(* The failed attempt is published again, unless the XADD (or an event     *)
(* insert before it) raises: the row is queued and the old entry is acked. *)
Xadd(w) ==
  /\ consumer[w] = "xadd"
  /\ consumer' = [consumer EXCEPT ![w] = "ack"]
  /\ \/ log' = Append(log, log[entry[w]]) /\ UNCHANGED <<faults, stranded>>
     \/ /\ Fault("exception")
        /\ stranded' = stranded \cup {log[entry[w]]}
        /\ UNCHANGED log
  /\ UNCHANGED <<group, pending, entry, jobs, depth, orphans>>

Ack(w) ==
  /\ consumer[w] = "ack"
  /\ pending' = pending \ {entry[w]}
  /\ entry' = [entry EXCEPT ![w] = None]
  /\ consumer' = [consumer EXCEPT ![w] = "reading"]
  /\ UNCHANGED <<log, group, jobs, faults, depth, streamHistory>>

(* The process dies and is started again.  It reads with ">", so what it   *)
(* had not acked stays pending under its old consumer.                     *)
WorkerCrash(w) ==
  /\ consumer[w] # "down"
  /\ Fault("crash")
  /\ consumer' = [consumer EXCEPT ![w] = "down"]
  /\ entry' = [entry EXCEPT ![w] = None]
  /\ lost' = IF consumer[w] = "processing" THEN lost \cup {log[entry[w]]} ELSE lost
  /\ stranded' =
       IF consumer[w] \in {"claiming", "xadd"} THEN stranded \cup {log[entry[w]]} ELSE stranded
  /\ orphans' = IF entry[w] = None THEN orphans ELSE orphans \cup {entry[w]}
  /\ UNCHANGED <<log, group, pending, created, publishing, settled, depth>>

-----------------------------------------------------------------------------
(* MetricsCollector.refresh: lag + pending of the group; zero when there   *)
(* is no stream or no group yet, or when XINFO GROUPS fails.  No entry is  *)
(* ever deleted, so Redis always knows the lag.                            *)
Refresh ==
  /\ \/ /\ depth' = IF group = None THEN 0 ELSE Len(log) - group + Cardinality(pending)
        /\ UNCHANGED faults
     \/ Fault("redis_error") /\ depth' = 0
  /\ UNCHANGED <<log, group, pending, workers, jobs, streamHistory>>

WorkerStep(w) ==
  ConnectRedis(w) \/ ReadGroup(w) \/ Claim(w) \/ ProcessJob(w) \/ Xadd(w) \/ Ack(w)

StreamNext ==
  \/ \E j \in Jobs : Transition(j) \/ ReapJob(j) \/ \E by \in Producers : Enqueue(j, by)
  \/ ApiCrash
  \/ \E w \in Workers : WorkerStep(w) \/ WorkerCrash(w)
  \/ Refresh

StreamSpec == StreamInit /\ [][StreamNext]_streamVars

(* A dead worker is started again, a live one keeps going, handlers and    *)
(* the reaper go on, the collector's ticker ticks.                         *)
FairStreamSpec ==
  /\ StreamSpec
  /\ \A w \in Workers : WF_streamVars(WorkerStep(w))
  /\ \A j \in Jobs :
       WF_streamVars(ReapJob(j)) /\ \A by \in Producers : WF_streamVars(Enqueue(j, by))
  /\ WF_streamVars(Refresh)

-----------------------------------------------------------------------------
(* What module JobQueue assumes of the stream: whatever the order in which *)
(* the API and the workers start, fail and restart, it is a queue; a step  *)
(* adds one job at its end or gives the first one to one worker.           *)
ActsAsQueue ==
  [][\/ Undelivered' = Undelivered
     \/ \E j \in Jobs : Undelivered' = Append(Undelivered, j)
     \/ /\ Undelivered # <<>> /\ Undelivered' = Tail(Undelivered)
        /\ \E w \in Workers :
             entry[w] = None /\ entry'[w] # None /\ log[entry'[w]] = Head(Undelivered)]_streamVars

(* No job the API queued is forgotten: it is settled, it has an entry past *)
(* the group's position, a worker that read it and is not done with it, a  *)
(* lease that will run out or a handler or reaper about to publish it; or  *)
(* something failed while its only trace was the queued row.               *)
Waits(j) == \E i \in 1..Len(log) : log[i] = j /\ (group = None \/ group < i)
AtWork(j) ==
  \E w \in Workers : consumer[w] \in {"claiming", "processing", "xadd"} /\ log[entry[w]] = j
BeingPublished(j) == \E by \in Producers : <<j, by>> \in publishing
NoJobForgotten ==
  \A j \in created :
    j \in settled \cup lost \cup stranded \/ Waits(j) \/ AtWork(j) \/ BeingPublished(j)

(* Every job the API queued is settled, also one enqueued before any       *)
(* worker had ever connected (id="0" in connect_redis) and one whose       *)
(* worker died after the claim (the reaper's fresh entry).  The only jobs  *)
(* that may be left are queued rows met by a failure at one of three       *)
(* places: before the handler's or the reaper's Enqueue, before the        *)
(* worker's xadd, or between a worker's XREADGROUP and its claim.          *)
EnqueuedJobSettles == \A j \in Jobs : j \in created ~> j \in settled \cup stranded

(* Once the jobs are through, job_queue_depth stays at the number of       *)
(* entries that dead workers left pending, and at 0 if none died: every    *)
(* live worker acks what it read, also after an exception (XACK in a       *)
(* finally clause), and a failed XINFO is made good by a later one.        *)
DepthSettles == <>[](depth = Cardinality(orphans))
=============================================================================
