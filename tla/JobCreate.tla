----------------------------- MODULE JobCreate -----------------------------
(***************************************************************************)
(* Submitting audio: POST /uploads, the PUT to the object store and        *)
(* POST /jobs with or without an Idempotency-Key, by clients of one user   *)
(* that try again when a call fails.  A client that gave up on a POST may  *)
(* meet the handler of that POST still running.                            *)
(***************************************************************************)
EXTENDS Naturals, FiniteSets

CONSTANTS
  Clients,    \* each submits one file
  Keys,       \* Idempotency-Keys
  NoKey,      \* none is sent, as by the dashboard's useUpload
  None,
  MaxPosts,   \* bound: POSTs to /jobs per client
  Deletes,    \* do owners delete jobs?
  Faults,     \* which kinds of failure happen
  MaxFaults   \* bound: how many failures happen

FaultKinds == {"request_error", "lost_reply", "put_error"}

ASSUME KeyAssumption == NoKey \notin Keys
ASSUME FaultsAssumption == Faults \subseteq FaultKinds /\ MaxFaults \in Nat /\ MaxPosts \in Nat

(* <<c, n>> is the n-th POST of client c: its handler, the id of the row   *)
(* that handler inserts, and the object uploaded to be named in it first.  *)
Posts == Clients \X (1..MaxPosts)

ASSUME NoneAssumption == None \notin Posts

VARIABLES
  key,                        \* the key a client sends with every POST, or NoKey
  phase, tries, object, job,  \* client: phase, POSTs so far, object, job it got
  hpc,                        \* handler of a POST: next call
  objectKey,                  \* the object a POST names, stored in its row
  status, deleted,            \* jobs rows
  created,                    \* jobs with a "created" event
  stream,                     \* jobs ever added to jobs:pending
  objects,                    \* objects in the object store
  faults

client == <<phase, tries, object, job>>
rows == <<status, objectKey, deleted>>
vars == <<key, client, hpc, rows, created, stream, objects, faults>>

Phases == {"idle", "uploading", "creating", "waiting", "error", "rejected", "done"}
HandlerPcs ==
  {"unused", "lookup", "insert", "created_event", "transition", "queued_event", "enqueue", "done"}
KeyOf(h) == key[h[1]]
Rows == {h \in Posts : status[h] # "absent"}

Init ==
  /\ key \in [Clients -> Keys \cup {NoKey}]
  /\ phase = [c \in Clients |-> "idle"]
  /\ tries = [c \in Clients |-> 0]
  /\ object = [c \in Clients |-> None]
  /\ job = [c \in Clients |-> None]
  /\ hpc = [h \in Posts |-> "unused"]
  /\ status = [h \in Posts |-> "absent"]
  /\ objectKey = [h \in Posts |-> None]
  /\ deleted = [h \in Posts |-> FALSE]
  /\ created = {} /\ stream = {} /\ objects = {}
  /\ faults = 0

Fault(kind) ==
  /\ kind \in Faults
  /\ faults < MaxFaults
  /\ faults' = faults + 1

-----------------------------------------------------------------------------
(* The client.                                                             *)

(* POST /uploads: an unacceptable file is refused, by the client's own     *)
(* check or by the handler's; otherwise a fresh object key is presigned.   *)
(* A file accepted once is accepted again.                                 *)
CreateUpload(c) ==
  /\ phase[c] = "idle" /\ tries[c] < MaxPosts
  /\ \/ /\ phase' = [phase EXCEPT ![c] = "uploading"]
        /\ object' = [object EXCEPT ![c] = <<c, tries[c] + 1>>]
     \/ /\ object[c] = None
        /\ phase' = [phase EXCEPT ![c] = "rejected"]
        /\ UNCHANGED object
  /\ UNCHANGED <<tries, job, hpc, rows, created, stream, objects, faults, key>>

PutUpload(c) ==
  /\ phase[c] = "uploading"
  /\ \/ /\ phase' = [phase EXCEPT ![c] = "creating"]
        /\ objects' = objects \cup {object[c]}
        /\ UNCHANGED faults
     \/ /\ Fault("put_error")
        /\ phase' = [phase EXCEPT ![c] = "error"]
        /\ UNCHANGED objects
  /\ UNCHANGED <<tries, object, job, hpc, rows, created, stream, key>>

(* POST /jobs; the lookup is made only for a request with a key.           *)
PostJob(c) ==
  /\ phase[c] = "creating" /\ tries[c] < MaxPosts
  /\ phase' = [phase EXCEPT ![c] = "waiting"]
  /\ tries' = [tries EXCEPT ![c] = @ + 1]
  /\ hpc' = [hpc EXCEPT ![<<c, tries[c] + 1>>] = IF key[c] = NoKey THEN "insert" ELSE "lookup"]
  /\ objectKey' = [objectKey EXCEPT ![<<c, tries[c] + 1>>] = object[c]]
  /\ UNCHANGED <<object, job, status, deleted, created, stream, objects, faults, key>>

(* A dashboard that repeats only the POST, without a key.                  *)
TryAgainSameObject(c) ==
  /\ phase[c] = "error"
  /\ phase' = [phase EXCEPT ![c] = IF object[c] \in objects THEN "creating" ELSE "idle"]
  /\ UNCHANGED <<tries, object, job, hpc, rows, created, stream, objects, faults, key>>

(* With a key the POST is repeated; without one upload() starts over.      *)
TryAgain(c) ==
  /\ phase[c] = "error"
  /\ phase' = [phase EXCEPT ![c] =
       IF key[c] # NoKey /\ object[c] \in objects THEN "creating" ELSE "idle"]
  /\ UNCHANGED <<tries, object, job, hpc, rows, created, stream, objects, faults, key>>

(* Timeout or lost connection: the client hears no answer, and the handler *)
(* runs on until a call with its cancelled context fails, or to its end.   *)
LoseReply(c) ==
  /\ Fault("lost_reply")
  /\ phase[c] = "waiting"
  /\ phase' = [phase EXCEPT ![c] = "error"]
  /\ UNCHANGED <<tries, object, job, hpc, rows, created, stream, objects, key>>

-----------------------------------------------------------------------------
(* The handler of a POST: Service.Create.                                  *)

HandlerGoto(h, l) == hpc' = [hpc EXCEPT ![h] = l] /\ UNCHANGED client

Awaited(h) == phase[h[1]] = "waiting" /\ tries[h[1]] = h[2]

(* The answer, if the client still waits for it: job i, or a 500.          *)
Respond(h, i) ==
  /\ hpc' = [hpc EXCEPT ![h] = "done"]
  /\ phase' = [phase EXCEPT ![h[1]] =
       IF ~Awaited(h) THEN @ ELSE IF i = None THEN "error" ELSE "done"]
  /\ job' = [job EXCEPT ![h[1]] = IF Awaited(h) THEN i ELSE @]
  /\ UNCHANGED <<tries, object>>

(* A lookup that skips jobs that are not queued yet.                       *)
PublishedByKey(k) == {i \in Rows : KeyOf(i) = k /\ ~deleted[i] /\ status[i] # "pending"}
JobsByKey(k) == {i \in Rows : KeyOf(i) = k /\ ~deleted[i]}

(* Without the unique index.                                               *)
NoKeyConflict(h) == FALSE
(* jobs_user_idempotency_key_idx holds deleted rows as well.               *)
KeyConflict(h) == KeyOf(h) # NoKey /\ \E i \in Rows : KeyOf(i) = KeyOf(h)

(* The created event is written for the request, ahead of the lookup.      *)
LookupAfterEvent(h) ==
  /\ hpc[h] = "lookup"
  /\ created' = created \cup {h}
  /\ \/ \E i \in JobsByKey(KeyOf(h)) : Respond(h, i)
     \/ JobsByKey(KeyOf(h)) = {} /\ HandlerGoto(h, "insert")
  /\ UNCHANGED <<rows, stream, objects, faults, key>>

Lookup(h) ==
  /\ hpc[h] = "lookup"
  /\ \/ \E i \in JobsByKey(KeyOf(h)) : Respond(h, i)
     \/ JobsByKey(KeyOf(h)) = {} /\ HandlerGoto(h, "insert")
  /\ UNCHANGED <<rows, created, stream, objects, faults, key>>

InsertJob(h) ==
  /\ hpc[h] = "insert"
  /\ \/ KeyConflict(h) /\ Respond(h, None) /\ UNCHANGED rows
     \/ /\ ~KeyConflict(h)
        /\ status' = [status EXCEPT ![h] = "pending"]
        /\ HandlerGoto(h, "created_event")
        /\ UNCHANGED <<objectKey, deleted>>
  /\ UNCHANGED <<created, stream, objects, faults, key>>

CreatedEvent(h) ==
  /\ hpc[h] = "created_event"
  /\ created' = created \cup {h}
  /\ HandlerGoto(h, "transition")
  /\ UNCHANGED <<rows, stream, objects, faults, key>>

ToQueued(h) ==
  /\ hpc[h] = "transition"
  /\ \/ deleted[h] /\ Respond(h, None) /\ UNCHANGED status
     \/ /\ ~deleted[h]
        /\ status' = [status EXCEPT ![h] = "queued"]
        /\ HandlerGoto(h, "queued_event")
  /\ UNCHANGED <<objectKey, deleted, created, stream, objects, faults, key>>

(* An answer straight after the event.                                     *)
QueuedEventReturns(h) ==
  /\ hpc[h] = "queued_event"
  /\ Respond(h, h)
  /\ UNCHANGED <<rows, created, stream, objects, faults, key>>

QueuedEvent(h) ==
  /\ hpc[h] = "queued_event"
  /\ HandlerGoto(h, "enqueue")
  /\ UNCHANGED <<rows, created, stream, objects, faults, key>>

Enqueue(h) ==
  /\ hpc[h] = "enqueue"
  /\ stream' = stream \cup {h}
  /\ Respond(h, h)
  /\ UNCHANGED <<rows, created, objects, faults, key>>

(* A call fails, by itself or because the client is gone: the handler      *)
(* answers 500 with its earlier effects in place.                          *)
HandlerError(h) ==
  /\ hpc[h] \notin {"unused", "done"}
  /\ \/ Fault("request_error")
     \/ ~Awaited(h) /\ UNCHANGED faults
  /\ Respond(h, None)
  /\ UNCHANGED <<rows, created, stream, objects, key>>

(* DELETE /jobs/{id} hides the row, then removes its object, best effort;  *)
(* JobQueue has the steps in between.                                      *)
DeleteJob(h) ==
  /\ Deletes
  /\ h \in Rows /\ ~deleted[h]
  /\ deleted' = [deleted EXCEPT ![h] = TRUE]
  /\ objects' \in {objects, objects \ {objectKey[h]}}
  /\ UNCHANGED <<client, hpc, status, objectKey, created, stream, faults, key>>

-----------------------------------------------------------------------------
ClientStep(c) == CreateUpload(c) \/ PutUpload(c) \/ PostJob(c) \/ TryAgain(c)

HandlerStep(h) ==
  Lookup(h) \/ InsertJob(h) \/ CreatedEvent(h) \/ ToQueued(h) \/ QueuedEvent(h) \/ Enqueue(h)

Next ==
  \/ \E c \in Clients : ClientStep(c) \/ LoseReply(c)
  \/ \E h \in Posts : HandlerStep(h) \/ HandlerError(h) \/ DeleteJob(h)

Spec == Init /\ [][Next]_vars

(* Handlers run to their end, and a client tries again while it may.       *)
FairSpec ==
  /\ Spec
  /\ \A c \in Clients : WF_vars(ClientStep(c))
  /\ \A h \in Posts : WF_vars(HandlerStep(h))

-----------------------------------------------------------------------------
(* A key names at most one job, deleted jobs included, though two POSTs    *)
(* with one key may both find nothing in their lookup; and every client    *)
(* that sent the key and was answered got that job.                        *)
OneJobPerKey ==
  /\ \A i, k \in Rows : KeyOf(i) = KeyOf(k) /\ KeyOf(i) # NoKey => i = k
  /\ \A c \in Clients : job[c] # None => job[c] \in Rows /\ KeyOf(job[c]) = key[c]

(* "created" is recorded at most once for a key, so retried submissions    *)
(* are not counted twice by jobs_submitted_total (listener.go's comment).  *)
CountedOncePerKey ==
  \A i, k \in created : KeyOf(i) = KeyOf(k) /\ KeyOf(i) # NoKey => i = k

(* The audio of a job that is not deleted is in the object store: no other *)
(* job was made from the same object, whose deletion would take it away.   *)
(* This rests on the clients, the dashboard's useUpload and callers that   *)
(* send a key: JobHandler.Create itself accepts any object_key.            *)
LiveJobHasAudio == \A h \in Rows : ~deleted[h] => objectKey[h] \in objects

(* While nothing fails, the job a client was given has been handed to the *)
(* workers, or the handler that inserted it is about to do so (or its      *)
(* owner deleted it): "Create inserts a new job, enqueues it, and returns  *)
(* it" (service.go).  After a failed XADD a client that tries again with   *)
(* its key is given the job that was never handed over.                    *)
AnsweredJobIsEnqueued ==
  \A c \in Clients : faults = 0 /\ job[c] # None =>
    job[c] \in stream \/ deleted[job[c]] \/ hpc[job[c]] \notin {"unused", "done"}

(* A client that tries again gets its job, though a concurrent POST with   *)
(* the same key may make its insert fail once.  What can leave it without  *)
(* one is a failure, a deleted job that still occupies the key, or an      *)
(* owner who deletes its own job before it is answered.                    *)
EveryClientServed ==
  \A c \in Clients : (phase[c] = "creating") ~>
    \/ phase[c] = "done" \/ faults > 0
    \/ \E i \in Rows : deleted[i] /\ (i[1] = c \/ (KeyOf(i) = key[c] /\ key[c] # NoKey))
=============================================================================
