------------------------------ MODULE JobReads ------------------------------
(***************************************************************************)
(* The read paths over the job queue: GET /jobs/{id} and the transcript    *)
(* download, each several queries with no transaction around them, called  *)
(* by the dashboard's job page or by any other client while the handlers,  *)
(* the workers and the reaper of JobQueue go on.                           *)
(***************************************************************************)
EXTENDS JobQueue

CONSTANT Readers   \* open job pages, and other clients of GET /jobs/{id}/transcript

VARIABLES
  qpc,     \* reader: the query it makes next
  qjob,    \* the job it asks about
  seen,    \* what of jobQuery.data matters: "succeeded" or another status
  answer   \* what GetTranscript answered

reads == <<qpc, qjob, seen, answer>>
allVars == <<vars, reads>>

ReadInit ==
  /\ Init
  /\ qpc = [v \in Readers |-> "idle"]
  /\ qjob = [v \in Readers |-> None]
  /\ seen = [v \in Readers |-> "other"]
  /\ answer = [v \in Readers |-> "none"]

-----------------------------------------------------------------------------
(* The queries.                                                            *)

GetJob(j) == IF Visible(j) THEN status[j] ELSE "absent"

(* transcripts has the row; segments come with the worker's next insert.   *)
GetTranscript(j) == IF j \in transcripts THEN "segments" ELSE "idle"
ListSegments(j) == IF j \in segments THEN "finished" ELSE "unfinished"

ReadGoto(v, l) == qpc' = [qpc EXCEPT ![v] = l]

(* Service.Get on a page: the row, then its events, which the page lists   *)
(* as they are.                                                            *)
ReadJob(v, j) ==
  /\ qpc[v] \in {"idle", "shown"}
  /\ qjob[v] \in {None, j}
  /\ qjob' = [qjob EXCEPT ![v] = j]
  /\ GetJob(j) # "absent"
  /\ seen' = [seen EXCEPT ![v] = IF GetJob(j) = "succeeded" THEN "succeeded" ELSE "other"]
  /\ ReadGoto(v, "shown")
  /\ UNCHANGED answer

(* A page that asks for the transcript of any job it shows.                *)
AskTranscriptEarly(v) ==
  /\ qpc[v] = "shown"
  /\ seen' = [seen EXCEPT ![v] = "succeeded"]
  /\ ReadGoto(v, "job")
  /\ UNCHANGED <<qjob, answer>>

(* transcriptQuery is enabled once the page shows succeeded.               *)
AskTranscript(v) ==
  /\ qpc[v] = "shown" /\ seen[v] = "succeeded"
  /\ ReadGoto(v, "job")
  /\ UNCHANGED <<qjob, seen, answer>>

(* Another client may ask at any time.                                     *)
CallTranscript(v, j) ==
  /\ qpc[v] = "idle"
  /\ qjob' = [qjob EXCEPT ![v] = j]
  /\ ReadGoto(v, "job")
  /\ UNCHANGED <<seen, answer>>

Answer(v, a) ==
  /\ answer' = [answer EXCEPT ![v] = a]
  /\ ReadGoto(v, "done")
  /\ UNCHANGED <<qjob, seen>>

(* Service.GetTranscript, one query at a time; the job's status is read    *)
(* and not looked at.                                                      *)
TranscriptJob(v) ==
  /\ qpc[v] = "job"
  /\ \/ GetJob(qjob[v]) = "absent" /\ Answer(v, "not_found")
     \/ GetJob(qjob[v]) # "absent" /\ ReadGoto(v, "transcript") /\ UNCHANGED <<qjob, seen, answer>>

TranscriptRow(v) ==
  /\ qpc[v] = "transcript"
  /\ \/ GetTranscript(qjob[v]) = "idle" /\ Answer(v, "not_found")
     \/ GetTranscript(qjob[v]) = "segments" /\ ReadGoto(v, "segments") /\ UNCHANGED <<qjob, seen, answer>>

TranscriptSegments(v) ==
  /\ qpc[v] = "segments"
  /\ Answer(v, ListSegments(qjob[v]))

ReadStep ==
  \E v \in Readers :
    \/ AskTranscript(v)
    \/ \E j \in Jobs : ReadJob(v, j) \/ CallTranscript(v, j)
    \/ TranscriptJob(v) \/ TranscriptRow(v) \/ TranscriptSegments(v)

ReadNext ==
  \/ ReadStep /\ UNCHANGED vars
  \/ Next /\ UNCHANGED reads

ReadSpec == ReadInit /\ [][ReadNext]_allVars

-----------------------------------------------------------------------------
(* A page that has shown succeeded gets the whole transcript, or is told   *)
(* the job is gone because its owner deleted it, whatever the workers, the *)
(* reaper and other requests did between its queries: even when a late     *)
(* worker has taken the job out of succeeded again.                        *)
PageGetsWholeTranscript ==
  \A v \in Readers : seen[v] = "succeeded" =>
    /\ answer[v] # "unfinished"
    /\ answer[v] = "not_found" => deleted[qjob[v]]
=============================================================================
