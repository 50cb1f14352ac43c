---------------------------- MODULE JobLifecycle ----------------------------
(***************************************************************************)
(* What the platform promises about one transcription job, with no stream, *)
(* no leases and no processes: the status its owner sees, whether a worker *)
(* is at work on it, and how many attempts it has had since it was created *)
(* or retried by its owner.  The moves are those of job.go (transitions,   *)
(* CanCancel, CanRetry), with processing -> retrying -> queued as one, as  *)
(* every writer makes it: no row ever has status retrying.  JobRefinement  *)
(* shows how far the job queue implements this.                            *)
(***************************************************************************)
EXTENDS Naturals

CONSTANTS Jobs, MaxAttempts

VARIABLES
  status,   \* jobs.status
  working,  \* is a worker at work on the job?
  tries,    \* attempts begun since creation or the owner's last retry
  hidden    \* soft-deleted

vars == <<status, working, tries, hidden>>

Init ==
  /\ status = [j \in Jobs |-> "absent"]
  /\ working = [j \in Jobs |-> FALSE]
  /\ tries = [j \in Jobs |-> 0]
  /\ hidden = [j \in Jobs |-> FALSE]

Moves(j, from, to) ==
  /\ status[j] \in from
  /\ status' = [status EXCEPT ![j] = to]

Create(j) == Moves(j, {"absent"}, "pending") /\ UNCHANGED <<working, tries, hidden>>

Publish(j) ==
  /\ Moves(j, {"pending"}, "queued")
  /\ ~hidden[j]
  /\ UNCHANGED <<working, tries, hidden>>

(* An attempt begins, within the budget and only when no other one runs.   *)
Claim(j) ==
  /\ Moves(j, {"queued"}, "processing")
  /\ ~hidden[j] /\ ~working[j] /\ tries[j] < MaxAttempts
  /\ working' = [working EXCEPT ![j] = TRUE]
  /\ tries' = [tries EXCEPT ![j] = @ + 1]
  /\ UNCHANGED hidden

(* The attempt under way succeeds.                                         *)
Succeed(j) ==
  /\ working[j]
  /\ Moves(j, {"processing"}, "succeeded")
  /\ working' = [working EXCEPT ![j] = FALSE]
  /\ UNCHANGED <<tries, hidden>>

(* The attempt under way fails, or one whose worker was lost is given up:  *)
(* the job is queued again while the budget lasts and failed after that.   *)
Fail(j) ==
  /\ Moves(j, {"processing"}, IF tries[j] = MaxAttempts THEN "failed" ELSE "queued")
  /\ working' = [working EXCEPT ![j] = FALSE]
  /\ UNCHANGED <<tries, hidden>>

(* The worker is lost, or stops after a cancel; the status does not change.*)
Lose(j) ==
  /\ working[j]
  /\ working' = [working EXCEPT ![j] = FALSE]
  /\ UNCHANGED <<status, tries, hidden>>

Cancel(j) ==
  /\ Moves(j, {"queued", "processing"}, "cancelled")
  /\ ~hidden[j]
  /\ UNCHANGED <<working, tries, hidden>>

Retry(j) ==
  /\ Moves(j, {"failed"}, "queued")
  /\ ~hidden[j]
  /\ tries' = [tries EXCEPT ![j] = 0]
  /\ UNCHANGED <<working, hidden>>

Hide(j) ==
  /\ ~hidden[j]
  /\ hidden' = [hidden EXCEPT ![j] = TRUE]
  /\ UNCHANGED <<status, working, tries>>

JobStep(j) ==
  \/ Create(j) \/ Publish(j) \/ Claim(j) \/ Succeed(j) \/ Fail(j)
  \/ Lose(j) \/ Cancel(j) \/ Retry(j) \/ Hide(j)

Next == \E j \in Jobs : JobStep(j)

Spec == Init /\ [][Next]_vars
=============================================================================
