--------------------------- MODULE JobRefinement ---------------------------
(***************************************************************************)
(* The job queue as an implementation of JobLifecycle: the stream, the     *)
(* leases, the reaper and every process's program counter are hidden, a    *)
(* worker is at work on a job while it holds the claim.                    *)
(***************************************************************************)
EXTENDS JobQueue

Working == [j \in Jobs |-> \E w \in Workers : Holds(w, j)]

Lifecycle ==
  INSTANCE JobLifecycle WITH working <- Working, tries <- claims, hidden <- deleted

(* The one departure: a cancel does not reach the worker, and the attempt  *)
(* under way writes its outcome over the cancelled status.                 *)
CancelIgnored(j) ==
  /\ status[j] = "cancelled" /\ Working[j]
  /\ \E s \in {"succeeded", IF claims[j] = MaxAttempts THEN "failed" ELSE "queued"} :
       status' = [status EXCEPT ![j] = s]
  /\ Working' = [Working EXCEPT ![j] = FALSE]
  /\ UNCHANGED <<claims, deleted>>

LifeStep == Lifecycle!Next \/ \E j \in Jobs : CancelIgnored(j)

(* When renewals keep ahead of the lease, every step of every process is   *)
(* one step of one job's life cycle, the one departure named above, or     *)
(* changes nothing the job's owner can see: no two attempts at a time,     *)
(* none beyond the budget, no other status overwritten (the WHERE clauses  *)
(* of store.py and jobs.go, for all interleavings of their writers).       *)
ImplementsLifecycle == Lifecycle!Init /\ [][LifeStep]_(Lifecycle!vars)
=============================================================================
