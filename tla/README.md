# Verification of the ASR platform

TLA+ models of the transcription platform in `src/`, checked with TLC on small
instances, and theorems about them checked with TLAPS for every value of the
constants. `PROJECT.json` lists components, runs, mutants, the definition-to-source
map, findings, hazards and theorems.

## The system and its parts

A job is a row of Postgres. A client uploads audio to the object store with a presigned
URL and posts a job that names it. The API publishes the job's id on the Redis stream
`jobs:pending`; a worker reads the id, claims the row with a lease, transcribes, and
writes the outcome; the reaper goroutine of the API requeues or fails rows whose lease
has run out. Every change inserts a `job_events` row, whose trigger notifies the API's
listener; the hub pushes it over WebSockets to dashboards, which refetch what they show.
Nothing runs in a transaction: the worker's connection is autocommit and the Go stores
use the pool directly. What can go wrong is between two statements.

| Part | Source | Modules |
|---|---|---|
| Job service, store, reaper, worker | `api/internal/job`, `store`, `queue/reaper.go`, `worker/worker` | `JobQueue`; abstractly `JobLifecycle` |
| Stream, consumer group, depth gauge | `queue/queue.go`, `queue/metrics.go`, `worker/worker/client.py` | `JobStream` |
| Upload and idempotent creation | `http/upload_handlers.go`, `job/service.go`, `web/src/hooks/useUpload.ts` | `JobCreate` |
| Reading a job and its transcript | `job/service.go`, `http/transcript_handlers.go`, `web/src/pages/JobDetailPage.tsx` | `JobReads` |
| Listing with a cursor | `http/job_handlers.go`, `store/db/jobs.go` | `Pagination` |
| WebSocket hub, listener, handler | `api/internal/ws` | `Hub` |
| Dashboard live updates | `web/src/hooks/useJobStream.ts`, `ws` | `LiveUpdates` |
| Accounts and tokens | `auth/service.go`, `auth/jwt.go`, `http/auth_handlers.go` | `Accounts` |
| Calls behind `RequireAuth`, API keys, tickets | `http/middleware/auth.go`, `auth/service.go`, `http/ws_handlers.go` | `ApiKeys` |
| Dashboard session | `web/src/api/client.ts`, `web/src/auth/AuthContext.tsx` | `Session` |

How the modules relate: `JobRefinement` maps `JobQueue` to `JobLifecycle`. `JobReads`
extends `JobQueue` with readers. `JobStream` justifies the plain queue `JobQueue` uses
(`ActsAsQueue`). `LiveUpdates` composes listener, hub and dashboard, with `Hub` giving
the locking it takes as one step. `ApiKeys` extends `Accounts` with the calls that need a
credential, and its specification is that of the whole auth service. `Session` is the
browser's side of it.

## Modules

Everywhere, each SQL statement, stream command, object-store or HTTP call is one action,
named after the function that makes it; program counters name the next call of each
process, and only locals that outlive a call are state. `WHERE` clauses are operators.
Failures are actions, limited to the kinds in `Faults` (`Outages` in `LiveUpdates`) and,
where they could repeat for ever, to `MaxFaults` of them. History variables are read by no
guard. `MC*` modules instantiate a module for TLC. Operators used as mutated forms stand
just before the definition they alter and show that each property notices a plausible
mistake.

**`JobQueue`** composes API handlers, workers and the reaper. `status`, `attempts`,
`workerId`, `lease`, `deleted` are columns of `jobs` (`lease` keeps of
`lease_expires_at` whether it is null, ahead or past); `transcripts`, `segments`,
`events`, `objects` the jobs that have those; `stream` and `abandoned` the undelivered
entries and those whose worker died. A handler's call fails or its client goes away
(`RequestError`), a worker raises (`WorkerException`, which still acknowledges) or dies
(`WorkerCrash`), a reaper call fails (`ReaperError`), the API dies with its handlers and
reaper (`ApiCrash`). `LateRenewal` says whether the lease of a live worker may run out:
it is renewed every 20 s and lasts 60 s, so this takes a paused process, a stalled
connection, or slow writes after the renewer stopped. One API process runs
(`deploy/k8s/base/api.yaml`), so there is one reaper. Each element of `Requests` makes
one call; a call turned away by `GetJob`, `CanCancel` or `CanRetry` changes nothing and
is not a step. `executemany` is one step, and a transcript without segments counts as
having them.

**`JobLifecycle`**, **`JobRefinement`**: one job as its owner sees it: status, whether a
worker is at work, attempts since the last user retry, soft deletion. No stream, lease
or process. An attempt ends a job that is processing, as the table in `job.go` has it.
What the code does beyond that, an attempt that takes a job out of cancelled, is the step
`CancelIgnored` of `JobRefinement`, so that `ImplementsLifecycle` shows it to be the only
departure and `CancelledIsFinal` (run `cancel`) that it happens. `retrying` is never
stored, and a user's retry takes failed to queued.

**`JobReads`**: `Service.Get` and `Service.GetTranscript` query by query, by a page that
asks for the transcript once it has seen `succeeded` and by clients that ask any time.
A reader is one page and fetches one transcript.

**`JobCreate`**: `POST /uploads`, the PUT and `POST /jobs`, with a key chosen per client
or none. The handler looks the key up, inserts under the unique index (a conflict is an
error, and the client's next try finds the row), records the event, moves the row to
queued and publishes it. A client that gave up may meet the handler of its earlier POST
still running.

**`JobStream`**: log, last-delivered id, pending list, group creation by the first worker
to connect, before or after the API's first `XADD`, and the gauge's `XINFO GROUPS`. Who
makes a row queued (a handler, the reaper, a worker whose attempt failed) publishes it in
a later step, which may fail or never come; `stranded` records the jobs left so.

**`Hub`**: the RWMutex, the bounded channels, the read and write loop of each
connection, the listener that broadcasts. **`LiveUpdates`**: event insertion, listener
reconnects, one client's channel, socket, ticket, polling and reconnect timers, cleanup,
and the query cache of list and detail page; `lost` records every change the feed
dropped and where, and the pages whose refetch failed with its one retry.

**`Pagination`**: the keyset walk with its cursor, encoded as seconds and fraction
(RFC3339Nano) and decoded again, and the limit's clamping. Rows appear, disappear and
change status between pages.

**`Accounts`**, **`ApiKeys`**: registration, login and refresh with colliding emails; then
`RequireAuth`, which takes an API key (lookup, touch, handler: one statement each) or an
access token, and the calls behind it, which make and revoke keys and issue tickets by
either. A hash is a pair of password and salt, a token the call that issued it and its
type, a key the call that made it. `typed` and `lineage` record with what email and
password a call's chain of credentials began and which kinds it went through.
**`Session`**: tabs sharing `localStorage`, with one shared refresh per tab and one retry
per request; transcript downloads (`apiRequestText`) have neither.

## Runs

| Run | Instance | Shows | States |
|---|---|---|---|
| `late` | 1 job, 2 workers, 2 calls, 1 reader, late leases, no failures | `CompletedOnce`, `SucceededHasTranscript`, `VisibleJobHasAudio`, `QueuedIsDelivered`, `PageGetsWholeTranscript`, `TypeOK` | 2.2 M |
| `kept` | 1 job, 2 workers, 3 calls, 3 attempts, 2 failures of any kind, renewals on time | `ImplementsLifecycle`, `BudgetExact`, `OneDelivery`, `SingleHolder`, `SucceededIsFinal` | 0.4 M |
| `recovery` | 1 job, 2 workers, 2 calls, 2 failures, fair | `ProcessingIsReclaimed`; `EveryJobSettles` and `EventTrail` while nothing failed | 0.13 M |
| `worker_death` | 1 job, 2 workers, 1 call, 1 worker crash, fair | violation of `QueuedIsClaimed` | |
| `submit` | 2 clients, 1 key, 2 POSTs each, deletes, 1 failure, fair | `OneJobPerKey`, `CountedOncePerKey`, `LiveJobHasAudio`, `AnsweredJobIsEnqueued`, `EveryClientServed` | 0.2 M |
| `cancel` | 1 job, 1 worker, 2 calls, no failures | violation of `CancelledIsFinal` | |
| `stream` | 2 jobs, 2 workers, 2 failures, fair | `ActsAsQueue`, `EnqueuedJobSettles`, `DepthSettles` | 57 k |
| `feed` | 2 connections of one user, another user's events, buffer 1, 3 events, fair | `NoSendOnClosedChannel`, `OnlyOverflowLeavesGaps`, `BroadcastEnds`, `WriteLoopEnds` | 0.12 M |
| `updates` | buffer 1, 2 changes, 1 lost connection or failed fetch, fair | `StopsForGood`, `AnnouncedChangeShows`, `ListCatchesUpWhileDown`, `OverflowShowsOnList` | 0.12 M |
| `walk` | 4 jobs, 4 times, 2 ticks a second, pages of 2, fair | `NoDuplicates`, `NoSkips`, `WalkEnds` | 0.16 M |
| `auth` | 2 emails, 2 passwords, 4 calls, failing statements | `RegistrationOpensOwnAccount`, `ChainsStayInAccount`, `RevokedKeyIsDead`, `RevokedOnceByOwner` | 82 k |
| `session` | 2 tabs, 1 user, 4 requests, 3 access tokens | `OneRefreshPerTab`, `ExpiryIsInvisible`, `LoggedOutMeansNoTokens` | 0.7 M |

`worker_death`: `src/README.md:9-10` says workers "can die at any moment without losing
a job". A death between `XREADGROUP` and the claim leaves the job queued, its only entry
in a dead consumer's pending list that nobody reads, and the reaper looks at processing
jobs only.

`cancel`: `job_test.go:26` has "cancelled is terminal" and `job.go:88-90` says that a
transition not listed "is rejected by the service layer regardless of which code path
attempts it". A worker that has the job when it is cancelled writes its result
unconditionally: the job becomes succeeded, failed, or queued and is run again.

Several properties hold only with an exception the code really has, and name it:
`QueuedIsDelivered`, `EventTrail`, `EveryJobSettles` and `AnsweredJobIsEnqueued` hold
until something fails; `EveryClientServed` excludes the key of a deleted job, and an own
job deleted before it was answered, as well; `NoJobForgotten` and `EnqueuedJobSettles`
exclude the jobs in `stranded`, left queued by a failure at one of three places: before a
handler's or the reaper's `Enqueue`, before a worker's `xadd`, and between a worker's
`XREADGROUP` and its claim;
`DepthSettles` ends at the entries dead workers left pending (`orphans`), not at 0;
`NoChangeForgotten` and `AnnouncedChangeShows` exclude changes dropped at one of three
named places and pages whose refetch failed; `OverflowShowsOnList` the latter;
`OnlyOverflowLeavesGaps` lets a connection whose write failed miss the rest;
`ExpiryIsInvisible` is about `apiRequest` alone, since a download that meets an expired
token is refused; `LiveJobHasAudio` is about clients that act as `useUpload` does or send
a key, since `POST /jobs` accepts any `object_key`;
`LoggedOutMeansNoTokens` excludes a refresh in flight at the logout (`revived`);
`NoSkips` assumes distinct creation times and a limit within 1..100.

### Where the code departs from its documents

Behaviours of the models that contradict a test, comment or document. The first two have
a run; the others are what the exceptions above, and the assumption `LateRenewal =
FALSE`, are there for.

| Says | Does |
|---|---|
| `README.md:9-10` workers can die at any moment | run `worker_death` |
| `job_test.go:26` "cancelled is terminal" | run `cancel` |
| `job_test.go:24` "succeeded is terminal" | a worker that lost its lease requeues or fails a succeeded job (`kept` with `LateRenewal = TRUE`) |
| `reaper.go:42-43` an exhausted job "is terminated as failed" | with late leases the reaper decides on attempts read earlier |
| `ASR-PLATFORM-PLAN.md:186` "Every transition writes a `job_events` row. No exceptions." | status and event are separate statements; a death between them leaves a gap |
| `service.go:133-137` on transcripts of unfinished jobs | a death after `insert_transcript` fails every later attempt on the unique index; `GetTranscript` then answers for a failed job, and for one still processing |
| `job.go:88-90` transition table | Retry moves failed to queued, which it lacks; `CanTransition` has no caller |
| `docs/architecture.md:44-45` on acknowledging | `XACK` runs in `finally`, also before a terminal write |
| ADR 0002:41-44 on missed notifications | the list recovers by polling while the socket is down; the detail page is not polled |
| `hub.go:78-79` on the polling fallback after a full buffer | polling is off while the socket is open; the list recovers by the messages still in the buffer (`OverflowShowsOnList`), the detail page stays as it is until it is visited again |
| ADR 0006 on keyset cursors | rows with equal `created_at` at a page boundary are skipped; a limit above 100 becomes 20 and the walk ends early |

### Bounds

Two workers are the fewest for a claim to pass to a successor; two or three calls let
create, cancel, retry and delete race a worker and each other; `MaxAttempts` 2 or 3 has
first, middle and last attempts. `late` has no failures: the theorems cover its
properties under any failures, except `QueuedIsDelivered`, which speaks of runs without
one. `MaxStream` is not reached when renewals keep ahead (`OneDelivery`). `claims` stops
one above the budget. Two clients with two POSTs each make lookups, inserts and late
handlers of one key overlap. A buffer of 1 fills with two events, so overflow, order and
delivery happen; 16 differs only in how long that takes. Four jobs in pages of two give
two full pages and a boundary; two ticks a second give rows that differ only in the
fraction of `created_at`. Four calls are enough to register, create a key, use it
and revoke it meanwhile, to revoke it twice or by another user, or for a chain of three
exchanges; longer ones are left to the theorems. Three access tokens allow two refreshes.
Deadlock is not checked: when all calls are made, every system here is at rest.

### Fairness

Goroutines, the worker's `while True` loop, the reaper's and the gauge's tickers and
browser timers go on: weak fairness of each process's next step. The clock passes the
lease of a claim nobody holds. Strong fairness is used where a step is enabled again and
again rather than all the time: `Register` and `Unregister` wait for a Go RWMutex, which
blocks new readers while a writer waits; a page's answered refetch may be replaced by
another invalidation before it is shown. Users need not call, failures need not happen, and a
live worker need not lose its lease. A client of `JobCreate` goes on with what it began.

## Proofs

Every safety invariant and every action property a passing run checks is also a theorem, and so
is the refinement: 31 results for all values of the constants, that is for any sets of
jobs, workers, clients, tabs and connections, any budget, buffer and number of failures.
The assumptions are the named `ASSUME`s: `None` is no element of the other sets, bounds
are naturals, buffers and budgets positive; there are finitely many workers and calls
(`ProcessesAssumption`; deliveries are counted) and at least one tab
(`SessionAssumption`; with none, "every tab is at the login form" says nothing).
`LateRenewal = FALSE` is a hypothesis of the theorems that need it and of no other.

| Module | Theorems | From |
|---|---|---|
| `JobQueueProofs` | `TypeCorrect`, `CompletedAtMostOnce`, `SucceededJobsHaveTranscripts`, `VisibleJobsKeepAudio` | `CompletionInv`: the worker past `insert_transcript` is unique for its job, its transcript is stored, and none is there once the job completed. `AudioInv`: a handler at `DeleteObject` has hidden its row |
| | `PagesGetWholeTranscripts` | `CompletionInv`, and that a page which saw `succeeded` asks about a job with both rows, whatever happens to the status later |
| | `EveryStatusHasItsEvent` | `TrailInv`: a job that was ever queued keeps its "queued" event, and a worker holds only such jobs |
| `JobLeaseProofs` | `OneHolderPerJob`, `RetryBudgetIsExact`, `SucceededJobsStaySucceeded` | `LeaseInv`, assuming `LateRenewal = FALSE`: the row records the holder's claim and the attempts it counts from (`Holders`), what the reaper read stays true until it acts (`Batch`), `attempts` counts ended claims (`Budget`), only its Create handler moves a pending job (`Creators`) |
| | `QueueImplementsLifecycle` | `LeaseInv` and types, same assumption: initial states map to initial states, each step to a step of one job (`CancelIgnored` included) or a stutter |
| `JobDeliveryProofs` | `QueuedJobsAreDelivered` | the balance of deliveries: what makes a job queued adds one, its claim takes one away, no other step that succeeds changes the number |
| | `OneDeliveryAtATime` | the same balance, `LeaseInv` and `DeliveryInv`, assuming `LateRenewal = FALSE`: a job that is neither queued nor cancelled, or that a worker holds, has no delivery under way |
| `JobCreateProofs` | `KeyNamesOneJob`, `KeyIsCountedOnce`, `LiveJobsKeepAudio` | `CreateInv`: what each handler past its insert knows of its row and key; `Audio`: a client's object is its own and stored before its POST; without a key each POST names a fresh one, with a key there is one row |
| | `AnsweredJobsAreEnqueued` | `HandedOver`: until something fails a running handler has a client waiting for it, and each row is on the stream, deleted or in the hands of the handler that inserted it |
| `ChannelProofs` | `StreamActsAsQueue` | `StreamInv`: a group points into the log, a connected worker finds one, a worker between its read and its `XACK` has an entry of the log |
| | `JobsAreNotForgotten` | `NoJobForgotten` with `StreamInv`: a read moves an entry from the log into a worker's hands, what ends the work settles the job, loses it to the reaper or has it published again, and an `Enqueue` or `xadd` that fails strands it |
| | `SendsOnOpenChannels`, `OverflowLeavesTheOnlyGaps` | `Locking`: a broadcast reaches only registered clients, whose channels are open; without an overflow the sent, held and buffered messages together are those offered, and a loop that ended without a failed write has nothing left (`Drained`) |
| `PaginationProofs` | `NoRowShownTwice`, `NoRowSkipped` | `Behind`: no later page has a row already shown; `NothingLost`: a later page has each steady row not shown yet, assuming distinct times and a limit in range |
| `AccountsProofs` | `RegistrationsOpenOwnAccounts`, `CredentialChainsStayInAccount`, `RevokedKeysStayDead`, `OneRevocationByOwner` | `AuthInv`: what holds of one call at each point of its progress (`CallOK`): a row has the email and the hash of the password typed for it, a call acts for the account its chain began with, tokens are issued and keys made in the last step; emails are unique, a revoked key stays revoked and a call made with one never passes its lookup |
| `DashboardProofs` | `RefreshesAreShared`, `ExpiriesAreInvisible`, `LogoutLeavesNoTokens` | `SessionInv`: a refresh belongs to the request it was started for, a token sent again was just issued, both tokens come and go together and stay until a logout or a failure |
| | `StoppedHooksStayStopped` | `StopsForGood` itself, which is inductive |
| | `ChangesAreNotForgotten` | `NoChangeForgotten` with `FeedInv`: changes are announced one by one, and an answer is never older than what its page shows |

Few of the properties are inductive alone: most speak of the moment after a write, while
the reason they hold is what the writer knew before it. `EventTrail`, for one, breaks when
a user retries a failed job: the row is queued and the next event is "retrying"; what
saves it is the "queued" event of an earlier attempt, which `TrailInv` keeps.
`OneDelivery` needs that no delivery is under way when a process puts a job back, since
none of them looks at the stream.

The invariance proofs have one lemma per kind of step; steps that cannot disturb an
invariant go through a lemma on their effect alone (`CompletionQuiet`, `AudioQuiet`,
`LeaseQuiet`, `TrailQuiet`), or, for the auth service, through `OthersUndisturbed`: a step
leaves every call but its own as it was. The deliveries of a job are the cardinalities of
three sets and a flag, so the lemmas on balances (`ApiBalance`, `WorkerBalance`,
`ReaperBalance`, `StreamGrows`, `StreamShrinks`) say of each kind of step how the sum
changes. `JobLeaseProofs` extends `JobQueueProofs` and `JobDeliveryProofs` extends both.
`ChannelProofs` and `DashboardProofs` speak of two components each, which is why
`JobStream` and `LiveUpdates` have names of their own for their specifications
(`StreamSpec`, `FeedSpec`). `USE Zenon` makes Zenon the default prover; steps with
arithmetic or long case splits name SMT.

Only model-checked: the liveness properties (`ProcessingIsReclaimed`, `EveryJobSettles`,
`EveryClientServed`, `EnqueuedJobSettles`, `DepthSettles`, `BroadcastEnds`,
`WriteLoopEnds`, `AnnouncedChangeShows`, `ListCatchesUpWhileDown`, `OverflowShowsOnList`,
`WalkEnds`), since fairness is out of the prover's reach. `QueuedJobsAreDelivered`,
`JobsAreNotForgotten` and `ChangesAreNotForgotten` prove the part of three of them that
needs none: whatever is still to be done, some step that will do it is on record.
`NoJobForgotten` and `NoChangeForgotten` are not listed in a run of their own: they
were found to hold on the instances of `stream` and `updates`, and the theorems cover
every instance.

## Not modelled

* Audio probing, normalisation and recognition (`audio.py`, `transcribe.py`): ffmpeg and
  faster-whisper do the work, so it is a result or a `TranscriptionError`.
* SRT and VTT layout, rendering and formatting in the web client: text layout with no
  state.
* Counters and histograms other than the depth gauge and what counts a submission: they
  only observe.
* Start-up, configuration, logging and routing: no protocol state. That the reaper
  lives in the API process is modelled.
* Hashing, signing, presigning: library code, modelled by what the callers rely on.
* More than one API process: not deployed.
