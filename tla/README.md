# A verification project for Studio OS

Studio OS coordinates people and AI agents: an API server (FastAPI, PostgreSQL,
an S3 object store) holds the shared state; a daemon on each workstation works
offline through a local queue and runs agents that the server asked for. This
directory holds TLA+ models of its core, the TLC configurations that check them
on small instances, and proofs that TLAPS checks for every value of the
constants.

Paths below are relative to the repository; `services/` alone stands for
`services/api/src/studio_api/services/`, and `client/` for
`packages/studio-client/src/studio_client/`.

## 1. Inventory

### Parts and how they interact

| Part | State | Operations | Interacts with |
| --- | --- | --- | --- |
| Task launches (`services/task_launches.py`, table in `studio_contracts/task_launch.py`) | `task_launches` rows: status, version, expiry, session, attempt, retry_of | create, get/list/pull (which expire lazily), report, cancel, retry, link a session | sessions, claims, budgets, events; driven by the machine's daemon and by requesters |
| Work sessions (`services/sessions.py`) | `work_sessions` rows | start, resume, touch, end, server-side close | launches (activity prolongs them), claims |
| Idempotent requests (`services/idempotency.py`) | `idempotency_keys` rows | reserve, reclaim, wait, complete, release | every creation route, the MCP tools, the outbox's retries |
| Offline outbox (`client/outbox/store.py`, `replay.py`, `client/retry.py`) | SQLite tables `pending_events`, `pending_mutations`, `dead_letter` | enqueue, list, mark succeeded, mark failed, dead-letter | watchers, reporter and CLI write to it; heartbeat and shutdown drain it to the API |
| Daemon (`client/daemon/heartbeat.py`, `runtime.py`) | tasks of one event loop, one SQLite connection | heartbeat, replay, pull, stop with a drain | outbox, launch puller and executor |
| Launch execution (`client/daemon/launch_puller.py`, `launch_report.py`, `launch_executor.py`) | in memory: reports counted, decisions, processes | poll, report, execute, observe, fail orphans | launches (through the outbox) |
| Claims (`services/claims.py`) | `resource_claims` rows | create, renew, release, expire | sessions, launches, events |
| Transfers (`services/transfers.py`) | `transfers` rows and stored objects | reserve quota, initiate, refresh parts, complete, delete, expire, abort stale uploads | object store |
| Upload client (`client/transfers.py`) | the `multipart_uploads` row of the outbox database | upload, resume | transfers, object store |
| Events and catch-up (`services/events.py`, `sync.py`, `handoff.py`; `services/mcp`'s `response_budget.py`) | `events` rows with a `seq`; a cursor per session and per task | stage, publish, sync, acknowledge, hand off | every service; the agents' sessions |
| Refresh tokens (`services/refresh_tokens.py`) | token families | issue, rotate, revoke | dashboard, desktop |
| Budgets (`services/budgets.py`, `usage.py`) | `budget_policies`, `budget_reservations`, `usage_ledger_entries` | write and approve the policy, admit, settle; report and correct usage | launches |
| Admission (`services/admission.py`, `eligibility.py`, `heartbeats.py`) | advisory locks, `machines` rows | dry run, admit a batch, count free slots | roadmaps, launches, budgets, the daemons' heartbeats |

The others (tasks, roadmaps, vault, library, accounts, MCP, dashboard, desktop,
workspaces, adapters, scripts) are listed in `PROJECT.json` with the reason why
each is not modelled: versioned rows without a protocol of their own, content
stores, user interfaces, process plumbing.

### What is hard

- *Concurrency on the server.* Requests run in separate transactions at READ
  COMMITTED. Reports, cancellations and retries lock the launch row; reads do
  not, yet they write (lazy expiry and prolongation); the session link does not
  lock either.
- *Concurrency in the daemon.* One event loop, but one SQLite connection too: a
  commit or rollback of any coroutine is a commit or rollback of all. A drain
  may run beside the heartbeat's own pass.
- *Failure.* Processes die between two commits; answers are lost after the
  server acted; a request given up on arrives later.
- *Time.* Expiries, grace windows, a hard deadline, backoffs, a reclaim
  threshold without a fencing token.

### What makes each part correct

- Launches: status follows the contract's table; a closed attempt is never live
  again; one retry per attempt; the version a machine computes by counting its
  reports is the right one; activity prolongs a run but never past 24 hours;
  expiry closes the session and frees the claims with it.
- Idempotency: one creation at a time per key, one answer, for the body sent; no
  request hangs on a dead owner.
- Outbox: committed work is never lost, is sent in order as far as the code
  promises it, and leaves the queue in the end.
- Launch execution: an attempt's harness starts once, whatever the daemon forgets
  in a crash; the machine's capacity holds although statuses lag; every request
  is answered; what is cancelled stops.
- Transfers: the quota holds; only a deletion loses bytes; a finished file does
  not change; what expired is deleted. An upload's record is never ahead of
  what storage keeps of it, and retrying ends it.
- Catch-up: no cursor passes an event its session was not shown, and none is
  kept from a session for ever.
- Budgets: an approved policy is the one its approver read; what it admits stays
  within its slots and its limit per period; every measured amount is billed once.
- Admission: a batch starts no task twice and overbooks no machine as far as the
  reports tell; some request can always go on.

## 2. Plan

| | Module | Status |
| --- | --- | --- |
| 1 | `AttemptChain` (abstract), `TaskLaunch`, `TaskLaunch_proofs` | done |
| 2 | `Idempotency`, `Idempotency_proofs` | done |
| 3 | `Outbox`, `Outbox_proofs` | done |
| 4 | `LaunchDaemon`, `LaunchDaemon_proofs`: heartbeat loop, puller, reporter and executor against versioned launch rows | done |
| 5 | `Transfers`, `Transfers_proofs`: the server's transfers, the object store and the cleaning workers | done |
| 6 | `TransferUpload`: the client's resumable upload, proved about in `Transfers_proofs` | done |
| 7 | `Sync`, `Sync_proofs`: the event log, the cursors and the hand-off | done |
| 8 | `Budgets`, `Budgets_proofs`: the policy, its reservations and the usage ledger | done |
| 9 | `Admission`, `Admission_proofs`: batches and single launches, their locks and the machines' slots | done |

Every safety property that a passing run checks is proved. Abstract specifications
still worth stating, and then worth a refinement proof: an exactly-once creation for
`Idempotency` while nobody is late, a reliable mailbox for `Outbox`.

`LaunchDaemon` composes with `TaskLaunch` and `Outbox` by abstraction: its `row`
keeps of a launch the status and the version (which name each other, as
`LiveVersionNamesStatus` of `TaskLaunch` states), its `queue` keeps of the outbox
what concerns reports. `Budgets` and `Admission` keep of a launch what they read
of it, and take its moves from `TaskLaunch` and `LaunchDaemon`; a budget's refusal
is one of the arbitrary roll-backs of `Admission`.

## 3. Modules

### `AttemptChain`

What the launch service promises about recovery: an attempt opens once, lives
until it is closed, never lives again, and is replaced at most once, after it
was closed.

### `TaskLaunch`

The launches of one task and one target machine, with the machine's sessions and
claims on that task.

| Variable | Code |
| --- | --- |
| `launch` | the rows of `task_launches`: status, version, created_at, expires_at, session_id, attempt, retry_of_launch_id |
| `session` | `work_sessions`: open or ended, last activity; `ending` is an `end_session` between its two commits |
| `claims` | whether the machine holds active claims on the task |
| `request` | a get, list or pull that has loaded a launch and not yet settled it |
| `link` | a `link_session_to_launch` that has found its launch and not yet written it |
| `now` | the server's clock |

| Action | Code |
| --- | --- |
| `CreateLaunch` | `create_launch`, `stage_launch` |
| `ReportLaunch`, `CancelLaunch`, `RetryLaunch` | the functions of those names, whole: they hold the row lock |
| `LockedExpiry` | the expiry those three do first, when it expires or (retry) commits a prolongation |
| `LoadLaunch`, `SettleLaunch` | the SELECT of `get_launch`, `list_launches`, `pull_pending`, then `expire_launch_if_overdue` on the row as loaded, in another statement |
| `StartSession`, `TouchSession` | `start_session`, `resume_or_start_session`, `touch_session` |
| `ReleaseForEnd`, `EndSession` | the two transactions of `end_session` |
| `LoadLink`, `CommitLink` | the SELECT and the UPDATE of `link_session_to_launch` |
| `ClaimResource`, `Tick` | `create_claim`; time |

The ORM writes only the columns that changed since the load, which is why
`Expired` writes status and version over the current row, `Prolong` writes
`expires_at` alone, and `CommitLink` writes `session_id` alone.

Abstractions. `created_at` is the start of the inserting transaction (the
database's `now()`), which may have waited for advisory locks: `began` is any
earlier time. A list or pull of many rows is several reads in flight. A link
takes any linkable launch: the credentialed one and the newest one are both
among them. `expected_version` is not a variable: since a live launch's version
names its status (`LiveVersionNamesStatus`), accepting a report with the right
version is accepting it at the right status. Authorization, aptitude, budget
admission and events are left out: they refuse a request, which changes nothing,
or append. `expire_overdue_launches` has no caller and is no action.

### `Idempotency`

One pair of key and endpoint. `row` is the row of `idempotency_keys`; `request`
is where each request is in `run_idempotent_dict`, the body it sent, how long it
has polled and the answer it returned; `created` the requests whose `create()`
committed a resource. Each transaction is one action, named for its function:
`Reserve`, `Reclaim`, `Resolve` and `Poll` (`_resolve_existing`,
`_await_completion`), `Create` and `CreateRaises`, `Complete`, `Release`. `Die`
ends a request anywhere, with no clean-up. `late` is a history variable: the
owners that ran past the reclaim threshold. The code documents no promise for
them (DEC-0015: no fencing token), so the safety properties are conditional on
`late = {}`. The SELECT and the write of `_complete` and of `_release` are one
step: while nobody is late nobody else writes the row in between.

### `Outbox`

The SQLite queue and the passes that drain it. `queue` is what the shared
connection sees, `disk` what was last committed; both give each row its
`created_at`. `tried` and `waiting` stand for `attempt_count > 0` and
`next_attempt_at` in the future, `dead` for `dead_letter`. `pass` holds, per
pass, the snapshot taken by `replay_ready` minus the rows it is done with, and
the answer to the first. `applied` and `flying` are the server's side: what was
carried out, and requests the client gave up on that may still arrive.

| Action | Code |
| --- | --- |
| `Enqueue` | `enqueue_event`, `enqueue_mutation` (INSERT OR IGNORE), committed by the caller or left open |
| `Commit`, `Rollback` | the end of anybody's `transaction()` on the connection |
| `StartPass` | `replay_ready` up to its loop, from the heartbeat or from `request_stop`'s drain |
| `Decide`, `LoseTouch`, `Arrive` | `_send` and what becomes of the request: carried out, refused, lost, late |
| `MarkSucceeded`, `MoveToDeadLetter`, `MarkFailed` | the three branches of the loop, with the store's statements and commit |
| `Poisoned` | the branch where the INSERT into `dead_letter` violates its primary key |
| `Abandon` | `request_stop` cancels the drain at its timeout |
| `Restart` | the process ends in any way and is started again |
| `BackoffEnds` | `next_attempt_at` passes |

The server is external: it carries a row out, refuses it, or fails. `Guarded`
rows go to an endpoint that cannot tell a repeat from a stale write (launch
reports answer 409 to a repeat); the others are idempotent. `Repeats` are ids
derived from content (`uuid5` of a launch and a version, of a snapshot, of a
usage record), which may be queued again later. Left out: `pending_markers`,
which no pass reads; multipart state; the identity check, which refuses a whole
pass. `created_at` values are distinct and increase: a wall clock that steps
back is not modelled.

### `LaunchDaemon`

A machine's daemon and the server's rows of its launches.

| Variable | Code |
| --- | --- |
| `row` | `task_launches`: status and version |
| `queue`, `committed`, `dead` | the reports in `pending_mutations` as the shared connection sees them, how many of them are committed, and the keys in `dead_letter` |
| `step`, `batch` | where the heartbeat loop is, and the keys of the rows its replay pass has still to send |
| `accepted`, `decided`, `reconciled` | what `poll` returned and is not submitted; `LaunchPuller._decided`, `_reconciled` |
| `sent` | `LaunchReporter._sent` |
| `task`, `stopped` | `LaunchExecutor._tasks` by stage, `_stopped` |
| `started` | history: harnesses started |

| Action | Code |
| --- | --- |
| `Request`, `StopLaunch` | the server's own moves (creation, cancellation and expiry) |
| `Beat`, `SendLands`, `SendRefused`, `SendFails` | `HeartbeatDaemon.run` and `replay_ready`, one request at a time, with `report_launch`'s guard; the pass after a pull ends in `submit` |
| `Poll`, `PollFails` | `LaunchPuller.poll` with the orphans of the first pull and the policy's capacity |
| `Prepare`, `StartHarness`, `FailTask`, `Succeed`, `FoundStopped` | the awaits of `LaunchExecutor._run`, with `issue_credential`'s status check |
| `Observe` | `_observe` and `_stop` |
| `Crash`, `PoisonedPass` | the process ends; what it had not committed may go |

A pass loads its rows (`list_pending`) and sends them in the order they were
created, which is that of `queue`; as only the pass itself deletes rows meanwhile,
`batch` needs no more than their keys (`Position`, `First`, `Rest`), and that each of
them is still queued is part of what is proved (`QueueOK`). `Enqueued` is INSERT OR
IGNORE of a set of reports: the order among the reports of one pull, which are about
different launches, is any one.

Left out: overlapping passes and rollbacks (`Outbox` has them), the page limit
and the profiles of a pull, execution snapshots. "cancelled" stands for expired
too: the executor looks for these two only (`StopStatuses`, its own
`TERMINAL_STATUSES`, `launch_executor.py` 61-63), while the contract's set of that
name (`TerminalStatuses`) has the machine's own endings too. The policy's other refusals (opt-in, project, harness) are an arbitrary
choice. One fact the model shows and no property states: a crash after the
"preparing" report was committed, but not sent, makes the orphan's "failed"
report use the same key, so it is dropped in favour of the queued one, and the
launch stays "preparing" until it expires, although `launch_puller.py` 33-39
says that an orphan is reported failed. Another: a launch accepted again after a
crash may be rejected or failed by a report of the process before. Its task is not
stopped, since the executor looks for neither status. It fails at the credential's
gate if its harness has not started; a harness that has, as in `launch_daemon_live`
with two failed requests and two crashes, runs to its end, and what it
reports is refused. `CapacityHonoured` does not count such a run, whose launch is
over, nor does the next pull.

### `Transfers`

The transfers of one quota bucket. Each reserves one unit. `row` is the table,
`object`, `upload` and `urls` the storage (objects, multipart uploads, presigned
PUTs that are still valid), `request` what each handler, or the retention worker,
has loaded and how far it is, `todo` the rows the worker's SELECT returned, `due`
the rows past `expires_at`, `erased` a history of the deletions of objects.

A handler loads its row unlocked and awaits storage: `initiate_upload`
(`BeginInitiate`, `InitiateSingle`, `InitiateMultipart`), `complete_upload`
(`BeginComplete`, `Assemble`, `Head`, `MarkReady`), `_do_delete` (`BeginDelete`,
`ListUploads`, `AbortListed`, `Erase`, `MarkDeleted`) are several steps each, and
any of them may `Fail`. `Create` is one step: it holds the bucket's advisory lock
from the sum to the insert. `BeginExpiry` and `DeleteNext` are the retention
worker, `AbortStale` the clean-up of stale uploads, `PutObject` and `PutParts` the
senders at the store. As in `TaskLaunch`, only changed columns are written.

A completion that loaded its row before a deletion sets it ready again: the
object is gone, `deleted_at` stays set, and it counts in the quota once more.
`OnlyDeletionLosesBytes` and `QuotaHonoured` say what is left to rely on.
`mark_downloaded` has no caller and is no action.

### `TransferUpload`

The client's upload of one multipart file: `saved` is its `multipart_uploads`
row, `valid` the URLs that storage still takes, `call` and `task` the awaits of
`upload()` and of the tasks per part, `multipart` and `parts` what storage holds,
`status` the row, `handler` the completion being served. `Start`, `Initiate`,
`RefreshBeforeSending`, `PutPart`, `UrlRefused`, `PutRefused`, `RefreshPart`,
`SendComplete` and `Answer` are the client; `JoinParts` and `MarkUploaded` the server.
Faults (`CutShort`, `InitiateLost`, `PutLost`, `ServerFails`, `UrlsExpireEarly`,
`AbortStaleUpload`) are bounded together by `MaxFaults`. An aborted upload loses its
parts at the store, while the client's record of them stays: `RecordedPartsAreStored`
and the first half of `OnlyWholeFilesAreJoined` are about uploads that were not
aborted (`Kept`), and a wedged client is one that asks, again and again, to join
an upload whose parts are gone, and is refused. The file does not change
between calls, and nobody deletes the transfer: `Transfers` has deletions.

### `Sync`

The sessions of one task and the event log of its project.

| Variable | Code |
| --- | --- |
| `log` | `events` by `seq`: the kind, and whether the row is flushed, committed in order (`durable`) or after a larger seq (`late`) |
| `status`, `cursor` | `work_sessions`: absent, live or ended; `sync_cursor_seq` |
| `baseline` | `tasks.handoff_cursor_seq` |
| `leaving` | sessions ended by a `handoff` that has not acknowledged for the task yet |
| `request` | a sync between its SELECT of the events and its answer |
| `offered` | the `next_cursor` values a session has received and may still acknowledge |
| `start`, `seen` | history: the inherited cursor, the events received |

`Insert` and `Commit` are `_insert_and_notify` and its transaction's end;
`BeginSync` is `studio_sync` up to the scan, acknowledgement included; `Receive`
its rest and `trim_sync_block`, over the sessions as they are by then; `Lose` an
answer lost after the acknowledgement; `StartSession`, `EndSession` and
`AckHandoff` are `start_session`, `end_session` and the last step of `handoff`.

Abstractions: an event is "news" (an own-task, decision or dependency event of
another machine), "work" (one work entry's `ai_work.*`), a signal (to the task
or to one session) or noise; which later items do not fit a budget is arbitrary,
the first one always fits; a session has one sync in flight. Claim items, which
have no seq, and stateless syncs, which keep no cursor, are left out.
`trim_sync_block` lowers the cursor to the evicted item's seq and not to its
group's floor: the model has it so, and `NothingSkipped` holds because the
evicted item stands for the group when it is delivered again.

### `Budgets`

The budget of one project.

| Variable | Code |
| --- | --- |
| `policy` | the row of `budget_policies`: version, body, whether it is approved |
| `copy` | the policy as each user last read it, whose version the next write sends |
| `launch`, `prolonged` | of `task_launches`: status, `expires_at`, `finished_at`, whether a session is linked; history: the overdue ones that went on |
| `arrival` | the clock of an admission that waits for the policy's row |
| `reservation` | `budget_reservations`: status, settle basis, `created_at` |
| `ledger` | `usage_ledger_entries` by launch (or other work) and source event |
| `confirmed`, `admitted` | history: the body the approver had read; the period whose bill an effective policy admitted a reservation by |

| Action | Code |
| --- | --- |
| `ReadPolicy`, `PutPolicy`, `ApprovePolicy` | a GET, `put_policy`, `approve_policy`, with their `expected_version` |
| `Arrive` | `stage_launch` up to its clock |
| `Admit`, `Refuse`, `AdmitUnbudgeted` | `decide_admission` and `record_reservation`: reconcile, meter, check, reserve, under the lock of the policy's row |
| `ReconcileProject` | `reconcile_project`, whose clock too may be older than its lock |
| `RecordUsage` | `create_usage`, `correct_usage` |
| `StartLaunch`, `LinkSession`, `EndLaunch`, `Prolong`, `Expire`, `Tick` | what `TaskLaunch` has in full; time |

Abstractions. One metric stands for cost and for tokens, which are checked alike.
Limits and the amount reserved are the same in every body, since the code gives
no promise across a change of them. An admission's statements are one step: two
admissions exclude each other, but a ledger entry or a prolongation may in fact
fall between them, and then counts as if it came after. Alerts are left out. A
launch cancelled before it was pulled is not among those that never ran
(`_never_ran`), so its reservation is settled like that of a run: the model has
it so. Nobody but an admission and `reconcile_project` settles anything.

### `Admission`

Requests for launches (a roadmap's batch, or a single one) of some tasks on some
machines.

| Variable | Code |
| --- | --- |
| `roadmap` | the rows of `roadmaps`: version, whether active |
| `request` | each request's stage, its items, the client's plan, and what its session has loaded |
| `owner` | the advisory locks `admission:`, `task-launch:` and `machine-slots:` |
| `launch` | `task_launches`: status, machine, whether it is newer than its machine's report |
| `report` | the launches that `running_launches` of each machine's row counts |
| `owned`, `sent`, `beats` | `LaunchExecutor._tasks`; heartbeats on their way; their number |
| `missed`, `stale` | history: launches that some report was too early or too late to count; batches that decided on an outdated report |

| Action | Code |
| --- | --- |
| `Confirm` | the client's dry run, whose digest it sends |
| `BeginBatch`, `BeginUnit` | `authorize_admit` and the authentication, which load rows; `create_launch`, `retry_launch` |
| `Acquire` | one `pg_advisory_xact_lock` |
| `ReadPlan`, `StageBatch`, `RefuseBatch` | the dry run under the locks up to its list of machines; its count of unreported launches, and the checks of `admit_batch` |
| `StageUnit` | `stage_launch` after its locks |
| `Commit`, `RollBack`, `EditRoadmap` | the end of the transaction; a change of the roadmap |
| `PickUp`, `Accepted`, `LetGo`, `End`, `BecomeOverdue` | a launch's life between the daemon and the server |
| `SendHeartbeat`, `HeartbeatLands` | `HeartbeatDaemon.run`, `record_heartbeat` |

Abstractions. Of the reasons that exclude a task or a machine, an active launch,
the roadmap's status and the free slots are kept. The digest is what it is
computed from: the roadmap's row, the busy tasks and the eligible machines. A
launch is named by its request and its task. The client's dry run is one step,
that of the batch two, which is where a heartbeat can fall between.

## 4. Runs

| Run | Question | Result |
| --- | --- | --- |
| `launch` | with two sessions that link late, prolong and end, and a read in flight: do versions name statuses, is prolongation bounded, does expiry end the whole run, does every launch close? | holds |
| `launch_chain` | is the retry chain sound over three attempts, and is `AttemptChain` implemented? | holds |
| `idempotency` | one runner, one surviving resource, one answer, no hanging request | holds |
| `outbox` | nothing lost, only failed rows overtaken, the queue drains | holds |
| `transfers` | quota, bytes, immutable files and retention, with handlers that overlap and fail | holds |
| `transfer_upload` | does the record stay behind storage while its upload is kept, are only whole files joined, does retrying end? | holds, but for wedged uploads |
| `launch_daemon` | is an attempt started once, is capacity honoured, are the reports' numbers right? | holds |
| `launch_daemon_live` | does what is cancelled or expired stop, is every request answered, through crashes and lost answers? | holds |
| `sync` | does any cursor pass an event that was not received, and does a session that keeps syncing learn of everything? | holds, for events that become visible in order |
| `sync_no_loss` | is the cursor a no-loss cursor over all events? | violated: a seq committed late is passed |
| `budgets` | is a period's limit ever exceeded, does a slot serve two runs, is usage billed once, is what is enforced what was approved? | holds, but for prolonged runs, and for transactions older than the period they are admitted by |
| `admission` | does a batch overbook a machine, or start a task that is launched already? Does everybody ever wait for everybody? | holds, with the machine's last report |

The runs check the types of `LaunchDaemon` and of `Admission`; every module's
`TypeOK` is proved. The violation contradicts a docstring, quoted
in `PROJECT.json` under `findings`. The passing properties are stated so that they
are what remains true beside what the code does not promise. Further divergences
between the code and its documents were met while modelling; the models contain
the behaviour, and the properties except it:

- an upload that storage forgot when all its parts were recorded is completed,
  and refused, for ever (`client/transfers.py` 163-165 skips the refresh that
  would find out), although the docstring of `abort_stale_multipart_uploads`
  says that the client falls back to a fresh upload (`Wedged`);
- an overdue run gives up its slot (`services/budgets.py` 406-421) before anybody
  expired it, and may be prolonged instead, although the contract
  (`studio_contracts/budgets.py` 4-6) says that admitted slots are never exceeded
  (`prolonged`);
- a reservation belongs to the period in which its transaction began
  (`services/budgets.py` 316-322) but is admitted against a later clock's: when
  midnight falls between, it counts in neither check of the new day, against the
  contract's lines 82-84 (`CommittedIn` leaves it out);
- a batch loads its roadmap before its locks (`services/admission.py` 287), and the
  dry run under them gets the same object, so that the digest misses a change in
  between, against the docstring at 279-282 (`BeginBatch`, `FreshPlan`);
- a heartbeat between the load of a machine's row and the count of unreported
  launches hides a running launch from both (`services/eligibility.py` 155-157),
  although `docs/mission-control/p05-gate.md` 108-109 calls double admission to a
  slot corrected (`stale`);
- a launch whose accepted report was lost runs, and is counted as requested and by
  the heartbeat too (`services/eligibility.py` 114), against DEC-0220's "no double
  count";
- a late read may replace a terminal status by "expired" (`services/task_launches.py`
  641-649 on a row loaded unlocked), and may expire a run whose session was
  linked after the load; no closed attempt lives again, is retried twice or loses
  its place in the chain (`ImplementsAttemptChain`, `RetryChainSound`);
- of two sessions that both found a launch unlinked, the second takes it
  (`link_session_to_launch` checks on an unlocked read);
- an idempotent creation whose owner dies between its commit and the storing of
  its response is created again after the reclaim (`OneSurvivingResource` says
  that only one of the resources has a creator that lived);
- a row in backoff is overtaken by newer ones (`OnlyFailedRowsAreOvertaken`), and
  a refused row whose id is in `dead_letter` already blocks the queue (`Drains`
  and `RequestsAreAnswered` except it);
- a completion may set a deleted transfer ready again (`OnlyDeletionLosesBytes`).

### Bounds

- Launches: `launch` has one attempt with two sessions, which make a link, a race
  of links, a supersession and a prolongation, and one read in flight, which
  makes a late one. A grace window as long as `MaxTtl` would overrun the hard
  deadline from the first overdue tick on. `launch_chain` has three attempts,
  which make every chain and every pair of concurrent retries, and a `MaxTtl` of
  one, so that nothing can be prolonged; the theorems cover both together.
  `TimeLeft` creates launches only while their hard deadline fits before
  `MaxTime`, so the clock never stops a launch from expiring. Symmetry is used
  in `launch_chain` only, which has no liveness property.
- Idempotency: three requests are an owner, the one that reclaims it and a
  waiter; two bodies make a mismatch; `MaxTime` of three lets a reservation be
  reclaimed and its successor run; one poll is one wait with a change during it.
- Outbox: two rows make an order, three enqueues let the content-derived one be
  queued again after it was settled; two passes overlap; one restart. The limit
  is the size of the queue in the run, and any number in the theorem. Restarts
  caused by a poisoned row do not count against the bound. All rows are
  mutations: order is a matter of one table, since the limit is taken per table
  and the two are merged afterwards (a row beyond the limit of one table may be
  overtaken by rows of the other, which no property forbids).

- Transfers: a single and a multipart transfer of one unit each in a bucket for
  one, two upload ids (a stale and a new one), one content, one request beside
  the worker, one failure. With one content a replaced file shows as an object
  that comes back; the theorem has any number of contents.
- Upload: two parts make concurrent tasks and a partial record; two faults make
  every pair; one upload id more than faults, so that ids never run out.
- Daemon: two launches compete for one slot; one failed request and one crash
  make a decision forgotten before its report landed; the liveness run has two
  of each with one launch.
- Sync: two sessions make a target, a bystander, a predecessor and a successor;
  of two events a window reads both and an answer carries one, so that a cut
  occurs with something behind it. The four safety properties are theorems for
  every number of sessions and events and every limit.
- Budgets: two launches compete for the last slot and the last reservation of a
  period's limit; both bodies enforce it and differ in how late usage and
  an unknown cost are settled; the times are the smallest that make each case: periods of a tick, a ttl of two, so that a launch
  lasts into the next period, and no time to settle beyond the deadline, since the
  clocks, which may be stale, give every delay. `MaxWait` of 1: a transaction may have
  begun in the period before. `MaxLate` of 0 keeps a usage report at the clock.
  `MaxVersion` bounds the versions somebody writes: two writes beside an approval
  make their races. One user is enough, since a write leaves the writer's copy
  old: reading, writing and approving in any order make the races of several, and
  the theorem has any number.
- Admission: a batch and a single launch, two tasks and two machines of one slot
  make every race for a task's lock, for a machine's and for the last slot; the
  batch's own machine is the one whose row is loaded early; one heartbeat is late
  or early, and one edit moves the roadmap.

The runs allow a state without successors: requests that all ended, a clock at
its bound, an outbox that is empty with its budget of rows used up are where
these systems may rest. Progress is what the liveness properties are for.

### Fairness

- `LaunchesClose`: time passes; every live launch is read again and again
  (strong fairness of the read, since it is possible only while a request slot
  is free; the daemon pulls at each heartbeat and dashboards list); a read that
  started ends. Nobody owes a report, a cancellation or the end of a session.
  Without readers a launch would stay live, since nothing calls the sweep.
- `RequestsEnd`: the event loop runs every handler that has not died (weak
  fairness of its steps). Time need not advance: a poll is counted, not timed.
- `Drains`: the heartbeat comes back, handles each answer and gets one, a
  backoff ends, and the server does not fail every request of the heartbeat for
  ever (strong fairness of a decision). No fairness for drains, commits or
  enqueues. The property excuses the state in which some queued row's id is in
  `dead_letter` already, which blocks the queue.

- `FinishedSettles`, `ExpiredIsDeleted`: a handler that began runs to its end
  (failures are bounded), presigned URLs expire, and the two cleaning workers
  come back, as a scheduler calls the command line's `transfers expire` and
  `abort-stale-multipart`. Nobody owes an upload or a deletion.
- `UploadFinishes`: the caller calls `upload()` again until the transfer is ready;
  client, part tasks and server go on (weak fairness); URLs do not last through
  endless failing calls (strong fairness of their expiry between calls, since a
  call ends it). The wedged state is excepted.
- `CancelledRunStops`: the watch loop reads each running launch again and again.
  `RequestsAreAnswered`: the loop beats and backoffs end. How long a run takes is
  not bounded, nor does it need to be.
- `EventuallyLearnt`: a live session keeps syncing with the last cursor it was
  offered, and is answered at last (strong fairness of both, since the session
  may be busy with an earlier request). Sessions need not end: a signal that
  waits for another session is learnt of by that one's own syncs.

`Admission` states no liveness: `SomebodyGoesOn` is an invariant, that no state
has all its requests waiting for each other, and needs no fairness.

## 5. Proofs

Everything is proved from the modules' named assumptions only: the null values
(`NoLaunch`, `NoSession`, `NoRequest`, `NoBody`, `Nothing`, `NoUpload`, `None`) and
the cleaning `Worker` are not members of the sets they complement; bounds are
natural numbers, those of `Sync` positive; slots and ttl of `Budgets` are positive, its
launches, reports and other work finite and apart, its bodies policies; the requests
of `Admission` are finite and apart from `"nobody"`, its tasks finite, its roadmaps'
tasks apart, and what the locks are named for is numbered; a ttl is between 1 and `MaxTtl` (the
contract's validation); `Rows`, `Transfers`, `Launches` and the `UploadIds` are finite;
`Events` is a part of `Rows`, `Large` one of `Transfers`, and the heartbeat a pass.

**`TaskLaunch_proofs`.** Each step changes at most one launch row, in one of a
few ways (`StepChangesOneRow`: inserted, moved by the machine, cancelled,
prolonged, linked, settled from a stale row). The invariant `TInv` adds to the
types what a stale read or link still knows: the launch it loaded exists, and
its `created_at` is still the loaded one. From it follow `TypeCorrect`, `LiveVersion` (a stale expiry writes a version that
may be off, but never leaves the row live; a stale prolongation writes no
version), and `Prolongation` (the deadline computed from the stale row is the
launch's own). `ExpiryIsWhole` traces an expiry to the row its decision was made
from, the locked one or a read's (`ExpiredByRead`), which has the launch's
`created_at` and, unless the read came before the link, its session. `ChainInv` strengthens `RetryChainSound` for `RetryChain`, and
`Refinement` maps each change of a row to `Open`, `Close`, `Retry` or a stutter
of `AttemptChain`.

**`Idempotency_proofs`.** The inductive invariant is `TypeOK`, `CreatedFits` (who
has created is past the creation), `LateRecorded` (an owner past the threshold
is in `late`) and, while nobody is late, `Sound`: the owner is the only one and
the row is pending under its body since it became owner; a completed row holds
the response of a creation run for its body; every answer is that response; and
a resource whose creator lived is the owner's or the row's. `LateRecorded` is
what makes reclaiming safe: a row old enough to reclaim has no living owner. `AtMostOneRunner`, `OneSurvivor` and
`AnswersAgree` follow.

**`Outbox_proofs`.** The invariant relates `disk` and `queue` (`DiskQueued`,
`QueueOrdered`), says that a row in backoff has been tried, that committed work
survives, and, per pass, `PassSound`: an idle pass holds no answer, the rows it
has left are ordered, each of them is in the queue as of the snapshot, was put
back later or is gone, a row of the same table that is older and not among them
has been tried, and a row answered ok has been carried out.
`CommittedWorkSurvives` follows; `OvertakingIsEarned` reads the order off
`PassSound` at the moment of the send.

**`LaunchDaemon_proofs`.** `HarnessStartsOnce` rests on three facts per launch. A
launch the daemon has accepted or runs a task for exists, and while the server
still shows it "requested" the daemon remembers its decision (`Remembered`); an
accepted launch has no task and no start, nor has a task that is not yet at its
harness; and a started launch is no longer "absent" or "requested" on the server
(`OnceSound`). The last one carries the argument: the credential gate (`Issuable`)
lets no harness start before the acceptance has landed, and the server's rows
never go back (`RowsMoveOn`), so that neither a poll nor a new process, which has
forgotten its decisions, takes the launch again. `CapacityIsHonoured` adds that
what the daemon works on was decided "accepted" for as long as it is live, so that
it counts as active in every pull (`WorkIsActive`), and that a pull finds nothing
accepted but not submitted.

`TypeCorrect` is about the outbox: no two queued reports share a key, the committed
rows are a first part of the queue, and what a pass has still to send is queued
(`QueueOK`). It rests on lemmas about the queue's operators: what an insert appends
(`EnqueuedAppends`, `EnqueuedDistinct`, from the bijection that `SetToSeq` is), what
a deletion moves (`RemoveAtShifts`) and which row a pass is at (`FirstOf`, a least
element of the naturals). `NoReportIsRefused` has the numbers. While no request has
failed and no process has crashed, `NumberInv` says that the queued reports of a
launch that was not ended are those made of it which the server has not applied yet,
in the order they were made and without gaps from the server's version on
(`ReportsSound`), that the server's status and version are a step of the ladder from
"requested" to "running" or what the last report said (`RowSound`), that a run has
made as many reports as it has come stages (`WorkSound`), and that a pass has still
to send a first part of the queue, none of it dead-lettered (`BatchFirst`,
`RowsFresh`). So the row a pass sends is the head of the queue (`FirstIsHead`), and
its number is the server's version (`HeadLands`): only a report of a launch that was
ended can be refused. Two things the code relies on come out on the way: the first
pull finds no orphans (`NoOrphans`), and a pass is never blocked by a key that is in
`dead_letter` already (`NotPoisoned`); both take a crash or a failed request.

**`Transfers_proofs`.** The invariant adds to `TypeOK` and `QuotaHonoured` that a
"deleted" row is marked deleted, that a "ready" row without an object has been
erased by a deletion (`BytesKept`), and that uploads and handlers past an await
are about transfers that exist; a handler about to mark a transfer "ready" found
its object, which only a deletion can have removed since (`HandlerSound`).
`QuotaIsHonoured` follows from the creation's check, since no other step makes a
row count that did not (`QuotaKept`). `BytesAreKept` reads off the steps that
change `object`. `FinishedStays` is the action property: with no URL, no open
upload and no handler left that would give one, no step writes the object or
makes such a means (`FrozenObject`, `FrozenUrls`, `FrozenUploads`,
`FrozenRequests`).

Its second part is about `TransferUpload`. The invariant adds to `UploadTypeOK` and
`RecordedPartsAreStored` that a call past its check has a saved upload
(`CallHasUpload`), that the completion's handler is about an upload of which
storage holds every part unless it was aborted (`CompletionSound`), and that a
"ready" transfer is such an upload assembled (`ReadyIsWhole`). `ResumeIsSafe` is its part; `JoinedIsWhole`
is proved beside it, from `CompletionSound` and `ReadyIsWhole`.

**`Sync_proofs`.** The invariant is about every value that is, or may become, a
session's cursor: some visible event is at or past it (`Anchored`), so that an
event committed in order lands past all of them, and what it passes was heard
(`Sound`): received, or a later event of its work entry was, or is still ahead.
While a request is served, its window is whole but for late events
(`WindowWhole`), and what is still ahead is in the window or past it
(`WorkAhead`); an answer then keeps `Sound` for the cursor it offers
(`AnswerSound`), since the cursor stops short of whatever it leaves out.
`SignalsAreReceived` and `HandoffIsLossless` are proved over the same steps: a
signal blocks every other cursor until its target passes it or ends, and the
baseline is made of the cursors of sessions that started at or below it.
`CursorsAdvance` is the action property. `Min`, `Max` and the window's closure
come from the well-foundedness of the naturals (`MinOf`, `MaxOf`, `WindowClosed`).

**`Budgets_proofs`.** The invariant adds to `TypeOK` and `EnforcedAsConfirmed` that
a user's copy with the policy's version has its body (`CopySound`), from which an
approval confirms what is in force; that a launch that waits for its admission has
neither a row nor a reservation, and a clock that has passed (`Waiting`); that an
enforced launch within its deadline that never was overdue still holds its
reservation (`KeepsReservation`); and that no more launches keep a slot so than
there are. The step that matters is `AdmitKeeps`: the launches that keep their
slots afterwards are among the active ones of the admission's check and the
admitted one. The check's clock may be old, but an old clock only takes more
deadlines for open and settles fewer reservations, so it never frees a slot
that is kept (`ReconciledSound`). The bill is proved about by counting: a sum of
natural numbers is the number of its units (`SumIsUnits`, by a smallest set for
which it is not), so that sums compare and add up as finite sets do (`SumLess`,
`SumDisjoint`, `SumExtra`, `SumAtLeast`). `BilledExactlyOnce` then needs no more than
the types: reserved launches and the rest are disjoint, and each charge is what was
measured or, for an estimate, at most a reservation more (`ChargeSound`). For
`LimitIsHonoured` the invariant `LimitInv` has the limit of every period: no step but an
admission commits a reservation, since a settlement commits nothing
(`ReconciledCommits`) and an entry is never taken back; and the bill an admission
reads covers every reservation that is committed in its period (`BillCovers`).

**`Admission_proofs`.** `LockInv` says of an open request that each lock it has is
before each that it still needs (`OrderSound`), and that it has all of them once it
is past its locks (`HoldsAll`). `NoDeadlock` is the argument about a circle without
one: of the sets `Behind(r)`, of open requests that want a lock further on than `r`
does, take a smallest (strict inclusion is well-founded on the subsets of a finite
set); whoever has the lock that `r` wants is open (`OneHolder`), and if it waits
too, then for a lock further on, so that fewer are behind it. `PlanInv` says what a
batch has found and may rely on: its tasks are not busy (`TasksIdle`), and on each
of its machines the load and the batch's own items fit in the slots (`SlotsFree`).
It stays so because what adds a launch of the task, or to the machine, is the
commit of a request that has the task's or the machine's lock, and no two requests
have the same one (`LocksExclude`, `CommitAdds`); all other steps only take launches
away (`LaunchesEase`), but for an accepted one that no report counts, which
`missed` has from then on (`Blind`). That the slots are found free is counted in
`LoadIsCounted`: whatever runs on the machine is in its report, among the
unreported, or in `missed`. `IdleTasks` and `NoOverbooking` read the two off at the
commit, the only step that makes launches (`OnlyCommitLaunches`); in the second the
new launches are counted by their items.

Only model-checked: the liveness properties (`LaunchesClose`, `RequestsEnd`,
`Drains`, `FinishedSettles`, `ExpiredIsDeleted`, `UploadFinishes`,
`CancelledRunStops`, `RequestsAreAnswered`, `EventuallyLearnt`), since liveness
under fairness and ENABLED are outside TLAPS's reach. No module declares a recursive
operator.

## 6. Not modelled

The parts listed as `not_modelled` in `PROJECT.json`, each with its reason; the
hazards that no property covers are there too, each with a note. Within the
modelled parts, the abstractions of section 3. In particular: claims appear only
as "the machine holds claims on the task", since a claim's own operations are
one-row updates; refresh tokens, like the rest of authentication, are not a
matter of coordination and have no module; a budget's alerts and a dry run's other
reasons change no state; the live event stream wakes its readers, who catch up by the cursor
`Sync` has. Most of the repository's lines are content services, user interface,
command line and installation, whose state is single rows edited under an
expected version.
