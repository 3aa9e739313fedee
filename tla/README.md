# A TLA+ model of the HireAI backend

HireAI's backend (`apps/api`) is a multi-tenant CRM in FastAPI and SQLAlchemy
with an automation layer on top: workflow rules that react to changes of leads
and tasks, reminders, outbound messages with retries, a cron-like scheduler that
drives them, an event bus, a job platform and AI agents whose plans need
approval. The logic that is hard to get right is in that layer: everything in it
runs concurrently with requests and with other instances, in database
transactions whose isolation is READ COMMITTED.

This directory models that layer. Paths below are relative to
`apps/api/app` unless they start with `docs/`.

| module | contents |
|---|---|
| `Scheduler` | the scheduler's tick and the routes that change its jobs |
| `SlotLedger` | what the table of executions promises, implemented by `Scheduler` |
| `SchedulerProofs`, `SchedulerLedgerProofs` | theorems about `Scheduler`: types, ownership, slots, retries, configuration; the refinement |
| `Notifications`, `NotificationsProofs` | queueing of outbound messages and the passes that send them; theorems |
| `DeliveryBook` | what a message promises whoever asked for it, implemented by `Notifications` |
| `Workflows`, `WorkflowsProofs` | event publisher, workflow subscriber, executor and actions, leads; theorems |
| `ExecutionLog` | what the log of workflow executions promises an auditor, implemented by `Workflows` |
| `Reminders`, `RemindersProofs` | generation and dispatch of reminders; theorems |
| `ReminderBook` | what reminders promise one lead or task, implemented by `Reminders` |
| `Crm`, `CrmProofs` | leads with their numbers and tags, tasks with their timelines; theorems |
| `CrmBook` | what one request on leads, tags and tasks does, implemented by `Crm` |
| `EventBus`, `JobPlatform`, `JobPlatformProofs` | append and delivery of events; jobs that emit them in their transaction; theorems |
| `RunLedger` | what the runs of jobs leave behind, implemented by `JobPlatform` |
| `Governance`, `GovernanceProofs` | versions of the policy and the cache of decisions; theorems |
| `Resolver` | the plan for installing a marketplace agent, as recursive operators |
| `MCPlatform` | `JobPlatform`, `Governance` and `Resolver` side by side in one run |
| `MC*` with their `.cfg` files | the instances TLC checks |

Run `tlc -config X.cfg MCModule` for a configuration and `tlapm XProofs.tla` for
the proofs.

## Inventory

**What all components share.** A session (`db/session.py`) is opened with
`expire_on_commit=False` and `autoflush=False`: objects keep what was loaded
across commits, a SELECT does not refresh an object that the session holds
already, a flush writes only the columns that changed, and a rollback expires
everything. `get_db` never commits: a route that does not commit writes nothing.
An attribute of an expired object raises `MissingGreenlet` in an async session.
Each of these facts is part of a model below, because each of them decides what a
process knows when it acts.

| component | state | operations | interacts with | hard part | correctness |
|---|---|---|---|---|---|
| Scheduler (`services/scheduler_service.py`, `api/v1/scheduler`) | `scheduled_jobs`, `job_executions`, row locks, due list of a tick | tick, force-run, create, PATCH, delete | runs the handlers of reminders and notifications in its own session | several instances; locks that end at the first commit; retries from stale rows; crash after RUNNING | a slot runs once, under one owner; a due slot without a row gets one; only PATCHes change the configuration |
| Notifications (`services/communication_*`, `notification_engine`, `delivery_tracker`) | `communications`, `communication_deliveries`, uncommitted rows of a pass | queue, pass, dispatch, retry, give up | queued by requests and workflow actions; pass called by the scheduler; external provider | overlapping passes; provider call inside a transaction; lost answers; deadlocks | one message per key; ordered timeline; sent once; settles |
| Reminders (`services/reminder_engine.py`) | `reminders`, lists of a run | generate, process | both called by the scheduler; publishes domain events | rollback in the middle of a list; overlapping runs; publish before commit | one PENDING per target; dispatched means published; nobody forgotten |
| Workflow automation (`services/workflow_*`, `core/events.py`) | rules, `workflow_executions` and steps, nested dispatches, session copies | publish, select rules, evaluate, run actions, log | called in the publisher's coroutine; changes leads and tasks; queues messages; publishes again | re-entrancy; stale copies; rules edited while they run; failed actions; crash | log tells what happened; an event claims one execution; transitions stay valid; publish returns |
| Leads (`services/lead_service.py`) | `leads` with `version`, tags, notes | create, update, assign, delete (`PATCH /leads/bulk` answers 501) | events to workflows | optimistic lock; a locked counter that may not exist yet; duplicates by SELECT then INSERT | valid transitions; sequential numbers; a timeline that tells the tags; one instant per request |
| Tasks (`services/task_service.py`) | `tasks` with `version` | create, update, complete, reopen, cancel | events; reminders | two statements with a version guard | `completed_at` and timeline agree with the status |
| Job platform (`jobs/`, `queue/`, `workers/`, `services/distributed_execution_service.py`) | `jobs`, in-memory priority queue, visibility deadlines, dead letters, worker heartbeats | enqueue, dispatch, execute, retry, cancel, recover | routes; nothing else drives it yet | cancel against dispatch; retries; lost workers | state machine respected; no job lost or run twice |
| Event bus (`events/`) | `events` with sequence numbers, subscriptions, deliveries | append, route, dispatch, retry, replay | job platform, evaluation, learning | sequence by SELECT then INSERT; partial dispatch | ordered, delivered, replay idempotent |
| AI plans and approvals (`services/execution_engine.py`, `approval_engine.py`, `policy_engine.py`) | plans, actions, approvals | run, approve, reject, retry | tools call leads, tasks, communications | approval loop; retries that run actions again; broken sessions | an action runs once and only if allowed |
| Governance (`governance/`) | policies, cache of decisions, approvals, audit log | publish, evaluate, intercept | agents | a cache with a lifetime beside versions that change | decisions follow a policy that was in force recently |
| Marketplace (`marketplace/`) | packages, manifests, installations | upload, publish, preview, install | none | order and cycles of dependencies in the preview | an executable plan installs, and a reason against one is real |
| Agent runtime (`services/ai_runtime.py`, `orchestrator.py`, ...) | sessions, traces | reason, call tools | plans, tools | none beyond the tools' own | log complete |
| Authentication, organizations | users, sessions, refresh tokens, failed login counter | login, refresh, logout, switch organization | every route | counter and rotation under concurrent requests | lockout counts; a token is used once |
| Billing, memory, evaluation, sales and marketing AI, security services, web UI | logs, catalogues, vectors | straight-line inserts and reads | agents and routes | little | - |

`PROJECT.json` lists every component with its status and the reason where it is
not modelled, and the hazards with the properties that watch them.

**How the modelled parts meet.** A tick of `Scheduler` runs a handler: that is
`running` there and one `Generate`, `Sweep` or `Pass` in `Reminders` and
`Notifications`. The three models are separate because the interface is narrow:
the handler sees nothing of the scheduler's state but its session, and what
comes back is a return, an exception, or a session that was rolled back
(`Succeed`, `Fail`, `RolledBack`). That several handlers of one job may run at
once is what `sched_overlap` shows; therefore `Reminders` and `Notifications`
have several generators and passes. `Reminders` publishes events that `Workflows`
would take up; the only one of interest (`lead.inactive`) is a trigger there.
`Workflows` queues messages, which `Notifications` models as requests. Its actions
CREATE_TASK, ADD_NOTE and ADD_TAG insert rows through the services of `Crm`, where
they are requests like any other; the status of a lead, the only field that rules
change, is in `Workflows`, and its number, contact, tags and tasks are in `Crm`.
`JobPlatform` publishes into `EventBus` within the transaction of a job, and the two
are one module's state for that reason. `Governance` and `Resolver` call nothing
that is modelled.
## Scheduler (`Scheduler.tla`, `SlotLedger.tla`)

Code: `services/scheduler_service.py`, `services/cron_service.py`,
`api/v1/scheduler/router.py`, tables `scheduled_jobs` and `job_executions`
(`models/scheduled_job.py`).

**State.** `job` and `exec` are the committed contents of the two tables (an
execution is keyed by `<<job, execution_key>>`, as `uq_job_executions_key` does).
`lock` is the set of row locks taken by `SELECT ... FOR UPDATE SKIP LOCKED`.
Every process (a polling loop, a force-run request, a PATCH request) has a
database session; `copy[p]` holds the rows as that session's identity map sees
them. The sessions are built with `expire_on_commit=False`, so a tick goes on
using what it loaded after it has committed, and a flush writes the changed
columns only (`Flush`). `todo`, `slot`, `at` are the local variables of `tick`
(rest of `due_jobs`, the job and key in hand, `now`), `edit` the row a request
has changed but not committed.

**Actions.** One per database round trip that matters: `Select` (47-57),
`DupCheck` (66-76), `Start` (78-116, insert and commit), `StartConflict` (the
unique index), `Succeed`, `Fail` (118-168), `RolledBack` (an exception that the
`except` block cannot survive), `EndTick`, `Crash`; the routes are `Create`,
`Delete`, `PatchRead`/`PatchCommit`, `ForceRead`/`ForceCommit` followed by the
same tick actions in the request's session.

**Time** counts seconds, the resolution of `execution_key`; a cron expression is
the distance between two of its slots (`Periods`). `get_next_run` cuts its base to
the minute before it asks croniter for the slot after it, and `is_valid_cron` lets
expressions with a seconds field pass, so `NextSlot` is the first multiple of the
period after the *minute* of its argument: for a period that divides the minute this
is a slot of the minute already begun, the one that just ran or an earlier one, and the
duplicate check then skips it for ever. Neither requirements file lists croniter;
without it `DummyCroniter` ignores the expression and adds five minutes
(`Croniter`, `FallbackMinutes`). The model has both, and each run says which it
takes. Not modelled: the fallback of lines 91-94 (croniter fails on an expression the
route has validated), daylight saving, expressions of seven fields or with a slot that
is no multiple of the period, and a PATCH of the time zone alone. `PAUSED` stands for
`SYSTEM` as well.

**Abstract specification.** `SlotLedger` says what `job_executions` promises: a
slot is taken once, by one worker; only that worker writes the verdict; a lost
worker leaves the row RUNNING. `Scheduler` refines it with
`rows <- exec` and `work[p] <- slot[p]` while `p` runs a handler.

| run | question | bounds |
|---|---|---|
| `sched_slots` | do overlapping due lists, crashes, failures and rollbacks start a slot twice, skip one or rewrite a verdict? refinement of `SlotLedger` | 2 jobs, 2 instances, 1 crash, a minute of 2 seconds, one expression with a seconds field and one of a minute, croniter, limit 2, clock 4, symmetry |
| `sched_requests` | does anything but a PATCH write the configuration? do retry counter, dead letter and status agree? is a RUNNING row owned? does a due slot get its row? | 1 job, 1 instance, 1 force-run, 1 PATCH, 2 expressions, limits 1 and 2, backoff 1, `DummyCroniter` with steps of one second, clock 2 |
| `sched_overlap` | does one job run on one instance at a time? (violated) | 1 job, 2 instances, croniter, clock 4 |

The bounds are enough for the races of interest: two instances are what
SKIP LOCKED distinguishes, two jobs are what makes the rest of a due list
outlive its locks, and a clock of four seconds lets a job of a slot per minute become due
again while an earlier execution of it is running. In `sched_requests` an execution
fails, is retried after its backoff and succeeds or ends in the dead letter; a forced run
can take the second the schedule stands on; a PATCH can change the expression, the limit
and the status while a tick is in its handler. A second PATCH would take it beyond the
time of a run; the theorems allow any number.

**What is said of slots.** `NextSlotFresh` and `CatchUpComplete` speak of jobs nobody
has retried, patched or forced (`Undisturbed`), since each of these may move
`next_run_at` anywhere, and whose expression leaves the minute it is in (`MovesOn`: no
seconds field, or no croniter). Of the other jobs neither holds: they are the ways into
a stuck job listed below. `CatchUpComplete` counts a slot as taken when it has a row;
whether that row is ever settled is another matter (`RunningIsOwned`).
`ConfigOnlyPatched` names the one step that may write expression, limit and version
and may give a job another status than DISABLED, the commit of a PATCH; so a whole-row write by a
tick or a forced run is caught even if it takes the version back as well.

**Fairness.** `FairSpec` assumes weak fairness of each tick: `start_polling`
loops for ever, `await` returns to a runnable coroutine, and a handler returns or
raises. Nothing is assumed of clients, of the clock or of crashes. Under it
`DueSlotRuns` says that the due slot of an ACTIVE job that has no row gets one, through
retries, PATCHes and forced runs, unless `next_run_at` moves or the job stops being
ACTIVE. Forced runs are not excepted. Rollbacks are left out of that run, because a
job whose handler rolls back ends the tick, and one that does so in every tick may stand
before another in the unordered due list for ever.

**Disagreement** (`sched_overlap`). ADR-008 promises that instances never execute
the same job simultaneously; the lock ends with the first commit, before the
handler starts, and `next_run_at` has moved by then, so a long handler overlaps
with the next slot.

**Seen while modelling, without a run.** A duplicate is skipped without moving
`next_run_at`, so a due job that stands on a slot with a row stays due for ever and runs
no more. Four ways lead there: an expression with a seconds field under croniter (after
its first slot), a forced run or a PATCH in a second that has run, and a backoff that
ends on one. A worker that settles late moves `next_run_at` back over a PATCH: to the
old schedule when it starts a slot, to its own clock plus the backoff when it fails.
Two PATCHes of one version that read before either commits both succeed, and the second
takes back what the first changed, version included. Deleted jobs keep running (the due
query does not look at `deleted_at`). A handler that rolls its session back (see
Reminders) makes the `except` block raise: the execution stays RUNNING, like that of an
instance that dies, and nobody looks for either; `SlotLedger` has this as `Lose`.

**Proved** (`SchedulerProofs`, `SchedulerLedgerProofs`): every safety property of
the two runs, and the refinement. The number of jobs, instances, requests and
crashes, the length of time and of a minute are arbitrary, croniter may be there or not;
assumed is that periods divide the minute or are multiples of it, that periods, minute and backoffs
are positive, that the process sets are disjoint and that `None` is none of the
values.

- `IInv` is `TypeOK`, `Sessions` (what is in memory when it is used: the slot in
  hand belongs to a loaded row, a staged edit is a row, a process outside a tick has
  no due list) and `OwnedSlots`. `TypeOK` alone is not inductive because `Start` and
  `Settle` compute with `copy[p][slot[p][1]]`; `OwnedSlots` needs the unique index at
  `Start` and RUNNING rows to be settled by their owner. With `KeyBounds` (a tick
  only handles slots that were due when it looked) follow `StepSimulation` and
  `LedgerImplemented`; `VerdictsStay`
  (`VerdictsAreFinal`: a verdict once committed stays) is a step of it, and has no run
  of its own because the ledger implies it.
- `RInv` adds what sessions know of a job. `Original`: until the first PATCH every
  copy of `max_retries` and `cron_expression` is right and a DISABLED copy is not
  news, from which `BudgetIsKept`. `Passed`: a stale copy of a steady job
  stands on a slot that has a row, so only a fresh copy can start one; it moves
  `next_run_at` to the next slot of the schedule, which is past the one it stood on
  (`NextOnGrid`; this is where a seconds field under croniter is excluded), and
  `NoSlotSkipped` leaves no slot between (`CaughtUp`). From these `NextIsFresh` and
  `CatchesUp`.
- `ConfigIsKept` compares each flush with the copy it was computed from: a tick or
  a force-run does not write `cron_expression`, `max_retries`, `version` and
  `deleted_at` at all, and writes the status DISABLED or none; a PATCH that has read the
  row before a DELETE does not write `deleted_at` either.
- `RunningHasOwner` assumes `MaxCrashes = 0` and no rollback in the handler. Without
  that it is false, and the code has nothing that looks for such rows.

Model-checked only: `DueSlotRuns`, which is liveness.
## Notifications (`Notifications.tla`)

Code: `services/communication_service.py` (`queue_communication`),
`services/notification_engine.py`, `services/communication_dispatcher.py`,
`services/delivery_tracker.py`, tables `communications` and
`communication_deliveries`.

**State.** Message `m` is the row that request `m` inserts; `KeyOf[m]` is its
idempotency key. `comm`, `log` are committed contents. A pass (one call of
`send_queued_notifications`, in the session of a scheduler tick) is one
transaction: `mine` holds the column values its session changed, `added` the
deliveries it inserted, `dirty` the rows changed but not yet flushed, `lock` the
row locks of what it flushed. `sent` counts what the provider accepted (up to
two): it is the only variable a rollback cannot undo. `scheduled_at` is kept as
the time left (`wait`), which `Tick` counts down, so behaviours are infinite and
the state space is not.

**Actions.** `CheckKey`, `Refuse`, `Insert`, `InsertConflict` are
`queue_communication` (its one commit is `Insert`). `Select` is lines 28-41 of the
engine, `Dispatch` the dispatcher up to the flush of PROCESSING (or the
`ValidationException` of a channel without provider, or of attachments the
provider does not take, and the engine's `except` branch after it), `Write` one
UPDATE of a flush, `Accepted`/`Rejected`/`AnswerLost` the provider call with the
deliveries and the `except` branch, `Commit` line 72. Rows of one flush are
written by primary key; the list itself is in no order. A released row goes to a
waiter; passes that wait in a cycle are `Deadlocked`: the database aborts one, its
next statement raises out of the engine and everything it did is rolled back.

`DELIVERED`, `CANCELLED` and the later delivery events are never assigned by the
code (webhooks, `/cancel` and `/retry` are stubs). Rendering of a template is
`Refuse` or nothing. `communication.*` events are published before the commit;
they are left out, no subscriber of `main.py` reacts to them.

| run | question | bounds |
|---|---|---|
| `notif_passes` | one message per key under races? is `sequence_no` sound without a unique index? do status and timeline agree after stale overwrites? is it a `DeliveryBook`? | 3 requests (2 with one key), 2 passes, 2 attempts, any number of crashes |
| `notif_twice` | is a message transmitted once? (violated) | 1 message, 2 passes |
| `notif_retry` | is every queued message sent or marked FAILED? (violated) | 1 message, 1 pass, 2 attempts, no crash |

Two messages taken in opposite orders are what a deadlock needs; two passes let
one give up while the other succeeds; two attempts exercise both branches of the
`except` block as four do. `MaxSent` only caps the count of transmissions; in
`notif_passes` it says "transmitted at all".

**Fairness.** `FairSpec` (used by `notif_retry` only): each pass goes on and is
started again (the polling loop and a recurring job), and time passes; crashes are
not required.

**Disagreements** with ADR-009. `notif_twice`: passes select without a lock, and a
dispatch does not look at the status again, so the second pass, which waits for the
row lock of the first, transmits the message again. `notif_retry`: a failed
transmission leaves the message PROCESSING, which no select asks for, so it is
neither retried nor marked FAILED; a dispatch that raises before it writes a FAILED
delivery (no provider) is rescheduled with the longest backoff for ever.

**Seen while modelling, without a run.** Passes deadlock; the one the database
aborts forgets what it has transmitted. With two passes and three messages the
database may abort the same passes in turn for ever, so progress cannot be claimed
of them. What does hold, and is checked, is the audit timeline: numbered without
gaps, each attempt with its outcome, in agreement with the status.

**Proved** (`NotificationsProofs`), for any number of messages, keys and passes and
any table of backoffs: `TypeOK`, `OneMessagePerKey`, `TimelinesOrdered`,
`StatusMatchesTimeline`, and that `Notifications` implements `DeliveryBook`. The invariant `IInv` says of each pass and message
(`Session`): a message still to be dispatched is neither changed nor logged by the
pass; what the session has added continues the committed timeline, and it has the
row's lock as soon as it has added anything. The lock is taken by the flush of
PROCESSING, before `sequence_no` is computed, and kept to the commit, so a
timeline that one pass extends cannot grow under it: that is the whole reason why
`MAX(sequence_no) + 1` without an index is sound, and it would not be if the
provider were called before the flush. `StatusMatchesTimeline` needs the other half:
a pass flushes only columns it has changed, so a stale copy of the status is never
written back; a status it writes goes with the delivery it follows from, or is
FAILED on a timeline that already has all the failures. Assumed: `KeyOf` names a key for each
message, backoffs are numbers, `None` is no status, number or pass.
`EventuallySettled` and `SentOnce` do not hold.

**The refinement** (`BookSpec`, checked by `notif_passes`, theorem `BookImplemented`).
`DeliveryBook` is what whoever asked for a message may rely on: it is accepted once per
key (`Accept`); passes attempt it one at a time (`Try`), and what the provider has taken
is `taken` for good; a pass records all its attempts together (`Record`) or none
(`Forget`), the history only grows, and the verdict is the one the history gives. It says
nothing of locks, sequence numbers, copies of columns or time. The mapping reads the
history off the committed timeline (every second delivery after the first), the verdict
off the status column, and a pass's attempts off the deliveries it has not committed;
`Insert` is `Accept`, an answer of the provider is `Try`, `Commit` is `Record`, a crash or
a deadlock is `Forget`, and the rest stutters. The proof adds one invariant, `Attempts`:
an attempt not yet recorded is a PROCESSING delivery and an outcome, and the session
holds the status that the longer timeline gives. That `Try` finds no other pass at the
message is the row lock again. `AttemptsOf`, `AttemptAppends` and `FailuresInOutcomes`
relate timelines to histories; the last one counts failures through a bijection.
That the verdict puts SENT before the count of failures matters: a pass with a stale list
may send what another one has given up.
## Workflow automation (`Workflows.tla`, `ExecutionLog.tla`, `WorkflowsProofs.tla`)

Code: `core/events.py` (`LocalEventPublisher`), `services/workflow_subscriber.py`,
`workflow_executor.py`, `workflow_action_engine.py`, `workflow_service.py`
(edits of a rule), `repositories/workflow_*`, and of leads
`LeadService.update_lead` with `LeadRepository.update`.

**State.** `lead`, `rule`, `run` are committed table contents: the status and
version of a lead, the current version of each rule (`Definition[r]` is its
history), the executions with their steps, keyed by the event and the rule.
`stack[t]` holds the event dispatches of thread `t`: `publish()` awaits its
subscriber, whose actions publish again, so an outer dispatch waits in the
middle of its action until the inner one returns. A frame is the local state of
one subscriber: `rules` (as they were loaded), `i` and `k` (rule and action in
hand), `after` (`payload["after"]`, read once), `copy` (the lead as its session
believes it to be) and `pc`.

**Three SELECTs.** `get_enabled_by_trigger` loads rules and then, with
`selectinload`, conditions and actions. Under READ COMMITTED each SELECT may see
another version of a rule, so a loaded rule has three version numbers (`Select`,
`SelectConditions`, `SelectActions`); filters come from the first, conditions from
the second, actions from the third. The snapshot stored in `run` is what the
session loaded.

**Connections.** A subscriber opens a session of its own, whose first query is that of
`Select` and takes a connection from the pool of `db/session.py` (`PoolSize`: with
SQLAlchemy's defaults 5 and 10 more, waited for up to 30 seconds). `update_lead`
refreshes the lead after its commit and so opens a transaction that is still open while
it awaits `publish()`: each dispatch of `lead.updated` under way keeps one connection
(`Awaited`), the client's request included, and a rule that updates the lead it was
set off by adds one per level until none is left. `create_task` publishes after its
commit without another query and keeps none. `Starved` is the `TimeoutError` of a
subscriber that got no connection: `publish()` catches it, the rules of that event are
not run, and the publisher goes on. It may happen at any `Select`, as requests outside the
model use the same pool. Of the queries after the first one the model says only that
they may fail (`Raise`).

**Actions.** `Select`... (41-95 of the subscriber), `PassOver` (filter, duplicate
key), `Begin` (RUNNING row, committed before the conditions), `ConditionFalse`,
then for each action one of `LoadLead`, `NothingToUpdate`, `NotATransition`,
`UpdateLead` with `Refresh`, `CreateTask`, `ActQuietly`, `Raise`, `Broken`, and after it
`Succeeded`, `Failed`, `SkipStep`, `Close`: one commit each in the executor.
`UpdateLead` is the conditional UPDATE with the version; the ORM evaluates it on
the object in the session whether a row matched or not, so after
`ConcurrentUpdateException` the session's lead has a status and a version the
table never had. The row gets the columns the UPDATE sets, which for UPDATE_LEAD and
ASSIGN_USER do not include the status. `Refresh` is a step of its own: what was
committed since is what the session reads before it publishes. `Broken` is a statement of
any action that the database refuses: the session refuses everything until
a rollback that the code does not do, and the execution stays RUNNING. `Raise` is an
exception of any action that leaves the session usable.
`PatchRead`/`PatchWrite` are `PATCH /leads/{id}`, `CreateRule` and `EditRule` the
creation and a version-guarded edit of a rule. `RunManually` is the execution of one
rule by hand on a lead: the rule must be enabled, its trigger and filter are not
looked at, its conditions are evaluated like any others, and it logs with an event
of its own. CHANGE_STATUS to the status the lead has and ASSIGN_USER of the user it
has are `NothingToUpdate`; otherwise both end in `UpdateLead`, like UPDATE_LEAD.

| run | question | bounds |
|---|---|---|
| `workflows` | do the log (as `ExecutionLog`), claims, snapshots, transitions and return of publish() survive races, failures and a restart? | 1 lead, 1 client, 1 request that runs a rule by hand, 4 rules: one is created late and edited, one sets itself off, one is set off by another's task, one is disabled; 3 connections; 1 crash |
| `workflows_transitions` | are transitions valid without exception? (violated) | 1 lead, 2 clients, 2 rules |
| `workflows_every_rule` | does every matching rule get an execution? (violated) | 1 lead, 1 client, 2 rules |

One lead is enough: dispatches touch one lead each, and share nothing across
leads but the rules. A client and a rule run by hand make each other's UPDATE lose
the race; the rules give an event with two rules, a rule with a failing action followed by others,
and a nested event; the edit makes the three SELECTs disagree.

**What the log promises** (`ExecutionLog`, the property `LogSpec` of the run). An
execution is entered once for an event and a rule, with the actions its snapshot
lists, and only while every other execution of the event has failed or was
rejected. What was entered stays: steps are added one at a time in the order of the
plan, after a failure the rest is skipped, the verdict is the one the steps give,
and it is final. Nobody writes into an execution that has a verdict, and one that was
abandoned (a crash, a broken session) stays under way. The refinement reads the
tables: `log` is `run` with its steps and the plan of its snapshot, and `events` is
itself; stacks, sessions and leads are hidden.

**Fairness.** Weak fairness of each thread's subscriber: the coroutine goes on
when what it awaits is done. Clients, edits and crashes are not required.
In the run a rule on `lead.updated` has the action UPDATE_LEAD and sets
itself off; nothing in the code stops that recursion but the pool. `PublishReturns`
says that it stops it: the level that finds no connection gives up, and all above
it come to their end. With a pool that waited without a timeout the thread would wait
for connections that it holds itself, which is the mutant of this property. Three
connections are a client's request and two levels of the recursion below it, or fewer
levels beside those of the request that runs a rule by hand.

**Disagreements.** (1) `workflows_transitions`: after a lost race the next rule
of the same event works from the phantom copy, its check passes from a status the
lead never had, and its UPDATE matches because the phantom version is the one the
winner wrote. `LeadTransitionsValidAtFirst` is what holds: a step is valid unless
a rule of the same event has failed before. (2) `workflows_every_rule`: the
idempotency key is the event alone, so of two rules on one trigger only the newer
one runs; the older counts as a duplicate.

**Seen while modelling, without a run.** A rule on `lead.updated` with an
UPDATE_LEAD action takes every connection of the process, one per level, and
everybody's requests wait for the timeout of the last. A rule on `task.created` with
CREATE_TASK recurses without keeping connections; the interpreter's limit on recursion,
which the model does not have, is all that ends it, so the runs have no such rule. An outer session keeps the lead as
it was before a nested update, so its next UPDATE fails. A rule disabled after
the SELECT still runs, and conditions of later rules are evaluated
on what the lead was when the event was taken up. `task.created` carries the
lead's id, the subscriber looks it up as a task and evaluates conditions on
an empty payload. `execute_manually` says that it bypasses the condition engine
(`workflow_service.py:180`); the executor it calls evaluates the conditions.
DELETE of a rule sets `deleted_at` and flushes (`api/v1/workflows/router.py:174`),
nobody commits, and the rule stays.

**Proved** (`WorkflowsProofs`), for any rules with any history of versions, any
number of leads, clients and nested events, and any failures: `TypeOK`,
`AuditTrail`, `OneClaimPerEvent`, `LeadTransitionsValidAtFirst`, the refinement
`LogImplemented`, and `SnapshotIsWhatRan`, which the log contains. Assumed is that the versions of a rule are what
`create_workflow` stores (`DefinitionAssumption`) and that `None` is no lead or
status. The invariant `IInv` has these parts.

- `Trails`: the row of an execution, closed or not, is successes, then at most one
  failure, then skipped steps, each step the action of the snapshot, and its three
  counters say how many. `AuditTrail` counts the steps of a closed one; the three
  sets of positions are intervals.
- `Frames`: each dispatch on a stack, waiting ones included, is about an event of
  its own (`Distinct`), has loaded versions that existed (`RowsLoaded`), has logged
  nothing yet for the rules after the one in hand (`Fresh`), and while it acts the row
  of its execution is RUNNING, carries the rule in hand as its snapshot and has
  `k - 1` steps (`InHand`). A step of one dispatch touches rows of its own event only,
  so the others keep this (`FrameStays`).
- `Believes`: the lead in a session is the table's whenever the versions agree
  (`Coherent`), or an action of the event has failed (`Spoilt`). It is not inductive
  without the exception: the phantom copy of a lost race may carry a version that
  the table reaches later, which is `workflows_transitions`.

The refinement needs nothing more: `Fresh` says that an execution is new when it is
entered, `InHand` that its next step is the next of its plan, and `Trails` that
the counter of failures, on which the code decides the verdict, agrees with the
steps (`Failures`).

The list of matching rules is described by what it is (`Listing`, the rules in
order, which exists for every set of rules by the lemma `ListingIs`), since the
provers know nothing of a filter of sequences.

**Abstractions.** Filters and conditions are sets of lead states; their operators
(`workflow_condition_engine.py`) are pure functions and not modelled. Not modelled:
execution by hand on a task, and deletion of rules, which changes nothing (above).
The actor of a
change is not recorded.
## Reminders (`Reminders.tla`, `RemindersProofs.tla`)

Code: `services/reminder_engine.py`, table `reminders` with the partial unique
index `uq_pending_reminders`.

**State.** `due` is what the SELECTs of the three stages (leads without activity,
tasks due, leads with a follow-up) would return now; it changes at will, since
leads and tasks are worked on by others. `reminder` is the committed table: a row
is a target and a number up to `Copies`, `NONE` means no such row; a dispatched
row that nobody refers to any more stands for a new one (`Free`), which keeps the
state finite. `gen[g]` is one run of `generate_reminders`: its stage, the rest of
its list, the INSERT it has issued (`want`), the rows of its transaction (`mine`).
`sweep[p]` is one run of `process_reminders`: the rest of its list and the rows it
has changed in its session. `published` is the ghost of the event publisher: rows
whose event went out since they were inserted.

**Actions.** `SelectStage`, `IssueInsert` (an INSERT that waits while another
transaction holds a row of the same target: `Blocked`), `Inserted`, `Duplicated`
(the `IntegrityError` branch: `session.rollback()` drops every reminder flushed
before, expires the list, and reading the next element raises `MissingGreenlet` out
of the handler; at the end of the list the next stage goes on with an empty
transaction), `DeadlockAbort` (two generators that wait for each other: the
database aborts one with an error that is not an IntegrityError), `StageDone`,
`CommitGen`; `StartSweep`, `PublishReminder`, `CommitSweep`; `Crash`.

| run | question | bounds |
|---|---|---|
| `reminders` | are reminders unique, honest about their events, and not forgotten? | 2 generators, 1 sweep, 2 leads, 2 rows per lead, 1 crash |

Two generators and two targets inserted in opposite orders are what a deadlock
needs, and a rollback that takes an earlier INSERT with it; two rows per target
allow a new reminder while the old one is dispatched. The code selects the leads of
the follow-up stage first and asks for each one's tasks when it comes to it
(`reminder_engine.py:113-119`); in the model that question is part of the stage's
selection, and a task created in between makes no difference to what is stated. The stages do not
interact except through the rollback, so targets of one stage suffice for TLC;
the proofs are for all.

**Fairness.** Jobs recur (weak fairness of each generator and sweep). For each
INSERT strong fairness: PostgreSQL grants a waiting INSERT when the transaction it
waits for ends, before one that comes later. With less, two generators could
abort each other in turn for ever.

**Proved** (`RemindersProofs`), for any number of generators, sweeps, targets,
rows and crashes: `TypeOK`, `OnePendingPerTarget`, `Uncommitted`,
`DispatchedWasPublished` (no row is DISPATCHED whose event did not go out), and that
`Reminders` implements `ReminderBook`, from the bounds being naturals and every target belonging to a
stage. None of the invariants is inductive by itself. That two generators cannot
commit rows of one target needs `Uncommitted` (what the unique index and waiting
INSERTs give to an open transaction) and `HeldOnce` (one transaction has a target
once), which in turn needs `Ahead`: lists are sets, stages have different types and
come in order, so a target does not come again. `DispatchedWasPublished` needs
`SweepsCarry`: rows in the hands of a sweep are in the table, and those it has
changed were published. The two liveness properties are model-checked only.

**The refinement** (`BookSpec`, theorem `BookImplemented`). In `ReminderBook` a target has
no reminder or an open one, which somebody is told of and which is closed only after
that. The mapping counts a target as open when one of its committed rows is PENDING,
as told when the event of that row went out. A generator's commit opens, an event tells,
a sweep's commit closes those of its rows that are still open (another sweep may have
closed some), and everything else stutters, rollbacks and crashes included. The proof
adds `Unheard`: what a transaction has inserted and not committed was told to nobody.
The run has one sweep; any number of them is covered by the theorem.

**Seen while modelling, without a run.** Two overlapping sweeps select the same
rows without a lock and both publish; a crash between publish and commit publishes
again after the restart. `lead.followup_due` is not in `EVENT_TRIGGER_MAP`, so no
workflow rule reacts to a follow-up reminder.
## Leads, tags and tasks (`Crm.tla`, `CrmBook.tla`, `CrmProofs.tla`)

Code: `services/lead_service.py`, `services/task_service.py`,
`repositories/lead_*`, `repositories/task_repository.py`.

**State.** `lead`, `task`, `tag`, `tagged` are committed rows; `history` and
`timeline` are `lead_activities` and `task_activities`; `sequence` is
`organization_sequences.next_lead_number`, with `None` for an organization that has
no row yet. `call[r]` is what a request has read and not yet written. An e-mail
address and a phone number are one thing, a `Contact`.

**Actions.** A request reads in one step and writes and commits in a later one:
`CreateLead`, `TakeNumber` (the SELECT ... FOR UPDATE) or `NoSequenceYet` and
`InsertSequence`, `InsertLead`; `PatchLead`, `WriteLead`; `CreateTag`, `InsertTag`;
`AssignTag`, `InsertTagged`; `RemoveTag`, `DeleteTagged`; `AddTask`, `InsertTask`;
`LoadTask`, `WriteTask`. `DeleteLead` (with its cascade to tasks), `RestoreLead`,
`AddNote` and `DeleteTask` decide nothing on what they read and are one step.
`Abort` is an exception or a crash before the commit. A write that waits for a row
lock is a write step that comes later; only the row of lead numbers is held across
steps (`NumbersFree`).

| run | question | bounds |
|---|---|---|
| `crm` | are lead numbers sequential, and do timelines and `completed_at` tell the truth, when requests overlap? | 3 leads, 1 task, 1 tag, 2 contacts, 2 requests at a time, 7 calls |

**What they promise** (`CrmBook`, the property `BookSpec` of the run). Every
request takes effect at one instant, on what is true at that instant, or not at
all: a lead appears with the next number, and the number after it is next; a tag
and its entry in the lead's history come and go together; a task goes from the
status it has to one that the operation allows, and the same step sets
`completed_at` and writes the timeline. `Crm` reads and writes in different steps;
the mapping leaves out the calls, the versions and what is deleted, so the steps
that only read or hide a row are stutters, and what a request decided on an older
version must either still be true or write nothing.

Two requests at a time are what a race needs; three leads let one creation fail
between two that succeed; seven calls are enough to create a lead and a task, load
the task twice, and write both loads.

**Proved** (`CrmProofs`), for any number of requests, rows and calls: `TypeOK`,
`NumbersSequential`, `TimelineTellsTask`, `TagTimeline`, `CompletedAtMatchesStatus`
and the refinement `BookSpec`, from `None` being no row, number or name. References
resolve because a call refers to rows that are there (`Refers`) and rows are never
removed. Numbers are sequential because one
request at most has a number in hand, and that number is the next one
(`Drawing`). For tasks the invariant speaks of the calls: a call that has loaded a
version which is still current has loaded what the row says (`Loaded`), and the
status, `completed_at` and the end of the timeline agree in the row (`Agrees`); the
version guard of the UPDATE does the rest. `TagTimeline` is inductive on its own:
an entry at the end is one more of its kind (`TimesGrows`), and one about a tag goes
with the row of the assignment that it tells of (`Tells`). `BookImplemented` adds
no invariant to these: an insert of a lead maps to `Create` by `Drawing`, a write of
a task to `Change` by `Loaded` and the version guard, and deletions keep what the
mapping shows (`KeptNumbers`, `KeptTasks`).

**Seen while modelling, without a run.** Duplicate contacts are looked up and
inserted in separate statements with no constraint behind them: two creations, or a
creation and a restore, can leave two live leads with one address. Two tags may get
one name, after which `get_tag_by_name` raises for it. `WriteLead` asks for the
version and not for `deleted_at`: a PATCH changes a lead that was deleted after it
was read. A task can be added to a lead deleted in between.
## Jobs, events, governance and installation plans (`JobPlatform`, `EventBus`, `Governance`, `Resolver`)

`MCPlatform` checks three parts in one run. They share no state: the variable
`part` says which of them a behaviour is about, and the others stand still.

### Jobs and their events

Code: `services/distributed_execution_service.py`, `jobs/`, `queue/`, `events/`.

**State.** `job` and `result` are committed rows (`ai_jobs`, `ai_job_results`);
`queue` (bags of items; which one is first depends on priority and age, so any
may be) and `flight` are the in-memory queue, outside every transaction. A session
is one transaction: `call[s]` holds what it has read and what it has written and
not committed. `outbox` is `ai_events` with its deliveries, in the order of the
commits; a draft in a call is an event that was appended, routed and partly
delivered in a transaction still open.

**Actions.** `Submit` (backpressure), `Insert`; `Take` (dequeue and the read of the
row; an item whose row is not QUEUED is acknowledged), `Claim`, `Fail`, `Emit`,
`Deliver` (one handler, one outcome), `Break` (a database error: isolation of
subscribers is a Python `except`, the transaction does not survive it), `Complete`;
`Cancel`, `Retry`, `Replay` and their `Write...` steps, which wait for the row lock
and write on top of what was read; `Redeliver` (visibility timeout), `Commit`,
`Rollback`, `Restart`. Whether a transaction is committed is left open: no code in
`src/` calls the dispatcher, and the routes never commit.

| run | question | bounds |
|---|---|---|
| `platform` | does the outbox tell exactly the runs that completed, are sequence numbers and deliveries what subscribers need, are decisions fresh, and are installation plans right? | jobs: 2 jobs, 2 sessions, 2 subscriptions, 2 runs of a job, 1 retry, queues of 1 item for retries and replays, depth 2; governance: 2 requests, 1 action, cache of 2 ticks, delay of 1, clock to 3, 3 policies; plans: every catalogue of 3 agents with up to 2 dependencies each |

Two sessions are needed for a second dispatcher after a redelivery and for a
cancellation during a run; two jobs for two publishers; two subscriptions for one
that fails beside one that does not; one retry and two runs for a budget that is
spent. Sessions and clients occur in different behaviours, so the symmetry of the run
swaps the ones together with the others: it identifies as many states as two
separate symmetries would, with half the permutations. A run is restricted to what the code can reach: `process_failure` is called
for FAILED jobs only (an assumption on its caller, of which there is none).

**What runs promise** (`RunLedger`, the property `LedgerSpec` of the run). A run
leaves its result, the status of its job and, when it completed, one event at one
instant. The event has the number after the greatest that was committed when it
drew its own, and every subscription was offered it. Results and events are never
changed; a job may be opened again (cancellation, retry, replay), and a run may
complete a job that has completed already, because UPDATEs name the id only. The
refinement reads the committed tables: `events`
is `outbox`, `results` is `result`, and `ended` is the status of a job that
completed or failed, "open" for any other.

**Proved** (`JobPlatformProofs`), for any number of jobs, sessions, subscriptions
and retries: `JobsTypeOK`, `SequenceFollowsCommits`, `OutboxTellsRuns`,
`LedgerImplemented`, and `EachSubscriberTried`, which the ledger contains. The
invariant `JInv` adds to the types that a session works on a job whose row exists (`Refers`), that committed numbers have a maximum
(`Counted`), that a draft fits behind the log (`Fits`: what was committed when it drew its
number has smaller ones, the one before its own among them), and that a transaction
about to commit reports either a row alone, or a failed run, or a completed run with
its event (`Reports`). `OutboxTellsRuns` compares two cardinalities; each commit
adds one element to both or to neither. For the refinement `Steps` leaves a commit
as the only step that changes a table, and `Reports` says what it may add: `Open`,
`Fail` or `Complete` of the ledger, or nothing when an open job stays open.

**Seen while modelling, without a run.** Enqueueing precedes the commit of the row:
a dispatcher that is faster acknowledges the item, and the job is never run.
Submissions through the route are never committed and their items stay, so the
queue fills up to the depth at which everything is refused. `dispatch_next` drops a
RETRYING job, as its status is not QUEUED. Replaying a dead letter does not take
it out of DEAD_LETTER although `dead_letter_queue.py:70` says so. A redelivered job
may run twice and a cancellation may overwrite COMPLETED, which
`job_state_machine.py` has no transition for: UPDATEs name the id only. Two
publishers may draw the same sequence number. A delivery is tried once: what is
RETRYING is dispatched by nobody.

`Dispatched` leaves out two kinds of delivery that the shipped configuration does not
have: one whose subscription or handler is missing, which the dispatcher leaves PENDING
(`event_dispatcher.py:113-115`, `130-136`; every subscription is seeded with its
handler), and one that is dead-lettered at its first attempt (`:194`), which takes a
`retry_limit` of 1 (every subscription has more).

### Governance

Code: `governance/governance_engine.py`, `services/governance_service.py`,
`api/v1/governance/router.py`. `policy` holds the rows in the order of their
commits, with the ghost `until`, the time at which a greater version came; `cache`
is the engine's cache of decisions, keyed by action and payload; `ask` is what a
request has read. `ReadVersion`/`PublishPolicy` are PUT, `ReadPolicy` followed by
`Hit` or `Evaluate` a decision; `GiveUp`, `RestartServer`, `Tick`. What a policy
says is a function of its row, so a decision is named by the row it followed. That
a request uses what it read within `MaxDelay` is an assumption on the environment:
without it nothing bounds the age of a decision.

**Proved** (`GovernanceProofs`), for all constants that satisfy `TimesAssumption`:
`GovernanceTypeOK` (with it, that versions have no gaps) and `DecisionsFresh`, from
`GInv`: a row without a greater version is in force (`InForce`), and what is read
or cached was in force when it was read (`Fresh`). It would not hold if a hit
extended the entry's life.

**Seen while modelling, without a run.** Two PUTs may publish one version twice,
and `get_policy` then returns either. Approvals asked for by the interceptor are
never persisted: its only caller raises, and the transaction is rolled back.

### Installation plans

Code: `marketplace/marketplace_resolver.py`, `preview_installation`. `manifests` is
any catalogue (`depends_on` of each agent, or no manifest), `Preview` computes
the plan the way the code does: a search for the nodes, a depth-first search for
cycles that starts at the nodes in any order (they are a Python set), missing
manifests, and a second search for the order. `PlansInstall` states the result
without a search, from the transitive closure of "names": an executable plan needs
no agent without a manifest or in a circle, and installs each agent
once after what it names; a cycle given as a reason against a plan is one, and what is
missing is needed and missing. It does not say that every plan with manifests
and without circles *should* be executable: version constraints ought to refuse some,
and the code does not look at them (below). Three agents with
two entries each contain shared dependencies, cycles beside the root, agents named
twice or naming themselves. The searches are RECURSIVE operators: no theorem.

**Seen while modelling, without a run.** `resolve_versions` compares no versions,
although the code says that it resolves and checks SemVer constraints
(`marketplace_resolver.py:10`, `:74`, `:169`, `:179`): an executable plan may install a
version its dependents exclude; `SemVerMatcher.satisfies` has no caller. A constraint with "<" or ">"
alone is not cut off, so that agent counts as missing. Names of packages are lowered
(`manifest_parser.py:50`) and names in `depends_on` are not.
## Plan

Scheduler, notifications, workflows, reminders, the CRM's rows, jobs with their
events, governance and the marketplace's resolver are modelled. What is left, in
the order of its weight:

1. Compositions: the tick of `Scheduler` with the handler of `Reminders`, to state
   end to end that a rollback of the handler loses one slot and no more;
   `Reminders` publishing into `Workflows`.
2. Setup of communications: default provider and versions of templates under
   concurrent PATCHes. The two promises (one default, one text per version) do not
   hold, and are listed as hazards.
3. Sessions: failed-login counter, rotation of refresh tokens, the first user's
   role.
4. Writes of the marketplace: upload, publication, installation.

**Abstract specifications.** `SlotLedger`, `ReminderBook`, `DeliveryBook`,
`CrmBook`, `RunLedger` and `ExecutionLog` are proved to be implemented for every
value of the constants. `Governance` and `Resolver` have none: what the first
promises is `DecisionsFresh`, and the second is a function whose specification is
`PlansInstall`. Left are the two compositions above, whose interfaces the theorems
already state from both sides.

## What stays with TLC, and what is not modelled

Liveness under fairness (`DueSlotRuns`, `PublishReturns`, `DueIsReminded`,
 `PendingIsPublished`) and ENABLED are out of TLAPS's reach, and
so is induction over data. `Resolver` declares RECURSIVE operators, for its searches
are recursive functions of the code, and has no theorem; no other module does.
`PlansInstall` is therefore model-checked on its bounds. All other invariants and
action properties of passing runs are theorems. Where a proof would go by
induction over numbers (the least number of a set, the listing of a set of rules)
it goes by well-foundedness of finite sets under inclusion instead, of which the
library's theorem needs no operator as a parameter.

Not modelled: the text of messages and templates, evaluation of condition
operators, croniter's calendar beyond the slots of a period, HTTP, permissions,
tenancy (every query filters by organization; one organization is modelled), and
the components marked `not_modelled` in `PROJECT.json`.

Some parts were read for a model and left, because the code as it stands has no
behaviour worth one:

- **AI plans and approvals.** The plan's actions that write carry the tool names
  `send_communication`, `manage_task` and `create_lead`, and `policy_engine.py:43`
  allows other names only: a plan ends at its first such action, before an
  approval or a tool is reached.
- **Agent runtime.** One request at a time calls models and tools in sequence. The
  timeline it appends to is mutated in place and then replaced by an equal value,
  which the ORM does not see as a change; it is a log that no decision reads.
- **Marketplace writes.** `publish_package` asks for no validation and
  `install_package` for neither publication nor plan; `rollback_installation` uses
  `select`, which its module does not import. No promise relates the operations.
- **Authentication, organizations, billing.** Each request checks and writes on its
  own; what overlapping requests may do is stated nowhere, and
  `check_quota_available` has no caller.
- **Workers of the job platform.** Their rows change inside the transaction of a
  run and are read by statistics only.
