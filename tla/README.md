# Ouroboros supervisor: TLA+ models, model checking and proofs

Ouroboros is a self-hosted agent. A server process (`server.py`) owns a queue of tasks, a pool of worker
processes that run them, and a durable record of what was asked and what came of it. This directory
specifies the part where that is hard: who owns a task, a worker slot and a Stop request at any moment, while
threads, processes, crashes, timeouts and restarts interleave.

Paths below are relative to the repository root.

## 1. The system

| Component | State | Operations | What makes it hard |
|---|---|---|---|
| Cancel-intent projection, `ouroboros/cancel_intents.py` | `state/cancel_intents.json`: one row per task id with request id, state, claim generation, claimant pid, scope, policy, drain stamp | request (mint, strengthen, alias, re-key), mark scope, mark drained, claim, release, settle | two custody threads on one row; takeover of a dead claimant; a request widened between capture and settle; a file that cannot be written; a restart between claim and settle |
| Cancellation custody, `supervisor/task_lifecycle.py`, `cancel_publication.py` | the claim a thread works under, the slot it captured | claim, capture, kill, write `cancelled`, settle or release, publish, respawn, sweep | shares slots with the reaper, rows with the loop and cards with the worker's own `task_done` |
| Task launch, `supervisor/worker_assignment.py` | launch claims on PENDING rows, `busy_task_id` | claim a slot under the queue lock, work outside it, re-validate, put the task, bind the RUNNING row, or release | the slot may have died, been reserved or respawned meanwhile |
| Worker process, `supervisor/worker_process.py` | its task, its stored result | run, store the terminal, put `task_done` stamped with the attempt | dies at any point between these |
| Worker pool, `supervisor/workers.py`, `worker_pool_lifecycle.py` | WORKERS: process, `booting`, `reaping`, `busy_task_id` | spawn, open when ready, retire, respawn | a slot id outlives its process |
| `task_done` intake, `supervisor/events_task_done.py` | RUNNING, the card | check the stamp, pop the row, free the slot, resolve the card | late and duplicate events of an older attempt |
| Crash detector, `supervisor/worker_health.py` | `reaping` reservations, retry counts | reserve a dead slot; saved terminal, verdict or retry | judges outside the lock what it captured inside |
| Reaper, `supervisor/task_reaper.py` | one job queue, one thread | kill and confirm, publish a saved terminal or a verdict, respawn, defer | an unkillable worker, unreadable files, a job overtaken by another owner |
| Hard timeouts, `supervisor/queue_timeouts.py` | deadlines | pop the RUNNING row, hand the slot to the reaper | fires while somebody else judges the same worker |
| Terminal delivery, `supervisor/terminal_delivery.py`, `terminal_supersession.py`, `events_chat_delivery.py` | a durable registry of owed, delivered, given-up and replaced messages; in memory the sends in progress and the sends not yet recorded | owe, send, record, replay with a bound on attempts, give up, evict over the cap, replace a notice by a Stop receipt | two threads handle copies of one message; a crash between send and receipt; a full outbox |
| Schedules, `supervisor/queue_schedules.py`, `schedule_occurrence.py`, `schedule_lifecycle.py` | one row per schedule with the occurrence it has claimed; the receipt of an admitted task in its result | claim a due point, prepare, admit (receipt, row, snapshot), mark dispatchable, put, reconcile, settle; edit, disable, delete, restore | three writes per admission; marks written outside the locks; edits, Stops and restarts between any two steps |
| Queue snapshot, `supervisor/queue_snapshot.py` | `state/queue_snapshot.json` | persist, restore at start, fence what was running | a snapshot older than the receipts beside it |
| Owner pause, owner stop, admission | parked rows, stop fences | see `PROJECT.json` | exact resume |

The loop of `server.py` ticks through health check, event drain, timeouts, cancel sweep and assignment. It and
the helper threads (launch lane, reaper, custody attempts) share PENDING, RUNNING and WORKERS under one queue
lock, and exchange `task_done` events over a multiprocessing queue. The intents file has a lock of its own.
Threads capture something under a lock, work without it, and must re-validate before they act: almost every
hazard in `PROJECT.json` is an instance of that.

The remaining parts of the repository (the agent loop, LLM clients, tools, review, skills, memory, Web UI,
launcher, Android host) are listed in `PROJECT.json` as not modelled, each with its reason: they are sequential
conversations with external services, policy tables, parsing, or operating-system integration.

What correctness means, per component:

* projection: one custody attempt at a time passes the write fence; a lineage has one authority row; requests
  only get stronger; a late attempt changes nothing; every request is eventually closed, once;
* custody: one owner kills, publishes for and respawns a slot; `cancelled` only over a dead process; a Stop closes over
  ended work, and closes;
* execution: one process per task; no verdict over a live process; an idle slot is idle; finished work is never
  replayed; unfinished work and reserved slots always have an owner; every admitted task ends with a resolved card;
* delivery: a message is owed, delivered, given up or replaced, and only one of these; it is sent once per server life; what is
  recorded was sent; nothing stays owed for ever;
* schedules: a firing point becomes at most one root task; an occurrence reaches a worker at most once; two runs of
  one schedule overlap only while the reaper still has to kill the earlier one, which a hard bound has struck; accepted work is neither lost by an edit or a failed write nor revived after its end.

## 2. Modules

| Module | Models |
|---|---|
| `CancelIntents` | `ouroboros/cancel_intents.py`, and the claim/release/settle protocol of `supervisor/task_lifecycle.py` on it |
| `StopRequests` | the abstract promise of the projection |
| `CancelIntentsRefinement` | the refinement mapping between the two |
| `TaskExecution` | launch, workers, pool, bus, crash detector, timeouts and reaper |
| `CancelCustody` | extends `TaskExecution` with custody: what a Stop does to the queue, the worker, the result and the card |
| `TerminalDelivery` | the outbox and its two handler threads |
| `OwedMessages` | the abstract promise of the outbox |
| `TerminalDeliveryRefinement` | the refinement mapping between the two |
| `ScheduleOccurrence` | a schedule's occurrence from its claim to its end, with the queue snapshot and restarts |
| `MCCancelIntents`, `MCTaskExecution`, `MCCancelCustody`, `MCTerminalDelivery`, `MCScheduleOccurrence` | instances for TLC |
| `CancelIntents_proofs` | theorems on the projection: types, claims, lineage |
| `CancelIntentsActions_proofs` | its action properties |
| `CancelIntentsRefinement_proofs` | that it implements `StopRequests` |
| `TaskExecution_proofs`, `TaskExecutionSafety_proofs` | type correctness, and the inductive invariant with the safety theorems |
| `CancelCustody_proofs` | the inductive invariant of custody, reaper and loop together, its safety theorems, and what a number of faults can do |
| `TerminalDelivery_proofs` | the inductive invariant of the outbox, its safety theorems, and that it implements `OwedMessages` |
| `ScheduleOccurrence_proofs` | the inductive invariant of the schedule and its safety theorems |

### CancelIntents

`intents[t]` is the row stored under task id `t`; each mutator of the file is one locked read-modify-write and
so one action (`MintIntent`, `RepeatRequest` and `RekeyIntent` are the three outcomes of `request_cancel`;
`MarkIntentScope`, `MarkFinalizeControlDrained`, `ClaimIntent`, `ReleaseClaim`, `SettleIntent`). `held[c]` is the
request and generation that custody thread `c` keeps to fence its later writes, `judged[c]` what a cascade's
postcondition has read before it settles the root (`JudgeCascade`, `SettleCascade`). `RetryLeaf` gives the
physical retry at the end of a stored lineage; `AuthorityKey`, `AliasedToRoot` and `Rekeys` are the resolution
rules between a logical root and that leaf. `Restart` kills every thread and may give the new server a pid used
before; `StoreFails` and `StoreRecovers` are an unwritable file, during which `EndWithoutWrite` is a custody
whose last write is only logged. The age of a claim is the Boolean `aged` (older than `CLAIM_STALE_SEC`).

Abstracted: times, reasons, sources, forensic log rows, the quarantine of malformed rows, and the one-shot
import of legacy latches.

### TaskExecution

| Variable | Code |
|---|---|
| `pending`, `running` | PENDING and RUNNING; `running[t]` is the row's worker id |
| `launch` | the launch claim on a PENDING row |
| `slots` | WORKERS; `life` counts processes, standing for the identity of the Worker object; `work` is what the process is really at, which the server does not see |
| `attempt` | the attempt of the row, stamped on events as `_files_prepared_attempt` |
| `result` | the stored task result, up to what the supervisor tells apart |
| `bus` | `task_done` events that were put and not handled: a set, so they arrive in any order |
| `jobs`, `reaper` | the reap queue, and the reaper thread's phase and job |
| `resolved` | handled terminal events per task |

One action is one critical section of the queue lock, or one step of a process. The reaper's thread is a
sequence of such sections, and each re-validation in the code (`_dead_job_is_current`,
`_timeout_job_is_current`, `_launch_claim_held`, the stamp check of `_handle_task_done`) is an operator of its own.
`KillTimedOut` kills the process the job captured and no other: where the slot has a new one, there is nothing to kill.
The outcome `cancelled` and the events put by `cancel` belong to `CancelCustody`; nothing here stores or puts them.

Abstracted: the choice of the candidate, priorities and project placement; the retained list of deferred jobs is
collapsed into the queue; the transient `interrupted` status; the budget pause, evolution tasks, held answers (a
kind of saved terminal), the admission block of a retry, soft timeouts and their grace, the deadline of queued
rows, the reaper's self-heal after an unexpected exception, a failed write of a timeout's verdict (logged, the
event is put regardless), the latch `_terminal_file_recovery` of a RUNNING row, by which
`_handle_task_done` sends an event whose terminal files are not ready to the reaper, the unready-slot deadline, the crash-storm latch, growth and idle retirement of the
pool, and stopping whole generations. A timeout's yield to an open cancel intent is
in `CancelCustody`.

### CancelCustody

| Variable | Code |
|---|---|
| `stop` | the task's row in the projection: none, open or claimed |
| `custody` | the attempt of `cancel_task_custody` on the task: where it is, the worker it captured, what it read before the claim |
| `deferred`, `replaying` | `_deferred_reap_jobs`, and those of them the health tick has handed back to the reaper |

`RequestStop` is the ingress; `BeginCustody` the control event or the sweep. `ClaimStop` and `Capture` are phases 0 and
1. A captured worker goes through `KillStopped`, `JudgeStopped`, `WriteCancelled`, `SettleStop`, `PublishStopped` and
`RespawnStopped`; a captured queue row through `WritePending` and `PublishPending`; when nothing is found,
`FinalizeOnMiss` and `PublishMiss`. Every failure exit of the first three and of the write is a disjunct that gives slot,
row and claim back. `DropCancelledPending` is the assignment pass's own settlement of stopped rows.
`SupervisorStep` and `ReapStep` are the steps of `TaskExecution` with what Stops change in them: the assignment pass
launches nothing while a queued row is stopped, a hard bound yields to an open Stop, and a replay that ends takes its
job off the retained list. Here the list of retained jobs is explicit, because the miss lane consults it.

Abstracted: one server life, in which the claims exclude one another and no claim is abandoned, so there is no takeover,
no recovery of a stranded slot, and the write fence holds (`CancelIntents` has those); Stops of scope single; a
projection that can be written. Left out are graceful stops, cascades, direct chat turns, live review operations,
delegated runs, retry lineages and salvage. The files of a worker that is dead and has a stored terminal are ready.

### StopRequests

A request is unborn, open or closed; one custodian at most holds it; `Take` includes taking over from another
holder; a restart loses all holders and no request. Under the mapping, a request is open when some row carries it
and held by the custodian whose claim passes `claim_still_owned`.

### TerminalDelivery

| Variable | Code |
|---|---|
| `registry` | `terminal_deliveries.json`: owed rows in order, and the ids delivered, given up and replaced |
| `chatted` | Stops whose task result names the chat that their receipt reached |
| `producer`, `older` | how far the code that owes a message is; the notices that were owed when a Stop was requested |
| `bus`, `handler` | queued `send_message` events; the events each thread still has to handle and where it is |
| `active`, `memory`, `hints` | `_ACTIVE_DELIVERIES`, `_DELIVERED_MESSAGE_IDS`, `_DEFERRED_DELIVERIES` |
| `sweep` | the rows of the replay duty's pass, as it read them |

Producers owe (`Owe`), put (`PutAnswer`, also a second, buffered copy), request, enqueue and withdraw Stop receipts. A thread
takes an event, splits off a bundled fact, claims the id, sends (`Transmit`, `Refuse`), keeps what it sent (`Retain`) and
records it (`Receipt`). `Sweep` reads the owed rows; `LeaveRow`, `RetireRow`, `ContinueRow` and `ReplayRow` are what the duty
does with each. `Crash` loses everything but the registry and the task results, at any point. One locked write of the
registry file is one operator on the registry (`EvictOverCap`, `_owed_row`, the receipt with its replacement).

Abstracted: the messages of one task to one chat; the Main publication token; the caps of 512 and 256 on the delivered and
given-up lists; corruption of the file and its preserved copies; ages and backoff times (a row is young, due or aged by
choice). The reads at the head of a sweep are one step, and so are a claim and the reads it makes.

### OwedMessages

A message's debt opens, is delivered, given up, withdrawn (the receipt of a Stop the task escaped) or replaced by a delivered Stop
receipt. Delivered is for good; one write may move several debts but records one delivery; nothing stays owed. The mapping reads
the debt off the registry's four collections.

### ScheduleOccurrence

| Variable | Code |
|---|---|
| `table` | the schedule's row: withdrawn, enabled, definition, next point, and its occurrence with phase (`admitted`) and dispatch mark (`possible`) |
| `claim`, `minted` | the due point and the definition each occurrence was claimed for |
| `receipt` | the occurrence's task result: none, `accepted` (status scheduled, dispatch none), `possible`, or ended |
| `saved`, `queue` | the queue snapshot; PENDING and RUNNING, with what a row says of its dispatch |
| `stops`, `captured` | open cancel intents; what a custody attempt holds of a task and how far it is |
| `pass`, `launch` | the scheduler pass between its claim and its last write; the launch on the admission lane |
| `alive`, `started` | tasks a worker may be at; history of puts |
| `overdue` | tasks that a hard bound took out of RUNNING and the reaper has not finished with: the timeout jobs |

`TakeUp`, `ClaimDue` and `Tidy` are the first locked section of `check_scheduled_tasks`; `Forgo`, `Admit`, `WriteRow` and
`WriteSnapshot` are `admit`, whose three writes may each fail. `ChooseLaunch`, `Locate`, `Commit`, `SaveMark` and `Put` are the
launch, with their refusals; `Commit` takes neither lock, so it races custody and the scheduler. `Capture`,
`WriteCancelled`, `SettleStop` and `SaveStop` are custody. A running row leaves the queue by its `task_done` (`Retire`), by custody after
the kill, or by a hard bound: `Timeout` takes it out at once, over a live process, and the reaper then kills (`Kill`, which may never
be confirmed), stores the end (`Publish`) and gives the slot a new process (`Respawn`), also when that write failed. A Stop in between
finds no row, and its miss kills nobody. `Restored` is the restore's reading of one row, in which the receipt
decides whatever the snapshot says.

Abstracted: one independent recurring schedule and its due points by number (any pass may find the next one due, and a
new timing moves it by one); holds, policy, billing and contention are one wait (`Forgo`); the signed reads outside the
locks are part of the step that revalidates them; one launch at a time; a worker's task ends but is not
retried; workers die with the server; a row that a failed Stop puts back beside the same row republished counts as one; a failed table
write at the end of the first section changes nothing and is no step. The kill of a running task is one step here,
its detail is `CancelCustody`, and the reaper has none of the re-validations it has in `TaskExecution`: its job stays current. Left out are
a hard bound taken although the intents could not be read, one-shots, notes, follow-up relations, Projects (so a refusal because
the project was deleted, which discards the claim even of accepted work, is a wait here) and unreadable snapshots.

## 3. Runs

| Run | Checks | Instance |
|---|---|---|
| `lineage` | type, claim exclusion, one authority per lineage, inert late attempts, live claims not stolen, requests never weaken, cascades closed by their postcondition | root and retry leaf, two threads, two requests, two claims each, a restart, an outage, failing probes, recycled pids |
| `sweep` | every request closes; the projection implements `StopRequests` | fair; two tasks, one thread, two requests, a drained control, a restart, probes that answer, fresh pids, writable file |
| `exec_safety` | type, no double execution, verdict after death, verdict after withdrawal | two tasks, two slots, one retry, three faults, one hard bound |
| `exec_lost` | unfinished work is owned: *violated* | one task, two slots, one fault, one hard bound |
| `exec_stranded` | a reserved slot is owned: *violated* | one task, one slot, one fault |
| `custody_safety` | type, a captured slot is custody's alone, unstamped events follow the withdrawal, idle slots, Stops close over ended work, finished work is not replayed | two tasks, two slots, one retry, two faults, one hard bound, one Stop |
| `custody_ends` | every Stop closes, `cancelled` only after death; a task nobody stopped keeps an owner and resolves | fair; as above with one fault and no hard bound |
| `custody_late_stop` | `cancelled` only after death: *violated* | no fault, one hard bound, one Stop |
| `delivery` | type, one disposition, the cap, one send per life, recorded was sent, a replaced notice leaves its fact, and the outbox implements `OwedMessages` | a notice with a bundled fact and a Stop receipt, outbox of two, one replay, one extra copy, one fault |
| `delivery_ends` | no message stays owed, a send is recorded, what is given up is not remembered as sent unless two writes failed | fair; a notice and a Stop receipt, outbox of one, one replay, two faults |
| `delivery_bundled` | a recorded bundled fact was sent: *violated* | a notice and its fact, one fault |
| `schedule` | type, an occurrence starts once, one root per point, accepted work is owned, only overdue runs overlap, ended is final, accepted work is settled | fair; two points, one edit of a schedule created enabled or not, one Stop, two faults (failed writes, crashes, planned restarts), a hard bound for each run |

**Bounds.** Requests are interchangeable except for their order, and the interesting cases are a request and its
successor, a claim and its takeover, so two of each suffice; two boots give one restart at every point. In
`TaskExecution` two slots and two tasks are the smallest pool in which a retry can land on another slot and a
replaced process can take another task; a fault is a death, a failed spawn, a deferred job, a refused launch or an
unkillable worker, and three of them cover a death during the recovery of a death. One Stop meets every state of its
own task and of a bystander; the second task keeps the assignment pass and the slots busy. In
`TerminalDelivery` an outbox of two with three messages overflows, one replay is spent by one refusal, and `MaxFault` counts failed writes, refused
sends and crashes together, so one fault falls on each step and two give a crash during the recovery from
a failure. In `sweep` one thread, a second request and a restart give a claim whose request is settled under it, by the cascade's postcondition
or the unfenced settle; `lineage` has the second thread. In `ScheduleOccurrence` two points are a run and its successor, one edit is a disable, an enabling of a
schedule created disabled, a new definition or a withdrawal, and two faults are a failed write followed by a crash. Hard bounds
need no limit of their own, since an occurrence starts once. `MaxCopies`, `MaxOccurrence`, `MaxEdit`, `MaxFault`, `MaxTimeout`, `MaxStop`,
`MaxRequest`, `MaxGeneration`, `MaxBoot` and `MaxOutage` appear only in guards; the theorems hold for all their
values. Slots and tasks (and custody threads) are interchangeable, so the safety runs use symmetry; the
liveness runs do not.

**Deadlock** is not checked: a bounded history ends, and a system with all tasks resolved and no request open
rightly rests.

**Fairness.** Weak, but for the four actions named below. The loop ticks for ever and each tick runs the health check, the event drain, the
sweep and the assignment pass, so what stays enabled is eventually done; the launch lane and the reaper are
threads that end each job in bounded time; custody threads end. A live process is assumed to finish its task,
because an absolute bound ends it otherwise. The sweep feeds every open Stop, a custody attempt runs
to its end, the assignment pass drops stopped rows and the health tick hands retained jobs back. No fairness is assumed of faults, requests, timeouts, widening or
restarts. In `Fairness` the end of an attempt is fair, its outcome (release or settle) is not: `MaxGeneration`
bounds how often custody may fail, since a Stop that always fails never closes. In
`TerminalDelivery` the bus consumer takes events and both threads go on with theirs, the duty handles the rows it read, and a pass that finds
rows old enough to act on is strongly fair: passes are periodic and ages only grow. Producers are free. In
`ScheduleOccurrence` passes, launches, custody and the restore go on; an admission, the choice of a row and its
put are strongly fair, because the locks and the single lane that disable them for a while are always released and a refusal
by policy or capacity is assumed not to last for ever. The owner, the clock, the worker and the
reaper are free: nothing asserted there depends on a run's end.

## 4. Findings

1. `exec_stranded`: a worker puts `task_done` and dies; the crash detector reserves the slot with the RUNNING
   row; the loop then handles the event and pops the row; the reaper finds the job not current and returns before
   the respawn. The slot stays reserved.
2. `exec_lost`: a hard bound pops the row of a worker whose crash the reaper is judging; each job takes the other
   for the owner and the task ends without a terminal.
3. `custody_late_stop`: a hard bound pops the RUNNING row and clears `busy_task_id` before the reaper kills the worker.
   A Stop that arrives in between finds no row, no busy worker and no retained reap, and the miss lane stores `cancelled`
   while the process is at the task; `cancel_task_custody` says a task is publicly cancelled only after a confirmed death.
4. `delivery_bundled`: the send of an answer that carries a fact is kept on its outbox row as `emitted`; when the server dies before
   the fact is sent, the replay splits the row again, the fact inherits `emitted` from the answer and is recorded as
   delivered without having been sent.

Two limits of `EveryRequestCloses` show when the constants of `sweep` are changed. With `MaxOutage = 1` it fails: a release or settle
write that fails once is logged and forgotten, the row stays claimed by the live server, and the sweep skips a claim whose
claimant is alive until the next restart. With `PidRecycles = TRUE` it fails: the claimant is a bare pid, and a server restarted
under the same pid takes its predecessor's claim for its own.

Of the outbox: a send kept beside a row that was given up is not consulted after a crash; a withdrawn Stop receipt takes its
recorded send with it; and a row given up while its send is in progress, with both later writes failing, leaves a send
unrecorded. `SendIsRecorded` and `GivenUpUnsent` are stated around these.

Of schedules: when the mark of the schedule's row lands but its readback fails, the launch ends without a put; the next pass
reads the mark, settles the occurrence and clears the row, and the launch that is retried finds a row that is not its own, for
as long as the server runs. `AcceptedIsSettled` names this state (`Overtaken`) as its one exception. The code pays more for it than
the row: `_launch_job` keeps a launch whose marks are committed on the admission lane until it is put or refused
(`worker_assignment.py:433`), so the lane goes on trying it and takes nothing else.

Two runs of one schedule can overlap. `queue_schedules.py:4` says that a point is skipped while the previous run is still
pending or running, and `_schedule_running_or_queued` reads that off PENDING and RUNNING. A hard bound pops the RUNNING row before the reaper kills the process (`queue_timeouts.py:773`), and a process
whose death is not confirmed is held, its result at `running`, with no row (`_hold_wedged_worker`, `task_reaper.py:441`). In that
window the next point is claimed, admitted and put on another worker. It is the window of finding 3, met by the scheduler instead of a Stop.
`OnlyOverdueRunsOverlap` names it as its one exception; that there is no other is what the `schedule` run and its theorem show.

Three more behaviours came up in `CancelCustody` and are listed as hazards. With two faults and no hard bound,
`CancelledAfterDeath` also fails: a slot that died during a launch keeps the task's id, its respawn fails, and custody takes
the dead slot for the task's worker while the task runs on another. When the drop of a stopped row cannot be
stored while its launch claim still binds a worker, custody later settles the Stop without a RUNNING row and puts no event, so
the card is not resolved. And a task that finished just before its kill may have its own event on the bus beside custody's,
so its card is resolved twice. `CancelCustody` therefore does not claim that a card is resolved exactly once.

The first of these goes on with a third fault, and then `StopClosesOverTheEnd` and `FinishedWorkIsNotReplayed` fail, too. Slot A dies
during the launch of a task and is reserved before the launch is released, so it keeps the task's id
(`worker_assignment.py:453`); its respawn fails, which leaves it open, dead and bound (`task_reaper.py:656`). The task is launched on slot B, and B
dies. While the reaper decides upon the crash of B, custody captures A, finds no terminal, stores `cancelled` and closes the Stop; the
retry then looks only at B (`worker_health.py:704`, `_dead_job_is_current`) and queues the task that was cancelled. `custody_safety`
has two faults because three show this; that two are not enough, and one is not for `CancelledAfterDeath`, is proved (section 5).

The quoted lines are in `PROJECT.json`. `ReapingIsOwned` is checked only where it fails;
`UnfinishedWorkIsOwned` fails with a hard bound (`exec_lost`) and holds without one, as `OtherWorkStaysOwned` of `custody_ends`
says of every task that nobody stopped.

## 5. Proofs

The theorems hold for every set of tasks, slots and threads and for every bound, under the named assumptions of the
modules: null values lie outside the sets they complete, bounds are naturals, and `RetryLeaf` is a map
onto lineage ends with at most one root for each leaf (`LineageAssumption`, what `_validated_retry_root_cancel_key`
accepts).

**Projection** (`CancelIntents_proofs`). `ClaimExclusion` is not inductive: a claim remembered by a
thread must be known to be no newer than its row. `ClaimOrder` adds that: requests are minted in order, a request
lives in one row, and no remembered claim is of a later generation than the row. `ClaimExclusionHolds` follows,
because a claim makes a generation nobody remembers. `SingleAuthorityHolds` is inductive over the resolution rules:
a leaf row is never minted under a root's cascade, and a root row never beside an open leaf row.

`CancelIntentsActions_proofs` sorts the steps by what they do to a row. Every step but a mint and a re-key leaves a row
that stays open as wide, as hard and as drained as it was (`RowsHarden`), and every step but a re-key and the end of a cascade
leaves the cascade rows open (`CascadesStay`). `RequestNeverWeakensHolds` and `CascadeClosedByPostconditionHolds` only
have to look at what is left. `StaleAttemptIsInertHolds` and `LiveClaimNotStolenHolds` rest on the fence, a claim being good only for the
generation it was taken in.

`CancelIntentsRefinement_proofs` proves `Spec => ImplementsStopRequests` step by step, from `RefInv` (the invariant of
`ClaimOrder` and the bound on mints). A request has one holder at most (`HoldsOnce`), so the mapping's choice of a holder is no
choice. Repeats, markings and releases that missed their fence are stutters (`UnseenStutters`), a mint makes a request (`MintMakes`), a re-key
moves its row unseen (`RekeyStutters`), a claim takes it (`ClaimTakes`), an attempt that ends without closing it gives it back
(`EndGivesBack`), a settle closes it (`RemovalCloses`) and a restart loses every holder (`RestartLoses`).

**Execution**. `TaskExecution_proofs` proves `ExecTypeOK`. `TaskExecutionSafety_proofs` proves
`Spec => []ExecInv`, where `ExecInv` is the conjunction of

* `RowsAgree`: a task is queued, running or neither; a slot outside a teardown names what its process is at;
* `EventsAreFinal`: an event on the bus tells of a stored terminal and a process that left its task;
* `JobsStand`: a captured dead process stays dead, and a timed-out task can only still be run by the process that
  timed out;
* `ReaperRelies`: what the reaper found under one lock is still true, as far as it needs it, under the next;
* `VerdictsAreFinal`: nobody has, or will have, a task that the host failed.

None of the safety properties is inductive alone. That a retry does not start a second process rests on the job's
process being dead (`JobsStand`), which rests on no step reviving one; that a verdict falls on a deserted task rests
on the reaper's earlier look (`ReaperRelies`). The proof goes through `Frame`, what no step does whoever takes it:
revive a process, start a task that was not queued, queue one that was not running, replace a terminal. Each action
is shown to obey `Frame` once, and the parts of `ExecInv` that speak of captured things follow from `Frame` and not from
the action; only `RowsAgree`, `EventsAreFinal` and the reaper's own steps are proved action by action. The
theorems `NoDoubleExecutionHolds`, `VerdictAfterDeathHolds`, `IdleSlotIsIdleHolds`,
`VerdictFollowsWithdrawalHolds` and, as an action property, `FinishedWorkStands` follow.

`CrashesLoseNothing` delimits the finding `exec_lost`: `UnfinishedWorkIsOwned` holds until the first hard bound, however many workers
die. An unfinished task then keeps its queue row or its RUNNING row (`RowsPassOn`): every step but a hard bound that takes the one
gives the other, or follows a terminal.

**Custody** (`CancelCustody_proofs`). `ExecInv` does not survive Stops: a launch claim outlives its queue row, a RUNNING row its process, a
verdict can meet a task that a Stop has settled. `CustodyInv` takes its place:

* `TypesInv`: the types, and that jobs, events and attempts name what they must;
* `CustodyRows`: a task is queued or running; a process is at an unqueued task that runs on its slot or nowhere;
* `Places`: what an attempt knows of its task at each of its places, such as that one which captured a queue row has a task that is
  neither queued nor at work;
* `Captures`: a worker in custody is bound to its task, reserved, and the subject of no job; one that custody is leaving is dead;
* `JobsHold`, `ReaperKnows`: a job's process stays dead, a timed-out task stays withdrawn; what the reaper may rely on between sections;
* `BoundWorkers`: a worker bound to a task is the subject of one job at most (`OneJob`), queued, in hand or retained, and outside a teardown of
  none;
* `EventsHold`: an unstamped event is of a task that has its terminal and does not come back to RUNNING.

`CapturedSlotIsReserved` is the conjunct it all turns on. That custody and the reaper never hold one worker rests on the slot being marked
by whoever takes it, and so on an open slot having no job (`BoundWorkers`), which rests on there being one job: two jobs on
one worker would let the second reopen what the first has finished with. The proof goes through `CustodyFrame`, what no step does, whoever
takes it: replace a process or open a slot without being its owner (`Respawns`, `HandsOff`), free a slot but for a lost launch,
a resolved event or a hard bound (`Frees`), put a process at a task but by a launch (`Starts`). Each action is shown to obey it once.
`UnstampedFollowsWithdrawal`, `NoDoubleExecution`, `IdleSlotIsIdle` and `VerdictFollowsWithdrawal` follow for every number
of faults, hard bounds and Stops. So does `VerdictAfterDeath`, by the invariant `Verdicts`: the reaper comes to a verdict only on a
task that nobody has or will queue (`Forsaken`). `CustodyTerminals` is an action property: a terminal stands, `cancelled` is
stored only under a Stop, and a Stop closes only over a stored terminal. `OtherWorkOwned` needs that no hard bound has struck, as
`CrashesLoseNothing` does and for the same reason.

Two properties of `custody_safety` and one of `custody_ends` do not hold for every number of faults (section 4), and what is proved is the number
they hold for. `Prices` says what a step costs: a death that neither custody nor the reaper ordered, a
worker given back by an owner that failed, a row lost on a failed write are one fault each. `Costs` says what a state has cost, for a task
that has not ended: a RUNNING row on a dead worker (`Down`) one fault; a worker bound to the task that neither its launch nor
its RUNNING row names (`Stale`) one, two when it is out of its teardown or the task is down, three when both; so custody has captured the worker the task
runs at, or two faults have happened and the task is not down, or three have (`CaptureBill`). With less than three, therefore, no
task that has ended is queued or decided upon as a crash (`Ended`), which gives `StopsCloseOverTheEnd` and `CustodyNoReplay`. With
less than two, and no hard bound, the process at a task is on its RUNNING row (`AtRow`) and custody has captured that one, which gives
`CancelledWithoutProcess`. None of the three bounds can be relaxed: TLC finds a counterexample one fault, or one hard bound, further.

**Schedules** (`ScheduleOccurrence_proofs`). `ScheduleInv` adds to the types

* `RowInv`, `PassInv`: the row names the latest occurrence or none, its next point lies past an admitted one, and what the
  pass admitted under the locks is still queued when it writes the row and the snapshot;
* `ReceiptInv`, `BornInv`: an occurrence with a receipt is the row's or was claimed for a point the row is past; nothing is queued,
  captured or stopped without a receipt;
* `StartedInv`: a task that was put into a worker is never a fresh row again, in the queue, in custody or in a launch;
* `CustodyInv`: what custody holds is covered by its Stop until the end is written, and ended once;
* `LaunchInv`, `RunInv`, `DownInv`: a launch that owns its row has it queued, one that lost it to custody may get it back;
  what runs beside a launch is earlier and overdue; a server that is down does nothing;
* `OverdueInv`: a RUNNING row is that of a task that was started, and a task that a hard bound has struck is in no row, nor in
  custody as a row.

`StartedOnce` needs `StartedInv`, and that one the rest: a restored row may only be launched when its receipt is not
`possible`, or by the launch that marked it, and custody can take the row from under a launch between its mark and its put and
return it. `OnlyOverdueRunsOverlap` needs `RunInv` for the process that outlives its turn on the row, and `LaunchInv` with
`OverdueInv` for what a put may still find alive: runs struck earlier, none of which comes back to a row (`PutFacts`, `Processes`).
`StartedOnceHolds`, `OnePointOneRootHolds`, `AcceptedIsOwnedHolds`, `OnlyOverdueRunsOverlapHolds` and, as an action property, `EndedIsFinalHolds`
follow.

**Outbox** (`TerminalDelivery_proofs`). The first half of the module is about the registry alone: what each of its
operators returns from a registry that is `Good` (its collections are disjoint, its rows bounded and distinct, a whole row
has a bundle to carry). `AtPlaces` is the order-preserving selection they share, and `Ranked` that it has no
gaps. `DeliveryInv` adds to the types

* `RegistryInv`: the registry is `Good`, and what was replaced left its fact and a delivered Stop;
* `LandedInv`, `EventsInv`: records, rows, events and the sweep's stale copies claim a send only if it returned;
* `HandlerInv`, `UnsharedInv`: a handler between its claim and its receipt is in `_ACTIVE_DELIVERIES`, alone, and until its send
  returns nothing says that one did;
* `HeldInv`, `UnbornInv`: what the consumer works on counts as outstanding; a message nobody owes and whose producer is not done
  has no copy anywhere;
* `UnrecordedInv`: a remembered send that its row does not know of is about to be retained, or the write that retains it
  failed.

`SentOnce` speaks of one moment of one handler, and is lost without the others: the other handler may retain or record the
message (`UnsharedInv`), a producer may owe it anew after a copy of it was sent (`UnbornInv`). `RecordedWasSent` needs that copies read before a crash
tell the truth (`EventsInv`). From the same invariant follow `DispositionIsOne`, `OutboxIsBounded` and `ReplacedLeaveTheirFacts`.
`GivesUpUnsent` is the action property. Stated for any number of faults it must name an exception, which `UnrecordedInv` delimits: the sweep reads an aged,
spent row before a handler sends it, then the write that retains the send fails, and its receipt too.

`OutboxKeepsItsPromise` is the refinement. `RegistrySteps` lists the seven writes a step can make; `RegistryMoves` shows of each that it reaches one message
at most, replaces notices only with a delivered Stop, withdraws Stops only, and otherwise loses no id (`Moves`); `DebtsMove` reads the promised
step of every debt off that.

**Only model-checked**: liveness (`EveryRequestCloses`, `EveryStopCloses`, `OtherTasksResolve`, `NoMessageStaysOwed`,
`SendIsRecorded`, `AcceptedIsSettled`), which needs reasoning about fairness and ENABLED that the prover does not do. Every safety property
and action property of a passing run is a theorem; three of custody's, as said, under a bound on faults, and two until the first hard
bound. The properties of the four runs that expect a violation are false where they are checked.

## 6. Plan

Proofs cover what the runs check. What would extend them is more of the system, in this order: the restore of parked work and owner
pause beside `TaskExecution`; admission fences and task trees, with the cascades that `CancelIntents` has as one request; the takeover of an
abandoned claim in `CancelCustody`, where one server life is assumed today; a second handler of one bundled fact in `TerminalDelivery`.

## 7. Not modelled

The repository has about half a million lines in a thousand files; the models cover the supervisor's ownership protocols,
where interleaving, failure and restart decide correctness. The rest is listed in `PROJECT.json` with its reasons. Most
of it (the agent loop, LLM clients and providers, context, tools, review, skills, memory, Web UI, launcher, platform layer,
benchmarks) is sequential code around external services, text and the operating system: its state machines are small, its
difficulty lies in data that a model would have to abstract away, and a model of it would restate the code. Of the
supervisor itself, these remain candidates: owner pause and budget pause (parking and exact resume), admission fences and task
trees, owner stop and panic, and the restore of parked work.
