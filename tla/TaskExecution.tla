----------------------------- MODULE TaskExecution -----------------------------
(***************************************************************************)
(* How the supervisor runs a task: the queue and the launch claims of      *)
(* supervisor/worker_assignment.py, the worker pool, the bus of task_done  *)
(* events, the crash detector (worker_health.py), the hard timeouts        *)
(* (queue_timeouts.py) and the one background reaper (task_reaper.py).     *)
(*                                                                         *)
(* Everything decided under the queue lock is one action.  The reaper and  *)
(* the launch lane work outside that lock and re-validate what they had    *)
(* captured, one action per critical section; the workers are processes    *)
(* that write results, put events and die at any time.                     *)
(***************************************************************************)
EXTENDS Integers, Sequences

CONSTANTS
    Task,           \* task ids
    Slot,           \* worker ids of the pool
    NoTask,         \* no task bound to a slot, or run by a process
    NoSlot,         \* no slot bound to a task, or named by an event
    MaxRetries,     \* QUEUE_MAX_RETRIES
    MaxFault,       \* bound: deaths, failed spawns, deferred files, unkillable workers
    MaxTimeout      \* bound: hard bounds reached

ASSUME NullTaskAssumption == NoTask \notin Task /\ NoSlot \notin Slot
ASSUME LimitAssumption == MaxRetries \in Nat /\ MaxFault \in Nat /\ MaxTimeout \in Nat

\* A slot's fresh process is not assignable before it reported ready ("booting"),
\* a slot in teardown is marked "reaping"; both have reaping=True in the code.
Mode == {"booting", "open", "reaping"}

\* WORKERS[wid]: life counts the processes it had, busy is busy_task_id, work the
\* task its process is really at.
Worker == [life : Nat, mode : Mode, alive : BOOLEAN,
           busy : Task \cup {NoTask}, work : Task \cup {NoTask}]

\* Stored task results: "failed" is the host's verdict, "completed" the worker's own
\* terminal, whatever its status says; "cancelled" is stored by CancelCustody.
Outcome == {"none", "completed", "failed", "cancelled"}

\* A task_done event.  attempt is the stamp _files_prepared_attempt, 0 without one.
Event == [task : Task, slot : Slot \cup {NoSlot}, attempt : Nat,
          by : {"worker", "reaper", "host", "cancel"}]

\* A reaper job captures the slot's process, the task and its RUNNING row (the
\* attempt, 0 when there was no row).
Job == [kind : {"dead", "timeout"}, slot : Slot, life : Nat,
        task : Task \cup {NoTask}, row : Nat]

Phase == {"idle", "inspect", "policy", "fail", "withdraw", "retry", "kill", "finish", "respawn"}

VARIABLES
    pending,    \* ids in PENDING
    launch,     \* Task -> the slot its launch claim reserved, or NoSlot
    running,    \* Task -> the worker id of its RUNNING row, or NoSlot
    attempt,    \* Task -> its current attempt
    slots,      \* Slot -> its worker
    result,     \* Task -> its stored result
    bus,        \* task_done events put and not handled yet
    jobs,       \* the reaper's queue
    reaper,     \* what the reaper thread is at: its phase and job
    resolved,   \* Task -> handled terminal events, up to two
    faults,     \* faults so far
    timeouts    \* hard bounds reached so far

execVars == <<pending, launch, running, attempt, slots, result, bus, jobs, reaper,
              resolved, faults, timeouts>>

\* What the reaper thread holds while it waits.
NoJob == [kind |-> "dead", slot |-> NoSlot, life |-> 0, task |-> NoTask, row |-> 0]

-----------------------------------------------------------------------------
Terminal(t) == result[t] # "none"

\* No terminal result is ever replaced (write_task_result's monotonic merge).
Written(t, outcome) == IF Terminal(t) THEN result ELSE [result EXCEPT ![t] = outcome]

FreshWorker(life) ==
    [life |-> life, mode |-> "booting", alive |-> TRUE, busy |-> NoTask, work |-> NoTask]

WorkerReady(s) == slots[s].mode = "open" /\ slots[s].alive

\* _launch_claim_held
LaunchHeld(t, s) ==
    /\ t \in pending
    /\ launch[t] = s
    /\ slots[s].busy = t
    /\ WorkerReady(s)

\* Mutant: a slot id and its task identify a dead worker's job.
DeadJobBySlot(job) ==
    /\ slots[job.slot].busy = job.task
    /\ ~slots[job.slot].alive

\* _dead_job_is_current
DeadJobCurrent(job) ==
    LET w == slots[job.slot] IN
    /\ w.life = job.life
    /\ w.busy = job.task
    /\ ~w.alive
    /\ job.task # NoTask =>
          IF job.row = 0 THEN running[job.task] = NoSlot
          ELSE running[job.task] = job.slot /\ attempt[job.task] = job.row

\* _timeout_job_is_current
TimeoutJobCurrent(job) ==
    LET w == slots[job.slot] IN
    /\ w.life = job.life
    /\ w.busy \in {NoTask, job.task}
    /\ running[job.task] = NoSlot
    /\ job.task \notin pending

\* The stamp check at the head of _handle_task_done.
StaleEvent(e) ==
    /\ e.attempt > 0
    /\ running[e.task] # NoSlot
    /\ (e.attempt # attempt[e.task] \/ e.slot # running[e.task])

Fault == faults < MaxFault /\ faults' = faults + 1

-----------------------------------------------------------------------------
Init ==
    /\ pending  = Task
    /\ launch   = [t \in Task |-> NoSlot]
    /\ running  = [t \in Task |-> NoSlot]
    /\ attempt  = [t \in Task |-> 1]
    /\ slots    = [s \in Slot |-> FreshWorker(1)]
    /\ result   = [t \in Task |-> "none"]
    /\ bus      = {}
    /\ jobs     = <<>>
    /\ reaper   = [phase |-> "idle", job |-> NoJob]
    /\ resolved = [t \in Task |-> 0]
    /\ faults   = 0
    /\ timeouts = 0

-----------------------------------------------------------------------------
\* The assignment pass and its launch lane.

\* assign_tasks reserves an idle, ready worker; the row keeps its place in PENDING.
ClaimLaunch(t, s) ==
    /\ t \in pending
    /\ launch[t] = NoSlot
    /\ WorkerReady(s)
    /\ slots[s].busy = NoTask
    /\ launch' = [launch EXCEPT ![t] = s]
    /\ slots' = [slots EXCEPT ![s].busy = t]
    /\ UNCHANGED <<pending, running, attempt, result, bus, jobs, reaper, resolved, faults, timeouts>>

\* _launch_attempt puts the task into the worker's queue and binds the row.
BindLaunch(t, s) ==
    /\ LaunchHeld(t, s)
    /\ pending' = pending \ {t}
    /\ launch'  = [launch EXCEPT ![t] = NoSlot]
    /\ running' = [running EXCEPT ![t] = s]
    /\ slots'   = [slots EXCEPT ![s].work = t]
    /\ UNCHANGED <<attempt, result, bus, jobs, reaper, resolved, faults, timeouts>>

\* _release_launch: the claim was lost or the launch was refused.
ReleaseLaunch(t, s) ==
    /\ launch[t] = s
    /\ IF LaunchHeld(t, s) THEN Fault ELSE UNCHANGED faults
    /\ launch' = [launch EXCEPT ![t] = NoSlot]
    /\ slots' = IF slots[s].busy = t /\ slots[s].mode = "open"
                THEN [slots EXCEPT ![s].busy = NoTask] ELSE slots
    /\ UNCHANGED <<pending, running, attempt, result, bus, jobs, reaper, resolved, timeouts>>

-----------------------------------------------------------------------------
\* The worker process.

\* The task's own terminal is stored (also _record_task_exception's).
Complete(s) ==
    LET t == slots[s].work IN
    /\ slots[s].alive
    /\ t # NoTask
    /\ ~Terminal(t)
    /\ result' = Written(t, "completed")
    /\ UNCHANGED <<pending, launch, running, attempt, slots, bus, jobs, reaper, resolved, faults, timeouts>>

\* task_done is put, stamped with the attempt; the process waits for its next task.
ReportDone(s) ==
    LET t == slots[s].work IN
    /\ slots[s].alive
    /\ t # NoTask
    /\ Terminal(t)
    /\ bus' = bus \cup {[task |-> t, slot |-> s, attempt |-> attempt[t], by |-> "worker"]}
    /\ slots' = [slots EXCEPT ![s].work = NoTask]
    /\ UNCHANGED <<pending, launch, running, attempt, result, jobs, reaper, resolved, faults, timeouts>>

WorkerDies(s) ==
    /\ slots[s].alive
    /\ Fault
    /\ slots' = [slots EXCEPT ![s].alive = FALSE, ![s].work = NoTask]
    /\ UNCHANGED <<pending, launch, running, attempt, result, bus, jobs, reaper, resolved, timeouts>>

\* _open_ready_slot and, for a process that died first, _release_booting_slot.
LeaveBoot(s) ==
    /\ slots[s].mode = "booting"
    /\ slots' = [slots EXCEPT ![s].mode = "open"]
    /\ UNCHANGED <<pending, launch, running, attempt, result, bus, jobs, reaper, resolved, faults, timeouts>>

-----------------------------------------------------------------------------
\* The supervisor loop.

\* _handle_task_done.  The slot of a teardown stays with its owner.
HandleTaskDone(e) ==
    /\ e \in bus
    /\ bus' = bus \ {e}
    /\ IF StaleEvent(e) THEN UNCHANGED <<running, slots, resolved>>
       ELSE /\ resolved' = [resolved EXCEPT ![e.task] = IF @ < 2 THEN @ + 1 ELSE @]
            /\ running' = [running EXCEPT ![e.task] = NoSlot]
            /\ slots' = IF /\ e.slot \in Slot
                           /\ slots[e.slot].busy = e.task
                           /\ slots[e.slot].mode = "open"
                        THEN [slots EXCEPT ![e.slot].busy = NoTask] ELSE slots
    /\ UNCHANGED <<pending, launch, attempt, result, jobs, reaper, faults, timeouts>>

\* ensure_workers_healthy: the slot is reserved, its file work left to the reaper.
ReserveDeadSlot(s) ==
    LET w == slots[s] IN
    /\ w.mode = "open"
    /\ ~w.alive
    /\ slots' = [slots EXCEPT ![s].mode = "reaping"]
    /\ jobs' = Append(jobs,
         [kind |-> "dead", slot |-> s, life |-> w.life, task |-> w.busy,
          row |-> IF w.busy # NoTask /\ running[w.busy] # NoSlot THEN attempt[w.busy] ELSE 0])
    /\ UNCHANGED <<pending, launch, running, attempt, result, bus, reaper, resolved, faults, timeouts>>

\* enforce_task_timeouts past the grace of an absolute bound.
Timeout(t) ==
    LET s == running[t] IN
    /\ timeouts < MaxTimeout
    /\ s # NoSlot
    /\ slots[s].busy = t
    /\ timeouts' = timeouts + 1
    /\ running' = [running EXCEPT ![t] = NoSlot]
    /\ slots' = [slots EXCEPT ![s].busy = NoTask, ![s].mode = "reaping"]
    /\ jobs' = Append(jobs, [kind |-> "timeout", slot |-> s, life |-> slots[s].life,
                             task |-> t, row |-> attempt[t]])
    /\ UNCHANGED <<pending, launch, attempt, result, bus, reaper, resolved, faults>>

-----------------------------------------------------------------------------
\* The reaper thread.

Goto(phase) == reaper' = [reaper EXCEPT !.phase = phase]
StopReaping == reaper' = [phase |-> "idle", job |-> NoJob]

\* _finish_self_finalized_task: the saved terminal is announced for the worker.
SavedTerminal(job, slot) ==
    [task |-> job.task, slot |-> slot, attempt |-> job.row, by |-> "reaper"]

\* The host's own verdict, unstamped.
HostVerdict(job) == [task |-> job.task, slot |-> NoSlot, attempt |-> 0, by |-> "host"]

\* _recover_replaced_timeout_files: publish what the dead original had saved.
RecoverReplacedFiles(job) ==
    /\ StopReaping
    /\ bus' = IF /\ running[job.task] = NoSlot
                 /\ job.task \notin pending
                 /\ slots[job.slot].life # job.life \/ ~slots[job.slot].alive
                 /\ Terminal(job.task)
              THEN bus \cup {SavedTerminal(job, NoSlot)} ELSE bus

\* reaper_loop takes a job.  The job of a worker no longer as captured is dropped.
TakeJob ==
    LET job == Head(jobs) IN
    /\ reaper.phase = "idle"
    /\ jobs # <<>>
    /\ jobs' = Tail(jobs)
    /\ \/ /\ job.kind = "dead"
          /\ reaper' = IF ~DeadJobCurrent(job) THEN reaper
                       ELSE [phase |-> IF job.row = 0 THEN "respawn" ELSE "inspect", job |-> job]
          /\ UNCHANGED bus
       \/ /\ job.kind = "timeout"
          /\ IF TimeoutJobCurrent(job)
             THEN reaper' = [phase |-> "kill", job |-> job] /\ UNCHANGED bus
             ELSE RecoverReplacedFiles(job)
    /\ UNCHANGED <<pending, launch, running, attempt, slots, result, resolved, faults, timeouts>>

\* TerminalFileRecoveryPending (files unreadable or unpublished, a verdict that cannot
\* be stored): the job is retained and driven again.
DeferJob ==
    /\ reaper.phase \in {"inspect", "fail", "finish"}
    /\ Fault
    /\ jobs' = Append(jobs, reaper.job)
    /\ StopReaping
    /\ UNCHANGED <<pending, launch, running, attempt, slots, result, bus, resolved, timeouts>>

\* Mutant: a saved terminal ends the recovery, its event is taken for sent.
InspectStaysSilent ==
    LET job == reaper.job IN
    /\ reaper.phase = "inspect"
    /\ IF ~DeadJobCurrent(job) THEN StopReaping
       ELSE Goto(IF Terminal(job.task) THEN "respawn" ELSE "policy")
    /\ UNCHANGED <<pending, launch, running, attempt, slots, result, bus, jobs, resolved, faults, timeouts>>

\* recover_confirmed_dead_worker: a saved terminal wins over the crash policy.
InspectDeadJob ==
    LET job == reaper.job IN
    /\ reaper.phase = "inspect"
    /\ IF ~DeadJobCurrent(job) THEN StopReaping /\ UNCHANGED bus
       ELSE IF Terminal(job.task)
            THEN Goto("respawn") /\ bus' = bus \cup {SavedTerminal(job, job.slot)}
            ELSE Goto("policy") /\ UNCHANGED bus
    /\ UNCHANGED <<pending, launch, running, attempt, slots, result, jobs, resolved, faults, timeouts>>

\* _recover_crashed_task_without_terminal: fail (a signal, or no attempt left) or retry.
DecideCrash ==
    LET job == reaper.job IN
    /\ reaper.phase = "policy"
    /\ IF ~DeadJobCurrent(job) THEN Goto("respawn")
       ELSE \/ Goto("fail")
            \/ job.row <= MaxRetries /\ Goto("retry")
    /\ UNCHANGED <<pending, launch, running, attempt, slots, result, bus, jobs, resolved, faults, timeouts>>

\* Mutant: the dead attempt's transient status is stored for its verdict.
FailInterrupted ==
    /\ reaper.phase = "fail"
    /\ result' = Written(reaper.job.task, "interrupted")
    /\ Goto("withdraw")
    /\ UNCHANGED <<pending, launch, running, attempt, slots, bus, jobs, resolved, faults, timeouts>>

FailCrashed ==
    /\ reaper.phase = "fail"
    /\ result' = Written(reaper.job.task, "failed")
    /\ Goto("withdraw")
    /\ UNCHANGED <<pending, launch, running, attempt, slots, bus, jobs, resolved, faults, timeouts>>

\* Mutant: the host announces its verdict and leaves the row to the event.
AnnounceBeforeWithdrawal ==
    /\ reaper.phase = "withdraw"
    /\ Goto("respawn")
    /\ bus' = bus \cup {HostVerdict(reaper.job)}
    /\ UNCHANGED <<pending, launch, running, attempt, slots, result, jobs, resolved, faults, timeouts>>

\* "Host terminal publication follows withdrawal."
WithdrawCrashed ==
    LET job == reaper.job IN
    /\ reaper.phase = "withdraw"
    /\ Goto("respawn")
    /\ IF DeadJobCurrent(job)
       THEN /\ running' = [running EXCEPT ![job.task] = NoSlot]
            /\ bus' = bus \cup {HostVerdict(job)}
       ELSE UNCHANGED <<running, bus>>
    /\ UNCHANGED <<pending, launch, attempt, slots, result, jobs, resolved, faults, timeouts>>

\* Mutant: the row is withdrawn and the retry never enqueued.
RetryForgets ==
    LET job == reaper.job IN
    /\ reaper.phase = "retry"
    /\ Goto("respawn")
    /\ running' = IF DeadJobCurrent(job) THEN [running EXCEPT ![job.task] = NoSlot] ELSE running
    /\ UNCHANGED <<pending, launch, attempt, slots, result, bus, jobs, resolved, faults, timeouts>>

RetryCrashed ==
    LET job == reaper.job IN
    /\ reaper.phase = "retry"
    /\ Goto("respawn")
    /\ IF DeadJobCurrent(job)
       THEN /\ running' = [running EXCEPT ![job.task] = NoSlot]
            /\ pending' = pending \cup {job.task}
            /\ attempt' = [attempt EXCEPT ![job.task] = @ + 1]
       ELSE UNCHANGED <<running, pending, attempt>>
    /\ UNCHANGED <<launch, slots, result, bus, jobs, resolved, faults, timeouts>>

\* _respawn_after_reap: only the captured process is replaced; a failed spawn leaves
\* the dead slot to the crash detector.
RespawnSlot ==
    LET s == reaper.job.slot IN
    /\ reaper.phase = "respawn"
    /\ StopReaping
    /\ \/ /\ slots' = IF slots[s].life = reaper.job.life
                      THEN [slots EXCEPT ![s] = FreshWorker(@.life + 1)] ELSE slots
          /\ UNCHANGED faults
       \/ /\ slots[s].life = reaper.job.life
          /\ slots' = [slots EXCEPT ![s].mode = "open"]
          /\ Fault
    /\ UNCHANGED <<pending, launch, running, attempt, result, bus, jobs, resolved, timeouts>>

\* Mutant: a worker that would not die counts as dead.
KillFailsOpen ==
    /\ reaper.phase = "kill"
    /\ Goto("finish")
    /\ UNCHANGED <<pending, launch, running, attempt, slots, result, bus, jobs, resolved, faults, timeouts>>

\* _kill_and_confirm_worker_dead, of the process the job captured.  An unconfirmed death
\* holds the slot for good.
KillTimedOut ==
    LET s    == reaper.job.slot
        same == slots[s].life = reaper.job.life
    IN
    /\ reaper.phase = "kill"
    /\ \/ /\ slots' = IF same THEN [slots EXCEPT ![s].alive = FALSE, ![s].work = NoTask]
                      ELSE slots
          /\ Goto("finish")
          /\ UNCHANGED faults
       \/ /\ same
          /\ slots[s].alive
          /\ Fault
          /\ StopReaping
          /\ UNCHANGED slots
    /\ UNCHANGED <<pending, launch, running, attempt, result, bus, jobs, resolved, timeouts>>

\* reap_timed_out_task after the confirmed kill: the saved terminal wins, otherwise
\* the attempt failed; a hard bound never retries.
FinishTimedOut ==
    LET job == reaper.job IN
    /\ reaper.phase = "finish"
    /\ IF ~TimeoutJobCurrent(job) THEN RecoverReplacedFiles(job) /\ UNCHANGED result
       ELSE /\ Goto("respawn")
            /\ result' = Written(job.task, "failed")
            /\ bus' = bus \cup {IF Terminal(job.task) THEN SavedTerminal(job, job.slot)
                                ELSE HostVerdict(job)}
    /\ UNCHANGED <<pending, launch, running, attempt, slots, jobs, resolved, faults, timeouts>>

-----------------------------------------------------------------------------
ReaperStep ==
    \/ TakeJob
    \/ InspectDeadJob
    \/ DecideCrash
    \/ FailCrashed
    \/ WithdrawCrashed
    \/ RetryCrashed
    \/ RespawnSlot
    \/ KillTimedOut
    \/ FinishTimedOut

Next ==
    \/ \E t \in Task, s \in Slot : ClaimLaunch(t, s)
    \/ \E t \in Task, s \in Slot : BindLaunch(t, s)
    \/ \E t \in Task, s \in Slot : ReleaseLaunch(t, s)
    \/ \E s \in Slot : Complete(s)
    \/ \E s \in Slot : ReportDone(s)
    \/ \E s \in Slot : WorkerDies(s)
    \/ \E s \in Slot : LeaveBoot(s)
    \/ \E e \in bus : HandleTaskDone(e)
    \/ \E s \in Slot : ReserveDeadSlot(s)
    \/ \E t \in Task : Timeout(t)
    \/ DeferJob
    \/ ReaperStep

Spec == Init /\ [][Next]_execVars

-----------------------------------------------------------------------------
\* The queue, the pool, the bus and the reaper stay well formed.
ExecTypeOK ==
    /\ pending \subseteq Task
    /\ launch \in [Task -> Slot \cup {NoSlot}]
    /\ running \in [Task -> Slot \cup {NoSlot}]
    /\ attempt \in [Task -> Nat]
    /\ slots \in [Slot -> Worker]
    /\ result \in [Task -> Outcome]
    /\ bus \subseteq Event
    /\ jobs \in Seq(Job)
    /\ reaper \in [phase : Phase, job : Job \cup {NoJob}]
    /\ resolved \in [Task -> 0..2]
    /\ faults \in 0..MaxFault
    /\ timeouts \in 0..MaxTimeout

\* No two live processes are ever at the same task, and none is at a task that waits
\* in the queue: a retry starts only after the dead attempt (recover_confirmed_dead_worker).
NoDoubleExecution ==
    /\ \A s, r \in Slot :
          (slots[s].work # NoTask /\ slots[s].work = slots[r].work) => s = r
    /\ \A s \in Slot : slots[s].work \notin pending

\* The host fails a task only when no live process is at it any more (the reaper:
\* "the terminal write happens only AFTER kill/join").
VerdictAfterDeath ==
    \A t \in Task : result[t] = "failed" => \A s \in Slot : slots[s].work # t

\* A slot the assignment pass takes for idle has no process at work on anything.
IdleSlotIsIdle ==
    \A s \in Slot :
        (WorkerReady(s) /\ slots[s].busy = NoTask) => slots[s].work = NoTask

\* A stored terminal stands, and finished work is neither queued nor started again.
FinishedWorkIsNotReplayed ==
    [][\A t \in Task : Terminal(t) =>
          /\ result'[t] = result[t]
          /\ t \notin pending' \ pending
          /\ running'[t] \in {running[t], NoSlot}]_execVars

\* When the loop meets a verdict of the host, the row was withdrawn before: it never
\* mistakes the verdict for a worker that still prepares its files.
VerdictFollowsWithdrawal ==
    \A e \in bus : e.by = "host" => running[e.task] = NoSlot

\* A slot marked reaping has an owner: a queued job, the reaper at work, or a worker
\* that would not die.  Nobody else ever opens it ("must not strand the slot").
ReapingIsOwned ==
    \A s \in Slot : slots[s].mode = "reaping" =>
        \/ \E i \in 1..Len(jobs) : jobs[i].slot = s /\ jobs[i].life = slots[s].life
        \/ reaper.phase # "idle" /\ reaper.job.slot = s /\ reaper.job.life = slots[s].life
        \/ slots[s].alive

\* A task is done, queued, running, being recovered, or still with a worker that would not die.
Owned(t) ==
    \/ Terminal(t)
    \/ t \in pending
    \/ running[t] # NoSlot
    \/ \E i \in 1..Len(jobs) : jobs[i].task = t
    \/ reaper.phase # "idle" /\ reaper.job.task = t
    \/ \E s \in Slot : slots[s].work = t

\* Unfinished work always has an owner ("the dead attempt ends in its saved terminal, its
\* held answer or Failed", reap_timed_out_task).
UnfinishedWorkIsOwned == \A t \in Task : Owned(t)

-----------------------------------------------------------------------------
\* The inductive invariant behind the safety properties.

\* Queue rows, RUNNING rows and processes: a task is in one place at a time, and a
\* slot outside a teardown names what its process is at.
RowsAgree ==
    /\ \A t \in Task :
          /\ running[t] # NoSlot => t \notin pending
          /\ launch[t] # NoSlot => t \in pending
          /\ t \in pending => ~Terminal(t)
    /\ \A s \in Slot : slots[s].work # NoTask =>
          /\ slots[s].alive
          /\ slots[s].work \notin pending
          /\ running[slots[s].work] \in {s, NoSlot}
          /\ slots[s].mode # "booting"
          /\ slots[s].mode = "open" => slots[s].busy = slots[s].work
    /\ \A s, r \in Slot :
          (slots[s].work # NoTask /\ slots[s].work = slots[r].work) => s = r

\* An event on the bus tells of a stored terminal and of a process that left its task.
EventsAreFinal ==
    \A e \in bus :
        /\ Terminal(e.task)
        /\ e.slot \in Slot => slots[e.slot].work # e.task
        /\ e.by = "host" => running[e.task] = NoSlot

\* What stays true of a captured job: a dead process is not resurrected, and a
\* timed-out task can only still be run by the process that timed out.
JobStands(job) ==
    /\ job.kind = "dead" =>
          /\ job.life <= slots[job.slot].life
          /\ job.life = slots[job.slot].life => ~slots[job.slot].alive
    /\ job.kind = "timeout" =>
          /\ running[job.task] = NoSlot
          /\ job.task \notin pending
          /\ \A r \in Slot : slots[r].work = job.task => r = job.slot

\* Nobody has t: it is not queued and no process is at it.
Deserted(t) == t \notin pending /\ \A s \in Slot : slots[s].work # t

\* What the reaper may rely on between two of its critical sections.
ReaperRelies ==
    LET job == reaper.job IN
    /\ reaper.phase \in {"policy", "retry"} /\ DeadJobCurrent(job) => ~Terminal(job.task)
    /\ reaper.phase \in {"fail", "finish"} => Deserted(job.task)
    /\ reaper.phase = "withdraw" => Terminal(job.task)
    /\ reaper.phase = "kill" => slots[job.slot].life = job.life
    /\ reaper.phase \in {"finish", "respawn"} /\ job.kind = "timeout" => ~slots[job.slot].alive

\* Every captured job stands, in the queue and in the reaper's hands.
JobsStand ==
    /\ \A i \in 1..Len(jobs) : JobStands(jobs[i])
    /\ reaper.phase # "idle" => JobStands(reaper.job)

\* Nobody has, or will have, a task the host failed.
VerdictsAreFinal ==
    \A t \in Task : result[t] = "failed" => Deserted(t)

\* The invariant of all this together: what the reaper, the lane and the loop captured
\* under one lock is still as true as they need it when they act under the next.
ExecInv ==
    /\ RowsAgree
    /\ EventsAreFinal
    /\ JobsStand
    /\ ReaperRelies
    /\ VerdictsAreFinal
=============================================================================
