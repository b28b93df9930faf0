-------------------------- MODULE TaskExecution_proofs --------------------------
(***************************************************************************)
(* Proofs about TaskExecution, for every pool, set of tasks and bound.     *)
(***************************************************************************)
EXTENDS TaskExecution, TLAPS

\* The phases in which the reaper works on a dead worker, or on a timed-out one.
DeadPhase == {"inspect", "policy", "fail", "withdraw", "retry"}
TimeoutPhase == {"kill", "finish"}

\* A job that has a row, or that a hard bound queued, names its task.
NamesTask(job) == (job.row # 0 \/ job.kind = "timeout") => job.task \in Task

\* Queued jobs name their tasks, and a busy reaper holds a real job of its phase.
JobsWellFormed ==
    /\ \A i \in 1..Len(jobs) : NamesTask(jobs[i])
    /\ reaper.phase # "idle" => reaper.job \in Job /\ NamesTask(reaper.job)
    /\ reaper.phase \in DeadPhase => reaper.job.kind = "dead" /\ reaper.job.row # 0
    /\ reaper.phase \in TimeoutPhase => reaper.job.kind = "timeout"

TypeInv == ExecTypeOK /\ JobsWellFormed

-----------------------------------------------------------------------------
\* Appending a job keeps the queue well formed.
LEMMA AppendJob ==
    ASSUME jobs \in Seq(Job), NEW job \in Job, NamesTask(job),
           \A i \in 1..Len(jobs) : NamesTask(jobs[i])
    PROVE  /\ Append(jobs, job) \in Seq(Job)
           /\ \A i \in 1..Len(Append(jobs, job)) : NamesTask(Append(jobs, job)[i])
<1>1. Append(jobs, job) \in Seq(Job) /\ Len(Append(jobs, job)) = Len(jobs) + 1
  OBVIOUS
<1>2. ASSUME NEW i \in 1..Len(Append(jobs, job))
      PROVE  NamesTask(Append(jobs, job)[i])
  <2>1. CASE i = Len(jobs) + 1
    <3>1. Append(jobs, job)[i] = job
      BY <2>1
    <3> QED BY <3>1
  <2>2. CASE i # Len(jobs) + 1
    <3>1. i \in 1..Len(jobs) /\ Append(jobs, job)[i] = jobs[i]
      BY <1>1, <2>2
    <3> QED BY <3>1
  <2> QED BY <2>1, <2>2
<1> QED BY <1>1, <1>2

\* The reaper takes a well formed job and leaves a well formed queue.
LEMMA TakenJob ==
    ASSUME jobs \in Seq(Job), jobs # <<>>,
           \A i \in 1..Len(jobs) : NamesTask(jobs[i])
    PROVE  /\ Head(jobs) \in Job /\ NamesTask(Head(jobs))
           /\ Tail(jobs) \in Seq(Job)
           /\ \A i \in 1..Len(Tail(jobs)) : NamesTask(Tail(jobs)[i])
<1>1. Len(jobs) \in Nat /\ Len(jobs) > 0 /\ Head(jobs) = jobs[1] /\ 1 \in 1..Len(jobs)
  OBVIOUS
<1>2. Tail(jobs) \in Seq(Job) /\ Len(Tail(jobs)) = Len(jobs) - 1
  OBVIOUS
<1>3. ASSUME NEW i \in 1..Len(Tail(jobs))
      PROVE  i + 1 \in 1..Len(jobs) /\ Tail(jobs)[i] = jobs[i + 1]
  BY <1>1, <1>2
<1>4. \A i \in 1..Len(Tail(jobs)) : NamesTask(Tail(jobs)[i])
  BY <1>3
<1> QED BY <1>1, <1>2, <1>4

\* The events the reaper puts are events.
LEMMA ReaperEvents ==
    ASSUME NEW job \in Job, job.task \in Task
    PROVE  /\ \A slot \in Slot \cup {NoSlot} : SavedTerminal(job, slot) \in Event
           /\ HostVerdict(job) \in Event
BY DEF SavedTerminal, HostVerdict, Event, Job

\* A stored result is a result, whether or not it replaces one.
LEMMA WrittenType ==
    ASSUME result \in [Task -> Outcome], NEW t \in Task, NEW outcome \in Outcome
    PROVE  Written(t, outcome) \in [Task -> Outcome]
BY DEF Written

\* Every update of a slot that the code makes leaves a worker in it.
LEMMA SlotUpdates ==
    ASSUME slots \in [Slot -> Worker], NEW s \in Slot, NEW mode \in Mode,
           NEW b \in Task \cup {NoTask}
    PROVE  /\ slots[s] \in Worker
           /\ [slots EXCEPT ![s].busy = b] \in [Slot -> Worker]
           /\ [slots EXCEPT ![s].work = b] \in [Slot -> Worker]
           /\ [slots EXCEPT ![s].mode = mode] \in [Slot -> Worker]
           /\ [slots EXCEPT ![s].busy = b, ![s].mode = mode] \in [Slot -> Worker]
           /\ [slots EXCEPT ![s].alive = FALSE, ![s].work = b] \in [Slot -> Worker]
           /\ [slots EXCEPT ![s] = FreshWorker(@.life + 1)] \in [Slot -> Worker]
<1>1. slots[s] \in Worker
  OBVIOUS
<1>2. /\ [slots[s] EXCEPT !.busy = b] \in Worker
      /\ [slots[s] EXCEPT !.work = b] \in Worker
      /\ [slots[s] EXCEPT !.mode = mode] \in Worker
      /\ FreshWorker(slots[s].life + 1) \in Worker
  <2>1. [slots[s] EXCEPT !.busy = b] \in Worker
    BY <1>1 DEF Worker
  <2>2. [slots[s] EXCEPT !.work = b] \in Worker
    BY <1>1 DEF Worker
  <2>3. [slots[s] EXCEPT !.mode = mode] \in Worker
    BY <1>1 DEF Worker
  <2>4. slots[s].life + 1 \in Nat
    BY <1>1 DEF Worker
  <2>5. FreshWorker(slots[s].life + 1) \in Worker
    BY <2>4 DEF Worker, FreshWorker, Mode
  <2> QED BY <2>1, <2>2, <2>3, <2>5
<1>3. \A w \in Worker : [slots EXCEPT ![s] = w] \in [Slot -> Worker]
  OBVIOUS
<1>4. /\ [slots EXCEPT ![s].busy = b] \in [Slot -> Worker]
      /\ [slots EXCEPT ![s].work = b] \in [Slot -> Worker]
      /\ [slots EXCEPT ![s].mode = mode] \in [Slot -> Worker]
  BY <1>2, <1>3, Zenon
<1>5. /\ [slots EXCEPT ![s].busy = b, ![s].mode = mode] \in [Slot -> Worker]
      /\ [slots EXCEPT ![s].alive = FALSE, ![s].work = b] \in [Slot -> Worker]
  BY <1>1 DEF Worker, Mode
<1>6. [slots EXCEPT ![s] = FreshWorker(@.life + 1)] \in [Slot -> Worker]
  BY <1>2, <1>3, Zenon
<1> QED BY <1>1, <1>4, <1>5, <1>6

\* The reaper stops, or goes on to a phase for the same kind of job.
LEMMA ReaperMoves ==
    ASSUME ExecTypeOK, JobsWellFormed, UNCHANGED jobs,
           \/ reaper' = [phase |-> "idle", job |-> NoJob]
           \/ \E p \in Phase :
                 /\ reaper' = [reaper EXCEPT !.phase = p]
                 /\ reaper.phase # "idle"
                 /\ p \in DeadPhase => reaper.phase \in DeadPhase
                 /\ p \in TimeoutPhase => reaper.phase \in TimeoutPhase
    PROVE  JobsWellFormed' /\ reaper' \in [phase : Phase, job : Job \cup {NoJob}]
<1>1. \A i \in 1..Len(jobs') : NamesTask(jobs'[i])
  BY DEF JobsWellFormed
<1>2. CASE reaper' = [phase |-> "idle", job |-> NoJob]
  BY <1>1, <1>2 DEF JobsWellFormed, NamesTask, Phase, DeadPhase, TimeoutPhase
<1>3. ASSUME NEW p \in Phase,
             reaper' = [reaper EXCEPT !.phase = p],
             reaper.phase # "idle",
             p \in DeadPhase => reaper.phase \in DeadPhase,
             p \in TimeoutPhase => reaper.phase \in TimeoutPhase
      PROVE  JobsWellFormed' /\ reaper' \in [phase : Phase, job : Job \cup {NoJob}]
  <2>1. reaper \in [phase : Phase, job : Job \cup {NoJob}]
    BY DEF ExecTypeOK
  <2>2. reaper'.phase = p /\ reaper'.job = reaper.job
    BY <1>3, <2>1
  <2> QED BY <1>1, <1>3, <2>1, <2>2 DEF JobsWellFormed, NamesTask
<1> QED BY <1>2, <1>3

-----------------------------------------------------------------------------
\* A started pool is well formed.
LEMMA InitType == Init => TypeInv
<1> SUFFICES ASSUME Init PROVE TypeInv
  OBVIOUS
<1>1. ExecTypeOK
  BY LimitAssumption, SMTT(30) DEF Init, ExecTypeOK, FreshWorker, Worker, Mode, Outcome, Phase
<1>2. JobsWellFormed
  BY DEF Init, JobsWellFormed, DeadPhase, TimeoutPhase
<1> QED BY <1>1, <1>2 DEF TypeInv

\* Every step keeps the variables and the jobs well formed.
LEMMA StepType == TypeInv /\ [Next]_execVars => TypeInv'
<1> SUFFICES ASSUME TypeInv, [Next]_execVars PROVE TypeInv'
  OBVIOUS
<1> USE DEF TypeInv
<1>t. ExecTypeOK /\ JobsWellFormed
  OBVIOUS
<1>1. ASSUME NEW t \in Task, NEW s \in Slot, ClaimLaunch(t, s) PROVE TypeInv'
  <2>1. slots' \in [Slot -> Worker]
    BY <1>1, <1>t, SlotUpdates DEF ClaimLaunch, ExecTypeOK, Mode
  <2>2. launch' \in [Task -> Slot \cup {NoSlot}]
    BY <1>1, <1>t DEF ClaimLaunch, ExecTypeOK
  <2> QED BY <1>1, <1>t, <2>1, <2>2 DEF ClaimLaunch, ExecTypeOK, JobsWellFormed, NamesTask
<1>2. ASSUME NEW t \in Task, NEW s \in Slot, BindLaunch(t, s) PROVE TypeInv'
  <2>1. slots' \in [Slot -> Worker]
    BY <1>2, <1>t, SlotUpdates DEF BindLaunch, ExecTypeOK, Mode
  <2>2. launch' \in [Task -> Slot \cup {NoSlot}] /\ running' \in [Task -> Slot \cup {NoSlot}]
    BY <1>2, <1>t DEF BindLaunch, ExecTypeOK
  <2> QED BY <1>2, <1>t, <2>1, <2>2 DEF BindLaunch, ExecTypeOK, JobsWellFormed, NamesTask
<1>3. ASSUME NEW t \in Task, NEW s \in Slot, ReleaseLaunch(t, s) PROVE TypeInv'
  <2>1. slots' \in [Slot -> Worker]
    BY <1>3, <1>t, SlotUpdates DEF ReleaseLaunch, ExecTypeOK, Mode
  <2>2. launch' \in [Task -> Slot \cup {NoSlot}]
    BY <1>3, <1>t DEF ReleaseLaunch, ExecTypeOK
  <2>3. faults' \in 0..MaxFault
    BY <1>3, <1>t, LimitAssumption DEF ReleaseLaunch, Fault, ExecTypeOK
  <2> QED BY <1>3, <1>t, <2>1, <2>2, <2>3 DEF ReleaseLaunch, ExecTypeOK, JobsWellFormed, NamesTask
<1>4. ASSUME NEW s \in Slot, Complete(s) PROVE TypeInv'
  <2>1. slots[s].work \in Task /\ "completed" \in Outcome
    BY <1>4, <1>t DEF Complete, ExecTypeOK, Worker, Outcome
  <2>2. result' \in [Task -> Outcome]
    BY <1>4, <1>t, <2>1, WrittenType DEF Complete, ExecTypeOK
  <2> QED BY <1>4, <1>t, <2>2 DEF Complete, ExecTypeOK, JobsWellFormed, NamesTask
<1>5. ASSUME NEW s \in Slot, ReportDone(s) PROVE TypeInv'
  <2>1. slots' \in [Slot -> Worker]
    BY <1>5, <1>t, SlotUpdates DEF ReportDone, ExecTypeOK, Mode
  <2>2. slots[s].work \in Task
    BY <1>5, <1>t DEF ReportDone, ExecTypeOK, Worker
  <2>3. bus' \subseteq Event
    BY <1>5, <1>t, <2>2 DEF ReportDone, ExecTypeOK, Event
  <2> QED BY <1>5, <1>t, <2>1, <2>3 DEF ReportDone, ExecTypeOK, JobsWellFormed, NamesTask
<1>6. ASSUME NEW s \in Slot, WorkerDies(s) PROVE TypeInv'
  <2>1. slots' \in [Slot -> Worker]
    BY <1>6, <1>t, SlotUpdates DEF WorkerDies, ExecTypeOK, Mode
  <2>2. faults' \in 0..MaxFault
    BY <1>6, <1>t, LimitAssumption DEF WorkerDies, Fault, ExecTypeOK
  <2> QED BY <1>6, <1>t, <2>1, <2>2 DEF WorkerDies, ExecTypeOK, JobsWellFormed, NamesTask
<1>7. ASSUME NEW s \in Slot, LeaveBoot(s) PROVE TypeInv'
  <2>1. slots' \in [Slot -> Worker]
    BY <1>7, <1>t, SlotUpdates DEF LeaveBoot, ExecTypeOK, Mode
  <2> QED BY <1>7, <1>t, <2>1 DEF LeaveBoot, ExecTypeOK, JobsWellFormed, NamesTask
<1>8. ASSUME NEW e \in bus, HandleTaskDone(e) PROVE TypeInv'
  <2>1. e.task \in Task
    BY <1>t DEF ExecTypeOK, Event
  <2>2. resolved' \in [Task -> 0..2]
    <3>1. (IF resolved[e.task] < 2 THEN resolved[e.task] + 1 ELSE resolved[e.task]) \in 0..2
      BY <1>t, <2>1 DEF ExecTypeOK
    <3> QED BY <1>8, <1>t, <3>1 DEF HandleTaskDone, ExecTypeOK
  <2>3. running' \in [Task -> Slot \cup {NoSlot}]
    BY <1>8, <1>t DEF HandleTaskDone, ExecTypeOK
  <2>4. slots' \in [Slot -> Worker]
    <3>1. \/ slots' = slots
          \/ e.slot \in Slot /\ slots' = [slots EXCEPT ![e.slot].busy = NoTask]
      BY <1>8 DEF HandleTaskDone
    <3>2. slots \in [Slot -> Worker] /\ "open" \in Mode
      BY <1>t DEF ExecTypeOK, Mode
    <3>3. ASSUME NEW r \in Slot PROVE [slots EXCEPT ![r].busy = NoTask] \in [Slot -> Worker]
      BY <3>2, SlotUpdates
    <3> QED BY <3>1, <3>2, <3>3, Zenon
  <2> QED BY <1>8, <1>t, <2>2, <2>3, <2>4 DEF HandleTaskDone, ExecTypeOK, JobsWellFormed, NamesTask
<1>9. ASSUME NEW s \in Slot, ReserveDeadSlot(s) PROVE TypeInv'
  <2> DEFINE w == slots[s]
             job == [kind |-> "dead", slot |-> s, life |-> w.life, task |-> w.busy,
                     row |-> IF w.busy # NoTask /\ running[w.busy] # NoSlot
                             THEN attempt[w.busy] ELSE 0]
  <2>1. w.life \in Nat /\ w.busy \in Task \cup {NoTask}
    BY <1>t DEF ExecTypeOK, Worker
  <2>2. job.row \in Nat /\ (job.row # 0 => w.busy \in Task)
    BY <1>t, <2>1 DEF ExecTypeOK
  <2>3. job \in Job /\ NamesTask(job)
    BY <2>1, <2>2 DEF Job, NamesTask
  <2>4. jobs' = Append(jobs, job)
    BY <1>9 DEF ReserveDeadSlot
  <2> HIDE DEF job
  <2>5. jobs' \in Seq(Job) /\ \A i \in 1..Len(jobs') : NamesTask(jobs'[i])
    BY <1>t, <2>3, <2>4, AppendJob DEF ExecTypeOK, JobsWellFormed
  <2>6. slots' \in [Slot -> Worker]
    BY <1>9, <1>t, SlotUpdates DEF ReserveDeadSlot, ExecTypeOK, Mode
  <2> QED BY <1>9, <1>t, <2>5, <2>6 DEF ReserveDeadSlot, ExecTypeOK, JobsWellFormed, NamesTask
<1>10. ASSUME NEW t \in Task, Timeout(t) PROVE TypeInv'
  <2> DEFINE s == running[t]
             job == [kind |-> "timeout", slot |-> s, life |-> slots[s].life,
                     task |-> t, row |-> attempt[t]]
  <2>1. s \in Slot /\ slots[s].life \in Nat
    BY <1>10, <1>t DEF Timeout, ExecTypeOK, Worker
  <2>2. job \in Job /\ NamesTask(job)
    BY <1>t, <2>1 DEF ExecTypeOK, Job, NamesTask
  <2>3. jobs' = Append(jobs, job)
    BY <1>10 DEF Timeout
  <2> HIDE DEF job
  <2>4. jobs' \in Seq(Job) /\ \A i \in 1..Len(jobs') : NamesTask(jobs'[i])
    BY <1>t, <2>2, <2>3, AppendJob DEF ExecTypeOK, JobsWellFormed
  <2>5. slots' \in [Slot -> Worker] /\ running' \in [Task -> Slot \cup {NoSlot}]
    <3>1. slots' = [slots EXCEPT ![s].busy = NoTask, ![s].mode = "reaping"]
      BY <1>10 DEF Timeout
    <3> HIDE DEF s
    <3>2. slots' \in [Slot -> Worker]
      BY <1>t, <2>1, <3>1, SlotUpdates DEF ExecTypeOK, Mode
    <3> QED BY <1>10, <1>t, <3>2 DEF Timeout, ExecTypeOK
  <2>6. timeouts' \in 0..MaxTimeout
    BY <1>10, <1>t, LimitAssumption DEF Timeout, ExecTypeOK
  <2> QED BY <1>10, <1>t, <2>4, <2>5, <2>6 DEF Timeout, ExecTypeOK, JobsWellFormed, NamesTask
<1>11. CASE DeferJob
  <2>1. reaper.job \in Job /\ NamesTask(reaper.job)
    BY <1>11, <1>t DEF DeferJob, JobsWellFormed
  <2>2. jobs' \in Seq(Job) /\ \A i \in 1..Len(jobs') : NamesTask(jobs'[i])
    BY <1>11, <1>t, <2>1, AppendJob DEF DeferJob, ExecTypeOK, JobsWellFormed
  <2>3. reaper' = [phase |-> "idle", job |-> NoJob] /\ faults' \in 0..MaxFault
    BY <1>11, <1>t, LimitAssumption DEF DeferJob, StopReaping, Fault, ExecTypeOK
  <2> QED BY <1>11, <1>t, <2>2, <2>3
          DEF DeferJob, ExecTypeOK, JobsWellFormed, NamesTask, Phase, DeadPhase, TimeoutPhase
<1>12. CASE TakeJob
  <2> DEFINE job == Head(jobs)
  <2>1. /\ job \in Job /\ NamesTask(job)
        /\ jobs' \in Seq(Job) /\ \A i \in 1..Len(jobs') : NamesTask(jobs'[i])
    BY <1>12, <1>t, TakenJob DEF TakeJob, ExecTypeOK, JobsWellFormed
  <2>2. bus' \subseteq Event
    <3>1. CASE UNCHANGED bus
      BY <3>1, <1>t DEF ExecTypeOK
    <3>2. CASE job.kind = "timeout" /\ RecoverReplacedFiles(job)
      <4>1. job.task \in Task
        BY <2>1, <3>2 DEF NamesTask
      <4>2. SavedTerminal(job, NoSlot) \in Event
        BY <2>1, <4>1, ReaperEvents
      <4> QED BY <3>2, <4>2, <1>t DEF RecoverReplacedFiles, ExecTypeOK
    <3> QED BY <1>12, <3>1, <3>2 DEF TakeJob
  <2>3. \/ reaper' = reaper
        \/ reaper' = [phase |-> "idle", job |-> NoJob]
        \/ reaper' = [phase |-> "respawn", job |-> job]
        \/ job.kind = "dead" /\ job.row # 0 /\ reaper' = [phase |-> "inspect", job |-> job]
        \/ job.kind = "timeout" /\ reaper' = [phase |-> "kill", job |-> job]
    BY <1>12 DEF TakeJob, RecoverReplacedFiles, StopReaping
  <2> HIDE DEF job
  <2>4. /\ reaper' \in [phase : Phase, job : Job \cup {NoJob}]
        /\ reaper'.phase # "idle" => reaper'.job \in Job /\ NamesTask(reaper'.job)
        /\ reaper'.phase \in DeadPhase => reaper'.job.kind = "dead" /\ reaper'.job.row # 0
        /\ reaper'.phase \in TimeoutPhase => reaper'.job.kind = "timeout"
    BY <2>1, <2>3, <1>t DEF ExecTypeOK, JobsWellFormed, Phase, DeadPhase, TimeoutPhase
  <2> QED BY <1>12, <1>t, <2>1, <2>2, <2>4 DEF TakeJob, ExecTypeOK, JobsWellFormed, NamesTask
<1>a. ASSUME reaper.phase \in DeadPhase
      PROVE  reaper.job \in Job /\ reaper.job.task \in Task /\ reaper.job.slot \in Slot
  BY <1>a, <1>t DEF JobsWellFormed, NamesTask, DeadPhase, Job
<1>b. ASSUME reaper.phase \in TimeoutPhase
      PROVE  reaper.job \in Job /\ reaper.job.task \in Task /\ reaper.job.slot \in Slot
  BY <1>b, <1>t DEF JobsWellFormed, NamesTask, TimeoutPhase, Job
<1>13. CASE InspectDeadJob
  <2>1. SavedTerminal(reaper.job, reaper.job.slot) \in Event
    BY <1>13, <1>a, ReaperEvents DEF InspectDeadJob, DeadPhase
  <2>2. bus' \subseteq Event
    BY <1>13, <2>1, <1>t DEF InspectDeadJob, ExecTypeOK
  <2>3. \/ reaper' = [phase |-> "idle", job |-> NoJob]
        \/ \E p \in {"respawn", "policy"} : reaper' = [reaper EXCEPT !.phase = p]
    BY <1>13 DEF InspectDeadJob, Goto, StopReaping
  <2>4. JobsWellFormed' /\ reaper' \in [phase : Phase, job : Job \cup {NoJob}]
    BY <1>13, <1>t, <2>3, ReaperMoves DEF InspectDeadJob, Phase, DeadPhase, TimeoutPhase
  <2> QED BY <1>13, <1>t, <2>2, <2>4 DEF InspectDeadJob, ExecTypeOK
<1>14. CASE DecideCrash
  <2>1. \E p \in {"respawn", "fail", "retry"} : reaper' = [reaper EXCEPT !.phase = p]
    BY <1>14 DEF DecideCrash, Goto
  <2> QED BY <1>14, <1>t, <2>1
          DEF DecideCrash, ExecTypeOK, JobsWellFormed, NamesTask, Phase, DeadPhase, TimeoutPhase
<1>15. CASE FailCrashed
  <2>1. result' \in [Task -> Outcome]
    BY <1>15, <1>t, <1>a, WrittenType DEF FailCrashed, ExecTypeOK, DeadPhase, Outcome
  <2> QED BY <1>15, <1>t, <2>1
          DEF FailCrashed, Goto, ExecTypeOK, JobsWellFormed, NamesTask, Phase, DeadPhase, TimeoutPhase
<1>16. CASE WithdrawCrashed
  <2>1. HostVerdict(reaper.job) \in Event
    BY <1>16, <1>a, ReaperEvents DEF WithdrawCrashed, DeadPhase
  <2>2. bus' \subseteq Event /\ running' \in [Task -> Slot \cup {NoSlot}]
    BY <1>16, <2>1, <1>t DEF WithdrawCrashed, ExecTypeOK
  <2> QED BY <1>16, <1>t, <2>2
          DEF WithdrawCrashed, Goto, ExecTypeOK, JobsWellFormed, NamesTask, Phase, DeadPhase, TimeoutPhase
<1>17. CASE RetryCrashed
  <2>1. reaper.job.task \in Task
    BY <1>17, <1>a DEF RetryCrashed, DeadPhase
  <2>2. /\ running' \in [Task -> Slot \cup {NoSlot}]
        /\ pending' \subseteq Task /\ attempt' \in [Task -> Nat]
    <3>1. attempt[reaper.job.task] + 1 \in Nat
      BY <2>1, <1>t DEF ExecTypeOK
    <3> QED BY <1>17, <2>1, <3>1, <1>t DEF RetryCrashed, ExecTypeOK
  <2> QED BY <1>17, <1>t, <2>2
          DEF RetryCrashed, Goto, ExecTypeOK, JobsWellFormed, NamesTask, Phase, DeadPhase, TimeoutPhase
<1>18. CASE RespawnSlot
  <2>1. reaper.job.slot \in Slot
    BY <1>18, <1>t DEF RespawnSlot, JobsWellFormed, Job
  <2>2. slots' \in [Slot -> Worker]
    <3> DEFINE s == reaper.job.slot
    <3>1. \/ slots' = slots
          \/ slots' = [slots EXCEPT ![s] = FreshWorker(@.life + 1)]
          \/ slots' = [slots EXCEPT ![s].mode = "open"]
      BY <1>18 DEF RespawnSlot
    <3>2. slots \in [Slot -> Worker] /\ "open" \in Mode /\ s \in Slot
      BY <2>1, <1>t DEF ExecTypeOK, Mode
    <3> HIDE DEF s
    <3>3. /\ [slots EXCEPT ![s] = FreshWorker(@.life + 1)] \in [Slot -> Worker]
          /\ [slots EXCEPT ![s].mode = "open"] \in [Slot -> Worker]
      BY <3>2, SlotUpdates, Zenon
    <3> QED BY <3>1, <3>2, <3>3, Zenon
  <2>3. faults' \in 0..MaxFault
    BY <1>18, <1>t, LimitAssumption DEF RespawnSlot, Fault, ExecTypeOK
  <2>4. reaper' = [phase |-> "idle", job |-> NoJob]
    BY <1>18 DEF RespawnSlot, StopReaping
  <2> QED BY <1>18, <1>t, <2>2, <2>3, <2>4
          DEF RespawnSlot, ExecTypeOK, JobsWellFormed, NamesTask, Phase, DeadPhase, TimeoutPhase
<1>19. CASE KillTimedOut
  <2>1. slots' \in [Slot -> Worker] /\ faults' \in 0..MaxFault
    <3>1. reaper.job.slot \in Slot
      BY <1>19, <1>b DEF KillTimedOut, TimeoutPhase
    <3>2. slots' \in [Slot -> Worker]
      <4> DEFINE s == reaper.job.slot
      <4>1. \/ slots' = slots
            \/ slots' = [slots EXCEPT ![s].alive = FALSE, ![s].work = NoTask]
        BY <1>19 DEF KillTimedOut
      <4>2. slots \in [Slot -> Worker] /\ "open" \in Mode /\ s \in Slot
        BY <3>1, <1>t DEF ExecTypeOK, Mode
      <4> HIDE DEF s
      <4>3. [slots EXCEPT ![s].alive = FALSE, ![s].work = NoTask] \in [Slot -> Worker]
        BY <4>2, SlotUpdates
      <4> QED BY <4>1, <4>2, <4>3, Zenon
    <3>3. faults' \in 0..MaxFault
      BY <1>19, <1>t, LimitAssumption DEF KillTimedOut, Fault, ExecTypeOK
    <3> QED BY <3>2, <3>3
  <2>2. \/ reaper' = [phase |-> "idle", job |-> NoJob]
        \/ reaper' = [reaper EXCEPT !.phase = "finish"] /\ reaper.phase = "kill"
    BY <1>19 DEF KillTimedOut, Goto, StopReaping
  <2>3. JobsWellFormed' /\ reaper' \in [phase : Phase, job : Job \cup {NoJob}]
    BY <1>19, <1>t, <2>2, ReaperMoves DEF KillTimedOut, Phase, DeadPhase, TimeoutPhase
  <2> QED BY <1>19, <1>t, <2>1, <2>3 DEF KillTimedOut, ExecTypeOK
<1>20. CASE FinishTimedOut
  <2>1. reaper.job \in Job /\ reaper.job.task \in Task /\ reaper.job.slot \in Slot
    BY <1>20, <1>b DEF FinishTimedOut, TimeoutPhase
  <2>2. /\ \A slot \in Slot \cup {NoSlot} : SavedTerminal(reaper.job, slot) \in Event
        /\ HostVerdict(reaper.job) \in Event
    BY <2>1, ReaperEvents
  <2>3. bus' \subseteq Event
    BY <1>20, <2>1, <2>2, <1>t DEF FinishTimedOut, RecoverReplacedFiles, ExecTypeOK
  <2>4. result' \in [Task -> Outcome]
    BY <1>20, <1>t, <2>1, WrittenType DEF FinishTimedOut, ExecTypeOK, Outcome
  <2>5. \/ reaper' = [phase |-> "idle", job |-> NoJob]
        \/ reaper' = [reaper EXCEPT !.phase = "respawn"]
    BY <1>20 DEF FinishTimedOut, RecoverReplacedFiles, Goto, StopReaping
  <2>6. JobsWellFormed' /\ reaper' \in [phase : Phase, job : Job \cup {NoJob}]
    BY <1>20, <1>t, <2>5, ReaperMoves DEF FinishTimedOut, Phase, DeadPhase, TimeoutPhase
  <2> QED BY <1>20, <1>t, <2>3, <2>4, <2>6 DEF FinishTimedOut, ExecTypeOK
<1>21. CASE UNCHANGED execVars
  BY <1>21, <1>t DEF execVars, ExecTypeOK, JobsWellFormed, NamesTask
<1> QED
  BY <1>1, <1>2, <1>3, <1>4, <1>5, <1>6, <1>7, <1>8, <1>9, <1>10, <1>11, <1>12, <1>13,
     <1>14, <1>15, <1>16, <1>17, <1>18, <1>19, <1>20, <1>21
  DEF Next, ReaperStep

\* TypeInv is an invariant: the type invariant, and that the reaper's jobs name tasks.
THEOREM TypeInvariant == Spec => []TypeInv
BY InitType, StepType, PTL DEF Spec

\* Type correctness: the queue, the pool, the bus and the reaper stay well formed.
THEOREM ExecTypeCorrect == Spec => []ExecTypeOK
<1>1. TypeInv => ExecTypeOK
  BY DEF TypeInv
<1> QED BY TypeInvariant, <1>1, PTL
=============================================================================
