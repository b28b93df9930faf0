----------------------- MODULE TaskExecutionSafety_proofs -----------------------
(***************************************************************************)
(* The safety properties of TaskExecution, for every pool, set of tasks    *)
(* and bound.  ExecInv is the inductive invariant.  Most of it is kept by  *)
(* every step for one reason, Frame: no step revives a process, starts a   *)
(* task that was not queued, queues one that was not running, or replaces  *)
(* a terminal.                                                             *)
(***************************************************************************)
EXTENDS TaskExecution_proofs

\* What no step does, whoever takes it.
Frame ==
    /\ \A s \in Slot :
          /\ slots[s].life <= slots'[s].life
          /\ slots'[s].life = slots[s].life =>
                /\ slots'[s].alive => slots[s].alive
                /\ ~slots[s].alive => slots'[s].busy \in {slots[s].busy, NoTask}
          /\ slots'[s].work \in {slots[s].work, NoTask} \cup pending
    /\ \A t \in Task :
          /\ Terminal(t) => result'[t] = result[t]
          /\ running'[t] \in {running[t], NoSlot} \/ (t \in pending /\ slots[running'[t]].alive)
          /\ t \in pending' => t \in pending \/ (running[t] # NoSlot /\ ~Terminal(t))

\* What moreover no step does that leaves the reaper where it is.
OutsideReaper ==
    /\ reaper' = reaper
    /\ pending' \subseteq pending
    /\ attempt' = attempt
    /\ \A s \in Slot : slots'[s].life = slots[s].life
    /\ \A t \in Task : result'[t] # result[t] => \E s \in Slot : slots[s].work = t

\* JobStands in the state after the step, of a job named before it.
StandsNext(job) ==
    /\ job.kind = "dead" =>
          /\ job.life <= slots'[job.slot].life
          /\ job.life = slots'[job.slot].life => ~slots'[job.slot].alive
    /\ job.kind = "timeout" =>
          /\ running'[job.task] = NoSlot
          /\ job.task \notin pending'
          /\ \A r \in Slot : slots'[r].work = job.task => r = job.slot

-----------------------------------------------------------------------------
\* What each kind of update leaves in the fields of every slot.
LEMMA SlotFields ==
    ASSUME slots \in [Slot -> Worker], NEW s \in Slot, NEW v, NEW m, NEW r \in Slot
    PROVE  /\ LET f == [slots EXCEPT ![s].busy = v] IN
              /\ f[r].life = slots[r].life /\ f[r].mode = slots[r].mode
              /\ f[r].alive = slots[r].alive /\ f[r].work = slots[r].work
              /\ f[r].busy = IF r = s THEN v ELSE slots[r].busy
           /\ LET f == [slots EXCEPT ![s].work = v] IN
              /\ f[r].life = slots[r].life /\ f[r].mode = slots[r].mode
              /\ f[r].alive = slots[r].alive /\ f[r].busy = slots[r].busy
              /\ f[r].work = IF r = s THEN v ELSE slots[r].work
           /\ LET f == [slots EXCEPT ![s].mode = m] IN
              /\ f[r].life = slots[r].life /\ f[r].busy = slots[r].busy
              /\ f[r].alive = slots[r].alive /\ f[r].work = slots[r].work
              /\ f[r].mode = IF r = s THEN m ELSE slots[r].mode
           /\ LET f == [slots EXCEPT ![s].busy = v, ![s].mode = m] IN
              /\ f[r].life = slots[r].life
              /\ f[r].alive = slots[r].alive /\ f[r].work = slots[r].work
              /\ f[r].busy = IF r = s THEN v ELSE slots[r].busy
              /\ f[r].mode = IF r = s THEN m ELSE slots[r].mode
           /\ LET f == [slots EXCEPT ![s].alive = FALSE, ![s].work = v] IN
              /\ f[r].life = slots[r].life /\ f[r].mode = slots[r].mode
              /\ f[r].busy = slots[r].busy
              /\ IF r = s THEN ~f[r].alive ELSE f[r].alive = slots[r].alive
              /\ f[r].work = IF r = s THEN v ELSE slots[r].work
<1>1. slots[r] \in Worker /\ slots[s] \in Worker
  OBVIOUS
<1> QED BY <1>1 DEF Worker

\* A process that is new in its slot is at nothing.
LEMMA FreshFields ==
    ASSUME slots \in [Slot -> Worker], NEW s \in Slot, NEW r \in Slot
    PROVE  LET f == [slots EXCEPT ![s] = FreshWorker(@.life + 1)] IN
           /\ r # s => f[r] = slots[r]
           /\ f[s].life = slots[s].life + 1 /\ f[s].mode = "booting"
           /\ f[s].work = NoTask /\ f[s].busy = NoTask
BY DEF FreshWorker

\* A captured job stands through every step.
LEMMA JobStable ==
    ASSUME TypeInv, TypeInv', Frame, NEW job \in Job, NamesTask(job), JobStands(job)
    PROVE  StandsNext(job)
<1>1. CASE job.kind = "dead"
  <2>1. /\ job.slot \in Slot /\ job.life \in Nat
        /\ slots[job.slot].life \in Nat /\ slots'[job.slot].life \in Nat
        /\ job.life <= slots[job.slot].life
        /\ job.life = slots[job.slot].life => ~slots[job.slot].alive
    BY <1>1 DEF JobStands, Job, TypeInv, ExecTypeOK, Worker
  <2>2. /\ slots[job.slot].life <= slots'[job.slot].life
        /\ slots'[job.slot].life = slots[job.slot].life =>
             (slots'[job.slot].alive => slots[job.slot].alive)
    BY <2>1 DEF Frame
  <2>3. CASE slots'[job.slot].life = slots[job.slot].life
    BY <1>1, <2>1, <2>2, <2>3 DEF StandsNext
  <2>4. CASE slots'[job.slot].life # slots[job.slot].life
    BY <1>1, <2>1, <2>2, <2>4 DEF StandsNext
  <2> QED BY <2>3, <2>4
<1>2. CASE job.kind = "timeout"
  <2>1. job.task \in Task /\ job.task # NoTask
    BY <1>2, NullTaskAssumption DEF NamesTask
  <2>2. /\ running[job.task] = NoSlot /\ job.task \notin pending
        /\ \A r \in Slot : slots[r].work = job.task => r = job.slot
    BY <1>2 DEF JobStands
  <2>3. running'[job.task] = NoSlot /\ job.task \notin pending'
    BY <2>1, <2>2 DEF Frame
  <2>4. \A r \in Slot : slots'[r].work = job.task => r = job.slot
    BY <2>1, <2>2 DEF Frame
  <2> QED BY <1>2, <2>3, <2>4 DEF StandsNext
<1> QED BY <1>1, <1>2 DEF Job

\* Events already on the bus stay final through every step.
LEMMA EventStable ==
    ASSUME TypeInv, RowsAgree, EventsAreFinal, Frame, NEW e \in bus
    PROVE  /\ Terminal(e.task)'
           /\ e.slot \in Slot => slots'[e.slot].work # e.task
           /\ e.by = "host" => running'[e.task] = NoSlot
<1>1. e.task \in Task /\ e.task # NoTask
  BY NullTaskAssumption DEF TypeInv, ExecTypeOK, Event
<1>2. Terminal(e.task) /\ e.task \notin pending
  BY <1>1 DEF EventsAreFinal, RowsAgree
<1>3. Terminal(e.task)'
  BY <1>1, <1>2 DEF Frame, Terminal
<1>4. e.slot \in Slot => slots'[e.slot].work # e.task
  BY <1>1, <1>2 DEF EventsAreFinal, Frame
<1>5. e.by = "host" => running'[e.task] = NoSlot
  BY <1>1, <1>2 DEF EventsAreFinal, Frame
<1> QED BY <1>3, <1>4, <1>5

\* A task that nobody has keeps being had by nobody, unless it is a retry.
LEMMA DesertedStable ==
    ASSUME Frame, NEW t \in Task, Deserted(t), Terminal(t) \/ pending' \subseteq pending
    PROVE  Deserted(t)'
<1>1. t # NoTask
  BY NullTaskAssumption
<1>2. t \notin pending'
  BY DEF Frame, Deserted
<1>3. \A s \in Slot : slots'[s].work # t
  BY <1>1 DEF Frame, Deserted
<1> QED BY <1>2, <1>3 DEF Deserted

\* What the reaper relies on survives the steps of everybody else.
LEMMA RelyStable ==
    ASSUME TypeInv, RowsAgree, JobsStand, ReaperRelies, Frame, OutsideReaper
    PROVE  ReaperRelies'
<1> DEFINE job == reaper.job
<1>0. reaper'.phase = reaper.phase /\ reaper'.job = job
  BY DEF OutsideReaper
<1>t. ASSUME reaper.phase # "idle"
      PROVE  job \in Job /\ NamesTask(job) /\ JobStands(job) /\ job.slot \in Slot
  BY <1>t DEF TypeInv, JobsWellFormed, JobsStand, Job
<1>1. ASSUME reaper.phase \in {"policy", "retry"}, DeadJobCurrent(job)'
      PROVE  ~Terminal(job.task)'
  <2>1. /\ job \in Job /\ job.slot \in Slot /\ job.life \in Nat /\ job.task \in Task
        /\ JobStands(job) /\ job.row # 0 /\ job.kind = "dead"
    BY <1>1, <1>t DEF TypeInv, JobsWellFormed, DeadPhase, NamesTask, Job
  <2>2. job.task # NoTask /\ NoSlot \notin Slot
    BY <2>1, NullTaskAssumption
  <2>3. slots'[job.slot].life = slots[job.slot].life /\ attempt' = attempt
    BY <2>1 DEF OutsideReaper
  <2>4. /\ slots'[job.slot].life = job.life
        /\ slots'[job.slot].busy = job.task
        /\ running'[job.task] = job.slot
        /\ attempt'[job.task] = job.row
    BY <1>0, <1>1, <2>1, <2>2 DEF DeadJobCurrent
  <2>5. ~slots[job.slot].alive
    BY <2>1, <2>3, <2>4 DEF JobStands
  <2>6. slots[job.slot].busy = job.task
    BY <2>1, <2>2, <2>3, <2>4, <2>5 DEF Frame
  <2>7. running[job.task] = job.slot
    BY <2>1, <2>2, <2>4, <2>5 DEF Frame
  <2>8. DeadJobCurrent(job)
    BY <2>1, <2>3, <2>4, <2>5, <2>6, <2>7 DEF DeadJobCurrent
  <2>9. ~Terminal(job.task)
    BY <1>1, <2>8 DEF ReaperRelies
  <2>10. \A s \in Slot : slots[s].work # job.task
    BY <2>1, <2>2, <2>5, <2>7 DEF RowsAgree
  <2> QED BY <2>1, <2>9, <2>10 DEF OutsideReaper, Terminal
<1>2. ASSUME reaper.phase \in {"fail", "finish"} PROVE Deserted(job.task)'
  <2>1. job.task \in Task
    BY <1>2, <1>t DEF TypeInv, JobsWellFormed, DeadPhase, TimeoutPhase, NamesTask
  <2>2. Deserted(job.task)
    BY <1>2 DEF ReaperRelies
  <2>3. Deserted(job.task)' <=> (job.task \notin pending' /\ \A s \in Slot : slots'[s].work # job.task)
    BY <1>0 DEF Deserted
  <2>4. job.task # NoTask
    BY <2>1, NullTaskAssumption
  <2> QED BY <2>1, <2>2, <2>3, <2>4 DEF OutsideReaper, Frame, Deserted
<1>3. ASSUME reaper.phase = "withdraw" PROVE Terminal(job.task)'
  <2>1. job.task \in Task /\ Terminal(job.task)
    BY <1>3, <1>t DEF TypeInv, JobsWellFormed, DeadPhase, NamesTask, ReaperRelies
  <2> QED BY <1>0, <2>1 DEF Frame, Terminal
<1>4. ASSUME reaper.phase \in {"finish", "respawn"}, job.kind = "timeout"
      PROVE  ~slots'[job.slot].alive
  <2>1. job.slot \in Slot /\ ~slots[job.slot].alive
    BY <1>4, <1>t DEF ReaperRelies
  <2> QED BY <2>1 DEF OutsideReaper, Frame
<1>5. ASSUME reaper.phase = "kill" PROVE slots'[job.slot].life = job.life
  <2>1. job.slot \in Slot /\ slots[job.slot].life = job.life
    BY <1>5, <1>t DEF ReaperRelies
  <2> QED BY <2>1 DEF OutsideReaper
<1> QED BY <1>0, <1>1, <1>2, <1>3, <1>4, <1>5 DEF ReaperRelies
-----------------------------------------------------------------------------
\* Steps that leave the queue, the pool and the results alone.
LEMMA Untouched ==
    ASSUME TypeInv, RowsAgree, UNCHANGED <<pending, launch, running, slots, result>>
    PROVE  Frame /\ RowsAgree'
<1>1. \A s \in Slot : slots[s].life \in Nat
  BY DEF TypeInv, ExecTypeOK, Worker
<1> QED BY <1>1 DEF Frame, RowsAgree, Terminal

\* The invariant of the rows, with what it says of one slot in reach of the provers.
LEMMA AtWork ==
    ASSUME TypeInv, RowsAgree, NEW s \in Slot, slots[s].work # NoTask
    PROVE  /\ slots[s].work \in Task
           /\ slots[s].alive
           /\ slots[s].work \notin pending
           /\ launch[slots[s].work] = NoSlot
           /\ running[slots[s].work] \in {s, NoSlot}
BY DEF TypeInv, ExecTypeOK, Worker, RowsAgree

\* The assignment pass and its launch lane keep the rows and the frame.
LEMMA LaunchSteps ==
    ASSUME TypeInv, RowsAgree, NEW t \in Task, NEW s \in Slot,
           ClaimLaunch(t, s) \/ BindLaunch(t, s) \/ ReleaseLaunch(t, s)
    PROVE  Frame /\ RowsAgree'
<1>t. /\ slots \in [Slot -> Worker] /\ \A r \in Slot : slots[r].life \in Nat
      /\ running \in [Task -> Slot \cup {NoSlot}] /\ launch \in [Task -> Slot \cup {NoSlot}]
      /\ pending \subseteq Task /\ t # NoTask /\ s # NoSlot
  BY NullTaskAssumption DEF TypeInv, ExecTypeOK, Worker
<1>1. CASE ClaimLaunch(t, s)
  <2>1. \A r \in Slot : /\ slots'[r].life = slots[r].life /\ slots'[r].mode = slots[r].mode
                        /\ slots'[r].alive = slots[r].alive /\ slots'[r].work = slots[r].work
                        /\ slots'[r].busy = IF r = s THEN t ELSE slots[r].busy
    BY <1>1, <1>t, SlotFields DEF ClaimLaunch
  <2>2. slots[s].alive /\ slots[s].mode = "open" /\ slots[s].busy = NoTask
    BY <1>1 DEF ClaimLaunch, WorkerReady
  <2>3. slots[s].work = NoTask
    BY <2>2 DEF RowsAgree
  <2>4. Frame
    BY <1>1, <1>t, <2>1, <2>2 DEF ClaimLaunch, Frame, Terminal
  <2>5. RowsAgree'
    BY <1>1, <1>t, <2>1, <2>2, <2>3 DEF ClaimLaunch, RowsAgree, Terminal
  <2> QED BY <2>4, <2>5
<1>2. CASE BindLaunch(t, s)
  <2>1. \A r \in Slot : /\ slots'[r].life = slots[r].life /\ slots'[r].mode = slots[r].mode
                        /\ slots'[r].alive = slots[r].alive /\ slots'[r].busy = slots[r].busy
                        /\ slots'[r].work = IF r = s THEN t ELSE slots[r].work
    BY <1>2, <1>t, SlotFields DEF BindLaunch
  <2>2. /\ slots[s].alive /\ slots[s].mode = "open" /\ slots[s].busy = t
        /\ t \in pending /\ ~Terminal(t)
    BY <1>2, <1>t DEF BindLaunch, LaunchHeld, WorkerReady, RowsAgree
  <2>3. \A r \in Slot : slots[r].work # t
    BY <2>2, <1>t DEF RowsAgree
  <2>4. Frame
    BY <1>2, <1>t, <2>1, <2>2 DEF BindLaunch, Frame, Terminal
  <2>5. \A u \in Task : /\ running'[u] # NoSlot => u \notin pending'
                        /\ launch'[u] # NoSlot => u \in pending'
                        /\ u \in pending' => ~Terminal(u)'
    BY <1>2, <1>t DEF BindLaunch, RowsAgree, Terminal
  <2>6. \A r \in Slot : slots'[r].work # NoTask =>
          /\ slots'[r].alive
          /\ slots'[r].work \notin pending'
          /\ running'[slots'[r].work] \in {r, NoSlot}
          /\ slots'[r].mode # "booting"
          /\ slots'[r].mode = "open" => slots'[r].busy = slots'[r].work
    <3> SUFFICES ASSUME NEW r \in Slot, slots'[r].work # NoTask
                 PROVE  /\ slots'[r].alive
                        /\ slots'[r].work \notin pending'
                        /\ running'[slots'[r].work] \in {r, NoSlot}
                        /\ slots'[r].mode # "booting"
                        /\ slots'[r].mode = "open" => slots'[r].busy = slots'[r].work
      OBVIOUS
    <3>1. CASE r = s
      BY <1>2, <1>t, <2>1, <2>2, <3>1 DEF BindLaunch
    <3>2. CASE r # s
      <4>1. slots'[r].work = slots[r].work /\ slots[r].work \in Task
        BY <2>1, <3>2, AtWork
      <4> QED BY <1>2, <1>t, <2>1, <2>3, <3>2, <4>1 DEF BindLaunch, RowsAgree
    <3> QED BY <3>1, <3>2
  <2>7. \A q, r \in Slot :
          (slots'[q].work # NoTask /\ slots'[q].work = slots'[r].work) => q = r
    BY <2>1, <2>3 DEF RowsAgree
  <2> QED BY <2>4, <2>5, <2>6, <2>7 DEF RowsAgree
<1>3. CASE ReleaseLaunch(t, s)
  <2>1. CASE slots' = slots
    <3>1. Frame
      BY <1>3, <1>t, <2>1 DEF ReleaseLaunch, Frame, Terminal
    <3>2. RowsAgree'
      BY <1>3, <1>t, <2>1 DEF ReleaseLaunch, RowsAgree, Terminal
    <3> QED BY <3>1, <3>2
  <2>2. CASE slots[s].busy = t /\ slots' = [slots EXCEPT ![s].busy = NoTask]
    <3>1. \A r \in Slot : /\ slots'[r].life = slots[r].life /\ slots'[r].mode = slots[r].mode
                          /\ slots'[r].alive = slots[r].alive /\ slots'[r].work = slots[r].work
                          /\ slots'[r].busy = IF r = s THEN NoTask ELSE slots[r].busy
      BY <2>2, <1>t, SlotFields
    <3>2. slots[s].mode = "open" => slots[s].work = NoTask
      <4>1. t \in pending
        BY <1>3, <1>t DEF ReleaseLaunch, RowsAgree
      <4> QED BY <4>1, <2>2 DEF RowsAgree
    <3>3. Frame
      BY <1>3, <1>t, <3>1 DEF ReleaseLaunch, Frame, Terminal
    <3>4. RowsAgree'
      BY <1>3, <1>t, <3>1, <3>2 DEF ReleaseLaunch, RowsAgree, Terminal
    <3> QED BY <3>3, <3>4
  <2> QED BY <1>3, <2>1, <2>2 DEF ReleaseLaunch
<1> QED BY <1>1, <1>2, <1>3
\* The worker processes keep the rows and the frame.
LEMMA WorkerSteps ==
    ASSUME TypeInv, RowsAgree, NEW s \in Slot,
           Complete(s) \/ ReportDone(s) \/ WorkerDies(s) \/ LeaveBoot(s)
    PROVE  Frame /\ RowsAgree'
<1>t. /\ slots \in [Slot -> Worker] /\ \A r \in Slot : slots[r].life \in Nat
      /\ result \in [Task -> Outcome] /\ pending \subseteq Task
  BY DEF TypeInv, ExecTypeOK, Worker
<1>1. CASE Complete(s)
  <2>1. /\ slots[s].work \in Task /\ slots[s].work \notin pending
        /\ ~Terminal(slots[s].work)
    BY <1>1, AtWork DEF Complete
  <2>2. \A t \in Task : t # slots[s].work => result'[t] = result[t]
    BY <1>1, <1>t, <2>1 DEF Complete, Written
  <2>3. UNCHANGED <<pending, launch, running, slots>>
    BY <1>1 DEF Complete
  <2>4. Frame
    BY <1>t, <2>1, <2>2, <2>3 DEF Frame, Terminal
  <2>5. RowsAgree'
    BY <1>t, <2>1, <2>2, <2>3 DEF RowsAgree, Terminal
  <2> QED BY <2>4, <2>5
<1>2. CASE ReportDone(s)
  <2>1. \A r \in Slot : /\ slots'[r].life = slots[r].life /\ slots'[r].mode = slots[r].mode
                        /\ slots'[r].alive = slots[r].alive /\ slots'[r].busy = slots[r].busy
                        /\ slots'[r].work = IF r = s THEN NoTask ELSE slots[r].work
    BY <1>2, <1>t, SlotFields DEF ReportDone
  <2>2. UNCHANGED <<pending, launch, running, result>>
    BY <1>2 DEF ReportDone
  <2>3. Frame
    BY <1>t, <2>1, <2>2 DEF Frame, Terminal
  <2>4. RowsAgree'
    BY <2>1, <2>2 DEF RowsAgree, Terminal
  <2> QED BY <2>3, <2>4
<1>3. CASE WorkerDies(s)
  <2>1. \A r \in Slot : /\ slots'[r].life = slots[r].life /\ slots'[r].mode = slots[r].mode
                        /\ IF r = s THEN ~slots'[r].alive ELSE slots'[r].alive = slots[r].alive
                        /\ slots'[r].busy = slots[r].busy
                        /\ slots'[r].work = IF r = s THEN NoTask ELSE slots[r].work
    BY <1>3, <1>t, SlotFields DEF WorkerDies
  <2>2. UNCHANGED <<pending, launch, running, result>>
    BY <1>3 DEF WorkerDies
  <2>3. Frame
    BY <1>t, <2>1, <2>2 DEF Frame, Terminal
  <2>4. RowsAgree'
    BY <2>1, <2>2 DEF RowsAgree, Terminal
  <2> QED BY <2>3, <2>4
<1>4. CASE LeaveBoot(s)
  <2>1. \A r \in Slot : /\ slots'[r].life = slots[r].life /\ slots'[r].busy = slots[r].busy
                        /\ slots'[r].alive = slots[r].alive /\ slots'[r].work = slots[r].work
                        /\ slots'[r].mode = IF r = s THEN "open" ELSE slots[r].mode
    BY <1>4, <1>t, SlotFields DEF LeaveBoot
  <2>2. slots[s].work = NoTask
    BY <1>4 DEF LeaveBoot, RowsAgree
  <2>3. UNCHANGED <<pending, launch, running, result>>
    BY <1>4 DEF LeaveBoot
  <2>4. Frame
    BY <1>t, <2>1, <2>3 DEF Frame, Terminal
  <2>5. RowsAgree'
    BY <2>1, <2>2, <2>3 DEF RowsAgree, Terminal
  <2> QED BY <2>4, <2>5
<1> QED BY <1>1, <1>2, <1>3, <1>4

\* Taking a row out of RUNNING leaves every process where the rows allow it.
LEMMA Withdrawal ==
    ASSUME TypeInv, RowsAgree, NEW t \in Task,
           running' = [running EXCEPT ![t] = NoSlot],
           UNCHANGED <<pending, launch, result>>,
           \A r \in Slot : /\ slots'[r].life = slots[r].life
                           /\ slots'[r].alive = slots[r].alive
                           /\ slots'[r].work = slots[r].work
                           /\ slots'[r].busy \in {slots[r].busy, NoTask}
                           /\ slots'[r].mode = slots[r].mode \/ slots'[r].mode = "reaping"
                           /\ slots'[r].mode = "open" => slots'[r].busy = slots[r].busy \/ slots[r].work = NoTask
    PROVE  Frame /\ RowsAgree'
<1>t. /\ \A r \in Slot : slots[r].life \in Nat
      /\ running \in [Task -> Slot \cup {NoSlot}] /\ NoSlot \notin Slot
  BY NullTaskAssumption DEF TypeInv, ExecTypeOK, Worker
<1>1. \A u \in Task : running'[u] = IF u = t THEN NoSlot ELSE running[u]
  BY <1>t
<1>2. Frame
  BY <1>t, <1>1 DEF Frame, Terminal
<1>3. \A u \in Task : /\ running'[u] # NoSlot => u \notin pending'
                      /\ launch'[u] # NoSlot => u \in pending'
                      /\ u \in pending' => ~Terminal(u)'
  BY <1>1 DEF RowsAgree, Terminal
<1>4. ASSUME NEW r \in Slot, slots'[r].work # NoTask
      PROVE  /\ slots'[r].alive
             /\ slots'[r].work \notin pending'
             /\ running'[slots'[r].work] \in {r, NoSlot}
             /\ slots'[r].mode # "booting"
             /\ slots'[r].mode = "open" => slots'[r].busy = slots'[r].work
  <2>1. slots[r].work # NoTask /\ slots[r].work \in Task /\ slots'[r].work = slots[r].work
    BY <1>4, AtWork
  <2> QED BY <1>1, <2>1 DEF RowsAgree
<1>5. \A q, r \in Slot : (slots'[q].work # NoTask /\ slots'[q].work = slots'[r].work) => q = r
  BY DEF RowsAgree
<1> QED BY <1>2, <1>3, <1>4, <1>5 DEF RowsAgree

\* The steps of the supervisor loop keep the rows and the frame.
LEMMA LoopSteps ==
    ASSUME TypeInv, RowsAgree, EventsAreFinal,
           \/ \E e \in bus : HandleTaskDone(e)
           \/ \E s \in Slot : ReserveDeadSlot(s)
           \/ \E t \in Task : Timeout(t)
    PROVE  Frame /\ RowsAgree'
<1>t. /\ slots \in [Slot -> Worker] /\ \A r \in Slot : slots[r].life \in Nat
      /\ running \in [Task -> Slot \cup {NoSlot}]
  BY DEF TypeInv, ExecTypeOK, Worker
<1>1. ASSUME NEW e \in bus, HandleTaskDone(e) PROVE Frame /\ RowsAgree'
  <2>0. e.task \in Task
    BY DEF TypeInv, ExecTypeOK, Event
  <2>1. CASE StaleEvent(e)
    BY <1>1, <2>1, Untouched DEF HandleTaskDone
  <2>2. CASE ~StaleEvent(e)
    <3>1. /\ running' = [running EXCEPT ![e.task] = NoSlot]
          /\ UNCHANGED <<pending, launch, result>>
      BY <1>1, <2>2 DEF HandleTaskDone
    <3>2. CASE slots' = slots
      <4> QED BY <2>0, <3>1, <3>2, Withdrawal
    <3>3. CASE /\ e.slot \in Slot /\ slots[e.slot].busy = e.task /\ slots[e.slot].mode = "open"
               /\ slots' = [slots EXCEPT ![e.slot].busy = NoTask]
      <4>1. \A r \in Slot : /\ slots'[r].life = slots[r].life /\ slots'[r].mode = slots[r].mode
                            /\ slots'[r].alive = slots[r].alive /\ slots'[r].work = slots[r].work
                            /\ slots'[r].busy = IF r = e.slot THEN NoTask ELSE slots[r].busy
        BY <3>3, <1>t, SlotFields
      <4>2. slots[e.slot].work = NoTask
        BY <3>3 DEF EventsAreFinal, RowsAgree
      <4> QED BY <2>0, <3>1, <4>1, <4>2, Withdrawal
    <3> QED BY <1>1, <2>2, <3>2, <3>3 DEF HandleTaskDone
  <2> QED BY <2>1, <2>2
<1>2. ASSUME NEW s \in Slot, ReserveDeadSlot(s) PROVE Frame /\ RowsAgree'
  <2>1. \A r \in Slot : /\ slots'[r].life = slots[r].life /\ slots'[r].busy = slots[r].busy
                        /\ slots'[r].alive = slots[r].alive /\ slots'[r].work = slots[r].work
                        /\ slots'[r].mode = IF r = s THEN "reaping" ELSE slots[r].mode
    BY <1>2, <1>t, SlotFields DEF ReserveDeadSlot
  <2>2. UNCHANGED <<pending, launch, running, result>>
    BY <1>2 DEF ReserveDeadSlot
  <2>3. Frame
    BY <1>t, <2>1, <2>2 DEF Frame, Terminal
  <2>4. RowsAgree'
    BY <2>1, <2>2 DEF RowsAgree, Terminal
  <2> QED BY <2>3, <2>4
<1>3. ASSUME NEW t \in Task, Timeout(t) PROVE Frame /\ RowsAgree'
  <2> DEFINE s == running[t]
  <2>1. s \in Slot /\ slots' = [slots EXCEPT ![s].busy = NoTask, ![s].mode = "reaping"]
    BY <1>3, <1>t DEF Timeout
  <2> HIDE DEF s
  <2>2. \A r \in Slot : /\ slots'[r].life = slots[r].life
                        /\ slots'[r].alive = slots[r].alive /\ slots'[r].work = slots[r].work
                        /\ slots'[r].busy = IF r = s THEN NoTask ELSE slots[r].busy
                        /\ slots'[r].mode = IF r = s THEN "reaping" ELSE slots[r].mode
    BY <1>t, <2>1, SlotFields
  <2>3. running' = [running EXCEPT ![t] = NoSlot] /\ UNCHANGED <<pending, launch, result>>
    BY <1>3 DEF Timeout
  <2> QED BY <2>2, <2>3, Withdrawal
<1> QED BY <1>1, <1>2, <1>3
\* A verdict on a task that nobody has keeps the rows and the frame.
LEMMA VerdictStep ==
    ASSUME TypeInv, RowsAgree, NEW t \in Task, t \notin pending, NEW o \in Outcome,
           result' = Written(t, o), UNCHANGED <<pending, launch, running, slots>>
    PROVE  Frame /\ RowsAgree'
<1>1. \A r \in Slot : slots[r].life \in Nat
  BY DEF TypeInv, ExecTypeOK, Worker
<1>2. \A u \in Task : u # t \/ Terminal(u) => result'[u] = result[u]
  BY DEF Written, Terminal, TypeInv, ExecTypeOK
<1>3. Frame
  BY <1>1, <1>2 DEF Frame, Terminal
<1>4. RowsAgree'
  BY <1>2 DEF RowsAgree, Terminal
<1> QED BY <1>3, <1>4

\* The steps of the reaper keep the rows and the frame.
LEMMA ReaperRows ==
    ASSUME TypeInv, RowsAgree, JobsStand, ReaperRelies, ReaperStep \/ DeferJob
    PROVE  Frame /\ RowsAgree'
<1> DEFINE job == reaper.job
<1>t. /\ slots \in [Slot -> Worker] /\ \A r \in Slot : slots[r].life \in Nat
      /\ running \in [Task -> Slot \cup {NoSlot}] /\ NoSlot \notin Slot /\ NoTask \notin Task
  BY NullTaskAssumption DEF TypeInv, ExecTypeOK, Worker
<1>j. ASSUME reaper.phase # "idle"
      PROVE  job \in Job /\ job.slot \in Slot /\ NamesTask(job) /\ JobStands(job)
  BY <1>j DEF TypeInv, JobsWellFormed, JobsStand, Job
<1>k. ASSUME reaper.phase \in DeadPhase \cup TimeoutPhase
      PROVE  job.task \in Task
  BY <1>k DEF TypeInv, JobsWellFormed, NamesTask, DeadPhase, TimeoutPhase
<1>1. CASE TakeJob \/ InspectDeadJob \/ DecideCrash \/ DeferJob
  BY <1>1, Untouched DEF TakeJob, InspectDeadJob, DecideCrash, DeferJob
<1>2. CASE FailCrashed
  <2>1. job.task \in Task /\ job.task \notin pending /\ "failed" \in Outcome
    BY <1>2, <1>k DEF FailCrashed, DeadPhase, ReaperRelies, Deserted, Outcome
  <2> QED BY <1>2, <2>1, VerdictStep DEF FailCrashed
<1>3. CASE WithdrawCrashed
  <2>1. job.task \in Task
    BY <1>3, <1>k DEF WithdrawCrashed, DeadPhase
  <2>2. CASE DeadJobCurrent(job)
    BY <1>3, <2>1, <2>2, Withdrawal DEF WithdrawCrashed
  <2>3. CASE ~DeadJobCurrent(job)
    BY <1>3, <2>3, Untouched DEF WithdrawCrashed
  <2> QED BY <2>2, <2>3
<1>4. CASE RetryCrashed
  <2>1. CASE ~DeadJobCurrent(job)
    BY <1>4, <2>1, Untouched DEF RetryCrashed
  <2>2. CASE DeadJobCurrent(job)
    <3>1. job.task \in Task /\ job.row # 0 /\ job.slot \in Slot
      BY <1>4, <1>j, <1>k DEF RetryCrashed, DeadPhase, TypeInv, JobsWellFormed
    <3>2. /\ running[job.task] = job.slot /\ ~slots[job.slot].alive /\ ~Terminal(job.task)
      BY <1>4, <1>t, <2>2, <3>1 DEF RetryCrashed, DeadJobCurrent, ReaperRelies
    <3>3. \A r \in Slot : slots[r].work # job.task
      BY <3>1, <3>2, <1>t DEF RowsAgree
    <3>4. /\ \A u \in Task : running'[u] = IF u = job.task THEN NoSlot ELSE running[u]
          /\ pending' = pending \cup {job.task}
          /\ UNCHANGED <<launch, slots, result>>
      BY <1>4, <1>t, <2>2 DEF RetryCrashed
    <3> HIDE DEF job
    <3>5. Frame
      BY <1>t, <3>1, <3>2, <3>4 DEF Frame, Terminal
    <3>6. \A u \in Task : /\ running'[u] # NoSlot => u \notin pending'
                          /\ launch'[u] # NoSlot => u \in pending'
                          /\ u \in pending' => ~Terminal(u)'
      BY <3>2, <3>4 DEF RowsAgree, Terminal
    <3>7. ASSUME NEW r \in Slot, slots'[r].work # NoTask
          PROVE  /\ slots'[r].alive
                 /\ slots'[r].work \notin pending'
                 /\ running'[slots'[r].work] \in {r, NoSlot}
                 /\ slots'[r].mode # "booting"
                 /\ slots'[r].mode = "open" => slots'[r].busy = slots'[r].work
      <4>1. slots[r].work # NoTask /\ slots[r].work \in Task /\ slots' = slots
        BY <3>4, <3>7, AtWork
      <4> QED BY <3>3, <3>4, <4>1 DEF RowsAgree
    <3>8. \A q, r \in Slot : (slots'[q].work # NoTask /\ slots'[q].work = slots'[r].work) => q = r
      BY <3>4 DEF RowsAgree
    <3> QED BY <3>5, <3>6, <3>7, <3>8 DEF RowsAgree
  <2> QED BY <2>1, <2>2
<1>5. CASE RespawnSlot
  <2>0. job.slot \in Slot /\ UNCHANGED <<pending, launch, running, result>>
    BY <1>5, <1>j DEF RespawnSlot
  <2>1. CASE slots' = slots
    BY <2>0, <2>1, Untouched
  <2>2. CASE slots' = [slots EXCEPT ![job.slot] = FreshWorker(@.life + 1)]
    <3> DEFINE s == job.slot
    <3>1. /\ \A r \in Slot : r # s => slots'[r] = slots[r]
          /\ slots'[s].life = slots[s].life + 1 /\ slots'[s].mode = "booting"
          /\ slots'[s].work = NoTask
      BY <1>t, <2>0, <2>2, FreshFields
    <3>2. s \in Slot
      BY <2>0
    <3> HIDE DEF s
    <3>3. Frame
      <4>1. ASSUME NEW r \in Slot
            PROVE  /\ slots[r].life <= slots'[r].life
                   /\ slots'[r].life = slots[r].life =>
                        /\ slots'[r].alive => slots[r].alive
                        /\ ~slots[r].alive => slots'[r].busy \in {slots[r].busy, NoTask}
                   /\ slots'[r].work \in {slots[r].work, NoTask} \cup pending
        BY <1>t, <3>1, <3>2
      <4> QED BY <2>0, <4>1 DEF Frame, Terminal
    <3>4. RowsAgree'
      BY <2>0, <3>1, <3>2 DEF RowsAgree, Terminal
    <3> QED BY <3>3, <3>4
  <2>3. CASE slots[job.slot].life = job.life /\ slots' = [slots EXCEPT ![job.slot].mode = "open"]
    <3>1. ~slots[job.slot].alive
      BY <1>5, <1>j, <2>3 DEF RespawnSlot, JobStands, Job, ReaperRelies
    <3>2. slots[job.slot].work = NoTask
      BY <2>0, <3>1 DEF RowsAgree
    <3>3. \A r \in Slot : /\ slots'[r].life = slots[r].life /\ slots'[r].busy = slots[r].busy
                          /\ slots'[r].alive = slots[r].alive /\ slots'[r].work = slots[r].work
                          /\ slots'[r].mode = IF r = job.slot THEN "open" ELSE slots[r].mode
      BY <1>t, <2>0, <2>3, SlotFields
    <3>4. Frame
      BY <1>t, <2>0, <3>3 DEF Frame, Terminal
    <3>5. RowsAgree'
      BY <2>0, <3>2, <3>3 DEF RowsAgree, Terminal
    <3> QED BY <3>4, <3>5
  <2> QED BY <1>5, <2>1, <2>2, <2>3 DEF RespawnSlot
<1>6. CASE KillTimedOut
  <2>0. job.slot \in Slot /\ UNCHANGED <<pending, launch, running, result>>
    BY <1>6, <1>j DEF KillTimedOut
  <2>1. CASE slots' = slots
    BY <2>0, <2>1, Untouched
  <2>2. CASE slots' = [slots EXCEPT ![job.slot].alive = FALSE, ![job.slot].work = NoTask]
    <3>1. \A r \in Slot : /\ slots'[r].life = slots[r].life /\ slots'[r].mode = slots[r].mode
                          /\ IF r = job.slot THEN ~slots'[r].alive ELSE slots'[r].alive = slots[r].alive
                          /\ slots'[r].busy = slots[r].busy
                          /\ slots'[r].work = IF r = job.slot THEN NoTask ELSE slots[r].work
      BY <1>t, <2>0, <2>2, SlotFields
    <3>2. Frame
      BY <1>t, <2>0, <3>1 DEF Frame, Terminal
    <3>3. RowsAgree'
      BY <2>0, <3>1 DEF RowsAgree, Terminal
    <3> QED BY <3>2, <3>3
  <2> QED BY <1>6, <2>1, <2>2 DEF KillTimedOut
<1>7. CASE FinishTimedOut
  <2>1. job.task \in Task /\ job.task \notin pending /\ "failed" \in Outcome
    BY <1>7, <1>k DEF FinishTimedOut, TimeoutPhase, ReaperRelies, Deserted, Outcome
  <2>2. CASE TimeoutJobCurrent(job)
    BY <1>7, <2>1, <2>2, VerdictStep DEF FinishTimedOut
  <2>3. CASE ~TimeoutJobCurrent(job)
    BY <1>7, <2>3, Untouched DEF FinishTimedOut
  <2> QED BY <2>2, <2>3
<1> QED BY <1>1, <1>2, <1>3, <1>4, <1>5, <1>6, <1>7 DEF ReaperStep
-----------------------------------------------------------------------------
\* Everybody keeps the rows and the frame.
LEMMA StepRows ==
    ASSUME TypeInv, ExecInv, [Next]_execVars
    PROVE  Frame /\ RowsAgree'
<1>1. RowsAgree /\ EventsAreFinal /\ JobsStand /\ ReaperRelies
  BY DEF ExecInv
<1>2. CASE UNCHANGED execVars
  BY <1>1, <1>2, Untouched DEF execVars
<1> QED BY <1>1, <1>2, LaunchSteps, WorkerSteps, LoopSteps, ReaperRows DEF Next

\* One new event keeps the bus final if it is final itself.
LEMMA BusStep ==
    ASSUME TypeInv, RowsAgree, EventsAreFinal, Frame,
           NEW new, bus' \subseteq bus \cup {new},
           new \in bus' =>
              /\ result'[new.task] # "none"
              /\ new.slot \in Slot => slots'[new.slot].work # new.task
              /\ new.by = "host" => running'[new.task] = NoSlot
    PROVE  EventsAreFinal'
<1> SUFFICES ASSUME NEW e \in bus'
             PROVE  /\ result'[e.task] # "none"
                    /\ e.slot \in Slot => slots'[e.slot].work # e.task
                    /\ e.by = "host" => running'[e.task] = NoSlot
  BY DEF EventsAreFinal, Terminal
<1>1. CASE e \in bus
  BY <1>1, EventStable DEF Terminal
<1>2. CASE e = new
  BY <1>2
<1> QED BY <1>1, <1>2

\* Every event put tells of a stored terminal and of a process that is gone.
LEMMA StepEvents ==
    ASSUME TypeInv, ExecInv, [Next]_execVars, Frame
    PROVE  EventsAreFinal'
<1> DEFINE job == reaper.job
<1>i. RowsAgree /\ EventsAreFinal /\ JobsStand /\ ReaperRelies
  BY DEF ExecInv
<1>t. NoSlot \notin Slot /\ NoTask \notin Task
  BY NullTaskAssumption
<1>j. ASSUME reaper.phase \in DeadPhase \cup TimeoutPhase
      PROVE  job.task \in Task /\ job.slot \in Slot
  BY <1>j DEF TypeInv, JobsWellFormed, NamesTask, DeadPhase, TimeoutPhase, Job
<1>1. CASE bus' \subseteq bus
  <2> SUFFICES ASSUME NEW e \in bus'
               PROVE  /\ result'[e.task] # "none"
                      /\ e.slot \in Slot => slots'[e.slot].work # e.task
                      /\ e.by = "host" => running'[e.task] = NoSlot
    BY DEF EventsAreFinal, Terminal
  <2> QED BY <1>1, <1>i, EventStable DEF Terminal
<1>2. ASSUME NEW s \in Slot, ReportDone(s) PROVE EventsAreFinal'
  <2> DEFINE t == slots[s].work
             e == [task |-> t, slot |-> s, attempt |-> attempt[t], by |-> "worker"]
  <2>1. t \in Task /\ Terminal(t) /\ bus' = bus \cup {e} /\ result' = result
    BY <1>2, <1>i, AtWork DEF ReportDone
  <2>2. slots'[s].work = NoTask
    BY <1>2, SlotFields DEF ReportDone, TypeInv, ExecTypeOK
  <2>3. /\ result'[e.task] # "none" /\ slots'[e.slot].work # e.task
        /\ e.by # "host"
    BY <1>t, <2>1, <2>2 DEF Terminal
  <2> HIDE DEF e
  <2> QED BY <1>i, <2>1, <2>3, BusStep
<1>3. CASE TakeJob
  <2> DEFINE new == SavedTerminal(Head(jobs), NoSlot)
  <2>1. CASE bus' = bus \cup {new} /\ Terminal(Head(jobs).task)
    <3>1. new.task = Head(jobs).task /\ new.slot = NoSlot /\ new.by = "reaper" /\ result' = result
      BY <1>3 DEF SavedTerminal, TakeJob
    <3> HIDE DEF new
    <3> QED BY <1>i, <1>t, <2>1, <3>1, BusStep DEF Terminal
  <2> QED BY <1>1, <1>3, <2>1 DEF TakeJob, RecoverReplacedFiles
<1>4. CASE InspectDeadJob
  <2> DEFINE new == SavedTerminal(job, job.slot)
  <2>1. CASE bus' = bus \cup {new} /\ Terminal(job.task) /\ DeadJobCurrent(job)
    <3>1. /\ new.task = job.task /\ new.slot = job.slot /\ new.by = "reaper"
          /\ result' = result /\ slots' = slots
      BY <1>4 DEF SavedTerminal, InspectDeadJob
    <3>2. job.task \in Task /\ job.slot \in Slot
      BY <1>4, <1>j DEF InspectDeadJob, DeadPhase
    <3>3. slots[job.slot].work = NoTask
      BY <1>i, <2>1, <3>2 DEF DeadJobCurrent, RowsAgree
    <3> HIDE DEF new, job
    <3> QED BY <1>i, <1>t, <2>1, <3>1, <3>2, <3>3, BusStep DEF Terminal
  <2> QED BY <1>1, <1>4, <2>1 DEF InspectDeadJob
<1>5. CASE WithdrawCrashed
  <2> DEFINE new == HostVerdict(job)
  <2>1. CASE bus' = bus \cup {new} /\ DeadJobCurrent(job)
    <3>1. new.task = job.task /\ new.slot = NoSlot /\ result' = result
      BY <1>5 DEF HostVerdict, WithdrawCrashed
    <3>2. job.task \in Task /\ Terminal(job.task)
      BY <1>5, <1>i, <1>j DEF WithdrawCrashed, DeadPhase, ReaperRelies
    <3>3. running'[job.task] = NoSlot
      BY <1>5, <2>1, <3>2 DEF WithdrawCrashed, TypeInv, ExecTypeOK
    <3> HIDE DEF new, job
    <3> QED BY <1>i, <1>t, <2>1, <3>1, <3>2, <3>3, BusStep DEF Terminal
  <2> QED BY <1>1, <1>5, <2>1 DEF WithdrawCrashed
<1>6. CASE FinishTimedOut
  <2>0. job.task \in Task /\ job.slot \in Slot /\ Deserted(job.task) /\ slots' = slots /\ running' = running
    BY <1>6, <1>i, <1>j DEF FinishTimedOut, TimeoutPhase, ReaperRelies
  <2>1. CASE TimeoutJobCurrent(job)
    <3> DEFINE new == IF Terminal(job.task) THEN SavedTerminal(job, job.slot) ELSE HostVerdict(job)
    <3>1. new.task = job.task /\ new.slot \in {job.slot, NoSlot}
      BY DEF SavedTerminal, HostVerdict
    <3>2. bus' = bus \cup {new}
      BY <1>6, <2>1 DEF FinishTimedOut
    <3>3. result'[job.task] # "none"
      BY <1>6, <2>0, <2>1 DEF FinishTimedOut, Written, Terminal, TypeInv, ExecTypeOK
    <3>4. running[job.task] = NoSlot
      BY <2>1 DEF TimeoutJobCurrent
    <3>5. \A r \in Slot : slots'[r].work # job.task
      BY <2>0 DEF Deserted
    <3> HIDE DEF new, job
    <3> QED BY <1>i, <1>t, <2>0, <3>1, <3>2, <3>3, <3>4, <3>5, BusStep
  <2>2. CASE ~TimeoutJobCurrent(job)
    <3> DEFINE new == SavedTerminal(job, NoSlot)
    <3>1. CASE bus' = bus \cup {new} /\ Terminal(job.task) /\ result' = result
      <4>1. new.task = job.task /\ new.slot = NoSlot /\ new.by = "reaper"
        BY DEF SavedTerminal
      <4> HIDE DEF new, job
      <4> QED BY <1>i, <1>t, <3>1, <4>1, BusStep DEF Terminal
    <3> QED BY <1>1, <1>6, <2>2, <3>1 DEF FinishTimedOut, RecoverReplacedFiles
  <2> QED BY <2>1, <2>2
<1>7. CASE /\ ~TakeJob /\ ~InspectDeadJob /\ ~WithdrawCrashed /\ ~FinishTimedOut
           /\ \A s \in Slot : ~ReportDone(s)
  <2>1. bus' \subseteq bus
    BY <1>7 DEF Next, ReaperStep, execVars, ClaimLaunch, BindLaunch, ReleaseLaunch, Complete,
                WorkerDies, LeaveBoot, HandleTaskDone, ReserveDeadSlot, Timeout, DeferJob,
                DecideCrash, FailCrashed, RetryCrashed, RespawnSlot, KillTimedOut
  <2> QED BY <1>1, <2>1
<1> QED BY <1>2, <1>3, <1>4, <1>5, <1>6, <1>7
-----------------------------------------------------------------------------
\* A longer queue holds the old jobs and the new one.
LEMMA Appended ==
    ASSUME NEW q \in Seq(Job), NEW job \in Job, NEW i \in 1..Len(Append(q, job))
    PROVE  Append(q, job)[i] = job \/ \E k \in 1..Len(q) : Append(q, job)[i] = q[k]
<1>1. Len(Append(q, job)) = Len(q) + 1 /\ Len(q) \in Nat
  OBVIOUS
<1>2. CASE i = Len(q) + 1
  BY <1>2
<1>3. CASE i # Len(q) + 1
  <2>1. i \in 1..Len(q) /\ Append(q, job)[i] = q[i]
    BY <1>1, <1>3
  <2> QED BY <2>1
<1> QED BY <1>2, <1>3

\* A shorter queue holds old jobs, and so does who took one.
LEMMA Taken ==
    ASSUME NEW q \in Seq(Job), q # <<>>
    PROVE  /\ \E k \in 1..Len(q) : Head(q) = q[k]
           /\ \A i \in 1..Len(Tail(q)) : \E k \in 1..Len(q) : Tail(q)[i] = q[k]
<1>1. Len(q) \in Nat /\ Len(q) > 0 /\ Head(q) = q[1] /\ 1 \in 1..Len(q)
  OBVIOUS
<1>2. Len(Tail(q)) = Len(q) - 1
  OBVIOUS
<1>3. ASSUME NEW i \in 1..Len(Tail(q))
      PROVE  i + 1 \in 1..Len(q) /\ Tail(q)[i] = q[i + 1]
  BY <1>1, <1>2
<1> QED BY <1>1, <1>3

\* A job the reaper holds after a step was held before it or taken from the queue.
LEMMA ReaperHolds ==
    ASSUME TypeInv, [Next]_execVars, reaper'.phase # "idle"
    PROVE  \/ reaper.phase # "idle" /\ reaper'.job = reaper.job
           \/ jobs # <<>> /\ reaper'.job = Head(jobs)
<1>0. reaper \in [phase : Phase, job : Job \cup {NoJob}]
  BY DEF TypeInv, ExecTypeOK
<1>1. CASE TakeJob
  BY <1>1 DEF TakeJob, RecoverReplacedFiles, StopReaping
<1>2. CASE InspectDeadJob \/ DecideCrash \/ FailCrashed \/ WithdrawCrashed \/ RetryCrashed
           \/ KillTimedOut \/ FinishTimedOut
  <2>1. \/ reaper' = [phase |-> "idle", job |-> NoJob]
        \/ reaper.phase # "idle" /\ \E p \in Phase : reaper' = [reaper EXCEPT !.phase = p]
    BY <1>2 DEF InspectDeadJob, DecideCrash, FailCrashed, WithdrawCrashed, RetryCrashed,
                KillTimedOut, FinishTimedOut, RecoverReplacedFiles, Goto, StopReaping, Phase
  <2> QED BY <1>0, <2>1
<1>3. CASE RespawnSlot \/ DeferJob
  BY <1>3 DEF RespawnSlot, DeferJob, StopReaping
<1>4. CASE UNCHANGED reaper
  BY <1>4
<1> QED BY <1>1, <1>2, <1>3, <1>4
        DEF Next, ReaperStep, execVars, ClaimLaunch, BindLaunch, ReleaseLaunch, Complete,
            ReportDone, WorkerDies, LeaveBoot, HandleTaskDone, ReserveDeadSlot, Timeout

\* Captured jobs stand, and a job stands from its capture on.
LEMMA StepJobs ==
    ASSUME TypeInv, TypeInv', ExecInv, [Next]_execVars, Frame
    PROVE  JobsStand'
<1>i. RowsAgree /\ JobsStand
  BY DEF ExecInv
<1>t. jobs \in Seq(Job) /\ \A i \in 1..Len(jobs) : jobs[i] \in Job /\ NamesTask(jobs[i])
  BY DEF TypeInv, ExecTypeOK, JobsWellFormed
<1>s. \A job \in Job : NamesTask(job) /\ JobStands(job) => StandsNext(job)
  BY JobStable
<1>1. \A i \in 1..Len(jobs) : StandsNext(jobs[i])
  BY <1>i, <1>t, <1>s DEF JobsStand
<1>2. reaper.phase # "idle" => StandsNext(reaper.job)
  BY <1>i, <1>s DEF JobsStand, TypeInv, JobsWellFormed
<1>3. reaper'.phase # "idle" => StandsNext(reaper'.job)
  <2>1. jobs # <<>> => StandsNext(Head(jobs))
    BY <1>t, <1>1, Taken
  <2> QED BY <1>2, <2>1, ReaperHolds
<1>4. \A i \in 1..Len(jobs') : StandsNext(jobs'[i])
  <2>1. CASE jobs' = jobs
    BY <1>1, <2>1
  <2>2. ASSUME NEW job \in Job, StandsNext(job), jobs' = Append(jobs, job)
        PROVE  \A i \in 1..Len(jobs') : StandsNext(jobs'[i])
    BY <1>t, <1>1, <2>2, Appended
  <2>3. ASSUME NEW s \in Slot, ReserveDeadSlot(s)
        PROVE  \A i \in 1..Len(jobs') : StandsNext(jobs'[i])
    <3> DEFINE w == slots[s]
               job == [kind |-> "dead", slot |-> s, life |-> w.life, task |-> w.busy,
                       row |-> IF w.busy # NoTask /\ running[w.busy] # NoSlot
                               THEN attempt[w.busy] ELSE 0]
    <3>1. w.life \in Nat /\ w.busy \in Task \cup {NoTask}
      BY DEF TypeInv, ExecTypeOK, Worker
    <3>2. job \in Job
      BY <3>1 DEF Job, TypeInv, ExecTypeOK
    <3>3. slots'[s].life = w.life /\ ~slots'[s].alive
      <4>1. slots \in [Slot -> Worker] /\ slots' = [slots EXCEPT ![s].mode = "reaping"]
            /\ ~slots[s].alive
        BY <2>3 DEF ReserveDeadSlot, TypeInv, ExecTypeOK
      <4> QED BY <4>1, SlotFields
    <3>4. StandsNext(job)
      BY <3>1, <3>3 DEF StandsNext
    <3>5. jobs' = Append(jobs, job)
      BY <2>3 DEF ReserveDeadSlot
    <3> HIDE DEF job
    <3> QED BY <2>2, <3>2, <3>4, <3>5
  <2>4. ASSUME NEW t \in Task, Timeout(t)
        PROVE  \A i \in 1..Len(jobs') : StandsNext(jobs'[i])
    <3> DEFINE s == running[t]
               job == [kind |-> "timeout", slot |-> s, life |-> slots[s].life,
                       task |-> t, row |-> attempt[t]]
    <3>1. s \in Slot /\ s # NoSlot /\ slots[s].life \in Nat
      BY <2>4 DEF Timeout, TypeInv, ExecTypeOK, Worker
    <3>2. job \in Job
      BY <3>1 DEF Job, TypeInv, ExecTypeOK
    <3>3. running'[t] = NoSlot /\ t \notin pending'
      BY <1>i, <2>4, <3>1 DEF Timeout, TypeInv, ExecTypeOK, RowsAgree
    <3>4. t \notin pending /\ t # NoTask
      BY <1>i, <3>1, NullTaskAssumption DEF RowsAgree
    <3>5. ASSUME NEW r \in Slot, slots'[r].work = t PROVE r = s
      <4>1. slots[r].work = t
        BY <3>4, <3>5 DEF Frame
      <4> QED BY <1>i, <3>1, <3>4, <4>1 DEF RowsAgree
    <3>6. StandsNext(job)
      BY <3>3, <3>5 DEF StandsNext
    <3>7. jobs' = Append(jobs, job)
      BY <2>4 DEF Timeout
    <3> HIDE DEF job
    <3> QED BY <2>2, <3>2, <3>6, <3>7
  <2>5. CASE DeferJob
    <3>1. reaper.phase # "idle" /\ jobs' = Append(jobs, reaper.job)
      BY <2>5 DEF DeferJob
    <3>2. reaper.job \in Job
      BY <3>1 DEF TypeInv, JobsWellFormed
    <3> QED BY <1>2, <1>t, <1>1, <3>1, <3>2, Appended
  <2>6. CASE TakeJob
    BY <1>t, <1>1, <2>6, Taken DEF TakeJob
  <2> QED BY <2>1, <2>3, <2>4, <2>5, <2>6
          DEF Next, ReaperStep, execVars, ClaimLaunch, BindLaunch, ReleaseLaunch, Complete,
              ReportDone, WorkerDies, LeaveBoot, HandleTaskDone, InspectDeadJob, DecideCrash,
              FailCrashed, WithdrawCrashed, RetryCrashed, RespawnSlot, KillTimedOut, FinishTimedOut
<1> QED BY <1>3, <1>4 DEF JobsStand, JobStands, StandsNext
-----------------------------------------------------------------------------
\* The lane, the workers and the loop do nothing behind the reaper's back.
LEMMA OutsideSteps ==
    ASSUME TypeInv,
           \/ \E t \in Task, s \in Slot :
                 ClaimLaunch(t, s) \/ BindLaunch(t, s) \/ ReleaseLaunch(t, s)
           \/ \E s \in Slot :
                 \/ Complete(s) \/ ReportDone(s) \/ WorkerDies(s) \/ LeaveBoot(s)
                 \/ ReserveDeadSlot(s)
           \/ \E e \in bus : HandleTaskDone(e)
           \/ \E t \in Task : Timeout(t)
    PROVE  OutsideReaper
<1>1. /\ slots \in [Slot -> Worker] /\ result \in [Task -> Outcome]
      /\ running \in [Task -> Slot \cup {NoSlot}]
  BY DEF TypeInv, ExecTypeOK
<1>2. reaper' = reaper /\ pending' \subseteq pending /\ attempt' = attempt
  BY DEF ClaimLaunch, BindLaunch, ReleaseLaunch, Complete, ReportDone, WorkerDies, LeaveBoot,
         ReserveDeadSlot, HandleTaskDone, Timeout
<1>3. \/ slots' = slots
      \/ \E s \in Slot :
           \/ \E v : slots' = [slots EXCEPT ![s].busy = v]
           \/ \E v : slots' = [slots EXCEPT ![s].work = v]
           \/ \E m : slots' = [slots EXCEPT ![s].mode = m]
           \/ \E v, m : slots' = [slots EXCEPT ![s].busy = v, ![s].mode = m]
           \/ \E v : slots' = [slots EXCEPT ![s].alive = FALSE, ![s].work = v]
  <2>1. ASSUME NEW t \in Task, Timeout(t)
        PROVE  \E s \in Slot : slots' = [slots EXCEPT ![s].busy = NoTask, ![s].mode = "reaping"]
    <3>1. running[t] \in Slot
      BY <1>1, <2>1 DEF Timeout
    <3> QED BY <2>1, <3>1 DEF Timeout
  <2>2. ASSUME NEW e \in bus, HandleTaskDone(e)
        PROVE  slots' = slots \/ \E s \in Slot : slots' = [slots EXCEPT ![s].busy = NoTask]
    BY <2>2 DEF HandleTaskDone
  <2>3. ASSUME NEW t \in Task, NEW s \in Slot,
               ClaimLaunch(t, s) \/ BindLaunch(t, s) \/ ReleaseLaunch(t, s)
        PROVE  \/ slots' = slots
               \/ \E v : slots' = [slots EXCEPT ![s].busy = v]
               \/ \E v : slots' = [slots EXCEPT ![s].work = v]
    BY <2>3, Zenon DEF ClaimLaunch, BindLaunch, ReleaseLaunch
  <2>4. ASSUME NEW s \in Slot,
               \/ Complete(s) \/ ReportDone(s) \/ WorkerDies(s) \/ LeaveBoot(s)
               \/ ReserveDeadSlot(s)
        PROVE  \/ slots' = slots
               \/ \E v : slots' = [slots EXCEPT ![s].work = v]
               \/ \E m : slots' = [slots EXCEPT ![s].mode = m]
               \/ \E v : slots' = [slots EXCEPT ![s].alive = FALSE, ![s].work = v]
    BY <2>4, Zenon DEF Complete, ReportDone, WorkerDies, LeaveBoot, ReserveDeadSlot
  <2> QED BY <2>1, <2>2, <2>3, <2>4, Zenon
<1>4. \A r \in Slot : slots'[r].life = slots[r].life
  <2>1. ASSUME NEW s \in Slot, NEW v, NEW m,
               \/ slots' = [slots EXCEPT ![s].busy = v]
               \/ slots' = [slots EXCEPT ![s].work = v]
               \/ slots' = [slots EXCEPT ![s].mode = m]
               \/ slots' = [slots EXCEPT ![s].busy = v, ![s].mode = m]
               \/ slots' = [slots EXCEPT ![s].alive = FALSE, ![s].work = v]
        PROVE  \A r \in Slot : slots'[r].life = slots[r].life
    <3> SUFFICES ASSUME NEW r \in Slot PROVE slots'[r].life = slots[r].life
      OBVIOUS
    <3>1. /\ [slots EXCEPT ![s].busy = v][r].life = slots[r].life
          /\ [slots EXCEPT ![s].work = v][r].life = slots[r].life
          /\ [slots EXCEPT ![s].mode = m][r].life = slots[r].life
          /\ [slots EXCEPT ![s].busy = v, ![s].mode = m][r].life = slots[r].life
          /\ [slots EXCEPT ![s].alive = FALSE, ![s].work = v][r].life = slots[r].life
      BY <1>1, SlotFields
    <3> QED BY <2>1, <3>1, Zenon
  <2>2. CASE slots' = slots
    BY <2>2
  <2> QED BY <1>3, <2>1, <2>2, Zenon
<1>5. ASSUME NEW t \in Task, result'[t] # result[t] PROVE \E s \in Slot : slots[s].work = t
  <2>1. PICK s \in Slot : Complete(s)
    BY <1>5 DEF ClaimLaunch, BindLaunch, ReleaseLaunch, ReportDone, WorkerDies, LeaveBoot,
                ReserveDeadSlot, HandleTaskDone, Timeout
  <2> QED BY <1>1, <1>5, <2>1 DEF Complete, Written
<1> QED BY <1>2, <1>4, <1>5 DEF OutsideReaper

\* The reaper itself goes on only with what it may rely on.
LEMMA ReaperGoesOn ==
    ASSUME TypeInv, RowsAgree, JobsStand, ReaperRelies, ReaperStep \/ DeferJob
    PROVE  ReaperRelies'
<1> DEFINE job == reaper.job
<1>0. reaper \in [phase : Phase, job : Job \cup {NoJob}]
  BY DEF TypeInv, ExecTypeOK
<1>t. /\ slots \in [Slot -> Worker] /\ NoSlot \notin Slot /\ NoTask \notin Task
      /\ result \in [Task -> Outcome]
  BY NullTaskAssumption DEF TypeInv, ExecTypeOK
<1>j. ASSUME reaper.phase \in DeadPhase
      PROVE  job.task \in Task /\ job.slot \in Slot /\ job.kind = "dead" /\ job.row # 0
  BY <1>j DEF TypeInv, JobsWellFormed, NamesTask, DeadPhase, Job
<1>k. ASSUME reaper.phase \in TimeoutPhase
      PROVE  job.task \in Task /\ job.slot \in Slot /\ job.kind = "timeout" /\ JobStands(job)
  BY <1>k DEF TypeInv, JobsWellFormed, JobsStand, NamesTask, TimeoutPhase, Job
<1>1. CASE reaper'.phase \in {"idle", "inspect"}
  BY <1>1 DEF ReaperRelies
<1>2. CASE reaper'.phase = "respawn" /\ reaper'.job.kind = "dead"
  BY <1>2 DEF ReaperRelies
<1>3. CASE TakeJob
  <2>1. \/ reaper'.phase \in {"idle", "inspect"}
        \/ reaper'.phase = "respawn" /\ reaper'.job.kind = "dead"
        \/ reaper'.phase = "kill" /\ slots[reaper'.job.slot].life = reaper'.job.life
    BY <1>3 DEF TakeJob, RecoverReplacedFiles, StopReaping, TimeoutJobCurrent
  <2>2. CASE reaper'.phase = "kill" /\ slots[reaper'.job.slot].life = reaper'.job.life
    <3>1. slots' = slots
      BY <1>3 DEF TakeJob
    <3> QED BY <2>2, <3>1 DEF ReaperRelies
  <2> QED BY <1>1, <1>2, <2>1, <2>2
<1>4. CASE RespawnSlot \/ DeferJob
  <2>1. reaper'.phase = "idle"
    BY <1>4 DEF RespawnSlot, DeferJob, StopReaping
  <2> QED BY <1>1, <2>1
<1>5. CASE WithdrawCrashed \/ RetryCrashed
  <2>1. reaper'.phase = "respawn" /\ reaper'.job = job
    BY <1>0, <1>5 DEF WithdrawCrashed, RetryCrashed, Goto
  <2>2. job.kind = "dead"
    BY <1>5, <1>j DEF WithdrawCrashed, RetryCrashed, DeadPhase
  <2> QED BY <1>2, <2>1, <2>2
<1>6. CASE InspectDeadJob
  <2>1. CASE reaper' = [phase |-> "idle", job |-> NoJob]
    BY <1>1, <2>1
  <2>2. CASE reaper' = [reaper EXCEPT !.phase = "respawn"]
    BY <1>0, <1>2, <1>6, <1>j, <2>2 DEF InspectDeadJob, DeadPhase
  <2>3. CASE reaper' = [reaper EXCEPT !.phase = "policy"] /\ ~Terminal(job.task)
    <3>1. reaper'.phase = "policy" /\ reaper'.job = job /\ result' = result
      BY <1>0, <1>6, <2>3 DEF InspectDeadJob
    <3> QED BY <2>3, <3>1 DEF ReaperRelies, Terminal
  <2> QED BY <1>6, <2>1, <2>2, <2>3 DEF InspectDeadJob, Goto, StopReaping
<1>7. CASE DecideCrash
  <2>0. /\ job.task \in Task /\ job.slot \in Slot /\ job.kind = "dead" /\ job.row # 0
        /\ UNCHANGED <<pending, running, attempt, slots, result>>
    BY <1>7, <1>j DEF DecideCrash, DeadPhase
  <2>1. CASE reaper' = [reaper EXCEPT !.phase = "respawn"]
    BY <1>0, <1>2, <2>0, <2>1
  <2>2. CASE reaper' = [reaper EXCEPT !.phase = "retry"] /\ DeadJobCurrent(job)
    <3>1. reaper'.phase = "retry" /\ reaper'.job = job /\ ~Terminal(job.task)
      BY <1>0, <1>7, <2>2 DEF DecideCrash, ReaperRelies
    <3> QED BY <2>0, <3>1 DEF ReaperRelies, Terminal
  <2>3. CASE reaper' = [reaper EXCEPT !.phase = "fail"] /\ DeadJobCurrent(job)
    <3>1. reaper'.phase = "fail" /\ reaper'.job = job
      BY <1>0, <2>3
    <3>2. running[job.task] = job.slot /\ ~slots[job.slot].alive
      BY <1>t, <2>0, <2>3 DEF DeadJobCurrent
    <3>3. job.task \notin pending /\ \A s \in Slot : slots[s].work # job.task
      BY <1>t, <2>0, <3>2 DEF RowsAgree
    <3> QED BY <2>0, <3>1, <3>3 DEF ReaperRelies, Deserted
  <2> QED BY <1>7, <2>1, <2>2, <2>3 DEF DecideCrash, Goto
<1>8. CASE FailCrashed
  <2>1. reaper'.phase = "withdraw" /\ reaper'.job = job
    BY <1>0, <1>8 DEF FailCrashed, Goto
  <2>2. job.task \in Task
    BY <1>8, <1>j DEF FailCrashed, DeadPhase
  <2>3. result'[job.task] # "none"
    BY <1>8, <1>t, <2>2 DEF FailCrashed, Written, Terminal
  <2> QED BY <2>1, <2>3 DEF ReaperRelies, Terminal
<1>9. CASE KillTimedOut
  <2>0. job.task \in Task /\ job.slot \in Slot /\ job.kind = "timeout" /\ JobStands(job)
    BY <1>9, <1>k DEF KillTimedOut, TimeoutPhase
  <2>1. CASE reaper' = [phase |-> "idle", job |-> NoJob]
    BY <1>1, <2>1
  <2>2. CASE /\ reaper' = [reaper EXCEPT !.phase = "finish"]
             /\ slots' = [slots EXCEPT ![job.slot].alive = FALSE, ![job.slot].work = NoTask]
    <3>1. reaper'.phase = "finish" /\ reaper'.job = job /\ pending' = pending
      BY <1>0, <1>9, <2>2 DEF KillTimedOut
    <3>2. \A r \in Slot : /\ slots'[r].work = IF r = job.slot THEN NoTask ELSE slots[r].work
                          /\ r = job.slot => ~slots'[r].alive
      BY <1>t, <2>0, <2>2, SlotFields
    <3>3. job.task \notin pending /\ \A r \in Slot : slots[r].work = job.task => r = job.slot
      BY <2>0 DEF JobStands
    <3>4. \A r \in Slot : slots'[r].work # job.task
      BY <1>t, <2>0, <3>2, <3>3
    <3> QED BY <2>0, <3>1, <3>2, <3>3, <3>4 DEF ReaperRelies, Deserted
  <2>3. slots[job.slot].life = job.life
    BY <1>9 DEF KillTimedOut, ReaperRelies
  <2> QED BY <1>9, <2>1, <2>2, <2>3 DEF KillTimedOut, Goto, StopReaping
<1>10. CASE FinishTimedOut
  <2>1. CASE reaper' = [phase |-> "idle", job |-> NoJob]
    BY <1>1, <2>1
  <2>2. CASE reaper' = [reaper EXCEPT !.phase = "respawn"]
    <3>1. reaper'.phase = "respawn" /\ reaper'.job = job /\ slots' = slots
      BY <1>0, <1>10, <2>2 DEF FinishTimedOut
    <3>2. ~slots[job.slot].alive
      BY <1>10, <1>k DEF FinishTimedOut, TimeoutPhase, ReaperRelies
    <3> QED BY <3>1, <3>2 DEF ReaperRelies
  <2> QED BY <1>10, <2>1, <2>2 DEF FinishTimedOut, RecoverReplacedFiles, Goto, StopReaping
<1> QED BY <1>3, <1>4, <1>5, <1>6, <1>7, <1>8, <1>9, <1>10 DEF ReaperStep

\* The reaper relies on nothing that a step of anybody breaks.
LEMMA StepRelies ==
    ASSUME TypeInv, ExecInv, [Next]_execVars, Frame
    PROVE  ReaperRelies'
<1>1. RowsAgree /\ JobsStand /\ ReaperRelies
  BY DEF ExecInv
<1>2. CASE UNCHANGED execVars
  BY <1>1, <1>2 DEF execVars, ReaperRelies, DeadJobCurrent, Deserted, Terminal
<1>3. CASE ReaperStep \/ DeferJob
  BY <1>1, <1>3, ReaperGoesOn
<1>4. CASE OutsideReaper
  BY <1>1, <1>4, RelyStable
<1> QED BY <1>2, <1>3, <1>4, OutsideSteps DEF Next

\* A task is failed by the host only when nobody has it, and then nobody gets it.
LEMMA StepVerdicts ==
    ASSUME TypeInv, ExecInv, [Next]_execVars, Frame
    PROVE  VerdictsAreFinal'
<1>i. RowsAgree /\ ReaperRelies /\ VerdictsAreFinal
  BY DEF ExecInv
<1>t. result \in [Task -> Outcome]
  BY DEF TypeInv, ExecTypeOK
<1> SUFFICES ASSUME NEW t \in Task, result'[t] = "failed" PROVE Deserted(t)'
  BY DEF VerdictsAreFinal
<1>1. CASE result[t] = "failed"
  <2>1. Deserted(t) /\ Terminal(t)
    BY <1>1, <1>i DEF VerdictsAreFinal, Terminal
  <2> QED BY <2>1, DesertedStable
<1>2. CASE result[t] # "failed"
  <2>1. CASE FailCrashed \/ FinishTimedOut
    <3>1. t = reaper.job.task
      BY <1>2, <1>t, <2>1 DEF FailCrashed, FinishTimedOut, RecoverReplacedFiles, Written
    <3>2. Deserted(t) /\ pending' = pending
      BY <1>i, <2>1, <3>1 DEF FailCrashed, FinishTimedOut, ReaperRelies
    <3> QED BY <3>2, DesertedStable
  <2>2. CASE \E s \in Slot : Complete(s)
    BY <1>2, <1>t, <2>2 DEF Complete, Written
  <2>3. CASE UNCHANGED result
    BY <1>2, <2>3
  <2> QED BY <2>1, <2>2, <2>3
          DEF Next, ReaperStep, execVars, ClaimLaunch, BindLaunch, ReleaseLaunch, ReportDone,
              WorkerDies, LeaveBoot, HandleTaskDone, ReserveDeadSlot, Timeout, DeferJob,
              TakeJob, InspectDeadJob, DecideCrash, WithdrawCrashed, RetryCrashed,
              RespawnSlot, KillTimedOut
<1> QED BY <1>1, <1>2
-----------------------------------------------------------------------------
\* A started pool satisfies the invariant.
LEMMA InitInv == Init => ExecInv
<1> SUFFICES ASSUME Init PROVE ExecInv
  OBVIOUS
<1>1. \A s \in Slot : slots[s].work = NoTask
  BY DEF Init, FreshWorker
<1>2. RowsAgree
  BY <1>1, NullTaskAssumption DEF Init, RowsAgree, Terminal
<1>3. EventsAreFinal /\ JobsStand /\ ReaperRelies /\ VerdictsAreFinal
  BY DEF Init, EventsAreFinal, JobsStand, ReaperRelies, VerdictsAreFinal
<1> QED BY <1>2, <1>3 DEF ExecInv

\* Every step keeps the invariant, and does nothing the frame forbids.
LEMMA StepInv == TypeInv /\ ExecInv /\ [Next]_execVars => ExecInv' /\ Frame
<1> SUFFICES ASSUME TypeInv, ExecInv, [Next]_execVars PROVE ExecInv' /\ Frame
  OBVIOUS
<1>1. TypeInv'
  BY StepType
<1>2. Frame /\ RowsAgree'
  BY StepRows
<1>3. EventsAreFinal' /\ JobsStand' /\ ReaperRelies' /\ VerdictsAreFinal'
  BY <1>1, <1>2, StepEvents, StepJobs, StepRelies, StepVerdicts
<1> QED BY <1>2, <1>3 DEF ExecInv

\* The inductive invariant: a task is in one place at a time, events and verdicts are
\* final, captured jobs stand, and the reaper's checks hold between its steps.
THEOREM ExecInvariant == Spec => [](TypeInv /\ ExecInv)
<1>1. Init => TypeInv /\ ExecInv
  BY InitType, InitInv
<1>2. (TypeInv /\ ExecInv) /\ [Next]_execVars => (TypeInv /\ ExecInv)'
  BY StepType, StepInv
<1> QED BY <1>1, <1>2, PTL DEF Spec

\* No two processes are ever at one task, however deaths, retries, hard bounds and
\* launches interleave (recover_confirmed_dead_worker, _launch_attempt).
THEOREM NoDoubleExecutionHolds == Spec => []NoDoubleExecution
<1>1. TypeInv /\ ExecInv => NoDoubleExecution
  BY NullTaskAssumption DEF ExecInv, RowsAgree, NoDoubleExecution, TypeInv, ExecTypeOK
<1> QED BY <1>1, ExecInvariant, PTL

\* The host never fails a task that a live process is still at (reap_timed_out_task,
\* _recover_crashed_task_without_terminal).
THEOREM VerdictAfterDeathHolds == Spec => []VerdictAfterDeath
<1>1. ExecInv => VerdictAfterDeath
  BY DEF ExecInv, VerdictsAreFinal, Deserted, VerdictAfterDeath
<1> QED BY <1>1, ExecInvariant, PTL

\* The assignment pass never takes a slot for idle whose process is at work
\* (_release_launch, _handle_task_done).
THEOREM IdleSlotIsIdleHolds == Spec => []IdleSlotIsIdle
<1>1. TypeInv /\ ExecInv => IdleSlotIsIdle
  BY DEF ExecInv, RowsAgree, IdleSlotIsIdle, WorkerReady
<1> QED BY <1>1, ExecInvariant, PTL

\* The loop meets a verdict of the host only after the row was withdrawn
\* (_recover_crashed_task_without_terminal).
THEOREM VerdictFollowsWithdrawalHolds == Spec => []VerdictFollowsWithdrawal
<1>1. ExecInv => VerdictFollowsWithdrawal
  BY DEF ExecInv, EventsAreFinal, VerdictFollowsWithdrawal
<1> QED BY <1>1, ExecInvariant, PTL

\* A stored terminal stands, and what it finished is neither queued nor started again
\* (write_task_result, recover_confirmed_dead_worker).
THEOREM FinishedWorkStands == Spec => FinishedWorkIsNotReplayed
<1> DEFINE Stands == \A t \in Task : Terminal(t) =>
                        /\ result'[t] = result[t]
                        /\ t \notin pending' \ pending
                        /\ running'[t] \in {running[t], NoSlot}
<1>1. TypeInv /\ ExecInv /\ [Next]_execVars => Stands
  <2> SUFFICES ASSUME TypeInv, ExecInv, [Next]_execVars, NEW t \in Task, Terminal(t)
               PROVE  /\ result'[t] = result[t]
                      /\ t \notin pending' \ pending
                      /\ running'[t] \in {running[t], NoSlot}
    OBVIOUS
  <2>1. Frame
    BY StepInv
  <2>2. t \notin pending
    BY DEF ExecInv, RowsAgree
  <2> QED BY <2>1, <2>2 DEF Frame
<1> HIDE DEF Stands
<1>2. Spec => [][Stands]_execVars
  BY <1>1, ExecInvariant, PTL DEF Spec
<1> QED BY <1>2 DEF FinishedWorkIsNotReplayed, Stands

\* A queue row becomes a RUNNING row, a RUNNING row of an unfinished task a queue row, and
\* only a hard bound withdraws a row without either.
LEMMA RowsPassOn ==
    ASSUME TypeInv, ExecInv, [Next]_execVars, NEW t \in Task, ~Terminal(t), timeouts' = timeouts,
           t \in pending \/ running[t] # NoSlot
    PROVE  t \in pending' \/ running'[t] # NoSlot
<1>t. running \in [Task -> Slot \cup {NoSlot}] /\ NoSlot \notin Slot /\ timeouts \in Nat
  BY NullTaskAssumption, LimitAssumption DEF TypeInv, ExecTypeOK
<1>1. ASSUME NEW u \in Task, NEW s \in Slot, BindLaunch(u, s) PROVE t \in pending' \/ running'[t] # NoSlot
  BY <1>1, <1>t DEF BindLaunch
<1>2. ASSUME NEW e \in bus, HandleTaskDone(e) PROVE t \in pending' \/ running'[t] # NoSlot
  <2>1. e.task # t
    BY DEF ExecInv, EventsAreFinal
  <2> QED BY <1>2, <1>t, <2>1 DEF HandleTaskDone
<1>3. ASSUME NEW u \in Task, Timeout(u) PROVE FALSE
  BY <1>3, <1>t DEF Timeout
<1>4. CASE WithdrawCrashed
  <2>1. reaper.job.task # t
    BY <1>4 DEF WithdrawCrashed, ExecInv, ReaperRelies
  <2> QED BY <1>4, <1>t, <2>1 DEF WithdrawCrashed
<1>5. CASE RetryCrashed
  BY <1>5, <1>t DEF RetryCrashed
<1>6. CASE pending' = pending /\ running' = running
  BY <1>6
<1> QED BY <1>1, <1>2, <1>3, <1>4, <1>5, <1>6
        DEF Next, execVars, ClaimLaunch, ReleaseLaunch, Complete, ReportDone, WorkerDies, LeaveBoot,
            ReserveDeadSlot, DeferJob, ReaperStep, TakeJob, InspectDeadJob, DecideCrash, FailCrashed,
            RespawnSlot, KillTimedOut, FinishTimedOut

\* Without hard bounds no crash, retry or race of the reaper with the loop loses a task:
\* the work that is lost is lost at a hard bound (_recover_replaced_timeout_files).
THEOREM CrashesLoseNothing == Spec => [](timeouts = 0 => UnfinishedWorkIsOwned)
<1> DEFINE Kept == timeouts = 0 => \A t \in Task : Terminal(t) \/ t \in pending \/ running[t] # NoSlot
<1>1. Init => Kept
  BY DEF Init
<1>2. TypeInv /\ ExecInv /\ Kept /\ [Next]_execVars => Kept'
  <2> SUFFICES ASSUME TypeInv, ExecInv, Kept, [Next]_execVars, timeouts' = 0, NEW t \in Task
               PROVE  result'[t] # "none" \/ t \in pending' \/ running'[t] # NoSlot
    BY DEF Terminal
  <2>1. timeouts' = timeouts \/ timeouts' = timeouts + 1
    BY DEF Next, execVars, ClaimLaunch, BindLaunch, ReleaseLaunch, Complete, ReportDone, WorkerDies, LeaveBoot,
           HandleTaskDone, ReserveDeadSlot, Timeout, DeferJob, ReaperStep, TakeJob, InspectDeadJob, DecideCrash,
           FailCrashed, WithdrawCrashed, RetryCrashed, RespawnSlot, KillTimedOut, FinishTimedOut
  <2>2. timeouts = 0
    BY <2>1, LimitAssumption DEF TypeInv, ExecTypeOK
  <2>3. Terminal(t) => result'[t] # "none"
    BY StepInv DEF Frame, Terminal
  <2> QED BY <2>2, <2>3, RowsPassOn
<1>3. Kept => (timeouts = 0 => UnfinishedWorkIsOwned)
  BY DEF UnfinishedWorkIsOwned, Owned
<1> HIDE DEF Kept
<1> QED BY <1>1, <1>2, <1>3, ExecInvariant, PTL DEF Spec
=============================================================================
