-------------------------- MODULE CancelCustody_proofs --------------------------
(***************************************************************************)
(* Proofs about CancelCustody, for every pool, set of tasks and bound:     *)
(* custody, the reaper and the supervisor loop on the same rows and slots. *)
(* CustodyInv is the inductive invariant.                                  *)
(***************************************************************************)
EXTENDS CancelCustody, TaskExecutionSafety_proofs

\* The places of an attempt that has a worker in its hands, and that is leaving it.
Held == {"kill", "judge", "write", "settle"}
Leaving == {"publish", "respawn"}

\* A job on the process that is in slot s now.
On(job, s) == job.slot = s /\ job.life = slots[s].life

\* The jobs of the reaper, wherever they are.
AllJobs == {jobs[i] : i \in 1..Len(jobs)} \cup deferred
           \cup (IF reaper.phase = "idle" THEN {} ELSE {reaper.job})

NoJobOn(s) == \A job \in AllJobs : ~On(job, s)

-----------------------------------------------------------------------------
\* The type invariant, with what the types alone do not say.
TypesInv ==
    /\ TypeInv
    /\ CustodyTypeOK
    /\ \A t \in Task : attempt[t] # 0
    /\ reaper.phase = "idle" => reaper.job = NoJob
    /\ \A job \in deferred : NamesTask(job)
    /\ \A t \in Task : custody[t].pc \in Held \cup Leaving => custody[t].slot \in Slot

\* Queue rows, RUNNING rows and processes.  Unlike in TaskExecution a launch claim may
\* outlive its queue row, and a RUNNING row its process.
CustodyRows ==
    /\ \A t \in Task :
          /\ running[t] # NoSlot => t \notin pending
          /\ running[t] # NoSlot => slots[running[t]].busy = t \/ Terminal(t)
          /\ launch[t] # NoSlot => running[t] = NoSlot /\ \A s \in Slot : slots[s].work # t
    /\ \A s \in Slot : slots[s].work # NoTask =>
          /\ slots[s].alive
          /\ slots[s].work \notin pending
          /\ running[slots[s].work] \in {s, NoSlot}
          /\ slots[s].mode # "booting"
          /\ slots[s].mode = "open" => slots[s].busy = slots[s].work
    /\ \A s, r \in Slot :
          (slots[s].work # NoTask /\ slots[s].work = slots[r].work) => s = r

\* What an attempt knows of its task.
Placed(t) ==
    /\ custody[t].settled => Terminal(t)
    /\ custody[t].pc \in {"settle", "dropped", "missed"} \cup Leaving => Terminal(t)
    /\ custody[t].pc \in {"capture", "pending", "dropped", "miss", "missed"} \cup Held => stop[t] = "claimed"
    /\ \/ custody[t].pc \in {"pending", "dropped", "missed"}
       \/ custody[t].pc = "miss" /\ ~Terminal(t)
       => t \notin pending /\ running[t] = NoSlot
    /\ custody[t].pc = "pending" => \A s \in Slot : slots[s].work # t

Places == \A t \in Task : Placed(t)

\* A worker in custody: bound to the task, reserved, and nobody else's.
CapturedWorker(t) ==
    LET w == slots[custody[t].slot] IN
    /\ SameWorker(t)
    /\ w.busy = t
    /\ w.mode = "reaping"
    /\ w.work \in {t, NoTask}
    /\ custody[t].pc # "kill" => ~w.alive
    /\ NoJobOn(custody[t].slot)

\* A worker custody is done with: it is dead, and still custody's or nobody's.
LeftWorker(t) ==
    LET w == slots[custody[t].slot] IN
    /\ custody[t].life <= w.life
    /\ SameWorker(t) =>
          /\ ~w.alive
          /\ \/ w.busy = NoTask
             \/ w.busy = t /\ w.mode = "reaping" /\ NoJobOn(custody[t].slot)

Captures ==
    \A t \in Task : /\ custody[t].pc \in Held => CapturedWorker(t)
                    /\ custody[t].pc \in Leaving => LeftWorker(t)

\* What stays true of a job, whatever custody does meanwhile.
JobHolds(job) ==
    LET w == slots[job.slot] IN
    /\ job.life <= w.life
    /\ job.kind = "dead" /\ job.life = w.life =>
          /\ ~w.alive
          /\ w.busy \in {job.task, NoTask}
          /\ job.task # NoTask /\ running[job.task] = job.slot => attempt[job.task] = job.row
    /\ job.kind = "timeout" =>
          /\ job.row # 0
          /\ running[job.task] = NoSlot
          /\ job.task \notin pending
          /\ custody[job.task].pc # "pending"
          /\ job.life = w.life => w.busy = NoTask /\ (w.mode = "reaping" \/ ~w.alive)

JobsHold == \A job \in AllJobs : JobHolds(job)

\* What the reaper may rely on between two of its critical sections.
ReaperKnows ==
    LET job == reaper.job IN
    /\ reaper.phase = "withdraw" => Terminal(job.task)
    /\ reaper.phase \in {"finish", "respawn"} /\ On(job, job.slot) => ~slots[job.slot].alive
    /\ reaper.phase = "respawn" /\ On(job, job.slot) =>
          \A u \in Task : running[u] = job.slot => Terminal(u)

\* A worker that is bound to a task is the subject of one job at most, and outside a
\* teardown of none: in the queue, in the reaper's hands, or retained.
OneJob(s) ==
    /\ \A i, j \in 1..Len(jobs) : On(jobs[i], s) /\ On(jobs[j], s) => i = j
    /\ \A i \in 1..Len(jobs) : On(reaper.job, s) => ~On(jobs[i], s)
    /\ \A job \in deferred \ replaying : On(job, s) =>
          ~On(reaper.job, s) /\ \A i \in 1..Len(jobs) : ~On(jobs[i], s)
    /\ \A job, other \in deferred : On(job, s) /\ On(other, s) => job = other
    /\ \A job \in replaying : On(job, s) =>
          job = reaper.job \/ \E i \in 1..Len(jobs) : job = jobs[i]
    /\ slots[s].mode # "reaping" => NoJobOn(s)

BoundWorkers == \A s \in Slot : slots[s].busy # NoTask => OneJob(s)

\* The task is queued, or about to be queued again.
Back(t) ==
    \/ t \in pending
    \/ custody[t].pc = "pending"
    \/ /\ reaper.phase \in {"policy", "retry"}
       /\ reaper.job.task = t
       /\ running[t] = reaper.job.slot
       /\ On(reaper.job, reaper.job.slot)

\* An event tells of a terminal; an unstamped one of a withdrawn row, too, and one that
\* names a slot of a process that left the task: in both cases the task does not come back.
EventHolds(e) ==
    /\ Terminal(e.task)
    /\ e.by = "host" => e.attempt = 0
    /\ e.attempt = 0 => running[e.task] = NoSlot
    /\ e.slot \in Slot => slots[e.slot].work # e.task
    /\ e.slot \in Slot \/ e.attempt = 0 => ~Back(e.task)

EventsHold == \A e \in bus : EventHolds(e)

CustodyInv ==
    /\ TypesInv
    /\ CustodyRows
    /\ Places
    /\ Captures
    /\ JobsHold
    /\ ReaperKnows
    /\ BoundWorkers
    /\ EventsHold

-----------------------------------------------------------------------------
\* A started pool has no custody, and is well formed.
LEMMA CustodyInitTypes == CustodyInit => TypesInv
<1> SUFFICES ASSUME CustodyInit PROVE TypesInv
  OBVIOUS
<1>1. TypeInv
  BY InitType DEF CustodyInit
<1>2. NoCustody \in Attempt
  BY DEF NoCustody, Attempt
<1>3. CustodyTypeOK
  BY <1>1, <1>2, StopAssumption DEF CustodyInit, CustodyTypeOK, TypeInv
<1>4. \A t \in Task : custody[t].pc = "none" /\ attempt[t] = 1
  BY DEF CustodyInit, NoCustody, Init
<1>5. reaper.job = NoJob /\ deferred = {}
  BY DEF CustodyInit, Init
<1> QED BY <1>1, <1>3, <1>4, <1>5 DEF TypesInv, Held, Leaving

\* The steps of the supervisor and of the reaper are steps of task execution.
LEMMA ExecutionSteps ==
    ASSUME SupervisorStep \/ ReapStep
    PROVE  Next
<1>1. ASSUME SupervisorStep PROVE Next
  BY <1>1 DEF SupervisorStep, Next
<1>2. ASSUME ReapStep PROVE Next
  BY <1>2 DEF ReapStep, Next
<1> QED BY <1>1, <1>2

\* A step of custody: what it leaves of the supervisor's variables is well formed.
LEMMA CustodyKeepsJobs ==
    ASSUME TypeInv, UNCHANGED <<jobs, reaper>>, ExecTypeOK'
    PROVE  TypeInv'
BY DEF TypeInv, JobsWellFormed, NamesTask

\* Whoever has a worker in its hands, or is leaving it, names its slot.
NameSlots(c) ==
    /\ c \in [Task -> Attempt]
    /\ \A t \in Task : c[t].pc \in Held \cup Leaving => c[t].slot \in Slot

Step == {"none", "claim", "capture", "kill", "judge", "write", "settle", "publish",
         "respawn", "pending", "dropped", "miss", "missed"}

\* The fields of the attempts after each kind of update, and their types.
LEMMA AttemptEnds ==
    ASSUME NameSlots(custody), NEW t \in Task
    PROVE  LET f == [custody EXCEPT ![t] = NoCustody] IN
           /\ NameSlots(f)
           /\ f[t] = NoCustody /\ \A u \in Task \ {t} : f[u] = custody[u]
<1>1. NoCustody \in Attempt /\ NoCustody.pc = "none"
  BY DEF NoCustody, Attempt
<1> QED BY <1>1 DEF NameSlots, Held, Leaving

LEMMA AttemptBegins ==
    ASSUME NameSlots(custody), NEW t \in Task
    PROVE  LET f == [custody EXCEPT ![t] = [NoCustody EXCEPT !.pc = "claim", !.settled = Terminal(t)]] IN
           /\ NameSlots(f)
           /\ f[t].pc = "claim" /\ f[t].settled = Terminal(t)
           /\ \A u \in Task \ {t} : f[u] = custody[u]
<1>0. PICK c : c = [NoCustody EXCEPT !.pc = "claim", !.settled = Terminal(t)]
  OBVIOUS
<1>1. c \in Attempt /\ c.pc = "claim" /\ c.settled = Terminal(t)
  BY <1>0 DEF NoCustody, Attempt, Terminal
<1>2. NameSlots([custody EXCEPT ![t] = c])
  BY <1>1 DEF NameSlots, Held, Leaving
<1> QED BY <1>0, <1>1, <1>2 DEF NameSlots

LEMMA AttemptMoves ==
    ASSUME NameSlots(custody), NEW t \in Task, NEW pc \in Step,
           pc \in Held \cup Leaving => custody[t].pc \in Held \cup Leaving
    PROVE  LET f == [custody EXCEPT ![t].pc = pc] IN
           /\ NameSlots(f)
           /\ f[t].pc = pc /\ f[t].slot = custody[t].slot
           /\ f[t].life = custody[t].life /\ f[t].settled = custody[t].settled
           /\ \A u \in Task \ {t} : f[u] = custody[u]
<1>1. custody[t] \in Attempt /\ (custody[t].pc \in Held \cup Leaving => custody[t].slot \in Slot)
  BY DEF NameSlots
<1>0. PICK c : c = [custody[t] EXCEPT !.pc = pc]
  OBVIOUS
<1>2. /\ c \in Attempt /\ c.pc = pc /\ c.slot = custody[t].slot
      /\ c.life = custody[t].life /\ c.settled = custody[t].settled
  BY <1>0, <1>1 DEF Attempt, Step
<1>3. NameSlots([custody EXCEPT ![t] = c])
  BY <1>1, <1>2 DEF NameSlots
<1> QED BY <1>0, <1>2, <1>3 DEF NameSlots

LEMMA AttemptCaptures ==
    ASSUME NameSlots(custody), NEW t \in Task, NEW s \in Slot, slots[s].life \in Nat
    PROVE  LET f == [custody EXCEPT ![t].pc = "kill", ![t].slot = s, ![t].life = slots[s].life] IN
           /\ NameSlots(f)
           /\ f[t].pc = "kill" /\ f[t].slot = s /\ f[t].life = slots[s].life
           /\ f[t].settled = custody[t].settled
           /\ \A u \in Task \ {t} : f[u] = custody[u]
<1>1. custody[t] \in Attempt
  BY DEF NameSlots
<1>0. PICK c : c = [custody[t] EXCEPT !.pc = "kill", !.slot = s, !.life = slots[s].life]
  OBVIOUS
<1>2. /\ c \in Attempt /\ c.pc = "kill" /\ c.slot = s
      /\ c.life = slots[s].life /\ c.settled = custody[t].settled
  BY <1>0, <1>1 DEF Attempt
<1>3. NameSlots([custody EXCEPT ![t] = c])
  BY <1>2 DEF NameSlots
<1>4. [custody EXCEPT ![t].pc = "kill", ![t].slot = s, ![t].life = slots[s].life] = [custody EXCEPT ![t] = c]
  BY <1>0, <1>1 DEF NameSlots, Attempt
<1> QED BY <1>2, <1>3, <1>4 DEF NameSlots

LEMMA AttemptOwes ==
    ASSUME NameSlots(custody), NEW t \in Task, NEW b \in BOOLEAN, custody[t].pc \in Held
    PROVE  LET f == [custody EXCEPT ![t].pc = "settle", ![t].owed = b] IN
           /\ NameSlots(f)
           /\ f[t].pc = "settle" /\ f[t].slot = custody[t].slot
           /\ f[t].life = custody[t].life /\ f[t].settled = custody[t].settled
           /\ \A u \in Task \ {t} : f[u] = custody[u]
<1>1. custody[t] \in Attempt /\ custody[t].slot \in Slot
  BY DEF NameSlots
<1>0. PICK c : c = [custody[t] EXCEPT !.pc = "settle", !.owed = b]
  OBVIOUS
<1>2. /\ c \in Attempt /\ c.pc = "settle" /\ c.slot = custody[t].slot
      /\ c.life = custody[t].life /\ c.settled = custody[t].settled
  BY <1>0, <1>1 DEF Attempt
<1>3. NameSlots([custody EXCEPT ![t] = c])
  BY <1>1, <1>2 DEF NameSlots
<1>4. [custody EXCEPT ![t].pc = "settle", ![t].owed = b] = [custody EXCEPT ![t] = c]
  BY <1>0, <1>1 DEF NameSlots, Attempt
<1> QED BY <1>2, <1>3, <1>4 DEF NameSlots

LEMMA AttemptMisses ==
    ASSUME NameSlots(custody), NEW t \in Task, NEW b \in BOOLEAN
    PROVE  LET f == [custody EXCEPT ![t].pc = "missed", ![t].quiet = b] IN
           /\ NameSlots(f)
           /\ f[t].pc = "missed" /\ f[t].settled = custody[t].settled
           /\ \A u \in Task \ {t} : f[u] = custody[u]
<1>1. custody[t] \in Attempt
  BY DEF NameSlots
<1>0. PICK c : c = [custody[t] EXCEPT !.pc = "missed", !.quiet = b]
  OBVIOUS
<1>2. c \in Attempt /\ c.pc = "missed" /\ c.settled = custody[t].settled
  BY <1>0, <1>1 DEF Attempt
<1>3. NameSlots([custody EXCEPT ![t] = c])
  BY <1>2 DEF NameSlots, Held, Leaving
<1>4. [custody EXCEPT ![t].pc = "missed", ![t].quiet = b] = [custody EXCEPT ![t] = c]
  BY <1>0, <1>1 DEF NameSlots, Attempt
<1> QED BY <1>2, <1>3, <1>4 DEF NameSlots

\* What an attempt may do to the variables it shares, and to its own, without
\* spoiling their types.
LEMMA CustodyTypesKept ==
    ASSUME TypesInv, UNCHANGED <<launch, attempt, jobs, reaper, resolved, timeouts, deferred, replaying>>,
           stops' \in 0..MaxStop, faults' = faults \/ Fault, pending' \subseteq Task,
           running' \in [Task -> Slot \cup {NoSlot}], slots' \in [Slot -> Worker],
           result' \in [Task -> Outcome], bus' \subseteq Event,
           stop' \in [Task -> {"none", "open", "claimed"}], NameSlots(custody')
    PROVE  TypesInv'
<1>1. faults' \in 0..MaxFault
  BY LimitAssumption DEF Fault, TypesInv, TypeInv, ExecTypeOK
<1>2. ExecTypeOK'
  BY <1>1 DEF TypesInv, TypeInv, ExecTypeOK
<1>3. TypeInv'
  BY <1>2, CustodyKeepsJobs DEF TypesInv
<1>4. CustodyTypeOK'
  BY <1>2 DEF TypesInv, CustodyTypeOK, NameSlots
<1> QED BY <1>3, <1>4 DEF TypesInv, NamesTask, NameSlots

\* The event of a cancellation is an event.
LEMMA CancelEvent ==
    ASSUME NEW t \in Task
    PROVE  CancelDone(t) \in Event
BY DEF CancelDone, Event

\* Every update of the captured slot leaves workers in the pool.
LEMMA CapturedUpdates ==
    ASSUME TypesInv, NEW t \in Task, custody[t].slot \in Slot
    PROVE  /\ SlotRestored(t) \in [Slot -> Worker]
           /\ [slots EXCEPT ![custody[t].slot].alive = FALSE, ![custody[t].slot].work = NoTask]
                 \in [Slot -> Worker]
           /\ [slots EXCEPT ![custody[t].slot] = FreshWorker(@.life + 1)] \in [Slot -> Worker]
<1>0. PICK s \in Slot : s = custody[t].slot
  OBVIOUS
<1>1. slots \in [Slot -> Worker] /\ "open" \in Mode
  BY DEF TypesInv, TypeInv, ExecTypeOK, Mode
<1>2. /\ [slots EXCEPT ![s].mode = "open"] \in [Slot -> Worker]
      /\ [slots EXCEPT ![s].alive = FALSE, ![s].work = NoTask] \in [Slot -> Worker]
      /\ [slots EXCEPT ![s] = FreshWorker(@.life + 1)] \in [Slot -> Worker]
  BY <1>1, SlotUpdates
<1> QED BY <1>0, <1>1, <1>2 DEF SlotRestored

\* Custody keeps everything well formed.
LEMMA CustodyStepTypes ==
    ASSUME TypesInv, NEW t \in Task, RequestStop(t) \/ CustodyStep(t) \/ DropCancelledPending(t)
    PROVE  TypesInv'
<1>t. /\ pending \subseteq Task /\ running \in [Task -> Slot \cup {NoSlot}]
      /\ slots \in [Slot -> Worker] /\ \A s \in Slot : slots[s].life \in Nat
      /\ result \in [Task -> Outcome] /\ bus \subseteq Event
      /\ stop \in [Task -> {"none", "open", "claimed"}] /\ custody \in [Task -> Attempt]
      /\ stops \in 0..MaxStop
  BY DEF TypesInv, TypeInv, ExecTypeOK, CustodyTypeOK, Worker
<1>s. NameSlots(custody)
  BY <1>t DEF TypesInv, NameSlots
<1>w. Written(t, "cancelled") \in [Task -> Outcome]
  BY <1>t, WrittenType DEF Outcome
<1>n. EndCustody(t) => NameSlots(custody')
  BY <1>s, AttemptEnds DEF EndCustody
<1>e. ReleaseStop(t) => stop' \in [Task -> {"none", "open", "claimed"}] /\ NameSlots(custody')
  BY <1>t, <1>n DEF ReleaseStop
<1>p. ASSUME NEW pc \in Step \ (Held \cup Leaving), Proceed(t, pc) PROVE NameSlots(custody')
  BY <1>p, <1>s, AttemptMoves DEF Proceed
<1>h. ASSUME NEW pc \in Step, Proceed(t, pc), custody[t].pc \in Held \cup Leaving
      PROVE  NameSlots(custody')
  BY <1>h, <1>s, AttemptMoves DEF Proceed
<1>o. ASSUME NEW owed \in BOOLEAN, custody[t].pc \in Held,
             custody' = [custody EXCEPT ![t].pc = "settle", ![t].owed = owed]
      PROVE  NameSlots(custody')
  BY <1>o, <1>s, AttemptOwes
<1>1. CASE RequestStop(t)
  BY <1>1, <1>t, <1>s, StopAssumption, CustodyTypesKept DEF RequestStop, execVars
<1>2. CASE BeginCustody(t)
  <2>1. NameSlots(custody')
    BY <1>2, <1>s, AttemptBegins DEF BeginCustody
  <2> QED BY <1>2, <1>t, <2>1, CustodyTypesKept DEF BeginCustody, execVars
<1>3. CASE ClaimStop(t)
  <2>1. NameSlots(custody')
    BY <1>3, <1>n, <1>p DEF ClaimStop, Step, Held, Leaving
  <2>2. stop' \in [Task -> {"none", "open", "claimed"}]
    BY <1>3, <1>t DEF ClaimStop
  <2> QED BY <1>3, <1>t, <2>1, <2>2, CustodyTypesKept DEF ClaimStop, execVars
<1>4. CASE Capture(t)
  <2>1. ASSUME NEW s \in Slot,
               custody' = [custody EXCEPT ![t].pc = "kill", ![t].slot = s, ![t].life = slots[s].life]
        PROVE  NameSlots(custody')
    <3>1. slots[s].life \in Nat
      BY <1>t
    <3> QED BY <2>1, <3>1, <1>s, AttemptCaptures
  <2>2. \A s \in Slot : [slots EXCEPT ![s].mode = "reaping"] \in [Slot -> Worker]
    BY <1>t, SlotUpdates DEF Mode
  <2>3. /\ NameSlots(custody')
        /\ stop' \in [Task -> {"none", "open", "claimed"}]
        /\ slots' \in [Slot -> Worker]
    <3>1. CASE ReleaseStop(t) /\ UNCHANGED slots
      BY <3>1, <1>e, <1>t
    <3>2. CASE Proceed(t, "pending") /\ UNCHANGED <<slots, stop>>
      BY <3>2, <1>p, <1>t DEF Step, Held, Leaving
    <3>3. CASE Proceed(t, "miss") /\ UNCHANGED <<slots, stop>>
      BY <3>3, <1>p, <1>t DEF Step, Held, Leaving
    <3>4. CASE \E s \in Slot :
                 /\ custody' = [custody EXCEPT ![t].pc = "kill", ![t].slot = s, ![t].life = slots[s].life]
                 /\ slots' = [slots EXCEPT ![s].mode = "reaping"]
                 /\ UNCHANGED stop
      <4>1. PICK s \in Slot :
              /\ custody' = [custody EXCEPT ![t].pc = "kill", ![t].slot = s, ![t].life = slots[s].life]
              /\ slots' = [slots EXCEPT ![s].mode = "reaping"]
        BY <3>4
      <4>2. NameSlots(custody')
        BY <4>1, <2>1
      <4> QED BY <3>4, <4>1, <4>2, <2>2, <1>t
    <3> QED BY <1>4, <3>1, <3>2, <3>3, <3>4 DEF Capture
  <2> QED BY <1>4, <1>t, <2>3, CustodyTypesKept DEF Capture
<1>c. custody[t].pc \in Held \cup Leaving => custody[t].slot \in Slot
  BY <1>s DEF NameSlots
<1>r. custody[t].slot \in Slot => SlotRestored(t) \in [Slot -> Worker]
  BY CapturedUpdates
<1>5. CASE KillStopped(t)
  <2>0. custody[t].slot \in Slot /\ custody[t].pc \in Held
    BY <1>5, <1>c DEF KillStopped, At, Held
  <2>1. CASE Proceed(t, "judge") /\ UNCHANGED <<stop, faults>>
    <3>1. slots' \in [Slot -> Worker]
      <4>1. \/ slots' = slots
            \/ slots' = [slots EXCEPT ![custody[t].slot].alive = FALSE, ![custody[t].slot].work = NoTask]
            \/ slots' = SlotRestored(t)
        BY <1>5 DEF KillStopped
      <4> QED BY <1>t, <2>0, <4>1, CapturedUpdates, Zenon
    <3>2. NameSlots(custody')
      BY <1>h, <2>0, <2>1 DEF Step
    <3> QED BY <1>5, <1>t, <2>1, <3>1, <3>2, CustodyTypesKept DEF KillStopped
  <2>2. CASE Fault /\ slots' = SlotRestored(t) /\ ReleaseStop(t)
    BY <1>5, <1>t, <1>e, <1>r, <2>0, <2>2, CustodyTypesKept DEF KillStopped
  <2> QED BY <1>5, <2>1, <2>2 DEF KillStopped
<1>6. CASE JudgeStopped(t)
  <2>0. custody[t].slot \in Slot /\ custody[t].pc \in Held
    BY <1>6, <1>c DEF JudgeStopped, At, Held
  <2>1. CASE UNCHANGED <<slots, stop>> /\ \E owed \in BOOLEAN :
                custody' = [custody EXCEPT ![t].pc = "settle", ![t].owed = owed]
    BY <1>6, <1>t, <1>o, <2>0, <2>1, CustodyTypesKept DEF JudgeStopped
  <2>2. CASE UNCHANGED <<slots, stop>> /\ Proceed(t, "write")
    <3>1. NameSlots(custody')
      BY <1>h, <2>0, <2>2 DEF Step
    <3> QED BY <1>6, <1>t, <2>2, <3>1, CustodyTypesKept DEF JudgeStopped
  <2>3. CASE Fault /\ slots' = SlotRestored(t) /\ ReleaseStop(t)
    BY <1>6, <1>t, <1>e, <1>r, <2>0, <2>3, CustodyTypesKept DEF JudgeStopped
  <2> QED BY <1>6, <2>1, <2>2, <2>3 DEF JudgeStopped
<1>7. CASE WriteCancelled(t)
  <2>0. custody[t].slot \in Slot /\ custody[t].pc \in Held
    BY <1>7, <1>c DEF WriteCancelled, At, Held
  <2>1. CASE /\ UNCHANGED <<slots, stop>> /\ result' = Written(t, "cancelled")
             /\ \E owed \in BOOLEAN :
                   custody' = [custody EXCEPT ![t].pc = "settle", ![t].owed = owed]
    BY <1>7, <1>t, <1>o, <1>w, <2>0, <2>1, CustodyTypesKept DEF WriteCancelled
  <2>2. CASE Fault /\ slots' = SlotRestored(t) /\ ReleaseStop(t) /\ UNCHANGED result
    BY <1>7, <1>t, <1>e, <1>r, <2>0, <2>2, CustodyTypesKept DEF WriteCancelled
  <2> QED BY <1>7, <2>1, <2>2 DEF WriteCancelled
<1>8. CASE SettleStop(t)
  <2>1. NameSlots(custody')
    BY <1>8, <1>h DEF SettleStop, At, Held, Step
  <2> QED BY <1>8, <1>t, <2>1, CustodyTypesKept DEF SettleStop, execVars
<1>9. CASE PublishStopped(t)
  <2>1. NameSlots(custody')
    BY <1>9, <1>h DEF PublishStopped, At, Leaving, Step
  <2>2. bus' \subseteq Event /\ running' \in [Task -> Slot \cup {NoSlot}]
    BY <1>9, <1>t, CancelEvent DEF PublishStopped
  <2> QED BY <1>9, <1>t, <2>1, <2>2, CustodyTypesKept DEF PublishStopped
<1>10. CASE RespawnStopped(t)
  <2>0. custody[t].slot \in Slot
    BY <1>10, <1>c DEF RespawnStopped, At, Leaving
  <2>1. slots' \in [Slot -> Worker]
    <3>1. \/ slots' = slots
          \/ slots' = [slots EXCEPT ![custody[t].slot] = FreshWorker(@.life + 1)]
          \/ slots' = SlotRestored(t)
      BY <1>10 DEF RespawnStopped
    <3> QED BY <1>t, <2>0, <3>1, CapturedUpdates, Zenon
  <2> QED BY <1>10, <1>t, <1>n, <2>1, CustodyTypesKept DEF RespawnStopped
<1>11. CASE WritePending(t)
  <2>1. CASE result' = Written(t, "cancelled") /\ Terminal(t) /\ UNCHANGED <<pending, faults>>
             /\ stop' = [stop EXCEPT ![t] = "none"] /\ EndCustody(t)
    BY <1>11, <1>t, <1>n, <1>w, <2>1, CustodyTypesKept DEF WritePending
  <2>2. CASE result' = Written(t, "cancelled") /\ UNCHANGED <<pending, faults>>
             /\ Proceed(t, "dropped") /\ UNCHANGED stop
    <3>1. NameSlots(custody')
      BY <1>p, <2>2 DEF Step, Held, Leaving
    <3> QED BY <1>11, <1>t, <1>w, <2>2, <3>1, CustodyTypesKept DEF WritePending
  <2>3. CASE Fault /\ pending' = pending \cup {t} /\ ReleaseStop(t) /\ UNCHANGED result
    BY <1>11, <1>t, <1>e, <2>3, CustodyTypesKept DEF WritePending
  <2> QED BY <1>11, <2>1, <2>2, <2>3 DEF WritePending
<1>12. CASE PublishPending(t)
  <2>1. bus' \subseteq Event
    BY <1>12, <1>t, CancelEvent DEF PublishPending
  <2> QED BY <1>12, <1>t, <1>n, <2>1, CustodyTypesKept DEF PublishPending
<1>13. CASE FinalizeOnMiss(t)
  <2>0. SettleOrReopen(t) => /\ stop' \in [Task -> {"none", "open", "claimed"}]
                             /\ faults' = faults \/ Fault
    BY <1>t DEF SettleOrReopen
  <2>1. CASE SettleOrReopen(t) /\ EndCustody(t) /\ UNCHANGED result
    BY <1>13, <1>t, <1>n, <2>0, <2>1, CustodyTypesKept DEF FinalizeOnMiss
  <2>2. CASE ReleaseStop(t) /\ (UNCHANGED faults \/ Fault) /\ UNCHANGED result
    BY <1>13, <1>t, <1>e, <2>2, CustodyTypesKept DEF FinalizeOnMiss
  <2>3. CASE /\ result' = Written(t, "cancelled")
             /\ custody' = [custody EXCEPT ![t].pc = "missed",
                                           ![t].quiet = \E job \in deferred : job.task = t]
             /\ UNCHANGED <<stop, faults>>
    <3>0. PICK q \in BOOLEAN : q = (\E job \in deferred : job.task = t)
      OBVIOUS
    <3>1. custody' = [custody EXCEPT ![t].pc = "missed", ![t].quiet = q]
      BY <2>3, <3>0
    <3>2. NameSlots(custody')
      BY <1>s, <3>1, AttemptMisses
    <3> QED BY <1>13, <1>t, <1>w, <2>3, <3>2, CustodyTypesKept DEF FinalizeOnMiss
  <2> QED BY <1>13, <2>1, <2>2, <2>3 DEF FinalizeOnMiss
<1>14. CASE PublishMiss(t)
  <2>0. stop' \in [Task -> {"none", "open", "claimed"}] /\ (faults' = faults \/ Fault)
    BY <1>14, <1>t DEF PublishMiss, SettleOrReopen
  <2>1. bus' \subseteq Event
    BY <1>14, <1>t, CancelEvent DEF PublishMiss
  <2> QED BY <1>14, <1>t, <1>n, <2>0, <2>1, CustodyTypesKept DEF PublishMiss
<1>15. CASE DropCancelledPending(t)
  <2>1. bus' \subseteq Event
    BY <1>15, <1>t, CancelEvent DEF DropCancelledPending
  <2> QED BY <1>15, <1>t, <1>s, <1>w, <2>1, CustodyTypesKept DEF DropCancelledPending
<1> QED BY <1>1, <1>2, <1>3, <1>4, <1>5, <1>6, <1>7, <1>8, <1>9, <1>10, <1>11, <1>12, <1>13,
           <1>14, <1>15 DEF CustodyStep

\* The reaper's job stays the same, is put down, or was the head of the queue.
LEMMA ReaperMovesOn ==
    ASSUME TypesInv, ReaperStep
    PROVE  \/ /\ reaper.phase # "idle"
              /\ jobs' = jobs
              /\ \/ reaper'.phase \in Phase \ {"idle"} /\ reaper'.job = reaper.job
                 \/ reaper'.phase = "idle" /\ reaper'.job = NoJob
           \/ /\ reaper.phase = "idle" /\ jobs # <<>> /\ jobs' = Tail(jobs)
              /\ \/ reaper'.phase \in {"respawn", "inspect", "kill"} /\ reaper'.job = Head(jobs)
                 \/ reaper'.phase = "idle" /\ reaper'.job = NoJob
<1>0. reaper \in [phase : Phase, job : Job \cup {NoJob}] /\ (reaper.phase = "idle" => reaper.job = NoJob)
  BY DEF TypesInv, TypeInv, ExecTypeOK
<1>1. CASE TakeJob
  BY <1>0, <1>1 DEF TakeJob, RecoverReplacedFiles, StopReaping
<1>2. CASE InspectDeadJob \/ DecideCrash \/ FailCrashed \/ WithdrawCrashed \/ RetryCrashed
           \/ KillTimedOut \/ FinishTimedOut \/ RespawnSlot
  <2>1. /\ reaper.phase # "idle" /\ jobs' = jobs
        /\ \/ reaper' = [phase |-> "idle", job |-> NoJob]
           \/ \E p \in Phase \ {"idle"} : reaper' = [reaper EXCEPT !.phase = p]
    BY <1>2 DEF InspectDeadJob, DecideCrash, FailCrashed, WithdrawCrashed, RetryCrashed, RespawnSlot,
                KillTimedOut, FinishTimedOut, RecoverReplacedFiles, Goto, StopReaping, Phase
  <2> QED BY <1>0, <2>1
<1> QED BY <1>1, <1>2 DEF ReaperStep

\* The steps of the supervisor and the reaper keep everything well formed.
LEMMA ExecutionStepTypes ==
    ASSUME TypesInv, SupervisorStep \/ ReapStep
    PROVE  TypesInv'
<1>t. TypeInv /\ CustodyTypeOK /\ \A t \in Task : attempt[t] \in Nat /\ attempt[t] # 0
  BY DEF TypesInv, TypeInv, ExecTypeOK
<1>1. TypeInv'
  BY <1>t, ExecutionSteps, StepType
<1>2. UNCHANGED <<stop, custody, stops>> /\ deferred' \subseteq deferred /\ replaying' \subseteq deferred'
  BY <1>t DEF SupervisorStep, ReapStep, custodyVars, CustodyTypeOK
<1>3. CustodyTypeOK'
  BY <1>t, <1>1, <1>2 DEF CustodyTypeOK, TypeInv
<1>4. \A t \in Task : attempt'[t] # 0
  <2>1. CASE SupervisorStep
    <3>1. attempt' = attempt
      BY <2>1 DEF SupervisorStep, ClaimLaunch, BindLaunch, ReleaseLaunch, Complete, ReportDone,
                  WorkerDies, LeaveBoot, HandleTaskDone, ReserveDeadSlot, Timeout
    <3> QED BY <1>t, <3>1
  <2>2. CASE RetryCrashed
    <3>1. attempt \in [Task -> Nat]
      BY <1>t DEF TypeInv, ExecTypeOK
    <3> QED BY <1>t, <2>2, <3>1 DEF RetryCrashed
  <2>3. CASE ReapStep /\ ~RetryCrashed
    <3>1. attempt' = attempt
      BY <2>3 DEF ReapStep, ReaperStep, TakeJob, InspectDeadJob, DecideCrash, FailCrashed,
                  WithdrawCrashed, RespawnSlot, KillTimedOut, FinishTimedOut
    <3> QED BY <1>t, <3>1
  <2> QED BY <2>1, <2>2, <2>3
<1>5. reaper'.phase = "idle" => reaper'.job = NoJob
  <2>1. CASE SupervisorStep
    <3>1. reaper' = reaper
      BY <2>1 DEF SupervisorStep, ClaimLaunch, BindLaunch, ReleaseLaunch, Complete, ReportDone,
                  WorkerDies, LeaveBoot, HandleTaskDone, ReserveDeadSlot, Timeout
    <3> QED BY <3>1 DEF TypesInv
  <2>2. CASE ReapStep
    BY <2>2, ReaperMovesOn DEF ReapStep
  <2> QED BY <2>1, <2>2
<1> QED BY <1>1, <1>2, <1>3, <1>4, <1>5 DEF TypesInv, NamesTask

\* Retaining a job and handing it back keep everything well formed.
LEMMA RetainedTypes ==
    ASSUME TypesInv, RetainJob \/ \E job \in deferred : ReplayJob(job)
    PROVE  TypesInv'
<1>t. /\ TypeInv /\ ExecTypeOK /\ JobsWellFormed /\ CustodyTypeOK
      /\ jobs \in Seq(Job) /\ deferred \subseteq Job /\ replaying \subseteq deferred
  BY DEF TypesInv, TypeInv, CustodyTypeOK, ExecTypeOK
<1>1. CASE RetainJob
  <2>1. reaper.job \in Job /\ NamesTask(reaper.job)
    BY <1>1, <1>t DEF RetainJob, JobsWellFormed
  <2>2. reaper' = [phase |-> "idle", job |-> NoJob] /\ faults' \in 0..MaxFault
    BY <1>1, <1>t, LimitAssumption DEF RetainJob, StopReaping, Fault, ExecTypeOK
  <2>3. ExecTypeOK'
    BY <1>1, <1>t, <2>2 DEF RetainJob, ExecTypeOK, Phase
  <2>4. JobsWellFormed'
    BY <1>1, <1>t, <2>2 DEF RetainJob, JobsWellFormed, NamesTask, DeadPhase, TimeoutPhase
  <2>5. CustodyTypeOK'
    BY <1>1, <1>t, <2>1, <2>3 DEF RetainJob, CustodyTypeOK
  <2>6. \A job \in deferred' : NamesTask(job)
    BY <1>1, <2>1 DEF RetainJob, TypesInv
  <2> QED BY <1>1, <2>2, <2>3, <2>4, <2>5, <2>6 DEF RetainJob, TypesInv, TypeInv, NamesTask
<1>2. ASSUME NEW job \in deferred, ReplayJob(job) PROVE TypesInv'
  <2>1. job \in Job /\ NamesTask(job)
    BY <1>t DEF TypesInv
  <2>2. jobs' \in Seq(Job) /\ \A i \in 1..Len(jobs') : NamesTask(jobs'[i])
    BY <1>2, <1>t, <2>1, AppendJob DEF ReplayJob, JobsWellFormed
  <2>3. ExecTypeOK'
    BY <1>2, <1>t, <2>2 DEF ReplayJob, ExecTypeOK
  <2>4. JobsWellFormed'
    BY <1>2, <1>t, <2>2 DEF ReplayJob, JobsWellFormed, NamesTask
  <2>5. CustodyTypeOK'
    BY <1>2, <1>t, <2>3 DEF ReplayJob, CustodyTypeOK
  <2> QED BY <1>2, <2>3, <2>4, <2>5 DEF ReplayJob, TypesInv, TypeInv, NamesTask
<1> QED BY <1>1, <1>2

\* Everybody keeps everything well formed.
LEMMA StepTypes == TypesInv /\ [CustodyNext]_sysVars => TypesInv'
<1> SUFFICES ASSUME TypesInv, [CustodyNext]_sysVars PROVE TypesInv'
  OBVIOUS
<1>1. CASE UNCHANGED sysVars
  BY <1>1 DEF sysVars, execVars, custodyVars, TypesInv, TypeInv, ExecTypeOK, JobsWellFormed,
              CustodyTypeOK, NamesTask
<1> QED BY <1>1, CustodyStepTypes, ExecutionStepTypes, RetainedTypes DEF CustodyNext

-----------------------------------------------------------------------------
\* What no step does, whoever takes it.

\* The owner of a worker in teardown hands it off: the reaper or an attempt at its last
\* step, or an attempt that gives up.
Ends(t, s) ==
    /\ custody[t].slot = s
    /\ SameWorker(t)
    /\ custody'[t].pc = "none"

Respawns(s) ==
    \/ reaper.phase = "respawn" /\ On(reaper.job, s) /\ reaper'.phase = "idle"
    \/ \E t \in Task : custody[t].pc = "respawn" /\ Ends(t, s)

HandsOff(s) ==
    \/ Respawns(s)
    \/ \E t \in Task : custody[t].pc \in {"kill", "judge", "write"} /\ Ends(t, s)

\* A lost launch, a resolved event and a hard bound free a slot of its task; a launch
\* starts the queued task its slot is bound to.
Frees(s) ==
    LET w == slots[s] IN
    \/ w.mode = "open" /\ launch[w.busy] = s
    \/ w.mode = "open" /\ running'[w.busy] = NoSlot /\ \E e \in bus : e.slot = s /\ e.task = w.busy
    \/ stop[w.busy] = "none" /\ running'[w.busy] = NoSlot /\ slots'[s].mode = "reaping"

Starts(t, s) ==
    /\ t \in pending \ pending'
    /\ WorkerReady(s)
    /\ slots[s].busy = t /\ slots'[s].busy = t
    /\ launch'[t] = NoSlot /\ running'[t] = s

\* A process is replaced or its slot opened only by the owner of its teardown; it is not
\* revived, and bound and started only while it is open.
SlotFrame(s) ==
    LET w == slots[s]  v == slots'[s] IN
    \/ /\ v.life = w.life + 1
       /\ v.busy = NoTask /\ v.work = NoTask
       /\ Respawns(s)
    \/ /\ v.life = w.life
       /\ v.alive => w.alive
       /\ w.alive /\ ~v.alive => v.work = NoTask
       /\ \/ v.busy = w.busy
          \/ v.busy = NoTask /\ Frees(s)
          \/ v.busy \in pending /\ w.busy = NoTask /\ WorkerReady(s)
       /\ v.work \in {w.work, NoTask} \/ Starts(v.work, s)
       /\ \/ v.mode = w.mode
          \/ v.mode = "reaping" /\ (w.mode = "open" \/ v.busy = NoTask)
          \/ v.mode = "open" /\ (w.mode = "booting" \/ HandsOff(s))

\* A terminal stands; a RUNNING row appears only by a launch of a queued task, and a task
\* is queued again only from a crash that stands or from the hands of its attempt.
TaskFrame(t) ==
    /\ Terminal(t) => result'[t] # "none"
    /\ \/ running'[t] \in {running[t], NoSlot}
       \/ running'[t] \in Slot /\ Starts(t, running'[t])
    /\ t \in pending' =>
          \/ t \in pending
          \/ custody[t].pc = "pending" /\ custody'[t].pc = "none"
          \/ /\ reaper.phase = "retry" /\ reaper.job.task = t /\ DeadJobCurrent(reaper.job)
             /\ running'[t] = NoSlot
    /\ launch'[t] # NoSlot => launch[t] # NoSlot \/ t \in pending
    /\ attempt'[t] # attempt[t] => running'[t] = NoSlot
    /\ custody'[t].pc = "pending" => custody[t].pc = "pending" \/ t \in pending

\* A job is new only for a worker that leaves the pool with it.
JobFrame ==
    \A job \in AllJobs' : job \in AllJobs \/
        /\ On(job, job.slot)
        /\ slots'[job.slot].life = slots[job.slot].life
        /\ slots[job.slot].mode = "open" \/ slots'[job.slot].busy = NoTask

\* The reaper comes to the crash policy only from an inspection that found no terminal.
ReaperFrame ==
    reaper'.phase \in {"policy", "retry"} =>
        /\ reaper'.job = reaper.job
        /\ reaper.phase \in {"policy", "retry"} \/ (reaper.phase = "inspect" /\ ~Terminal(reaper.job.task))

CustodyFrame ==
    /\ \A s \in Slot : SlotFrame(s)
    /\ \A t \in Task : TaskFrame(t)
    /\ JobFrame
    /\ ReaperFrame

-----------------------------------------------------------------------------
\* Custody leaves launches, attempts and the reaper to others.
LEMMA CustodyLeavesJobs ==
    ASSUME NEW t \in Task, RequestStop(t) \/ CustodyStep(t) \/ DropCancelledPending(t)
    PROVE  UNCHANGED <<launch, attempt, jobs, reaper, deferred, replaying>>
<1>1. CASE FinalizeOnMiss(t)
  BY <1>1, Zenon DEF FinalizeOnMiss
<1>2. CASE RequestStop(t) \/ BeginCustody(t) \/ ClaimStop(t) \/ SettleStop(t)
  BY <1>2 DEF RequestStop, BeginCustody, ClaimStop, SettleStop, execVars
<1>3. CASE Capture(t)
  BY <1>3, Zenon DEF Capture
<1>4. CASE KillStopped(t) \/ PublishStopped(t) \/ RespawnStopped(t) \/ WritePending(t) \/ PublishPending(t)
           \/ PublishMiss(t) \/ DropCancelledPending(t)
  BY <1>4 DEF KillStopped, PublishStopped, RespawnStopped, WritePending, PublishPending,
              PublishMiss, DropCancelledPending
<1>5. CASE JudgeStopped(t) \/ WriteCancelled(t)
  BY <1>5, Zenon DEF JudgeStopped, WriteCancelled
<1> QED BY <1>1, <1>2, <1>3, <1>4, <1>5 DEF CustodyStep

\* An update of the captured slot is an update of a slot of the pool.
LEMMA CapturedFields ==
    ASSUME TypesInv, NEW t \in Task, custody[t].slot \in Slot, NEW r \in Slot
    PROVE  /\ LET f == SlotRestored(t) IN
              /\ f[r].life = slots[r].life /\ f[r].busy = slots[r].busy
              /\ f[r].alive = slots[r].alive /\ f[r].work = slots[r].work
              /\ f[r].mode = IF r = custody[t].slot /\ SameWorker(t) THEN "open" ELSE slots[r].mode
           /\ LET f == [slots EXCEPT ![custody[t].slot].alive = FALSE, ![custody[t].slot].work = NoTask] IN
              /\ f[r].life = slots[r].life /\ f[r].mode = slots[r].mode
              /\ f[r].busy = slots[r].busy
              /\ IF r = custody[t].slot THEN ~f[r].alive ELSE f[r].alive = slots[r].alive
              /\ f[r].work = IF r = custody[t].slot THEN NoTask ELSE slots[r].work
           /\ LET f == [slots EXCEPT ![custody[t].slot] = FreshWorker(@.life + 1)] IN
              /\ r # custody[t].slot => f[r] = slots[r]
              /\ r = custody[t].slot => /\ f[r].life = slots[r].life + 1 /\ f[r].mode = "booting"
                                        /\ f[r].work = NoTask /\ f[r].busy = NoTask
<1>0. PICK s \in Slot : s = custody[t].slot
  OBVIOUS
<1>t. slots \in [Slot -> Worker]
  BY DEF TypesInv, TypeInv, ExecTypeOK
<1>1. LET f == [slots EXCEPT ![s].mode = "open"] IN
      /\ f[r].life = slots[r].life /\ f[r].busy = slots[r].busy
      /\ f[r].alive = slots[r].alive /\ f[r].work = slots[r].work
      /\ f[r].mode = IF r = s THEN "open" ELSE slots[r].mode
  BY <1>t, SlotFields
<1>2. LET f == [slots EXCEPT ![s].alive = FALSE, ![s].work = NoTask] IN
      /\ f[r].life = slots[r].life /\ f[r].mode = slots[r].mode
      /\ f[r].busy = slots[r].busy
      /\ IF r = s THEN ~f[r].alive ELSE f[r].alive = slots[r].alive
      /\ f[r].work = IF r = s THEN NoTask ELSE slots[r].work
  BY <1>t, SlotFields
<1>3. LET f == [slots EXCEPT ![s] = FreshWorker(@.life + 1)] IN
      /\ r # s => f[r] = slots[r]
      /\ f[s].life = slots[s].life + 1 /\ f[s].mode = "booting"
      /\ f[s].work = NoTask /\ f[s].busy = NoTask
  BY <1>t, FreshFields
<1>4. LET f == SlotRestored(t) IN
      /\ f[r].life = slots[r].life /\ f[r].busy = slots[r].busy
      /\ f[r].alive = slots[r].alive /\ f[r].work = slots[r].work
      /\ f[r].mode = IF r = custody[t].slot /\ SameWorker(t) THEN "open" ELSE slots[r].mode
  BY <1>0, <1>1 DEF SlotRestored
<1> QED BY <1>0, <1>2, <1>3, <1>4

\* Nothing happens to the slots.
LEMMA SlotsLeftAlone ==
    ASSUME slots' = slots
    PROVE  \A s \in Slot : SlotFrame(s)
BY DEF SlotFrame

\* An attempt that ends puts its worker into the hands of the pool.
LEMMA EndsAt ==
    ASSUME TypesInv, NEW t \in Task, EndCustody(t)
    PROVE  custody'[t] = NoCustody /\ custody'[t].pc = "none" /\ \A u \in Task \ {t} : custody'[u] = custody[u]
<1>1. NameSlots(custody)
  BY DEF TypesInv, CustodyTypeOK, NameSlots
<1>2. NoCustody.pc = "none"
  BY DEF NoCustody
<1> QED BY <1>1, <1>2, AttemptEnds DEF EndCustody

\* What the supervisor and its workers do to the slots.
LEMMA SupervisorSlots ==
    ASSUME TypesInv, SupervisorStep
    PROVE  \A s \in Slot : SlotFrame(s)
<1>t. /\ slots \in [Slot -> Worker] /\ pending \subseteq Task /\ NoTask \notin Task
      /\ running \in [Task -> Slot \cup {NoSlot}] /\ launch \in [Task -> Slot \cup {NoSlot}]
      /\ bus \subseteq Event
  BY NullTaskAssumption DEF TypesInv, TypeInv, ExecTypeOK
<1>1. ASSUME NEW t \in Task, NEW s \in Slot, ClaimLaunch(t, s) PROVE \A r \in Slot : SlotFrame(r)
  <2>1. \A r \in Slot : /\ slots'[r].life = slots[r].life /\ slots'[r].mode = slots[r].mode
                        /\ slots'[r].alive = slots[r].alive /\ slots'[r].work = slots[r].work
                        /\ slots'[r].busy = IF r = s THEN t ELSE slots[r].busy
    BY <1>1, <1>t, SlotFields DEF ClaimLaunch
  <2> QED BY <1>1, <2>1 DEF ClaimLaunch, SlotFrame
<1>2. ASSUME NEW t \in Task, NEW s \in Slot, BindLaunch(t, s) PROVE \A r \in Slot : SlotFrame(r)
  <2>1. \A r \in Slot : /\ slots'[r].life = slots[r].life /\ slots'[r].mode = slots[r].mode
                        /\ slots'[r].alive = slots[r].alive /\ slots'[r].busy = slots[r].busy
                        /\ slots'[r].work = IF r = s THEN t ELSE slots[r].work
    BY <1>2, <1>t, SlotFields DEF BindLaunch
  <2>2. Starts(t, s)
    BY <1>2, <1>t, <2>1 DEF BindLaunch, LaunchHeld, Starts
  <2> QED BY <2>1, <2>2 DEF SlotFrame
<1>3. ASSUME NEW t \in Task, NEW s \in Slot, ReleaseLaunch(t, s) PROVE \A r \in Slot : SlotFrame(r)
  <2>1. CASE slots[s].mode = "open" /\ slots[s].busy = t /\ slots' = [slots EXCEPT ![s].busy = NoTask]
    <3>1. \A r \in Slot : /\ slots'[r].life = slots[r].life /\ slots'[r].mode = slots[r].mode
                          /\ slots'[r].alive = slots[r].alive /\ slots'[r].work = slots[r].work
                          /\ slots'[r].busy = IF r = s THEN NoTask ELSE slots[r].busy
      BY <2>1, <1>t, SlotFields
    <3>2. Frees(s)
      BY <1>3, <2>1 DEF ReleaseLaunch, Frees
    <3> QED BY <3>1, <3>2 DEF SlotFrame
  <2> QED BY <1>3, <2>1, SlotsLeftAlone DEF ReleaseLaunch
<1>4. ASSUME NEW s \in Slot, ReportDone(s) PROVE \A r \in Slot : SlotFrame(r)
  <2>1. \A r \in Slot : /\ slots'[r].life = slots[r].life /\ slots'[r].mode = slots[r].mode
                        /\ slots'[r].alive = slots[r].alive /\ slots'[r].busy = slots[r].busy
                        /\ slots'[r].work = IF r = s THEN NoTask ELSE slots[r].work
    BY <1>4, <1>t, SlotFields DEF ReportDone
  <2> QED BY <2>1 DEF SlotFrame
<1>5. ASSUME NEW s \in Slot, WorkerDies(s) PROVE \A r \in Slot : SlotFrame(r)
  <2>1. \A r \in Slot : /\ slots'[r].life = slots[r].life /\ slots'[r].mode = slots[r].mode
                        /\ slots'[r].busy = slots[r].busy
                        /\ IF r = s THEN ~slots'[r].alive ELSE slots'[r].alive = slots[r].alive
                        /\ slots'[r].work = IF r = s THEN NoTask ELSE slots[r].work
    BY <1>5, <1>t, SlotFields DEF WorkerDies
  <2> QED BY <2>1 DEF SlotFrame
<1>6. ASSUME NEW s \in Slot, LeaveBoot(s) PROVE \A r \in Slot : SlotFrame(r)
  <2>1. \A r \in Slot : /\ slots'[r].life = slots[r].life /\ slots'[r].busy = slots[r].busy
                        /\ slots'[r].alive = slots[r].alive /\ slots'[r].work = slots[r].work
                        /\ slots'[r].mode = IF r = s THEN "open" ELSE slots[r].mode
    BY <1>6, <1>t, SlotFields DEF LeaveBoot
  <2> QED BY <1>6, <2>1 DEF LeaveBoot, SlotFrame
<1>7. ASSUME NEW e \in bus, HandleTaskDone(e) PROVE \A r \in Slot : SlotFrame(r)
  <2>1. ASSUME NEW s \in Slot, s = e.slot, slots[s].mode = "open", slots[s].busy = e.task,
               running'[e.task] = NoSlot, slots' = [slots EXCEPT ![s].busy = NoTask]
        PROVE  \A r \in Slot : SlotFrame(r)
    <3>1. \A r \in Slot : /\ slots'[r].life = slots[r].life /\ slots'[r].mode = slots[r].mode
                          /\ slots'[r].alive = slots[r].alive /\ slots'[r].work = slots[r].work
                          /\ slots'[r].busy = IF r = s THEN NoTask ELSE slots[r].busy
      BY <2>1, <1>t, SlotFields
    <3>2. Frees(s)
      BY <2>1 DEF Frees
    <3> QED BY <3>1, <3>2 DEF SlotFrame
  <2>2. \/ slots' = slots
        \/ /\ e.slot \in Slot /\ slots[e.slot].mode = "open" /\ slots[e.slot].busy = e.task
           /\ running'[e.task] = NoSlot /\ slots' = [slots EXCEPT ![e.slot].busy = NoTask]
    <3>1. e.task \in Task
      BY <1>t DEF Event
    <3> QED BY <1>7, <1>t, <3>1 DEF HandleTaskDone
  <2> QED BY <2>1, <2>2, SlotsLeftAlone
<1>8. ASSUME NEW s \in Slot, ReserveDeadSlot(s) PROVE \A r \in Slot : SlotFrame(r)
  <2>1. \A r \in Slot : /\ slots'[r].life = slots[r].life /\ slots'[r].busy = slots[r].busy
                        /\ slots'[r].alive = slots[r].alive /\ slots'[r].work = slots[r].work
                        /\ slots'[r].mode = IF r = s THEN "reaping" ELSE slots[r].mode
    BY <1>8, <1>t, SlotFields DEF ReserveDeadSlot
  <2> QED BY <1>8, <2>1 DEF ReserveDeadSlot, SlotFrame
<1>9. ASSUME NEW t \in Task, stop[t] = "none", Timeout(t) PROVE \A r \in Slot : SlotFrame(r)
  <2>0. PICK s \in Slot : s = running[t]
    BY <1>9 DEF Timeout, TypesInv, TypeInv, ExecTypeOK
  <2>1. \A r \in Slot : /\ slots'[r].life = slots[r].life
                        /\ slots'[r].alive = slots[r].alive /\ slots'[r].work = slots[r].work
                        /\ slots'[r].busy = IF r = s THEN NoTask ELSE slots[r].busy
                        /\ slots'[r].mode = IF r = s THEN "reaping" ELSE slots[r].mode
    <3>1. slots' = [slots EXCEPT ![s].busy = NoTask, ![s].mode = "reaping"]
      BY <1>9, <2>0 DEF Timeout
    <3> QED BY <3>1, <1>t, SlotFields
  <2>2. Frees(s)
    BY <1>9, <1>t, <2>0, <2>1 DEF Timeout, Frees
  <2> QED BY <2>1, <2>2 DEF SlotFrame
<1>10. ASSUME NEW s \in Slot, Complete(s) PROVE \A r \in Slot : SlotFrame(r)
  BY <1>10, SlotsLeftAlone DEF Complete
<1> QED BY <1>1, <1>2, <1>3, <1>4, <1>5, <1>6, <1>7, <1>8, <1>9, <1>10 DEF SupervisorStep

\* What the reaper does to the slots.
LEMMA ReaperSlots ==
    ASSUME TypesInv, ReapStep
    PROVE  \A s \in Slot : SlotFrame(s)
<1>t. slots \in [Slot -> Worker]
  BY DEF TypesInv, TypeInv, ExecTypeOK
<1>1. CASE RespawnSlot
  <2>0. PICK s \in Slot : s = reaper.job.slot
    BY <1>1 DEF RespawnSlot, TypesInv, TypeInv, JobsWellFormed, Job
  <2>1. CASE slots' = slots
    BY <2>1, SlotsLeftAlone
  <2>h. slots[s].life = reaper.job.life => Respawns(s) /\ HandsOff(s)
    BY <1>1, <2>0 DEF RespawnSlot, StopReaping, Respawns, HandsOff, On
  <2>2. CASE slots[s].life = reaper.job.life /\ slots' = [slots EXCEPT ![s] = FreshWorker(@.life + 1)]
    <3>1. \A r \in Slot :
            /\ r # s => slots'[r] = slots[r]
            /\ slots'[s].life = slots[s].life + 1
            /\ slots'[s].work = NoTask /\ slots'[s].busy = NoTask
      BY <2>2, <1>t, FreshFields
    <3> QED BY <2>2, <2>h, <3>1 DEF SlotFrame
  <2>3. CASE slots[s].life = reaper.job.life /\ slots' = [slots EXCEPT ![s].mode = "open"]
    <3>1. \A r \in Slot : /\ slots'[r].life = slots[r].life /\ slots'[r].busy = slots[r].busy
                          /\ slots'[r].alive = slots[r].alive /\ slots'[r].work = slots[r].work
                          /\ slots'[r].mode = IF r = s THEN "open" ELSE slots[r].mode
      BY <2>3, <1>t, SlotFields
    <3> QED BY <2>3, <2>h, <3>1 DEF SlotFrame
  <2> QED BY <1>1, <2>0, <2>1, <2>2, <2>3 DEF RespawnSlot
<1>2. CASE KillTimedOut
  <2>0. PICK s \in Slot : s = reaper.job.slot
    BY <1>2 DEF KillTimedOut, TypesInv, TypeInv, JobsWellFormed, Job
  <2>1. CASE slots' = slots
    BY <2>1, SlotsLeftAlone
  <2>2. CASE slots' = [slots EXCEPT ![s].alive = FALSE, ![s].work = NoTask]
    <3>1. \A r \in Slot : /\ slots'[r].life = slots[r].life /\ slots'[r].mode = slots[r].mode
                          /\ slots'[r].busy = slots[r].busy
                          /\ IF r = s THEN ~slots'[r].alive ELSE slots'[r].alive = slots[r].alive
                          /\ slots'[r].work = IF r = s THEN NoTask ELSE slots[r].work
      BY <2>2, <1>t, SlotFields
    <3> QED BY <3>1 DEF SlotFrame
  <2> QED BY <1>2, <2>0, <2>1, <2>2 DEF KillTimedOut
<1>3. CASE ~RespawnSlot /\ ~KillTimedOut
  <2>1. slots' = slots
    BY <1>3 DEF ReapStep, ReaperStep, TakeJob, InspectDeadJob, DecideCrash, FailCrashed,
                WithdrawCrashed, RetryCrashed, FinishTimedOut
  <2> QED BY <2>1, SlotsLeftAlone
<1> QED BY <1>1, <1>2, <1>3

\* What custody does to the slots.
LEMMA CustodySlots ==
    ASSUME TypesInv, NEW t \in Task, CustodyStep(t)
    PROVE  \A s \in Slot : SlotFrame(s)
<1>t. slots \in [Slot -> Worker]
  BY DEF TypesInv, TypeInv, ExecTypeOK
<1>s. custody[t].pc \in Held \cup Leaving => custody[t].slot \in Slot
  BY DEF TypesInv
<1>e. ReleaseStop(t) \/ EndCustody(t) => custody'[t].pc = "none"
  BY EndsAt DEF ReleaseStop
<1>1. CASE Capture(t)
  <2>1. ASSUME NEW s \in Slot, slots[s].mode = "open", slots' = [slots EXCEPT ![s].mode = "reaping"]
        PROVE  \A r \in Slot : SlotFrame(r)
    <3>1. \A r \in Slot : /\ slots'[r].life = slots[r].life /\ slots'[r].busy = slots[r].busy
                          /\ slots'[r].alive = slots[r].alive /\ slots'[r].work = slots[r].work
                          /\ slots'[r].mode = IF r = s THEN "reaping" ELSE slots[r].mode
      BY <2>1, <1>t, SlotFields
    <3> QED BY <2>1, <3>1 DEF SlotFrame
  <2>2. \/ slots' = slots
        \/ \E s \in Slot : slots[s].mode = "open" /\ slots' = [slots EXCEPT ![s].mode = "reaping"]
    BY <1>1 DEF Capture
  <2> QED BY <2>1, <2>2, SlotsLeftAlone
<1>2. ASSUME custody[t].pc \in {"kill", "judge", "write"}, slots' = SlotRestored(t), ReleaseStop(t)
      PROVE  \A r \in Slot : SlotFrame(r)
  <2>0. custody[t].slot \in Slot
    BY <1>2, <1>s DEF Held
  <2>1. \A r \in Slot : /\ slots'[r].life = slots[r].life /\ slots'[r].busy = slots[r].busy
                        /\ slots'[r].alive = slots[r].alive /\ slots'[r].work = slots[r].work
                        /\ slots'[r].mode = IF r = custody[t].slot /\ SameWorker(t) THEN "open"
                                            ELSE slots[r].mode
    BY <1>2, <2>0, CapturedFields
  <2>2. SameWorker(t) => HandsOff(custody[t].slot)
    BY <1>2, <1>e DEF HandsOff, Respawns, Ends
  <2> QED BY <2>1, <2>2 DEF SlotFrame
<1>3. CASE KillStopped(t)
  <2>1. custody[t].pc = "kill" /\ custody[t].slot \in Slot
    BY <1>3, <1>s DEF KillStopped, At, Held
  <2>2. CASE slots' = [slots EXCEPT ![custody[t].slot].alive = FALSE, ![custody[t].slot].work = NoTask]
    <3>1. \A r \in Slot : /\ slots'[r].life = slots[r].life /\ slots'[r].mode = slots[r].mode
                          /\ slots'[r].busy = slots[r].busy
                          /\ IF r = custody[t].slot THEN ~slots'[r].alive
                             ELSE slots'[r].alive = slots[r].alive
                          /\ slots'[r].work = IF r = custody[t].slot THEN NoTask ELSE slots[r].work
      BY <2>1, <2>2, CapturedFields
    <3> QED BY <3>1 DEF SlotFrame
  <2> QED BY <1>2, <1>3, <2>1, <2>2, SlotsLeftAlone DEF KillStopped
<1>4. CASE JudgeStopped(t)
  BY <1>2, <1>4, SlotsLeftAlone DEF JudgeStopped, At
<1>5. CASE WriteCancelled(t)
  BY <1>2, <1>5, SlotsLeftAlone DEF WriteCancelled, At
<1>6. CASE RespawnStopped(t)
  <2>0. custody[t].pc = "respawn" /\ custody[t].slot \in Slot /\ custody'[t].pc = "none"
    BY <1>6, <1>s, <1>e DEF RespawnStopped, At, Leaving
  <2>h. SameWorker(t) => Respawns(custody[t].slot) /\ HandsOff(custody[t].slot)
    BY <2>0 DEF HandsOff, Respawns, Ends
  <2>1. CASE slots' = slots
    BY <2>1, SlotsLeftAlone
  <2>2. CASE SameWorker(t) /\ slots' = [slots EXCEPT ![custody[t].slot] = FreshWorker(@.life + 1)]
    <3>1. \A r \in Slot :
            /\ r # custody[t].slot => slots'[r] = slots[r]
            /\ r = custody[t].slot => /\ slots'[r].life = slots[r].life + 1
                                      /\ slots'[r].work = NoTask /\ slots'[r].busy = NoTask
      BY <2>0, <2>2, CapturedFields
    <3> QED BY <2>2, <2>h, <3>1 DEF SlotFrame
  <2>3. CASE SameWorker(t) /\ slots' = SlotRestored(t)
    <3>1. \A r \in Slot : /\ slots'[r].life = slots[r].life /\ slots'[r].busy = slots[r].busy
                          /\ slots'[r].alive = slots[r].alive /\ slots'[r].work = slots[r].work
                          /\ slots'[r].mode = IF r = custody[t].slot /\ SameWorker(t) THEN "open"
                                              ELSE slots[r].mode
      BY <2>0, <2>3, CapturedFields
    <3> QED BY <2>3, <2>h, <3>1 DEF SlotFrame
  <2> QED BY <1>6, <2>1, <2>2, <2>3 DEF RespawnStopped
<1>7. CASE BeginCustody(t) \/ ClaimStop(t) \/ SettleStop(t) \/ PublishStopped(t) \/ WritePending(t)
           \/ PublishPending(t) \/ FinalizeOnMiss(t) \/ PublishMiss(t)
  <2>1. slots' = slots
    BY <1>7 DEF BeginCustody, ClaimStop, SettleStop, PublishStopped, WritePending, PublishPending,
                FinalizeOnMiss, PublishMiss, execVars
  <2> QED BY <2>1, SlotsLeftAlone
<1> QED BY <1>1, <1>3, <1>4, <1>5, <1>6, <1>7 DEF CustodyStep

\* Every step stays within the frame of the slots.
LEMMA StepSlots ==
    ASSUME TypesInv, [CustodyNext]_sysVars
    PROVE  \A s \in Slot : SlotFrame(s)
<1>1. CASE \/ \E t \in Task : RequestStop(t) \/ DropCancelledPending(t)
           \/ RetainJob \/ (\E job \in deferred : ReplayJob(job)) \/ UNCHANGED sysVars
  <2>1. slots' = slots
    BY <1>1 DEF RequestStop, DropCancelledPending, RetainJob, ReplayJob, sysVars, execVars
  <2> QED BY <2>1, SlotsLeftAlone
<1> QED BY <1>1, SupervisorSlots, ReaperSlots, CustodySlots DEF CustodyNext

-----------------------------------------------------------------------------
\* An attempt goes from one place to the next, or ends.
Onward(t) ==
    LET c == custody[t]  d == custody'[t] IN
    \/ d = c
    \/ d = NoCustody
    \/ c.pc = "none" /\ d.pc = "claim" /\ d.settled = Terminal(t)
    \/ /\ \/ c.pc = "claim" /\ d.pc = "capture"
          \/ c.pc = "capture" /\ d.pc = "pending" /\ t \in pending
          \/ c.pc = "capture" /\ d.pc \in {"miss", "kill"}
          \/ c.pc = "pending" /\ d.pc = "dropped"
          \/ c.pc = "miss" /\ d.pc = "missed"
       /\ d.settled = c.settled
    \/ /\ \/ c.pc = "kill" /\ d.pc = "judge"
          \/ c.pc = "judge" /\ d.pc \in {"write", "settle"}
          \/ c.pc = "write" /\ d.pc = "settle"
          \/ c.pc = "settle" /\ d.pc = "publish"
          \/ c.pc = "publish" /\ d.pc = "respawn"
       /\ d.slot = c.slot /\ d.life = c.life /\ d.settled = c.settled

\* The steps of custody, each of one task's attempt.
LEMMA AttemptGoesOn ==
    ASSUME TypesInv, NEW t \in Task, CustodyStep(t)
    PROVE  Onward(t) /\ \A u \in Task \ {t} : custody'[u] = custody[u]
<1>s. NameSlots(custody)
  BY DEF TypesInv, CustodyTypeOK, NameSlots
<1> DEFINE Goal == Onward(t) /\ \A u \in Task \ {t} : custody'[u] = custody[u]
<1>e. ReleaseStop(t) \/ EndCustody(t) => Goal
  BY EndsAt DEF ReleaseStop, Onward
<1>p. ASSUME NEW pc \in Step, Proceed(t, pc), pc \in Held \cup Leaving => custody[t].pc \in Held \cup Leaving
      PROVE  /\ custody'[t].pc = pc /\ custody'[t].slot = custody[t].slot
             /\ custody'[t].life = custody[t].life /\ custody'[t].settled = custody[t].settled
             /\ \A u \in Task \ {t} : custody'[u] = custody[u]
  BY <1>p, <1>s, AttemptMoves DEF Proceed
<1>o. ASSUME NEW owed \in BOOLEAN, custody[t].pc \in {"judge", "write"},
             custody' = [custody EXCEPT ![t].pc = "settle", ![t].owed = owed]
      PROVE  Goal
  <2>1. /\ custody'[t].pc = "settle" /\ custody'[t].slot = custody[t].slot
        /\ custody'[t].life = custody[t].life /\ custody'[t].settled = custody[t].settled
        /\ \A u \in Task \ {t} : custody'[u] = custody[u]
    BY <1>o, <1>s, AttemptOwes DEF Held
  <2> QED BY <1>o, <2>1 DEF Onward
<1>1. CASE BeginCustody(t)
  <2>1. /\ custody'[t].pc = "claim" /\ custody'[t].settled = Terminal(t)
        /\ \A u \in Task \ {t} : custody'[u] = custody[u]
    BY <1>1, <1>s, AttemptBegins DEF BeginCustody
  <2> QED BY <1>1, <2>1 DEF BeginCustody, At, Onward
<1>2. CASE ClaimStop(t)
  <2>1. CASE Proceed(t, "capture")
    BY <1>2, <1>p, <2>1 DEF ClaimStop, At, Onward, Step, Held, Leaving
  <2> QED BY <1>2, <1>e, <2>1 DEF ClaimStop
<1>3. CASE Capture(t)
  <2>1. ASSUME NEW s \in Slot,
               custody' = [custody EXCEPT ![t].pc = "kill", ![t].slot = s, ![t].life = slots[s].life]
        PROVE  Goal
    <3>0. custody \in [Task -> Attempt] /\ custody[t] \in Attempt
      BY <1>s DEF NameSlots
    <3>1. /\ custody'[t].pc = "kill" /\ custody'[t].settled = custody[t].settled
          /\ \A u \in Task \ {t} : custody'[u] = custody[u]
      BY <2>1, <3>0 DEF Attempt
    <3> QED BY <1>3, <3>1 DEF Capture, At, Onward
  <2>2. ASSUME NEW pc \in {"pending", "miss"}, Proceed(t, pc), pc = "pending" => t \in pending
        PROVE  Goal
    BY <1>3, <1>p, <2>2 DEF Capture, At, Onward, Step, Held, Leaving
  <2>3. \/ ReleaseStop(t) \/ (Proceed(t, "pending") /\ t \in pending) \/ Proceed(t, "miss")
        \/ \E s \in Slot :
              custody' = [custody EXCEPT ![t].pc = "kill", ![t].slot = s, ![t].life = slots[s].life]
    BY <1>3 DEF Capture
  <2> QED BY <1>e, <2>1, <2>2, <2>3
<1>4. CASE KillStopped(t)
  <2>1. CASE Proceed(t, "judge")
    BY <1>4, <1>p, <2>1 DEF KillStopped, At, Onward, Step, Held
  <2> QED BY <1>4, <1>e, <2>1 DEF KillStopped
<1>5. CASE JudgeStopped(t)
  <2>1. CASE Proceed(t, "write")
    BY <1>5, <1>p, <2>1 DEF JudgeStopped, At, Onward, Step, Held
  <2> QED BY <1>5, <1>e, <1>o, <2>1 DEF JudgeStopped, At
<1>6. CASE WriteCancelled(t)
  BY <1>6, <1>e, <1>o DEF WriteCancelled, At
<1>7. CASE SettleStop(t)
  BY <1>7, <1>p DEF SettleStop, At, Onward, Step, Held
<1>8. CASE PublishStopped(t)
  BY <1>8, <1>p DEF PublishStopped, At, Onward, Step, Leaving
<1>9. CASE RespawnStopped(t) \/ PublishPending(t) \/ PublishMiss(t)
  BY <1>9, <1>e DEF RespawnStopped, PublishPending, PublishMiss
<1>10. CASE WritePending(t)
  <2>1. CASE Proceed(t, "dropped")
    BY <1>10, <1>p, <2>1 DEF WritePending, At, Onward, Step, Held, Leaving
  <2> QED BY <1>10, <1>e, <2>1 DEF WritePending
<1>11. CASE FinalizeOnMiss(t)
  <2>1. CASE custody' = [custody EXCEPT ![t].pc = "missed",
                                        ![t].quiet = \E job \in deferred : job.task = t]
    <3>0. PICK q \in BOOLEAN : q = (\E job \in deferred : job.task = t)
      OBVIOUS
    <3>1. custody' = [custody EXCEPT ![t].pc = "missed", ![t].quiet = q]
      BY <2>1, <3>0
    <3>2. /\ custody'[t].pc = "missed" /\ custody'[t].settled = custody[t].settled
          /\ \A u \in Task \ {t} : custody'[u] = custody[u]
      BY <1>s, <3>1, AttemptMisses
    <3> QED BY <1>11, <3>2 DEF FinalizeOnMiss, At, Onward
  <2> QED BY <1>11, <1>e, <2>1 DEF FinalizeOnMiss
<1> QED BY <1>1, <1>2, <1>3, <1>4, <1>5, <1>6, <1>7, <1>8, <1>9, <1>10, <1>11 DEF CustodyStep

\* A stored result stands when another one is written.
LEMMA WrittenStands ==
    ASSUME result \in [Task -> Outcome], NEW t \in Task, NEW outcome \in Outcome \ {"none"}
    PROVE  /\ \A u \in Task : Terminal(u) => Written(t, outcome)[u] # "none"
           /\ \A u \in Task \ {t} : Written(t, outcome)[u] = result[u]
           /\ Written(t, outcome)[t] # "none"
BY DEF Written, Terminal, Outcome

\* Steps that move no row.
LEMMA TasksLeftAlone ==
    ASSUME UNCHANGED <<running, attempt>>, pending' \subseteq pending,
           \A u \in Task : Terminal(u) => result'[u] # "none",
           \A u \in Task : launch'[u] # NoSlot => launch[u] # NoSlot \/ u \in pending,
           \A u \in Task : custody'[u].pc = "pending" => custody[u].pc = "pending" \/ u \in pending
    PROVE  \A u \in Task : TaskFrame(u)
BY DEF TaskFrame

\* What the supervisor and its workers do to the rows.
LEMMA SupervisorTasks ==
    ASSUME TypesInv, SupervisorStep
    PROVE  \A u \in Task : TaskFrame(u)
<1>t. /\ slots \in [Slot -> Worker] /\ result \in [Task -> Outcome] /\ NoTask \notin Task
      /\ running \in [Task -> Slot \cup {NoSlot}] /\ launch \in [Task -> Slot \cup {NoSlot}]
  BY NullTaskAssumption DEF TypesInv, TypeInv, ExecTypeOK
<1>c. custody' = custody
  BY DEF SupervisorStep, custodyVars
<1>1. ASSUME NEW t \in Task, NEW s \in Slot, BindLaunch(t, s) PROVE \A u \in Task : TaskFrame(u)
  <2>1. slots'[s].busy = slots[s].busy
    BY <1>1, <1>t, SlotFields DEF BindLaunch
  <2>2. Starts(t, s)
    BY <1>1, <1>t, <2>1 DEF BindLaunch, LaunchHeld, Starts
  <2> QED BY <1>1, <1>t, <1>c, <2>2 DEF BindLaunch, TaskFrame, Terminal
<1>2. ASSUME NEW s \in Slot, Complete(s) PROVE \A u \in Task : TaskFrame(u)
  <2>0. PICK t \in Task : t = slots[s].work
    BY <1>2, <1>t DEF Complete, Worker
  <2>1. result' = Written(t, "completed") /\ "completed" \in Outcome \ {"none"}
    BY <1>2, <2>0 DEF Complete, Outcome
  <2> QED BY <1>2, <1>t, <1>c, <2>1, WrittenStands, TasksLeftAlone DEF Complete
<1>3. ASSUME NEW e \in bus, HandleTaskDone(e) PROVE \A u \in Task : TaskFrame(u)
  BY <1>3, <1>t, <1>c DEF HandleTaskDone, TaskFrame, Terminal
<1>4. ASSUME NEW t \in Task, Timeout(t) PROVE \A u \in Task : TaskFrame(u)
  BY <1>4, <1>t, <1>c DEF Timeout, TaskFrame, Terminal
<1>5. CASE /\ UNCHANGED <<pending, running, attempt, result>>
           /\ \A u \in Task : launch'[u] # NoSlot => launch[u] # NoSlot \/ u \in pending
  BY <1>5, <1>c, TasksLeftAlone DEF Terminal
<1>6. ASSUME NEW t \in Task, NEW s \in Slot, ClaimLaunch(t, s) \/ ReleaseLaunch(t, s)
      PROVE  \A u \in Task : TaskFrame(u)
  BY <1>5, <1>6, <1>t DEF ClaimLaunch, ReleaseLaunch
<1> QED BY <1>1, <1>2, <1>3, <1>4, <1>5, <1>6
        DEF SupervisorStep, ReportDone, WorkerDies, LeaveBoot, ReserveDeadSlot

\* What the reaper does to the rows.
LEMMA ReaperTasks ==
    ASSUME TypesInv, ReapStep
    PROVE  \A u \in Task : TaskFrame(u)
<1> DEFINE job == reaper.job
<1>t. /\ result \in [Task -> Outcome] /\ running \in [Task -> Slot \cup {NoSlot}]
      /\ attempt \in [Task -> Nat] /\ "failed" \in Outcome \ {"none"}
  BY DEF TypesInv, TypeInv, ExecTypeOK, Outcome
<1>j. reaper.phase \in DeadPhase \cup TimeoutPhase => job.task \in Task
  BY DEF TypesInv, TypeInv, JobsWellFormed, NamesTask, DeadPhase, TimeoutPhase
<1>c. custody' = custody
  BY DEF ReapStep
<1>1. CASE FailCrashed
  <2>1. job.task \in Task /\ result' = Written(job.task, "failed")
    BY <1>1, <1>j DEF FailCrashed, DeadPhase
  <2> QED BY <1>1, <1>t, <1>c, <2>1, WrittenStands, TasksLeftAlone DEF FailCrashed
<1>2. CASE FinishTimedOut
  <2>1. job.task \in Task
    BY <1>2, <1>j DEF FinishTimedOut, TimeoutPhase
  <2>2. result' = result \/ result' = Written(job.task, "failed")
    BY <1>2 DEF FinishTimedOut
  <2>3. \A u \in Task : Terminal(u) => result'[u] # "none"
    BY <1>t, <2>1, <2>2, WrittenStands DEF Terminal
  <2> QED BY <1>2, <1>c, <2>3, TasksLeftAlone DEF FinishTimedOut
<1>3. CASE WithdrawCrashed
  BY <1>3, <1>t, <1>c DEF WithdrawCrashed, TaskFrame, Terminal
<1>4. CASE RetryCrashed
  BY <1>4, <1>t, <1>c DEF RetryCrashed, TaskFrame, Terminal
<1>5. CASE UNCHANGED <<pending, launch, running, attempt, result>>
  BY <1>5, <1>c, TasksLeftAlone DEF Terminal
<1> QED BY <1>1, <1>2, <1>3, <1>4, <1>5
        DEF ReapStep, ReaperStep, TakeJob, InspectDeadJob, DecideCrash, RespawnSlot, KillTimedOut

\* What custody does to the rows.
LEMMA CustodyTasks ==
    ASSUME TypesInv, NEW t \in Task, CustodyStep(t)
    PROVE  \A u \in Task : TaskFrame(u)
<1>t. /\ result \in [Task -> Outcome] /\ running \in [Task -> Slot \cup {NoSlot}]
      /\ "cancelled" \in Outcome \ {"none"}
  BY DEF TypesInv, TypeInv, ExecTypeOK, Outcome
<1>l. launch' = launch
  BY CustodyLeavesJobs
<1>c. \A u \in Task : custody'[u].pc = "pending" => custody[u].pc = "pending" \/ u \in pending
  BY AttemptGoesOn DEF Onward, NoCustody
<1>r. result' = result \/ result' = Written(t, "cancelled") =>
         \A u \in Task : Terminal(u) => result'[u] # "none"
  BY <1>t, WrittenStands DEF Terminal
<1>1. CASE PublishStopped(t)
  BY <1>1, <1>t, <1>c DEF PublishStopped, TaskFrame, Terminal
<1>2. CASE WritePending(t) /\ pending' = pending \cup {t} /\ ReleaseStop(t)
  <2>1. /\ UNCHANGED <<running, attempt>> /\ custody[t].pc = "pending" /\ custody'[t].pc = "none"
        /\ result' = result \/ result' = Written(t, "cancelled")
    BY <1>2, EndsAt DEF WritePending, ReleaseStop, At
  <2> QED BY <1>2, <1>l, <1>c, <1>r, <2>1 DEF TaskFrame
<1>3. CASE /\ UNCHANGED <<running, attempt>> /\ pending' \subseteq pending
           /\ result' = result \/ result' = Written(t, "cancelled")
  BY <1>3, <1>l, <1>c, <1>r, TasksLeftAlone
<1>4. CASE WritePending(t) \/ Capture(t) \/ FinalizeOnMiss(t)
  BY <1>2, <1>3, <1>4 DEF WritePending, Capture, FinalizeOnMiss
<1>5. CASE BeginCustody(t) \/ ClaimStop(t) \/ KillStopped(t) \/ JudgeStopped(t) \/ WriteCancelled(t)
           \/ SettleStop(t) \/ RespawnStopped(t) \/ PublishPending(t) \/ PublishMiss(t)
  BY <1>3, <1>5 DEF BeginCustody, ClaimStop, KillStopped, JudgeStopped, WriteCancelled, SettleStop,
                    RespawnStopped, PublishPending, PublishMiss, execVars
<1> QED BY <1>1, <1>4, <1>5 DEF CustodyStep

\* Every step stays within the frame of the rows.
LEMMA StepTasks ==
    ASSUME TypesInv, [CustodyNext]_sysVars
    PROVE  \A u \in Task : TaskFrame(u)
<1>t. result \in [Task -> Outcome] /\ "cancelled" \in Outcome \ {"none"}
  BY DEF TypesInv, TypeInv, ExecTypeOK, Outcome
<1>1. ASSUME NEW t \in Task, DropCancelledPending(t) PROVE \A u \in Task : TaskFrame(u)
  <2>1. result' = result \/ result' = Written(t, "cancelled")
    BY <1>1 DEF DropCancelledPending
  <2>2. \A u \in Task : Terminal(u) => result'[u] # "none"
    BY <1>t, <2>1, WrittenStands DEF Terminal
  <2> QED BY <1>1, <2>2, TasksLeftAlone DEF DropCancelledPending
<1>2. CASE (\E t \in Task : RequestStop(t)) \/ RetainJob \/ (\E job \in deferred : ReplayJob(job))
           \/ UNCHANGED sysVars
  <2>1. UNCHANGED <<pending, launch, running, attempt, result, custody>>
    BY <1>2 DEF RequestStop, RetainJob, ReplayJob, sysVars, execVars, custodyVars
  <2> QED BY <2>1, TasksLeftAlone DEF Terminal
<1> QED BY <1>1, <1>2, SupervisorTasks, ReaperTasks, CustodyTasks DEF CustodyNext

\* Where a job of the reaper is.
LEMMA JobPlaces ==
    ASSUME NEW job
    PROVE  job \in AllJobs <=> \/ \E i \in 1..Len(jobs) : job = jobs[i]
                               \/ job \in deferred
                               \/ reaper.phase # "idle" /\ job = reaper.job
BY DEF AllJobs

\* A job that is appended is the only new one.
LEMMA JobAppended ==
    ASSUME TypesInv, NEW new \in Job, jobs' = Append(jobs, new), reaper' = reaper, deferred' = deferred
    PROVE  \A job \in AllJobs' : job \in AllJobs \/ job = new
<1>1. jobs \in Seq(Job)
  BY DEF TypesInv, TypeInv, ExecTypeOK
<1>2. ASSUME NEW job \in AllJobs' PROVE job \in AllJobs \/ job = new
  <2>1. ASSUME NEW i \in 1..Len(jobs'), job = jobs'[i] PROVE job \in AllJobs \/ job = new
    BY <1>1, <2>1, Appended, JobPlaces
  <2> QED BY <1>2, <2>1 DEF AllJobs
<1> QED BY <1>2

\* Jobs move between the queue, the reaper's hands and the retained ones.
LEMMA JobsStayJobs ==
    ASSUME TypesInv, ReapStep \/ RetainJob \/ (\E job \in deferred : ReplayJob(job))
    PROVE  AllJobs' \subseteq AllJobs
<1>t. jobs \in Seq(Job) /\ deferred \subseteq Job
  BY DEF TypesInv, TypeInv, ExecTypeOK, CustodyTypeOK
<1>1. CASE RetainJob
  BY <1>1 DEF RetainJob, StopReaping, AllJobs
<1>2. ASSUME NEW new \in deferred, ReplayJob(new) PROVE AllJobs' \subseteq AllJobs
  BY <1>2, <1>t, JobAppended, JobPlaces DEF ReplayJob
<1>3. CASE ReapStep
  <2>0. deferred' \subseteq deferred /\ ReaperStep
    BY <1>3 DEF ReapStep
  <2>1. CASE /\ reaper.phase # "idle" /\ jobs' = jobs
             /\ reaper'.phase = "idle" \/ reaper'.job = reaper.job
    BY <2>0, <2>1 DEF AllJobs
  <2>2. CASE /\ reaper.phase = "idle" /\ jobs # <<>> /\ jobs' = Tail(jobs)
             /\ reaper'.phase = "idle" \/ reaper'.job = Head(jobs)
    <3>1. /\ \E k \in 1..Len(jobs) : Head(jobs) = jobs[k]
          /\ \A i \in 1..Len(jobs') : \E k \in 1..Len(jobs) : jobs'[i] = jobs[k]
      BY <1>t, <2>2, Taken
    <3>2. ASSUME NEW job \in AllJobs' PROVE job \in AllJobs
      BY <2>0, <2>2, <3>1, <3>2 DEF AllJobs
    <3> QED BY <3>2
  <2> QED BY <2>0, <2>1, <2>2, ReaperMovesOn
<1> QED BY <1>1, <1>2, <1>3

\* Every step stays within the frame of the jobs.
LEMMA StepJobFrame ==
    ASSUME TypesInv, [CustodyNext]_sysVars
    PROVE  JobFrame
<1>t. slots \in [Slot -> Worker] /\ attempt \in [Task -> Nat] /\ running \in [Task -> Slot \cup {NoSlot}]
  BY DEF TypesInv, TypeInv, ExecTypeOK
<1>1. ASSUME NEW s \in Slot, SupervisorStep, ReserveDeadSlot(s) PROVE JobFrame
  <2>0. PICK new : new = [kind |-> "dead", slot |-> s, life |-> slots[s].life, task |-> slots[s].busy,
                          row |-> IF slots[s].busy # NoTask /\ running[slots[s].busy] # NoSlot
                                  THEN attempt[slots[s].busy] ELSE 0]
    OBVIOUS
  <2>1. new \in Job /\ new.slot = s /\ new.life = slots[s].life
    BY <2>0, <1>t DEF Worker, Job
  <2>2. jobs' = Append(jobs, new) /\ reaper' = reaper /\ deferred' = deferred
    BY <1>1, <2>0 DEF ReserveDeadSlot, SupervisorStep, custodyVars
  <2>3. slots[s].mode = "open" /\ slots'[s].life = slots[s].life
    BY <1>1, <1>t, SlotFields DEF ReserveDeadSlot
  <2> QED BY <2>1, <2>2, <2>3, JobAppended DEF JobFrame, On
<1>2. ASSUME NEW t \in Task, SupervisorStep, Timeout(t) PROVE JobFrame
  <2>0. PICK s \in Slot : s = running[t]
    BY <1>2, <1>t DEF Timeout
  <2>n. PICK new : new = [kind |-> "timeout", slot |-> s, life |-> slots[s].life, task |-> t, row |-> attempt[t]]
    OBVIOUS
  <2>1. new \in Job /\ new.slot = s /\ new.life = slots[s].life
    BY <2>n, <1>t DEF Worker, Job
  <2>2. jobs' = Append(jobs, new) /\ reaper' = reaper /\ deferred' = deferred
    BY <1>2, <2>0, <2>n DEF Timeout, SupervisorStep, custodyVars
  <2>3. slots'[s].busy = NoTask /\ slots'[s].life = slots[s].life
    BY <1>2, <1>t, <2>0, SlotFields DEF Timeout
  <2> QED BY <2>1, <2>2, <2>3, JobAppended DEF JobFrame, On
<1>3. CASE UNCHANGED <<jobs, reaper, deferred>>
  BY <1>3 DEF JobFrame, AllJobs
<1>4. CASE SupervisorStep
  BY <1>1, <1>2, <1>3, <1>4
     DEF SupervisorStep, custodyVars, ClaimLaunch, BindLaunch, ReleaseLaunch, Complete, ReportDone,
         WorkerDies, LeaveBoot, HandleTaskDone
<1>5. ASSUME NEW t \in Task, RequestStop(t) \/ CustodyStep(t) \/ DropCancelledPending(t) PROVE JobFrame
  BY <1>3, <1>5, CustodyLeavesJobs
<1>6. CASE UNCHANGED sysVars
  BY <1>3, <1>6 DEF sysVars, execVars, custodyVars
<1> QED BY <1>4, <1>5, <1>6, JobsStayJobs DEF CustodyNext, JobFrame

\* The steps that are not the reaper's leave it at what it is, or empty its hands.
LEMMA ReaperWaits ==
    ASSUME [CustodyNext]_sysVars, ~ReapStep
    PROVE  reaper' = reaper \/ (RetainJob /\ reaper'.phase = "idle")
<1>1. CASE SupervisorStep
  BY <1>1 DEF SupervisorStep, ClaimLaunch, BindLaunch, ReleaseLaunch, Complete, ReportDone, WorkerDies,
              LeaveBoot, HandleTaskDone, ReserveDeadSlot, Timeout
<1>2. CASE RetainJob
  BY <1>2 DEF RetainJob, StopReaping
<1>3. CASE \E job \in deferred : ReplayJob(job)
  BY <1>3 DEF ReplayJob
<1>4. CASE UNCHANGED sysVars
  BY <1>4 DEF sysVars, execVars
<1> QED BY <1>1, <1>2, <1>3, <1>4, CustodyLeavesJobs DEF CustodyNext

\* Every step stays within the frame of the reaper.
LEMMA StepReaperFrame ==
    ASSUME TypesInv, [CustodyNext]_sysVars
    PROVE  ReaperFrame
<1>0. reaper \in [phase : Phase, job : Job \cup {NoJob}]
  BY DEF TypesInv, TypeInv, ExecTypeOK
<1>1. CASE ~ReapStep
  BY <1>1, ReaperWaits DEF ReaperFrame
<1>2. CASE InspectDeadJob
  BY <1>0, <1>2 DEF InspectDeadJob, StopReaping, Goto, ReaperFrame
<1>3. CASE DecideCrash
  BY <1>0, <1>3 DEF DecideCrash, Goto, ReaperFrame
<1>4. CASE TakeJob
  BY <1>4, ReaperMovesOn DEF ReaperStep, TakeJob, ReaperFrame
<1>5. CASE FailCrashed \/ WithdrawCrashed \/ RetryCrashed \/ RespawnSlot \/ KillTimedOut \/ FinishTimedOut
  <2>1. reaper'.phase \notin {"policy", "retry"}
    BY <1>0, <1>5 DEF FailCrashed, WithdrawCrashed, RetryCrashed, RespawnSlot, KillTimedOut, FinishTimedOut,
                      RecoverReplacedFiles, StopReaping, Goto
  <2> QED BY <2>1 DEF ReaperFrame
<1> QED BY <1>1, <1>2, <1>3, <1>4, <1>5 DEF ReapStep, ReaperStep

\* Every step stays within the frame.
LEMMA StepFrame ==
    ASSUME TypesInv, [CustodyNext]_sysVars
    PROVE  CustodyFrame
BY StepSlots, StepTasks, StepJobFrame, StepReaperFrame DEF CustodyFrame

-----------------------------------------------------------------------------
\* The jobs that the crash detector and a hard bound queue.
DeadJobOf(s) ==
    [kind |-> "dead", slot |-> s, life |-> slots[s].life, task |-> slots[s].busy,
     row |-> IF slots[s].busy # NoTask /\ running[slots[s].busy] # NoSlot
             THEN attempt[slots[s].busy] ELSE 0]

LateJobOf(t) ==
    [kind |-> "timeout", slot |-> running[t], life |-> slots[running[t]].life,
     task |-> t, row |-> attempt[t]]

\* All the jobs are jobs.
LEMMA AllJobsTyped ==
    ASSUME TypesInv
    PROVE  \A job \in AllJobs : job \in Job /\ NamesTask(job)
<1>1. /\ jobs \in Seq(Job) /\ deferred \subseteq Job
      /\ \A i \in 1..Len(jobs) : jobs[i] \in Job /\ NamesTask(jobs[i])
      /\ reaper.phase # "idle" => reaper.job \in Job /\ NamesTask(reaper.job)
      /\ \A job \in deferred : NamesTask(job)
  BY DEF TypesInv, TypeInv, ExecTypeOK, CustodyTypeOK, JobsWellFormed
<1> QED BY <1>1 DEF AllJobs

\* Only these two add a job.
LEMMA JobsCome ==
    ASSUME TypesInv, [CustodyNext]_sysVars
    PROVE  \/ AllJobs' \subseteq AllJobs
           \/ \E s \in Slot : /\ SupervisorStep /\ ReserveDeadSlot(s)
                              /\ \A job \in AllJobs' : job \in AllJobs \/ job = DeadJobOf(s)
           \/ \E t \in Task : /\ SupervisorStep /\ Timeout(t) /\ running[t] \in Slot
                              /\ \A job \in AllJobs' : job \in AllJobs \/ job = LateJobOf(t)
<1>t. slots \in [Slot -> Worker] /\ attempt \in [Task -> Nat] /\ running \in [Task -> Slot \cup {NoSlot}]
  BY DEF TypesInv, TypeInv, ExecTypeOK
<1>1. ASSUME NEW s \in Slot, SupervisorStep, ReserveDeadSlot(s)
      PROVE  \A job \in AllJobs' : job \in AllJobs \/ job = DeadJobOf(s)
  <2>1. DeadJobOf(s) \in Job
    BY <1>t DEF DeadJobOf, Worker, Job
  <2>2. jobs' = Append(jobs, DeadJobOf(s)) /\ reaper' = reaper /\ deferred' = deferred
    BY <1>1 DEF ReserveDeadSlot, DeadJobOf, SupervisorStep, custodyVars
  <2> QED BY <2>1, <2>2, JobAppended
<1>2. ASSUME NEW t \in Task, SupervisorStep, Timeout(t)
      PROVE  running[t] \in Slot /\ \A job \in AllJobs' : job \in AllJobs \/ job = LateJobOf(t)
  <2>0. running[t] \in Slot
    BY <1>2, <1>t DEF Timeout
  <2>1. LateJobOf(t) \in Job
    BY <1>t, <2>0 DEF LateJobOf, Worker, Job
  <2>2. jobs' = Append(jobs, LateJobOf(t)) /\ reaper' = reaper /\ deferred' = deferred
    BY <1>2 DEF Timeout, LateJobOf, SupervisorStep, custodyVars
  <2> QED BY <2>0, <2>1, <2>2, JobAppended
<1>3. ASSUME UNCHANGED <<jobs, reaper, deferred>> PROVE AllJobs' \subseteq AllJobs
  BY <1>3 DEF AllJobs
<1>4. CASE SupervisorStep
  BY <1>1, <1>2, <1>3, <1>4
     DEF SupervisorStep, custodyVars, ClaimLaunch, BindLaunch, ReleaseLaunch, Complete, ReportDone,
         WorkerDies, LeaveBoot, HandleTaskDone
<1>5. ASSUME NEW t \in Task, RequestStop(t) \/ CustodyStep(t) \/ DropCancelledPending(t)
      PROVE  AllJobs' \subseteq AllJobs
  BY <1>3, <1>5, CustodyLeavesJobs
<1>6. CASE UNCHANGED sysVars
  BY <1>3, <1>6 DEF sysVars, execVars, custodyVars
<1> QED BY <1>4, <1>5, <1>6, JobsStayJobs DEF CustodyNext

\* A job on the process of a slot was on the same process before.
LEMMA OnStays ==
    ASSUME TypesInv, CustodyFrame, NEW job \in Job, JobHolds(job)
    PROVE  /\ job.life <= slots'[job.slot].life
           /\ job.life = slots'[job.slot].life =>
                 /\ job.life = slots[job.slot].life
                 /\ slots'[job.slot].life = slots[job.slot].life
<1>1. job.slot \in Slot /\ job.life \in Nat /\ slots[job.slot].life \in Nat
  BY DEF TypesInv, TypeInv, ExecTypeOK, Job, Worker
<1>2. \/ slots'[job.slot].life = slots[job.slot].life + 1
      \/ slots'[job.slot].life = slots[job.slot].life
  BY <1>1 DEF CustodyFrame, SlotFrame
<1> QED BY <1>1, <1>2 DEF JobHolds

\* A captured job holds through every step.
LEMMA JobStays ==
    ASSUME CustodyInv, CustodyFrame, NEW job \in Job, JobHolds(job), NamesTask(job)
    PROVE  JobHolds(job)'
<1> DEFINE s == job.slot
<1>t. s \in Slot /\ job.task \in Task \cup {NoTask} /\ NoSlot \notin Slot /\ NoTask \notin Task
  BY NullTaskAssumption DEF Job
<1>0. TypesInv
  BY DEF CustodyInv
<1>l. /\ job.life <= slots'[s].life
      /\ job.life = slots'[s].life => /\ job.life = slots[s].life
                                      /\ slots'[s].life = slots[s].life
  BY <1>0, OnStays
<1>f. SlotFrame(s)
  BY <1>t DEF CustodyFrame
<1>1. ASSUME job.kind = "dead", job.life = slots'[s].life
      PROVE  /\ ~slots'[s].alive
             /\ slots'[s].busy \in {job.task, NoTask}
             /\ job.task # NoTask /\ running'[job.task] = s => attempt'[job.task] = job.row
  <2>1. /\ ~slots[s].alive /\ slots[s].busy \in {job.task, NoTask}
        /\ job.task # NoTask /\ running[job.task] = s => attempt[job.task] = job.row
    BY <1>1, <1>l DEF JobHolds
  <2>2. slots'[s].life # slots[s].life + 1
    <3>1. slots[s].life \in Nat
      BY <1>0, <1>t DEF TypesInv, TypeInv, ExecTypeOK, Worker
    <3> QED BY <1>1, <1>l, <3>1
  <2>3. ~slots'[s].alive /\ slots'[s].busy \in {slots[s].busy, NoTask}
    BY <1>f, <2>1, <2>2 DEF SlotFrame, WorkerReady
  <2>4. ASSUME job.task # NoTask, running'[job.task] = s
        PROVE  attempt'[job.task] = job.row
    <3>1. TaskFrame(job.task)
      BY <1>t, <2>4 DEF CustodyFrame
    <3>2. running[job.task] = s
      BY <1>t, <2>1, <2>4, <3>1 DEF TaskFrame, Starts, WorkerReady
    <3>3. attempt'[job.task] = attempt[job.task]
      BY <1>t, <2>4, <3>1 DEF TaskFrame
    <3> QED BY <2>1, <2>4, <3>2, <3>3
  <2> QED BY <2>1, <2>3, <2>4
<1>2. ASSUME job.kind = "timeout"
      PROVE  /\ running'[job.task] = NoSlot
             /\ job.task \notin pending'
             /\ custody'[job.task].pc # "pending"
  <2>1. /\ job.task \in Task /\ running[job.task] = NoSlot /\ job.task \notin pending
        /\ custody[job.task].pc # "pending"
    BY <1>2 DEF JobHolds, NamesTask
  <2>2. TaskFrame(job.task)
    BY <2>1 DEF CustodyFrame
  <2>3. ~(reaper.phase = "retry" /\ reaper.job.task = job.task /\ DeadJobCurrent(reaper.job))
    <3>1. reaper.phase = "retry" => reaper.job.row # 0 /\ reaper.job.slot \in Slot
      BY <1>0 DEF TypesInv, TypeInv, JobsWellFormed, DeadPhase, Job
    <3> QED BY <1>t, <2>1, <3>1 DEF DeadJobCurrent
  <2> QED BY <1>t, <2>1, <2>2, <2>3 DEF TaskFrame, Starts
<1>3. ASSUME job.kind = "timeout", job.life = slots'[s].life
      PROVE  slots'[s].busy = NoTask /\ (slots'[s].mode = "reaping" \/ ~slots'[s].alive)
  <2>1. slots[s].busy = NoTask /\ (slots[s].mode = "reaping" \/ ~slots[s].alive) /\ On(job, s)
    BY <1>3, <1>l DEF JobHolds, On
  <2>2. slots'[s].life # slots[s].life + 1
    <3>1. slots[s].life \in Nat
      BY <1>0, <1>t DEF TypesInv, TypeInv, ExecTypeOK, Worker
    <3> QED BY <1>3, <1>l, <3>1
  <2>3. slots'[s].busy = NoTask /\ (slots'[s].alive => slots[s].alive)
    BY <1>f, <2>1, <2>2 DEF SlotFrame, WorkerReady
  <2>4. ASSUME slots[s].alive PROVE ~HandsOff(s)
    <3>1. ~(reaper.phase = "respawn" /\ On(reaper.job, s))
      BY <2>4 DEF CustodyInv, ReaperKnows, On
    <3>2. ASSUME NEW t \in Task, custody[t].pc \in {"kill", "judge", "write", "respawn"},
                 custody[t].slot = s, SameWorker(t)
          PROVE  FALSE
      <4>1. CASE custody[t].pc = "respawn"
        BY <2>4, <3>2, <4>1 DEF CustodyInv, Captures, LeftWorker, Leaving
      <4>2. CASE custody[t].pc # "respawn"
        BY <1>t, <2>1, <3>2, <4>2 DEF CustodyInv, Captures, CapturedWorker, Held
      <4> QED BY <4>1, <4>2
    <3> QED BY <3>1, <3>2 DEF HandsOff, Respawns, Ends
  <2>5. slots'[s].alive => slots'[s].mode = "reaping"
    BY <1>f, <2>1, <2>2, <2>3, <2>4 DEF SlotFrame
  <2> QED BY <2>3, <2>5
<1>4. job.kind = "timeout" => job.row # 0
  BY DEF JobHolds
<1> QED BY <1>l, <1>1, <1>2, <1>3, <1>4 DEF JobHolds

\* Captured jobs hold, and a job holds from its capture on.
LEMMA StepJobsHold ==
    ASSUME CustodyInv, [CustodyNext]_sysVars, CustodyFrame
    PROVE  JobsHold'
<1>0. TypesInv /\ JobsHold /\ NoSlot \notin Slot
  BY NullTaskAssumption DEF CustodyInv
<1>t. /\ slots \in [Slot -> Worker] /\ attempt \in [Task -> Nat] /\ running \in [Task -> Slot \cup {NoSlot}]
      /\ \A s \in Slot : slots[s].life \in Nat
  BY <1>0 DEF TypesInv, TypeInv, ExecTypeOK, Worker
<1>1. ASSUME NEW job \in AllJobs PROVE JobHolds(job)'
  BY <1>0, <1>1, JobStays, AllJobsTyped DEF JobsHold
<1>2. ASSUME NEW s \in Slot, SupervisorStep, ReserveDeadSlot(s), NEW job, job = DeadJobOf(s)
      PROVE  JobHolds(job)'
  <2>1. /\ job.kind = "dead" /\ job.slot = s /\ job.life = slots[s].life /\ job.task = slots[s].busy
        /\ job.task # NoTask /\ running[job.task] # NoSlot => job.row = attempt[job.task]
    BY <1>2 DEF DeadJobOf
  <2>2. slots'[s].life = slots[s].life /\ slots'[s].busy = slots[s].busy /\ slots'[s].alive = slots[s].alive
    BY <1>2, <1>t, SlotFields DEF ReserveDeadSlot
  <2>3. running' = running /\ attempt' = attempt /\ ~slots[s].alive
    BY <1>2 DEF ReserveDeadSlot
  <2> QED BY <1>0, <1>t, <2>1, <2>2, <2>3 DEF JobHolds
<1>3. ASSUME NEW t \in Task, SupervisorStep, Timeout(t), running[t] \in Slot, NEW job, job = LateJobOf(t)
      PROVE  JobHolds(job)'
  <2>0. PICK s \in Slot : s = running[t]
    BY <1>3
  <2>1. job.kind = "timeout" /\ job.slot = s /\ job.life = slots[s].life /\ job.task = t /\ job.row = attempt[t]
    BY <1>3, <2>0 DEF LateJobOf
  <2>2. slots'[s].life = slots[s].life /\ slots'[s].busy = NoTask /\ slots'[s].mode = "reaping"
    <3>1. slots' = [slots EXCEPT ![s].busy = NoTask, ![s].mode = "reaping"]
      BY <1>3, <2>0 DEF Timeout
    <3> QED BY <3>1, <1>t, SlotFields
  <2>3. running'[t] = NoSlot /\ pending' = pending /\ custody' = custody
    BY <1>3, <1>t DEF Timeout, SupervisorStep, custodyVars
  <2>4. t \notin pending /\ custody[t].pc # "pending" /\ attempt[t] # 0
    BY <1>0, <1>3 DEF CustodyInv, CustodyRows, Places, Placed, TypesInv
  <2> QED BY <1>t, <2>1, <2>2, <2>3, <2>4 DEF JobHolds
<1> QED BY <1>0, <1>1, <1>2, <1>3, JobsCome DEF JobsHold

-----------------------------------------------------------------------------
\* What the reaper knows stands while others act.
LEMMA KnowledgeStays ==
    ASSUME CustodyInv, CustodyFrame, TypesInv', reaper' = reaper
    PROVE  ReaperKnows'
<1>0. TypesInv /\ ReaperKnows
  BY DEF CustodyInv
<1>1. CASE reaper.phase \notin {"withdraw", "finish", "respawn"}
  BY <1>1 DEF ReaperKnows
<1>2. CASE reaper.phase \in {"withdraw", "finish", "respawn"}
  <2>0. PICK job : job = reaper.job
    OBVIOUS
  <2>1. job \in Job /\ NamesTask(job) /\ JobHolds(job) /\ job.slot \in Slot
    <3>1. job \in AllJobs
      BY <1>2, <2>0 DEF AllJobs
    <3> QED BY <1>0, <3>1, AllJobsTyped DEF CustodyInv, JobsHold, Job
  <2>2. reaper.phase = "withdraw" => job.task \in Task
    BY <1>0, <2>0 DEF TypesInv, TypeInv, JobsWellFormed, DeadPhase, NamesTask
  <2>3. reaper.phase = "withdraw" => result'[job.task] # "none"
    BY <1>0, <2>0, <2>2 DEF CustodyFrame, TaskFrame, ReaperKnows
  <2>4. ASSUME reaper.phase \in {"finish", "respawn"}, job.life = slots'[job.slot].life
        PROVE  /\ ~slots[job.slot].alive /\ ~slots'[job.slot].alive
               /\ job.life = slots[job.slot].life
    <3>1. job.life = slots[job.slot].life /\ slots'[job.slot].life = slots[job.slot].life
      BY <1>0, <2>1, <2>4, OnStays
    <3>2. ~slots[job.slot].alive
      BY <1>0, <2>0, <2>4, <3>1 DEF ReaperKnows, On
    <3>3. slots'[job.slot].life # slots[job.slot].life + 1
      BY <1>0, <2>1, <3>1 DEF TypesInv, TypeInv, ExecTypeOK, Worker
    <3> QED BY <2>1, <3>1, <3>2, <3>3 DEF CustodyFrame, SlotFrame
  <2>5. ASSUME reaper.phase = "respawn", job.life = slots'[job.slot].life,
               NEW u \in Task, running'[u] = job.slot
        PROVE  result'[u] # "none"
    <3>1. ~slots[job.slot].alive /\ job.life = slots[job.slot].life
      BY <2>4, <2>5
    <3>2. TaskFrame(u) /\ NoSlot # job.slot
      BY <2>1, NullTaskAssumption DEF CustodyFrame
    <3>3. running[u] = job.slot
      BY <2>5, <3>1, <3>2 DEF TaskFrame, Starts, WorkerReady
    <3> QED BY <1>0, <2>0, <2>5, <3>1, <3>2, <3>3 DEF TaskFrame, ReaperKnows, On
  <2> QED BY <2>0, <2>3, <2>4, <2>5 DEF ReaperKnows, On, Terminal
<1> QED BY <1>1, <1>2

\* Who runs on the slot of a dead process: the task of its job, or a finished one.
LEMMA RowsOnDead ==
    ASSUME CustodyInv, reaper.phase # "idle", On(reaper.job, reaper.job.slot),
           reaper.job.kind = "dead" \/ reaper.phase = "finish",
           NEW u \in Task, running[u] = reaper.job.slot
    PROVE  /\ ~slots[reaper.job.slot].alive
           /\ \/ Terminal(u)
              \/ /\ reaper.job.kind = "dead" /\ u = reaper.job.task
                 /\ slots[reaper.job.slot].busy = u /\ attempt[u] = reaper.job.row
<1>0. PICK job : job = reaper.job
  OBVIOUS
<1>1. job \in Job /\ job.slot \in Slot /\ NoSlot \notin Slot /\ NoTask \notin Task /\ job.task \in Task \cup {NoTask}
  BY <1>0, NullTaskAssumption DEF CustodyInv, TypesInv, TypeInv, JobsWellFormed, Job
<1>2. JobHolds(job)
  BY <1>0 DEF CustodyInv, JobsHold, AllJobs
<1>3. slots[job.slot].busy = u \/ Terminal(u)
  BY <1>0, <1>1 DEF CustodyInv, CustodyRows
<1>4. CASE job.kind = "dead"
  BY <1>0, <1>1, <1>2, <1>3, <1>4 DEF JobHolds, On
<1>5. CASE reaper.phase = "finish"
  <2>1. job.kind = "timeout"
    BY <1>0, <1>5 DEF CustodyInv, TypesInv, TypeInv, JobsWellFormed, TimeoutPhase
  <2>2. slots[job.slot].busy = NoTask
    BY <1>0, <1>2, <2>1 DEF JobHolds, On
  <2>3. ~slots[job.slot].alive
    BY <1>0, <1>5 DEF CustodyInv, ReaperKnows
  <2> QED BY <1>0, <1>1, <1>3, <2>2, <2>3
<1> QED BY <1>0, <1>4, <1>5

\* What the reaper comes to know at a step of its own.
LEMMA ReaperLearns ==
    ASSUME CustodyInv, CustodyFrame, TypesInv', ReapStep
    PROVE  ReaperKnows'
<1>0. /\ reaper \in [phase : Phase, job : Job \cup {NoJob}]
      /\ NoSlot \notin Slot /\ NoTask \notin Task
      /\ running \in [Task -> Slot \cup {NoSlot}] /\ slots \in [Slot -> Worker]
      /\ result \in [Task -> Outcome] /\ jobs \in Seq(Job)
  BY NullTaskAssumption DEF CustodyInv, TypesInv, TypeInv, ExecTypeOK
<1>d. reaper.phase \in DeadPhase => /\ reaper.job.kind = "dead" /\ reaper.job.row # 0
                                    /\ reaper.job.task \in Task /\ reaper.job.slot \in Slot
  BY DEF CustodyInv, TypesInv, TypeInv, JobsWellFormed, DeadPhase, NamesTask, Job
<1>a. reaper.phase # "idle" /\ reaper.job.kind = "dead" /\ On(reaper.job, reaper.job.slot) =>
         ~slots[reaper.job.slot].alive
  BY DEF CustodyInv, JobsHold, AllJobs, JobHolds, On
<1>r. ASSUME reaper.phase # "idle", reaper.job.kind = "dead" \/ reaper.phase = "finish",
             UNCHANGED slots, reaper'.phase = "respawn", reaper'.job = reaper.job,
             \A u \in Task : running'[u] \in {running[u], NoSlot} /\ (Terminal(u) => result'[u] # "none"),
             \A u \in Task : /\ running'[u] = reaper.job.slot
                             /\ reaper.job.kind = "dead" /\ u = reaper.job.task
                             /\ slots[reaper.job.slot].busy = u /\ attempt[u] = reaper.job.row
                             /\ On(reaper.job, reaper.job.slot)
                             => Terminal(u)
      PROVE  ReaperKnows'
  <2>1. ASSUME On(reaper.job, reaper.job.slot) PROVE ~slots[reaper.job.slot].alive
    BY <1>a, <1>r, <2>1 DEF CustodyInv, ReaperKnows
  <2>2. ASSUME On(reaper.job, reaper.job.slot), NEW u \in Task, running'[u] = reaper.job.slot
        PROVE  Terminal(u)
    <3>1. reaper.job.slot \in Slot
      BY <1>r DEF CustodyInv, TypesInv, TypeInv, JobsWellFormed, Job
    <3>2. running[u] = reaper.job.slot
      BY <1>0, <1>r, <2>2, <3>1
    <3> QED BY <1>r, <2>2, <3>2, RowsOnDead
  <2> QED BY <1>r, <2>1, <2>2 DEF ReaperKnows, On, Terminal
<1>1. CASE TakeJob
  <2>0. PICK job : job = Head(jobs)
    OBVIOUS
  <2>1. CASE reaper' = [phase |-> "respawn", job |-> job] /\ job.kind = "dead" /\ DeadJobCurrent(job) /\ job.row = 0
    <3>1. job \in Job /\ job.slot \in Slot
      <4>1. job \in Job
        BY <1>0, <1>1, <2>0, Taken DEF TakeJob
      <4> QED BY <4>1 DEF Job
    <3>2. ~slots[job.slot].alive /\ slots[job.slot].busy = job.task
      BY <2>1 DEF DeadJobCurrent
    <3>3. ASSUME NEW u \in Task, running[u] = job.slot PROVE Terminal(u)
      <4>1. slots[job.slot].busy = u \/ Terminal(u)
        BY <1>0, <3>1, <3>3 DEF CustodyInv, CustodyRows
      <4>2. job.task = u => running[u] = NoSlot
        BY <1>0, <2>1, <3>3 DEF DeadJobCurrent
      <4> QED BY <1>0, <3>1, <3>2, <3>3, <4>1, <4>2
    <3>4. UNCHANGED <<slots, running, result>>
      BY <1>1 DEF TakeJob
    <3> QED BY <2>1, <3>2, <3>3, <3>4 DEF ReaperKnows, Terminal
  <2>2. CASE reaper'.phase \in {"idle", "inspect", "kill"}
    BY <2>2 DEF ReaperKnows
  <2>3. reaper = [phase |-> "idle", job |-> NoJob] \/ reaper.phase # "idle"
    BY <1>0 DEF CustodyInv, TypesInv
  <2> QED BY <1>1, <2>0, <2>1, <2>2, <2>3 DEF TakeJob, RecoverReplacedFiles, StopReaping
<1>2. CASE InspectDeadJob
  <2>1. CASE DeadJobCurrent(reaper.job) /\ Terminal(reaper.job.task) /\ Goto("respawn")
    <3>1. reaper'.phase = "respawn" /\ reaper'.job = reaper.job /\ UNCHANGED <<slots, running, result>>
      BY <1>0, <1>2, <2>1 DEF InspectDeadJob, Goto
    <3> QED BY <1>2, <1>d, <1>r, <2>1, <3>1 DEF InspectDeadJob, DeadPhase, Terminal
  <2>2. CASE StopReaping \/ Goto("policy")
    <3>1. reaper'.phase \in {"idle", "policy"}
      BY <1>0, <2>2 DEF StopReaping, Goto
    <3> QED BY <3>1 DEF ReaperKnows
  <2> QED BY <1>2, <2>1, <2>2 DEF InspectDeadJob
<1>3. CASE DecideCrash
  <2>1. CASE ~DeadJobCurrent(reaper.job) /\ Goto("respawn")
    <3>1. reaper'.phase = "respawn" /\ reaper'.job = reaper.job /\ UNCHANGED <<slots, running, result>>
      BY <1>0, <1>3, <2>1 DEF DecideCrash, Goto
    <3>2. ~slots[reaper.job.slot].alive \/ ~On(reaper.job, reaper.job.slot)
      BY <1>3, <1>a, <1>d DEF DecideCrash, DeadPhase
    <3>3. ASSUME NEW u \in Task, running'[u] = reaper.job.slot, u = reaper.job.task,
                 slots[reaper.job.slot].busy = u, attempt[u] = reaper.job.row,
                 On(reaper.job, reaper.job.slot)
          PROVE  FALSE
      BY <1>3, <1>d, <2>1, <3>1, <3>2, <3>3 DEF DecideCrash, DeadPhase, DeadJobCurrent, On
    <3> QED BY <1>3, <1>d, <1>r, <3>1, <3>3 DEF DecideCrash, DeadPhase, Terminal
  <2>2. CASE Goto("fail") \/ Goto("retry")
    <3>1. reaper'.phase \in {"fail", "retry"}
      BY <1>0, <2>2 DEF Goto
    <3> QED BY <3>1 DEF ReaperKnows
  <2> QED BY <1>3, <2>1, <2>2 DEF DecideCrash
<1>4. CASE FailCrashed
  <2>1. reaper'.phase = "withdraw" /\ reaper'.job = reaper.job
    BY <1>0, <1>4 DEF FailCrashed, Goto
  <2>2. result'[reaper.job.task] # "none"
    BY <1>0, <1>4, <1>d, WrittenStands DEF FailCrashed, DeadPhase, Outcome
  <2> QED BY <2>1, <2>2 DEF ReaperKnows, Terminal
<1>5. CASE WithdrawCrashed
  <2>1. reaper'.phase = "respawn" /\ reaper'.job = reaper.job /\ UNCHANGED <<slots, result>>
    BY <1>0, <1>5 DEF WithdrawCrashed, Goto
  <2>2. \A u \in Task : running'[u] \in {running[u], NoSlot}
    BY <1>0, <1>5, <1>d DEF WithdrawCrashed, DeadPhase
  <2>3. Terminal(reaper.job.task)
    BY <1>5 DEF WithdrawCrashed, CustodyInv, ReaperKnows
  <2> QED BY <1>5, <1>d, <1>r, <2>1, <2>2, <2>3 DEF WithdrawCrashed, DeadPhase, Terminal
<1>6. CASE RetryCrashed
  <2>1. reaper'.phase = "respawn" /\ reaper'.job = reaper.job /\ UNCHANGED <<slots, result>>
    BY <1>0, <1>6 DEF RetryCrashed, Goto
  <2>2. \A u \in Task : running'[u] \in {running[u], NoSlot}
    BY <1>0, <1>6, <1>d DEF RetryCrashed, DeadPhase
  <2>3. ASSUME NEW u \in Task, running'[u] = reaper.job.slot, u = reaper.job.task,
               slots[reaper.job.slot].busy = u, attempt[u] = reaper.job.row,
               On(reaper.job, reaper.job.slot)
        PROVE  FALSE
    <3>1. reaper.job.slot \in Slot /\ running[u] = reaper.job.slot /\ reaper.job.row # 0
      BY <1>0, <1>6, <1>d, <2>2, <2>3 DEF RetryCrashed, DeadPhase
    <3>2. DeadJobCurrent(reaper.job)
      BY <1>6, <1>a, <1>d, <2>3, <3>1 DEF RetryCrashed, DeadPhase, DeadJobCurrent, On
    <3>3. running'[u] = NoSlot
      BY <1>0, <1>6, <2>3, <3>2 DEF RetryCrashed
    <3> QED BY <1>0, <2>3, <3>1, <3>3
  <2> QED BY <1>6, <1>d, <1>r, <2>1, <2>2, <2>3 DEF RetryCrashed, DeadPhase, Terminal
<1>7. CASE RespawnSlot
  BY <1>7 DEF RespawnSlot, StopReaping, ReaperKnows
<1>8. CASE KillTimedOut
  <2>0. PICK s \in Slot : s = reaper.job.slot
    BY <1>8 DEF KillTimedOut, CustodyInv, TypesInv, TypeInv, JobsWellFormed, Job
  <2>1. CASE Goto("finish")
    <3>1. reaper'.phase = "finish" /\ reaper'.job = reaper.job
      BY <1>0, <2>1 DEF Goto
    <3>2. IF slots[s].life = reaper.job.life
          THEN slots' = [slots EXCEPT ![s].alive = FALSE, ![s].work = NoTask] ELSE slots' = slots
      BY <1>8, <2>0, <3>1 DEF KillTimedOut, StopReaping
    <3>3. slots'[s].life = reaper.job.life => ~slots'[s].alive
      <4>1. CASE slots[s].life = reaper.job.life
        <5>1. slots' = [slots EXCEPT ![s].alive = FALSE, ![s].work = NoTask]
          BY <3>2, <4>1
        <5> QED BY <1>0, <5>1, SlotFields
      <4> QED BY <3>2, <4>1
    <3> QED BY <2>0, <3>1, <3>3 DEF ReaperKnows, On
  <2>2. CASE StopReaping
    BY <2>2 DEF StopReaping, ReaperKnows
  <2> QED BY <1>8, <2>1, <2>2 DEF KillTimedOut
<1>9. CASE FinishTimedOut
  <2>1. CASE Goto("respawn") /\ result' = Written(reaper.job.task, "failed")
    <3>0. reaper.job.kind = "timeout" /\ reaper.job.task \in Task
      BY <1>9 DEF FinishTimedOut, CustodyInv, TypesInv, TypeInv, JobsWellFormed, TimeoutPhase, NamesTask
    <3>1. reaper'.phase = "respawn" /\ reaper'.job = reaper.job /\ UNCHANGED <<slots, running>>
      BY <1>0, <1>9, <2>1 DEF FinishTimedOut, Goto
    <3>2. \A u \in Task : Terminal(u) => result'[u] # "none"
      BY <1>0, <2>1, <3>0, WrittenStands DEF Outcome
    <3> QED BY <1>9, <1>r, <3>0, <3>1, <3>2 DEF FinishTimedOut
  <2>2. CASE StopReaping
    BY <2>2 DEF StopReaping, ReaperKnows
  <2> QED BY <1>9, <2>1, <2>2 DEF FinishTimedOut, RecoverReplacedFiles
<1> QED BY <1>1, <1>2, <1>3, <1>4, <1>5, <1>6, <1>7, <1>8, <1>9 DEF ReapStep, ReaperStep

\* The reaper may rely on what it knows, whoever acts between two of its steps.
LEMMA StepReaperKnows ==
    ASSUME CustodyInv, CustodyFrame, TypesInv', [CustodyNext]_sysVars
    PROVE  ReaperKnows'
<1>1. CASE reaper'.phase = "idle"
  BY <1>1 DEF ReaperKnows
<1> QED BY <1>1, ReaperWaits, KnowledgeStays, ReaperLearns

-----------------------------------------------------------------------------
\* The process of a slot is replaced when it is dead and its slot's rows have ended.
LEMMA WhoIsReplaced ==
    ASSUME CustodyInv, NEW s \in Slot, Respawns(s)
    PROVE  /\ ~slots[s].alive
           /\ \A t \in Task : running[t] = s => Terminal(t)
<1>r. NoTask \notin Task /\ NoSlot \notin Slot
  BY NullTaskAssumption
<1>1. CASE reaper.phase = "respawn" /\ On(reaper.job, s)
  BY <1>1 DEF CustodyInv, ReaperKnows, On
<1>2. ASSUME NEW t \in Task, custody[t].pc = "respawn", Ends(t, s)
      PROVE  /\ ~slots[s].alive
             /\ \A u \in Task : running[u] = s => Terminal(u)
  <2>1. ~slots[s].alive /\ slots[s].busy \in {NoTask, t} /\ Terminal(t)
    BY <1>2 DEF CustodyInv, Captures, LeftWorker, Leaving, Places, Placed, Ends
  <2>2. ASSUME NEW u \in Task, running[u] = s PROVE Terminal(u)
    BY <1>r, <2>1, <2>2 DEF CustodyInv, CustodyRows
  <2> QED BY <2>1, <2>2
<1> QED BY <1>1, <1>2 DEF Respawns

\* A slot is handed back open with a dead worker, or with the one its task is bound to.
LEMMA WhoIsHandedOff ==
    ASSUME CustodyInv, NEW s \in Slot, HandsOff(s)
    PROVE  /\ slots[s].alive => slots[s].work \in {slots[s].busy, NoTask} /\ slots[s].mode = "reaping"
           /\ slots[s].alive => slots[s].busy # NoTask
<1>1. CASE Respawns(s)
  BY <1>1, WhoIsReplaced
<1>2. ASSUME NEW t \in Task, custody[t].pc \in {"kill", "judge", "write"}, Ends(t, s)
      PROVE  slots[s].work \in {slots[s].busy, NoTask} /\ slots[s].mode = "reaping" /\ slots[s].busy # NoTask
  BY <1>2, NullTaskAssumption DEF CustodyInv, Captures, CapturedWorker, Held, Ends
<1> QED BY <1>1, <1>2 DEF HandsOff

\* No task at work comes back to the queue, and no row that is written.
LEMMA WhoIsQueued ==
    ASSUME CustodyInv, CustodyFrame, NEW t \in Task, t \in pending'
    PROVE  \/ t \in pending
           \/ running'[t] = NoSlot /\ \A s \in Slot : slots[s].work # t
<1>0. TaskFrame(t) /\ NoSlot \notin Slot /\ NoTask \notin Task
  BY NullTaskAssumption DEF CustodyFrame
<1>1. CASE custody[t].pc = "pending" /\ t \notin pending
  <2>1. running[t] = NoSlot /\ \A s \in Slot : slots[s].work # t
    BY <1>1 DEF CustodyInv, Places, Placed
  <2> QED BY <1>0, <1>1, <2>1 DEF TaskFrame, Starts
<1>2. CASE reaper.phase = "retry" /\ reaper.job.task = t /\ DeadJobCurrent(reaper.job) /\ running'[t] = NoSlot
  <2>1. reaper.job.row # 0 /\ reaper.job.slot \in Slot
    BY <1>2 DEF CustodyInv, TypesInv, TypeInv, JobsWellFormed, DeadPhase, Job
  <2>2. running[t] = reaper.job.slot /\ ~slots[reaper.job.slot].alive
    BY <1>0, <1>2, <2>1 DEF DeadJobCurrent
  <2>3. ASSUME NEW s \in Slot, slots[s].work = t PROVE FALSE
    BY <1>0, <2>1, <2>2, <2>3 DEF CustodyInv, CustodyRows
  <2> QED BY <1>2, <2>3
<1> QED BY <1>0, <1>1, <1>2 DEF TaskFrame

\* A slot that keeps its process frees its task only with the row.
LEMMA WhoIsFreed ==
    ASSUME CustodyInv, CustodyFrame, NEW s \in Slot, slots[s].busy \in Task, Frees(s)
    PROVE  /\ running'[slots[s].busy] = NoSlot \/ running[slots[s].busy] = NoSlot
           /\ slots[s].work # slots[s].busy \/ slots'[s].mode = "reaping"
<1>1. CASE launch[slots[s].busy] = s
  BY <1>1, NullTaskAssumption DEF CustodyInv, CustodyRows
<1>2. CASE running'[slots[s].busy] = NoSlot /\ \E e \in bus : e.slot = s /\ e.task = slots[s].busy
  BY <1>2 DEF CustodyInv, EventsHold, EventHolds
<1>3. CASE running'[slots[s].busy] = NoSlot /\ slots'[s].mode = "reaping"
  BY <1>3
<1> QED BY <1>1, <1>2, <1>3 DEF Frees

\* A process at work after a step was at it before, or has just been started.
LEMMA WhoIsAtWork ==
    ASSUME CustodyInv, CustodyFrame, TypesInv', NEW s \in Slot, NEW t \in Task, slots'[s].work = t
    PROVE  /\ slots'[s].life = slots[s].life
           /\ slots'[s].alive
           /\ \/ slots[s].work = t /\ t \notin pending /\ running[t] \in {s, NoSlot} /\ slots[s].alive
              \/ /\ Starts(t, s) /\ slots[s].work = NoTask /\ running[t] = NoSlot /\ launch'[t] = NoSlot
                 /\ running'[t] = s /\ \A r \in Slot : slots[r].work # t
<1>0. SlotFrame(s) /\ NoTask \notin Task /\ NoSlot \notin Slot
  BY NullTaskAssumption DEF CustodyFrame
<1>1. CASE slots[s].work = t
  <2>1. t \notin pending /\ running[t] \in {s, NoSlot} /\ slots[s].alive
    BY <1>0, <1>1 DEF CustodyInv, CustodyRows
  <2>2. slots'[s].life = slots[s].life
    BY <1>0 DEF SlotFrame
  <2>3. slots'[s].alive
    BY <1>0, <1>1, <2>1 DEF SlotFrame
  <2> QED BY <1>1, <2>1, <2>2, <2>3
<1>2. CASE slots[s].work # t
  <2>1. Starts(t, s) /\ slots'[s].life = slots[s].life /\ slots'[s].alive
    BY <1>0, <1>2 DEF SlotFrame, Starts, WorkerReady
  <2>2. t \in pending /\ slots[s].busy = t /\ slots[s].mode = "open"
    BY <2>1 DEF Starts, WorkerReady
  <2>3. running[t] = NoSlot /\ \A r \in Slot : slots[r].work # t
    BY <1>0, <2>2 DEF CustodyInv, CustodyRows
  <2>4. slots[s].work = NoTask
    BY <1>2, <2>2 DEF CustodyInv, CustodyRows
  <2> QED BY <2>1, <2>3, <2>4 DEF Starts
<1> QED BY <1>1, <1>2

\* Rows and processes agree after every step.
LEMMA StepCustodyRows ==
    ASSUME CustodyInv, CustodyFrame, TypesInv'
    PROVE  CustodyRows'
<1>t. /\ NoTask \notin Task /\ NoSlot \notin Slot
      /\ running \in [Task -> Slot \cup {NoSlot}] /\ running' \in [Task -> Slot \cup {NoSlot}]
      /\ slots \in [Slot -> Worker] /\ slots' \in [Slot -> Worker]
      /\ \A s \in Slot : slots[s].life \in Nat /\ slots'[s].work \in Task \cup {NoTask}
  BY NullTaskAssumption DEF CustodyInv, TypesInv, TypeInv, ExecTypeOK, Worker
<1>r. CustodyRows
  BY DEF CustodyInv
<1>1. ASSUME NEW t \in Task, running'[t] # NoSlot
      PROVE  t \notin pending' /\ (slots'[running'[t]].busy = t \/ result'[t] # "none")
  <2>0. TaskFrame(t)
    BY DEF CustodyFrame
  <2>1. CASE Starts(t, running'[t])
    BY <2>1 DEF Starts
  <2>2. CASE running'[t] = running[t] /\ ~Starts(t, running'[t])
    <3>1. PICK s \in Slot : s = running[t]
      BY <1>1, <1>t, <2>2
    <3>2. t \notin pending /\ (slots[s].busy = t \/ Terminal(t))
      BY <1>r, <1>t, <3>1 DEF CustodyRows
    <3>3. t \notin pending'
      BY <1>1, <3>2, WhoIsQueued
    <3>4. ASSUME ~Terminal(t) PROVE slots'[s].busy = t
      <4>1. slots[s].busy = t /\ SlotFrame(s)
        BY <3>2, <3>4 DEF CustodyFrame
      <4>2. ~Respawns(s)
        BY <3>1, <3>4, WhoIsReplaced
      <4>3. ~Frees(s)
        BY <1>1, <1>t, <2>2, <3>1, <4>1, WhoIsFreed
      <4> QED BY <1>t, <4>1, <4>2, <4>3 DEF SlotFrame
    <3> QED BY <2>0, <2>2, <3>1, <3>3, <3>4 DEF TaskFrame
  <2> QED BY <1>1, <2>0, <2>1, <2>2 DEF TaskFrame
<1>2. ASSUME NEW t \in Task, launch'[t] # NoSlot
      PROVE  running'[t] = NoSlot /\ \A s \in Slot : slots'[s].work # t
  <2>0. TaskFrame(t)
    BY DEF CustodyFrame
  <2>1. running[t] = NoSlot /\ \A s \in Slot : slots[s].work # t
    BY <1>2, <1>r, <1>t, <2>0 DEF TaskFrame, CustodyRows
  <2>2. running'[t] = NoSlot
    BY <1>2, <2>0, <2>1 DEF TaskFrame, Starts
  <2>3. ASSUME NEW s \in Slot, slots'[s].work = t PROVE FALSE
    BY <1>2, <2>1, <2>3, WhoIsAtWork
  <2> QED BY <2>2, <2>3
<1>3. ASSUME NEW s \in Slot, NEW t \in Task, slots'[s].work = t
      PROVE  /\ slots'[s].alive
             /\ t \notin pending'
             /\ running'[t] \in {s, NoSlot}
             /\ slots'[s].mode # "booting"
             /\ slots'[s].mode = "open" => slots'[s].busy = t
  <2>0. SlotFrame(s) /\ TaskFrame(t) /\ slots'[s].life = slots[s].life /\ slots'[s].alive
    BY <1>3, WhoIsAtWork DEF CustodyFrame
  <2>l. slots'[s].life # slots[s].life + 1
    BY <1>t, <2>0
  <2>1. CASE Starts(t, s)
    <3>1. slots'[s].mode # "booting"
      BY <2>0, <2>1, <2>l DEF SlotFrame, Starts, WorkerReady
    <3> QED BY <2>0, <2>1, <3>1 DEF Starts
  <2>2. CASE /\ slots[s].work = t /\ t \notin pending /\ running[t] \in {s, NoSlot} /\ slots[s].alive
    <3>1. slots[s].mode # "booting" /\ (slots[s].mode = "open" => slots[s].busy = t)
      BY <1>r, <1>t, <2>2 DEF CustodyRows
    <3>2. t \notin pending' /\ running'[t] \in {s, NoSlot}
      BY <2>0, <2>2, WhoIsQueued DEF TaskFrame, Starts
    <3>3. slots'[s].mode # "booting"
      BY <2>0, <2>l, <3>1 DEF SlotFrame
    <3>4. ASSUME slots'[s].mode = "open" PROVE slots[s].busy = t
      <4>1. slots[s].mode = "open" \/ HandsOff(s)
        BY <2>0, <2>l, <3>1, <3>4 DEF SlotFrame
      <4> QED BY <1>t, <2>2, <3>1, <4>1, WhoIsHandedOff
    <3>5. ASSUME slots'[s].mode = "open" PROVE slots'[s].busy = t
      <4>1. slots[s].busy = t
        BY <3>4, <3>5
      <4>2. ~Frees(s)
        BY <2>2, <3>5, <4>1, WhoIsFreed
      <4> QED BY <1>t, <2>0, <2>l, <4>1, <4>2 DEF SlotFrame
    <3> QED BY <2>0, <3>2, <3>3, <3>5
  <2> QED BY <1>3, <2>1, <2>2, WhoIsAtWork
<1>4. ASSUME NEW s \in Slot, NEW r \in Slot, NEW t \in Task, slots'[s].work = t, slots'[r].work = t
      PROVE  s = r
  <2>1. CASE slots[s].work = t /\ slots[r].work = t
    BY <1>r, <1>t, <2>1 DEF CustodyRows
  <2>2. CASE running'[t] = s /\ running'[t] = r
    BY <2>2
  <2>3. \/ slots[s].work = t
        \/ running'[t] = s /\ \A q \in Slot : slots[q].work # t
    BY <1>4, WhoIsAtWork
  <2>4. \/ slots[r].work = t
        \/ running'[t] = r /\ \A q \in Slot : slots[q].work # t
    BY <1>4, WhoIsAtWork
  <2> QED BY <2>1, <2>2, <2>3, <2>4
<1> QED BY <1>t, <1>1, <1>2, <1>3, <1>4 DEF CustodyRows, Terminal

-----------------------------------------------------------------------------
\* An attempt stays where it is while its task is not the one that is acted on.
LEMMA OthersWait ==
    ASSUME TypesInv, [CustodyNext]_sysVars, NEW u \in Task, ~CustodyStep(u)
    PROVE  /\ custody'[u] = custody[u]
           /\ stop[u] = "claimed" => stop'[u] = "claimed"
           /\ stop[u] # "none" /\ stop'[u] = "none" => DropCancelledPending(u)
<1>t. stop \in [Task -> {"none", "open", "claimed"}]
  BY DEF TypesInv, CustodyTypeOK
<1>1. ASSUME NEW t \in Task, CustodyStep(t)
      PROVE  custody'[u] = custody[u] /\ stop'[u] = stop[u]
  <2>0. u # t
    BY <1>1
  <2>1. custody'[u] = custody[u]
    BY <1>1, <2>0, AttemptGoesOn
  <2>2. CASE ReleaseStop(t) \/ SettleOrReopen(t) \/ (\E v \in {"none", "claimed"} : stop' = [stop EXCEPT ![t] = v])
    BY <1>t, <2>0, <2>1, <2>2 DEF ReleaseStop, SettleOrReopen
  <2>3. CASE UNCHANGED stop
    BY <2>1, <2>3
  <2>4. CASE SettleStop(t)
    BY <1>t, <2>0, <2>1, <2>4 DEF SettleStop
  <2>5. CASE Capture(t)
    BY <2>2, <2>3, <2>5 DEF Capture
  <2>6. CASE FinalizeOnMiss(t)
    BY <2>2, <2>3, <2>6, Zenon DEF FinalizeOnMiss
  <2>7. CASE JudgeStopped(t) \/ WriteCancelled(t) \/ KillStopped(t)
    BY <2>2, <2>3, <2>7, Zenon DEF JudgeStopped, WriteCancelled, KillStopped
  <2>8. CASE BeginCustody(t) \/ ClaimStop(t) \/ PublishStopped(t) \/ RespawnStopped(t) \/ WritePending(t)
             \/ PublishPending(t) \/ PublishMiss(t)
    BY <2>2, <2>3, <2>8 DEF BeginCustody, ClaimStop, PublishStopped, RespawnStopped, WritePending,
                            PublishPending, PublishMiss
  <2> QED BY <1>1, <2>4, <2>5, <2>6, <2>7, <2>8 DEF CustodyStep
<1>2. ASSUME NEW t \in Task, RequestStop(t) \/ DropCancelledPending(t)
      PROVE  /\ custody' = custody
             /\ stop[u] = "claimed" => stop'[u] = "claimed"
             /\ stop[u] # "none" /\ stop'[u] = "none" => DropCancelledPending(u)
  <2>1. custody' = custody
    BY <1>2 DEF RequestStop, DropCancelledPending
  <2>2. CASE u = t
    BY <1>2, <1>t, <2>1, <2>2 DEF RequestStop, DropCancelledPending
  <2>3. CASE u # t
    <3>1. stop'[u] = stop[u]
      BY <1>2, <1>t, <2>3 DEF RequestStop, DropCancelledPending
    <3> QED BY <2>1, <3>1
  <2> QED BY <2>2, <2>3
<1>3. CASE SupervisorStep \/ ReapStep \/ RetainJob \/ (\E job \in deferred : ReplayJob(job)) \/ UNCHANGED sysVars
  <2>1. UNCHANGED <<stop, custody>>
    BY <1>3 DEF SupervisorStep, ReapStep, RetainJob, ReplayJob, sysVars, custodyVars
  <2> QED BY <2>1
<1> QED BY <1>1, <1>2, <1>3 DEF CustodyNext

\* What is neither queued nor in a row stays so, but for its own attempt.
LEMMA StaysAway ==
    ASSUME CustodyInv, CustodyFrame, NEW u \in Task, u \notin pending, running[u] = NoSlot,
           custody[u].pc # "pending" \/ custody'[u].pc # "none"
    PROVE  u \notin pending' /\ running'[u] = NoSlot
<1>0. TaskFrame(u) /\ NoSlot \notin Slot /\ NoTask \notin Task
  BY NullTaskAssumption DEF CustodyFrame
<1>1. ~(reaper.phase = "retry" /\ reaper.job.task = u /\ DeadJobCurrent(reaper.job))
  <2>1. reaper.phase = "retry" => reaper.job.row # 0 /\ reaper.job.slot \in Slot
    BY DEF CustodyInv, TypesInv, TypeInv, JobsWellFormed, DeadPhase, Job
  <2> QED BY <1>0, <2>1 DEF DeadJobCurrent
<1> QED BY <1>0, <1>1 DEF TaskFrame, Starts

\* What an attempt knows stands while it waits.
LEMMA PlaceStays ==
    ASSUME CustodyInv, CustodyFrame, TypesInv', NEW u \in Task, custody'[u] = custody[u],
           stop[u] = "claimed" => stop'[u] = "claimed"
    PROVE  Placed(u)'
<1>0. TaskFrame(u) /\ Placed(u)
  BY DEF CustodyFrame, CustodyInv, Places
<1>1. Terminal(u) => result'[u] # "none"
  BY <1>0 DEF TaskFrame
<1>2. ASSUME \/ custody[u].pc \in {"pending", "dropped", "missed"}
             \/ custody[u].pc = "miss" /\ result'[u] = "none"
      PROVE  u \notin pending /\ running[u] = NoSlot /\ u \notin pending' /\ running'[u] = NoSlot
  <2>1. u \notin pending /\ running[u] = NoSlot
    BY <1>0, <1>1, <1>2 DEF Placed
  <2> QED BY <1>2, <2>1, StaysAway
<1>3. ASSUME custody[u].pc = "pending", NEW s \in Slot, slots'[s].work = u
      PROVE  FALSE
  BY <1>0, <1>2, <1>3, WhoIsAtWork DEF Placed, Starts
<1> QED BY <1>0, <1>1, <1>2, <1>3 DEF Placed, Terminal

\* The place of an attempt that gave up, or ended.
LEMMA NoPlace ==
    ASSUME NEW t \in Task, custody'[t] = NoCustody
    PROVE  Placed(t)'
BY DEF Placed, NoCustody, Held, Leaving

\* The fields of an attempt that goes on.
LEMMA ProceedFields ==
    ASSUME TypesInv, NEW t \in Task, NEW pc \in Step, Proceed(t, pc),
           pc \in Held \cup Leaving => custody[t].pc \in Held \cup Leaving
    PROVE  /\ custody'[t].pc = pc /\ custody'[t].slot = custody[t].slot
           /\ custody'[t].life = custody[t].life /\ custody'[t].settled = custody[t].settled
BY AttemptMoves DEF Proceed, TypesInv, CustodyTypeOK, NameSlots

\* Where an attempt comes to, it knows what it needs there.
LEMMA PlaceReached ==
    ASSUME CustodyInv, CustodyFrame, TypesInv', NEW t \in Task, CustodyStep(t)
    PROVE  Placed(t)'
<1>0. TypesInv /\ Placed(t) /\ TaskFrame(t) /\ (Terminal(t) => result'[t] # "none")
  BY DEF CustodyInv, Places, CustodyFrame, TaskFrame
<1>t. /\ stop \in [Task -> {"none", "open", "claimed"}] /\ result \in [Task -> Outcome]
      /\ running \in [Task -> Slot \cup {NoSlot}] /\ NameSlots(custody)
      /\ NoTask \notin Task /\ NoSlot \notin Slot
  BY <1>0, NullTaskAssumption DEF TypesInv, TypeInv, ExecTypeOK, CustodyTypeOK, NameSlots
<1>e. ReleaseStop(t) \/ EndCustody(t) => Placed(t)'
  BY <1>0, EndsAt, NoPlace DEF ReleaseStop
<1>s. custody'[t].settled => result'[t] # "none"
  <2>1. Onward(t)
    BY <1>0, AttemptGoesOn
  <2>2. custody[t].settled => Terminal(t)
    BY <1>0 DEF Placed
  <2>3. custody'[t].settled = custody[t].settled \/ ~custody'[t].settled \/ custody'[t].settled = Terminal(t)
    BY <2>1 DEF Onward, NoCustody
  <2> QED BY <1>0, <2>2, <2>3
<1>1. CASE BeginCustody(t)
  <2>1. custody'[t].pc = "claim"
    BY <1>1, <1>t, AttemptBegins DEF BeginCustody
  <2> QED BY <1>s, <2>1 DEF Placed, Terminal, Held, Leaving
<1>2. CASE ClaimStop(t)
  <2>1. CASE Proceed(t, "capture") /\ stop' = [stop EXCEPT ![t] = "claimed"]
    <3>1. custody'[t].pc = "capture" /\ stop'[t] = "claimed"
      BY <1>0, <1>t, <2>1, ProceedFields DEF Step, Held, Leaving
    <3> QED BY <1>s, <3>1 DEF Placed, Terminal, Held, Leaving
  <2> QED BY <1>2, <1>e, <2>1 DEF ClaimStop
<1>3. CASE Capture(t)
  <2>c. custody[t].pc = "capture" /\ stop[t] = "claimed" /\ running' = running /\ t \notin pending'
    BY <1>0, <1>3, Zenon DEF Capture, At, Placed
  <2>1. CASE t \in pending /\ Proceed(t, "pending") /\ UNCHANGED <<slots, stop>>
    <3>1. custody'[t].pc = "pending"
      BY <1>0, <2>1, ProceedFields DEF Step, Held, Leaving
    <3>2. running[t] = NoSlot /\ \A s \in Slot : slots[s].work # t
      BY <1>t, <2>1 DEF CustodyInv, CustodyRows
    <3> QED BY <1>s, <2>1, <2>c, <3>1, <3>2 DEF Placed, Terminal, Held, Leaving
  <2>2. CASE Proceed(t, "miss") /\ UNCHANGED stop /\ (Terminal(t) \/ running[t] = NoSlot)
    <3>1. custody'[t].pc = "miss"
      BY <1>0, <2>2, ProceedFields DEF Step, Held, Leaving
    <3> QED BY <1>0, <1>s, <2>2, <2>c, <3>1 DEF Placed, Terminal, Held, Leaving
  <2>3. ASSUME NEW s \in Slot, UNCHANGED stop,
               custody' = [custody EXCEPT ![t].pc = "kill", ![t].slot = s, ![t].life = slots[s].life]
        PROVE  Placed(t)'
    <3>0. slots[s].life \in Nat
      BY <1>0 DEF TypesInv, TypeInv, ExecTypeOK, Worker
    <3>1. custody'[t].pc = "kill" /\ stop'[t] = "claimed"
      BY <1>t, <2>3, <2>c, <3>0, AttemptCaptures
    <3> QED BY <1>s, <3>1 DEF Placed, Terminal, Held, Leaving
  <2>4. {s \in Slot : slots[s].busy = t} = {} => Terminal(t) \/ running[t] = NoSlot
    BY <1>t DEF CustodyInv, CustodyRows
  <2>5. custody[t].settled => Terminal(t)
    BY <1>0 DEF Placed
  <2>6. \/ t \in pending /\ Proceed(t, "pending") /\ UNCHANGED <<slots, stop>>
        \/ Proceed(t, "miss") /\ UNCHANGED stop /\ {s \in Slot : slots[s].busy = t} = {}
        \/ Proceed(t, "miss") /\ UNCHANGED stop /\ custody[t].settled
        \/ ReleaseStop(t)
        \/ \E s \in Slot :
              /\ custody' = [custody EXCEPT ![t].pc = "kill", ![t].slot = s, ![t].life = slots[s].life]
              /\ UNCHANGED stop
    BY <1>3, Zenon DEF Capture
  <2> QED BY <1>e, <2>1, <2>2, <2>3, <2>4, <2>5, <2>6
<1>4. CASE KillStopped(t)
  <2>1. CASE Proceed(t, "judge") /\ UNCHANGED stop
    <3>1. custody'[t].pc = "judge" /\ stop'[t] = "claimed"
      BY <1>0, <1>4, <2>1, ProceedFields DEF KillStopped, At, Placed, Step, Held
    <3> QED BY <1>s, <3>1 DEF Placed, Terminal, Held, Leaving
  <2> QED BY <1>4, <1>e, <2>1 DEF KillStopped
<1>o. ASSUME NEW owed \in BOOLEAN, custody[t].pc \in {"judge", "write"}, UNCHANGED stop, result'[t] # "none",
             custody' = [custody EXCEPT ![t].pc = "settle", ![t].owed = owed]
      PROVE  Placed(t)'
  <2>1. custody'[t].pc = "settle" /\ stop'[t] = "claimed"
    BY <1>o, <1>0, <1>t, AttemptOwes DEF Placed, Held
  <2> QED BY <1>o, <1>s, <2>1 DEF Placed, Terminal, Held, Leaving
<1>5. CASE JudgeStopped(t)
  <2>1. CASE Proceed(t, "write") /\ UNCHANGED stop
    <3>1. custody'[t].pc = "write" /\ stop'[t] = "claimed"
      BY <1>0, <1>5, <2>1, ProceedFields DEF JudgeStopped, At, Placed, Step, Held
    <3> QED BY <1>s, <3>1 DEF Placed, Terminal, Held, Leaving
  <2> QED BY <1>0, <1>5, <1>e, <1>o, <2>1 DEF JudgeStopped, At
<1>w. result' = Written(t, "cancelled") => result'[t] # "none"
  BY <1>t, WrittenStands DEF Outcome
<1>6. CASE WriteCancelled(t)
  BY <1>6, <1>e, <1>o, <1>w DEF WriteCancelled, At
<1>7. CASE SettleStop(t) \/ PublishStopped(t)
  <2>1. custody'[t].pc \in Leaving /\ Terminal(t)
    BY <1>0, <1>7, ProceedFields DEF SettleStop, PublishStopped, At, Placed, Step, Held, Leaving
  <2> QED BY <1>0, <1>s, <2>1 DEF Placed, Terminal, Held, Leaving
<1>8. CASE RespawnStopped(t) \/ PublishPending(t) \/ PublishMiss(t)
  BY <1>8, <1>e DEF RespawnStopped, PublishPending, PublishMiss
<1>9. CASE WritePending(t)
  <2>1. CASE Proceed(t, "dropped") /\ UNCHANGED <<pending, running, stop>> /\ result' = Written(t, "cancelled")
    <3>1. custody'[t].pc = "dropped" /\ t \notin pending /\ running[t] = NoSlot /\ stop[t] = "claimed"
      BY <1>0, <1>9, <2>1, ProceedFields DEF WritePending, At, Placed, Step, Held, Leaving
    <3> QED BY <1>s, <1>w, <2>1, <3>1 DEF Placed, Terminal, Held, Leaving
  <2> QED BY <1>9, <1>e, <2>1 DEF WritePending
<1>10. CASE FinalizeOnMiss(t)
  <2>1. CASE ~Terminal(t) /\ custody' = [custody EXCEPT ![t].pc = "missed",
                                          ![t].quiet = \E job \in deferred : job.task = t]
             /\ UNCHANGED stop /\ result' = Written(t, "cancelled")
    <3>0. PICK q \in BOOLEAN : q = (\E job \in deferred : job.task = t)
      OBVIOUS
    <3>1. custody' = [custody EXCEPT ![t].pc = "missed", ![t].quiet = q]
      BY <2>1, <3>0
    <3>2. custody'[t].pc = "missed"
      BY <1>t, <3>1, AttemptMisses
    <3>3. t \notin pending /\ running[t] = NoSlot /\ UNCHANGED <<pending, running>> /\ stop[t] = "claimed"
      BY <1>0, <1>10, <2>1, Zenon DEF FinalizeOnMiss, At, Placed
    <3> QED BY <1>s, <1>w, <2>1, <3>2, <3>3 DEF Placed, Terminal, Held, Leaving
  <2> QED BY <1>10, <1>e, <2>1 DEF FinalizeOnMiss
<1> QED BY <1>1, <1>2, <1>3, <1>4, <1>5, <1>6, <1>7, <1>8, <1>9, <1>10 DEF CustodyStep

\* What the attempts know stands after every step.
LEMMA StepPlaces ==
    ASSUME CustodyInv, CustodyFrame, TypesInv', [CustodyNext]_sysVars
    PROVE  Places'
<1>0. TypesInv
  BY DEF CustodyInv
<1>1. ASSUME NEW u \in Task PROVE Placed(u)'
  BY <1>0, OthersWait, PlaceStays, PlaceReached
<1> QED BY <1>1 DEF Places

-----------------------------------------------------------------------------
\* A worker that an attempt holds, and that the reaper has no job on, is nobody else's.
LEMMA NobodyElse ==
    ASSUME CustodyInv, NEW t \in Task, NEW s \in Slot, slots[s].busy = t, NoJobOn(s),
           custody[t].slot = s => custody'[t].pc # "none"
    PROVE  ~HandsOff(s)
<1>0. NoTask \notin Task
  BY NullTaskAssumption
<1>1. ~(reaper.phase = "respawn" /\ On(reaper.job, s))
  BY DEF NoJobOn, AllJobs
<1>2. ASSUME NEW u \in Task, custody[u].pc \in {"kill", "judge", "write", "respawn"}, Ends(u, s)
      PROVE  FALSE
  <2>0. custody[u].slot = s /\ SameWorker(u) /\ u # t
    BY <1>2 DEF Ends
  <2>1. CASE custody[u].pc = "respawn"
    BY <1>0, <2>0, <2>1 DEF CustodyInv, Captures, LeftWorker, Leaving
  <2>2. CASE custody[u].pc \in {"kill", "judge", "write"}
    BY <1>0, <2>0, <2>2 DEF CustodyInv, Captures, CapturedWorker, Held
  <2> QED BY <1>2, <2>1, <2>2
<1> QED BY <1>1, <1>2 DEF HandsOff, Respawns

\* As long as nobody has a job on it: a reserved, bound worker is not taken from its owner.
LEMMA ReservedStays ==
    ASSUME CustodyInv, CustodyFrame, NEW s \in Slot, slots[s].busy # NoTask,
           slots[s].mode = "reaping", NoJobOn(s), ~HandsOff(s)
    PROVE  /\ slots'[s].life = slots[s].life
           /\ slots'[s].alive => slots[s].alive
           /\ slots'[s].mode = "reaping"
           /\ slots'[s].work \in {slots[s].work, NoTask}
           /\ \/ slots'[s].busy = slots[s].busy
              \/ slots'[s].busy = NoTask /\ stop[slots[s].busy] = "none"
           /\ slots'[s].busy # NoTask => NoJobOn(s)'
<1>0. SlotFrame(s) /\ ~Respawns(s)
  BY DEF CustodyFrame, HandsOff
<1>1. /\ slots'[s].life = slots[s].life
      /\ slots'[s].alive => slots[s].alive
  BY <1>0 DEF SlotFrame
<1>l. slots'[s].life # slots[s].life + 1
  BY <1>1 DEF CustodyInv, TypesInv, TypeInv, ExecTypeOK, Worker
<1>2. slots'[s].mode = "reaping"
  BY <1>0, <1>l DEF SlotFrame
<1>3. slots'[s].work \in {slots[s].work, NoTask}
  BY <1>0, <1>l DEF SlotFrame, Starts, WorkerReady
<1>4. \/ slots'[s].busy = slots[s].busy
      \/ slots'[s].busy = NoTask /\ stop[slots[s].busy] = "none"
  BY <1>0, <1>l DEF SlotFrame, Frees
<1>5. ASSUME slots'[s].busy # NoTask, NEW job \in AllJobs', job.slot = s, job.life = slots'[s].life
      PROVE  FALSE
  <2>1. CASE job \in AllJobs
    BY <1>1, <1>5, <2>1 DEF NoJobOn, On
  <2>2. CASE slots[job.slot].mode = "open" \/ slots'[job.slot].busy = NoTask
    BY <1>5, <2>2
  <2> QED BY <1>5, <2>1, <2>2 DEF CustodyFrame, JobFrame
<1>6. slots'[s].busy # NoTask => NoJobOn(s)'
  BY <1>5 DEF NoJobOn, On
<1> QED BY <1>1, <1>2, <1>3, <1>4, <1>6

\* A captured worker stays captured.
LEMMA CaptureStays ==
    ASSUME CustodyInv, CustodyFrame, NEW t \in Task, custody[t].pc \in Held, custody'[t].pc \in Held,
           custody'[t].slot = custody[t].slot, custody'[t].life = custody[t].life,
           custody'[t].pc # "kill" => custody[t].pc # "kill" \/ ~slots'[custody[t].slot].alive
    PROVE  CapturedWorker(t)'
<1>0. PICK s \in Slot : s = custody[t].slot
  BY DEF CustodyInv, TypesInv
<1>1. CapturedWorker(t) /\ stop[t] = "claimed" /\ NoTask \notin Task
  BY NullTaskAssumption DEF CustodyInv, Captures, Places, Placed
<1>2. /\ slots[s].life = custody[t].life /\ slots[s].busy = t /\ slots[s].mode = "reaping"
      /\ slots[s].work \in {t, NoTask} /\ NoJobOn(s)
      /\ custody[t].pc # "kill" => ~slots[s].alive
  BY <1>0, <1>1 DEF CapturedWorker, SameWorker
<1>3. ~HandsOff(s)
  BY <1>2, NobodyElse DEF Held
<1>4. /\ slots'[s].life = slots[s].life /\ slots'[s].mode = "reaping"
      /\ slots'[s].alive => slots[s].alive
      /\ slots'[s].work \in {slots[s].work, NoTask}
      /\ slots'[s].busy = t
      /\ slots'[s].busy # NoTask => NoJobOn(s)'
  BY <1>1, <1>2, <1>3, ReservedStays
<1> QED BY <1>0, <1>1, <1>2, <1>4 DEF CapturedWorker, SameWorker

\* A worker that an attempt is done with stays as it is, or goes to the pool.
LEMMA LeftStays ==
    ASSUME CustodyInv, CustodyFrame, NEW t \in Task, custody[t].pc \in Leaving, custody'[t].pc \in Leaving,
           custody'[t].slot = custody[t].slot, custody'[t].life = custody[t].life
    PROVE  LeftWorker(t)'
<1>0. PICK s \in Slot : s = custody[t].slot
  BY DEF CustodyInv, TypesInv
<1>1. LeftWorker(t) /\ NoTask \notin Task /\ slots[s].life \in Nat /\ custody[t].life \in Nat /\ SlotFrame(s)
  BY NullTaskAssumption DEF CustodyInv, Captures, TypesInv, TypeInv, ExecTypeOK, Worker, CustodyTypeOK, Attempt,
                            CustodyFrame
<1>2. custody[t].life <= slots[s].life
  BY <1>0, <1>1 DEF LeftWorker
<1>3. slots'[s].life \in {slots[s].life, slots[s].life + 1}
  BY <1>1 DEF SlotFrame
<1>4. ASSUME slots'[s].life = custody[t].life
      PROVE  /\ ~slots'[s].alive
             /\ \/ slots'[s].busy = NoTask
                \/ slots'[s].busy = t /\ slots'[s].mode = "reaping" /\ NoJobOn(s)'
  <2>1. slots[s].life = custody[t].life /\ slots'[s].life # slots[s].life + 1
    BY <1>1, <1>2, <1>3, <1>4
  <2>2. ~slots[s].alive
    BY <1>0, <1>1, <2>1 DEF LeftWorker, SameWorker
  <2>3. ~slots'[s].alive
    BY <1>1, <2>1, <2>2 DEF SlotFrame
  <2>4. CASE slots[s].busy = NoTask
    BY <1>1, <2>1, <2>2, <2>3, <2>4 DEF SlotFrame, WorkerReady
  <2>5. CASE slots[s].busy = t /\ slots[s].mode = "reaping" /\ NoJobOn(s)
    <3>1. ~HandsOff(s)
      BY <2>5, NobodyElse DEF Leaving
    <3>2. /\ slots'[s].mode = "reaping" /\ slots'[s].busy \in {t, NoTask}
          /\ slots'[s].busy # NoTask => NoJobOn(s)'
      BY <1>1, <2>5, <3>1, ReservedStays
    <3> QED BY <2>3, <3>2
  <2> QED BY <1>0, <1>1, <2>1, <2>4, <2>5 DEF LeftWorker, SameWorker
<1>5. custody[t].life <= slots'[s].life
  BY <1>1, <1>2, <1>3
<1> QED BY <1>0, <1>4, <1>5 DEF LeftWorker, SameWorker

\* The worker in the hands of an attempt after a step of its own.
LEMMA CaptureReached ==
    ASSUME CustodyInv, CustodyFrame, TypesInv', NEW t \in Task, CustodyStep(t)
    PROVE  /\ custody'[t].pc \in Held => CapturedWorker(t)'
           /\ custody'[t].pc \in Leaving => LeftWorker(t)'
<1>0. TypesInv /\ NameSlots(custody) /\ NoTask \notin Task /\ Onward(t)
  BY NullTaskAssumption, AttemptGoesOn DEF CustodyInv, TypesInv, CustodyTypeOK, NameSlots
<1>t. slots \in [Slot -> Worker] /\ \A s \in Slot : slots[s].life \in Nat
  BY <1>0 DEF TypesInv, TypeInv, ExecTypeOK, Worker
<1>1. ASSUME custody[t].pc = "capture", custody'[t].pc \in Held
      PROVE  CapturedWorker(t)'
  <2>0. Capture(t)
    BY <1>1 DEF CustodyStep, At, BeginCustody, ClaimStop, KillStopped, JudgeStopped, WriteCancelled,
                SettleStop, PublishStopped, RespawnStopped, WritePending, PublishPending, FinalizeOnMiss,
                PublishMiss
  <2>1. PICK s \in Slot :
          /\ slots[s].busy = t /\ slots[s].mode = "open"
          /\ custody' = [custody EXCEPT ![t].pc = "kill", ![t].slot = s, ![t].life = slots[s].life]
          /\ slots' = [slots EXCEPT ![s].mode = "reaping"]
    <3>1. ~Proceed(t, "pending") /\ ~Proceed(t, "miss") /\ ~ReleaseStop(t)
      BY <1>0, <1>1, ProceedFields, EndsAt DEF ReleaseStop, Step, Held, Leaving
    <3> QED BY <2>0, <3>1, Zenon DEF Capture
  <2>2. custody'[t].slot = s /\ custody'[t].life = slots[s].life /\ custody'[t].pc = "kill"
    <3>1. slots[s].life \in Nat
      BY <1>t
    <3> QED BY <1>0, <2>1, <3>1, AttemptCaptures
  <2>3. /\ slots'[s].life = slots[s].life /\ slots'[s].mode = "reaping"
        /\ slots'[s].busy = t /\ slots'[s].work = slots[s].work
    BY <1>t, <2>1, SlotFields
  <2>4. slots[s].work \in {t, NoTask}
    BY <2>1 DEF CustodyInv, CustodyRows
  <2>5. NoJobOn(s)
    BY <1>0, <2>1 DEF CustodyInv, BoundWorkers, OneJob
  <2>6. NoJobOn(s)'
    <3>1. UNCHANGED <<jobs, reaper, deferred>>
      BY CustodyLeavesJobs
    <3> QED BY <2>3, <2>5, <3>1 DEF NoJobOn, AllJobs, On
  <2> QED BY <2>2, <2>3, <2>4, <2>6 DEF CapturedWorker, SameWorker
<1>2. ASSUME custody[t].pc = "kill", custody'[t].pc = "judge"
      PROVE  ~slots'[custody[t].slot].alive
  <2>0. KillStopped(t)
    BY <1>2 DEF CustodyStep, At, BeginCustody, ClaimStop, Capture, JudgeStopped, WriteCancelled,
                SettleStop, PublishStopped, RespawnStopped, WritePending, PublishPending, FinalizeOnMiss,
                PublishMiss
  <2>1. ~ReleaseStop(t)
    BY <1>0, <1>2, EndsAt DEF ReleaseStop
  <2>2. SameWorker(t) /\ custody[t].slot \in Slot
    BY <1>0, <1>2 DEF CustodyInv, Captures, CapturedWorker, TypesInv, Held
  <2>3. slots' = [slots EXCEPT ![custody[t].slot].alive = FALSE, ![custody[t].slot].work = NoTask]
    BY <2>0, <2>1, <2>2 DEF KillStopped
  <2> QED BY <1>0, <2>2, <2>3, CapturedFields
<1>3. ASSUME custody[t].pc = "settle", custody'[t].pc = "publish", custody'[t].slot = custody[t].slot,
             custody'[t].life = custody[t].life
      PROVE  LeftWorker(t)'
  <2>0. SettleStop(t)
    BY <1>3 DEF CustodyStep, At, BeginCustody, ClaimStop, Capture, KillStopped, JudgeStopped, WriteCancelled,
                PublishStopped, RespawnStopped, WritePending, PublishPending, FinalizeOnMiss,
                PublishMiss
  <2>1. UNCHANGED <<slots, jobs, reaper, deferred>>
    BY <2>0 DEF SettleStop, execVars
  <2>2. CapturedWorker(t) /\ custody[t].slot \in Slot
    BY <1>0, <1>3 DEF CustodyInv, Captures, TypesInv, Held
  <2> QED BY <1>t, <1>3, <2>1, <2>2 DEF CapturedWorker, LeftWorker, SameWorker, NoJobOn, AllJobs, On
<1>4. CASE custody'[t].pc \in Held
  <2>1. CASE custody[t].pc = "capture"
    BY <1>1, <1>4, <2>1 DEF Held, Leaving
  <2>2. CASE custody[t].pc # "capture"
    <3>1. /\ custody[t].pc \in Held
          /\ custody'[t].slot = custody[t].slot /\ custody'[t].life = custody[t].life
          /\ custody'[t].pc # "kill" /\ custody[t].pc = "kill" => custody'[t].pc = "judge"
      BY <1>0, <1>4, <2>2 DEF Onward, NoCustody, Held
    <3>2. CapturedWorker(t)'
      BY <1>2, <1>4, <3>1, CaptureStays
    <3> QED BY <1>4, <3>2 DEF Held, Leaving
  <2> QED BY <2>1, <2>2
<1>5. CASE custody'[t].pc \in Leaving
  <2>1. /\ custody'[t].slot = custody[t].slot /\ custody'[t].life = custody[t].life
        /\ custody[t].pc \in Leaving \/ (custody[t].pc = "settle" /\ custody'[t].pc = "publish")
    BY <1>0, <1>5 DEF Onward, NoCustody, Leaving
  <2>2. LeftWorker(t)'
    BY <1>3, <1>5, <2>1, LeftStays
  <2> QED BY <1>5, <2>2 DEF Held, Leaving
<1> QED BY <1>4, <1>5

\* Custody keeps the workers it has in its hands.
LEMMA StepCaptures ==
    ASSUME CustodyInv, CustodyFrame, TypesInv', [CustodyNext]_sysVars
    PROVE  Captures'
<1>1. ASSUME NEW t \in Task, ~CustodyStep(t)
      PROVE  /\ custody'[t].pc \in Held => CapturedWorker(t)'
             /\ custody'[t].pc \in Leaving => LeftWorker(t)'
  <2>1. custody'[t] = custody[t]
    BY <1>1, OthersWait DEF CustodyInv
  <2> QED BY <1>1, <2>1, CaptureStays, LeftStays
<1> QED BY <1>1, CaptureReached DEF Captures

-----------------------------------------------------------------------------
\* A worker without a job on it is the subject of one at most.
LEMMA NoJobOneJob == \A s \in Slot : TypesInv /\ NoJobOn(s) => OneJob(s)
<1> SUFFICES ASSUME NEW s \in Slot, TypesInv, NoJobOn(s) PROVE OneJob(s)
  OBVIOUS
<1>1. \A i \in 1..Len(jobs) : ~On(jobs[i], s)
  BY DEF NoJobOn, AllJobs
<1>2. \A job \in deferred : ~On(job, s)
  BY DEF NoJobOn, AllJobs
<1>3. ~On(reaper.job, s)
  <2>1. CASE reaper.phase = "idle"
    <3>1. reaper.job.slot = NoSlot
      BY <2>1 DEF TypesInv, NoJob
    <3> QED BY <3>1, NullTaskAssumption DEF On
  <2>2. CASE reaper.phase # "idle"
    BY <2>2 DEF NoJobOn, AllJobs
  <2> QED BY <2>1, <2>2
<1>4. replaying \subseteq deferred
  BY DEF TypesInv, CustodyTypeOK
<1> QED BY <1>1, <1>2, <1>3, <1>4 DEF OneJob

\* ... and so it is after a step.
LEMMA NoJobOneJobNext == (\A s \in Slot : TypesInv /\ NoJobOn(s) => OneJob(s))'
BY NoJobOneJob, PTL

\* A live worker outside a teardown has no job on it.
LEMMA ReadyHasNoJob ==
    ASSUME CustodyInv, NEW s \in Slot, WorkerReady(s)
    PROVE  NoJobOn(s)
<1>1. ASSUME NEW job \in AllJobs, On(job, s) PROVE FALSE
  <2>1. JobHolds(job) /\ job.kind \in {"dead", "timeout"}
    BY <1>1, AllJobsTyped DEF CustodyInv, JobsHold, Job
  <2> QED BY <1>1, <2>1 DEF JobHolds, On, WorkerReady
<1> QED BY <1>1 DEF NoJobOn

\* A worker that is bound after a step had the same process before it, and one job at most.
LEMMA BoundBefore ==
    ASSUME CustodyInv, CustodyFrame, NEW s \in Slot, slots'[s].busy # NoTask
    PROVE  /\ slots'[s].life = slots[s].life
           /\ OneJob(s)
           /\ slots'[s].mode # "reaping" =>
                 NoJobOn(s) \/ (reaper.phase = "respawn" /\ On(reaper.job, s) /\ reaper'.phase = "idle")
<1>0. SlotFrame(s) /\ TypesInv /\ slots[s].life \in Nat
  BY DEF CustodyFrame, CustodyInv, TypesInv, TypeInv, ExecTypeOK, Worker
<1>1. slots'[s].life = slots[s].life /\ slots'[s].life # slots[s].life + 1
  BY <1>0 DEF SlotFrame
<1>2. CASE WorkerReady(s)
  BY <1>0, <1>1, <1>2, ReadyHasNoJob, NoJobOneJob
<1>3. CASE ~WorkerReady(s)
  <2>1. slots[s].busy # NoTask
    BY <1>0, <1>1, <1>3 DEF SlotFrame
  <2>2. OneJob(s)
    BY <2>1 DEF CustodyInv, BoundWorkers
  <2>3. ASSUME slots'[s].mode # "reaping", slots[s].mode = "reaping"
        PROVE  NoJobOn(s) \/ (reaper.phase = "respawn" /\ On(reaper.job, s) /\ reaper'.phase = "idle")
    <3>1. HandsOff(s)
      BY <1>0, <1>1, <2>3 DEF SlotFrame
    <3>2. ASSUME NEW u \in Task, custody[u].pc \in {"kill", "judge", "write", "respawn"}, Ends(u, s)
          PROVE  NoJobOn(s)
      <4>1. CASE custody[u].pc = "respawn"
        BY <2>1, <3>2, <4>1 DEF CustodyInv, Captures, LeftWorker, Leaving, Ends
      <4>2. CASE custody[u].pc \in {"kill", "judge", "write"}
        BY <3>2, <4>2 DEF CustodyInv, Captures, CapturedWorker, Held, Ends
      <4> QED BY <3>2, <4>1, <4>2
    <3> QED BY <3>1, <3>2 DEF HandsOff, Respawns
  <2> QED BY <1>1, <2>2, <2>3 DEF OneJob
<1> QED BY <1>2, <1>3

\* While the jobs stay where they are.
LEMMA OneJobStays ==
    ASSUME CustodyInv, CustodyFrame, TypesInv', UNCHANGED <<jobs, deferred, replaying>>,
           reaper'.job = reaper.job, reaper'.phase = "idle" <=> reaper.phase = "idle",
           NEW s \in Slot, slots'[s].busy # NoTask
    PROVE  OneJob(s)'
<1>1. /\ slots'[s].life = slots[s].life /\ OneJob(s)
      /\ slots'[s].mode # "reaping" => NoJobOn(s)
  BY BoundBefore
<1>2. AllJobs' = AllJobs
  BY DEF AllJobs
<1>3. slots'[s].mode # "reaping" => NoJobOn(s)'
  BY <1>1, <1>2 DEF NoJobOn, On
<1> QED BY <1>1, <1>3 DEF OneJob, On

\* What is to be shown of a worker that keeps its process.
LEMMA OneJobNext ==
    ASSUME NEW s \in Slot, slots'[s].life = slots[s].life,
           \A i, j \in 1..Len(jobs') : On(jobs'[i], s) /\ On(jobs'[j], s) => i = j,
           \A i \in 1..Len(jobs') : On(reaper'.job, s) => ~On(jobs'[i], s),
           \A job \in deferred' \ replaying' : On(job, s) =>
              ~On(reaper'.job, s) /\ \A i \in 1..Len(jobs') : ~On(jobs'[i], s),
           \A job, other \in deferred' : On(job, s) /\ On(other, s) => job = other,
           \A job \in replaying' : On(job, s) =>
              job = reaper'.job \/ \E i \in 1..Len(jobs') : job = jobs'[i],
           slots'[s].mode # "reaping" => \A job \in AllJobs' : ~On(job, s)
    PROVE  OneJob(s)'
<1>1. slots'[s].mode # "reaping" => NoJobOn(s)'
  BY DEF NoJobOn, On
<1> QED BY <1>1 DEF OneJob, On

\* When a job on another worker is queued.
LEMMA OneJobElsewhere ==
    ASSUME CustodyInv, CustodyFrame, TypesInv', UNCHANGED <<reaper, deferred, replaying>>,
           NEW new, jobs' = Append(jobs, new),
           NEW s \in Slot, slots'[s].busy # NoTask, new.slot # s
    PROVE  OneJob(s)'
<1>t. jobs \in Seq(Job) /\ Len(jobs) \in Nat
  BY DEF CustodyInv, TypesInv, TypeInv, ExecTypeOK
<1>2. /\ slots'[s].life = slots[s].life /\ OneJob(s)
      /\ slots'[s].mode # "reaping" => NoJobOn(s)
  BY BoundBefore
<1>4. /\ Len(jobs') = Len(jobs) + 1 /\ jobs'[Len(jobs) + 1] = new
      /\ \A i \in 1..Len(jobs) : jobs'[i] = jobs[i] /\ i \in 1..Len(jobs')
  BY <1>t
<1>5. ASSUME NEW i \in 1..Len(jobs'), On(jobs'[i], s)
      PROVE  i \in 1..Len(jobs) /\ jobs'[i] = jobs[i] /\ On(jobs[i], s)
  <2>1. i # Len(jobs) + 1
    BY <1>4, <1>5 DEF On
  <2>2. i \in 1..Len(jobs)
    BY <1>t, <1>4, <2>1
  <2> QED BY <1>4, <1>5, <2>2
<1>6. slots'[s].mode # "reaping" => \A job \in AllJobs' : ~On(job, s)
  <2>1. \A job \in AllJobs' : job \in AllJobs \/ job = new
    <3>1. \A i \in 1..Len(jobs') : jobs'[i] = new \/ \E j \in 1..Len(jobs) : jobs'[i] = jobs[j]
      BY <1>t, <1>4
    <3> QED BY <3>1 DEF AllJobs
  <2> QED BY <1>2, <2>1 DEF NoJobOn, On
<1>7. \A i, j \in 1..Len(jobs') : On(jobs'[i], s) /\ On(jobs'[j], s) => i = j
  BY <1>2, <1>5 DEF OneJob
<1>8. \A i \in 1..Len(jobs') : On(reaper'.job, s) => ~On(jobs'[i], s)
  BY <1>2, <1>5 DEF OneJob
<1>9. \A job \in deferred' \ replaying' : On(job, s) =>
          ~On(reaper'.job, s) /\ \A i \in 1..Len(jobs') : ~On(jobs'[i], s)
  BY <1>2, <1>5 DEF OneJob
<1>10. \A job, other \in deferred' : On(job, s) /\ On(other, s) => job = other
  BY <1>2 DEF OneJob
<1>11. \A job \in replaying' : On(job, s) => job = reaper'.job \/ \E i \in 1..Len(jobs') : job = jobs'[i]
  <2> SUFFICES ASSUME NEW job \in replaying, On(job, s), job # reaper.job
               PROVE  \E i \in 1..Len(jobs') : job = jobs'[i]
    OBVIOUS
  <2>1. PICK i \in 1..Len(jobs) : job = jobs[i]
    BY <1>2 DEF OneJob
  <2> QED BY <1>4, <2>1
<1> QED BY <1>2, <1>6, <1>7, <1>8, <1>9, <1>10, <1>11, OneJobNext

\* When the crash detector queues one.
LEMMA OneJobReserved ==
    ASSUME CustodyInv, CustodyFrame, TypesInv', NEW r \in Slot, SupervisorStep, ReserveDeadSlot(r),
           NEW s \in Slot, slots'[s].busy # NoTask
    PROVE  OneJob(s)'
<1>0. PICK new : new = DeadJobOf(r)
  OBVIOUS
<1>t. /\ TypesInv /\ jobs \in Seq(Job) /\ slots \in [Slot -> Worker] /\ Len(jobs) \in Nat
      /\ replaying \subseteq deferred
  BY DEF CustodyInv, TypesInv, TypeInv, ExecTypeOK, CustodyTypeOK
<1>1. /\ jobs' = Append(jobs, new) /\ new.slot = r
      /\ reaper' = reaper /\ deferred' = deferred /\ replaying' = replaying
  BY <1>0 DEF ReserveDeadSlot, DeadJobOf, SupervisorStep, custodyVars
<1>2. /\ slots'[s].life = slots[s].life /\ OneJob(s)
      /\ slots'[s].mode # "reaping" => NoJobOn(s)
  BY <1>1, BoundBefore
<1>3. /\ slots[r].mode = "open"
      /\ slots'[s].mode = IF s = r THEN "reaping" ELSE slots[s].mode
      /\ slots'[s].busy = slots[s].busy
  BY <1>t, SlotFields DEF ReserveDeadSlot
<1>4. /\ Len(jobs') = Len(jobs) + 1
      /\ \A i \in 1..Len(jobs) : jobs'[i] = jobs[i]
  BY <1>t, <1>1
<1>5. CASE s = r
  <2>1. NoJobOn(s)
    BY <1>2, <1>3, <1>5 DEF OneJob
  <2>2. /\ \A i \in 1..Len(jobs) : ~On(jobs[i], s)
        /\ \A job \in deferred : ~On(job, s)
    BY <2>1 DEF NoJobOn, AllJobs
  <2>3. ~On(reaper.job, s)
    <3>1. reaper.phase = "idle" => reaper.job.slot = NoSlot
      BY <1>t DEF TypesInv, NoJob
    <3> QED BY <2>1, <3>1, NullTaskAssumption DEF NoJobOn, AllJobs, On
  <2>4. slots'[s].mode = "reaping"
    BY <1>3, <1>5
  <2>5. ASSUME NEW i \in 1..Len(jobs'), i # Len(jobs) + 1
        PROVE  ~On(jobs[i], s) /\ jobs'[i] = jobs[i]
    <3>1. i \in 1..Len(jobs)
      BY <1>t, <1>4, <2>5
    <3> QED BY <1>4, <2>2, <3>1
  <2> QED BY <1>t, <1>1, <1>2, <2>2, <2>3, <2>4, <2>5 DEF OneJob, On
<1>6. CASE s # r
  BY <1>1, <1>6, OneJobElsewhere
<1> QED BY <1>5, <1>6

\* When a hard bound queues one, its worker is free of its task.
LEMMA OneJobLate ==
    ASSUME CustodyInv, CustodyFrame, TypesInv', NEW t \in Task, SupervisorStep, Timeout(t),
           NEW s \in Slot, slots'[s].busy # NoTask
    PROVE  OneJob(s)'
<1>0. PICK new : new = LateJobOf(t)
  OBVIOUS
<1>t. slots \in [Slot -> Worker] /\ running \in [Task -> Slot \cup {NoSlot}]
  BY DEF CustodyInv, TypesInv, TypeInv, ExecTypeOK
<1>1. /\ jobs' = Append(jobs, new) /\ new.slot = running[t]
      /\ reaper' = reaper /\ deferred' = deferred /\ replaying' = replaying
  BY <1>0 DEF Timeout, LateJobOf, SupervisorStep, custodyVars
<1>2. PICK r \in Slot : r = running[t]
  BY <1>t DEF Timeout
<1>3. slots'[r].busy = NoTask
  <2>1. slots' = [slots EXCEPT ![r].busy = NoTask, ![r].mode = "reaping"]
    BY <1>2 DEF Timeout
  <2> QED BY <2>1, <1>t, SlotFields
<1> QED BY <1>1, <1>2, <1>3, OneJobElsewhere

\* When a retained job is handed back to the queue.
LEMMA OneJobReplayed ==
    ASSUME CustodyInv, CustodyFrame, TypesInv', NEW new \in deferred, ReplayJob(new),
           NEW s \in Slot, slots'[s].busy # NoTask
    PROVE  OneJob(s)'
<1>t. jobs \in Seq(Job) /\ Len(jobs) \in Nat /\ new \in Job /\ replaying \subseteq deferred
  BY DEF CustodyInv, TypesInv, TypeInv, ExecTypeOK, CustodyTypeOK
<1>1. /\ new \in deferred \ replaying /\ jobs' = Append(jobs, new)
      /\ reaper' = reaper /\ deferred' = deferred /\ replaying' = replaying \cup {new}
  BY DEF ReplayJob
<1>2. /\ slots'[s].life = slots[s].life /\ OneJob(s)
      /\ slots'[s].mode # "reaping" => NoJobOn(s)
  BY <1>1, BoundBefore
<1>4. /\ Len(jobs') = Len(jobs) + 1 /\ jobs'[Len(jobs) + 1] = new /\ Len(jobs) + 1 \in 1..Len(jobs')
      /\ \A i \in 1..Len(jobs) : jobs'[i] = jobs[i] /\ i \in 1..Len(jobs')
  BY <1>t, <1>1
<1>5. ASSUME NEW i \in 1..Len(jobs'), i # Len(jobs) + 1
      PROVE  i \in 1..Len(jobs) /\ jobs'[i] = jobs[i]
  BY <1>t, <1>4, <1>5
<1>n. On(new, s) => ~On(reaper.job, s) /\ \A i \in 1..Len(jobs) : ~On(jobs[i], s)
  BY <1>1, <1>2 DEF OneJob
<1>6. slots'[s].mode # "reaping" => \A job \in AllJobs' : ~On(job, s)
  <2>1. \A job \in AllJobs' : job \in AllJobs
    <3>1. \A i \in 1..Len(jobs') : jobs'[i] = new \/ \E j \in 1..Len(jobs) : jobs'[i] = jobs[j]
      BY <1>t, <1>4, <1>5
    <3> QED BY <1>1, <3>1 DEF AllJobs
  <2> QED BY <1>2, <2>1 DEF NoJobOn
<1>7. \A i, j \in 1..Len(jobs') : On(jobs'[i], s) /\ On(jobs'[j], s) => i = j
  <2> SUFFICES ASSUME NEW i \in 1..Len(jobs'), NEW j \in 1..Len(jobs'), On(jobs'[i], s), On(jobs'[j], s)
               PROVE  i = j
    OBVIOUS
  <2>1. CASE i = Len(jobs) + 1 /\ j # Len(jobs) + 1
    BY <2>1, <1>4, <1>5, <1>n
  <2>2. CASE j = Len(jobs) + 1 /\ i # Len(jobs) + 1
    BY <2>2, <1>4, <1>5, <1>n
  <2>3. CASE i # Len(jobs) + 1 /\ j # Len(jobs) + 1
    <3>1. /\ i \in 1..Len(jobs) /\ jobs'[i] = jobs[i]
          /\ j \in 1..Len(jobs) /\ jobs'[j] = jobs[j]
      BY <2>3, <1>5
    <3> QED BY <3>1, <1>2 DEF OneJob
  <2> QED BY <2>1, <2>2, <2>3
<1>8. \A i \in 1..Len(jobs') : On(reaper'.job, s) => ~On(jobs'[i], s)
  <2> SUFFICES ASSUME NEW i \in 1..Len(jobs'), On(reaper.job, s), On(jobs'[i], s) PROVE FALSE
    BY <1>1
  <2>1. CASE i = Len(jobs) + 1
    BY <2>1, <1>4, <1>n
  <2>2. CASE i # Len(jobs) + 1
    BY <2>2, <1>5, <1>2 DEF OneJob
  <2> QED BY <2>1, <2>2
<1>9. \A job \in deferred' \ replaying' : On(job, s) =>
          ~On(reaper'.job, s) /\ \A i \in 1..Len(jobs') : ~On(jobs'[i], s)
  <2> SUFFICES ASSUME NEW job \in deferred \ replaying, job # new, On(job, s)
               PROVE  ~On(reaper.job, s) /\ \A i \in 1..Len(jobs') : ~On(jobs'[i], s)
    BY <1>1
  <2>1. ~On(new, s) /\ ~On(reaper.job, s) /\ \A i \in 1..Len(jobs) : ~On(jobs[i], s)
    BY <1>2 DEF OneJob
  <2>2. ASSUME NEW i \in 1..Len(jobs') PROVE ~On(jobs'[i], s)
    BY <2>1, <1>4, <1>5
  <2> QED BY <2>1, <2>2
<1>10. \A job, other \in deferred' : On(job, s) /\ On(other, s) => job = other
  BY <1>1, <1>2 DEF OneJob
<1>11. \A job \in replaying' : On(job, s) => job = reaper'.job \/ \E i \in 1..Len(jobs') : job = jobs'[i]
  <2> SUFFICES ASSUME NEW job \in replaying', On(job, s), job # reaper.job
               PROVE  \E i \in 1..Len(jobs') : job = jobs'[i]
    BY <1>1
  <2>1. CASE job = new
    BY <2>1, <1>4
  <2>2. CASE job # new
    <3>1. PICK i \in 1..Len(jobs) : job = jobs[i]
      BY <1>1, <1>2, <2>2 DEF OneJob
    <3> QED BY <1>4, <3>1
  <2> QED BY <2>1, <2>2
<1> QED BY <1>2, <1>6, <1>7, <1>8, <1>9, <1>10, <1>11, OneJobNext

\* When the reaper retains the job in its hands.
LEMMA OneJobRetained ==
    ASSUME CustodyInv, CustodyFrame, TypesInv', RetainJob,
           NEW s \in Slot, slots'[s].busy # NoTask
    PROVE  OneJob(s)'
<1>1. /\ deferred' = deferred \cup {reaper.job} /\ replaying' = replaying \ {reaper.job}
      /\ jobs' = jobs /\ reaper.phase \in {"inspect", "fail", "finish"}
      /\ reaper'.phase = "idle" /\ reaper'.job = NoJob
  BY DEF RetainJob, StopReaping
<1>2. /\ slots'[s].life = slots[s].life /\ OneJob(s)
      /\ slots'[s].mode # "reaping" => NoJobOn(s)
  BY <1>1, BoundBefore
<1>3. ~On(reaper'.job, s)
  BY <1>1, NullTaskAssumption DEF NoJob, On
<1>6. slots'[s].mode # "reaping" => \A job \in AllJobs' : ~On(job, s)
  BY <1>1, <1>2 DEF NoJobOn, AllJobs
<1>9. \A job \in deferred' \ replaying' : On(job, s) =>
          ~On(reaper'.job, s) /\ \A i \in 1..Len(jobs') : ~On(jobs'[i], s)
  <2> SUFFICES ASSUME NEW job \in deferred' \ replaying', On(job, s)
               PROVE  \A i \in 1..Len(jobs) : ~On(jobs[i], s)
    BY <1>1, <1>3
  <2>1. CASE job = reaper.job
    BY <2>1, <1>2 DEF OneJob
  <2>2. CASE job # reaper.job
    BY <2>2, <1>1, <1>2 DEF OneJob
  <2> QED BY <2>1, <2>2
<1>10. \A job, other \in deferred' : On(job, s) /\ On(other, s) => job = other
  <2>1. ASSUME NEW job \in deferred, On(job, s), On(reaper.job, s) PROVE job = reaper.job
    <3>1. job \in replaying
      BY <1>2, <2>1 DEF OneJob
    <3> QED BY <1>2, <2>1, <3>1 DEF OneJob
  <2> QED BY <1>1, <1>2, <2>1 DEF OneJob
<1>11. \A job \in replaying' : On(job, s) => job = reaper'.job \/ \E i \in 1..Len(jobs') : job = jobs'[i]
  BY <1>1, <1>2 DEF OneJob
<1> QED BY <1>1, <1>2, <1>3, <1>6, <1>9, <1>10, <1>11, OneJobNext DEF OneJob

\* When the reaper takes a job from its queue.
LEMMA OneJobTaken ==
    ASSUME CustodyInv, CustodyFrame, TypesInv', ReapStep, reaper.phase = "idle",
           NEW s \in Slot, slots'[s].busy # NoTask
    PROVE  OneJob(s)'
<1>t. jobs \in Seq(Job) /\ Len(jobs) \in Nat /\ replaying \subseteq deferred /\ TypesInv
  BY DEF CustodyInv, TypesInv, TypeInv, ExecTypeOK, CustodyTypeOK
<1>0. PICK head : head = Head(jobs)
  OBVIOUS
<1>1. /\ jobs # <<>> /\ jobs' = Tail(jobs)
      /\ reaper.job = NoJob
      /\ \/ reaper'.phase # "idle" /\ reaper'.job = head /\ deferred' = deferred /\ replaying' = replaying
         \/ /\ reaper'.phase = "idle" /\ reaper'.job = NoJob
            /\ deferred' = deferred \ ({head} \cap replaying) /\ replaying' = replaying \ ({head} \cap replaying)
  <2>1. ReaperStep /\ reaper.job = NoJob
    BY <1>t DEF ReapStep, TypesInv
  <2> QED BY <1>t, <1>0, <2>1, ReaperMovesOn DEF ReapStep
<1>2. /\ slots'[s].life = slots[s].life /\ OneJob(s)
      /\ slots'[s].mode # "reaping" => NoJobOn(s)
  BY <1>1, BoundBefore
<1>n. ~On(NoJob, s)
  BY NullTaskAssumption DEF NoJob, On
<1>4. /\ head = jobs[1] /\ 1 \in 1..Len(jobs) /\ Len(Tail(jobs)) = Len(jobs) - 1
  BY <1>t, <1>0, <1>1
<1>5. ASSUME NEW i \in 1..Len(jobs')
      PROVE  i + 1 \in 1..Len(jobs) /\ jobs'[i] = jobs[i + 1] /\ i + 1 # 1
  BY <1>t, <1>1, <1>4
<1>6. slots'[s].mode # "reaping" => \A job \in AllJobs' : ~On(job, s)
  BY <1>2, <1>t, JobsStayJobs DEF NoJobOn
<1>7. \A i, j \in 1..Len(jobs') : On(jobs'[i], s) /\ On(jobs'[j], s) => i = j
  <2> SUFFICES ASSUME NEW i \in 1..Len(jobs'), NEW j \in 1..Len(jobs'), On(jobs'[i], s), On(jobs'[j], s)
               PROVE  i = j
    OBVIOUS
  <2>1. i + 1 = j + 1
    BY <1>2, <1>5 DEF OneJob
  <2> QED BY <2>1
<1>8. \A i \in 1..Len(jobs') : On(reaper'.job, s) => ~On(jobs'[i], s)
  <2> SUFFICES ASSUME NEW i \in 1..Len(jobs'), On(reaper'.job, s), On(jobs'[i], s) PROVE FALSE
    OBVIOUS
  <2>1. On(jobs[1], s)
    BY <1>1, <1>n, <1>4
  <2> QED BY <1>2, <1>4, <1>5, <2>1 DEF OneJob
<1>9. \A job \in deferred' \ replaying' : On(job, s) =>
          ~On(reaper'.job, s) /\ \A i \in 1..Len(jobs') : ~On(jobs'[i], s)
  <2> SUFFICES ASSUME NEW job \in deferred' \ replaying', On(job, s)
               PROVE  ~On(reaper'.job, s) /\ \A i \in 1..Len(jobs') : ~On(jobs'[i], s)
    OBVIOUS
  <2>1. job \in deferred \ replaying
    BY <1>1
  <2>2. \A i \in 1..Len(jobs) : ~On(jobs[i], s)
    BY <1>2, <2>1 DEF OneJob
  <2>3. \A i \in 1..Len(jobs') : ~On(jobs'[i], s)
    BY <1>5, <2>2
  <2> QED BY <1>1, <1>4, <1>n, <2>2, <2>3
<1>10. \A job, other \in deferred' : On(job, s) /\ On(other, s) => job = other
  BY <1>1, <1>2 DEF OneJob
<1>11. \A job \in replaying' : On(job, s) => job = reaper'.job \/ \E i \in 1..Len(jobs') : job = jobs'[i]
  <2> SUFFICES ASSUME NEW job \in replaying', On(job, s), job # reaper'.job
               PROVE  \E i \in 1..Len(jobs') : job = jobs'[i]
    OBVIOUS
  <2>1. job \in replaying /\ job # head
    BY <1>1
  <2>2. PICK k \in 1..Len(jobs) : job = jobs[k]
    BY <1>1, <1>2, <1>n, <2>1 DEF OneJob
  <2>3. k - 1 \in 1..Len(jobs') /\ jobs'[k - 1] = jobs[k]
    BY <1>t, <1>1, <1>4, <2>1, <2>2
  <2> QED BY <2>2, <2>3
<1> QED BY <1>2, <1>6, <1>7, <1>8, <1>9, <1>10, <1>11, OneJobNext

\* When the reaper is through with its job.
LEMMA OneJobOver ==
    ASSUME CustodyInv, CustodyFrame, TypesInv', ReapStep, reaper.phase # "idle", reaper'.phase = "idle",
           NEW s \in Slot, slots'[s].busy # NoTask
    PROVE  OneJob(s)'
<1>t. jobs \in Seq(Job) /\ replaying \subseteq deferred /\ TypesInv
  BY DEF CustodyInv, TypesInv, TypeInv, ExecTypeOK, CustodyTypeOK
<1>1. /\ jobs' = jobs /\ reaper'.job = NoJob
      /\ deferred' = deferred \ ({reaper.job} \cap replaying)
      /\ replaying' = replaying \ ({reaper.job} \cap replaying)
  <2>1. ReaperStep
    BY DEF ReapStep
  <2> QED BY <1>t, <2>1, ReaperMovesOn DEF ReapStep
<1>2. /\ slots'[s].life = slots[s].life /\ OneJob(s)
      /\ slots'[s].mode # "reaping" => NoJobOn(s) \/ On(reaper.job, s)
  BY BoundBefore
<1>n. ~On(reaper'.job, s)
  BY <1>1, NullTaskAssumption DEF NoJob, On
<1>6. slots'[s].mode # "reaping" => \A job \in AllJobs' : ~On(job, s)
  <2>1. CASE NoJobOn(s)
    BY <1>t, <2>1, JobsStayJobs DEF NoJobOn
  <2>2. CASE On(reaper.job, s)
    <3>1. \A i \in 1..Len(jobs) : ~On(jobs[i], s)
      BY <1>2, <2>2 DEF OneJob
    <3>2. ASSUME NEW job \in deferred', On(job, s) PROVE FALSE
      <4>1. job \in replaying'
        BY <1>1, <1>2, <2>2, <3>2 DEF OneJob
      <4>2. job \in replaying /\ job # reaper.job
        BY <1>1, <4>1
      <4> QED BY <1>2, <3>1, <3>2, <4>2 DEF OneJob
    <3> QED BY <1>1, <3>1, <3>2 DEF AllJobs
  <2> QED BY <1>2, <2>1, <2>2
<1>9. \A job \in deferred' \ replaying' : On(job, s) => \A i \in 1..Len(jobs') : ~On(jobs'[i], s)
  BY <1>1, <1>2 DEF OneJob
<1>10. \A job, other \in deferred' : On(job, s) /\ On(other, s) => job = other
  BY <1>1, <1>2 DEF OneJob
<1>11. \A job \in replaying' : On(job, s) => job = reaper'.job \/ \E i \in 1..Len(jobs') : job = jobs'[i]
  BY <1>1, <1>2 DEF OneJob
<1> QED BY <1>1, <1>2, <1>n, <1>6, <1>9, <1>10, <1>11, OneJobNext DEF OneJob

\* A bound worker is the subject of one job at most.
LEMMA StepBoundWorkers ==
    ASSUME CustodyInv, CustodyFrame, TypesInv', [CustodyNext]_sysVars
    PROVE  BoundWorkers'
<1> SUFFICES ASSUME NEW s \in Slot, slots'[s].busy # NoTask PROVE OneJob(s)'
  BY DEF BoundWorkers
<1>0. TypesInv
  BY DEF CustodyInv
<1>1. CASE UNCHANGED <<jobs, deferred, replaying, reaper>>
  BY <1>1, OneJobStays
<1>2. CASE SupervisorStep
  <2>1. CASE \E r \in Slot : ReserveDeadSlot(r)
    BY <1>2, <2>1, OneJobReserved
  <2>2. CASE \E t \in Task : Timeout(t)
    BY <1>2, <2>2, OneJobLate
  <2>3. CASE UNCHANGED <<jobs, reaper>>
    BY <1>1, <1>2, <2>3 DEF SupervisorStep, custodyVars
  <2> QED BY <1>2, <2>1, <2>2, <2>3
         DEF SupervisorStep, ClaimLaunch, BindLaunch, ReleaseLaunch, Complete, ReportDone,
             WorkerDies, LeaveBoot, HandleTaskDone
<1>3. CASE ReapStep
  <2>0. ReaperStep
    BY <1>3 DEF ReapStep
  <2>1. CASE reaper.phase = "idle"
    BY <1>3, <2>1, OneJobTaken
  <2>2. CASE reaper.phase # "idle" /\ reaper'.phase = "idle"
    BY <1>3, <2>2, OneJobOver
  <2>3. CASE reaper.phase # "idle" /\ reaper'.phase # "idle"
    <3>1. reaper'.job = reaper.job /\ UNCHANGED <<jobs, deferred, replaying>>
      BY <1>0, <1>3, <2>0, <2>3, ReaperMovesOn DEF ReapStep
    <3> QED BY <2>3, <3>1, OneJobStays
  <2> QED BY <2>1, <2>2, <2>3
<1>4. CASE RetainJob
  BY <1>4, OneJobRetained
<1>5. CASE \E job \in deferred : ReplayJob(job)
  BY <1>5, OneJobReplayed
<1>6. CASE UNCHANGED sysVars
  BY <1>1, <1>6 DEF sysVars, execVars, custodyVars
<1> QED BY <1>1, <1>2, <1>3, <1>4, <1>5, <1>6, CustodyLeavesJobs DEF CustodyNext

-----------------------------------------------------------------------------
\* A task without a row, and in nobody's hands, does not come back.
LEMMA GoneIsNotBack ==
    \A t \in Task :
        TypesInv /\ running[t] = NoSlot /\ t \notin pending /\ custody[t].pc # "pending" => ~Back(t)
<1> SUFFICES ASSUME NEW t \in Task, TypesInv, running[t] = NoSlot, t \notin pending,
                    custody[t].pc # "pending", Back(t)
             PROVE  FALSE
  OBVIOUS
<1>1. reaper.phase \in {"policy", "retry"} /\ running[t] = reaper.job.slot
  BY DEF Back
<1>2. reaper.job \in Job
  BY <1>1 DEF TypesInv, TypeInv, JobsWellFormed
<1> QED BY <1>1, <1>2, NullTaskAssumption DEF Job

\* ... and neither after a step.
LEMMA GoneIsNotBackNext ==
    (\A t \in Task :
        TypesInv /\ running[t] = NoSlot /\ t \notin pending /\ custody[t].pc # "pending" => ~Back(t))'
BY GoneIsNotBack, PTL

\* A task that is away, with a terminal or without a row, stays away.
LEMMA AwayStays ==
    ASSUME CustodyInv, CustodyFrame, TypesInv', NEW t \in Task, ~Back(t), Terminal(t) \/ running[t] = NoSlot
    PROVE  ~Back(t)' /\ running'[t] \in {running[t], NoSlot}
<1>t. TypesInv /\ NoSlot \notin Slot
  BY NullTaskAssumption DEF CustodyInv
<1>1. TaskFrame(t) /\ ReaperFrame /\ t \notin pending /\ custody[t].pc # "pending"
  BY DEF CustodyFrame, Back
<1>2. running'[t] \in {running[t], NoSlot}
  BY <1>1 DEF TaskFrame, Starts
<1>3. custody'[t].pc # "pending"
  BY <1>1 DEF TaskFrame
<1>4. t \notin pending'
  <2>1. ASSUME reaper.phase = "retry", reaper.job.task = t, DeadJobCurrent(reaper.job)
        PROVE  Back(t)
    <3>1. reaper.job.row # 0
      BY <1>t, <2>1 DEF TypesInv, TypeInv, JobsWellFormed, DeadPhase
    <3>2. reaper.job.life = slots[reaper.job.slot].life /\ running[t] = reaper.job.slot
      BY <1>t, <2>1, <3>1, NullTaskAssumption DEF DeadJobCurrent
    <3> QED BY <2>1, <3>2 DEF Back, On
  <2> QED BY <1>1, <2>1 DEF TaskFrame
<1>5. ASSUME reaper'.phase \in {"policy", "retry"}, reaper'.job.task = t,
             running'[t] = reaper'.job.slot, reaper'.job.life = slots'[reaper'.job.slot].life
      PROVE  FALSE
  <2>1. /\ reaper'.job = reaper.job
        /\ reaper.phase \in {"policy", "retry"} \/ (reaper.phase = "inspect" /\ ~Terminal(t))
    BY <1>1, <1>5 DEF ReaperFrame
  <2>2. reaper.job \in Job /\ reaper.job.slot \in Slot /\ JobHolds(reaper.job)
    <3>1. reaper.job \in AllJobs
      BY <2>1 DEF AllJobs
    <3> QED BY <1>t, <3>1, AllJobsTyped DEF CustodyInv, JobsHold, Job
  <2>3. running[t] = reaper.job.slot
    BY <1>t, <1>2, <1>5, <2>1, <2>2
  <2>4. On(reaper.job, reaper.job.slot)
    BY <1>t, <1>5, <2>1, <2>2, OnStays DEF On
  <2>5. reaper.phase \in {"policy", "retry"}
    BY <1>t, <2>1, <2>2, <2>3
  <2> QED BY <1>5, <2>1, <2>3, <2>4, <2>5 DEF Back
<1> QED BY <1>2, <1>3, <1>4, <1>5 DEF Back, On

\* An event that is on its way keeps what it tells.
LEMMA EventStays ==
    ASSUME CustodyInv, CustodyFrame, TypesInv', NEW e \in bus
    PROVE  EventHolds(e)'
<1>t. e \in Event /\ e.task \in Task /\ EventHolds(e) /\ NoTask \notin Task
  BY NullTaskAssumption DEF CustodyInv, TypesInv, TypeInv, ExecTypeOK, EventsHold, Event
<1>1. ASSUME e.attempt = 0
      PROVE  running'[e.task] = NoSlot /\ ~Back(e.task)'
  BY <1>1, <1>t, AwayStays DEF EventHolds
<1>2. ASSUME e.slot \in Slot
      PROVE  slots'[e.slot].work # e.task /\ ~Back(e.task)'
  <2>1. Terminal(e.task) /\ slots[e.slot].work # e.task /\ ~Back(e.task)
    BY <1>2, <1>t DEF EventHolds
  <2>2. TaskFrame(e.task) /\ SlotFrame(e.slot) /\ e.task \notin pending
    BY <1>2, <1>t, <2>1 DEF CustodyFrame, Back
  <2>3. slots'[e.slot].work # e.task
    BY <1>t, <2>1, <2>2 DEF SlotFrame, Starts
  <2> QED BY <1>t, <2>1, <2>3, AwayStays
<1>3. result'[e.task] # "none"
  BY <1>t DEF CustodyFrame, TaskFrame, EventHolds
<1> QED BY <1>t, <1>1, <1>2, <1>3 DEF EventHolds, Terminal

\* The events that a step puts, each with what it tells.
LEMMA WorkersEvent ==
    ASSUME CustodyInv, CustodyFrame, TypesInv', NEW s \in Slot, ReportDone(s), custody' = custody,
           NEW e \in bus' \ bus
    PROVE  EventHolds(e)'
<1>t. TypesInv /\ slots \in [Slot -> Worker] /\ attempt \in [Task -> Nat] /\ NoTask \notin Task /\ NoSlot \notin Slot
  BY NullTaskAssumption DEF CustodyInv, TypesInv, TypeInv, ExecTypeOK
<1>0. PICK t \in Task : t = slots[s].work
  BY <1>t DEF ReportDone, Worker
<1>1. /\ e = [task |-> t, slot |-> s, attempt |-> attempt[t], by |-> "worker"]
      /\ slots[s].alive /\ Terminal(t) /\ result' = result
  BY <1>0 DEF ReportDone
<1>2. attempt[t] # 0
  BY <1>t DEF TypesInv
<1>3. slots'[s].work # t
  BY <1>t, SlotFields DEF ReportDone
<1>4. t \notin pending /\ running[t] \in {s, NoSlot}
  BY <1>0, <1>t DEF CustodyInv, CustodyRows
<1>5. custody[t].pc # "pending"
  BY <1>0 DEF CustodyInv, Places, Placed
<1>6. ASSUME reaper.phase \in {"policy", "retry"}, running[t] = reaper.job.slot, On(reaper.job, reaper.job.slot)
      PROVE  FALSE
  <2>1. reaper.job.kind = "dead" /\ reaper.job.slot \in Slot /\ reaper.job \in AllJobs
    BY <1>t, <1>6 DEF TypesInv, TypeInv, JobsWellFormed, DeadPhase, Job, AllJobs
  <2>2. ~slots[reaper.job.slot].alive
    BY <1>6, <2>1 DEF CustodyInv, JobsHold, JobHolds, On
  <2> QED BY <1>1, <1>4, <1>6, <1>t, <2>1, <2>2
<1>7. ~Back(t)
  BY <1>4, <1>5, <1>6 DEF Back
<1>8. ~Back(t)'
  BY <1>1, <1>7, AwayStays
<1> QED BY <1>1, <1>2, <1>3, <1>8 DEF EventHolds, Terminal

LEMMA CancellationsEvent ==
    ASSUME CustodyInv, CustodyFrame, TypesInv', NEW t \in Task,
           PublishStopped(t) \/ PublishPending(t) \/ PublishMiss(t) \/ DropCancelledPending(t),
           NEW e \in bus' \ bus
    PROVE  EventHolds(e)'
<1>t. TypesInv /\ NoSlot \notin Slot /\ running \in [Task -> Slot \cup {NoSlot}]
      /\ custody \in [Task -> Attempt] /\ result \in [Task -> Outcome]
  BY NullTaskAssumption DEF CustodyInv, TypesInv, TypeInv, ExecTypeOK, CustodyTypeOK
<1>1. e = CancelDone(t)
  BY DEF PublishStopped, PublishPending, PublishMiss, DropCancelledPending
<1>2. running'[t] = NoSlot /\ t \notin pending' /\ custody'[t].pc # "pending"
  <2>1. CASE PublishStopped(t)
    <3>1. running[t] # NoSlot /\ running'[t] = NoSlot /\ pending' = pending
      BY <1>t, <2>1 DEF PublishStopped
    <3>2. custody'[t].pc = "respawn"
      BY <1>t, <2>1, ProceedFields DEF PublishStopped, At, Step, Held, Leaving
    <3> QED BY <3>1, <3>2 DEF CustodyInv, CustodyRows
  <2>2. CASE PublishPending(t) \/ PublishMiss(t)
    <3>1. running' = running /\ pending' = pending /\ custody[t].pc \in {"dropped", "missed"}
      BY <2>2 DEF PublishPending, PublishMiss, At
    <3>2. custody'[t].pc = "none"
      BY <1>t, <2>2 DEF PublishPending, PublishMiss, EndCustody, NoCustody
    <3> QED BY <3>1, <3>2 DEF CustodyInv, Places, Placed
  <2>3. CASE DropCancelledPending(t)
    <3>1. running' = running /\ t \in pending /\ t \notin pending' /\ custody' = custody
      BY <2>3 DEF DropCancelledPending
    <3> QED BY <3>1 DEF CustodyInv, CustodyRows, Places, Placed
  <2> QED BY <2>1, <2>2, <2>3
<1>3. ~Back(t)'
  BY <1>2, GoneIsNotBackNext
<1>4. result'[t] # "none"
  <2>1. CASE DropCancelledPending(t)
    <3>1. bus' # bus => result' = Written(t, "cancelled")
      BY <2>1 DEF DropCancelledPending
    <3> QED BY <1>t, <3>1, WrittenStands DEF Outcome
  <2>2. CASE ~DropCancelledPending(t)
    <3>1. Terminal(t)
      BY <2>2 DEF PublishStopped, PublishPending, PublishMiss, At, CustodyInv, Places, Placed, Leaving
    <3> QED BY <3>1 DEF CustodyFrame, TaskFrame
  <2> QED BY <2>1, <2>2
<1> QED BY <1>1, <1>2, <1>3, <1>4, <1>t DEF EventHolds, CancelDone, Terminal

LEMMA ReapersEvent ==
    ASSUME CustodyInv, CustodyFrame, TypesInv', ReapStep, NEW e \in bus' \ bus
    PROVE  EventHolds(e)'
<1>t. /\ TypesInv /\ NoSlot \notin Slot /\ running \in [Task -> Slot \cup {NoSlot}]
      /\ slots \in [Slot -> Worker] /\ custody' = custody /\ jobs \in Seq(Job) /\ NoTask \notin Task
  BY NullTaskAssumption DEF CustodyInv, TypesInv, TypeInv, ExecTypeOK, CustodyTypeOK, ReapStep
<1>d. reaper.phase \in DeadPhase => /\ reaper.job.row # 0 /\ reaper.job.task \in Task
                                    /\ reaper.job.slot \in Slot
  BY <1>t DEF TypesInv, TypeInv, JobsWellFormed, DeadPhase, NamesTask, Job
<1>h. reaper.phase = "finish" => /\ reaper.job.kind = "timeout" /\ reaper.job.task \in Task
                                 /\ reaper.job.slot \in Slot /\ JobHolds(reaper.job)
  BY <1>t DEF TypesInv, TypeInv, JobsWellFormed, TimeoutPhase, NamesTask, Job, CustodyInv, JobsHold, AllJobs
<1>s. ASSUME NEW job \in Job, job.row # 0, e = SavedTerminal(job, NoSlot), job.task \in Task, Terminal(job.task)
      PROVE  EventHolds(e)'
  <2>1. result'[job.task] # "none"
    BY <1>s DEF CustodyFrame, TaskFrame
  <2> QED BY <1>s, <1>t, <2>1 DEF SavedTerminal, EventHolds, Terminal
<1>1. CASE TakeJob
  <2>0. PICK job : job = Head(jobs)
    OBVIOUS
  <2>1. job.kind = "timeout" /\ e = SavedTerminal(job, NoSlot) /\ jobs # <<>> /\ Terminal(job.task)
    BY <1>1, <2>0 DEF TakeJob, RecoverReplacedFiles
  <2>2. job \in AllJobs /\ job \in Job
    BY <1>t, <2>0, <2>1, Taken, JobPlaces, AllJobsTyped
  <2>3. job.row # 0 /\ job.task \in Task
    BY <1>t, <2>1, <2>2, AllJobsTyped DEF CustodyInv, JobsHold, JobHolds, NamesTask
  <2> QED BY <1>s, <2>1, <2>2, <2>3
<1>2. CASE InspectDeadJob
  <2>0. PICK job : job = reaper.job
    OBVIOUS
  <2>1. /\ reaper.phase = "inspect" /\ DeadJobCurrent(job) /\ Terminal(job.task)
        /\ e = SavedTerminal(job, job.slot) /\ UNCHANGED <<slots, result>>
    BY <1>2, <2>0 DEF InspectDeadJob
  <2>2. job.row # 0 /\ job.task \in Task /\ job.slot \in Slot
    BY <1>d, <2>0, <2>1 DEF DeadPhase
  <2>3. ~slots[job.slot].alive /\ running[job.task] = job.slot
    BY <1>t, <2>1, <2>2 DEF DeadJobCurrent
  <2>4. job.task \notin pending /\ custody[job.task].pc # "pending" /\ slots[job.slot].work = NoTask
    BY <1>t, <2>2, <2>3 DEF CustodyInv, CustodyRows, Places, Placed
  <2>5. ~Back(job.task)'
    BY <2>1, <2>2, <2>4, AwayStays DEF Back
  <2> QED BY <1>t, <2>1, <2>2, <2>4, <2>5 DEF EventHolds, SavedTerminal, Terminal
<1>3. CASE WithdrawCrashed
  <2>0. PICK job : job = reaper.job
    OBVIOUS
  <2>1. /\ reaper.phase = "withdraw" /\ DeadJobCurrent(job) /\ e = HostVerdict(job)
        /\ running' = [running EXCEPT ![job.task] = NoSlot] /\ result' = result
    BY <1>3, <2>0 DEF WithdrawCrashed
  <2>2. job.row # 0 /\ job.task \in Task /\ job.slot \in Slot
    BY <1>d, <2>0, <2>1 DEF DeadPhase
  <2>3. running[job.task] = job.slot /\ Terminal(job.task)
    BY <1>t, <2>0, <2>1, <2>2 DEF DeadJobCurrent, CustodyInv, ReaperKnows
  <2>4. job.task \notin pending /\ custody[job.task].pc # "pending"
    BY <1>t, <2>2, <2>3 DEF CustodyInv, CustodyRows, Places, Placed
  <2>5. ~Back(job.task)'
    BY <2>1, <2>2, <2>3, <2>4, AwayStays DEF Back
  <2> QED BY <1>t, <2>1, <2>2, <2>3, <2>5 DEF EventHolds, HostVerdict, Terminal
<1>4. CASE FinishTimedOut
  <2>0. PICK job : job = reaper.job
    OBVIOUS
  <2>h. reaper.phase = "finish" /\ job.task \in Task /\ job.slot \in Slot /\ job \in Job /\ job.row # 0
        /\ running[job.task] = NoSlot /\ job.task \notin pending /\ custody[job.task].pc # "pending"
    BY <1>4, <1>h, <1>t, <2>0 DEF FinishTimedOut, JobHolds, TypesInv, TypeInv, JobsWellFormed
  <2>1. CASE ~TimeoutJobCurrent(job)
    <3>1. e = SavedTerminal(job, NoSlot) /\ Terminal(job.task)
      BY <1>4, <2>0, <2>1 DEF FinishTimedOut, RecoverReplacedFiles
    <3> QED BY <1>s, <2>h, <3>1
  <2>2. CASE TimeoutJobCurrent(job)
    <3>1. /\ e = IF Terminal(job.task) THEN SavedTerminal(job, job.slot) ELSE HostVerdict(job)
          /\ UNCHANGED <<slots, running>> /\ result' = Written(job.task, "failed")
      BY <1>4, <2>0, <2>2 DEF FinishTimedOut
    <3>2. slots[job.slot].work # job.task
      <4>1. ~slots[job.slot].alive
        BY <2>0, <2>2, <2>h DEF TimeoutJobCurrent, CustodyInv, ReaperKnows, On
      <4> QED BY <1>t, <2>h, <4>1 DEF CustodyInv, CustodyRows
    <3>3. ~Back(job.task)'
      BY <2>h, AwayStays DEF Back
    <3>4. result'[job.task] # "none"
      <4>1. result \in [Task -> Outcome]
        BY <1>t DEF TypesInv, TypeInv, ExecTypeOK
      <4> QED BY <2>h, <3>1, <4>1, WrittenStands DEF Outcome
    <3> QED BY <1>t, <2>h, <3>1, <3>2, <3>3, <3>4 DEF EventHolds, HostVerdict, SavedTerminal, Terminal
  <2> QED BY <2>1, <2>2
<1>5. CASE DecideCrash \/ FailCrashed \/ RetryCrashed \/ RespawnSlot \/ KillTimedOut
  BY <1>5 DEF DecideCrash, FailCrashed, RetryCrashed, RespawnSlot, KillTimedOut
<1>6. ReaperStep
  BY DEF ReapStep
<1> QED BY <1>1, <1>2, <1>3, <1>4, <1>5, <1>6 DEF ReaperStep

\* Every event tells the truth, from the moment it is put.
LEMMA StepEventsHold ==
    ASSUME CustodyInv, CustodyFrame, TypesInv', [CustodyNext]_sysVars
    PROVE  EventsHold'
<1> SUFFICES ASSUME NEW e \in bus' \ bus PROVE EventHolds(e)'
  BY EventStays DEF EventsHold
<1>1. CASE SupervisorStep
  <2>1. PICK s \in Slot : ReportDone(s)
    BY <1>1 DEF SupervisorStep, ClaimLaunch, BindLaunch, ReleaseLaunch, Complete, WorkerDies,
                LeaveBoot, HandleTaskDone, ReserveDeadSlot, Timeout
  <2>2. custody' = custody
    BY <1>1 DEF SupervisorStep, custodyVars
  <2> QED BY <2>1, <2>2, WorkersEvent
<1>2. CASE \E t \in Task : CustodyStep(t) \/ DropCancelledPending(t)
  <2>1. PICK t \in Task : CustodyStep(t) \/ DropCancelledPending(t)
    BY <1>2
  <2>2. ~Capture(t) /\ ~FinalizeOnMiss(t)
    BY Zenon DEF Capture, FinalizeOnMiss
  <2>3. ~JudgeStopped(t) /\ ~WriteCancelled(t)
    BY Zenon DEF JudgeStopped, WriteCancelled
  <2>4. ~KillStopped(t) /\ ~RespawnStopped(t) /\ ~WritePending(t)
    BY DEF KillStopped, RespawnStopped, WritePending
  <2>5. ~BeginCustody(t) /\ ~ClaimStop(t) /\ ~SettleStop(t)
    BY DEF BeginCustody, ClaimStop, SettleStop, execVars
  <2>6. PublishStopped(t) \/ PublishPending(t) \/ PublishMiss(t) \/ DropCancelledPending(t)
    BY <2>1, <2>2, <2>3, <2>4, <2>5 DEF CustodyStep
  <2> QED BY <2>6, CancellationsEvent
<1>3. CASE ReapStep
  BY <1>3, ReapersEvent
<1>4. CASE (\E t \in Task : RequestStop(t)) \/ RetainJob \/ (\E job \in deferred : ReplayJob(job))
           \/ UNCHANGED sysVars
  BY <1>4 DEF RequestStop, RetainJob, ReplayJob, sysVars, execVars
<1> QED BY <1>1, <1>2, <1>3, <1>4 DEF CustodyNext

-----------------------------------------------------------------------------
\* A started pool: nothing is stopped, running, on its way or retained.
LEMMA CustodyInitInv == CustodyInit => CustodyInv
<1> SUFFICES ASSUME CustodyInit PROVE CustodyInv
  OBVIOUS
<1>1. TypesInv
  BY CustodyInitTypes
<1>2. /\ bus = {} /\ jobs = <<>> /\ reaper.phase = "idle" /\ reaper.job = NoJob
      /\ deferred = {} /\ replaying = {}
      /\ \A t \in Task : custody[t].pc = "none" /\ ~custody[t].settled
                         /\ running[t] = NoSlot /\ launch[t] = NoSlot
      /\ \A s \in Slot : slots[s].busy = NoTask /\ slots[s].work = NoTask
  BY DEF CustodyInit, Init, NoCustody, FreshWorker
<1>3. AllJobs = {}
  BY <1>2 DEF AllJobs
<1>4. CustodyRows
  BY <1>2, NullTaskAssumption DEF CustodyRows
<1>5. Places
  BY <1>2 DEF Places, Placed, Held, Leaving
<1>6. Captures
  BY <1>2 DEF Captures, Held, Leaving
<1>7. JobsHold /\ EventsHold /\ BoundWorkers /\ ReaperKnows
  BY <1>2, <1>3 DEF JobsHold, EventsHold, BoundWorkers, ReaperKnows
<1> QED BY <1>1, <1>4, <1>5, <1>6, <1>7 DEF CustodyInv

\* The invariant is inductive.
LEMMA CustodyInvStep == CustodyInv /\ [CustodyNext]_sysVars => CustodyInv'
<1> SUFFICES ASSUME CustodyInv, [CustodyNext]_sysVars PROVE CustodyInv'
  OBVIOUS
<1>1. TypesInv'
  BY StepTypes DEF CustodyInv
<1>2. CustodyFrame
  BY StepFrame DEF CustodyInv
<1> QED BY <1>1, <1>2, StepCustodyRows, StepPlaces, StepCaptures, StepJobsHold, StepReaperKnows,
           StepBoundWorkers, StepEventsHold DEF CustodyInv

\* Custody, the reaper and the supervisor loop keep each other's rows, slots and jobs
\* in order, whatever is stopped, crashes, times out or cannot be written.
THEOREM CustodyInvariant == CustodySpec => []CustodyInv
<1>1. CustodyInit => CustodyInv
  BY CustodyInitInv
<1>2. CustodyInv /\ [CustodyNext]_sysVars => CustodyInv'
  BY CustodyInvStep
<1> QED BY <1>1, <1>2, PTL DEF CustodySpec

\* The projection, the attempts, the retained jobs and all they share stay well formed.
THEOREM CustodyTypeCorrect == CustodySpec => []CustodyTypeOK
<1>1. CustodyInv => CustodyTypeOK
  BY DEF CustodyInv, TypesInv
<1> QED BY <1>1, CustodyInvariant, PTL

\* "Exactly one owner kills, publishes and respawns": from the capture to the settle the
\* worker stays bound to its task and reserved, and the reaper has no job on it.
THEOREM CapturedSlotReserved == CustodySpec => []CapturedSlotIsReserved
<1>1. ASSUME CustodyInv, NEW t \in Task, custody[t].pc \in Held
      PROVE  LET s == custody[t].slot
                 onSlot(job) == job.slot = s /\ job.life = custody[t].life
             IN  /\ SameWorker(t)
                 /\ slots[s].busy = t
                 /\ slots[s].mode = "reaping"
                 /\ ~onSlot(reaper.job)
                 /\ \A i \in 1..Len(jobs) : ~onSlot(jobs[i])
                 /\ \A job \in deferred : ~onSlot(job)
  <2>1. CapturedWorker(t) /\ custody[t].slot \in Slot
    BY <1>1 DEF CustodyInv, Captures, TypesInv
  <2>2. /\ SameWorker(t) /\ NoJobOn(custody[t].slot)
        /\ slots[custody[t].slot].busy = t /\ slots[custody[t].slot].mode = "reaping"
    BY <2>1 DEF CapturedWorker
  <2>3. reaper.phase = "idle" => reaper.job.slot # custody[t].slot
    BY <1>1, <2>1, NullTaskAssumption DEF CustodyInv, TypesInv, NoJob
  <2> QED BY <2>2, <2>3 DEF NoJobOn, AllJobs, On, SameWorker
<1>2. CustodyInv => CapturedSlotIsReserved
  BY <1>1 DEF CapturedSlotIsReserved, Held
<1> QED BY <1>2, CustodyInvariant, PTL

\* An event without a stamp is put after its row was withdrawn, and the row stays away
\* as long as the event is on its way.
THEOREM UnstampedAfterWithdrawal == CustodySpec => []UnstampedFollowsWithdrawal
<1>1. CustodyInv => UnstampedFollowsWithdrawal
  BY DEF CustodyInv, EventsHold, EventHolds, UnstampedFollowsWithdrawal
<1> QED BY <1>1, CustodyInvariant, PTL

\* With custody at work, too, no two live processes are at one task, none is at a queued
\* one, and an idle slot is idle.
THEOREM CustodyNoDoubleExecution == CustodySpec => []NoDoubleExecution
<1>1. CustodyInv => NoDoubleExecution
  BY NullTaskAssumption DEF CustodyInv, CustodyRows, NoDoubleExecution, TypesInv, TypeInv, ExecTypeOK
<1> QED BY <1>1, CustodyInvariant, PTL

THEOREM CustodyIdleSlots == CustodySpec => []IdleSlotIsIdle
<1>1. CustodyInv => IdleSlotIsIdle
  BY DEF CustodyInv, CustodyRows, IdleSlotIsIdle, WorkerReady
<1> QED BY <1>1, CustodyInvariant, PTL

\* The loop never takes a verdict of the host for a worker that still prepares its files.
THEOREM CustodyVerdicts == CustodySpec => []VerdictFollowsWithdrawal
<1>1. CustodyInv => VerdictFollowsWithdrawal
  BY DEF CustodyInv, EventsHold, EventHolds, VerdictFollowsWithdrawal
<1> QED BY <1>1, CustodyInvariant, PTL

-----------------------------------------------------------------------------
\* What a step stores, and for whom.
LEMMA ResultsStored ==
    ASSUME CustodyInv, [CustodyNext]_sysVars
    PROVE  \/ result' = result
           \/ \E u \in Task, outcome \in {"completed", "failed"} : result' = Written(u, outcome)
           \/ \E u \in Task : stop[u] # "none" /\ result' = Written(u, "cancelled")
<1>t. TypesInv /\ slots \in [Slot -> Worker] /\ Places
  BY DEF CustodyInv, TypesInv, TypeInv, ExecTypeOK
<1>1. CASE SupervisorStep
  <2>1. ASSUME NEW s \in Slot, Complete(s) PROVE \E u \in Task : result' = Written(u, "completed")
    <3>1. slots[s].work \in Task
      BY <1>t, <2>1 DEF Complete, Worker
    <3> QED BY <2>1, <3>1 DEF Complete
  <2> QED BY <1>1, <2>1 DEF SupervisorStep, ClaimLaunch, BindLaunch, ReleaseLaunch, ReportDone, WorkerDies,
                            LeaveBoot, HandleTaskDone, ReserveDeadSlot, Timeout
<1>2. CASE ReapStep
  <2>1. reaper.phase \in {"fail", "finish"} => reaper.job.task \in Task
    BY <1>t DEF TypesInv, TypeInv, JobsWellFormed, DeadPhase, TimeoutPhase, NamesTask
  <2>2. CASE FailCrashed \/ FinishTimedOut
    BY <2>1, <2>2 DEF FailCrashed, FinishTimedOut
  <2> QED BY <1>2, <2>2 DEF ReapStep, ReaperStep, TakeJob, InspectDeadJob, DecideCrash, WithdrawCrashed,
                            RetryCrashed, RespawnSlot, KillTimedOut
<1>3. ASSUME NEW t \in Task, CustodyStep(t) \/ DropCancelledPending(t)
      PROVE  result' = result \/ (stop[t] # "none" /\ result' = Written(t, "cancelled"))
  <2>1. custody[t].pc \in {"pending", "miss"} \cup Held => stop[t] # "none"
    BY <1>t DEF Places, Placed
  <2>2. CASE WriteCancelled(t)
    BY <2>1, <2>2, Zenon DEF WriteCancelled, At, Held
  <2>3. CASE FinalizeOnMiss(t)
    BY <2>1, <2>3, Zenon DEF FinalizeOnMiss, At
  <2>4. CASE WritePending(t) \/ DropCancelledPending(t)
    BY <2>1, <2>4 DEF WritePending, DropCancelledPending, At
  <2>5. CASE Capture(t) \/ JudgeStopped(t)
    BY <2>5, Zenon DEF Capture, JudgeStopped
  <2>6. CASE BeginCustody(t) \/ ClaimStop(t) \/ KillStopped(t) \/ SettleStop(t) \/ PublishStopped(t)
             \/ RespawnStopped(t) \/ PublishPending(t) \/ PublishMiss(t)
    BY <2>6 DEF BeginCustody, ClaimStop, KillStopped, SettleStop, PublishStopped, RespawnStopped,
                PublishPending, PublishMiss, execVars
  <2> QED BY <1>3, <2>2, <2>3, <2>4, <2>5, <2>6 DEF CustodyStep
<1>4. CASE (\E t \in Task : RequestStop(t)) \/ RetainJob \/ (\E job \in deferred : ReplayJob(job))
           \/ UNCHANGED sysVars
  BY <1>4 DEF RequestStop, RetainJob, ReplayJob, sysVars, execVars
<1> QED BY <1>1, <1>2, <1>3, <1>4 DEF CustodyNext

\* A Stop is closed with a terminal stored.
LEMMA StopCloses ==
    ASSUME CustodyInv, [CustodyNext]_sysVars, NEW t \in Task, stop[t] # "none", stop'[t] = "none"
    PROVE  result'[t] # "none"
<1>t. /\ TypesInv /\ Placed(t) /\ stop \in [Task -> {"none", "open", "claimed"}] /\ result \in [Task -> Outcome]
  BY DEF CustodyInv, Places, TypesInv, TypeInv, ExecTypeOK, CustodyTypeOK
<1>f. Terminal(t) => result'[t] # "none"
  BY <1>t, StepFrame DEF CustodyFrame, TaskFrame
<1>w. result' = Written(t, "cancelled") => result'[t] # "none"
  BY <1>t, WrittenStands DEF Outcome
<1>r. ~ReleaseStop(t) /\ stop' # stop
  BY <1>t DEF ReleaseStop
<1>1. CASE DropCancelledPending(t)
  BY <1>1, <1>r, <1>w DEF DropCancelledPending
<1>2. CASE SettleStop(t) \/ PublishPending(t) \/ PublishMiss(t)
  BY <1>2, <1>f, <1>t DEF SettleStop, PublishPending, PublishMiss, At, Placed
<1>3. CASE WritePending(t)
  BY <1>3, <1>f, <1>r DEF WritePending
<1>4. CASE FinalizeOnMiss(t)
  BY <1>4, <1>f, <1>r, Zenon DEF FinalizeOnMiss
<1>5. ~Capture(t) /\ ~JudgeStopped(t) /\ ~WriteCancelled(t)
  BY <1>r, Zenon DEF Capture, JudgeStopped, WriteCancelled
<1>6. ~BeginCustody(t) /\ ~KillStopped(t) /\ ~PublishStopped(t) /\ ~RespawnStopped(t)
  BY <1>r DEF BeginCustody, KillStopped, PublishStopped, RespawnStopped
<1>7. ~ClaimStop(t)
  BY <1>r, <1>t DEF ClaimStop
<1> QED BY <1>t, <1>1, <1>2, <1>3, <1>4, <1>5, <1>6, <1>7, OthersWait DEF CustodyStep

\* Of a step: a terminal stands, and Stops and terminals come in their order.
TerminalsAndStops(t) ==
    /\ Terminal(t) => result'[t] = result[t]
    /\ result[t] # "cancelled" /\ result'[t] = "cancelled" => stop[t] # "none"
    /\ stop[t] # "none" /\ stop'[t] = "none" => result'[t] # "none"

LEMMA StepTerminals ==
    ASSUME CustodyInv, [CustodyNext]_sysVars, NEW t \in Task
    PROVE  TerminalsAndStops(t)
<1>t. result \in [Task -> Outcome]
  BY DEF CustodyInv, TypesInv, TypeInv, ExecTypeOK
<1>1. Terminal(t) => result'[t] = result[t]
  <2>1. \A u \in Task, outcome \in Outcome : Terminal(t) => Written(u, outcome)[t] = result[t]
    BY <1>t DEF Written
  <2> QED BY <2>1, ResultsStored DEF Outcome
<1>2. ASSUME result[t] # "cancelled", result'[t] = "cancelled" PROVE stop[t] # "none"
  <2>1. ASSUME NEW u \in Task, NEW outcome \in {"completed", "failed"}
        PROVE  Written(u, outcome)[t] # "cancelled"
    BY <1>t, <1>2, <2>1 DEF Written
  <2>2. \A u \in Task \ {t} : Written(u, "cancelled")[t] = result[t]
    BY <1>t, WrittenStands DEF Outcome
  <2> QED BY <1>2, <2>1, <2>2, ResultsStored
<1>3. stop[t] # "none" /\ stop'[t] = "none" => result'[t] # "none"
  BY StopCloses
<1> QED BY <1>1, <1>2, <1>3 DEF TerminalsAndStops

\* What is stored stands whoever writes after it ("no terminal result is ever replaced"),
\* "cancelled" is stored only for a task whose Stop is not closed, and a Stop is closed
\* only over a stored terminal: persist first, publish second.
THEOREM CustodyTerminals == CustodySpec => [][\A t \in Task : TerminalsAndStops(t)]_sysVars
<1> DEFINE Kept == \A t \in Task : TerminalsAndStops(t)
<1>1. CustodyInv /\ [CustodyNext]_sysVars => [Kept]_sysVars
  BY StepTerminals
<1> HIDE DEF Kept
<1>2. CustodySpec => [][Kept]_sysVars
  BY <1>1, CustodyInvariant, PTL DEF CustodySpec
<1> QED BY <1>2 DEF Kept

-----------------------------------------------------------------------------
\* A queued task leaves the queue by a launch or in custody; a RUNNING row of an unfinished
\* task is withdrawn by a retry, which queues it again, or at a hard bound.
LEMMA RowsLeave ==
    ASSUME CustodyInv, [CustodyNext]_sysVars, NEW t \in Task, ~Terminal(t), stop[t] = "none",
           timeouts' = timeouts, t \in pending \/ running[t] # NoSlot
    PROVE  t \in pending' \/ running'[t] # NoSlot
<1>t. /\ running \in [Task -> Slot \cup {NoSlot}] /\ NoSlot \notin Slot /\ timeouts \in Nat
      /\ \A u \in Task : Placed(u)
  BY NullTaskAssumption, LimitAssumption DEF CustodyInv, TypesInv, TypeInv, ExecTypeOK, Places
<1>0. CASE t \in pending' \/ (pending' = pending /\ running' = running)
  BY <1>0
<1>1. ASSUME NEW u \in Task, NEW s \in Slot, BindLaunch(u, s) PROVE t \in pending' \/ running'[t] # NoSlot
  BY <1>1, <1>t DEF BindLaunch
<1>2. ASSUME NEW e \in bus, HandleTaskDone(e) PROVE t \in pending' \/ running'[t] # NoSlot
  <2>1. e.task # t
    BY DEF CustodyInv, EventsHold, EventHolds
  <2> QED BY <1>2, <1>t, <2>1 DEF HandleTaskDone
<1>3. ASSUME NEW u \in Task, Timeout(u) PROVE FALSE
  BY <1>3, <1>t DEF Timeout
<1>4. CASE WithdrawCrashed
  <2>1. reaper.job.task # t
    BY <1>4 DEF WithdrawCrashed, CustodyInv, ReaperKnows
  <2> QED BY <1>4, <1>t, <2>1 DEF WithdrawCrashed
<1>5. CASE RetryCrashed
  BY <1>5, <1>t DEF RetryCrashed
<1>6. CASE SupervisorStep
  BY <1>0, <1>1, <1>2, <1>3, <1>6 DEF SupervisorStep, ClaimLaunch, ReleaseLaunch, Complete, ReportDone,
                                      WorkerDies, LeaveBoot, ReserveDeadSlot
<1>7. CASE ReapStep
  BY <1>0, <1>4, <1>5, <1>7 DEF ReapStep, ReaperStep, TakeJob, InspectDeadJob, DecideCrash, FailCrashed,
                                RespawnSlot, KillTimedOut, FinishTimedOut
<1>8. ASSUME NEW u \in Task, CustodyStep(u) PROVE t \in pending' \/ running'[t] # NoSlot
  <2>1. CASE Capture(u)
    <3>1. u # t
      BY <1>t, <2>1, Zenon DEF Capture, At, Placed
    <3>2. pending' = pending \ {u} /\ running' = running
      BY <2>1, Zenon DEF Capture
    <3> QED BY <3>1, <3>2
  <2>2. CASE PublishStopped(u)
    <3>1. u # t
      BY <1>t, <2>2 DEF PublishStopped, At, Placed, Leaving
    <3> QED BY <1>t, <2>2, <3>1 DEF PublishStopped
  <2>3. CASE FinalizeOnMiss(u) \/ JudgeStopped(u) \/ WriteCancelled(u) \/ KillStopped(u)
    <3>1. pending' = pending /\ running' = running
      BY <2>3, Zenon DEF FinalizeOnMiss, JudgeStopped, WriteCancelled, KillStopped
    <3> QED BY <3>1
  <2>4. CASE WritePending(u)
    <3>1. pending \subseteq pending' /\ running' = running
      BY <2>4 DEF WritePending
    <3> QED BY <3>1
  <2>5. CASE BeginCustody(u) \/ ClaimStop(u) \/ SettleStop(u) \/ RespawnStopped(u)
             \/ PublishPending(u) \/ PublishMiss(u)
    BY <1>0, <2>5 DEF BeginCustody, ClaimStop, SettleStop, RespawnStopped, PublishPending, PublishMiss, execVars
  <2> QED BY <1>8, <2>1, <2>2, <2>3, <2>4, <2>5 DEF CustodyStep
<1>9. ASSUME NEW u \in Task, DropCancelledPending(u) PROVE t \in pending' \/ running'[t] # NoSlot
  <2>1. u # t
    BY <1>9 DEF DropCancelledPending
  <2> QED BY <1>9, <2>1 DEF DropCancelledPending
<1>10. CASE (\E u \in Task : RequestStop(u)) \/ RetainJob \/ (\E job \in deferred : ReplayJob(job))
            \/ UNCHANGED sysVars
  BY <1>0, <1>10 DEF RequestStop, RetainJob, ReplayJob, sysVars, execVars
<1> QED BY <1>6, <1>7, <1>8, <1>9, <1>10 DEF CustodyNext

\* Hard bounds are only counted up.
LEMMA TimeoutsGrow ==
    ASSUME TypesInv, [CustodyNext]_sysVars
    PROVE  timeouts' = timeouts \/ timeouts' = timeouts + 1
<1>1. ASSUME SupervisorStep PROVE timeouts' = timeouts \/ timeouts' = timeouts + 1
  BY <1>1 DEF SupervisorStep, ClaimLaunch, BindLaunch, ReleaseLaunch, Complete, ReportDone, WorkerDies,
              LeaveBoot, HandleTaskDone, ReserveDeadSlot, Timeout
<1>2. ASSUME ReapStep PROVE timeouts' = timeouts
  BY <1>2 DEF ReapStep, ReaperStep, TakeJob, InspectDeadJob, DecideCrash, FailCrashed, WithdrawCrashed,
              RetryCrashed, RespawnSlot, KillTimedOut, FinishTimedOut
<1>3. ASSUME NEW t \in Task, CustodyStep(t) PROVE timeouts' = timeouts
  <2>1. CASE FinalizeOnMiss(t) \/ JudgeStopped(t) \/ WriteCancelled(t) \/ KillStopped(t) \/ Capture(t)
    BY <2>1, Zenon DEF FinalizeOnMiss, JudgeStopped, WriteCancelled, KillStopped, Capture
  <2>2. CASE BeginCustody(t) \/ ClaimStop(t) \/ SettleStop(t) \/ PublishStopped(t) \/ RespawnStopped(t)
             \/ WritePending(t) \/ PublishPending(t) \/ PublishMiss(t)
    BY <2>2 DEF BeginCustody, ClaimStop, SettleStop, PublishStopped, RespawnStopped, WritePending,
                PublishPending, PublishMiss, execVars
  <2> QED BY <1>3, <2>1, <2>2 DEF CustodyStep
<1>4. ASSUME \/ \E t \in Task : RequestStop(t) \/ DropCancelledPending(t)
             \/ RetainJob
             \/ \E job \in deferred : ReplayJob(job)
             \/ UNCHANGED sysVars
      PROVE  timeouts' = timeouts
  BY <1>4 DEF RequestStop, DropCancelledPending, RetainJob, ReplayJob, sysVars, execVars
<1> QED BY <1>1, <1>2, <1>3, <1>4 DEF CustodyNext

\* A task nobody asked to stop is done, queued, or has its RUNNING row.
WorkHeld(t) == stop[t] # "none" \/ Terminal(t) \/ t \in pending \/ running[t] # NoSlot

LEMMA WorkStaysHeld ==
    ASSUME CustodyInv, [CustodyNext]_sysVars, timeouts = 0 => \A t \in Task : WorkHeld(t)
    PROVE  (timeouts = 0 => \A t \in Task : WorkHeld(t))'
<1> SUFFICES ASSUME timeouts' = 0, NEW t \in Task
             PROVE  stop'[t] # "none" \/ result'[t] # "none" \/ t \in pending' \/ running'[t] # NoSlot
  BY DEF WorkHeld, Terminal
<1>1. TypesInv /\ timeouts \in Nat
  BY LimitAssumption DEF CustodyInv, TypesInv, TypeInv, ExecTypeOK
<1>2. timeouts = 0
  BY <1>1, TimeoutsGrow
<1>3. Terminal(t) => result'[t] # "none"
  BY <1>1, StepFrame DEF CustodyFrame, TaskFrame
<1>4. CASE stop[t] # "none"
  BY <1>4, StopCloses
<1>5. CASE ~Terminal(t) /\ stop[t] = "none"
  BY <1>2, <1>5, RowsLeave DEF WorkHeld
<1> QED BY <1>3, <1>4, <1>5

\* A Stop of one task takes no other task's work from its owner, as long as no hard bound
\* struck: crashes, custody attempts and reap jobs that meet on a slot leave the queue row
\* or the RUNNING row of a task nobody asked to stop.
THEOREM OtherWorkOwned == CustodySpec => [](timeouts = 0 => OtherWorkStaysOwned)
<1> DEFINE Kept == timeouts = 0 => \A t \in Task : WorkHeld(t)
<1>1. CustodyInit => Kept
  BY DEF CustodyInit, Init, WorkHeld
<1>2. CustodyInv /\ Kept /\ [CustodyNext]_sysVars => Kept'
  BY WorkStaysHeld
<1>3. Kept => (timeouts = 0 => OtherWorkStaysOwned)
  BY DEF WorkHeld, OtherWorkStaysOwned, Owned
<1> HIDE DEF Kept
<1> QED BY <1>1, <1>2, <1>3, CustodyInvariant, PTL DEF CustodySpec

-----------------------------------------------------------------------------
\* What goes wrong has its price: a death that nobody ordered, a worker given back to the
\* pool by an owner that failed, and a row lost on a failed write are one fault each.
Paid == faults' = faults + 1

\* The owner of the worker in slot r gives it back, and does nothing else.
GivesBack(r) ==
    /\ Paid
    /\ running' = running
    /\ \A u \in Task : custody[u].pc \in Held /\ custody[u].slot # r => custody'[u] = custody[u]

\* An attempt, or the reaper, kills the worker in slot r.
Executes(r) ==
    \/ \E u \in Task : /\ custody[u].pc = "kill" /\ custody[u].slot = r
                       /\ custody'[u].pc = "judge" /\ custody'[u].slot = r
    \/ reaper.phase = "kill" /\ On(reaper.job, r)

\* An attempt for the task that slot r is bound to captures its worker.
CapturedBy(r) ==
    \E u \in Task : /\ slots[r].busy = u /\ custody[u].pc = "capture"
                    /\ u \notin pending \/ custody[u].settled

\* The ways a step changes the slots.
SlotMove ==
    \/ slots' = slots
    \/ \E r \in Slot, u \in Task : /\ launch'[u] = r /\ WorkerReady(r)
                                   /\ slots' = [slots EXCEPT ![r].busy = u]
    \/ \E r \in Slot : slots' = [slots EXCEPT ![r].busy = NoTask]
    \/ \E r \in Slot, v \in Task \cup {NoTask} : slots' = [slots EXCEPT ![r].work = v]
    \/ \E r \in Slot : slots[r].mode = "booting" /\ slots' = [slots EXCEPT ![r].mode = "open"]
    \/ \E r \in Slot : GivesBack(r) /\ slots' = [slots EXCEPT ![r].mode = "open"]
    \/ \E r \in Slot : (~slots[r].alive \/ CapturedBy(r)) /\ slots' = [slots EXCEPT ![r].mode = "reaping"]
    \/ \E r \in Slot : slots' = [slots EXCEPT ![r].busy = NoTask, ![r].mode = "reaping"]
    \/ \E r \in Slot : (Paid \/ Executes(r)) /\ slots' = [slots EXCEPT ![r].alive = FALSE, ![r].work = NoTask]
    \/ \E r \in Slot : slots' = [slots EXCEPT ![r] = FreshWorker(@.life + 1)]

LEMMA SupervisorMovesSlots ==
    ASSUME TypesInv, SupervisorStep
    PROVE  SlotMove
<1>t. /\ slots \in [Slot -> Worker] /\ launch \in [Task -> Slot \cup {NoSlot}] /\ bus \subseteq Event
      /\ running \in [Task -> Slot \cup {NoSlot}]
  BY DEF TypesInv, TypeInv, ExecTypeOK
<1>1. ASSUME NEW t \in Task, NEW s \in Slot, ClaimLaunch(t, s) PROVE SlotMove
  <2>1. launch'[t] = s
    BY <1>1, <1>t DEF ClaimLaunch
  <2> QED BY <1>1, <2>1 DEF ClaimLaunch, SlotMove
<1>2. ASSUME NEW t \in Task, NEW s \in Slot, BindLaunch(t, s) PROVE SlotMove
  BY <1>2 DEF BindLaunch, SlotMove
<1>3. ASSUME NEW t \in Task, NEW s \in Slot, ReleaseLaunch(t, s) PROVE SlotMove
  BY <1>3 DEF ReleaseLaunch, SlotMove
<1>4. ASSUME NEW s \in Slot, Complete(s) \/ ReportDone(s) PROVE SlotMove
  BY <1>4 DEF Complete, ReportDone, SlotMove
<1>5. ASSUME NEW s \in Slot, WorkerDies(s) PROVE SlotMove
  BY <1>5 DEF WorkerDies, Fault, Paid, SlotMove
<1>6. ASSUME NEW s \in Slot, LeaveBoot(s) PROVE SlotMove
  BY <1>6 DEF LeaveBoot, SlotMove
<1>7. ASSUME NEW e \in bus, HandleTaskDone(e) PROVE SlotMove
  BY <1>7 DEF HandleTaskDone, SlotMove
<1>8. ASSUME NEW s \in Slot, ReserveDeadSlot(s) PROVE SlotMove
  BY <1>8 DEF ReserveDeadSlot, SlotMove
<1>9. ASSUME NEW t \in Task, Timeout(t) PROVE SlotMove
  <2>1. running[t] \in Slot
    BY <1>9, <1>t DEF Timeout
  <2> QED BY <1>9, <2>1 DEF Timeout, SlotMove
<1> QED BY <1>1, <1>2, <1>3, <1>4, <1>5, <1>6, <1>7, <1>8, <1>9 DEF SupervisorStep

LEMMA ReaperMovesSlots ==
    ASSUME TypesInv, ReapStep
    PROVE  SlotMove
<1>c. custody' = custody
  BY DEF ReapStep
<1>1. CASE RespawnSlot
  <2>0. PICK s \in Slot : s = reaper.job.slot
    BY <1>1 DEF RespawnSlot, TypesInv, TypeInv, JobsWellFormed, Job
  <2>1. Fault => GivesBack(s)
    BY <1>1, <1>c DEF RespawnSlot, Fault, Paid, GivesBack
  <2> QED BY <1>1, <2>0, <2>1 DEF RespawnSlot, SlotMove
<1>2. CASE KillTimedOut
  <2>0. PICK s \in Slot : s = reaper.job.slot
    BY <1>2 DEF KillTimedOut, TypesInv, TypeInv, JobsWellFormed, Job
  <2>1. slots[s].life = reaper.job.life => Executes(s)
    BY <1>2, <2>0 DEF KillTimedOut, Executes, On
  <2> QED BY <1>2, <2>0, <2>1 DEF KillTimedOut, SlotMove
<1>3. CASE ~RespawnSlot /\ ~KillTimedOut
  BY <1>3 DEF ReapStep, ReaperStep, TakeJob, InspectDeadJob, DecideCrash, FailCrashed,
              WithdrawCrashed, RetryCrashed, FinishTimedOut, SlotMove
<1> QED BY <1>1, <1>2, <1>3

LEMMA CustodyMovesSlots ==
    ASSUME TypesInv, Places, NEW t \in Task, CustodyStep(t)
    PROVE  SlotMove
<1>s. /\ custody[t].pc \in Held \cup Leaving => custody[t].slot \in Slot
      /\ slots \in [Slot -> Worker]
  BY DEF TypesInv, TypeInv, ExecTypeOK
<1>o. Onward(t) /\ \A u \in Task \ {t} : custody'[u] = custody[u]
  BY AttemptGoesOn
<1>1. CASE Capture(t)
  <2>1. \/ slots' = slots
        \/ \E s \in Slot : /\ slots[s].busy = t /\ ~(t \in pending /\ ~custody[t].settled)
                           /\ slots' = [slots EXCEPT ![s].mode = "reaping"]
    BY <1>1 DEF Capture
  <2>2. custody[t].pc = "capture"
    BY <1>1, Zenon DEF Capture, At
  <2> QED BY <2>1, <2>2 DEF SlotMove, CapturedBy
<1>2. ASSUME custody[t].pc \in {"kill", "judge", "write", "respawn"}, slots' = SlotRestored(t), Fault, running' = running
      PROVE  SlotMove
  <2>1. GivesBack(custody[t].slot)
    BY <1>2, <1>o DEF Fault, Paid, GivesBack
  <2> QED BY <1>2, <1>s, <2>1 DEF SlotMove, SlotRestored, Held, Leaving
<1>3. CASE KillStopped(t)
  <2>1. custody[t].pc = "kill" /\ custody[t].slot \in Slot /\ running' = running
    BY <1>3, <1>s DEF KillStopped, At, Held
  <2>2. CASE Proceed(t, "judge") /\ slots' = [slots EXCEPT ![custody[t].slot].alive = FALSE, ![custody[t].slot].work = NoTask]
    <3>1. custody'[t].pc = "judge"
      BY <2>1, <2>2, AttemptMoves DEF Proceed, TypesInv, CustodyTypeOK, NameSlots, Step, Held
    <3>2. custody'[t].slot = custody[t].slot
      BY <1>o, <2>1, <3>1 DEF Onward, NoCustody
    <3>3. Executes(custody[t].slot)
      BY <2>1, <3>1, <3>2 DEF Executes
    <3> QED BY <2>1, <2>2, <3>3 DEF SlotMove
  <2>3. CASE slots' = slots
    BY <2>3 DEF SlotMove
  <2> QED BY <1>2, <1>3, <2>1, <2>2, <2>3 DEF KillStopped
<1>4. CASE JudgeStopped(t)
  <2>1. custody[t].pc = "judge" /\ running' = running
    BY <1>4, Zenon DEF JudgeStopped, At
  <2>2. slots' = slots \/ (Fault /\ slots' = SlotRestored(t))
    BY <1>4, Zenon DEF JudgeStopped
  <2> QED BY <1>2, <2>1, <2>2 DEF SlotMove
<1>5. CASE WriteCancelled(t)
  <2>1. custody[t].pc = "write" /\ running' = running
    BY <1>5, Zenon DEF WriteCancelled, At
  <2>2. slots' = slots \/ (Fault /\ slots' = SlotRestored(t))
    BY <1>5, Zenon DEF WriteCancelled
  <2> QED BY <1>2, <2>1, <2>2 DEF SlotMove
<1>6. CASE RespawnStopped(t)
  <2>1. custody[t].pc = "respawn" /\ custody[t].slot \in Slot /\ running' = running
    BY <1>6, <1>s DEF RespawnStopped, At, Leaving
  <2>2. \/ slots' = slots \/ (Fault /\ slots' = SlotRestored(t))
        \/ slots' = [slots EXCEPT ![custody[t].slot] = FreshWorker(@.life + 1)]
    BY <1>6 DEF RespawnStopped
  <2> QED BY <1>2, <2>1, <2>2 DEF SlotMove
<1>7. CASE BeginCustody(t) \/ ClaimStop(t) \/ SettleStop(t) \/ PublishStopped(t) \/ WritePending(t)
           \/ PublishPending(t) \/ FinalizeOnMiss(t) \/ PublishMiss(t)
  BY <1>7 DEF BeginCustody, ClaimStop, SettleStop, PublishStopped, WritePending, PublishPending,
              FinalizeOnMiss, PublishMiss, execVars, SlotMove
<1> QED BY <1>1, <1>3, <1>4, <1>5, <1>6, <1>7 DEF CustodyStep

LEMMA StepMovesSlots ==
    ASSUME CustodyInv, [CustodyNext]_sysVars
    PROVE  SlotMove
<1>1. CASE \/ \E t \in Task : RequestStop(t) \/ DropCancelledPending(t)
           \/ RetainJob \/ (\E job \in deferred : ReplayJob(job)) \/ UNCHANGED sysVars
  BY <1>1 DEF RequestStop, DropCancelledPending, RetainJob, ReplayJob, sysVars, execVars, SlotMove
<1> QED BY <1>1, SupervisorMovesSlots, ReaperMovesSlots, CustodyMovesSlots DEF CustodyNext, CustodyInv

\* What the price is of a death, of an open slot, and of a reserved one; and who binds.
SlotPrice(s) ==
    /\ slots[s].alive /\ ~slots'[s].alive => Paid \/ Executes(s)
    /\ slots[s].mode # "open" /\ slots'[s].mode = "open" =>
          \/ slots[s].mode = "booting"
          \/ GivesBack(s) /\ \A r \in Slot \ {s} : slots'[r] = slots[r]
    /\ slots[s].mode # "reaping" /\ slots'[s].mode = "reaping" =>
          \/ slots'[s].busy = NoTask
          \/ ~slots[s].alive /\ ~slots'[s].alive
          \/ CapturedBy(s)
    /\ slots'[s].mode = "booting" => slots[s].mode = "booting" \/ slots'[s].busy = NoTask
    /\ slots'[s].busy # NoTask =>
          \/ slots'[s].busy = slots[s].busy
          \/ /\ launch'[slots'[s].busy] = s
             /\ slots'[s].mode = "open" /\ slots'[s].alive

LEMMA StepSlotPrice ==
    ASSUME TypesInv, SlotMove, NEW s \in Slot
    PROVE  SlotPrice(s)
<1>t. slots \in [Slot -> Worker]
  BY DEF TypesInv, TypeInv, ExecTypeOK
<1>1. CASE slots' = slots
  BY <1>1 DEF SlotPrice
<1>2. ASSUME NEW r \in Slot, NEW v,
             \/ v = NoTask
             \/ launch'[v] = r /\ WorkerReady(r),
             slots' = [slots EXCEPT ![r].busy = v]
      PROVE  SlotPrice(s)
  <2>1. /\ slots'[s].mode = slots[s].mode /\ slots'[s].alive = slots[s].alive
        /\ slots'[s].busy = IF s = r THEN v ELSE slots[s].busy
    BY <1>2, <1>t, SlotFields
  <2> QED BY <1>2, <2>1 DEF SlotPrice, WorkerReady
<1>3. ASSUME NEW r \in Slot, NEW v, slots' = [slots EXCEPT ![r].work = v]
      PROVE  SlotPrice(s)
  <2>1. /\ slots'[s].mode = slots[s].mode /\ slots'[s].alive = slots[s].alive
        /\ slots'[s].busy = slots[s].busy
    BY <1>3, <1>t, SlotFields
  <2> QED BY <2>1 DEF SlotPrice
<1>4. ASSUME NEW r \in Slot, slots[r].mode = "booting" \/ GivesBack(r), slots' = [slots EXCEPT ![r].mode = "open"]
      PROVE  SlotPrice(s)
  <2>1. /\ slots'[s].alive = slots[s].alive /\ slots'[s].busy = slots[s].busy
        /\ slots'[s].mode = IF s = r THEN "open" ELSE slots[s].mode
        /\ \A w \in Slot \ {r} : slots'[w] = slots[w]
    BY <1>4, <1>t, SlotFields
  <2> QED BY <1>4, <2>1 DEF SlotPrice
<1>5. ASSUME NEW r \in Slot, ~slots[r].alive \/ CapturedBy(r), slots' = [slots EXCEPT ![r].mode = "reaping"]
      PROVE  SlotPrice(s)
  <2>1. /\ slots'[s].alive = slots[s].alive /\ slots'[s].busy = slots[s].busy
        /\ slots'[s].mode = IF s = r THEN "reaping" ELSE slots[s].mode
    BY <1>5, <1>t, SlotFields
  <2> QED BY <1>5, <2>1 DEF SlotPrice
<1>6. ASSUME NEW r \in Slot, slots' = [slots EXCEPT ![r].busy = NoTask, ![r].mode = "reaping"]
      PROVE  SlotPrice(s)
  <2>1. /\ slots'[s].alive = slots[s].alive
        /\ slots'[s].busy = IF s = r THEN NoTask ELSE slots[s].busy
        /\ slots'[s].mode = IF s = r THEN "reaping" ELSE slots[s].mode
    BY <1>6, <1>t, SlotFields
  <2> QED BY <2>1 DEF SlotPrice
<1>7. ASSUME NEW r \in Slot, Paid \/ Executes(r), slots' = [slots EXCEPT ![r].alive = FALSE, ![r].work = NoTask]
      PROVE  SlotPrice(s)
  <2>1. /\ slots'[s].mode = slots[s].mode /\ slots'[s].busy = slots[s].busy
        /\ IF s = r THEN ~slots'[s].alive ELSE slots'[s].alive = slots[s].alive
    BY <1>7, <1>t, SlotFields
  <2> QED BY <1>7, <2>1 DEF SlotPrice
<1>8. ASSUME NEW r \in Slot, slots' = [slots EXCEPT ![r] = FreshWorker(@.life + 1)]
      PROVE  SlotPrice(s)
  <2>1. /\ s # r => slots'[s] = slots[s]
        /\ slots'[r].mode = "booting" /\ slots'[r].busy = NoTask /\ slots'[r].alive
    BY <1>8, <1>t DEF FreshWorker
  <2> QED BY <2>1 DEF SlotPrice
<1> QED BY <1>1, <1>2, <1>3, <1>4, <1>5, <1>6, <1>7, <1>8 DEF SlotMove

\* How a launch claim comes and goes, and at what price a row is left.
RowPrice(t) ==
    /\ launch'[t] # launch[t] =>
          \/ launch[t] = NoSlot /\ t \in pending' /\ slots[launch'[t]].busy # t
          \/ launch'[t] = NoSlot /\ running'[t] = launch[t]
          \/ /\ launch'[t] = NoSlot /\ running'[t] = running[t]
             /\ slots'[launch[t]].mode = slots[launch[t]].mode
             /\ slots[launch[t]].mode = "open" => slots'[launch[t]].busy # t
    /\ t \in pending \ pending' =>
          launch'[t] = NoSlot \/ result'[t] # "none" \/ Paid \/ custody'[t].pc = "pending"
    /\ running[t] # NoSlot /\ running'[t] = NoSlot =>
          \/ Terminal(t)
          \/ reaper.phase = "retry" /\ reaper.job.task = t /\ DeadJobCurrent(reaper.job) /\ slots' = slots
          \/ slots'[running[t]].busy = NoTask /\ timeouts' = timeouts + 1 /\ pending' = pending

LEMMA RowsLeftAlone ==
    ASSUME NEW t \in Task, launch'[t] = launch[t], t \in pending => t \in pending', running'[t] = running[t]
    PROVE  RowPrice(t)
BY DEF RowPrice

LEMMA StepRowPrice ==
    ASSUME CustodyInv, [CustodyNext]_sysVars, NEW t \in Task
    PROVE  RowPrice(t)
<1>t. /\ running \in [Task -> Slot \cup {NoSlot}] /\ launch \in [Task -> Slot \cup {NoSlot}]
      /\ slots \in [Slot -> Worker] /\ result \in [Task -> Outcome] /\ NoSlot \notin Slot /\ NoTask \notin Task
      /\ Placed(t) /\ TypesInv
  BY NullTaskAssumption DEF CustodyInv, TypesInv, TypeInv, ExecTypeOK, Places
<1>w. \A u \in Task : result' = Written(u, "cancelled") => result'[u] # "none"
  BY <1>t, WrittenStands DEF Outcome
<1>1. ASSUME NEW u \in Task, NEW s \in Slot, ClaimLaunch(u, s) PROVE RowPrice(t)
  <2>1. CASE u = t
    BY <1>1, <1>t, <2>1 DEF ClaimLaunch, RowPrice
  <2>2. CASE u # t
    BY <1>1, <1>t, <2>2, RowsLeftAlone DEF ClaimLaunch
  <2> QED BY <2>1, <2>2
<1>2. ASSUME NEW u \in Task, NEW s \in Slot, BindLaunch(u, s) PROVE RowPrice(t)
  <2>1. CASE u = t
    <3>1. launch[t] = s /\ launch'[t] = NoSlot /\ running'[t] = s
      BY <1>2, <1>t, <2>1 DEF BindLaunch, LaunchHeld
    <3> QED BY <1>t, <3>1 DEF RowPrice
  <2>2. CASE u # t
    BY <1>2, <1>t, <2>2, RowsLeftAlone DEF BindLaunch
  <2> QED BY <2>1, <2>2
<1>3. ASSUME NEW u \in Task, NEW s \in Slot, ReleaseLaunch(u, s) PROVE RowPrice(t)
  <2>1. CASE u = t
    <3>1. launch[t] = s /\ launch'[t] = NoSlot /\ running' = running /\ pending' = pending
      BY <1>3, <1>t, <2>1 DEF ReleaseLaunch
    <3>2. slots'[s].mode = slots[s].mode /\ (slots[s].mode = "open" => slots'[s].busy # t)
      BY <1>3, <1>t, <2>1, SlotFields DEF ReleaseLaunch
    <3> QED BY <3>1, <3>2 DEF RowPrice
  <2>2. CASE u # t
    BY <1>3, <1>t, <2>2, RowsLeftAlone DEF ReleaseLaunch
  <2> QED BY <2>1, <2>2
<1>4. ASSUME NEW e \in bus, HandleTaskDone(e) PROVE RowPrice(t)
  <2>1. Terminal(e.task)
    BY DEF CustodyInv, EventsHold, EventHolds
  <2>2. CASE e.task = t
    BY <1>4, <1>t, <2>1, <2>2 DEF HandleTaskDone, RowPrice
  <2>3. CASE e.task # t
    BY <1>4, <1>t, <2>3, RowsLeftAlone DEF HandleTaskDone
  <2> QED BY <2>2, <2>3
<1>5. ASSUME NEW u \in Task, Timeout(u) PROVE RowPrice(t)
  <2>0. PICK s \in Slot : s = running[u]
    BY <1>5, <1>t DEF Timeout
  <2>1. slots'[s].busy = NoTask
    BY <1>5, <1>t, <2>0, SlotFields DEF Timeout
  <2>2. CASE u = t
    BY <1>5, <1>t, <2>0, <2>1, <2>2 DEF Timeout, RowPrice
  <2>3. CASE u # t
    BY <1>5, <1>t, <2>3, RowsLeftAlone DEF Timeout
  <2> QED BY <2>2, <2>3
<1>6. CASE SupervisorStep
  <2>1. ASSUME UNCHANGED <<pending, launch, running>> PROVE RowPrice(t)
    BY <2>1, RowsLeftAlone
  <2> QED BY <1>1, <1>2, <1>3, <1>4, <1>5, <1>6, <2>1
          DEF SupervisorStep, Complete, ReportDone, WorkerDies, LeaveBoot, ReserveDeadSlot
<1>7. CASE ReapStep
  <2>1. CASE WithdrawCrashed
    <3>1. Terminal(reaper.job.task)
      BY <2>1 DEF WithdrawCrashed, CustodyInv, ReaperKnows
    <3>2. CASE reaper.job.task = t
      BY <1>t, <2>1, <3>1, <3>2 DEF WithdrawCrashed, RowPrice
    <3>3. CASE reaper.job.task # t
      BY <1>t, <2>1, <3>3, RowsLeftAlone DEF WithdrawCrashed
    <3> QED BY <3>2, <3>3
  <2>2. CASE RetryCrashed
    <3>1. CASE reaper.job.task = t
      BY <1>t, <2>2, <3>1 DEF RetryCrashed, RowPrice
    <3>2. CASE reaper.job.task # t
      BY <1>t, <2>2, <3>2, RowsLeftAlone DEF RetryCrashed
    <3> QED BY <3>1, <3>2
  <2>3. CASE UNCHANGED <<pending, launch, running>>
    BY <2>3, RowsLeftAlone
  <2> QED BY <1>7, <2>1, <2>2, <2>3 DEF ReapStep, ReaperStep, TakeJob, InspectDeadJob, DecideCrash, FailCrashed,
                                        RespawnSlot, KillTimedOut, FinishTimedOut
<1>8. ASSUME NEW u \in Task, CustodyStep(u) PROVE RowPrice(t)
  <2>l. launch' = launch
    BY <1>8, CustodyLeavesJobs
  <2>1. CASE Capture(u)
    <3>1. pending' = pending \ {u} /\ running' = running
      BY <2>1, Zenon DEF Capture
    <3>2. CASE u = t /\ t \in pending
      <4>1. custody[t].settled => Terminal(t)
        BY <1>t DEF Placed
      <4>2. CASE ~custody[t].settled
        <5>1. Proceed(t, "pending")
          BY <2>1, <3>2, <4>2 DEF Capture
        <5>2. NameSlots(custody)
          BY <1>t DEF TypesInv, CustodyTypeOK, NameSlots
        <5>3. custody'[t].pc = "pending"
          BY <5>1, <5>2, AttemptMoves DEF Proceed, Step, Held, Leaving
        <5> QED BY <2>l, <3>1, <5>3 DEF RowPrice
      <4>3. CASE Terminal(t)
        <5>1. result' = result
          BY <2>1, Zenon DEF Capture
        <5> QED BY <2>l, <3>1, <4>3, <5>1 DEF RowPrice, Terminal
      <4> QED BY <4>1, <4>2, <4>3
    <3> QED BY <2>l, <3>1, <3>2, RowsLeftAlone
  <2>2. CASE PublishStopped(u)
    <3>1. u = t => Terminal(t)
      BY <1>t, <2>2 DEF PublishStopped, At, Placed, Leaving
    <3>2. pending' = pending /\ (u # t => running'[t] = running[t])
      BY <1>t, <2>2 DEF PublishStopped
    <3> QED BY <2>l, <3>1, <3>2 DEF RowPrice
  <2>3. CASE FinalizeOnMiss(u) \/ JudgeStopped(u) \/ WriteCancelled(u) \/ KillStopped(u)
    <3>1. pending' = pending /\ running' = running
      BY <2>3, Zenon DEF FinalizeOnMiss, JudgeStopped, WriteCancelled, KillStopped
    <3> QED BY <2>l, <3>1, RowsLeftAlone
  <2>4. CASE WritePending(u)
    <3>1. pending \subseteq pending' /\ running' = running
      BY <2>4 DEF WritePending
    <3> QED BY <2>l, <3>1, RowsLeftAlone
  <2>5. CASE BeginCustody(u) \/ ClaimStop(u) \/ SettleStop(u) \/ RespawnStopped(u)
             \/ PublishPending(u) \/ PublishMiss(u)
    <3>1. pending' = pending /\ running' = running
      BY <2>5 DEF BeginCustody, ClaimStop, SettleStop, RespawnStopped, PublishPending, PublishMiss, execVars
    <3> QED BY <2>l, <3>1, RowsLeftAlone
  <2> QED BY <1>8, <2>1, <2>2, <2>3, <2>4, <2>5 DEF CustodyStep
<1>9. ASSUME NEW u \in Task, DropCancelledPending(u) PROVE RowPrice(t)
  <2>1. launch' = launch /\ running' = running /\ pending' = pending \ {u}
    BY <1>9 DEF DropCancelledPending
  <2>2. u = t => result'[t] # "none" \/ Paid
    BY <1>9, <1>w DEF DropCancelledPending, Fault, Paid
  <2> QED BY <2>1, <2>2 DEF RowPrice
<1>10. CASE (\E u \in Task : RequestStop(u)) \/ RetainJob \/ (\E job \in deferred : ReplayJob(job))
            \/ UNCHANGED sysVars
  <2>1. UNCHANGED <<pending, launch, running>>
    BY <1>10 DEF RequestStop, RetainJob, ReplayJob, sysVars, execVars
  <2> QED BY <2>1, RowsLeftAlone
<1> QED BY <1>6, <1>7, <1>8, <1>9, <1>10 DEF CustodyNext

\* At what price an attempt gives up a queue row or a worker, and which worker it captures.
AttemptPrice(t) ==
    LET c == custody[t]  d == custody'[t] IN
    /\ c.pc = "pending" /\ d.pc # "pending" => result'[t] # "none" \/ Paid
    /\ c.pc \in Held => IF d.pc \in Held THEN d.slot = c.slot ELSE Terminal(t) \/ Paid
    /\ c.pc \notin Held /\ d.pc \in Held =>
          /\ c.pc = "capture" /\ d.slot \in Slot
          /\ slots[d.slot].busy = t /\ slots[d.slot].mode = "open"
          /\ t \in pending => Terminal(t)
          /\ running' = running /\ pending' \subseteq pending
          /\ \A r \in Slot : slots'[r].alive = slots[r].alive

LEMMA CapturePrice ==
    ASSUME CustodyInv, NEW t \in Task, Capture(t)
    PROVE  AttemptPrice(t)
<1>t. NameSlots(custody) /\ slots \in [Slot -> Worker] /\ custody[t].pc = "capture"
  BY Zenon DEF Capture, At, CustodyInv, TypesInv, TypeInv, ExecTypeOK, CustodyTypeOK, NameSlots
<1>s. custody[t].settled => Terminal(t)
  BY DEF CustodyInv, Places, Placed
<1>r. running' = running /\ pending' = pending \ {t}
  BY Zenon DEF Capture
<1>1. ASSUME NEW s \in Slot, slots[s].busy = t, slots[s].mode = "open",
             ~(t \in pending /\ ~custody[t].settled),
             custody' = [custody EXCEPT ![t].pc = "kill", ![t].slot = s, ![t].life = slots[s].life],
             slots' = [slots EXCEPT ![s].mode = "reaping"]
      PROVE  AttemptPrice(t)
  <2>1. custody'[t].slot = s
    BY <1>1, <1>t DEF NameSlots, Attempt
  <2>2. \A r \in Slot : slots'[r].alive = slots[r].alive
    BY <1>1, <1>t, SlotFields
  <2> QED BY <1>1, <1>t, <1>s, <1>r, <2>1, <2>2 DEF AttemptPrice, Held
<1>2. CASE ReleaseStop(t)
  BY <1>2, <1>t, EndsAt DEF ReleaseStop, AttemptPrice, Held, CustodyInv
<1>3. ASSUME NEW pc \in {"pending", "miss"}, Proceed(t, pc) PROVE AttemptPrice(t)
  <2>1. custody'[t].pc = pc
    BY <1>3, <1>t, AttemptMoves DEF Proceed, Step, Held, Leaving
  <2> QED BY <1>3, <1>t, <2>1 DEF AttemptPrice, Held
<1> QED BY <1>1, <1>2, <1>3 DEF Capture

LEMMA StepAttemptPrice ==
    ASSUME CustodyInv, [CustodyNext]_sysVars, NEW t \in Task
    PROVE  AttemptPrice(t)
<1>t. Placed(t) /\ TypesInv /\ result \in [Task -> Outcome] /\ NameSlots(custody)
  BY DEF CustodyInv, Places, TypesInv, TypeInv, ExecTypeOK, CustodyTypeOK, NameSlots
<1>0. CASE custody'[t] = custody[t]
  BY <1>0 DEF AttemptPrice
<1>1. CASE ~CustodyStep(t)
  BY <1>0, <1>1, <1>t, OthersWait
<1>o. CustodyStep(t) => Onward(t)
  BY <1>t, AttemptGoesOn
<1>2. CASE Capture(t)
  BY <1>2, CapturePrice
<1>3. CASE KillStopped(t) \/ JudgeStopped(t) \/ WriteCancelled(t)
  <2>1. CustodyStep(t) /\ custody[t].pc \in {"kill", "judge", "write"}
    BY <1>3, Zenon DEF KillStopped, JudgeStopped, WriteCancelled, At, CustodyStep
  <2>2. Paid \/ custody'[t].pc \in Held
    <3>1. CASE Fault
      BY <3>1 DEF Fault, Paid
    <3>2. CASE \E pc \in {"judge", "write"} : Proceed(t, pc)
      BY <1>t, <2>1, <3>2, AttemptMoves DEF Proceed, Step, Held
    <3>3. ASSUME NEW owed \in BOOLEAN, custody' = [custody EXCEPT ![t].pc = "settle", ![t].owed = owed]
          PROVE  custody'[t].pc \in Held
      <4>1. custody'[t].pc = "settle"
        BY <1>t, <2>1, <3>3, AttemptOwes DEF Held
      <4> QED BY <4>1 DEF Held
    <3>4. KillStopped(t) => Fault \/ Proceed(t, "judge")
      BY DEF KillStopped
    <3>5. JudgeStopped(t) => \/ Fault \/ Proceed(t, "write")
                             \/ \E owed \in BOOLEAN : custody' = [custody EXCEPT ![t].pc = "settle", ![t].owed = owed]
      BY Zenon DEF JudgeStopped
    <3>6. WriteCancelled(t) => \/ Fault
                               \/ \E owed \in BOOLEAN : custody' = [custody EXCEPT ![t].pc = "settle", ![t].owed = owed]
      BY Zenon DEF WriteCancelled
    <3> QED BY <1>3, <3>1, <3>2, <3>3, <3>4, <3>5, <3>6
  <2>3. custody'[t].pc \in Held => custody'[t].slot = custody[t].slot
    BY <1>o, <2>1 DEF Onward, NoCustody, Held
  <2> QED BY <2>1, <2>2, <2>3 DEF AttemptPrice, Held
<1>4. CASE SettleStop(t)
  <2>1. custody[t].pc = "settle" /\ CustodyStep(t)
    BY <1>4 DEF SettleStop, At, CustodyStep
  <2>2. custody'[t].pc \in Held => custody'[t].slot = custody[t].slot
    BY <1>o, <2>1 DEF Onward, NoCustody, Held
  <2> QED BY <1>t, <2>1, <2>2 DEF AttemptPrice, Placed, Held
<1>5. CASE WritePending(t)
  <2>1. custody[t].pc = "pending" /\ CustodyStep(t)
    BY <1>5 DEF WritePending, At, CustodyStep
  <2>2. result'[t] # "none" \/ Paid
    BY <1>5, <1>t, WrittenStands DEF WritePending, Fault, Paid, Outcome
  <2>3. custody'[t].pc \notin Held
    BY <1>o, <2>1 DEF Onward, NoCustody, Held
  <2> QED BY <2>1, <2>2, <2>3 DEF AttemptPrice, Held
<1>6. CASE BeginCustody(t) \/ ClaimStop(t) \/ PublishStopped(t) \/ RespawnStopped(t) \/ PublishPending(t)
           \/ FinalizeOnMiss(t) \/ PublishMiss(t)
  <2>1. /\ custody[t].pc \in {"none", "claim", "publish", "respawn", "dropped", "miss", "missed"}
        /\ CustodyStep(t)
    BY <1>6, Zenon DEF BeginCustody, ClaimStop, PublishStopped, RespawnStopped, PublishPending, FinalizeOnMiss,
                       PublishMiss, At, CustodyStep
  <2>2. custody'[t].pc \notin Held \/ custody'[t] = custody[t]
    BY <1>o, <2>1 DEF Onward, NoCustody, Held
  <2> QED BY <1>0, <2>1, <2>2 DEF AttemptPrice, Held
<1> QED BY <1>1, <1>2, <1>3, <1>4, <1>5, <1>6 DEF CustodyStep

LEMMA FaultsGrow ==
    ASSUME TypesInv, [CustodyNext]_sysVars
    PROVE  faults' = faults \/ Paid
<1>1. ASSUME SupervisorStep PROVE faults' = faults \/ Paid
  BY <1>1 DEF SupervisorStep, ClaimLaunch, BindLaunch, ReleaseLaunch, Complete, ReportDone, WorkerDies,
              LeaveBoot, HandleTaskDone, ReserveDeadSlot, Timeout, Fault, Paid
<1>2. ASSUME ReapStep PROVE faults' = faults \/ Paid
  BY <1>2 DEF ReapStep, ReaperStep, TakeJob, InspectDeadJob, DecideCrash, FailCrashed, WithdrawCrashed,
              RetryCrashed, RespawnSlot, KillTimedOut, FinishTimedOut, Fault, Paid
<1>3. ASSUME NEW t \in Task, CustodyStep(t) PROVE faults' = faults \/ Paid
  <2>1. CASE FinalizeOnMiss(t) \/ JudgeStopped(t) \/ WriteCancelled(t) \/ KillStopped(t) \/ Capture(t)
    BY <2>1, Zenon DEF FinalizeOnMiss, JudgeStopped, WriteCancelled, KillStopped, Capture, SettleOrReopen,
                       Fault, Paid
  <2>2. CASE BeginCustody(t) \/ ClaimStop(t) \/ SettleStop(t) \/ PublishStopped(t) \/ RespawnStopped(t)
             \/ WritePending(t) \/ PublishPending(t) \/ PublishMiss(t)
    BY <2>2 DEF BeginCustody, ClaimStop, SettleStop, PublishStopped, RespawnStopped, WritePending,
                PublishPending, PublishMiss, execVars, SettleOrReopen, Fault, Paid
  <2> QED BY <1>3, <2>1, <2>2 DEF CustodyStep
<1>4. ASSUME \/ \E t \in Task : RequestStop(t) \/ DropCancelledPending(t)
             \/ RetainJob
             \/ \E job \in deferred : ReplayJob(job)
             \/ UNCHANGED sysVars
      PROVE  faults' = faults \/ Paid
  BY <1>4 DEF RequestStop, DropCancelledPending, RetainJob, ReplayJob, sysVars, execVars, Fault, Paid
<1> QED BY <1>1, <1>2, <1>3, <1>4 DEF CustodyNext

\* The price of a step.
Prices ==
    /\ faults' = faults \/ Paid
    /\ \A s \in Slot : SlotPrice(s)
    /\ \A t \in Task : RowPrice(t) /\ AttemptPrice(t)

LEMMA StepPrices ==
    ASSUME CustodyInv, [CustodyNext]_sysVars
    PROVE  Prices
<1>1. TypesInv
  BY DEF CustodyInv
<1>2. SlotMove
  BY StepMovesSlots
<1> QED BY <1>1, <1>2, FaultsGrow, StepSlotPrice, StepRowPrice, StepAttemptPrice DEF Prices

-----------------------------------------------------------------------------
\* The bills of an unfinished task.

\* Its RUNNING row names a dead worker that custody has not killed.
Down(t) ==
    /\ running[t] # NoSlot
    /\ ~slots[running[t]].alive
    /\ ~(custody[t].pc \in Held /\ custody[t].slot = running[t])

\* A worker is bound to the task that neither a launch nor the RUNNING row names.
Stale(t, s) == slots[s].busy = t /\ launch[t] # s /\ running[t] # s

\* One fault to lose the row of a launch, or the worker it reserved.
LaunchBill(t) ==
    /\ launch[t] # NoSlot /\ t \notin pending => faults >= 1 \/ custody[t].pc = "pending"
    /\ \A s \in Slot : launch[t] = s /\ slots[s].busy = t /\ ~WorkerReady(s) => faults >= 1

\* One for the crash; one more for a stale worker, and one more if it is out of its teardown.
CrashBill(t) == Down(t) => faults >= 1

StaleBill(t) == \A s \in Slot : Stale(t, s) =>
    /\ faults >= 1
    /\ slots[s].mode # "reaping" \/ Down(t) => faults >= 2
    /\ slots[s].mode # "reaping" /\ Down(t) => faults >= 3

\* Custody captured the worker that its task runs at, or a stale one.
CaptureBill(t) == custody[t].pc \in Held =>
    \/ faults >= 3
    \/ /\ t \notin pending
       /\ \/ running[t] \in {custody[t].slot, NoSlot}
          \/ faults >= 2 /\ ~Down(t)

Costs ==
    /\ \A s \in Slot : slots[s].mode = "booting" => slots[s].busy = NoTask
    /\ \A t \in Task : ~Terminal(t) => LaunchBill(t) /\ CrashBill(t) /\ StaleBill(t) /\ CaptureBill(t)

\* A worker dies at the price of a fault, or at the hands of the custody or of the reaper
\* that it is reserved for.
LEMMA WhoDies ==
    ASSUME CustodyInv, Prices, NEW s \in Slot, slots[s].alive, ~slots'[s].alive
    PROVE  \/ Paid
           \/ /\ slots[s].mode = "reaping"
              /\ \/ slots[s].busy = NoTask
                 \/ \E u \in Task : /\ slots[s].busy = u /\ custody[u].pc = "kill" /\ custody[u].slot = s
                                    /\ custody'[u].pc = "judge" /\ custody'[u].slot = s
<1>1. Paid \/ Executes(s)
  BY DEF Prices, SlotPrice
<1>2. ASSUME NEW u \in Task, custody[u].pc = "kill", custody[u].slot = s
      PROVE  slots[s].busy = u /\ slots[s].mode = "reaping"
  BY <1>2 DEF CustodyInv, Captures, CapturedWorker, Held
<1>3. ASSUME reaper.phase = "kill", On(reaper.job, s)
      PROVE  slots[s].busy = NoTask /\ slots[s].mode = "reaping"
  <2>1. reaper.job \in AllJobs /\ reaper.job.kind = "timeout"
    BY <1>3 DEF AllJobs, CustodyInv, TypesInv, TypeInv, JobsWellFormed, TimeoutPhase
  <2> QED BY <1>3, <2>1 DEF CustodyInv, JobsHold, JobHolds, On
<1> QED BY <1>1, <1>2, <1>3 DEF Executes

\* A task at work comes to be down at the price of a fault.
LEMMA NewlyDown ==
    ASSUME CustodyInv, CustodyFrame, Prices, TypesInv', NEW t \in Task, result'[t] = "none",
           Down(t)', ~Down(t)
    PROVE  Paid
<1>0. /\ TaskFrame(t) /\ AttemptPrice(t) /\ ~Terminal(t)
      /\ NoTask \notin Task /\ NoSlot \notin Slot
  BY NullTaskAssumption DEF CustodyFrame, Prices, TaskFrame
<1>1. PICK r \in Slot : r = running'[t]
  BY DEF Down, TypesInv, TypeInv, ExecTypeOK
<1>2. ~slots'[r].alive /\ ~(custody'[t].pc \in Held /\ custody'[t].slot = r)
  BY <1>1 DEF Down
<1>3. CASE Starts(t, r)
  BY <1>2, <1>3, WhoDies DEF Starts, WorkerReady
<1>4. CASE running[t] = r
  <2>1. slots[r].busy = t
    BY <1>0, <1>4 DEF CustodyInv, CustodyRows
  <2>2. CASE slots[r].alive
    BY <1>0, <1>2, <2>1, <2>2, WhoDies DEF Held
  <2>3. CASE ~slots[r].alive
    BY <1>0, <1>2, <1>4, <2>3 DEF Down, AttemptPrice
  <2> QED BY <2>2, <2>3
<1> QED BY <1>0, <1>1, <1>3, <1>4 DEF TaskFrame

LEMMA CrashBillStays ==
    ASSUME CustodyInv, CustodyFrame, Prices, Costs, TypesInv', NEW t \in Task, result'[t] = "none"
    PROVE  CrashBill(t)'
<1>1. faults \in Nat /\ ~Terminal(t)
  BY LimitAssumption DEF CustodyInv, TypesInv, TypeInv, ExecTypeOK, CustodyFrame, TaskFrame
<1>2. ASSUME Down(t)' PROVE faults' >= 1
  BY <1>1, <1>2, NewlyDown DEF Costs, CrashBill, Prices, Paid
<1> QED BY <1>2 DEF CrashBill

LEMMA LaunchBillStays ==
    ASSUME CustodyInv, CustodyFrame, Prices, Costs, TypesInv', NEW t \in Task, result'[t] = "none"
    PROVE  LaunchBill(t)'
<1>t. /\ faults \in Nat /\ ~Terminal(t) /\ LaunchBill(t) /\ (faults' = faults \/ faults' = faults + 1)
      /\ TaskFrame(t) /\ RowPrice(t) /\ AttemptPrice(t) /\ NoSlot \notin Slot /\ NoTask \notin Task
      /\ launch[t] \in Slot \cup {NoSlot}
  BY NullTaskAssumption, LimitAssumption
     DEF CustodyInv, TypesInv, TypeInv, ExecTypeOK, CustodyFrame, TaskFrame, Costs, Prices, Paid
<1>1. ASSUME launch'[t] # NoSlot, t \notin pending' PROVE faults' >= 1 \/ custody'[t].pc = "pending"
  <2>1. launch[t] # NoSlot
    BY <1>1, <1>t DEF RowPrice
  <2>2. CASE t \in pending
    BY <1>1, <1>t, <2>2 DEF RowPrice, Paid
  <2>3. CASE t \notin pending
    BY <1>1, <1>t, <2>1, <2>3 DEF LaunchBill, AttemptPrice, Paid
  <2> QED BY <2>2, <2>3
<1>2. ASSUME NEW s \in Slot, launch'[t] = s, slots'[s].busy = t, ~WorkerReady(s)' PROVE faults' >= 1
  <2>0. SlotFrame(s) /\ SlotPrice(s)
    BY DEF CustodyFrame, Prices
  <2>w. ~(slots'[s].mode = "open" /\ slots'[s].alive)
    BY <1>2 DEF WorkerReady
  <2>1. slots[s].busy = t
    BY <1>t, <1>2, <2>0, <2>w DEF SlotPrice
  <2>2. launch[t] = s
    BY <1>t, <1>2, <2>1 DEF RowPrice
  <2>3. CASE ~WorkerReady(s)
    BY <1>t, <2>1, <2>2, <2>3 DEF LaunchBill
  <2>4. CASE WorkerReady(s) /\ ~slots'[s].alive
    BY <1>t, <2>4, WhoDies DEF WorkerReady, Paid
  <2>5. CASE WorkerReady(s) /\ slots'[s].alive
    <3>1. slots'[s].mode = "reaping"
      BY <1>t, <1>2, <2>0, <2>5, <2>w DEF WorkerReady, SlotFrame
    <3>2. CapturedBy(s)
      BY <1>t, <1>2, <2>0, <2>5, <3>1 DEF SlotPrice, WorkerReady
    <3>3. custody[t].pc = "capture" /\ (t \notin pending \/ custody[t].settled)
      BY <2>1, <3>2 DEF CapturedBy
    <3>4. t \notin pending
      BY <1>t, <3>3 DEF CustodyInv, Places, Placed
    <3> QED BY <1>t, <2>2, <3>3, <3>4 DEF LaunchBill
  <2> QED BY <2>3, <2>4, <2>5
<1> QED BY <1>1, <1>2 DEF LaunchBill

\* The retry of a crash finds the slot in teardown, and not in custody.
LEMMA RetriedRow ==
    ASSUME CustodyInv, NEW t \in Task, reaper.phase \in DeadPhase, reaper.job.task = t,
           DeadJobCurrent(reaper.job)
    PROVE  /\ reaper.job \in AllJobs /\ reaper.job.slot \in Slot
           /\ running[t] = reaper.job.slot /\ On(reaper.job, reaper.job.slot)
           /\ slots[reaper.job.slot].busy = t /\ slots[reaper.job.slot].mode = "reaping"
           /\ ~slots[reaper.job.slot].alive
           /\ Down(t)
<1>1. /\ reaper.job \in AllJobs /\ reaper.job.slot \in Slot /\ reaper.job.row # 0
      /\ NoTask \notin Task /\ NoSlot \notin Slot
  BY NullTaskAssumption DEF CustodyInv, TypesInv, TypeInv, JobsWellFormed, Job, DeadPhase, AllJobs
<1>2. /\ running[t] = reaper.job.slot /\ On(reaper.job, reaper.job.slot)
      /\ slots[reaper.job.slot].busy = t /\ ~slots[reaper.job.slot].alive
  BY <1>1 DEF DeadJobCurrent, On
<1>3. slots[reaper.job.slot].mode = "reaping"
  BY <1>1, <1>2 DEF CustodyInv, BoundWorkers, OneJob, NoJobOn
<1>4. ~(custody[t].pc \in Held /\ custody[t].slot = reaper.job.slot)
  BY <1>1, <1>2 DEF CustodyInv, Captures, CapturedWorker, NoJobOn
<1> QED BY <1>1, <1>2, <1>3, <1>4 DEF Down

LEMMA StaleBillStays ==
    ASSUME CustodyInv, CustodyFrame, Prices, Costs, TypesInv', NEW t \in Task, result'[t] = "none"
    PROVE  StaleBill(t)'
<1>t. /\ faults \in Nat /\ ~Terminal(t) /\ (faults' = faults \/ faults' = faults + 1)
      /\ LaunchBill(t) /\ StaleBill(t) /\ CrashBill(t)
      /\ TaskFrame(t) /\ RowPrice(t) /\ NoSlot \notin Slot /\ NoTask \notin Task
  BY NullTaskAssumption, LimitAssumption
     DEF CustodyInv, TypesInv, TypeInv, ExecTypeOK, CustodyFrame, TaskFrame, Costs, Prices, Paid
<1> SUFFICES ASSUME NEW s \in Slot, slots'[s].busy = t, launch'[t] # s, running'[t] # s
             PROVE  /\ faults' >= 1
                    /\ slots'[s].mode # "reaping" \/ Down(t)' => faults' >= 2
                    /\ slots'[s].mode # "reaping" /\ Down(t)' => faults' >= 3
  BY DEF StaleBill, Stale
<1>s. SlotFrame(s) /\ SlotPrice(s) /\ slots[s].mode \in Mode /\ slots'[s].mode \in Mode
  BY DEF CustodyFrame, Prices, CustodyInv, TypesInv, TypeInv, ExecTypeOK, Worker
<1>1. slots[s].busy = t
  BY <1>t, <1>s DEF SlotPrice
<1>2. CASE Stale(t, s)
  <2>1. ~Down(t) /\ Down(t)' => Paid
    BY NewlyDown
  <2>2. ASSUME slots[s].mode = "reaping", slots'[s].mode # "reaping"
        PROVE  Paid /\ (Down(t)' => Down(t))
    <3>1. slots'[s].mode = "open"
      BY <1>t, <1>s, <1>1, <2>2 DEF SlotPrice, Mode
    <3>2. GivesBack(s) /\ \A r \in Slot \ {s} : slots'[r] = slots[r]
      BY <1>s, <2>2, <3>1 DEF SlotPrice
    <3>3. ASSUME Down(t)' PROVE Down(t)
      <4>1. running[t] = running'[t] /\ running[t] # s /\ running[t] \in Slot
        BY <1>t, <3>2, <3>3 DEF GivesBack, Down, CustodyInv, TypesInv, TypeInv, ExecTypeOK
      <4>2. slots'[running[t]] = slots[running[t]]
        BY <3>2, <4>1
      <4>3. custody[t].pc \in Held /\ custody[t].slot = running[t] => custody'[t] = custody[t]
        BY <3>2, <4>1 DEF GivesBack
      <4> QED BY <3>3, <4>1, <4>2, <4>3 DEF Down
    <3> QED BY <3>2, <3>3 DEF GivesBack
  <2>3. /\ faults >= 1
        /\ slots[s].mode # "reaping" \/ Down(t) => faults >= 2
        /\ slots[s].mode # "reaping" /\ Down(t) => faults >= 3
    BY <1>t, <1>2 DEF StaleBill
  <2> QED BY <1>t, <2>1, <2>2, <2>3 DEF Paid
<1>3. CASE launch[t] = s
  <2>1. running[t] = NoSlot /\ slots[s].mode # "booting"
    BY <1>t, <1>1, <1>3 DEF CustodyInv, CustodyRows, Costs
  <2>2. /\ running'[t] = running[t]
        /\ slots'[s].mode = slots[s].mode /\ slots[s].mode # "open"
    BY <1>t, <1>3 DEF RowPrice
  <2>3. slots'[s].mode = "reaping" /\ ~Down(t)'
    BY <1>s, <2>1, <2>2 DEF Mode, Down
  <2>4. faults >= 1
    BY <1>t, <1>1, <1>3, <2>2 DEF LaunchBill, WorkerReady
  <2> QED BY <1>t, <2>3, <2>4
<1>4. CASE running[t] = s
  <2>1. running'[t] = NoSlot
    BY <1>t, <1>4 DEF TaskFrame, Starts, CustodyInv, CustodyRows
  <2>2. reaper.phase = "retry" /\ reaper.job.task = t /\ DeadJobCurrent(reaper.job) /\ slots' = slots
    BY <1>t, <1>4, <2>1 DEF RowPrice
  <2>3. slots[s].mode = "reaping" /\ Down(t)
    BY <1>4, <2>2, RetriedRow DEF DeadPhase
  <2>4. slots'[s].mode = "reaping" /\ ~Down(t)' /\ faults >= 1
    BY <1>t, <2>1, <2>2, <2>3 DEF Down, CrashBill
  <2> QED BY <1>t, <2>4
<1> QED BY <1>1, <1>2, <1>3, <1>4 DEF Stale

LEMMA CaptureBillStays ==
    ASSUME CustodyInv, CustodyFrame, Prices, Costs, TypesInv', NEW t \in Task, result'[t] = "none"
    PROVE  CaptureBill(t)'
<1>t. /\ faults \in Nat /\ ~Terminal(t) /\ (faults' = faults \/ faults' = faults + 1)
      /\ CaptureBill(t) /\ StaleBill(t) /\ TaskFrame(t) /\ AttemptPrice(t)
      /\ NoSlot \notin Slot /\ NoTask \notin Task
      /\ running[t] \in Slot \cup {NoSlot}
  BY NullTaskAssumption, LimitAssumption
     DEF CustodyInv, TypesInv, TypeInv, ExecTypeOK, CustodyFrame, TaskFrame, Costs, Prices, Paid
<1>n. Down(t)' => Down(t) \/ Paid
  BY NewlyDown
<1> SUFFICES ASSUME custody'[t].pc \in Held
             PROVE  \/ faults' >= 3
                    \/ /\ t \notin pending'
                       /\ \/ running'[t] \in {custody'[t].slot, NoSlot}
                          \/ faults' >= 2 /\ ~Down(t)'
  BY DEF CaptureBill
<1>1. CASE custody[t].pc \in Held
  <2>0. CASE faults >= 3
    BY <1>t, <2>0
  <2>1. CASE Paid /\ faults >= 2
    BY <1>t, <2>1 DEF Paid
  <2>2. ASSUME t \notin pending, running[t] \in {custody[t].slot, NoSlot} \/ (faults >= 2 /\ ~Down(t)),
               ~(Paid /\ faults >= 2)
        PROVE  /\ t \notin pending'
               /\ \/ running'[t] \in {custody'[t].slot, NoSlot}
                  \/ faults' >= 2 /\ ~Down(t)'
    <3>1. ~(reaper.phase = "retry" /\ reaper.job.task = t /\ DeadJobCurrent(reaper.job))
      <4> SUFFICES ASSUME reaper.phase = "retry", reaper.job.task = t, DeadJobCurrent(reaper.job)
                   PROVE  FALSE
        OBVIOUS
      <4>1. Down(t) /\ running[t] = reaper.job.slot /\ reaper.job.slot \in Slot
        BY RetriedRow DEF DeadPhase
      <4>2. running[t] # custody[t].slot
        BY <1>1, <4>1 DEF Down
      <4> QED BY <1>t, <2>2, <4>1, <4>2
    <3>2. t \notin pending'
      BY <1>t, <1>1, <2>2, <3>1 DEF TaskFrame, Held
    <3>3. running'[t] = running[t] \/ running'[t] = NoSlot
      BY <1>t, <2>2 DEF TaskFrame, Starts
    <3>4. custody'[t].slot = custody[t].slot
      BY <1>t, <1>1 DEF AttemptPrice
    <3>5. CASE running[t] \in {custody[t].slot, NoSlot}
      BY <3>2, <3>3, <3>4, <3>5
    <3>6. CASE faults >= 2 /\ ~Down(t)
      BY <1>t, <1>n, <2>2, <3>2, <3>3, <3>6
    <3> QED BY <2>2, <3>5, <3>6
  <2> QED BY <1>t, <1>1, <2>0, <2>1, <2>2 DEF CaptureBill
<1>2. CASE custody[t].pc \notin Held
  <2>1. /\ custody[t].pc = "capture" /\ custody'[t].slot \in Slot /\ t \notin pending'
        /\ slots[custody'[t].slot].busy = t /\ slots[custody'[t].slot].mode = "open"
        /\ running'[t] = running[t] /\ \A r \in Slot : slots'[r].alive = slots[r].alive
    BY <1>t, <1>2 DEF AttemptPrice
  <2>2. CASE running[t] \in {custody'[t].slot, NoSlot}
    BY <2>1, <2>2
  <2>3. CASE running[t] \notin {custody'[t].slot, NoSlot}
    <3>1. launch[t] # custody'[t].slot
      BY <1>t, <2>1, <2>3 DEF CustodyInv, CustodyRows
    <3>2. Stale(t, custody'[t].slot)
      BY <2>1, <2>3, <3>1 DEF Stale
    <3>3. faults >= 2 /\ (Down(t) => faults >= 3)
      BY <1>t, <2>1, <3>2 DEF StaleBill
    <3>4. Down(t)' => Down(t)
      BY <1>t, <1>2, <2>1, <2>3 DEF Down
    <3> QED BY <1>t, <2>1, <3>3, <3>4
  <2> QED BY <2>2, <2>3
<1> QED BY <1>1, <1>2

\* The bills are paid in every reachable state.
LEMMA StepCosts ==
    ASSUME CustodyInv, CustodyFrame, Prices, Costs, TypesInv'
    PROVE  Costs'
<1>1. ASSUME NEW s \in Slot, slots'[s].mode = "booting" PROVE slots'[s].busy = NoTask
  <2>1. SlotPrice(s) /\ SlotFrame(s)
    BY DEF Prices, CustodyFrame
  <2> QED BY <1>1, <2>1 DEF SlotPrice, Costs
<1>2. ASSUME NEW t \in Task, result'[t] = "none"
      PROVE  LaunchBill(t)' /\ CrashBill(t)' /\ StaleBill(t)' /\ CaptureBill(t)'
  BY <1>2, LaunchBillStays, CrashBillStays, StaleBillStays, CaptureBillStays
<1> QED BY <1>1, <1>2 DEF Costs, Terminal

-----------------------------------------------------------------------------
\* Who ends a task: its worker, the reaper, its attempt, or the assignment pass that drops
\* it from the queue.
Ending(t) ==
    /\ UNCHANGED <<slots, running>>
    /\ pending' \subseteq pending
    /\ \/ result'[t] = "completed" /\ \E s \in Slot : slots[s].work = t
       \/ result'[t] = "failed" /\ reaper.phase \in {"fail", "finish"} /\ reaper.job.task = t
       \/ /\ result'[t] = "cancelled"
          /\ \/ custody[t].pc \in {"write", "miss"}
             \/ custody[t].pc = "pending" /\ custody'[t].pc # "pending"
             \/ t \in pending \ pending' /\ custody' = custody

LEMMA WhoEnds ==
    ASSUME CustodyInv, [CustodyNext]_sysVars, NEW t \in Task, ~Terminal(t), result'[t] # "none"
    PROVE  Ending(t)
<1>t. /\ result \in [Task -> Outcome] /\ slots \in [Slot -> Worker] /\ TypesInv /\ result' # result
  BY DEF CustodyInv, TypesInv, TypeInv, ExecTypeOK, Terminal
<1>w. ASSUME NEW u \in Task, NEW outcome \in Outcome, result' = Written(u, outcome)
      PROVE  u = t /\ result'[t] = outcome
  BY <1>t, <1>w DEF Written, Terminal
<1>1. CASE SupervisorStep
  <2>1. ASSUME NEW s \in Slot, Complete(s) PROVE Ending(t)
    <3>1. slots[s].work \in Task
      BY <1>t, <2>1 DEF Complete, Worker
    <3>2. slots[s].work = t /\ result'[t] = "completed"
      BY <1>w, <2>1, <3>1 DEF Complete, Outcome
    <3> QED BY <2>1, <3>2 DEF Complete, Ending
  <2> QED BY <1>1, <1>t, <2>1 DEF SupervisorStep, ClaimLaunch, BindLaunch, ReleaseLaunch, ReportDone, WorkerDies,
                                  LeaveBoot, HandleTaskDone, ReserveDeadSlot, Timeout
<1>2. CASE ReapStep
  <2>1. reaper.phase \in {"fail", "finish"} => reaper.job.task \in Task
    BY <1>t DEF TypesInv, TypeInv, JobsWellFormed, DeadPhase, TimeoutPhase, NamesTask
  <2>2. CASE FailCrashed
    <3>1. reaper.job.task = t /\ result'[t] = "failed"
      BY <1>w, <2>1, <2>2 DEF FailCrashed, Outcome
    <3> QED BY <2>2, <3>1 DEF FailCrashed, Ending
  <2>3. CASE FinishTimedOut
    <3>1. result' = Written(reaper.job.task, "failed") /\ reaper.phase = "finish"
      BY <1>t, <2>3 DEF FinishTimedOut
    <3>2. reaper.job.task = t /\ result'[t] = "failed"
      BY <1>w, <2>1, <3>1 DEF Outcome
    <3> QED BY <2>3, <3>1, <3>2 DEF FinishTimedOut, Ending
  <2> QED BY <1>2, <1>t, <2>2, <2>3 DEF ReapStep, ReaperStep, TakeJob, InspectDeadJob, DecideCrash, WithdrawCrashed,
                                        RetryCrashed, RespawnSlot, KillTimedOut
<1>3. ASSUME NEW u \in Task, CustodyStep(u) PROVE Ending(t)
  <2>0. Onward(u)
    BY <1>t, <1>3, AttemptGoesOn
  <2>1. CASE WriteCancelled(u)
    <3>1. custody[u].pc = "write" /\ result' = Written(u, "cancelled") /\ slots' = slots
      BY <1>t, <2>1, Zenon DEF WriteCancelled, At
    <3>2. running' = running /\ pending' = pending
      BY <2>1, Zenon DEF WriteCancelled
    <3> QED BY <1>w, <3>1, <3>2 DEF Ending, Outcome
  <2>2. CASE FinalizeOnMiss(u)
    <3>1. /\ custody[u].pc = "miss" /\ result' = Written(u, "cancelled")
          /\ slots' = slots /\ running' = running /\ pending' = pending
      BY <1>t, <2>2, Zenon DEF FinalizeOnMiss, At
    <3> QED BY <1>w, <3>1 DEF Ending, Outcome
  <2>3. CASE WritePending(u)
    <3>1. /\ custody[u].pc = "pending" /\ result' = Written(u, "cancelled")
          /\ slots' = slots /\ running' = running /\ pending' = pending
      BY <1>t, <2>3 DEF WritePending, At
    <3>2. u = t
      BY <1>w, <3>1 DEF Outcome
    <3>3. Proceed(t, "dropped")
      BY <1>t, <2>3, <3>2 DEF WritePending
    <3>4. custody'[t].pc = "dropped"
      BY <1>t, <3>3, AttemptMoves DEF Proceed, Step, Held, Leaving, TypesInv, CustodyTypeOK, NameSlots
    <3> QED BY <1>w, <3>1, <3>2, <3>4 DEF Ending, Outcome
  <2>4. CASE Capture(u) \/ JudgeStopped(u)
    BY <1>t, <2>4, Zenon DEF Capture, JudgeStopped
  <2>5. CASE BeginCustody(u) \/ ClaimStop(u) \/ KillStopped(u) \/ SettleStop(u) \/ PublishStopped(u)
             \/ RespawnStopped(u) \/ PublishPending(u) \/ PublishMiss(u)
    BY <1>t, <2>5 DEF BeginCustody, ClaimStop, KillStopped, SettleStop, PublishStopped, RespawnStopped,
                      PublishPending, PublishMiss, execVars
  <2> QED BY <1>3, <2>1, <2>2, <2>3, <2>4, <2>5 DEF CustodyStep
<1>4. ASSUME NEW u \in Task, DropCancelledPending(u) PROVE Ending(t)
  <2>1. result' = Written(u, "cancelled")
    BY <1>4, <1>t DEF DropCancelledPending
  <2>2. u = t /\ result'[t] = "cancelled"
    BY <1>w, <2>1 DEF Outcome
  <2> QED BY <1>4, <2>2 DEF DropCancelledPending, Ending
<1>5. CASE (\E u \in Task : RequestStop(u)) \/ RetainJob \/ (\E job \in deferred : ReplayJob(job))
           \/ UNCHANGED sysVars
  BY <1>5, <1>t DEF RequestStop, RetainJob, ReplayJob, sysVars, execVars
<1> QED BY <1>1, <1>2, <1>3, <1>4, <1>5 DEF CustodyNext

-----------------------------------------------------------------------------
\* Nobody has the task, and nobody queues it.
Forsaken(t) ==
    /\ t \notin pending
    /\ custody[t].pc # "pending"
    /\ \A s \in Slot : slots[s].work # t

\* Only the process that timed out can still be at its task.
LateIsAlone ==
    \A job \in AllJobs : job.kind = "timeout" =>
        \A r \in Slot : slots[r].work = job.task => r = job.slot /\ slots[r].life = job.life

\* The task that the reaper is about to fail is forsaken, and so is one that it failed; it
\* is not decided upon again.
Verdicts ==
    /\ LateIsAlone
    /\ reaper.phase \in {"fail", "finish"} => Forsaken(reaper.job.task)
    /\ \A t \in Task : result[t] = "failed" => Forsaken(t)
    /\ reaper.phase \in {"policy", "retry"} /\ DeadJobCurrent(reaper.job) =>
          result[reaper.job.task] # "failed"

LEMMA ForsakenStays ==
    ASSUME CustodyFrame, NEW t \in Task, Forsaken(t),
           ~(reaper.phase = "retry" /\ reaper.job.task = t /\ DeadJobCurrent(reaper.job))
    PROVE  Forsaken(t)'
<1>1. TaskFrame(t) /\ NoTask \notin Task
  BY NullTaskAssumption DEF CustodyFrame
<1>2. t \notin pending' /\ custody'[t].pc # "pending"
  BY <1>1 DEF TaskFrame, Forsaken
<1>3. ASSUME NEW s \in Slot PROVE slots'[s].work # t
  <2>1. SlotFrame(s)
    BY DEF CustodyFrame
  <2> QED BY <1>1, <2>1 DEF SlotFrame, Starts, Forsaken
<1> QED BY <1>2, <1>3 DEF Forsaken

LEMMA LateStaysAlone ==
    ASSUME CustodyInv, [CustodyNext]_sysVars, CustodyFrame, LateIsAlone
    PROVE  LateIsAlone'
<1> SUFFICES ASSUME NEW job \in AllJobs', job.kind = "timeout", NEW r \in Slot, slots'[r].work = job.task
             PROVE  r = job.slot /\ slots'[r].life = job.life
  BY DEF LateIsAlone
<1>t. /\ NoTask \notin Task /\ NoSlot \notin Slot /\ TypesInv /\ slots \in [Slot -> Worker] /\ SlotFrame(r)
  BY NullTaskAssumption DEF CustodyInv, TypesInv, TypeInv, ExecTypeOK, CustodyFrame
<1>1. CASE job \in AllJobs
  <2>1. job.task \in Task /\ job.task \notin pending
    BY <1>1, <1>t, AllJobsTyped DEF NamesTask, CustodyInv, JobsHold, JobHolds
  <2>2. slots[r].work = job.task /\ slots'[r].life = slots[r].life
    BY <1>t, <2>1 DEF SlotFrame, Starts
  <2> QED BY <1>1, <2>2 DEF LateIsAlone
<1>2. ASSUME NEW s \in Slot, job = DeadJobOf(s) PROVE FALSE
  BY <1>2 DEF DeadJobOf
<1>3. ASSUME NEW t \in Task, Timeout(t), running[t] \in Slot, job = LateJobOf(t)
      PROVE  r = job.slot /\ slots'[r].life = job.life
  <2>1. job.slot = running[t] /\ job.life = slots[running[t]].life /\ job.task = t
    BY <1>3 DEF LateJobOf
  <2>2. slots'[r].work = slots[r].work /\ slots'[r].life = slots[r].life
    BY <1>3, <1>t DEF Timeout, Worker
  <2>3. running[t] \in {r, NoSlot}
    BY <1>t, <2>1, <2>2 DEF CustodyInv, CustodyRows
  <2> QED BY <1>3, <1>t, <2>1, <2>2, <2>3
<1> QED BY <1>1, <1>2, <1>3, <1>t, JobsCome

LEMMA ReaperComesToFail ==
    ASSUME TypesInv, [CustodyNext]_sysVars, reaper'.phase = "fail"
    PROVE  /\ reaper'.job = reaper.job
           /\ \/ reaper.phase = "fail"
              \/ /\ reaper.phase = "policy" /\ DeadJobCurrent(reaper.job)
                 /\ pending' = pending /\ custody' = custody
<1>t. reaper \in [phase : Phase, job : Job \cup {NoJob}]
  BY DEF TypesInv, TypeInv, ExecTypeOK
<1>1. CASE ~ReapStep
  BY <1>1, ReaperWaits
<1>2. CASE ReapStep /\ DecideCrash
  BY <1>2, <1>t DEF ReapStep, DecideCrash, Goto
<1>3. CASE TakeJob
  <2>1. FALSE
    BY <1>t, <1>3 DEF TakeJob, RecoverReplacedFiles, StopReaping
  <2> QED BY <2>1
<1>4. CASE InspectDeadJob \/ FailCrashed \/ WithdrawCrashed \/ RetryCrashed \/ RespawnSlot
           \/ KillTimedOut \/ FinishTimedOut
  <2>1. reaper'.phase # "fail"
    BY <1>t, <1>4 DEF InspectDeadJob, FailCrashed, WithdrawCrashed, RetryCrashed, RespawnSlot, KillTimedOut,
                      FinishTimedOut, RecoverReplacedFiles, StopReaping, Goto
  <2> QED BY <2>1
<1> QED BY <1>1, <1>2, <1>3, <1>4 DEF ReapStep, ReaperStep

LEMMA ReaperComesToFinish ==
    ASSUME TypesInv, [CustodyNext]_sysVars, reaper'.phase = "finish"
    PROVE  /\ reaper'.job = reaper.job
           /\ \/ reaper.phase = "finish"
              \/ reaper.phase = "kill" /\ KillTimedOut
<1>t. reaper \in [phase : Phase, job : Job \cup {NoJob}]
  BY DEF TypesInv, TypeInv, ExecTypeOK
<1>1. CASE ~ReapStep
  BY <1>1, ReaperWaits
<1>2. CASE KillTimedOut
  <2>1. ~StopReaping
    BY DEF StopReaping
  <2> QED BY <1>2, <1>t, <2>1 DEF KillTimedOut, Goto
<1>3. CASE TakeJob
  <2>1. FALSE
    BY <1>t, <1>3 DEF TakeJob, RecoverReplacedFiles, StopReaping
  <2> QED BY <2>1
<1>4. CASE InspectDeadJob \/ DecideCrash \/ FailCrashed \/ WithdrawCrashed \/ RetryCrashed \/ RespawnSlot
           \/ FinishTimedOut
  <2>1. reaper'.phase # "finish"
    BY <1>t, <1>4 DEF InspectDeadJob, DecideCrash, FailCrashed, WithdrawCrashed, RetryCrashed, RespawnSlot,
                      FinishTimedOut, RecoverReplacedFiles, StopReaping, Goto
  <2> QED BY <2>1
<1> QED BY <1>1, <1>2, <1>3, <1>4 DEF ReapStep, ReaperStep

\* The reaper comes to a verdict only on a forsaken task: its dead process was the task's
\* last, or it has just killed the one that timed out.
LEMMA VerdictIsDue ==
    ASSUME CustodyInv, [CustodyNext]_sysVars, CustodyFrame, Verdicts, reaper'.phase \in {"fail", "finish"}
    PROVE  reaper'.job = reaper.job /\ Forsaken(reaper.job.task)'
<1>t. /\ TypesInv /\ NoTask \notin Task /\ NoSlot \notin Slot /\ slots \in [Slot -> Worker]
  BY NullTaskAssumption DEF CustodyInv, TypesInv, TypeInv, ExecTypeOK
<1>j. /\ reaper'.job = reaper.job
      /\ reaper.phase \in {"policy", "fail", "kill", "finish"}
  BY <1>t, ReaperComesToFail, ReaperComesToFinish
<1>0. PICK t \in Task : t = reaper.job.task
  BY <1>t, <1>j DEF TypesInv, TypeInv, JobsWellFormed, DeadPhase, TimeoutPhase, NamesTask
<1>1. CASE reaper.phase \in {"fail", "finish"}
  <2>1. Forsaken(t)'
    BY <1>0, <1>1, ForsakenStays DEF Verdicts
  <2> QED BY <1>j, <1>0, <2>1
<1>2. CASE reaper.phase = "policy" /\ DeadJobCurrent(reaper.job)
  <2>1. /\ running[t] = reaper.job.slot /\ reaper.job.slot \in Slot /\ ~slots[reaper.job.slot].alive
    BY <1>0, <1>2, RetriedRow DEF DeadPhase
  <2>2. Forsaken(t)
    BY <1>t, <2>1 DEF Forsaken, CustodyInv, CustodyRows, Places, Placed
  <2>3. Forsaken(t)'
    BY <1>2, <2>2, ForsakenStays
  <2> QED BY <1>j, <1>0, <2>3
<1>3. CASE reaper.phase = "kill" /\ KillTimedOut
  <2>0. reaper.job \in AllJobs /\ reaper.job.kind = "timeout"
    BY <1>3 DEF AllJobs, CustodyInv, TypesInv, TypeInv, JobsWellFormed, TimeoutPhase
  <2>1. t \notin pending /\ custody[t].pc # "pending"
    BY <1>0, <2>0 DEF CustodyInv, JobsHold, JobHolds
  <2>2. t \notin pending' /\ custody'[t].pc # "pending"
    BY <1>3, <2>1 DEF CustodyFrame, TaskFrame
  <2>3. ASSUME NEW r \in Slot, slots'[r].work = t PROVE FALSE
    <3>1. slots[r].work = t
      BY <1>t, <2>1, <2>3 DEF CustodyFrame, SlotFrame, Starts
    <3>2. r = reaper.job.slot /\ slots[r].life = reaper.job.life
      BY <1>0, <2>0, <3>1 DEF Verdicts, LateIsAlone
    <3>3. slots' = [slots EXCEPT ![r].alive = FALSE, ![r].work = NoTask] \/ reaper'.phase = "idle"
      BY <1>3, <3>2 DEF KillTimedOut, StopReaping
    <3> QED BY <1>t, <2>3, <3>3 DEF Worker
  <2> QED BY <1>j, <1>0, <2>2, <2>3 DEF Forsaken
<1> QED BY <1>t, <1>1, <1>2, <1>3, ReaperComesToFail, ReaperComesToFinish

\* A crash that is current was it before the step.
LEMMA DeadJobStood ==
    ASSUME CustodyInv, CustodyFrame, TypesInv', reaper.phase \in DeadPhase, reaper'.job = reaper.job,
           DeadJobCurrent(reaper.job)'
    PROVE  DeadJobCurrent(reaper.job)
<1>0. PICK job : job = reaper.job
  OBVIOUS
<1>1. /\ job \in AllJobs /\ job \in Job /\ job.kind = "dead" /\ job.row # 0 /\ job.task \in Task
      /\ slots \in [Slot -> Worker] /\ NoTask \notin Task /\ NoSlot \notin Slot
  BY <1>0, NullTaskAssumption
     DEF CustodyInv, TypesInv, TypeInv, ExecTypeOK, JobsWellFormed, NamesTask, DeadPhase, AllJobs
<1>2. JobHolds(job) /\ SlotFrame(job.slot) /\ TaskFrame(job.task)
  BY <1>1 DEF CustodyInv, JobsHold, CustodyFrame, Job
<1>3. /\ slots'[job.slot].life = job.life /\ slots'[job.slot].busy = job.task
      /\ running'[job.task] = job.slot /\ attempt'[job.task] = job.row
  BY <1>0, <1>1 DEF DeadJobCurrent
<1>4. slots[job.slot].life \in Nat /\ job.life \in Nat /\ job.slot \in Slot
  BY <1>1 DEF Job, Worker
<1>5. slots[job.slot].life = job.life /\ ~slots[job.slot].alive
  BY <1>1, <1>2, <1>3, <1>4 DEF SlotFrame, JobHolds
<1>6. slots[job.slot].busy = job.task
  BY <1>1, <1>2, <1>3, <1>4, <1>5 DEF SlotFrame, WorkerReady
<1>7. running[job.task] = job.slot /\ attempt[job.task] = job.row
  BY <1>1, <1>2, <1>3, <1>4, <1>5 DEF TaskFrame, Starts, WorkerReady
<1> QED BY <1>0, <1>1, <1>5, <1>6, <1>7 DEF DeadJobCurrent

LEMMA StepCustodyVerdicts ==
    ASSUME CustodyInv, [CustodyNext]_sysVars, CustodyFrame, Verdicts, TypesInv'
    PROVE  Verdicts'
<1>0. LateIsAlone
  BY DEF Verdicts
<1>1. LateIsAlone'
  BY <1>0, LateStaysAlone
<1>2. ASSUME reaper'.phase \in {"fail", "finish"} PROVE Forsaken(reaper.job.task)'
  BY <1>2, VerdictIsDue
<1>w. ASSUME NEW t \in Task, result[t] # "failed", result'[t] = "failed"
      PROVE  reaper.phase \in {"fail", "finish"} /\ reaper.job.task = t
  <2>1. ~Terminal(t)
    BY <1>w, StepTerminals DEF TerminalsAndStops
  <2> QED BY <1>w, <2>1, WhoEnds DEF Ending
<1>3. ASSUME NEW t \in Task, result'[t] = "failed" PROVE Forsaken(t)'
  <2>1. CASE result[t] = "failed"
    BY <2>1, ForsakenStays DEF Verdicts
  <2>2. CASE result[t] # "failed"
    BY <1>3, <1>w, <2>2, ForsakenStays DEF Verdicts
  <2> QED BY <2>1, <2>2
<1>4. ASSUME reaper'.phase \in {"policy", "retry"}, DeadJobCurrent(reaper.job)'
      PROVE  result'[reaper'.job.task] # "failed"
  <2>1. /\ reaper'.job = reaper.job
        /\ reaper.phase \in {"policy", "retry"} \/ (reaper.phase = "inspect" /\ ~Terminal(reaper.job.task))
    BY <1>4 DEF CustodyFrame, ReaperFrame
  <2>2. reaper.phase \in DeadPhase /\ DeadJobCurrent(reaper.job)
    BY <1>4, <2>1, DeadJobStood DEF DeadPhase
  <2>3. reaper.job.task \in Task /\ result[reaper.job.task] # "failed"
    BY <2>1, <2>2 DEF Verdicts, Terminal, CustodyInv, TypesInv, TypeInv, JobsWellFormed, NamesTask
  <2> QED BY <1>w, <2>1, <2>3
<1> QED BY <1>1, <1>2, <1>3, <1>4 DEF Verdicts

LEMMA VerdictsInit == CustodyInit => Verdicts
<1> SUFFICES ASSUME CustodyInit PROVE Verdicts
  OBVIOUS
<1>1. AllJobs = {} /\ reaper.phase = "idle"
  BY DEF CustodyInit, Init, AllJobs
<1>2. \A t \in Task : result[t] # "failed"
  BY DEF CustodyInit, Init
<1> QED BY <1>1, <1>2 DEF Verdicts, LateIsAlone

LEMMA VerdictsStep == CustodyInv /\ CustodyInv' /\ Verdicts /\ [CustodyNext]_sysVars => Verdicts'
<1> SUFFICES ASSUME CustodyInv, CustodyInv', Verdicts, [CustodyNext]_sysVars PROVE Verdicts'
  OBVIOUS
<1>1. TypesInv /\ TypesInv'
  BY DEF CustodyInv
<1>2. CustodyFrame
  BY <1>1, StepFrame
<1> QED BY <1>1, <1>2, StepCustodyVerdicts

LEMMA VerdictsAlways == CustodySpec => []Verdicts
BY VerdictsInit, VerdictsStep, CustodyInvariant, PTL DEF CustodySpec

\* With custody at work, too, the host fails a task only when no process is at it, for any
\* number of faults, hard bounds and Stops: unlike "cancelled", "failed" waits for the death.
THEOREM CustodyVerdictAfterDeath == CustodySpec => []VerdictAfterDeath
<1>1. Verdicts => VerdictAfterDeath
  BY DEF Verdicts, Forsaken, VerdictAfterDeath
<1> QED BY <1>1, VerdictsAlways, PTL

-----------------------------------------------------------------------------
\* With less than three faults no task that has ended is queued, is about to be, or is
\* decided upon as a crash.
EndedIsAway(t) == Terminal(t) => t \notin pending /\ custody[t].pc # "pending"

CrashIsOpen ==
    reaper.phase \in {"policy", "retry"} /\ DeadJobCurrent(reaper.job) => ~Terminal(reaper.job.task)

Ended == faults < 3 => CrashIsOpen /\ \A t \in Task : EndedIsAway(t)

LEMMA EndedStaysAway ==
    ASSUME CustodyInv, [CustodyNext]_sysVars, CustodyFrame, Verdicts, Costs, Ended, faults < 3,
           NEW t \in Task, result'[t] # "none"
    PROVE  t \notin pending' /\ custody'[t].pc # "pending"
<1>t. TaskFrame(t) /\ Placed(t) /\ NoTask \notin Task /\ faults \in Nat
  BY NullTaskAssumption, LimitAssumption
     DEF CustodyFrame, CustodyInv, Places, TypesInv, TypeInv, ExecTypeOK
<1>1. CASE Terminal(t)
  <2>1. t \notin pending /\ custody[t].pc # "pending"
    BY <1>1 DEF Ended, EndedIsAway
  <2>2. ~(reaper.phase = "retry" /\ reaper.job.task = t /\ DeadJobCurrent(reaper.job))
    BY <1>1 DEF Ended, CrashIsOpen
  <2> QED BY <1>t, <2>1, <2>2 DEF TaskFrame
<1>2. CASE ~Terminal(t)
  <2>0. Ending(t) /\ pending' \subseteq pending
    BY <1>2, WhoEnds DEF Ending
  <2>s. t \notin pending /\ custody[t].pc # "pending" => t \notin pending' /\ custody'[t].pc # "pending"
    BY <1>t, <2>0 DEF TaskFrame
  <2>1. CASE \E s \in Slot : slots[s].work = t
    <3>1. t \notin pending
      BY <1>t, <2>1 DEF CustodyInv, CustodyRows
    <3> QED BY <1>t, <2>1, <2>s, <3>1 DEF Placed
  <2>2. CASE reaper.phase \in {"fail", "finish"} /\ reaper.job.task = t
    BY <2>2, <2>s DEF Verdicts, Forsaken
  <2>3. CASE custody[t].pc = "write"
    <3>1. t \notin pending
      BY <1>t, <1>2, <2>3 DEF Costs, CaptureBill, Held
    <3> QED BY <2>3, <2>s, <3>1
  <2>4. CASE custody[t].pc = "miss"
    BY <1>t, <1>2, <2>4, <2>s DEF Placed
  <2>5. CASE custody[t].pc = "pending" /\ custody'[t].pc # "pending"
    BY <1>t, <2>0, <2>5 DEF Placed
  <2>6. CASE t \in pending \ pending' /\ custody' = custody
    BY <1>t, <2>6 DEF Placed
  <2> QED BY <2>0, <2>1, <2>2, <2>3, <2>4, <2>5, <2>6 DEF Ending
<1> QED BY <1>1, <1>2

LEMMA CrashStaysOpen ==
    ASSUME CustodyInv, [CustodyNext]_sysVars, CustodyFrame, Costs, Ended, faults < 3, TypesInv',
           reaper'.phase \in {"policy", "retry"}, DeadJobCurrent(reaper.job)'
    PROVE  result'[reaper'.job.task] = "none"
<1>1. /\ reaper'.job = reaper.job
      /\ reaper.phase \in {"policy", "retry"} \/ (reaper.phase = "inspect" /\ ~Terminal(reaper.job.task))
  BY DEF CustodyFrame, ReaperFrame
<1>2. reaper.phase \in DeadPhase /\ DeadJobCurrent(reaper.job)
  BY <1>1, DeadJobStood DEF DeadPhase
<1>3. ~Terminal(reaper.job.task)
  BY <1>1, <1>2 DEF Ended, CrashIsOpen
<1>4. PICK t \in Task : t = reaper.job.task
  BY <1>2 DEF CustodyInv, TypesInv, TypeInv, JobsWellFormed, NamesTask, DeadPhase
<1> SUFFICES ASSUME result'[t] # "none" PROVE FALSE
  BY <1>1, <1>4
<1>5. /\ Ending(t) /\ Placed(t) /\ NoTask \notin Task /\ NoSlot \notin Slot /\ faults \in Nat
  BY <1>3, <1>4, NullTaskAssumption, LimitAssumption, WhoEnds
     DEF CustodyInv, Places, TypesInv, TypeInv, ExecTypeOK
<1>6. /\ running[t] = reaper.job.slot /\ reaper.job.slot \in Slot
      /\ ~slots[reaper.job.slot].alive /\ Down(t)
  BY <1>2, <1>4, RetriedRow
<1>7. CASE \E s \in Slot : slots[s].work = t
  BY <1>5, <1>6, <1>7 DEF CustodyInv, CustodyRows
<1>8. CASE custody[t].pc = "write"
  BY <1>3, <1>4, <1>5, <1>6, <1>8 DEF Costs, CaptureBill, Down, Held
<1>9. CASE custody[t].pc \in {"miss", "pending"}
  BY <1>3, <1>4, <1>5, <1>6, <1>9 DEF Placed
<1>10. CASE t \in pending
  BY <1>5, <1>6, <1>10 DEF CustodyInv, CustodyRows
<1> QED BY <1>1, <1>5, <1>7, <1>8, <1>9, <1>10 DEF Ending

LEMMA StepEnded ==
    ASSUME CustodyInv, [CustodyNext]_sysVars, CustodyFrame, Prices, Verdicts, Costs, Ended, TypesInv'
    PROVE  Ended'
<1>1. faults' < 3 => faults < 3
  BY LimitAssumption DEF Prices, Paid, CustodyInv, TypesInv, TypeInv, ExecTypeOK
<1>2. ASSUME faults' < 3 PROVE CrashIsOpen' /\ \A t \in Task : EndedIsAway(t)'
  BY <1>1, <1>2, CrashStaysOpen, EndedStaysAway DEF CrashIsOpen, EndedIsAway, Terminal
<1> QED BY <1>2 DEF Ended

-----------------------------------------------------------------------------
\* As long as no hard bound struck, a process at an unfinished task has its RUNNING row.
AtRow ==
    timeouts = 0 => \A t \in Task, s \in Slot : slots[s].work = t /\ ~Terminal(t) => running[t] = s

LEMMA StepAtRow ==
    ASSUME CustodyInv, [CustodyNext]_sysVars, CustodyFrame, Prices, AtRow
    PROVE  AtRow'
<1> SUFFICES ASSUME timeouts' = 0, NEW t \in Task, NEW s \in Slot, slots'[s].work = t, result'[t] = "none"
             PROVE  running'[t] = s
  BY DEF AtRow, Terminal
<1>t. /\ TaskFrame(t) /\ SlotFrame(s) /\ RowPrice(t) /\ NoTask \notin Task /\ NoSlot \notin Slot
      /\ timeouts \in Nat
  BY NullTaskAssumption, LimitAssumption
     DEF CustodyFrame, Prices, CustodyInv, TypesInv, TypeInv, ExecTypeOK
<1>1. timeouts = 0 /\ timeouts' = timeouts
  BY <1>t, TimeoutsGrow DEF CustodyInv
<1>2. CASE Starts(t, s)
  BY <1>2 DEF Starts
<1>3. CASE ~Starts(t, s)
  <2>1. slots[s].work = t /\ ~Terminal(t)
    BY <1>t, <1>3 DEF SlotFrame, TaskFrame
  <2>2. running[t] = s /\ slots[s].alive /\ t \notin pending
    BY <1>1, <1>t, <2>1 DEF AtRow, CustodyInv, CustodyRows
  <2>3. running'[t] = NoSlot => reaper.phase = "retry" /\ reaper.job.task = t /\ DeadJobCurrent(reaper.job)
    BY <1>1, <1>t, <2>1, <2>2 DEF RowPrice
  <2>4. running'[t] # NoSlot
    BY <2>2, <2>3, RetriedRow DEF DeadPhase
  <2> QED BY <1>t, <2>2, <2>4 DEF TaskFrame, Starts
<1> QED BY <1>2, <1>3

\* With one fault at most, and no hard bound, what is cancelled has no process at it.
Quiet == faults < 2 /\ timeouts = 0 => CancelledAfterDeath

LEMMA StepQuiet ==
    ASSUME CustodyInv, [CustodyNext]_sysVars, CustodyFrame, Prices, Costs, Ended, AtRow, Quiet
    PROVE  Quiet'
<1> SUFFICES ASSUME faults' < 2, timeouts' = 0, NEW t \in Task, NEW s \in Slot,
                    result'[t] = "cancelled", slots'[s].work = t
             PROVE  FALSE
  BY DEF Quiet, CancelledAfterDeath
<1>t. /\ SlotFrame(s) /\ Placed(t) /\ TerminalsAndStops(t) /\ NoTask \notin Task /\ NoSlot \notin Slot
      /\ timeouts \in Nat /\ faults \in Nat
  BY NullTaskAssumption, LimitAssumption, StepTerminals
     DEF CustodyFrame, CustodyInv, Places, TypesInv, TypeInv, ExecTypeOK
<1>1. timeouts = 0 /\ faults < 2 /\ faults < 3
  BY <1>t, TimeoutsGrow DEF CustodyInv, Prices, Paid
<1>2. CASE Terminal(t)
  <2>1. result[t] = "cancelled" /\ slots[s].work # t /\ t \notin pending
    BY <1>1, <1>2, <1>t DEF TerminalsAndStops, Quiet, CancelledAfterDeath, Ended, EndedIsAway
  <2> QED BY <1>t, <2>1 DEF SlotFrame, Starts
<1>3. CASE ~Terminal(t)
  <2>1. Ending(t) /\ slots[s].work = t
    BY <1>3, WhoEnds DEF Ending
  <2>2. running[t] = s /\ slots[s].alive /\ t \notin pending
    BY <1>1, <1>3, <1>t, <2>1 DEF AtRow, CustodyInv, CustodyRows
  <2>3. CASE custody[t].pc = "write"
    <3>1. running[t] \in {custody[t].slot, NoSlot}
      BY <1>1, <1>3, <1>t, <2>3 DEF Costs, CaptureBill, Held
    <3>2. ~slots[custody[t].slot].alive
      BY <2>3 DEF CustodyInv, Captures, CapturedWorker, Held
    <3> QED BY <1>t, <2>2, <3>1, <3>2
  <2>4. CASE custody[t].pc = "miss"
    BY <1>3, <1>t, <2>2, <2>4 DEF Placed
  <2>5. CASE custody[t].pc = "pending"
    BY <1>t, <2>1, <2>5 DEF Placed
  <2> QED BY <2>1, <2>2, <2>3, <2>4, <2>5 DEF Ending
<1> QED BY <1>2, <1>3

-----------------------------------------------------------------------------
\* All that the bills carry.
Billed == Costs /\ Ended /\ AtRow /\ Quiet

LEMMA BilledInit == CustodyInit => Billed
<1> SUFFICES ASSUME CustodyInit PROVE Billed
  OBVIOUS
<1>1. /\ faults = 0 /\ reaper.phase = "idle"
      /\ \A t \in Task : /\ launch[t] = NoSlot /\ running[t] = NoSlot /\ result[t] = "none"
                         /\ custody[t].pc = "none"
  BY DEF CustodyInit, Init, NoCustody
<1>2. \A s \in Slot : slots[s].busy = NoTask /\ slots[s].work = NoTask
  BY DEF CustodyInit, Init, FreshWorker
<1>3. NoTask \notin Task /\ NoSlot \notin Slot
  BY NullTaskAssumption
<1>4. Costs
  BY <1>1, <1>2, <1>3 DEF Costs, LaunchBill, CrashBill, StaleBill, CaptureBill, Down, Stale, Held
<1>5. Ended
  BY <1>1 DEF Ended, CrashIsOpen, EndedIsAway, Terminal
<1>6. AtRow /\ Quiet
  BY <1>1, <1>2, <1>3 DEF AtRow, Quiet, CancelledAfterDeath
<1> QED BY <1>4, <1>5, <1>6 DEF Billed

LEMMA BilledStep == CustodyInv /\ CustodyInv' /\ Verdicts /\ Billed /\ [CustodyNext]_sysVars => Billed'
<1> SUFFICES ASSUME CustodyInv, CustodyInv', Verdicts, Billed, [CustodyNext]_sysVars PROVE Billed'
  OBVIOUS
<1>1. TypesInv /\ TypesInv' /\ Costs /\ Ended /\ AtRow /\ Quiet
  BY DEF CustodyInv, Billed
<1>2. CustodyFrame /\ Prices
  BY <1>1, StepFrame, StepPrices
<1>3. Costs' /\ Ended'
  BY <1>1, <1>2, StepCosts, StepEnded
<1>4. AtRow' /\ Quiet'
  BY <1>1, <1>2, StepAtRow, StepQuiet
<1> QED BY <1>3, <1>4 DEF Billed

LEMMA BilledAlways == CustodySpec => []Billed
BY BilledInit, BilledStep, CustodyInvariant, VerdictsAlways, PTL DEF CustodySpec

\* No step of custody, of the reaper or of the loop replaces a terminal, queues an ended
\* task or gives it a RUNNING row, before a third fault: a second worker bound to a task
\* is one fault, its slot open another, the crash of the task itself the third.
THEOREM CustodyNoReplay == CustodySpec /\ [](faults < 3) => FinishedWorkIsNotReplayed
<1> DEFINE NoReplay == \A t \in Task : Terminal(t) =>
                          /\ result'[t] = result[t]
                          /\ t \notin pending' \ pending
                          /\ running'[t] \in {running[t], NoSlot}
<1>1. ASSUME CustodyInv, Billed, faults < 3, [CustodyNext]_sysVars PROVE NoReplay
  <2> SUFFICES ASSUME NEW t \in Task, Terminal(t)
               PROVE  /\ result'[t] = result[t]
                      /\ t \notin pending' \ pending
                      /\ running'[t] \in {running[t], NoSlot}
    OBVIOUS
  <2>1. TaskFrame(t) /\ TerminalsAndStops(t)
    BY <1>1, StepFrame, StepTerminals DEF CustodyInv, CustodyFrame
  <2>2. /\ t \notin pending /\ custody[t].pc # "pending"
        /\ ~(reaper.phase = "retry" /\ reaper.job.task = t /\ DeadJobCurrent(reaper.job))
    BY <1>1 DEF Billed, Ended, EndedIsAway, CrashIsOpen
  <2> QED BY <2>1, <2>2 DEF TaskFrame, TerminalsAndStops, Starts
<1>2. CustodyInv /\ Billed /\ faults < 3 /\ [CustodyNext]_sysVars => [NoReplay]_execVars
  BY <1>1
<1> HIDE DEF NoReplay
<1>3. CustodySpec /\ [](faults < 3) => [][NoReplay]_execVars
  BY <1>2, BilledAlways, CustodyInvariant, PTL DEF CustodySpec
<1> QED BY <1>3 DEF NoReplay, FinishedWorkIsNotReplayed

\* Before a third fault a Stop is closed only over a task that has its terminal and is out
\* of the queue: whoever closes it, no retry of a crash is still to queue the task.
THEOREM StopsCloseOverTheEnd == CustodySpec /\ [](faults < 3) => StopClosesOverTheEnd
<1> DEFINE Closes == \A t \in Task : (stop[t] # "none" /\ stop'[t] = "none") =>
                        /\ result'[t] # "none"
                        /\ t \notin pending'
<1> DEFINE Few == faults < 3
<1>1. ASSUME CustodyInv, Billed', Few', [CustodyNext]_sysVars PROVE Closes
  <2> SUFFICES ASSUME NEW t \in Task, stop[t] # "none", stop'[t] = "none"
               PROVE  result'[t] # "none" /\ t \notin pending'
    OBVIOUS
  <2>1. result'[t] # "none"
    BY <1>1, StepTerminals DEF TerminalsAndStops
  <2>2. EndedIsAway(t)'
    BY <1>1 DEF Billed, Ended
  <2> QED BY <2>1, <2>2 DEF EndedIsAway, Terminal
<1>2. CustodyInv /\ Billed' /\ Few' /\ [CustodyNext]_sysVars => [Closes]_sysVars
  BY <1>1
<1> HIDE DEF Closes, Few
<1>3. CustodySpec /\ []Few => [][Closes]_sysVars
  BY <1>2, BilledAlways, CustodyInvariant, PTL DEF CustodySpec
<1> QED BY <1>3 DEF Closes, Few, StopClosesOverTheEnd

\* A task is stored as cancelled with no process at it, until a second fault or a hard bound:
\* the worker that runs it is the one its RUNNING row names, and that one was captured.
THEOREM CancelledWithoutProcess == CustodySpec => [](faults < 2 /\ timeouts = 0 => CancelledAfterDeath)
<1>1. Billed => (faults < 2 /\ timeouts = 0 => CancelledAfterDeath)
  BY DEF Billed, Quiet
<1> QED BY <1>1, BilledAlways, PTL
=============================================================================
