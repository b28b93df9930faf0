----------------------------- MODULE CancelCustody -----------------------------
(***************************************************************************)
(* Cancellation custody (supervisor/task_lifecycle.py, cancel_publication) *)
(* on top of task execution: an open Stop is claimed, its task is captured *)
(* from the queue or with its worker, the worker is killed, "cancelled" is *)
(* stored, the Stop is settled and the card resolved.  Custody shares rows *)
(* with the supervisor loop and slots with the reaper.                     *)
(*                                                                         *)
(* One server life: claims exclude one another (CancelIntents), so a task  *)
(* has one custody attempt at a time and the write fence holds.  Stops are *)
(* of scope single, and the projection can be written.                     *)
(***************************************************************************)
EXTENDS TaskExecution

CONSTANT MaxStop    \* bound: Stops ever requested

ASSUME StopAssumption == MaxStop \in Nat

\* Where an attempt is, the worker it captured (slot and life), and what it read:
\* settled before the claim, quiet that a retained reap publishes for it, owed that
\* its answer is durably registered.
Attempt == [pc : {"none", "claim", "capture", "kill", "judge", "write", "settle", "publish",
                  "respawn", "pending", "dropped", "miss", "missed"},
            slot : Slot \cup {NoSlot}, life : Nat,
            settled : BOOLEAN, quiet : BOOLEAN, owed : BOOLEAN]

NoCustody == [pc |-> "none", slot |-> NoSlot, life |-> 0,
              settled |-> FALSE, quiet |-> FALSE, owed |-> TRUE]

VARIABLES
    stop,       \* Task -> its row in the projection: "none", "open" or "claimed"
    custody,    \* Task -> the custody attempt at work on it
    deferred,   \* _deferred_reap_jobs
    replaying,  \* those of them that are back in the reaper's queue or hands
    stops       \* Stops requested so far

custodyVars == <<stop, custody, deferred, replaying, stops>>
sysVars == <<execVars, custodyVars>>

-----------------------------------------------------------------------------
At(t, pc) == custody[t].pc = pc
Proceed(t, pc) == custody' = [custody EXCEPT ![t].pc = pc]
EndCustody(t) == custody' = [custody EXCEPT ![t] = NoCustody]

\* Mutant: an attempt that gives up keeps its claim.
KeepsClaim(t) == EndCustody(t) /\ UNCHANGED stop

\* _release_intent_claim and the end of the attempt.
ReleaseStop(t) ==
    /\ stop' = [stop EXCEPT ![t] = "open"]
    /\ EndCustody(t)

\* _settle_or_reopen_intent: a Stop whose answer could not be owed stays open.
SettleOrReopen(t) ==
    \/ stop' = [stop EXCEPT ![t] = "none"] /\ UNCHANGED faults
    \/ stop' = [stop EXCEPT ![t] = "open"] /\ Fault

\* The captured Worker object is still the slot's.
SameWorker(t) == slots[custody[t].slot].life = custody[t].life

\* Mutant: the worker of a failed cancellation is handed back as an idle one.
SlotFreed(t) ==
    IF SameWorker(t)
    THEN [slots EXCEPT ![custody[t].slot].mode = "open", ![custody[t].slot].busy = NoTask]
    ELSE slots

\* _restore_custody of a captured worker.
SlotRestored(t) ==
    IF SameWorker(t) THEN [slots EXCEPT ![custody[t].slot].mode = "open"] ELSE slots

\* _emit_cancel_task_done: no stamp, no worker.
CancelDone(t) == [task |-> t, slot |-> NoSlot, attempt |-> 0, by |-> "cancel"]

-----------------------------------------------------------------------------
CustodyInit ==
    /\ Init
    /\ stop      = [t \in Task |-> "none"]
    /\ custody   = [t \in Task |-> NoCustody]
    /\ deferred  = {}
    /\ replaying = {}
    /\ stops     = 0

\* task_has_live_ownership: a RUNNING row, a busy worker or a retained reap.
LiveOwnership(t) ==
    \/ running[t] # NoSlot
    \/ \E s \in Slot : slots[s].busy = t
    \/ \E job \in deferred : job.task = t

\* request_cancel: a settled task only while somebody owns it.
RequestStop(t) ==
    /\ stops < MaxStop
    /\ stop[t] = "none"
    /\ Terminal(t) => LiveOwnership(t)
    /\ stop' = [stop EXCEPT ![t] = "open"]
    /\ stops' = stops + 1
    /\ UNCHANGED <<execVars, custody, deferred, replaying>>

\* The control event or the sweep feeds the Stop; the stored result is read first.
BeginCustody(t) ==
    /\ stop[t] = "open"
    /\ At(t, "none")
    /\ custody' = [custody EXCEPT ![t] = [NoCustody EXCEPT !.pc = "claim", !.settled = Terminal(t)]]
    /\ UNCHANGED <<execVars, stop, deferred, replaying, stops>>

\* _claim_intent, or no request is left to claim.
ClaimStop(t) ==
    /\ At(t, "claim")
    /\ IF stop[t] = "open"
       THEN stop' = [stop EXCEPT ![t] = "claimed"] /\ Proceed(t, "capture")
       ELSE EndCustody(t) /\ UNCHANGED stop
    /\ UNCHANGED <<execVars, deferred, replaying, stops>>

\* Mutant: a slot in teardown is captured like any other.
CaptureReaping(t) ==
    LET holders == {s \in Slot : slots[s].busy = t} IN
    /\ At(t, "capture")
    /\ pending' = pending \ {t}
    /\ \/ t \in pending /\ Proceed(t, "pending") /\ UNCHANGED slots
       \/ t \notin pending /\ holders = {} /\ Proceed(t, "miss") /\ UNCHANGED slots
       \/ \E s \in holders :
             /\ t \notin pending
             /\ custody' = [custody EXCEPT ![t].pc = "kill", ![t].slot = s, ![t].life = slots[s].life]
             /\ slots' = [slots EXCEPT ![s].mode = "reaping"]
    /\ UNCHANGED <<launch, running, attempt, result, bus, jobs, reaper, resolved, faults,
                   timeouts, stop, deferred, replaying, stops>>

\* Phase 1, under the queue lock.  A queued row is taken out; a bound worker is marked
\* reaping and its RUNNING row stays; a worker in teardown belongs to somebody else.
Capture(t) ==
    LET settled == custody[t].settled
        holders == {s \in Slot : slots[s].busy = t}
        queued  == t \in pending /\ ~settled
    IN
    /\ At(t, "capture")
    /\ pending' = pending \ {t}
    /\ \/ queued /\ Proceed(t, "pending") /\ UNCHANGED <<slots, stop>>
       \/ ~queued /\ holders = {} /\ Proceed(t, "miss") /\ UNCHANGED <<slots, stop>>
       \/ \E s \in holders :
             /\ ~queued
             /\ IF settled /\ ~slots[s].alive
                THEN Proceed(t, "miss") /\ UNCHANGED <<slots, stop>>
                ELSE IF slots[s].mode # "open"
                THEN ReleaseStop(t) /\ UNCHANGED slots
                ELSE /\ custody' = [custody EXCEPT ![t].pc = "kill", ![t].slot = s,
                                                   ![t].life = slots[s].life]
                     /\ slots' = [slots EXCEPT ![s].mode = "reaping"]
                     /\ UNCHANGED stop
    /\ UNCHANGED <<launch, running, attempt, result, bus, jobs, reaper, resolved, faults,
                   timeouts, deferred, replaying, stops>>

-----------------------------------------------------------------------------
\* A captured worker.

\* Mutant: a kill that is not confirmed counts as one.
KillUnconfirmed(t) ==
    /\ At(t, "kill")
    /\ Proceed(t, "judge")
    /\ UNCHANGED <<execVars, stop, deferred, replaying, stops>>

\* Phase 2: kill and join, or give everything back.
KillStopped(t) ==
    LET s == custody[t].slot IN
    /\ At(t, "kill")
    /\ \/ /\ slots' = IF SameWorker(t)
                      THEN [slots EXCEPT ![s].alive = FALSE, ![s].work = NoTask] ELSE slots
          /\ Proceed(t, "judge")
          /\ UNCHANGED <<stop, faults>>
       \/ /\ slots[s].alive
          /\ Fault
          /\ slots' = SlotRestored(t)
          /\ ReleaseStop(t)
    /\ UNCHANGED <<pending, launch, running, attempt, result, bus, jobs, reaper, resolved,
                   timeouts, deferred, replaying, stops>>

\* The terminal the dead worker left wins; files that cannot be judged give custody
\* back.
JudgeStopped(t) ==
    /\ At(t, "judge")
    /\ \/ /\ Terminal(t)
          /\ \E owed \in BOOLEAN :
                /\ IF owed THEN UNCHANGED faults ELSE Fault
                /\ custody' = [custody EXCEPT ![t].pc = "settle", ![t].owed = owed]
          /\ UNCHANGED <<slots, stop>>
       \/ /\ ~Terminal(t)
          /\ Proceed(t, "write")
          /\ UNCHANGED <<slots, stop, faults>>
       \/ /\ Fault
          /\ slots' = SlotRestored(t)
          /\ ReleaseStop(t)
    /\ UNCHANGED <<pending, launch, running, attempt, result, bus, jobs, reaper, resolved,
                   timeouts, deferred, replaying, stops>>

\* Phase 3: the answer is owed and "cancelled" stored, or custody is given back.
WriteCancelled(t) ==
    /\ At(t, "write")
    /\ \/ /\ result' = Written(t, "cancelled")
          /\ \E owed \in BOOLEAN :
                /\ IF owed THEN UNCHANGED faults ELSE Fault
                /\ custody' = [custody EXCEPT ![t].pc = "settle", ![t].owed = owed]
          /\ UNCHANGED <<slots, stop>>
       \/ /\ Fault
          /\ slots' = SlotRestored(t)
          /\ ReleaseStop(t)
          /\ UNCHANGED result
    /\ UNCHANGED <<pending, launch, running, attempt, bus, jobs, reaper, resolved, timeouts,
                   deferred, replaying, stops>>

SettleStop(t) ==
    /\ At(t, "settle")
    /\ stop' = [stop EXCEPT ![t] = IF custody[t].owed THEN "none" ELSE "open"]
    /\ Proceed(t, "publish")
    /\ UNCHANGED <<execVars, deferred, replaying, stops>>

\* Mutant: the event is put and the row left to it.
PublishKeepsRow(t) ==
    /\ At(t, "publish")
    /\ bus' = IF running[t] # NoSlot THEN bus \cup {CancelDone(t)} ELSE bus
    /\ Proceed(t, "respawn")
    /\ UNCHANGED <<pending, launch, running, attempt, slots, result, jobs, reaper, resolved,
                   faults, timeouts, stop, deferred, replaying, stops>>

\* _publish_cancelled_task: whoever pops the RUNNING row puts the event.
PublishStopped(t) ==
    /\ At(t, "publish")
    /\ running' = [running EXCEPT ![t] = NoSlot]
    /\ bus' = IF running[t] # NoSlot THEN bus \cup {CancelDone(t)} ELSE bus
    /\ Proceed(t, "respawn")
    /\ UNCHANGED <<pending, launch, attempt, slots, result, jobs, reaper, resolved, faults,
                   timeouts, stop, deferred, replaying, stops>>

\* _respawn_after_reap, the reaper's own last step.
RespawnStopped(t) ==
    LET s == custody[t].slot IN
    /\ At(t, "respawn")
    /\ EndCustody(t)
    /\ \/ /\ slots' = IF SameWorker(t)
                      THEN [slots EXCEPT ![s] = FreshWorker(@.life + 1)] ELSE slots
          /\ UNCHANGED faults
       \/ /\ SameWorker(t)
          /\ slots' = SlotRestored(t)
          /\ Fault
    /\ UNCHANGED <<pending, launch, running, attempt, result, bus, jobs, reaper, resolved,
                   timeouts, stop, deferred, replaying, stops>>

-----------------------------------------------------------------------------
\* A captured queue row (_finish_captured_pending).

\* "Persist first, publish second"; a failed write puts the row back.
WritePending(t) ==
    /\ At(t, "pending")
    /\ \/ /\ result' = Written(t, "cancelled")
          /\ IF Terminal(t)
             THEN stop' = [stop EXCEPT ![t] = "none"] /\ EndCustody(t)
             ELSE Proceed(t, "dropped") /\ UNCHANGED stop
          /\ UNCHANGED <<pending, faults>>
       \/ /\ Fault
          /\ pending' = pending \cup {t}
          /\ ReleaseStop(t)
          /\ UNCHANGED result
    /\ UNCHANGED <<launch, running, attempt, slots, bus, jobs, reaper, resolved, timeouts,
                   deferred, replaying, stops>>

PublishPending(t) ==
    /\ At(t, "dropped")
    /\ stop' = [stop EXCEPT ![t] = "none"]
    /\ EndCustody(t)
    /\ bus' = bus \cup {CancelDone(t)}
    /\ UNCHANGED <<pending, launch, running, attempt, slots, result, jobs, reaper, resolved,
                   faults, timeouts, deferred, replaying, stops>>

\* _drop_cancelled_pending, in the assignment pass: claim, store, settle and publish
\* under the queue lock.  A row that cannot be stored leaves the queue, its Stop open.
DropCancelledPending(t) ==
    /\ t \in pending
    /\ stop[t] = "open"
    /\ pending' = pending \ {t}
    /\ \/ /\ result' = Written(t, "cancelled")
          /\ stop' = [stop EXCEPT ![t] = "none"]
          /\ bus' = bus \cup {CancelDone(t)}
          /\ UNCHANGED faults
       \/ /\ Fault
          /\ UNCHANGED <<result, stop, bus>>
    /\ UNCHANGED <<launch, running, attempt, slots, jobs, reaper, resolved, timeouts, custody,
                   deferred, replaying, stops>>

-----------------------------------------------------------------------------
\* Nothing captured (_finalize_cancel_intent_on_miss, and the already-settled lane).

\* Mutant: an unfinished task that was not found is left alone, its Stop closed.
MissSettles(t) ==
    /\ At(t, "miss")
    /\ SettleOrReopen(t)
    /\ EndCustody(t)
    /\ UNCHANGED <<pending, launch, running, attempt, slots, result, bus, jobs, reaper,
                   resolved, timeouts, deferred, replaying, stops>>

\* Mutant: the miss lane stores "cancelled" over whatever the task had stored.
MissOverwrites(t) ==
    /\ At(t, "miss")
    /\ result' = [result EXCEPT ![t] = "cancelled"]
    /\ Proceed(t, "missed")
    /\ UNCHANGED <<pending, launch, running, attempt, slots, bus, jobs, reaper, resolved,
                   faults, timeouts, stop, deferred, replaying, stops>>

\* A stored terminal is owed and the Stop settled.  Otherwise "cancelled" is stored under
\* the queue lock, unless the reaper is at the task's retained job.
FinalizeOnMiss(t) ==
    /\ At(t, "miss")
    /\ IF Terminal(t) THEN SettleOrReopen(t) /\ EndCustody(t) /\ UNCHANGED result
       ELSE IF \E job \in replaying : job.task = t
       THEN ReleaseStop(t) /\ UNCHANGED <<result, faults>>
       ELSE \/ /\ result' = Written(t, "cancelled")
               /\ custody' = [custody EXCEPT ![t].pc = "missed",
                                             ![t].quiet = \E job \in deferred : job.task = t]
               /\ UNCHANGED <<stop, faults>>
            \/ ReleaseStop(t) /\ Fault /\ UNCHANGED result
    /\ UNCHANGED <<pending, launch, running, attempt, slots, bus, jobs, reaper, resolved,
                   timeouts, deferred, replaying, stops>>

\* The end of that lane; a retained reap publishes the terminal on its replay.
PublishMiss(t) ==
    /\ At(t, "missed")
    /\ SettleOrReopen(t)
    /\ EndCustody(t)
    /\ bus' = IF custody[t].quiet THEN bus ELSE bus \cup {CancelDone(t)}
    /\ UNCHANGED <<pending, launch, running, attempt, slots, result, jobs, reaper, resolved,
                   timeouts, deferred, replaying, stops>>

-----------------------------------------------------------------------------
\* The reaper's retained jobs, which the miss lane consults.

\* TerminalFileRecoveryPending: the job is retained with its reservation.
RetainJob ==
    /\ reaper.phase \in {"inspect", "fail", "finish"}
    /\ Fault
    /\ StopReaping
    /\ deferred' = deferred \cup {reaper.job}
    /\ replaying' = replaying \ {reaper.job}
    /\ UNCHANGED <<pending, launch, running, attempt, slots, result, bus, jobs, resolved,
                   timeouts, stop, custody, stops>>

\* Mutant: the hand-back takes the job off the retained list.
ReplayHandsOver(job) ==
    /\ job \in deferred \ replaying
    /\ jobs' = Append(jobs, job)
    /\ replaying' = replaying \cup {job}
    /\ deferred' = deferred \ {job}
    /\ UNCHANGED <<pending, launch, running, attempt, slots, result, bus, reaper, resolved,
                   faults, timeouts, stop, custody, stops>>

\* _retry_deferred_reap_jobs, on a health tick.
ReplayJob(job) ==
    /\ job \in deferred \ replaying
    /\ jobs' = Append(jobs, job)
    /\ replaying' = replaying \cup {job}
    /\ UNCHANGED <<pending, launch, running, attempt, slots, result, bus, reaper, resolved,
                   faults, timeouts, stop, custody, deferred, stops>>

\* A step of the reaper; a replay that ended settles its retained job.
ReapStep ==
    LET job  == IF reaper.phase = "idle" THEN Head(jobs) ELSE reaper.job
        over == IF reaper'.phase = "idle" THEN {job} \cap replaying ELSE {}
    IN
    /\ ReaperStep
    /\ deferred' = deferred \ over
    /\ replaying' = replaying \ over
    /\ UNCHANGED <<stop, custody, stops>>

\* The rest of the supervisor and its workers.  The assignment pass launches nothing
\* before the cancelled rows are dropped; a hard bound yields to an open Stop.
SupervisorStep ==
    /\ \/ /\ \A u \in pending : stop[u] = "none"
          /\ \E t \in Task, s \in Slot : ClaimLaunch(t, s)
       \/ \E t \in Task, s \in Slot : BindLaunch(t, s)
       \/ \E t \in Task, s \in Slot : ReleaseLaunch(t, s)
       \/ \E s \in Slot : Complete(s)
       \/ \E s \in Slot : ReportDone(s)
       \/ \E s \in Slot : WorkerDies(s)
       \/ \E s \in Slot : LeaveBoot(s)
       \/ \E e \in bus : HandleTaskDone(e)
       \/ \E s \in Slot : ReserveDeadSlot(s)
       \/ \E t \in Task : stop[t] = "none" /\ Timeout(t)
    /\ UNCHANGED custodyVars

CustodyStep(t) ==
    \/ BeginCustody(t)
    \/ ClaimStop(t)
    \/ Capture(t)
    \/ KillStopped(t)
    \/ JudgeStopped(t)
    \/ WriteCancelled(t)
    \/ SettleStop(t)
    \/ PublishStopped(t)
    \/ RespawnStopped(t)
    \/ WritePending(t)
    \/ PublishPending(t)
    \/ FinalizeOnMiss(t)
    \/ PublishMiss(t)

CustodyNext ==
    \/ \E t \in Task : RequestStop(t)
    \/ \E t \in Task : CustodyStep(t)
    \/ \E t \in Task : DropCancelledPending(t)
    \/ RetainJob
    \/ \E job \in deferred : ReplayJob(job)
    \/ ReapStep
    \/ SupervisorStep

CustodySpec == CustodyInit /\ [][CustodyNext]_sysVars

Launch(t) ==
    /\ \A u \in pending : stop[u] = "none"
    /\ \E s \in Slot : ClaimLaunch(t, s)
    /\ UNCHANGED custodyVars

SlotStep(s) ==
    /\ Complete(s) \/ ReportDone(s) \/ LeaveBoot(s) \/ ReserveDeadSlot(s)
    /\ UNCHANGED custodyVars

LaneStep(t, s) ==
    /\ BindLaunch(t, s) \/ (~LaunchHeld(t, s) /\ ReleaseLaunch(t, s))
    /\ UNCHANGED custodyVars

Resolve(t) ==
    /\ \E e \in bus : e.task = t /\ HandleTaskDone(e)
    /\ UNCHANGED custodyVars

\* The fairness of task execution; besides, the sweep feeds every open Stop, a custody
\* attempt goes on to its end, the assignment pass drops stopped rows and the health
\* tick replays retained jobs.
CustodyFairness ==
    /\ \A t \in Task : WF_sysVars(Launch(t)) /\ WF_sysVars(Resolve(t))
    /\ \A t \in Task, s \in Slot : WF_sysVars(LaneStep(t, s))
    /\ \A s \in Slot : WF_sysVars(SlotStep(s))
    /\ \A t \in Task : WF_sysVars(CustodyStep(t)) /\ WF_sysVars(DropCancelledPending(t))
    /\ WF_sysVars(\E job \in deferred : ReplayJob(job))
    /\ WF_sysVars(ReapStep)

FairCustodySpec == CustodySpec /\ CustodyFairness

-----------------------------------------------------------------------------
\* The projection, the attempts and the retained jobs stay well formed, and so does
\* all that custody shares with the supervisor and the reaper.
CustodyTypeOK ==
    /\ ExecTypeOK
    /\ stop \in [Task -> {"none", "open", "claimed"}]
    /\ custody \in [Task -> Attempt]
    /\ replaying \subseteq deferred
    /\ deferred \subseteq Job
    /\ stops \in 0..MaxStop

\* From the capture to the settle the worker is custody's alone: it stays bound to the
\* task and reserved, and the reaper neither holds nor awaits a job on it ("Exactly one
\* owner kills, publishes and respawns", cancel_task_custody).
CapturedSlotIsReserved ==
    \A t \in Task : custody[t].pc \in {"kill", "judge", "write", "settle"} =>
        LET s == custody[t].slot
            onSlot(job) == job.slot = s /\ job.life = custody[t].life
        IN  /\ SameWorker(t)
            /\ slots[s].busy = t
            /\ slots[s].mode = "reaping"
            /\ ~onSlot(reaper.job)
            /\ \A i \in 1..Len(jobs) : ~onSlot(jobs[i])
            /\ \A job \in deferred : ~onSlot(job)

\* A task is publicly cancelled only when no process is at it ("Only after confirmed
\* death AND a successful durable write", cancel_task_custody, phase 3).
CancelledAfterDeath ==
    \A t \in Task : result[t] = "cancelled" => \A s \in Slot : slots[s].work # t

\* An event without a stamp is put after its row was withdrawn: the loop would take it
\* for a worker that has not prepared its files (_publish_cancelled_task, _emit_cancel_task_done).
UnstampedFollowsWithdrawal ==
    \A e \in bus : e.attempt = 0 => running[e.task] = NoSlot

\* A Stop is closed only over a task that has ended and left the queue for good.
StopClosesOverTheEnd ==
    [][\A t \in Task : (stop[t] # "none" /\ stop'[t] = "none") =>
          /\ result'[t] # "none"
          /\ t \notin pending']_sysVars

\* No Stop stays open: whatever refused or failed, custody is fed again until the task
\* has ended ("a lost control event or custody dead mid-teardown cannot wedge").
EveryStopCloses ==
    \A t \in Task : stop[t] = "open" ~> (stop[t] = "none" /\ Terminal(t))

\* A Stop of one task takes no other task's work from its owner: a crash, a custody attempt
\* and a reap job may meet on one slot, but a task nobody asked to stop keeps its owner.
OtherWorkStaysOwned == \A t \in Task : stop[t] # "none" \/ Owned(t)

\* ... and comes to its end, with its terminal stored and its card resolved.
OtherTasksResolve ==
    \A t \in Task : <>(stop[t] # "none" \/ (Terminal(t) /\ resolved[t] > 0))
================================================================================
