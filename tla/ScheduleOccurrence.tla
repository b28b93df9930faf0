------------------------- MODULE ScheduleOccurrence -------------------------
(***************************************************************************)
(* How a due point of one recurring schedule becomes at most one root task *)
(* (supervisor/schedule_occurrence.py, queue_schedules.py), from the claim *)
(* through the receipt, the row and the queue snapshot to the put into a   *)
(* worker (worker_assignment.py), with the owner's edits and Stops, failed *)
(* writes, crashes, planned restarts and the restore of the queue          *)
(* (queue_snapshot.py).                                                    *)
(*                                                                         *)
(* The clock is abstracted: firing points are numbered, and any pass may   *)
(* find the next one due.  An occurrence is its task: one id, one row.     *)
(***************************************************************************)
EXTENDS Naturals

CONSTANTS
    MaxOccurrence,  \* bound: occurrences claimed
    MaxEdit,        \* bound: changes of the schedule by its owner
    MaxStop,        \* bound: Stops requested by the owner
    MaxFault        \* bound: failed writes and deaths of the server

ASSUME ScheduleBoundAssumption ==
    MaxOccurrence \in Nat /\ MaxEdit \in Nat /\ MaxStop \in Nat /\ MaxFault \in Nat

Occurrence == 1..MaxOccurrence
NoOccurrence == 0

\* A queue row: pending and never dispatched, pending under a committed launch mark, pending
\* under a hold the owner may lift, pending with an unknown dispatch, or running.
PendingRow == {"queued", "marked", "held", "unknown"}
QueueRow == PendingRow \cup {"absent", "running"}

VARIABLES
    table,      \* the schedule's row in scheduled_tasks.json, with its occurrence
    claim,      \* the due point and the definition each occurrence was claimed for
    minted,     \* occurrences claimed so far
    receipt,    \* task result: none, accepted, possible (dispatch) or ended
    saved,      \* queue snapshot
    stops,      \* open cancel intents
    server,     \* up, crashed, or stopped by a planned restart
    queue,      \* PENDING and RUNNING
    pass,       \* the scheduler pass between its claim and its last write
    launch,     \* the admission lane's launch
    captured,   \* what a custody attempt took under the queue lock
    alive,      \* occurrences a worker process may be at
    overdue,    \* occurrences a hard bound took out of RUNNING, until their slots are respawned
    started,    \* history: puts into a worker
    edits, asked, faults

durable == <<table, claim, minted, receipt, saved, stops>>
process == <<queue, pass, launch, captured, alive, overdue>>
counters == <<edits, asked, faults>>
vars == <<durable, server, process, started, counters>>

IdlePass == [pc |-> "idle", id |-> NoOccurrence, stored |-> FALSE]
IdleLaunch == [pc |-> "idle", id |-> NoOccurrence, own |-> FALSE, foreign |-> FALSE]

\* The pass holds the queue and the table lock from the enqueue to the snapshot.
Unlocked == server = "up" /\ pass.pc \in {"idle", "prepared"}
Fault == faults < MaxFault /\ faults' = faults + 1
NoFault == UNCHANGED faults

\* persist_queue_snapshot where nobody looks at its answer.
Persist ==
    \/ saved' = queue' /\ NoFault
    \/ UNCHANGED saved /\ Fault

Live(o) == queue[o] # "absent"

\* Mutant: a schedule's running task does not keep its next point waiting.
NothingLive(q) == FALSE

\* _schedule_running_or_queued
ScheduleLive(q) == \E o \in Occurrence : q[o] # "absent"

-----------------------------------------------------------------------------
(* The schedule's row.                                                     *)

\* What the owner authored is what the occurrence was claimed for (fingerprint).
Authored(o) == table.enabled /\ table.def = claim[o].def

DiscardClaim(t) == [t EXCEPT !.occ = NoOccurrence, !.admitted = FALSE, !.possible = FALSE]

\* Mutant: an off-by-one of the next point.
AdvancesTwice(t, o) == [t EXCEPT !.next = @ + 2]

\* _advance: an admission consumes its own firing point, never a later authored one.
Advance(t, o) == IF t.next = claim[o].due THEN [t EXCEPT !.next = @ + 1] ELSE t

\* Mutant: a run whose row never advanced leaves its point due.
SettlesOnly(t) == DiscardClaim(t)

\* settle
Settle(t) == IF t.admitted THEN DiscardClaim(t) ELSE Advance(DiscardClaim(t), t.occ)

\* Mutants: accepted work follows later edits; accepted work out of the queue is forgotten.
EditDropsAccepted(o) ==
    IF table.possible THEN "settled"
    ELSE IF Live(o) THEN "live"
    ELSE IF receipt[o] \in {"possible", "ended"} THEN "settled"
    ELSE IF ~Authored(o) THEN "reconsider"
    ELSE IF receipt[o] = "accepted" THEN "republish" ELSE "prepare"
NeverRepublishes(o) ==
    IF table.possible THEN "settled"
    ELSE IF Live(o) THEN "live"
    ELSE IF receipt[o] \in {"possible", "ended"} THEN "settled"
    ELSE IF receipt[o] = "accepted" THEN "hold"
    ELSE IF Authored(o) THEN "prepare" ELSE "reconsider"

\* reconcile: what becomes of the row's occurrence, from durable facts and the live queue.
Reconcile(o) ==
    IF table.possible THEN "settled"
    ELSE IF Live(o) THEN "live"
    ELSE IF receipt[o] \in {"possible", "ended"} THEN "settled"
    ELSE IF receipt[o] = "accepted" THEN "republish"
    ELSE IF table.admitted THEN "hold"
    ELSE IF Authored(o) THEN "prepare" ELSE "reconsider"

-----------------------------------------------------------------------------
(* The scheduler pass: check_scheduled_tasks, prepare, admit.              *)

Prepare(o, stored) == pass' = [pc |-> "prepared", id |-> o, stored |-> stored]

\* The row's occurrence is to be prepared, afresh or from its frozen task.
TakeUp ==
    /\ Unlocked /\ pass.pc = "idle" /\ table.occ # NoOccurrence
    /\ Reconcile(table.occ) \in {"prepare", "republish"}
    /\ Prepare(table.occ, Reconcile(table.occ) = "republish")
    /\ UNCHANGED <<table, claim, minted, receipt, stops, server, queue, launch, captured, alive, overdue,
                   started, edits, asked>>
    /\ Persist

\* The row once an occurrence that is over has left it.
Cleared ==
    IF table.occ = NoOccurrence THEN table
    ELSE IF Reconcile(table.occ) = "settled" THEN Settle(table) ELSE DiscardClaim(table)

MayMove ==
    /\ Unlocked /\ pass.pc = "idle" /\ ~table.gone
    /\ table.occ # NoOccurrence => Reconcile(table.occ) \in {"settled", "reconsider"}

\* The next point is due: one token, one task id.
ClaimDue ==
    /\ MayMove
    /\ Cleared.enabled /\ ~ScheduleLive(queue) /\ minted < MaxOccurrence
    /\ minted' = minted + 1
    /\ claim' = [claim EXCEPT ![minted'] = [due |-> Cleared.next, def |-> Cleared.def]]
    /\ table' = [Cleared EXCEPT !.occ = minted']
    /\ Prepare(minted', FALSE)
    /\ UNCHANGED <<receipt, stops, server, queue, launch, captured, alive, overdue, started, edits,
                   asked>>
    /\ Persist

\* Nothing is due.  A withdrawn row whose retention has passed is removed when it owes nothing.
Tidy ==
    /\ MayMove
    /\ table' \in {Cleared} \cup IF Cleared.withdrawn THEN {[Cleared EXCEPT !.gone = TRUE]} ELSE {}
    /\ table' # table
    /\ UNCHANGED <<claim, minted, receipt, stops, server, queue, pass, launch, captured, alive, overdue,
                   started, edits, asked>>
    /\ Persist

StillPrepared ==
    /\ pass.pc = "prepared" /\ table.occ = pass.id /\ ~table.gone
    /\ Reconcile(pass.id) = IF pass.stored THEN "republish" ELSE "prepare"

\* admit: the enqueue and the receipt, under both locks.  A receipt that was not written, or
\* was but nobody said so, takes the task out of the queue again.
Admit ==
    /\ Unlocked /\ StillPrepared
    /\ \/ /\ queue' = [queue EXCEPT ![pass.id] = "queued"]
          /\ receipt' = [receipt EXCEPT ![pass.id] = "accepted"]
          /\ pass' = [pass EXCEPT !.pc = "row"]
          /\ NoFault
       \/ /\ receipt' \in {receipt, [receipt EXCEPT ![pass.id] = "accepted"]}
          /\ pass' = IdlePass
          /\ UNCHANGED queue
          /\ Fault
    /\ UNCHANGED <<table, claim, minted, saved, stops, server, launch, captured, alive, overdue,
                   started, edits, asked>>

\* The recheck finds the row moved on, edited or settled; or policy, capacity or a closing
\* generation lets the claim wait.
Forgo ==
    /\ Unlocked /\ pass.pc = "prepared"
    /\ pass' = IdlePass
    /\ table' = IF table.occ = pass.id /\ ~table.gone /\ Reconcile(pass.id) = "reconsider"
                THEN DiscardClaim(table) ELSE table
    /\ UNCHANGED <<claim, minted, receipt, saved, stops, server, queue, launch, captured, alive, overdue,
                   started, counters>>

\* _unqueue: the receipt stands, a later pass republishes.
Unqueue ==
    /\ queue' = [queue EXCEPT ![pass.id] = "absent"]
    /\ pass' = IdlePass

WriteRow ==
    /\ server = "up" /\ pass.pc = "row"
    /\ \/ /\ table' = [(IF table.admitted THEN table ELSE Advance(table, pass.id))
                         EXCEPT !.admitted = TRUE]
          /\ pass' = [pass EXCEPT !.pc = "snapshot"]
          /\ UNCHANGED queue /\ NoFault
       \/ Unqueue /\ UNCHANGED table /\ Fault
    /\ UNCHANGED <<claim, minted, receipt, saved, stops, server, launch, captured, alive, overdue,
                   started, edits, asked>>

WriteSnapshot ==
    /\ server = "up" /\ pass.pc = "snapshot"
    /\ \/ saved' = queue /\ pass' = IdlePass /\ UNCHANGED queue /\ NoFault
       \/ Unqueue /\ UNCHANGED saved /\ Fault
    /\ UNCHANGED <<table, claim, minted, receipt, stops, server, launch, captured, alive, overdue,
                   started, edits, asked>>

-----------------------------------------------------------------------------
(* The launch: _launch_attempt, _commit_launch on the admission lane.      *)

\* The assignment pass picks a row no Stop or result speaks against; one whose marks this
\* process committed, or may have, is tried again from there.
ChooseLaunch(o) ==
    /\ Unlocked /\ launch.pc = "idle"
    /\ queue[o] \in {"queued", "marked"} /\ o \notin stops /\ receipt[o] # "ended"
    /\ launch' = [pc |-> IF queue[o] = "queued" THEN "locate" ELSE "commit", id |-> o,
                  own |-> TRUE, foreign |-> FALSE]
    /\ UNCHANGED <<durable, server, queue, pass, captured, alive, overdue, started, counters>>

\* occurrence_row, and the locator snapshot.
Locate ==
    /\ Unlocked /\ launch.pc = "locate"
    /\ \/ /\ launch' = [launch EXCEPT !.pc = "commit", !.foreign = ~table.gone /\ table.occ # launch.id]
          /\ saved' = queue /\ NoFault
       \/ launch' = IdleLaunch /\ UNCHANGED saved /\ Fault
    /\ UNCHANGED <<table, claim, minted, receipt, stops, server, queue, pass, captured, alive, overdue,
                   started, edits, asked>>

\* Mutant: the status of the result is not consulted.
MarksAnything(o) == receipt[o] # "none"

\* dispatch_projection: only a live receipt is marked, and a first handoff needs its own row.
MayMark(o) ==
    /\ receipt[o] \in {"accepted", "possible"}
    /\ launch.foreign => receipt[o] = "possible"

\* The candidate is one object, wherever it is.
Marked(rows) == IF rows[launch.id] \in PendingRow THEN [rows EXCEPT ![launch.id] = "marked"] ELSE rows

\* commit_dispatch_marks takes neither lock.  A commit that may have landed is never
\* replayable; a refused or rolled back one changes nothing.
Commit ==
    /\ server = "up" /\ launch.pc = "commit"
    /\ \/ /\ MayMark(launch.id)
          /\ receipt' = [receipt EXCEPT ![launch.id] = "possible"]
          /\ launch' = [launch EXCEPT !.pc = "claimed"]
          /\ NoFault
       \/ /\ MayMark(launch.id)
          /\ receipt' \in {receipt, [receipt EXCEPT ![launch.id] = "possible"]}
          /\ launch' = IdleLaunch
          /\ Fault
    /\ IF launch.own THEN queue' = Marked(queue) /\ UNCHANGED captured
                     ELSE captured' = Marked(captured) /\ UNCHANGED queue
    /\ UNCHANGED <<table, claim, minted, saved, stops, server, pass, alive, overdue, started,
                   edits, asked>>

CommitRefused ==
    /\ server = "up" /\ launch.pc = "commit"
    /\ IF MayMark(launch.id) THEN Fault ELSE NoFault
    /\ launch' = IdleLaunch
    /\ UNCHANGED <<durable, server, queue, pass, captured, alive, overdue, started, edits, asked>>

\* The snapshot says possible before anything is sent.
SaveMark ==
    /\ Unlocked /\ launch.pc = "claimed"
    /\ \/ launch' = [launch EXCEPT !.pc = "put"] /\ saved' = queue /\ NoFault
       \/ launch' = IdleLaunch /\ UNCHANGED saved /\ Fault
    /\ UNCHANGED <<table, claim, minted, receipt, stops, server, queue, pass, captured, alive, overdue,
                   started, edits, asked>>

\* The claim on the row is still held and the schedule's row is this occurrence's; a schedule
\* that is gone does not hold its accepted task back.
MayPut == launch.own /\ (table.gone \/ table.occ = launch.id)

\* mark_occurrence_row
MarkedRow == IF table.gone THEN table ELSE [table EXCEPT !.possible = TRUE]

\* The put, under both locks, after the mark of the schedule's row.
Put ==
    /\ Unlocked /\ launch.pc = "put" /\ MayPut
    /\ launch' = IdleLaunch
    /\ table' = MarkedRow
    /\ queue' = [queue EXCEPT ![launch.id] = "running"]
    /\ alive' = alive \cup {launch.id}
    /\ started' = [started EXCEPT ![launch.id] = @ + 1]
    /\ UNCHANGED <<claim, minted, receipt, stops, server, pass, captured, overdue, edits, asked>>
    /\ Persist

\* Nothing is sent when the claim was lost, or the mark was not written or not read back.
PutRefused ==
    /\ Unlocked /\ launch.pc = "put"
    /\ \/ ~MayPut /\ UNCHANGED table /\ NoFault
       \/ MayPut /\ table' \in {table, MarkedRow} /\ Fault
    /\ launch' = IdleLaunch
    /\ UNCHANGED <<claim, minted, receipt, saved, stops, server, queue, pass, captured, alive, overdue,
                   started, edits, asked>>

\* The worker stores its result; then its task_done takes the row out.
Complete(o) ==
    /\ server = "up" /\ o \in alive
    /\ receipt[o] # "ended"
    /\ receipt' = [receipt EXCEPT ![o] = "ended"]
    /\ UNCHANGED <<table, claim, minted, saved, stops, server, process, started, counters>>

Retire(o) ==
    /\ Unlocked /\ queue[o] = "running" /\ receipt[o] = "ended"
    /\ queue' = [queue EXCEPT ![o] = "absent"]
    /\ alive' = alive \ {o}
    /\ UNCHANGED <<table, claim, minted, receipt, stops, server, pass, launch, captured, overdue,
                   started, edits, asked>>
    /\ Persist

-----------------------------------------------------------------------------
(* A hard bound: enforce_task_timeouts, then the background reaper.        *)

\* The deadline or the ceiling of a running task has passed and no Stop owns it: its row is
\* taken out at once, its process lives until the reaper has killed it.
Timeout(o) ==
    /\ Unlocked /\ queue[o] = "running" /\ o \notin stops
    /\ queue' = [queue EXCEPT ![o] = "absent"]
    /\ overdue' = overdue \cup {o}
    /\ UNCHANGED <<table, claim, minted, receipt, stops, server, pass, launch, captured, alive,
                   started, edits, asked>>
    /\ Persist

\* reap_timed_out_task: the process is confirmed dead, which may never be, ...
Kill(o) ==
    /\ server = "up" /\ o \in overdue \cap alive
    /\ alive' = alive \ {o}
    /\ UNCHANGED <<durable, server, queue, pass, launch, captured, overdue, started, counters>>

\* ... its end is stored, unless it has one, ...
Publish(o) ==
    /\ server = "up" /\ o \in overdue \ alive /\ receipt[o] # "ended"
    /\ receipt' = [receipt EXCEPT ![o] = "ended"]
    /\ UNCHANGED <<table, claim, minted, saved, stops, server, process, started, counters>>

\* ... and its slot gets a new process, even where that write failed: the snapshot follows.
Respawn(o) ==
    /\ Unlocked /\ o \in overdue \ alive
    /\ overdue' = overdue \ {o}
    /\ UNCHANGED <<table, claim, minted, receipt, stops, server, queue, pass, launch, captured, alive,
                   started, edits, asked>>
    /\ \/ receipt[o] = "ended" /\ Persist
       \/ receipt[o] # "ended" /\ saved' = queue /\ Fault

-----------------------------------------------------------------------------
(* The owner: edits, Stops and Resume.                                     *)

Edit(t) ==
    /\ Unlocked /\ ~table.gone
    /\ edits < MaxEdit /\ edits' = edits + 1
    /\ table' = t
    /\ UNCHANGED <<claim, minted, receipt, saved, stops, server, process, started, asked, faults>>

\* patch_scheduled_task (a new timing moves the next point), lifecycle disable, delete, restore.
ChangeSchedule ==
    \/ ~table.withdrawn /\ \E next \in {table.next, table.next + 1} :
                               Edit([table EXCEPT !.def = @ + 1, !.next = next])
    \/ table.enabled /\ Edit([table EXCEPT !.enabled = FALSE])
    \/ ~table.withdrawn /\ Edit([table EXCEPT !.enabled = FALSE, !.withdrawn = TRUE])
    \/ ~table.enabled /\ Edit([table EXCEPT !.enabled = TRUE, !.withdrawn = FALSE])

RequestStop(o) ==
    /\ server = "up" /\ receipt[o] \in {"accepted", "possible"} /\ o \notin stops
    /\ asked < MaxStop /\ asked' = asked + 1
    /\ stops' = stops \cup {o}
    /\ UNCHANGED <<table, claim, minted, receipt, saved, server, process, started, edits, faults>>

\* cancel_task_custody: a pending row is popped, and with it a launch's claim; a running one
\* stays until its worker is dead.
Capture(o) ==
    /\ Unlocked /\ o \in stops /\ captured[o] = "none"
    /\ captured' = [captured EXCEPT ![o] = IF Live(o) THEN queue[o] ELSE "miss"]
    /\ queue' = IF queue[o] \in PendingRow THEN [queue EXCEPT ![o] = "absent"] ELSE queue
    /\ launch' = IF launch.id = o THEN [launch EXCEPT !.own = FALSE] ELSE launch
    /\ UNCHANGED <<durable, server, pass, alive, overdue, started, counters>>

\* _finish_captured_pending, _finalize_cancel_intent_on_miss, and _finish_captured_running with
\* its worker killed: the result is written (a terminal one stands).  A miss kills nobody, not
\* even the process a hard bound has left behind; ...
WriteCancelled(o) ==
    /\ server = "up" /\ captured[o] \in PendingRow \cup {"miss", "running"}
    /\ alive' = IF captured[o] = "running" THEN alive \ {o} ELSE alive
    /\ receipt' = [receipt EXCEPT ![o] = "ended"]
    /\ captured' = [captured EXCEPT ![o] = IF @ = "miss" THEN "missed" ELSE "written"]
    /\ UNCHANGED <<table, claim, minted, saved, stops, server, queue, pass, launch, overdue,
                   started, counters>>

\* ... the intent is settled, ...
SettleStop(o) ==
    /\ server = "up" /\ captured[o] \in {"written", "missed"}
    /\ stops' = stops \ {o}
    /\ captured' = [captured EXCEPT ![o] = IF @ = "missed" THEN "none" ELSE "settled"]
    /\ UNCHANGED <<table, claim, minted, receipt, saved, server, queue, pass, launch, alive,
                   overdue, started, counters>>

\* ... a RUNNING row is taken out, and the snapshot follows.
SaveStop(o) ==
    /\ Unlocked /\ captured[o] = "settled"
    /\ queue' = IF queue[o] = "running" THEN [queue EXCEPT ![o] = "absent"] ELSE queue
    /\ captured' = [captured EXCEPT ![o] = "none"]
    /\ UNCHANGED <<table, claim, minted, receipt, stops, server, pass, launch, alive, overdue,
                   started, edits, asked>>
    /\ Persist

\* The write failed: the row goes back (beside one the scheduler republished meanwhile, which
\* counts as the same row), with the claim its launch had on it.
ReturnCaptured(o) ==
    /\ Unlocked /\ captured[o] \in PendingRow
    /\ Fault
    /\ queue' = [queue EXCEPT ![o] = captured[o]]
    /\ launch' = IF launch.id = o THEN [launch EXCEPT !.own = TRUE] ELSE launch
    /\ captured' = [captured EXCEPT ![o] = "none"]
    /\ UNCHANGED <<durable, server, pass, alive, overdue, started, edits, asked>>

\* _drop_cancelled_pending, ahead of every assignment: a row with an open Stop nobody has in
\* custody is cancelled, one whose task ended is dropped.
DropPending(o) ==
    /\ Unlocked /\ queue[o] \in PendingRow
    /\ \/ o \in stops /\ captured[o] = "none" /\ stops' = stops \ {o}
       \/ o \notin stops /\ receipt[o] = "ended" /\ UNCHANGED stops
    /\ receipt' = [receipt EXCEPT ![o] = "ended"]
    /\ queue' = [queue EXCEPT ![o] = "absent"]
    /\ launch' = IF launch.id = o THEN [launch EXCEPT !.own = FALSE] ELSE launch
    /\ UNCHANGED <<table, claim, minted, saved, server, pass, captured, alive, overdue, started,
                   counters>>

\* Resume of a held row whose receipt still proves that it never started.
Resume(o) ==
    /\ Unlocked /\ queue[o] = "held" /\ receipt[o] = "accepted"
    /\ ~(table.occ = o /\ table.possible)
    /\ queue' = [queue EXCEPT ![o] = "queued"]
    /\ UNCHANGED <<table, claim, minted, receipt, stops, server, pass, launch, captured, alive, overdue,
                   started, edits, asked>>
    /\ Persist

-----------------------------------------------------------------------------
(* Death and return of the server.                                         *)

Gone ==
    /\ queue' = [o \in Occurrence |-> "absent"]
    /\ captured' = [o \in Occurrence |-> "none"]
    /\ pass' = IdlePass /\ launch' = IdleLaunch
    /\ alive' = {} /\ overdue' = {}

Crash ==
    /\ server = "up" /\ Fault
    /\ server' = "crashed" /\ Gone
    /\ UNCHANGED <<durable, started, edits, asked>>

\* A planned restart names the queue it returns; it waits for a launch in flight, but not for ever.
PlannedRestart ==
    /\ Unlocked /\ Fault
    /\ server' = "returning" /\ Gone
    /\ saved' = queue
    /\ UNCHANGED <<table, claim, minted, receipt, stops, started, edits, asked>>

\* Mutant: the snapshot's word is taken for the row.
TrustsSnapshot(o) == IF saved[o] \in PendingRow /\ receipt[o] # "ended" THEN "queued" ELSE "absent"

\* _retain_snapshot_pending, _restore_reading: the receipt decides, whatever the snapshot says.
Restored(o) ==
    IF saved[o] \notin PendingRow \/ receipt[o] \in {"none", "ended"} \/ o \in stops THEN "absent"
    ELSE IF receipt[o] = "possible" \/ (table.occ = o /\ table.possible) THEN "unknown"
    ELSE IF server = "returning" /\ saved[o] # "held" THEN "queued"
    ELSE "held"

\* restore_pending_from_snapshot: what was running is handed to cancellation custody.
Restore ==
    /\ server # "up" /\ server' = "up"
    /\ queue' = [o \in Occurrence |-> Restored(o)]
    /\ stops' = stops \cup {o \in Occurrence : saved[o] = "running" /\ receipt[o] \in {"accepted", "possible"}}
    /\ UNCHANGED <<table, claim, minted, receipt, pass, launch, captured, alive, overdue, started,
                   edits, asked>>
    /\ Persist

-----------------------------------------------------------------------------
\* A schedule is created enabled or not.
Init ==
    /\ \E enabled \in BOOLEAN :
          table = [gone |-> FALSE, withdrawn |-> FALSE, enabled |-> enabled, def |-> 0, next |-> 1,
                   occ |-> NoOccurrence, admitted |-> FALSE, possible |-> FALSE]
    /\ claim = [o \in Occurrence |-> [due |-> 0, def |-> 0]]
    /\ minted = 0
    /\ receipt = [o \in Occurrence |-> "none"]
    /\ queue = [o \in Occurrence |-> "absent"]
    /\ saved = queue
    /\ stops = {} /\ server = "up"
    /\ pass = IdlePass /\ launch = IdleLaunch
    /\ captured = [o \in Occurrence |-> "none"]
    /\ alive = {} /\ overdue = {} /\ started = [o \in Occurrence |-> 0]
    /\ edits = 0 /\ asked = 0 /\ faults = 0

SchedulerPass == TakeUp \/ ClaimDue \/ Tidy \/ Admit \/ Forgo \/ WriteRow \/ WriteSnapshot
LaunchStep == Locate \/ Commit \/ CommitRefused \/ SaveMark \/ Put \/ PutRefused
Overdue(o) == Timeout(o) \/ Kill(o) \/ Publish(o) \/ Respawn(o)
Custody(o) ==
    Capture(o) \/ WriteCancelled(o) \/ SettleStop(o) \/ SaveStop(o) \/ ReturnCaptured(o) \/ DropPending(o)

Next ==
    \/ SchedulerPass \/ LaunchStep \/ ChangeSchedule
    \/ Crash \/ PlannedRestart \/ Restore
    \/ \E o \in Occurrence :
          ChooseLaunch(o) \/ Complete(o) \/ Retire(o) \/ Overdue(o) \/ RequestStop(o) \/ Custody(o) \/ Resume(o)

Spec == Init /\ [][Next]_vars

\* Passes, launches and custody go on and a restarted server restores; an admission that is
\* possible again and again is not put off for ever, nor is a launch.  The owner, the clock, the
\* worker and the reaper are free.
Fairness ==
    /\ WF_vars(TakeUp) /\ WF_vars(WriteRow) /\ WF_vars(WriteSnapshot) /\ SF_vars(Admit)
    /\ WF_vars(LaunchStep) /\ SF_vars(Put)
    /\ \A o \in Occurrence : WF_vars(Custody(o)) /\ SF_vars(ChooseLaunch(o))
    /\ WF_vars(Restore)

FairSpec == Spec /\ Fairness

-----------------------------------------------------------------------------
(* Properties.                                                             *)

\* Every variable has its type; points advance one at a time.
ScheduleTypeOK ==
    /\ table \in [gone : BOOLEAN, withdrawn : BOOLEAN, enabled : BOOLEAN, def : 0..MaxEdit,
                  next : 1..(MaxOccurrence + MaxEdit + 1), occ : 0..MaxOccurrence,
                  admitted : BOOLEAN, possible : BOOLEAN]
    /\ claim \in [Occurrence -> [due : 0..(MaxOccurrence + MaxEdit + 1), def : 0..MaxEdit]]
    /\ minted \in 0..MaxOccurrence
    /\ receipt \in [Occurrence -> {"none", "accepted", "possible", "ended"}]
    /\ queue \in [Occurrence -> QueueRow] /\ saved \in [Occurrence -> QueueRow]
    /\ stops \subseteq Occurrence /\ alive \subseteq Occurrence /\ overdue \subseteq Occurrence
    /\ server \in {"up", "crashed", "returning"}
    /\ pass \in [pc : {"idle", "prepared", "row", "snapshot"}, id : 0..MaxOccurrence, stored : BOOLEAN]
    /\ launch \in [pc : {"idle", "locate", "commit", "claimed", "put"}, id : 0..MaxOccurrence,
                   own : BOOLEAN, foreign : BOOLEAN]
    /\ captured \in [Occurrence -> PendingRow \cup {"none", "miss", "running", "written", "missed", "settled"}]
    /\ started \in [Occurrence -> Nat]
    /\ edits \in 0..MaxEdit /\ asked \in 0..MaxStop /\ faults \in 0..MaxFault

\* No occurrence is handed to a worker twice, whatever write failed and wherever the server
\* died (dispatch=possible before the put, _restore_reading after it).
StartedOnce == \A o \in Occurrence : started[o] <= 1

\* A firing point becomes at most one accepted root (_advance, _write_receipt).
OnePointOneRoot ==
    \A o, p \in Occurrence :
        receipt[o] # "none" /\ receipt[p] # "none" /\ claim[o].due = claim[p].due => o = p

\* Accepted work that has not reached a worker stays on the schedule's row, through edits,
\* withdrawal and failed writes: nothing else would republish it (reconcile, _remove_withdrawn).
AcceptedIsOwned ==
    \A o \in Occurrence : receipt[o] = "accepted" => ~table.gone /\ table.occ = o

\* Two runs of the schedule overlap only while the earlier one, struck by a hard bound, is the
\* reaper's to kill: the scheduler asks PENDING and RUNNING alone (_schedule_running_or_queued,
\* enforce_task_timeouts).
OnlyOverdueRunsOverlap == \A o, p \in alive : o < p => o \in overdue

\* A result that is terminal stays so, and its task is not started, even when the scheduler
\* republished it while a Stop had it in custody (dispatch_projection, _drop_cancelled_pending).
EndedIsFinal ==
    [][\A o \in Occurrence : receipt[o] = "ended" =>
          receipt'[o] = "ended" /\ started'[o] = started[o]]_vars

\* The row's mark landed but was not read back, and the scheduler has retired the occurrence
\* since: the row no longer lets its launch through.
Overtaken(o) == queue[o] = "marked" /\ table.occ # o

\* Accepted work starts or ends, or is held for its owner: no failed write, lost launch or
\* restart but that one leaves it behind (reconcile, admit, _launch_attempt).
AcceptedIsSettled ==
    \A o \in Occurrence :
        receipt[o] = "accepted" ~>
            \/ started[o] > 0 \/ receipt[o] = "ended"
            \/ queue[o] \in {"held", "unknown"} \/ Overtaken(o)
=============================================================================
