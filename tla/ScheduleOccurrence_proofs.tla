----------------------- MODULE ScheduleOccurrence_proofs -----------------------
(***************************************************************************)
(* The safety properties of ScheduleOccurrence, for every bound: how many  *)
(* points fall due, how often the schedule is edited and its tasks         *)
(* stopped, how many writes fail and how often the server dies.            *)
(* ScheduleInv, the conjunction of the types and ten parts, is inductive. *)
(***************************************************************************)
EXTENDS ScheduleOccurrence, TLAPS

\* A row the assignment pass or the owner may still bring to a first launch.
Fresh == {"queued", "marked", "held"}
Handed == {"possible", "ended"}

LaunchActive == launch.pc # "idle"
LaunchOwns == LaunchActive /\ launch.own

\* The schedule's row names the latest occurrence or none.  Its next point lies past that of an
\* admitted occurrence, and its mark is put only beside a receipt that says possible.
RowInv ==
    /\ table.occ \in {NoOccurrence, minted}
    /\ table.occ # NoOccurrence => claim[table.occ].due <= table.next
    /\ table.admitted => table.occ # NoOccurrence /\ claim[table.occ].due < table.next
    /\ table.possible => table.occ # NoOccurrence /\ receipt[table.occ] \in Handed
    /\ table.def <= edits
    /\ table.next <= minted + edits + 1
    /\ table.occ # NoOccurrence /\ table.next = claim[table.occ].due => table.next <= minted + edits

\* The pass writes under the locks, so what it admitted is still the row's, queued, and no
\* launch has it.
PassInv ==
    /\ pass.pc # "idle" => pass.id \in 1..minted
    /\ pass.pc \in {"row", "snapshot"} =>
          /\ pass.id = table.occ /\ ~table.gone
          /\ queue[pass.id] \in {"queued", "marked"}
          /\ ~(LaunchOwns /\ launch.id = pass.id)

\* An occurrence with a receipt that is not on the row was claimed for a point the row is past.
ReceiptInv ==
    /\ AcceptedIsOwned /\ OnePointOneRoot
    /\ \A o \in Occurrence : receipt[o] # "none" =>
          /\ o <= minted
          /\ o # table.occ =>
                /\ claim[o].due < table.next
                /\ table.occ # NoOccurrence => claim[o].due < claim[table.occ].due

\* What is queued, stopped or in custody has a receipt.
BornInv ==
    \A o \in Occurrence :
        (queue[o] # "absent" \/ captured[o] # "none" \/ o \in stops) => receipt[o] # "none"

\* A task that was put into a worker is never a fresh row again.
StartedInv ==
    \A o \in Occurrence :
        /\ started[o] \in {0, 1}
        /\ started[o] = 1 =>
              /\ receipt[o] \in Handed
              /\ queue[o] \notin Fresh /\ captured[o] \notin Fresh
              /\ ~(LaunchActive /\ launch.id = o)

\* Custody of a task is covered by its Stop until its end is written, and ends nothing twice.
CustodyInv ==
    \A o \in Occurrence :
        /\ captured[o] \in PendingRow => o \in stops /\ receipt[o] # "ended"
        /\ captured[o] \in {"miss", "running"} => o \in stops
        /\ captured[o] \in {"written", "missed"} => o \in stops /\ receipt[o] = "ended"
        /\ captured[o] = "written" => o \notin alive
        /\ captured[o] = "settled" => o \notin stops /\ receipt[o] = "ended" /\ o \notin alive
        /\ o \in stops /\ captured[o] = "none" /\ receipt[o] = "ended" => queue[o] \notin PendingRow

\* A launch that still owns its row has it queued and may start it, one that does not may get
\* it back from custody; while a launch is under way only
\* earlier runs are, all of them overdue.
LaunchInv ==
    /\ LaunchActive => launch.id \in 1..minted /\ \A o \in alive : o \in overdue /\ o <= launch.id
    /\ launch.pc \in {"claimed", "put"} => receipt[launch.id] \in Handed
    /\ LaunchOwns =>
          /\ queue[launch.id] \in {"queued", "marked"}
          /\ captured[launch.id] = "none"
          /\ receipt[launch.id] # "ended"
    /\ LaunchActive /\ launch.id # minted => receipt[minted] # "possible"
    /\ LaunchActive /\ captured[launch.id] \in PendingRow => captured[launch.id] \in {"queued", "marked"}
    /\ LaunchActive /\ ~launch.own /\ captured[launch.id] = "none" => receipt[launch.id] = "ended"

\* A process no hard bound has struck runs a RUNNING row.  One that outlived its turn (its row
\* came back from custody after the schedule was gone) leaves nothing else to run, and an older
\* row that came back is stopped or ended.
RunInv ==
    /\ OnlyOverdueRunsOverlap
    /\ \A o \in alive : o \notin overdue =>
          /\ queue[o] = "running" /\ started[o] = 1 /\ captured[o] \in {"none", "running"}
          /\ o # minted => table.gone /\ receipt[minted] \in {"none", "ended"}
    /\ \A o \in Occurrence :
          o # minted /\ queue[o] \in Fresh => o \in stops \/ receipt[o] = "ended"

\* A RUNNING row is that of a task that was started.  So is what a hard bound has struck, which
\* is in no row and in no custody of one.
OverdueInv ==
    /\ \A o \in Occurrence : queue[o] = "running" =>
          started[o] = 1 /\ captured[o] \in {"none", "running", "written", "settled"}
    /\ \A o \in overdue :
          started[o] = 1 /\ queue[o] = "absent" /\ captured[o] \in {"none", "miss", "missed", "settled"}

\* A server that is down does nothing.
DownInv ==
    server # "up" => pass.pc = "idle" /\ launch.pc = "idle" /\ alive = {} /\ overdue = {}

ScheduleInv ==
    /\ ScheduleTypeOK /\ RowInv /\ PassInv /\ ReceiptInv /\ BornInv /\ StartedInv /\ CustodyInv
    /\ LaunchInv /\ RunInv /\ OverdueInv /\ DownInv

-----------------------------------------------------------------------------
(* The schedule's row.                                                     *)

\* The rows of scheduled_tasks.json.
TableRow == [gone : BOOLEAN, withdrawn : BOOLEAN, enabled : BOOLEAN, def : 0..MaxEdit,
             next : 1..(MaxOccurrence + MaxEdit + 1), occ : 0..MaxOccurrence,
             admitted : BOOLEAN, possible : BOOLEAN]

\* What DiscardClaim leaves of a row.
LEMMA DiscardFields ==
    ASSUME NEW t \in TableRow
    PROVE  /\ DiscardClaim(t) \in TableRow
           /\ DiscardClaim(t).occ = NoOccurrence
           /\ ~DiscardClaim(t).admitted /\ ~DiscardClaim(t).possible
           /\ DiscardClaim(t).next = t.next /\ DiscardClaim(t).def = t.def
           /\ DiscardClaim(t).gone = t.gone
<1>1. 0 \in 0..MaxOccurrence
  BY ScheduleBoundAssumption
<1>2. DiscardClaim(t) \in TableRow
  BY <1>1 DEF DiscardClaim, TableRow, NoOccurrence
<1> QED BY <1>2 DEF DiscardClaim, TableRow, NoOccurrence

\* Advance moves the next point of a row past its occurrence's and nothing else.
LEMMA AdvanceFields ==
    ASSUME NEW t \in TableRow, NEW o \in Occurrence,
           t.next = claim[o].due => t.next < MaxOccurrence + MaxEdit + 1
    PROVE  /\ Advance(t, o) \in TableRow
           /\ Advance(t, o).next = IF t.next = claim[o].due THEN t.next + 1 ELSE t.next
           /\ Advance(t, o).occ = t.occ /\ Advance(t, o).def = t.def
           /\ Advance(t, o).gone = t.gone
           /\ Advance(t, o).admitted = t.admitted /\ Advance(t, o).possible = t.possible
<1>1. t.next + 1 \in 1..(MaxOccurrence + MaxEdit + 1) \/ t.next # claim[o].due
  BY ScheduleBoundAssumption DEF TableRow
<1> QED BY <1>1 DEF Advance, TableRow

\* The row an occurrence has left: its point is passed when the occurrence is settled.
LEMMA ClearedFields ==
    ASSUME ScheduleTypeOK, RowInv
    PROVE  /\ Cleared \in TableRow
           /\ Cleared.occ = NoOccurrence /\ ~Cleared.admitted /\ ~Cleared.possible
           /\ Cleared.def = table.def /\ Cleared.gone = table.gone
           /\ Cleared.next >= table.next
           /\ Cleared.next <= minted + edits + 1
           /\ table.occ # NoOccurrence /\ Reconcile(table.occ) = "settled" =>
                 claim[table.occ].due < Cleared.next
<1> USE ScheduleBoundAssumption
<1>1. table \in TableRow /\ minted \in 0..MaxOccurrence /\ edits \in 0..MaxEdit
  BY DEF ScheduleTypeOK, TableRow
<1>2. CASE table.occ = NoOccurrence
  BY <1>1, <1>2 DEF Cleared, RowInv, TableRow
<1>3. CASE table.occ # NoOccurrence /\ Reconcile(table.occ) # "settled"
  <2>1. Cleared = DiscardClaim(table)
    BY <1>3 DEF Cleared
  <2> QED BY <1>1, <1>3, <2>1, DiscardFields DEF RowInv, TableRow
<1>4. CASE table.occ # NoOccurrence /\ Reconcile(table.occ) = "settled" /\ table.admitted
  <2>1. Cleared = DiscardClaim(table)
    BY <1>4 DEF Cleared, Settle
  <2> QED BY <1>1, <1>4, <2>1, DiscardFields DEF RowInv, TableRow
<1>5. CASE table.occ # NoOccurrence /\ Reconcile(table.occ) = "settled" /\ ~table.admitted
  <2> DEFINE d == DiscardClaim(table)
  <2>1. Cleared = Advance(d, table.occ)
    BY <1>5 DEF Cleared, Settle
  <2>2. d \in TableRow /\ d.next = table.next /\ d.occ = NoOccurrence /\ ~d.admitted /\ ~d.possible
        /\ d.def = table.def /\ d.gone = table.gone
    BY <1>1, DiscardFields
  <2>3. /\ claim[table.occ].due <= table.next
        /\ table.next <= minted + edits + 1
        /\ table.next = claim[table.occ].due => table.next <= minted + edits
        /\ table.next \in Nat /\ claim[table.occ].due \in Nat /\ table.occ \in Occurrence
    BY <1>1, <1>5 DEF RowInv, ScheduleTypeOK, TableRow, Occurrence, NoOccurrence
  <2> HIDE DEF d
  <2> DEFINE a == Advance(d, table.occ)
  <2>4. d.next = claim[table.occ].due => d.next < MaxOccurrence + MaxEdit + 1
    BY <1>1, <2>2, <2>3
  <2>5. /\ a \in TableRow
        /\ a.next = IF table.next = claim[table.occ].due THEN table.next + 1 ELSE table.next
        /\ a.occ = d.occ /\ a.def = d.def /\ a.gone = d.gone
        /\ a.admitted = d.admitted /\ a.possible = d.possible
    BY <2>2, <2>3, <2>4, AdvanceFields
  <2>6. Cleared = a
    BY <2>1
  <2> HIDE DEF a
  <2> QED BY <1>1, <2>2, <2>3, <2>5, <2>6
<1> QED BY <1>2, <1>3, <1>4, <1>5

-----------------------------------------------------------------------------
(* Types.                                                                  *)

PassRow == [pc : {"idle", "prepared", "row", "snapshot"}, id : 0..MaxOccurrence, stored : BOOLEAN]
LaunchRow == [pc : {"idle", "locate", "commit", "claimed", "put"}, id : 0..MaxOccurrence,
              own : BOOLEAN, foreign : BOOLEAN]

\* The records of the state, by their names.
LEMMA Typed ==
    ScheduleTypeOK => table \in TableRow /\ pass \in PassRow /\ launch \in LaunchRow
BY DEF ScheduleTypeOK, TableRow, PassRow, LaunchRow

LEMMA IdleTyped == IdlePass \in PassRow /\ IdleLaunch \in LaunchRow
<1>1. 0 \in 0..MaxOccurrence
  BY ScheduleBoundAssumption
<1> QED BY <1>1 DEF IdlePass, IdleLaunch, PassRow, LaunchRow, NoOccurrence

\* What the row, the pass and the launch name is an occurrence.
LEMMA Named ==
    ASSUME ScheduleTypeOK, RowInv, PassInv, LaunchInv
    PROVE  /\ 1..minted \subseteq Occurrence
           /\ table.occ # NoOccurrence => table.occ = minted /\ table.occ \in Occurrence
           /\ pass.pc # "idle" => pass.id \in Occurrence
           /\ LaunchActive => launch.id \in Occurrence
<1>1. minted \in 0..MaxOccurrence
  BY DEF ScheduleTypeOK
<1>2. 1..minted \subseteq Occurrence
  BY <1>1, ScheduleBoundAssumption DEF Occurrence
<1>3. table.occ # NoOccurrence => table.occ = minted /\ table.occ \in Occurrence
  BY <1>1, ScheduleBoundAssumption DEF RowInv, NoOccurrence, Occurrence
<1> QED BY <1>2, <1>3 DEF PassInv, LaunchInv

\* A write that fails counts, one that does not leaves the count; both are in bounds.
LEMMA FaultTyped ==
    ASSUME ScheduleTypeOK, Fault \/ NoFault
    PROVE  faults' \in 0..MaxFault
BY ScheduleBoundAssumption DEF ScheduleTypeOK, Fault, NoFault

LEMMA PersistTyped ==
    ASSUME ScheduleTypeOK, queue' \in [Occurrence -> QueueRow], Persist
    PROVE  saved' \in [Occurrence -> QueueRow] /\ faults' \in 0..MaxFault
<1>1. Fault \/ NoFault
  BY DEF Persist
<1> QED BY <1>1, FaultTyped DEF ScheduleTypeOK, Persist

\* A step that leaves a variable alone keeps its type: what a proof of the others needs.
LEMMA TypedNext ==
    ASSUME ScheduleTypeOK,
           table' \in TableRow, pass' \in PassRow, launch' \in LaunchRow,
           claim' \in [Occurrence -> [due : 0..(MaxOccurrence + MaxEdit + 1), def : 0..MaxEdit]],
           minted' \in 0..MaxOccurrence,
           receipt' \in [Occurrence -> {"none", "accepted", "possible", "ended"}],
           queue' \in [Occurrence -> QueueRow], saved' \in [Occurrence -> QueueRow],
           stops' \subseteq Occurrence, alive' \subseteq Occurrence, overdue' \subseteq Occurrence,
           server' \in {"up", "crashed", "returning"},
           captured' \in [Occurrence -> PendingRow \cup {"none", "miss", "running", "written", "missed", "settled"}],
           started' \in [Occurrence -> Nat],
           edits' \in 0..MaxEdit, asked' \in 0..MaxStop, faults' \in 0..MaxFault
    PROVE  ScheduleTypeOK'
BY DEF ScheduleTypeOK, TableRow, PassRow, LaunchRow

LEMMA TypeTakeUp ==
    ASSUME ScheduleInv, TakeUp
    PROVE  ScheduleTypeOK'
<1> USE ScheduleBoundAssumption
<1>1. ScheduleTypeOK /\ RowInv /\ PassInv /\ LaunchInv
  BY DEF ScheduleInv
<1>2. pass' \in PassRow
  BY <1>1, IdleTyped, Typed DEF PassRow, TakeUp, Prepare, ScheduleTypeOK, QueueRow, PendingRow, NoOccurrence
<1>3. queue' \in [Occurrence -> QueueRow]
  BY <1>1 DEF TakeUp, ScheduleTypeOK
<1>4. saved' \in [Occurrence -> QueueRow] /\ faults' \in 0..MaxFault
  BY <1>1, <1>2, <1>3, PersistTyped DEF TakeUp
<1> QED
  BY <1>1, <1>2, <1>3, <1>4, Typed, TypedNext DEF TakeUp, Prepare, durable, process, counters, ScheduleTypeOK

LEMMA TypeClaimDue ==
    ASSUME ScheduleInv, ClaimDue
    PROVE  ScheduleTypeOK'
<1> USE ScheduleBoundAssumption
<1>1. ScheduleTypeOK /\ RowInv /\ Cleared \in TableRow
  BY ClearedFields DEF ScheduleInv
<1>2. minted' \in 1..MaxOccurrence /\ minted' \in 0..MaxOccurrence /\ minted' \in Occurrence
  BY <1>1 DEF ClaimDue, ScheduleTypeOK, Occurrence
<1>3. claim' \in [Occurrence -> [due : 0..(MaxOccurrence + MaxEdit + 1), def : 0..MaxEdit]]
  <2>1. [due |-> Cleared.next, def |-> Cleared.def]
          \in [due : 0..(MaxOccurrence + MaxEdit + 1), def : 0..MaxEdit]
    BY <1>1 DEF TableRow
  <2> QED BY <1>1, <1>2, <2>1 DEF ClaimDue, ScheduleTypeOK
<1>4. table' \in TableRow
  BY <1>1, <1>2 DEF ClaimDue, TableRow
<1>5. pass' \in PassRow
  BY <1>2 DEF ClaimDue, Prepare, PassRow
<1>6. queue' \in [Occurrence -> QueueRow]
  BY <1>1 DEF ClaimDue, ScheduleTypeOK
<1>7. saved' \in [Occurrence -> QueueRow] /\ faults' \in 0..MaxFault
  BY <1>1, <1>6, PersistTyped DEF ClaimDue
<1> QED
  BY <1>1, <1>2, <1>3, <1>4, <1>5, <1>6, <1>7, Typed, TypedNext DEF ClaimDue, ScheduleTypeOK

LEMMA TypeTidy ==
    ASSUME ScheduleInv, Tidy
    PROVE  ScheduleTypeOK'
<1> USE ScheduleBoundAssumption
<1>1. ScheduleTypeOK /\ RowInv /\ PassInv /\ LaunchInv
  BY DEF ScheduleInv
<1>2. table' \in TableRow
  <2>1. Cleared \in TableRow
    BY <1>1, ClearedFields
  <2>2. [Cleared EXCEPT !.gone = TRUE] \in TableRow
    BY <2>1 DEF TableRow
  <2> QED BY <2>1, <2>2 DEF Tidy
<1>3. queue' \in [Occurrence -> QueueRow]
  BY <1>1 DEF Tidy, ScheduleTypeOK
<1>4. saved' \in [Occurrence -> QueueRow] /\ faults' \in 0..MaxFault
  BY <1>1, <1>2, <1>3, PersistTyped DEF Tidy
<1> QED
  BY <1>1, <1>2, <1>3, <1>4, Typed, TypedNext DEF Tidy, durable, process, counters, ScheduleTypeOK

LEMMA TypeAdmit ==
    ASSUME ScheduleInv, Admit
    PROVE  ScheduleTypeOK'
<1> USE ScheduleBoundAssumption
<1>1. ScheduleTypeOK /\ RowInv /\ PassInv /\ LaunchInv
  BY DEF ScheduleInv
<1>2. queue' \in [Occurrence -> QueueRow]
  BY <1>1 DEF Admit, ScheduleTypeOK, QueueRow, PendingRow, NoOccurrence
<1>3. receipt' \in [Occurrence -> {"none", "accepted", "possible", "ended"}]
  BY <1>1 DEF Admit, ScheduleTypeOK, QueueRow, PendingRow, NoOccurrence
<1>4. pass' \in PassRow
  BY <1>1, IdleTyped, Typed DEF PassRow, Admit, ScheduleTypeOK, QueueRow, PendingRow, NoOccurrence
<1>5. faults' \in 0..MaxFault
  BY <1>1, FaultTyped DEF Admit
<1> QED
  BY <1>1, <1>2, <1>3, <1>4, <1>5, Typed, TypedNext DEF Admit, durable, process, counters, ScheduleTypeOK

LEMMA TypeForgo ==
    ASSUME ScheduleInv, Forgo
    PROVE  ScheduleTypeOK'
<1> USE ScheduleBoundAssumption
<1>1. ScheduleTypeOK /\ RowInv /\ PassInv /\ LaunchInv
  BY DEF ScheduleInv
<1>2. pass' \in PassRow
  BY <1>1, IdleTyped, Typed DEF PassRow, Forgo, ScheduleTypeOK, QueueRow, PendingRow, NoOccurrence
<1>3. table' \in TableRow
  BY <1>1, Typed, ClearedFields, DiscardFields DEF TableRow, MarkedRow, Forgo, ScheduleTypeOK, QueueRow, PendingRow, NoOccurrence
<1> QED
  BY <1>1, <1>2, <1>3, Typed, TypedNext DEF Forgo, durable, process, counters, ScheduleTypeOK

LEMMA TypeWriteRow ==
    ASSUME ScheduleInv, WriteRow
    PROVE  ScheduleTypeOK'
<1> USE ScheduleBoundAssumption
<1>1. ScheduleTypeOK /\ RowInv /\ PassInv /\ LaunchInv
  BY DEF ScheduleInv
<1>2. table' \in TableRow
  <2>1. table \in TableRow /\ pass.id \in Occurrence /\ pass.id = table.occ
    BY <1>1, Typed, Named DEF PassInv, WriteRow
  <2>2. table.next = claim[table.occ].due => table.next < MaxOccurrence + MaxEdit + 1
    BY <1>1, <2>1 DEF RowInv, ScheduleTypeOK, Occurrence, NoOccurrence
  <2>3. Advance(table, pass.id) \in TableRow
    BY <2>1, <2>2, AdvanceFields
  <2>4. \A t \in TableRow : [t EXCEPT !.admitted = TRUE] \in TableRow
    BY DEF TableRow
  <2> QED BY <2>1, <2>3, <2>4 DEF WriteRow
<1>3. pass' \in PassRow
  BY <1>1, IdleTyped, Typed DEF PassRow, WriteRow, Unqueue, ScheduleTypeOK, QueueRow, PendingRow, NoOccurrence
<1>4. queue' \in [Occurrence -> QueueRow]
  BY <1>1 DEF WriteRow, Unqueue, ScheduleTypeOK, QueueRow, PendingRow, NoOccurrence
<1>5. faults' \in 0..MaxFault
  BY <1>1, FaultTyped DEF WriteRow, Unqueue
<1> QED
  BY <1>1, <1>2, <1>3, <1>4, <1>5, Typed, TypedNext DEF WriteRow, Unqueue, durable, process, counters, ScheduleTypeOK

LEMMA TypeWriteSnapshot ==
    ASSUME ScheduleInv, WriteSnapshot
    PROVE  ScheduleTypeOK'
<1> USE ScheduleBoundAssumption
<1>1. ScheduleTypeOK /\ RowInv /\ PassInv /\ LaunchInv
  BY DEF ScheduleInv
<1>2. saved' \in [Occurrence -> QueueRow]
  BY <1>1 DEF WriteSnapshot, Unqueue, ScheduleTypeOK, QueueRow, PendingRow, NoOccurrence
<1>3. pass' \in PassRow
  BY <1>1, IdleTyped, Typed DEF PassRow, WriteSnapshot, Unqueue, ScheduleTypeOK, QueueRow, PendingRow, NoOccurrence
<1>4. queue' \in [Occurrence -> QueueRow]
  BY <1>1 DEF WriteSnapshot, Unqueue, ScheduleTypeOK, QueueRow, PendingRow, NoOccurrence
<1>5. faults' \in 0..MaxFault
  BY <1>1, FaultTyped DEF WriteSnapshot, Unqueue
<1> QED
  BY <1>1, <1>2, <1>3, <1>4, <1>5, Typed, TypedNext DEF WriteSnapshot, Unqueue, durable, process, counters, ScheduleTypeOK

LEMMA TypeLocate ==
    ASSUME ScheduleInv, Locate
    PROVE  ScheduleTypeOK'
<1> USE ScheduleBoundAssumption
<1>1. ScheduleTypeOK /\ RowInv /\ PassInv /\ LaunchInv
  BY DEF ScheduleInv
<1>2. launch' \in LaunchRow
  <2>1. launch \in LaunchRow /\ IdleLaunch \in LaunchRow
    BY <1>1, Typed, IdleTyped
  <2> DEFINE foreign == ~table.gone /\ table.occ # launch.id
  <2>2. foreign \in BOOLEAN
    OBVIOUS
  <2>3. launch' = [launch EXCEPT !.pc = "commit", !.foreign = foreign] \/ launch' = IdleLaunch
    BY DEF Locate
  <2> HIDE DEF foreign
  <2> QED BY <2>1, <2>2, <2>3 DEF LaunchRow
<1>3. saved' \in [Occurrence -> QueueRow]
  BY <1>1 DEF Locate, ScheduleTypeOK, QueueRow, PendingRow, NoOccurrence
<1>4. faults' \in 0..MaxFault
  BY <1>1, FaultTyped DEF Locate
<1> QED
  BY <1>1, <1>2, <1>3, <1>4, Typed, TypedNext DEF Locate, durable, process, counters, ScheduleTypeOK

LEMMA TypeCommit ==
    ASSUME ScheduleInv, Commit
    PROVE  ScheduleTypeOK'
<1> USE ScheduleBoundAssumption
<1>1. ScheduleTypeOK /\ RowInv /\ PassInv /\ LaunchInv
  BY DEF ScheduleInv
<1>2. receipt' \in [Occurrence -> {"none", "accepted", "possible", "ended"}]
  BY <1>1 DEF Commit, Marked, MayMark, ScheduleTypeOK, QueueRow, PendingRow, NoOccurrence
<1>3. launch' \in LaunchRow
  BY <1>1, IdleTyped, Typed DEF LaunchRow, Commit, Marked, MayMark, ScheduleTypeOK, QueueRow, PendingRow, NoOccurrence
<1>4. queue' \in [Occurrence -> QueueRow]
  BY <1>1 DEF Commit, Marked, MayMark, ScheduleTypeOK, QueueRow, PendingRow, NoOccurrence
<1>5. captured' \in [Occurrence -> PendingRow \cup {"none", "miss", "running", "written", "missed", "settled"}]
  BY <1>1 DEF Commit, Marked, MayMark, ScheduleTypeOK, QueueRow, PendingRow, NoOccurrence
<1>6. faults' \in 0..MaxFault
  BY <1>1, FaultTyped DEF Commit, Marked, MayMark
<1> QED
  BY <1>1, <1>2, <1>3, <1>4, <1>5, <1>6, Typed, TypedNext DEF Commit, Marked, MayMark, durable, process, counters, ScheduleTypeOK

LEMMA TypeCommitRefused ==
    ASSUME ScheduleInv, CommitRefused
    PROVE  ScheduleTypeOK'
<1> USE ScheduleBoundAssumption
<1>1. ScheduleTypeOK /\ RowInv /\ PassInv /\ LaunchInv
  BY DEF ScheduleInv
<1>2. launch' \in LaunchRow
  BY <1>1, IdleTyped, Typed DEF LaunchRow, CommitRefused, ScheduleTypeOK, QueueRow, PendingRow, NoOccurrence
<1>3. faults' \in 0..MaxFault
  BY <1>1, FaultTyped DEF CommitRefused
<1> QED
  BY <1>1, <1>2, <1>3, Typed, TypedNext DEF CommitRefused, durable, process, counters, ScheduleTypeOK

LEMMA TypeSaveMark ==
    ASSUME ScheduleInv, SaveMark
    PROVE  ScheduleTypeOK'
<1> USE ScheduleBoundAssumption
<1>1. ScheduleTypeOK /\ RowInv /\ PassInv /\ LaunchInv
  BY DEF ScheduleInv
<1>2. launch' \in LaunchRow
  BY <1>1, IdleTyped, Typed DEF LaunchRow, SaveMark, ScheduleTypeOK, QueueRow, PendingRow, NoOccurrence
<1>3. saved' \in [Occurrence -> QueueRow]
  BY <1>1 DEF SaveMark, ScheduleTypeOK, QueueRow, PendingRow, NoOccurrence
<1>4. faults' \in 0..MaxFault
  BY <1>1, FaultTyped DEF SaveMark
<1> QED
  BY <1>1, <1>2, <1>3, <1>4, Typed, TypedNext DEF SaveMark, durable, process, counters, ScheduleTypeOK

LEMMA TypePut ==
    ASSUME ScheduleInv, Put
    PROVE  ScheduleTypeOK'
<1> USE ScheduleBoundAssumption
<1>1. ScheduleTypeOK /\ launch.id \in Occurrence
  BY Named DEF ScheduleInv, LaunchActive, Put
<1>2. launch' \in LaunchRow
  BY <1>1, IdleTyped, Typed DEF LaunchRow, Put, ScheduleTypeOK, QueueRow, PendingRow, NoOccurrence
<1>3. table' \in TableRow
  BY <1>1, Typed, ClearedFields, DiscardFields DEF TableRow, MarkedRow, Put, ScheduleTypeOK, QueueRow, PendingRow, NoOccurrence
<1>4. queue' \in [Occurrence -> QueueRow]
  BY <1>1 DEF Put, ScheduleTypeOK, QueueRow, PendingRow, NoOccurrence
<1>5. alive' \subseteq Occurrence
  BY <1>1 DEF Put, ScheduleTypeOK, QueueRow, PendingRow, NoOccurrence
<1>6. started' \in [Occurrence -> Nat]
  BY <1>1 DEF Put, ScheduleTypeOK, QueueRow, PendingRow, NoOccurrence
<1>7. saved' \in [Occurrence -> QueueRow] /\ faults' \in 0..MaxFault
  BY <1>1, <1>2, <1>3, <1>4, <1>5, <1>6, PersistTyped DEF Put
<1> QED
  BY <1>1, <1>2, <1>3, <1>4, <1>5, <1>6, <1>7, Typed, TypedNext DEF Put, durable, process, counters, ScheduleTypeOK

LEMMA TypePutRefused ==
    ASSUME ScheduleInv, PutRefused
    PROVE  ScheduleTypeOK'
<1> USE ScheduleBoundAssumption
<1>1. ScheduleTypeOK /\ RowInv /\ PassInv /\ LaunchInv
  BY DEF ScheduleInv
<1>2. launch' \in LaunchRow
  BY <1>1, IdleTyped, Typed DEF LaunchRow, PutRefused, ScheduleTypeOK, QueueRow, PendingRow, NoOccurrence
<1>3. table' \in TableRow
  <2>1. table \in TableRow /\ MarkedRow \in TableRow
    BY <1>1, Typed DEF MarkedRow, TableRow
  <2> QED BY <2>1 DEF PutRefused
<1>4. faults' \in 0..MaxFault
  BY <1>1, FaultTyped DEF PutRefused
<1> QED
  BY <1>1, <1>2, <1>3, <1>4, Typed, TypedNext DEF PutRefused, durable, process, counters, ScheduleTypeOK

LEMMA TypeChangeSchedule ==
    ASSUME ScheduleInv, ChangeSchedule
    PROVE  ScheduleTypeOK'
<1> USE ScheduleBoundAssumption
<1>1. ScheduleTypeOK /\ RowInv /\ PassInv /\ LaunchInv
  BY DEF ScheduleInv
<1>2. table' \in TableRow
  <2>1. table \in TableRow /\ edits < MaxEdit
    BY <1>1, Typed DEF ChangeSchedule, Edit
  <2>2. table.def + 1 \in 0..MaxEdit /\ table.next + 1 \in 1..(MaxOccurrence + MaxEdit + 1)
    BY <1>1, <2>1 DEF RowInv, ScheduleTypeOK, TableRow
  <2> QED BY <2>1, <2>2 DEF ChangeSchedule, Edit, TableRow
<1>3. edits' \in 0..MaxEdit
  BY <1>1 DEF ChangeSchedule, Edit, ScheduleTypeOK, QueueRow, PendingRow, NoOccurrence
<1> QED
  BY <1>1, <1>2, <1>3, Typed, TypedNext DEF ChangeSchedule, Edit, durable, process, counters, ScheduleTypeOK

LEMMA TypeCrash ==
    ASSUME ScheduleInv, Crash
    PROVE  ScheduleTypeOK'
<1> USE ScheduleBoundAssumption
<1>1. ScheduleTypeOK /\ RowInv /\ PassInv /\ LaunchInv
  BY DEF ScheduleInv
<1>2. queue' \in [Occurrence -> QueueRow]
  BY <1>1 DEF Crash, Gone, ScheduleTypeOK, QueueRow, PendingRow, NoOccurrence
<1>3. captured' \in [Occurrence -> PendingRow \cup {"none", "miss", "running", "written", "missed", "settled"}]
  BY <1>1 DEF Crash, Gone, ScheduleTypeOK, QueueRow, PendingRow, NoOccurrence
<1>4. alive' \subseteq Occurrence
  BY <1>1 DEF Crash, Gone, ScheduleTypeOK, QueueRow, PendingRow, NoOccurrence
<1>5. pass' \in PassRow
  BY <1>1, IdleTyped, Typed DEF PassRow, Crash, Gone, ScheduleTypeOK, QueueRow, PendingRow, NoOccurrence
<1>6. launch' \in LaunchRow
  BY <1>1, IdleTyped, Typed DEF LaunchRow, Crash, Gone, ScheduleTypeOK, QueueRow, PendingRow, NoOccurrence
<1>7. faults' \in 0..MaxFault
  BY <1>1, FaultTyped DEF Crash, Gone
<1> QED
  BY <1>1, <1>2, <1>3, <1>4, <1>5, <1>6, <1>7, Typed, TypedNext DEF Crash, Gone, durable, process, counters, ScheduleTypeOK

LEMMA TypePlannedRestart ==
    ASSUME ScheduleInv, PlannedRestart
    PROVE  ScheduleTypeOK'
<1> USE ScheduleBoundAssumption
<1>1. ScheduleTypeOK /\ RowInv /\ PassInv /\ LaunchInv
  BY DEF ScheduleInv
<1>2. queue' \in [Occurrence -> QueueRow]
  BY <1>1 DEF PlannedRestart, Gone, ScheduleTypeOK, QueueRow, PendingRow, NoOccurrence
<1>3. captured' \in [Occurrence -> PendingRow \cup {"none", "miss", "running", "written", "missed", "settled"}]
  BY <1>1 DEF PlannedRestart, Gone, ScheduleTypeOK, QueueRow, PendingRow, NoOccurrence
<1>4. alive' \subseteq Occurrence
  BY <1>1 DEF PlannedRestart, Gone, ScheduleTypeOK, QueueRow, PendingRow, NoOccurrence
<1>5. pass' \in PassRow
  BY <1>1, IdleTyped, Typed DEF PassRow, PlannedRestart, Gone, ScheduleTypeOK, QueueRow, PendingRow, NoOccurrence
<1>6. launch' \in LaunchRow
  BY <1>1, IdleTyped, Typed DEF LaunchRow, PlannedRestart, Gone, ScheduleTypeOK, QueueRow, PendingRow, NoOccurrence
<1>7. faults' \in 0..MaxFault
  BY <1>1, FaultTyped DEF PlannedRestart, Gone
<1>8. saved' \in [Occurrence -> QueueRow]
  BY <1>1 DEF PlannedRestart, Gone, ScheduleTypeOK, QueueRow, PendingRow, NoOccurrence
<1> QED
  BY <1>1, <1>2, <1>3, <1>4, <1>5, <1>6, <1>7, <1>8, Typed, TypedNext DEF PlannedRestart, Gone, durable, process, counters, ScheduleTypeOK

LEMMA TypeRestore ==
    ASSUME ScheduleInv, Restore
    PROVE  ScheduleTypeOK'
<1> USE ScheduleBoundAssumption
<1>1. ScheduleTypeOK /\ RowInv /\ PassInv /\ LaunchInv
  BY DEF ScheduleInv
<1>2. queue' \in [Occurrence -> QueueRow]
  BY <1>1 DEF Restore, Restored, ScheduleTypeOK, QueueRow, PendingRow
<1>3. stops' \subseteq Occurrence
  BY <1>1 DEF Restore, ScheduleTypeOK, QueueRow, PendingRow, NoOccurrence
<1>4. saved' \in [Occurrence -> QueueRow] /\ faults' \in 0..MaxFault
  BY <1>1, <1>2, <1>3, PersistTyped DEF Restore
<1> QED
  BY <1>1, <1>2, <1>3, <1>4, Typed, TypedNext DEF Restore, durable, process, counters, ScheduleTypeOK

LEMMA TypeChooseLaunch ==
    ASSUME ScheduleInv, NEW o \in Occurrence, ChooseLaunch(o)
    PROVE  ScheduleTypeOK'
<1> USE ScheduleBoundAssumption
<1>1. ScheduleTypeOK /\ RowInv /\ PassInv /\ LaunchInv
  BY DEF ScheduleInv
<1>2. launch' \in LaunchRow
  BY <1>1, IdleTyped, Typed DEF LaunchRow, ChooseLaunch, ScheduleTypeOK, Occurrence
<1> QED
  BY <1>1, <1>2, Typed, TypedNext DEF ChooseLaunch, durable, process, counters, ScheduleTypeOK

LEMMA TypeReturnCaptured ==
    ASSUME ScheduleInv, NEW o \in Occurrence, ReturnCaptured(o)
    PROVE  ScheduleTypeOK'
<1> USE ScheduleBoundAssumption
<1>1. ScheduleTypeOK /\ RowInv /\ PassInv /\ LaunchInv
  BY DEF ScheduleInv
<1>2. launch' \in LaunchRow
  BY <1>1, IdleTyped, Typed DEF LaunchRow, ReturnCaptured, ScheduleTypeOK, QueueRow, PendingRow, NoOccurrence
<1>3. queue' \in [Occurrence -> QueueRow]
  BY <1>1 DEF ReturnCaptured, ScheduleTypeOK, QueueRow, PendingRow, NoOccurrence
<1>4. captured' \in [Occurrence -> PendingRow \cup {"none", "miss", "running", "written", "missed", "settled"}]
  BY <1>1 DEF ReturnCaptured, ScheduleTypeOK, QueueRow, PendingRow, NoOccurrence
<1>5. faults' \in 0..MaxFault
  BY <1>1, FaultTyped DEF ReturnCaptured
<1> QED
  BY <1>1, <1>2, <1>3, <1>4, <1>5, Typed, TypedNext DEF ReturnCaptured, durable, process, counters, ScheduleTypeOK

LEMMA TypeComplete ==
    ASSUME ScheduleTypeOK, NEW o \in Occurrence, Complete(o)
    PROVE  ScheduleTypeOK'
BY ScheduleBoundAssumption DEF Complete, ScheduleTypeOK, Persist, Fault, NoFault, durable, process, counters, QueueRow, PendingRow

LEMMA TypeRetire ==
    ASSUME ScheduleTypeOK, NEW o \in Occurrence, Retire(o)
    PROVE  ScheduleTypeOK'
BY ScheduleBoundAssumption DEF Retire, ScheduleTypeOK, Persist, Fault, NoFault, durable, process, counters, QueueRow, PendingRow

LEMMA TypeTimeout ==
    ASSUME ScheduleTypeOK, NEW o \in Occurrence, Timeout(o)
    PROVE  ScheduleTypeOK'
BY ScheduleBoundAssumption DEF Timeout, ScheduleTypeOK, Persist, Fault, NoFault, durable, process, counters, QueueRow, PendingRow

LEMMA TypeKill ==
    ASSUME ScheduleTypeOK, NEW o \in Occurrence, Kill(o)
    PROVE  ScheduleTypeOK'
BY ScheduleBoundAssumption DEF Kill, ScheduleTypeOK, Persist, Fault, NoFault, durable, process, counters, QueueRow, PendingRow

LEMMA TypePublish ==
    ASSUME ScheduleTypeOK, NEW o \in Occurrence, Publish(o)
    PROVE  ScheduleTypeOK'
BY ScheduleBoundAssumption DEF Publish, ScheduleTypeOK, Persist, Fault, NoFault, durable, process, counters, QueueRow, PendingRow

LEMMA TypeRespawn ==
    ASSUME ScheduleTypeOK, NEW o \in Occurrence, Respawn(o)
    PROVE  ScheduleTypeOK'
BY ScheduleBoundAssumption DEF Respawn, ScheduleTypeOK, Persist, Fault, NoFault, durable, process, counters, QueueRow, PendingRow

LEMMA TypeRequestStop ==
    ASSUME ScheduleTypeOK, NEW o \in Occurrence, RequestStop(o)
    PROVE  ScheduleTypeOK'
BY ScheduleBoundAssumption DEF RequestStop, ScheduleTypeOK, Persist, Fault, NoFault, durable, process, counters, QueueRow, PendingRow

LEMMA TypeCapture ==
    ASSUME ScheduleTypeOK, NEW o \in Occurrence, Capture(o)
    PROVE  ScheduleTypeOK'
<1>1. launch' \in LaunchRow
  BY Typed DEF Capture, LaunchRow
<1>2. queue' \in [Occurrence -> QueueRow]
  BY DEF Capture, ScheduleTypeOK, QueueRow
<1>3. captured' \in [Occurrence -> PendingRow \cup {"none", "miss", "running", "written", "missed", "settled"}]
  BY DEF Capture, Live, ScheduleTypeOK, QueueRow, PendingRow
<1> QED
  BY <1>1, <1>2, <1>3, Typed, TypedNext DEF Capture, durable, counters, ScheduleTypeOK

LEMMA TypeWriteCancelled ==
    ASSUME ScheduleTypeOK, NEW o \in Occurrence, WriteCancelled(o)
    PROVE  ScheduleTypeOK'
BY ScheduleBoundAssumption DEF WriteCancelled, ScheduleTypeOK, Persist, Fault, NoFault, durable, process, counters, QueueRow, PendingRow

LEMMA TypeSettleStop ==
    ASSUME ScheduleTypeOK, NEW o \in Occurrence, SettleStop(o)
    PROVE  ScheduleTypeOK'
BY ScheduleBoundAssumption DEF SettleStop, ScheduleTypeOK, Persist, Fault, NoFault, durable, process, counters, QueueRow, PendingRow

LEMMA TypeSaveStop ==
    ASSUME ScheduleTypeOK, NEW o \in Occurrence, SaveStop(o)
    PROVE  ScheduleTypeOK'
BY ScheduleBoundAssumption DEF SaveStop, ScheduleTypeOK, Persist, Fault, NoFault, durable, process, counters, QueueRow, PendingRow

LEMMA TypeDropPending ==
    ASSUME ScheduleTypeOK, NEW o \in Occurrence, DropPending(o)
    PROVE  ScheduleTypeOK'
<1>1. launch' \in LaunchRow
  BY Typed DEF DropPending, LaunchRow
<1>2. queue' \in [Occurrence -> QueueRow]
  BY DEF DropPending, ScheduleTypeOK, QueueRow
<1>3. receipt' \in [Occurrence -> {"none", "accepted", "possible", "ended"}] /\ stops' \subseteq Occurrence
  BY DEF DropPending, ScheduleTypeOK
<1> QED
  BY <1>1, <1>2, <1>3, Typed, TypedNext DEF DropPending, counters, ScheduleTypeOK

LEMMA TypeResume ==
    ASSUME ScheduleTypeOK, NEW o \in Occurrence, Resume(o)
    PROVE  ScheduleTypeOK'
<1>1. queue' \in [Occurrence -> QueueRow]
  BY DEF Resume, ScheduleTypeOK, QueueRow, PendingRow
<1>2. saved' \in [Occurrence -> QueueRow] /\ faults' \in 0..MaxFault
  BY <1>1, PersistTyped DEF Resume
<1> QED
  BY <1>1, <1>2, Typed, TypedNext DEF Resume, ScheduleTypeOK

-----------------------------------------------------------------------------
(* One lemma for each step: it keeps the invariant.                        *)

\* The types as the steps use them, bounds widened to the naturals.
TypeFacts ==
    /\ receipt \in [Occurrence -> {"none", "accepted", "possible", "ended"}]
    /\ queue \in [Occurrence -> {"absent", "running", "queued", "marked", "held", "unknown"}]
    /\ captured \in [Occurrence -> {"queued", "marked", "held", "unknown", "none", "miss",
                                    "running", "written", "missed", "settled"}]
    /\ started \in [Occurrence -> Nat]
    /\ claim \in [Occurrence -> [due : Nat, def : Nat]]
    /\ stops \subseteq Occurrence /\ alive \subseteq Occurrence /\ overdue \subseteq Occurrence
    /\ minted \in Nat /\ edits \in Nat
    /\ table \in TableRow /\ pass \in PassRow /\ launch \in LaunchRow
    /\ Occurrence \subseteq Nat \ {0}
    /\ table.next \in Nat /\ table.def \in Nat /\ table.occ \in Nat

\* What the steps need of the types, of a state ...
LEMMA FactsOfType == ASSUME ScheduleTypeOK PROVE TypeFacts
<1>1. table \in TableRow /\ pass \in PassRow /\ launch \in LaunchRow
  BY Typed
<1>2. minted \in Nat /\ edits \in Nat /\ Occurrence \subseteq Nat \ {0}
  BY ScheduleBoundAssumption DEF ScheduleTypeOK, Occurrence
<1>3. table.next \in Nat /\ table.def \in Nat /\ table.occ \in Nat
  BY <1>1, ScheduleBoundAssumption DEF TableRow
<1>4. claim \in [Occurrence -> [due : Nat, def : Nat]]
  <2>1. claim \in [Occurrence -> [due : 0..(MaxOccurrence + MaxEdit + 1), def : 0..MaxEdit]]
    BY DEF ScheduleTypeOK
  <2>2. \A r \in [due : 0..(MaxOccurrence + MaxEdit + 1), def : 0..MaxEdit] : r \in [due : Nat, def : Nat]
    BY ScheduleBoundAssumption
  <2> QED BY <2>1, <2>2
<1> QED
  BY <1>1, <1>2, <1>3, <1>4 DEF ScheduleTypeOK, TypeFacts, QueueRow, PendingRow

\* ... and of the state after a step.
LEMMA FactsOfTypeNext == ASSUME ScheduleTypeOK' PROVE TypeFacts'
BY FactsOfType, PTL

\* The mark of the row touches nothing else of it.
LEMMA MarkedFields ==
    ASSUME table \in TableRow
    PROVE  /\ MarkedRow.occ = table.occ /\ MarkedRow.gone = table.gone
           /\ MarkedRow.next = table.next /\ MarkedRow.def = table.def
           /\ MarkedRow.admitted = table.admitted
           /\ MarkedRow.possible => ~table.gone \/ table.possible
BY DEF MarkedRow, TableRow

\* An edit leaves the row's occurrence alone and may move its next point on.
LEMMA EditFields ==
    ASSUME table \in TableRow, ChangeSchedule
    PROVE  /\ table'.occ = table.occ /\ table'.gone = table.gone
           /\ table'.admitted = table.admitted /\ table'.possible = table.possible
           /\ table'.def \in {table.def, table.def + 1}
           /\ table'.next \in {table.next, table.next + 1}
           /\ edits' = edits + 1
           /\ UNCHANGED <<claim, minted, receipt>>
BY DEF ChangeSchedule, Edit, TableRow

\* The fields a launch keeps while it moves on.
LEMMA LaunchFields ==
    ASSUME launch \in LaunchRow, NEW p
    PROVE  /\ [launch EXCEPT !.pc = p].pc = p
           /\ [launch EXCEPT !.pc = p].id = launch.id
           /\ [launch EXCEPT !.pc = p].own = launch.own
BY DEF LaunchRow

\* The receipts stand while the row only moves on.
LEMMA ReceiptsStand ==
    ASSUME ReceiptInv, TypeFacts, TypeFacts', UNCHANGED <<claim, minted, receipt>>,
           table'.occ = table.occ, table'.gone = table.gone, table'.next >= table.next
    PROVE  ReceiptInv'
<1>1. AcceptedIsOwned' /\ OnePointOneRoot'
  BY DEF ReceiptInv, AcceptedIsOwned, OnePointOneRoot
<1>2. \A o \in Occurrence : claim[o].due \in Nat
  BY DEF TypeFacts
<1> QED BY <1>1, <1>2 DEF ReceiptInv, TypeFacts

\* They stand while receipts only move on to possible and ended.
LEMMA ReceiptsMoveOn ==
    ASSUME ReceiptInv, UNCHANGED <<claim, minted, table>>,
           \A q \in Occurrence : (receipt'[q] # "none" => receipt[q] # "none")
                                 /\ (receipt'[q] = "accepted" => receipt[q] = "accepted")
    PROVE  ReceiptInv'
<1>1. AcceptedIsOwned' /\ OnePointOneRoot'
  BY DEF ReceiptInv, AcceptedIsOwned, OnePointOneRoot
<1> QED BY <1>1 DEF ReceiptInv

\* They stand when a task ends.
LEMMA ReceiptEnds ==
    ASSUME ReceiptInv, TypeFacts, NEW o \in Occurrence, receipt[o] # "none",
           receipt' = [receipt EXCEPT ![o] = "ended"], UNCHANGED <<claim, minted, table>>
    PROVE  ReceiptInv'
<1>1. \A q \in Occurrence : (receipt'[q] # "none" => receipt[q] # "none")
                            /\ (receipt'[q] = "accepted" => receipt[q] = "accepted")
  BY DEF TypeFacts
<1> QED BY <1>1, ReceiptsMoveOn

\* When the pass may move on, nothing is owed to the row's occurrence, and the next point lies
\* past every receipt.
LEMMA MovedOn ==
    ASSUME ScheduleInv, TypeFacts, MayMove
    PROVE  \A o \in Occurrence : receipt[o] # "none" =>
              receipt[o] # "accepted" /\ claim[o].due < Cleared.next /\ o <= minted
<1> SUFFICES ASSUME NEW o \in Occurrence, receipt[o] # "none"
             PROVE  receipt[o] # "accepted" /\ claim[o].due < Cleared.next /\ o <= minted
  OBVIOUS
<1>1. ScheduleTypeOK /\ RowInv /\ ReceiptInv
  BY DEF ScheduleInv
<1>2. Cleared.next >= table.next /\ Cleared.next \in Nat /\ claim[o].due \in Nat /\ table.next \in Nat
  BY <1>1, ClearedFields DEF TypeFacts, TableRow
<1>3. CASE o # table.occ
  BY <1>1, <1>2, <1>3 DEF ReceiptInv, AcceptedIsOwned
<1>4. CASE o = table.occ
  <2>1. table.occ # NoOccurrence
    BY <1>4 DEF TypeFacts, NoOccurrence
  <2>2. Reconcile(o) \in {"settled", "reconsider"}
    BY <1>4, <2>1 DEF MayMove
  <2>3. receipt[o] # "accepted" /\ Reconcile(o) = "settled"
    BY <1>1, <1>4, <2>2 DEF Reconcile, RowInv, Handed, TypeFacts
  <2> QED BY <1>1, <1>4, <2>1, <2>3, ClearedFields DEF ReceiptInv
<1> QED BY <1>3, <1>4

\* A row taken back out of the queue under the pass's locks is no launch's and runs nowhere.
LEMMA Unqueued ==
    ASSUME ScheduleInv, TypeFacts, pass.pc \in {"row", "snapshot"},
           queue' \in {queue, [queue EXCEPT ![pass.id] = "absent"]},
           table'.gone = table.gone,
           UNCHANGED <<launch, alive, overdue, minted, captured, receipt, started, stops>>
    PROVE  LaunchInv' /\ RunInv'
<1>1. ScheduleTypeOK /\ RowInv /\ PassInv /\ LaunchInv /\ RunInv
  BY DEF ScheduleInv
<1>2. pass.id \in Occurrence
  BY <1>1, Named
<1>3. queue[pass.id] \in {"queued", "marked"} /\ ~(LaunchOwns /\ launch.id = pass.id)
  BY <1>1 DEF PassInv
<1>4. \A o \in Occurrence : o # pass.id => queue'[o] = queue[o]
  BY <1>2 DEF TypeFacts
<1>5. queue'[pass.id] \in {queue[pass.id], "absent"}
  BY <1>2 DEF TypeFacts
<1>6. LaunchInv'
  <2>1. LaunchActive => launch.id \in Occurrence
    BY <1>1, Named
  <2> QED BY <1>1, <1>3, <1>4, <2>1 DEF LaunchInv, LaunchOwns, LaunchActive, Handed
<1>7. RunInv'
  <2>1. \A o \in alive : o \notin overdue => queue'[o] = "running"
    BY <1>1, <1>3, <1>4 DEF RunInv, TypeFacts
  <2>2. \A o \in Occurrence : queue'[o] \in Fresh => queue[o] \in Fresh
    BY <1>4, <1>5 DEF Fresh
  <2> QED BY <1>1, <2>1, <2>2 DEF RunInv, OnlyOverdueRunsOverlap
<1> QED BY <1>6, <1>7

\* The row written after an admission: the same occurrence, its point passed once and for all.
LEMMA WriteRowFields ==
    ASSUME ScheduleInv, TypeFacts, WriteRow
    PROVE  /\ pass.id = table.occ /\ pass.id \in Occurrence /\ table.occ # NoOccurrence
           /\ UNCHANGED <<claim, minted, receipt, edits>>
           /\ table'.occ = table.occ /\ table'.gone = table.gone /\ table'.def = table.def
           /\ table'.possible = table.possible
           /\ table'.next \in {table.next, table.next + 1} /\ claim[pass.id].due \in Nat
           /\ table'.next # table.next => table.next = claim[pass.id].due
           /\ table'.admitted => claim[pass.id].due < table'.next
<1>1. ScheduleTypeOK /\ RowInv /\ PassInv /\ LaunchInv
  BY DEF ScheduleInv
<1>2. /\ pass.id = table.occ /\ pass.id \in Occurrence /\ table.occ # NoOccurrence
      /\ claim[pass.id].due \in Nat /\ claim[pass.id].due <= table.next
      /\ UNCHANGED <<claim, minted, receipt, edits>>
  BY <1>1, Named DEF WriteRow, PassInv, TypeFacts, NoOccurrence, RowInv
<1>3. CASE UNCHANGED table
  BY <1>1, <1>2, <1>3 DEF RowInv
<1>4. CASE table' = [(IF table.admitted THEN table ELSE Advance(table, pass.id)) EXCEPT !.admitted = TRUE]
  <2> DEFINE a == IF table.admitted THEN table ELSE Advance(table, pass.id)
  <2>1. table.next = claim[pass.id].due => table.next < MaxOccurrence + MaxEdit + 1
    BY <1>1, <1>2, ScheduleBoundAssumption DEF RowInv, ScheduleTypeOK, TypeFacts
  <2>2. /\ a \in TableRow /\ a.occ = table.occ /\ a.gone = table.gone /\ a.def = table.def
        /\ a.possible = table.possible
        /\ a.next = IF ~table.admitted /\ table.next = claim[pass.id].due THEN table.next + 1 ELSE table.next
    BY <1>2, <2>1, AdvanceFields DEF TypeFacts
  <2>3. table' = [a EXCEPT !.admitted = TRUE]
    BY <1>4
  <2> HIDE DEF a
  <2>4. /\ table'.occ = table.occ /\ table'.gone = table.gone /\ table'.def = table.def
        /\ table'.possible = table.possible /\ table'.next = a.next
    BY <2>2, <2>3 DEF TableRow
  <2>5. table.admitted => claim[pass.id].due < table.next
    BY <1>1, <1>2 DEF RowInv
  <2>6. table.next \in Nat
    BY DEF TypeFacts
  <2> QED BY <1>2, <2>2, <2>4, <2>5, <2>6
<1> QED BY <1>2, <1>3, <1>4 DEF WriteRow

\* What a commit changes: the receipt of the launch and, wherever it is, its row.
LEMMA CommitFields ==
    ASSUME ScheduleInv, TypeFacts, Commit
    PROVE  /\ LaunchActive /\ launch.id \in Occurrence
           /\ receipt[launch.id] \in {"accepted", "possible"}
           /\ receipt'[launch.id] \in {receipt[launch.id], "possible"}
           /\ \A q \in Occurrence \ {launch.id} :
                 receipt'[q] = receipt[q] /\ queue'[q] = queue[q] /\ captured'[q] = captured[q]
           /\ launch.own => queue'[launch.id] = "marked" /\ queue[launch.id] \in {"queued", "marked"}
                            /\ captured' = captured
           /\ ~launch.own => queue' = queue
                             /\ captured'[launch.id] = IF captured[launch.id] \in PendingRow
                                                       THEN "marked" ELSE captured[launch.id]
           /\ launch'.pc \in {"idle", "claimed"}
           /\ launch'.pc = "claimed" => launch'.id = launch.id /\ launch'.own = launch.own
                                        /\ receipt'[launch.id] = "possible"
           /\ UNCHANGED <<table, claim, minted, stops, server, pass, alive, overdue, started>>
<1>1. ScheduleTypeOK /\ RowInv /\ PassInv /\ LaunchInv
  BY DEF ScheduleInv
<1>2. LaunchActive /\ launch.id \in Occurrence /\ launch.pc = "commit"
  BY <1>1, Named DEF Commit, LaunchActive
<1>3. receipt[launch.id] \in {"accepted", "possible"}
  BY DEF Commit, MayMark
<1>4. /\ receipt' \in {receipt, [receipt EXCEPT ![launch.id] = "possible"]}
      /\ launch' \in {IdleLaunch, [launch EXCEPT !.pc = "claimed"]}
      /\ launch' # IdleLaunch => receipt' = [receipt EXCEPT ![launch.id] = "possible"]
      /\ UNCHANGED <<table, claim, minted, stops, server, pass, alive, overdue, started>>
  BY DEF Commit
<1>5. launch.own => queue[launch.id] \in {"queued", "marked"}
  BY <1>1, <1>2 DEF LaunchInv, LaunchOwns
<1>6. IF launch.own THEN queue' = [queue EXCEPT ![launch.id] = "marked"] /\ captured' = captured
      ELSE /\ queue' = queue
           /\ captured' = IF captured[launch.id] \in PendingRow
                          THEN [captured EXCEPT ![launch.id] = "marked"] ELSE captured
  BY <1>5 DEF Commit, Marked, PendingRow
<1>7. /\ launch'.pc \in {"idle", "claimed"}
      /\ launch'.pc = "claimed" => launch' # IdleLaunch /\ launch'.id = launch.id /\ launch'.own = launch.own
  BY <1>4 DEF IdleLaunch, TypeFacts, LaunchRow
<1>8. /\ receipt'[launch.id] \in {receipt[launch.id], "possible"}
      /\ launch'.pc = "claimed" => receipt'[launch.id] = "possible"
      /\ \A q \in Occurrence \ {launch.id} : receipt'[q] = receipt[q]
  BY <1>2, <1>4, <1>7 DEF TypeFacts
<1>9. /\ launch.own => queue'[launch.id] = "marked" /\ captured' = captured
      /\ ~launch.own => queue' = queue
                        /\ captured'[launch.id] = IF captured[launch.id] \in PendingRow
                                                  THEN "marked" ELSE captured[launch.id]
      /\ \A q \in Occurrence \ {launch.id} : queue'[q] = queue[q] /\ captured'[q] = captured[q]
  BY <1>2, <1>6 DEF TypeFacts
<1> QED BY <1>2, <1>3, <1>4, <1>5, <1>7, <1>8, <1>9

\* A process is at a task that was started, that no row or custody could start again.
LEMMA Processes ==
    ASSUME ScheduleInv, TypeFacts, NEW o \in alive
    PROVE  /\ o \in Occurrence /\ o <= minted /\ minted \in Occurrence
           /\ started[o] = 1 /\ receipt[o] \in Handed
           /\ queue[o] \in {"running", "absent"}
           /\ captured[o] \in {"none", "running", "miss", "missed"}
           /\ ~(LaunchActive /\ launch.id = o)
<1>1. /\ ScheduleTypeOK /\ ReceiptInv /\ StartedInv /\ CustodyInv /\ RunInv /\ OverdueInv
  BY DEF ScheduleInv
<1>2. o \in Occurrence
  BY DEF TypeFacts
<1>3. started[o] = 1 /\ queue[o] \in {"running", "absent"}
  BY <1>1 DEF RunInv, OverdueInv
<1>4. receipt[o] \in Handed /\ ~(LaunchActive /\ launch.id = o)
  BY <1>1, <1>2, <1>3 DEF StartedInv
<1>5. captured[o] \in {"none", "running", "miss", "missed"}
  BY <1>1, <1>2 DEF RunInv, OverdueInv, CustodyInv
<1>6. o <= minted
  BY <1>1, <1>2, <1>4 DEF ReceiptInv, Handed
<1>7. minted \in Occurrence
  BY <1>1, <1>2, <1>6, ScheduleBoundAssumption DEF ScheduleTypeOK, Occurrence
<1> QED BY <1>2, <1>3, <1>4, <1>5, <1>6, <1>7

\* What holds when a launch puts its task: the row is its own, the task is not started, and
\* what still runs is earlier and overdue.
LEMMA PutFacts ==
    ASSUME ScheduleInv, TypeFacts, Put
    PROVE  /\ launch.id \in Occurrence /\ launch.id <= minted /\ minted \in Occurrence
           /\ receipt[launch.id] = "possible" /\ captured[launch.id] = "none"
           /\ started[launch.id] = 0
           /\ \A q \in alive : q \in overdue /\ q < launch.id
           /\ launch.id # minted => table.gone /\ receipt[minted] \in {"none", "ended"}
           /\ \A q \in Occurrence \ {launch.id} : queue'[q] = queue[q] /\ started'[q] = started[q]
           /\ queue'[launch.id] = "running" /\ started'[launch.id] = 1 /\ alive' = alive \cup {launch.id}
           /\ launch'.pc = "idle" /\ table'.gone = table.gone
           /\ UNCHANGED <<claim, minted, receipt, stops, server, pass, captured, overdue>>
<1>1. /\ ScheduleTypeOK /\ RowInv /\ PassInv /\ ReceiptInv /\ StartedInv /\ LaunchInv /\ OverdueInv
  BY DEF ScheduleInv
<1>2. LaunchActive /\ LaunchOwns /\ launch.pc = "put" /\ launch.id \in Occurrence
  BY <1>1, Named DEF Put, MayPut, LaunchActive, LaunchOwns
<1>3. launch.id <= minted /\ minted \in Occurrence
  <2>1. minted \in 0..MaxOccurrence /\ launch.id \in 1..minted
    BY <1>1, <1>2 DEF ScheduleTypeOK, LaunchInv
  <2> QED BY <2>1, ScheduleBoundAssumption DEF Occurrence
<1>4. receipt[launch.id] = "possible" /\ captured[launch.id] = "none"
  BY <1>1, <1>2 DEF LaunchInv, Handed
<1>5. started[launch.id] = 0
  BY <1>1, <1>2 DEF StartedInv
<1>6. \A q \in alive : q \in overdue /\ q < launch.id
  <2>1. \A q \in alive : q \in overdue /\ q <= launch.id
    BY <1>1, <1>2 DEF LaunchInv
  <2>2. \A q \in alive : q # launch.id
    BY <1>1, <1>5, <2>1 DEF OverdueInv
  <2>3. alive \subseteq Nat /\ launch.id \in Nat
    BY <1>2 DEF TypeFacts
  <2> QED BY <2>1, <2>2, <2>3
<1>7. launch.id # minted => table.gone /\ receipt[minted] \in {"none", "ended"}
  <2>1. SUFFICES ASSUME launch.id # minted
                 PROVE  table.gone /\ receipt[minted] \in {"none", "ended"}
    OBVIOUS
  <2>2. table.gone
    BY <1>1, <1>2, <2>1 DEF Put, MayPut, RowInv, TypeFacts, NoOccurrence
  <2>3. receipt[minted] # "accepted" /\ receipt[minted] # "possible"
    BY <1>1, <1>2, <1>3, <2>1, <2>2 DEF ReceiptInv, AcceptedIsOwned, LaunchInv
  <2> QED BY <1>3, <2>2, <2>3 DEF TypeFacts
<1>8. /\ \A q \in Occurrence \ {launch.id} : queue'[q] = queue[q] /\ started'[q] = started[q]
      /\ queue'[launch.id] = "running" /\ started'[launch.id] = 1 /\ alive' = alive \cup {launch.id}
  BY <1>2, <1>4, <1>5 DEF Put, TypeFacts
<1>9. launch'.pc = "idle" /\ table'.gone = table.gone
  BY MarkedFields DEF Put, IdleLaunch, TypeFacts
<1> QED BY <1>2, <1>3, <1>4, <1>5, <1>6, <1>7, <1>8, <1>9 DEF Put

\* A row that may be launched is the latest occurrence's, and what still runs is overdue.
LEMMA ChosenAlone ==
    ASSUME ScheduleInv, TypeFacts, NEW o \in Occurrence,
           queue[o] \in {"queued", "marked"}, o \notin stops, receipt[o] # "ended"
    PROVE  o = minted /\ captured[o] = "none" /\ \A p \in alive : p \in overdue /\ p <= minted
<1>1. BornInv /\ CustodyInv /\ RunInv
  BY DEF ScheduleInv
<1>2. o = minted
  BY <1>1 DEF RunInv, Fresh
<1>3. receipt[o] # "none"
  BY <1>1 DEF BornInv
<1>4. \A p \in alive : p \in overdue /\ p <= minted
  <2>1. \A p \in alive : p <= minted
    BY Processes
  <2>2. SUFFICES ASSUME NEW p \in alive, p \notin overdue PROVE FALSE
    BY <2>1
  <2>3. queue[p] = "running" /\ (p # minted => receipt[minted] \in {"none", "ended"})
    BY <1>1, <2>2 DEF RunInv
  <2>4. p # minted
    BY <1>2, <2>3
  <2> QED BY <1>2, <1>3, <2>3, <2>4
<1>5. captured[o] = "none"
  BY <1>1 DEF CustodyInv, PendingRow, TypeFacts
<1> QED BY <1>2, <1>4, <1>5

\* A located launch goes on to its commit with what it had, or is given up.
LEMMA LocateFields ==
    ASSUME launch \in LaunchRow, Locate
    PROVE  launch' = IdleLaunch \/ (/\ launch'.pc = "commit" /\ LaunchActive
                                    /\ launch'.id = launch.id /\ launch'.own = launch.own)
<1>1. \A b : /\ [launch EXCEPT !.pc = "commit", !.foreign = b].pc = "commit"
             /\ [launch EXCEPT !.pc = "commit", !.foreign = b].id = launch.id
             /\ [launch EXCEPT !.pc = "commit", !.foreign = b].own = launch.own
  BY DEF LaunchRow
<1> QED BY <1>1 DEF Locate, LaunchActive

LEMMA KeepTakeUp ==
    ASSUME ScheduleInv, TakeUp
    PROVE  ScheduleInv'
<1>1. ScheduleTypeOK /\ RowInv /\ PassInv /\ ReceiptInv /\ BornInv /\ StartedInv
      /\ CustodyInv /\ LaunchInv /\ RunInv /\ OverdueInv /\ DownInv
  BY DEF ScheduleInv
<1>2. ScheduleTypeOK'
  BY TypeTakeUp, <1>1
<1>3. TypeFacts /\ TypeFacts'
  BY <1>1, <1>2, FactsOfType, FactsOfTypeNext
<1>4. RowInv' /\ ReceiptInv' /\ BornInv' /\ StartedInv' /\ CustodyInv' /\ LaunchInv' /\ RunInv'
  BY <1>1 DEF RowInv, ReceiptInv, BornInv, StartedInv, CustodyInv, LaunchInv, RunInv, Handed,
            NoOccurrence, AcceptedIsOwned, OnePointOneRoot, Fresh, LaunchActive, PendingRow,
            LaunchOwns, OnlyOverdueRunsOverlap, TakeUp, Prepare, Unlocked
<1>5. PassInv'
  BY <1>1, <1>3, Named DEF PassInv, TypeFacts, LaunchOwns, LaunchActive, TakeUp, Prepare,
            Unlocked, NoOccurrence
<1>6. DownInv'
  BY <1>1, <1>3, Named DEF DownInv, TypeFacts, TakeUp, Prepare, Unlocked, NoOccurrence
<1>7. OverdueInv'
  BY <1>1, <1>3 DEF OverdueInv, StartedInv, Fresh, Handed, PendingRow, TypeFacts, TakeUp,
            Prepare, Unlocked
<1> QED BY <1>2, <1>4, <1>5, <1>6, <1>7 DEF ScheduleInv

LEMMA KeepClaimDue ==
    ASSUME ScheduleInv, ClaimDue
    PROVE  ScheduleInv'
<1>1. ScheduleTypeOK /\ RowInv /\ PassInv /\ ReceiptInv /\ BornInv /\ StartedInv
      /\ CustodyInv /\ LaunchInv /\ RunInv /\ OverdueInv /\ DownInv
  BY DEF ScheduleInv
<1>2. ScheduleTypeOK'
  BY TypeClaimDue, <1>1
<1>3. TypeFacts /\ TypeFacts'
  BY <1>1, <1>2, FactsOfType, FactsOfTypeNext
<1>4. BornInv' /\ StartedInv' /\ CustodyInv'
  BY <1>1 DEF BornInv, StartedInv, CustodyInv, Fresh, Handed, LaunchActive, PendingRow,
            ClaimDue, Prepare, MayMove, Unlocked, ScheduleLive, NoOccurrence
<1>5. RowInv'
  <2>1. /\ Cleared \in TableRow /\ ~Cleared.admitted /\ ~Cleared.possible
        /\ Cleared.def = table.def /\ Cleared.next <= minted + edits + 1
    BY <1>1, ClearedFields
  <2>2. /\ minted' = minted + 1 /\ minted' \in Occurrence /\ edits' = edits
        /\ table' = [Cleared EXCEPT !.occ = minted']
        /\ claim'[minted'].due = Cleared.next
    BY <1>1, <1>3 DEF ClaimDue, TypeFacts, ScheduleTypeOK, Occurrence
  <2>3. /\ table'.occ = minted' /\ table'.next = Cleared.next /\ table'.def = table.def
        /\ ~table'.admitted /\ ~table'.possible
    BY <2>1, <2>2 DEF TableRow
  <2>4. Cleared.next \in Nat
    BY <1>3, <2>3 DEF TypeFacts
  <2> QED BY <1>1, <1>3, <2>1, <2>2, <2>3, <2>4 DEF RowInv, TypeFacts
<1>6. PassInv'
  BY <1>1, <1>3, Named DEF PassInv, TypeFacts, LaunchOwns, LaunchActive, ClaimDue, Prepare,
            MayMove, Unlocked, ScheduleLive, NoOccurrence
<1>7. ReceiptInv'
  <2>1. \A o \in Occurrence : receipt[o] # "none" =>
            receipt[o] # "accepted" /\ claim[o].due < Cleared.next /\ o <= minted
    BY <1>3, MovedOn DEF ClaimDue
  <2>2. /\ minted' = minted + 1 /\ minted' \in Occurrence /\ receipt' = receipt
        /\ table' = [Cleared EXCEPT !.occ = minted']
        /\ claim'[minted'].due = Cleared.next
        /\ \A o \in Occurrence : o # minted' => claim'[o] = claim[o]
    BY <1>1, <1>3 DEF ClaimDue, TypeFacts, ScheduleTypeOK, Occurrence
  <2>3. table'.occ = minted' /\ table'.next = Cleared.next
    BY <1>1, <2>2, ClearedFields DEF TableRow
  <2>4. \A o \in Occurrence : receipt[o] # "none" => o # minted' /\ claim'[o] = claim[o]
    BY <1>3, <2>1, <2>2 DEF TypeFacts
  <2>5. AcceptedIsOwned' /\ OnePointOneRoot'
    BY <1>1, <2>1, <2>2, <2>4 DEF ReceiptInv, AcceptedIsOwned, OnePointOneRoot
  <2> QED BY <1>3, <2>1, <2>2, <2>3, <2>4, <2>5 DEF ReceiptInv, TypeFacts
<1>8. LaunchInv'
  <2>1. /\ minted' = minted + 1 /\ minted' \in Occurrence
        /\ UNCHANGED <<launch, alive, overdue, receipt, queue, captured>>
    BY <1>1, <1>3 DEF ClaimDue, ScheduleTypeOK, Occurrence, TypeFacts
  <2>2. receipt[minted'] = "none"
    BY <1>1, <1>3, <2>1 DEF ReceiptInv, TypeFacts
  <2>3. LaunchActive => launch.id \in 1..minted'
    BY <1>1, <1>3, <2>1 DEF LaunchInv, TypeFacts
  <2> QED BY <1>1, <2>1, <2>2, <2>3 DEF LaunchInv, LaunchOwns, LaunchActive
<1>9. RunInv'
  BY <1>1, <1>3, Named DEF RunInv, TypeFacts, OnlyOverdueRunsOverlap, Fresh, ClaimDue, Prepare,
            MayMove, Unlocked, ScheduleLive, NoOccurrence
<1>10. DownInv'
  BY <1>1, <1>3, Named DEF DownInv, TypeFacts, ClaimDue, Prepare, MayMove, Unlocked,
            ScheduleLive, NoOccurrence
<1>11. OverdueInv'
  BY <1>1, <1>3 DEF OverdueInv, StartedInv, Fresh, Handed, PendingRow, TypeFacts, ClaimDue,
            Prepare, MayMove, Unlocked, ScheduleLive
<1> QED BY <1>2, <1>4, <1>5, <1>6, <1>7, <1>8, <1>9, <1>10, <1>11 DEF ScheduleInv

LEMMA KeepTidy ==
    ASSUME ScheduleInv, Tidy
    PROVE  ScheduleInv'
<1>1. ScheduleTypeOK /\ RowInv /\ PassInv /\ ReceiptInv /\ BornInv /\ StartedInv
      /\ CustodyInv /\ LaunchInv /\ RunInv /\ OverdueInv /\ DownInv
  BY DEF ScheduleInv
<1>2. ScheduleTypeOK'
  BY TypeTidy, <1>1
<1>3. TypeFacts /\ TypeFacts'
  BY <1>1, <1>2, FactsOfType, FactsOfTypeNext
<1>4. BornInv' /\ StartedInv' /\ CustodyInv' /\ LaunchInv' /\ DownInv'
  BY <1>1 DEF BornInv, StartedInv, CustodyInv, LaunchInv, DownInv, Fresh, Handed, LaunchActive,
            PendingRow, LaunchOwns, Tidy, MayMove, Unlocked, NoOccurrence
<1>5. RowInv'
  <2>1. /\ Cleared \in TableRow /\ Cleared.occ = NoOccurrence /\ ~Cleared.admitted /\ ~Cleared.possible
        /\ Cleared.def = table.def /\ Cleared.next <= minted + edits + 1
    BY <1>1, ClearedFields
  <2>2. /\ table'.occ = NoOccurrence /\ ~table'.admitted /\ ~table'.possible
        /\ table'.def = table.def /\ table'.next = Cleared.next
    BY <2>1 DEF Tidy, TableRow
  <2> QED BY <1>1, <2>1, <2>2 DEF Tidy, RowInv
<1>6. PassInv'
  BY <1>1, <1>3, Named DEF PassInv, TypeFacts, LaunchOwns, LaunchActive, Tidy, MayMove,
            Unlocked, NoOccurrence
<1>7. ReceiptInv'
  <2>1. \A o \in Occurrence : receipt[o] # "none" =>
            receipt[o] # "accepted" /\ claim[o].due < Cleared.next /\ o <= minted
    BY <1>3, MovedOn DEF Tidy
  <2>2. table'.occ = NoOccurrence /\ table'.next = Cleared.next
    BY <1>1, ClearedFields DEF Tidy, TableRow
  <2>3. UNCHANGED <<claim, minted, receipt>>
    BY DEF Tidy
  <2> QED BY <1>1, <2>1, <2>2, <2>3 DEF ReceiptInv, AcceptedIsOwned, OnePointOneRoot
<1>8. RunInv'
  BY <1>1, <1>3, Named DEF RunInv, TypeFacts, OnlyOverdueRunsOverlap, Fresh, Tidy, MayMove, Unlocked,
            NoOccurrence
<1>9. OverdueInv'
  BY <1>1, <1>3 DEF OverdueInv, StartedInv, Fresh, Handed, PendingRow, TypeFacts, Tidy, MayMove,
            Unlocked
<1> QED BY <1>2, <1>4, <1>5, <1>6, <1>7, <1>8, <1>9 DEF ScheduleInv

LEMMA KeepAdmit ==
    ASSUME ScheduleInv, Admit
    PROVE  ScheduleInv'
<1>1. ScheduleTypeOK /\ RowInv /\ PassInv /\ ReceiptInv /\ BornInv /\ StartedInv
      /\ CustodyInv /\ LaunchInv /\ RunInv /\ OverdueInv /\ DownInv
  BY DEF ScheduleInv
<1>2. ScheduleTypeOK'
  BY TypeAdmit, <1>1
<1>3. TypeFacts /\ TypeFacts'
  BY <1>1, <1>2, FactsOfType, FactsOfTypeNext
<1>4. RowInv'
  BY <1>1, <1>3, Named DEF RowInv, TypeFacts, Handed, NoOccurrence, Admit, StillPrepared,
            Unlocked, Reconcile, IdlePass, Live
<1>5. PassInv'
  <2>1. /\ pass.pc = "prepared" /\ table.occ = pass.id /\ ~table.gone /\ pass.id \in Occurrence
        /\ queue[pass.id] = "absent"
        /\ UNCHANGED <<table, minted, launch>>
    BY <1>1, Named DEF Admit, StillPrepared, Reconcile, Live
  <2>2. ~(LaunchOwns /\ launch.id = pass.id)
    BY <1>1, <2>1 DEF LaunchInv
  <2>3. CASE pass' = IdlePass
    BY <2>3 DEF PassInv, IdlePass
  <2>4. CASE pass' = [pass EXCEPT !.pc = "row"] /\ queue' = [queue EXCEPT ![pass.id] = "queued"]
    <3>1. pass'.pc = "row" /\ pass'.id = pass.id
      BY <1>3, <2>4 DEF TypeFacts, PassRow
    <3>2. queue'[pass.id] = "queued"
      BY <1>3, <2>1, <2>4 DEF TypeFacts
    <3> QED BY <1>1, <2>1, <2>2, <3>1, <3>2 DEF PassInv, LaunchOwns, LaunchActive
  <2> QED BY <2>3, <2>4 DEF Admit
<1>6. ReceiptInv'
  <2>1. /\ table.occ = pass.id /\ ~table.gone /\ pass.id \in Occurrence /\ table.occ # NoOccurrence
        /\ pass.id <= minted
        /\ UNCHANGED <<table, minted, claim>>
    BY <1>1, <1>3, Named DEF Admit, StillPrepared, RowInv, TypeFacts, NoOccurrence
  <2>2. \A o \in Occurrence : receipt'[o] # receipt[o] => o = pass.id /\ receipt'[o] = "accepted"
    BY <1>3, <2>1 DEF Admit, TypeFacts
  <2>3. AcceptedIsOwned'
    BY <1>1, <2>1, <2>2 DEF ReceiptInv, AcceptedIsOwned
  <2>4. OnePointOneRoot'
    <3> SUFFICES ASSUME NEW o \in Occurrence, NEW p \in Occurrence,
                        receipt'[o] # "none", receipt'[p] # "none", claim[o].due = claim[p].due, o # p
                 PROVE  FALSE
      BY <2>1 DEF OnePointOneRoot
    <3>1. claim[o].due \in Nat /\ claim[p].due \in Nat
      BY <1>3 DEF TypeFacts
    <3>2. CASE o = pass.id
      BY <1>1, <2>1, <2>2, <3>1, <3>2 DEF ReceiptInv
    <3>3. CASE p = pass.id
      BY <1>1, <2>1, <2>2, <3>1, <3>3 DEF ReceiptInv
    <3>4. CASE o # pass.id /\ p # pass.id
      BY <1>1, <2>2, <3>4 DEF ReceiptInv, OnePointOneRoot
    <3> QED BY <3>2, <3>3, <3>4
  <2> QED BY <1>1, <2>1, <2>2, <2>3, <2>4 DEF ReceiptInv
<1>7. BornInv'
  BY <1>1, <1>3, Named DEF BornInv, TypeFacts, Admit, StillPrepared, Unlocked, Reconcile,
            IdlePass, Live, NoOccurrence
<1>8. StartedInv'
  BY <1>1, <1>3, Named DEF StartedInv, TypeFacts, Fresh, Handed, LaunchActive, Admit,
            StillPrepared, Unlocked, Reconcile, IdlePass, Live, NoOccurrence
<1>9. CustodyInv'
  BY <1>1, <1>3, Named DEF CustodyInv, TypeFacts, PendingRow, Admit, StillPrepared, Unlocked,
            Reconcile, IdlePass, Live, NoOccurrence
<1>10. LaunchInv'
  BY <1>1, <1>3, Named DEF LaunchInv, TypeFacts, LaunchOwns, LaunchActive, Handed, Admit,
            StillPrepared, Unlocked, Reconcile, IdlePass, Live, NoOccurrence, PendingRow
<1>11. RunInv'
  BY <1>1, <1>3, Named DEF RunInv, TypeFacts, OnlyOverdueRunsOverlap, Fresh, Admit, StillPrepared,
            Unlocked, Reconcile, IdlePass, Live, NoOccurrence
<1>12. DownInv'
  BY <1>1, <1>3, Named DEF DownInv, TypeFacts, Admit, StillPrepared, Unlocked, Reconcile,
            IdlePass, Live, NoOccurrence
<1>13. OverdueInv'
  BY <1>1, <1>3 DEF OverdueInv, StartedInv, Fresh, Handed, PendingRow, TypeFacts, Admit,
            StillPrepared, Unlocked, Reconcile, IdlePass, Live
<1> QED BY <1>2, <1>4, <1>5, <1>6, <1>7, <1>8, <1>9, <1>10, <1>11, <1>12, <1>13 DEF ScheduleInv

LEMMA KeepForgo ==
    ASSUME ScheduleInv, Forgo
    PROVE  ScheduleInv'
<1>1. ScheduleTypeOK /\ RowInv /\ PassInv /\ ReceiptInv /\ BornInv /\ StartedInv
      /\ CustodyInv /\ LaunchInv /\ RunInv /\ OverdueInv /\ DownInv
  BY DEF ScheduleInv
<1>2. ScheduleTypeOK'
  BY TypeForgo, <1>1
<1>3. TypeFacts /\ TypeFacts'
  BY <1>1, <1>2, FactsOfType, FactsOfTypeNext
<1>4. BornInv' /\ StartedInv' /\ CustodyInv' /\ LaunchInv'
  BY <1>1 DEF BornInv, StartedInv, CustodyInv, LaunchInv, Fresh, Handed, LaunchActive,
            PendingRow, LaunchOwns, Forgo, Unlocked, IdlePass, Reconcile, DiscardClaim,
            counters, NoOccurrence
<1>5. RowInv'
  BY <1>1, <1>3, Named DEF RowInv, TypeFacts, Handed, NoOccurrence, Forgo, Unlocked, IdlePass,
            Reconcile, DiscardClaim, counters
<1>6. PassInv'
  BY <1>1, <1>3, Named DEF PassInv, TypeFacts, LaunchOwns, LaunchActive, Forgo, Unlocked,
            IdlePass, Reconcile, DiscardClaim, counters, NoOccurrence
<1>7. ReceiptInv'
  BY <1>1, <1>3, Named DEF ReceiptInv, TypeFacts, AcceptedIsOwned, OnePointOneRoot, Forgo,
            Unlocked, IdlePass, Reconcile, DiscardClaim, counters, NoOccurrence
<1>8. RunInv'
  BY <1>1, <1>3, Named DEF RunInv, TypeFacts, OnlyOverdueRunsOverlap, Fresh, Forgo, Unlocked,
            IdlePass, Reconcile, DiscardClaim, counters, NoOccurrence
<1>9. DownInv'
  BY <1>1, <1>3, Named DEF DownInv, TypeFacts, Forgo, Unlocked, IdlePass, Reconcile,
            DiscardClaim, counters, NoOccurrence
<1>10. OverdueInv'
  BY <1>1, <1>3 DEF OverdueInv, StartedInv, Fresh, Handed, PendingRow, TypeFacts, Forgo,
            Unlocked, IdlePass, Reconcile, DiscardClaim, counters
<1> QED BY <1>2, <1>4, <1>5, <1>6, <1>7, <1>8, <1>9, <1>10 DEF ScheduleInv

LEMMA KeepWriteRow ==
    ASSUME ScheduleInv, WriteRow
    PROVE  ScheduleInv'
<1>1. ScheduleTypeOK /\ RowInv /\ PassInv /\ ReceiptInv /\ BornInv /\ StartedInv
      /\ CustodyInv /\ LaunchInv /\ RunInv /\ OverdueInv /\ DownInv
  BY DEF ScheduleInv
<1>2. ScheduleTypeOK'
  BY TypeWriteRow, <1>1
<1>3. TypeFacts /\ TypeFacts'
  BY <1>1, <1>2, FactsOfType, FactsOfTypeNext
<1>4. RowInv'
  <2>1. table.next \in Nat /\ minted \in Nat /\ edits \in Nat
    BY <1>3 DEF TypeFacts
  <2> QED BY <1>1, <1>3, <2>1, WriteRowFields DEF RowInv
<1>5. PassInv'
  <2>1. CASE pass' = IdlePass
    BY <2>1 DEF PassInv, IdlePass
  <2>2. CASE pass' = [pass EXCEPT !.pc = "snapshot"] /\ UNCHANGED queue
    <3>1. pass'.pc = "snapshot" /\ pass'.id = pass.id
      BY <1>3, <2>2 DEF TypeFacts, PassRow
    <3>2. UNCHANGED <<queue, launch, minted>> /\ pass.pc = "row"
      BY <2>2 DEF WriteRow
    <3> QED BY <1>1, <1>3, <3>1, <3>2, WriteRowFields DEF PassInv, LaunchOwns, LaunchActive
  <2> QED BY <2>1, <2>2 DEF WriteRow, Unqueue
<1>6. ReceiptInv'
  BY <1>1, <1>3, WriteRowFields, ReceiptsStand DEF TypeFacts
<1>7. BornInv'
  BY <1>1, <1>3, Named DEF BornInv, TypeFacts, WriteRow, Unqueue, IdlePass, NoOccurrence
<1>8. StartedInv'
  BY <1>1, <1>3, Named DEF StartedInv, TypeFacts, Fresh, Handed, LaunchActive, WriteRow,
            Unqueue, IdlePass, NoOccurrence
<1>9. CustodyInv'
  BY <1>1, <1>3, Named DEF CustodyInv, TypeFacts, PendingRow, WriteRow, Unqueue, IdlePass,
            NoOccurrence
<1>10. LaunchInv'
  <2>1. UNCHANGED <<launch, alive, overdue, minted, captured, receipt, started, stops>> /\ pass.pc = "row"
        /\ queue' \in {queue, [queue EXCEPT ![pass.id] = "absent"]}
    BY DEF WriteRow, Unqueue
  <2> QED BY <1>3, <2>1, WriteRowFields, Unqueued
<1>11. RunInv'
  <2>1. UNCHANGED <<launch, alive, overdue, minted, captured, receipt, started, stops>> /\ pass.pc = "row"
        /\ queue' \in {queue, [queue EXCEPT ![pass.id] = "absent"]}
    BY DEF WriteRow, Unqueue
  <2> QED BY <1>3, <2>1, WriteRowFields, Unqueued
<1>12. DownInv'
  BY <1>1, <1>3, Named DEF DownInv, TypeFacts, WriteRow, Unqueue, IdlePass, NoOccurrence
<1>13. OverdueInv'
  BY <1>1, <1>3 DEF OverdueInv, StartedInv, Fresh, Handed, PendingRow, TypeFacts, IdlePass,
            WriteRow, Unqueue
<1> QED BY <1>2, <1>4, <1>5, <1>6, <1>7, <1>8, <1>9, <1>10, <1>11, <1>12, <1>13 DEF ScheduleInv

LEMMA KeepWriteSnapshot ==
    ASSUME ScheduleInv, WriteSnapshot
    PROVE  ScheduleInv'
<1>1. ScheduleTypeOK /\ RowInv /\ PassInv /\ ReceiptInv /\ BornInv /\ StartedInv
      /\ CustodyInv /\ LaunchInv /\ RunInv /\ OverdueInv /\ DownInv
  BY DEF ScheduleInv
<1>2. ScheduleTypeOK'
  BY TypeWriteSnapshot, <1>1
<1>3. TypeFacts /\ TypeFacts'
  BY <1>1, <1>2, FactsOfType, FactsOfTypeNext
<1>4. RowInv' /\ ReceiptInv'
  BY <1>1 DEF RowInv, ReceiptInv, Handed, NoOccurrence, AcceptedIsOwned, OnePointOneRoot,
            WriteSnapshot, Unqueue, IdlePass
<1>5. PassInv'
  BY <1>1, <1>3, Named DEF PassInv, TypeFacts, LaunchOwns, LaunchActive, WriteSnapshot, Unqueue,
            IdlePass, NoOccurrence
<1>6. BornInv'
  BY <1>1, <1>3, Named DEF BornInv, TypeFacts, WriteSnapshot, Unqueue, IdlePass, NoOccurrence
<1>7. StartedInv'
  BY <1>1, <1>3, Named DEF StartedInv, TypeFacts, Fresh, Handed, LaunchActive, WriteSnapshot,
            Unqueue, IdlePass, NoOccurrence
<1>8. CustodyInv'
  BY <1>1, <1>3, Named DEF CustodyInv, TypeFacts, PendingRow, WriteSnapshot, Unqueue, IdlePass,
            NoOccurrence
<1>9. LaunchInv'
  <2>1. UNCHANGED <<table, launch, alive, overdue, minted, captured, receipt, started, stops>> /\ pass.pc = "snapshot"
        /\ queue' \in {queue, [queue EXCEPT ![pass.id] = "absent"]}
    BY DEF WriteSnapshot, Unqueue
  <2> QED BY <1>3, <2>1, Unqueued
<1>10. RunInv'
  <2>1. UNCHANGED <<table, launch, alive, overdue, minted, captured, receipt, started, stops>> /\ pass.pc = "snapshot"
        /\ queue' \in {queue, [queue EXCEPT ![pass.id] = "absent"]}
    BY DEF WriteSnapshot, Unqueue
  <2> QED BY <1>3, <2>1, Unqueued
<1>11. DownInv'
  BY <1>1, <1>3, Named DEF DownInv, TypeFacts, WriteSnapshot, Unqueue, IdlePass, NoOccurrence
<1>12. OverdueInv'
  BY <1>1, <1>3 DEF OverdueInv, StartedInv, Fresh, Handed, PendingRow, TypeFacts, WriteSnapshot,
            Unqueue, IdlePass
<1> QED BY <1>2, <1>4, <1>5, <1>6, <1>7, <1>8, <1>9, <1>10, <1>11, <1>12 DEF ScheduleInv

LEMMA KeepLocate ==
    ASSUME ScheduleInv, Locate
    PROVE  ScheduleInv'
<1>1. ScheduleTypeOK /\ RowInv /\ PassInv /\ ReceiptInv /\ BornInv /\ StartedInv
      /\ CustodyInv /\ LaunchInv /\ RunInv /\ OverdueInv /\ DownInv
  BY DEF ScheduleInv
<1>2. ScheduleTypeOK'
  BY TypeLocate, <1>1
<1>3. TypeFacts /\ TypeFacts'
  BY <1>1, <1>2, FactsOfType, FactsOfTypeNext
<1>4. RowInv' /\ ReceiptInv' /\ BornInv' /\ CustodyInv' /\ RunInv'
  BY <1>1 DEF RowInv, ReceiptInv, BornInv, CustodyInv, RunInv, Handed, NoOccurrence,
            AcceptedIsOwned, OnePointOneRoot, PendingRow, OnlyOverdueRunsOverlap, Fresh, Locate,
            Unlocked, IdleLaunch
<1>5. PassInv'
  BY <1>1, <1>3, Named DEF PassInv, TypeFacts, LaunchOwns, LaunchActive, Locate, Unlocked,
            IdleLaunch, NoOccurrence
<1>6. StartedInv'
  <2>1. /\ launch'.pc # "idle" => LaunchActive /\ launch'.id = launch.id
        /\ UNCHANGED <<started, receipt, queue, captured>>
    BY <1>3, LocateFields DEF Locate, IdleLaunch, TypeFacts
  <2> QED BY <1>1, <2>1 DEF StartedInv, LaunchActive
<1>7. LaunchInv'
  <2>1. /\ launch'.pc \in {"idle", "commit"}
        /\ launch'.pc # "idle" => LaunchActive /\ launch'.id = launch.id /\ launch'.own = launch.own
        /\ UNCHANGED <<alive, overdue, minted, receipt, queue, captured>>
    BY <1>3, LocateFields DEF Locate, IdleLaunch, TypeFacts
  <2> QED BY <1>1, <2>1 DEF LaunchInv, LaunchActive, LaunchOwns
<1>8. DownInv'
  BY <1>1, <1>3, Named DEF DownInv, TypeFacts, Locate, Unlocked, IdleLaunch, NoOccurrence
<1>9. OverdueInv'
  BY <1>1, <1>3 DEF OverdueInv, StartedInv, Fresh, Handed, PendingRow, TypeFacts, Locate,
            Unlocked, IdleLaunch
<1> QED BY <1>2, <1>4, <1>5, <1>6, <1>7, <1>8, <1>9 DEF ScheduleInv

LEMMA KeepCommit ==
    ASSUME ScheduleInv, Commit
    PROVE  ScheduleInv'
<1>1. ScheduleTypeOK /\ RowInv /\ PassInv /\ ReceiptInv /\ BornInv /\ StartedInv
      /\ CustodyInv /\ LaunchInv /\ RunInv /\ OverdueInv /\ DownInv
  BY DEF ScheduleInv
<1>2. ScheduleTypeOK'
  BY TypeCommit, <1>1
<1>3. TypeFacts /\ TypeFacts'
  BY <1>1, <1>2, FactsOfType, FactsOfTypeNext
<1>4. RowInv'
  BY <1>1, <1>3, Named DEF RowInv, TypeFacts, Handed, NoOccurrence, Commit, MayMark, Marked,
            IdleLaunch, PendingRow
<1>5. PassInv'
  BY <1>1, <1>3, CommitFields, Named DEF PassInv, LaunchOwns, LaunchActive, TypeFacts
<1>6. ReceiptInv'
  <2>1. \A q \in Occurrence : (receipt'[q] # "none" => receipt[q] # "none")
                              /\ (receipt'[q] = "accepted" => receipt[q] = "accepted")
    BY <1>3, CommitFields
  <2> QED BY <1>1, <1>3, <2>1, CommitFields, ReceiptsMoveOn
<1>7. BornInv'
  BY <1>1, <1>3, CommitFields DEF BornInv, PendingRow
<1>8. StartedInv'
  <2>1. started[launch.id] # 1
    BY <1>1, <1>3, CommitFields DEF StartedInv
  <2>2. launch'.pc # "idle" => launch'.id = launch.id
    BY <1>3, CommitFields
  <2> QED BY <1>1, <1>3, <2>1, <2>2, CommitFields DEF StartedInv, LaunchActive
<1>9. CustodyInv'
  BY <1>1, <1>3, CommitFields DEF CustodyInv, PendingRow
<1>10. LaunchInv'
  <2>1. CASE launch'.pc = "idle"
    BY <2>1 DEF LaunchInv, LaunchActive, LaunchOwns
  <2>2. CASE launch'.pc = "claimed"
    <3>1. /\ launch'.id = launch.id /\ launch'.own = launch.own /\ receipt'[launch.id] = "possible"
          /\ LaunchActive /\ launch.id \in 1..minted /\ UNCHANGED <<minted, alive, overdue>>
      BY <1>1, <1>3, <2>2, CommitFields DEF LaunchInv
    <3>2. launch.id # minted => receipt'[minted] # "possible"
      <4>1. minted \in Occurrence
        BY <1>1, <3>1, ScheduleBoundAssumption DEF ScheduleTypeOK, Occurrence
      <4> QED BY <1>1, <1>3, <3>1, <4>1, CommitFields DEF LaunchInv
    <3>3. launch.own => queue'[launch.id] = "marked" /\ captured'[launch.id] = "none"
      BY <1>1, <1>3, <3>1, CommitFields DEF LaunchInv, LaunchOwns
    <3>4. ~launch.own => /\ captured'[launch.id] \in PendingRow => captured'[launch.id] = "marked"
                         /\ captured'[launch.id] # "none"
      BY <1>1, <1>3, <3>1, CommitFields DEF LaunchInv, PendingRow
    <3> QED BY <1>1, <2>2, <3>1, <3>2, <3>3, <3>4 DEF LaunchInv, LaunchActive, LaunchOwns, Handed, PendingRow
  <2> QED BY <1>3, <2>1, <2>2, CommitFields
<1>11. RunInv'
  <2>1. alive \subseteq overdue
    BY <1>1, <1>3, CommitFields DEF LaunchInv
  <2>2. \A q \in Occurrence : /\ queue'[q] \in Fresh => queue[q] \in Fresh
                              /\ receipt[q] = "ended" => receipt'[q] = "ended"
    BY <1>3, CommitFields DEF Fresh
  <2> QED BY <1>1, <1>3, <2>1, <2>2, CommitFields DEF RunInv, OnlyOverdueRunsOverlap
<1>12. DownInv'
  BY <1>1, <1>3, Named DEF DownInv, TypeFacts, Commit, MayMark, Marked, IdleLaunch,
            NoOccurrence, PendingRow
<1>13. OverdueInv'
  BY <1>1, <1>3 DEF OverdueInv, StartedInv, Fresh, Handed, PendingRow, TypeFacts, Commit,
            MayMark, Marked, IdleLaunch
<1> QED BY <1>2, <1>4, <1>5, <1>6, <1>7, <1>8, <1>9, <1>10, <1>11, <1>12, <1>13 DEF ScheduleInv

LEMMA KeepCommitRefused ==
    ASSUME ScheduleInv, CommitRefused
    PROVE  ScheduleInv'
<1>1. ScheduleTypeOK /\ RowInv /\ PassInv /\ ReceiptInv /\ BornInv /\ StartedInv
      /\ CustodyInv /\ LaunchInv /\ RunInv /\ OverdueInv /\ DownInv
  BY DEF ScheduleInv
<1>2. ScheduleTypeOK'
  BY TypeCommitRefused, <1>1
<1>3. TypeFacts /\ TypeFacts'
  BY <1>1, <1>2, FactsOfType, FactsOfTypeNext
<1>4. RowInv' /\ ReceiptInv' /\ BornInv' /\ CustodyInv' /\ RunInv'
  BY <1>1 DEF RowInv, ReceiptInv, BornInv, CustodyInv, RunInv, Handed, NoOccurrence,
            AcceptedIsOwned, OnePointOneRoot, PendingRow, OnlyOverdueRunsOverlap, Fresh,
            CommitRefused, IdleLaunch, durable
<1>5. PassInv'
  BY <1>1, <1>3, Named DEF PassInv, TypeFacts, LaunchOwns, LaunchActive, CommitRefused,
            IdleLaunch, durable, NoOccurrence
<1>6. StartedInv'
  BY <1>1, <1>3, Named DEF StartedInv, TypeFacts, Fresh, Handed, LaunchActive, CommitRefused,
            IdleLaunch, durable, NoOccurrence
<1>7. LaunchInv'
  BY <1>1, <1>3, Named DEF LaunchInv, TypeFacts, LaunchOwns, LaunchActive, Handed,
            CommitRefused, IdleLaunch, durable, NoOccurrence, PendingRow
<1>8. DownInv'
  BY <1>1, <1>3, Named DEF DownInv, TypeFacts, CommitRefused, IdleLaunch, durable, NoOccurrence
<1>9. OverdueInv'
  BY <1>1, <1>3 DEF OverdueInv, StartedInv, Fresh, Handed, PendingRow, TypeFacts, CommitRefused,
            IdleLaunch, durable
<1> QED BY <1>2, <1>4, <1>5, <1>6, <1>7, <1>8, <1>9 DEF ScheduleInv

LEMMA KeepSaveMark ==
    ASSUME ScheduleInv, SaveMark
    PROVE  ScheduleInv'
<1>1. ScheduleTypeOK /\ RowInv /\ PassInv /\ ReceiptInv /\ BornInv /\ StartedInv
      /\ CustodyInv /\ LaunchInv /\ RunInv /\ OverdueInv /\ DownInv
  BY DEF ScheduleInv
<1>2. ScheduleTypeOK'
  BY TypeSaveMark, <1>1
<1>3. TypeFacts /\ TypeFacts'
  BY <1>1, <1>2, FactsOfType, FactsOfTypeNext
<1>4. RowInv' /\ ReceiptInv' /\ BornInv' /\ CustodyInv' /\ RunInv'
  BY <1>1 DEF RowInv, ReceiptInv, BornInv, CustodyInv, RunInv, Handed, NoOccurrence,
            AcceptedIsOwned, OnePointOneRoot, PendingRow, OnlyOverdueRunsOverlap, Fresh, SaveMark,
            Unlocked, IdleLaunch
<1>5. PassInv'
  BY <1>1, <1>3, Named DEF PassInv, TypeFacts, LaunchOwns, LaunchActive, SaveMark, Unlocked,
            IdleLaunch, NoOccurrence
<1>6. StartedInv'
  <2>1. /\ launch'.pc # "idle" => LaunchActive /\ launch'.id = launch.id
        /\ UNCHANGED <<started, receipt, queue, captured>>
    BY <1>3 DEF SaveMark, IdleLaunch, LaunchActive, TypeFacts, LaunchRow
  <2> QED BY <1>1, <2>1 DEF StartedInv, LaunchActive
<1>7. LaunchInv'
  <2>1. /\ launch.pc = "claimed" /\ launch'.pc \in {"idle", "put"}
        /\ launch'.pc # "idle" => LaunchActive /\ launch'.id = launch.id /\ launch'.own = launch.own
        /\ UNCHANGED <<alive, overdue, minted, receipt, queue, captured>>
    BY <1>3 DEF SaveMark, IdleLaunch, LaunchActive, TypeFacts, LaunchRow
  <2> QED BY <1>1, <2>1 DEF LaunchInv, LaunchActive, LaunchOwns
<1>8. DownInv'
  BY <1>1, <1>3, Named DEF DownInv, TypeFacts, SaveMark, Unlocked, IdleLaunch, NoOccurrence
<1>9. OverdueInv'
  BY <1>1, <1>3 DEF OverdueInv, StartedInv, Fresh, Handed, PendingRow, TypeFacts, SaveMark,
            Unlocked, IdleLaunch
<1> QED BY <1>2, <1>4, <1>5, <1>6, <1>7, <1>8, <1>9 DEF ScheduleInv

LEMMA KeepPut ==
    ASSUME ScheduleInv, Put
    PROVE  ScheduleInv'
<1>1. ScheduleTypeOK /\ RowInv /\ PassInv /\ ReceiptInv /\ BornInv /\ StartedInv
      /\ CustodyInv /\ LaunchInv /\ RunInv /\ OverdueInv /\ DownInv
  BY DEF ScheduleInv
<1>2. ScheduleTypeOK'
  BY TypePut, <1>1
<1>3. TypeFacts /\ TypeFacts'
  BY <1>1, <1>2, FactsOfType, FactsOfTypeNext
<1>4. RowInv'
  <2>1. /\ table.occ = table'.occ /\ table'.next = table.next /\ table'.def = table.def
        /\ table'.admitted = table.admitted
        /\ table'.possible => table.possible \/ (~table.gone /\ MayPut)
        /\ launch.pc = "put" /\ UNCHANGED <<claim, minted, receipt, edits>>
    BY <1>3, MarkedFields DEF Put, TypeFacts
  <2>2. ~table.gone /\ MayPut => table.occ # NoOccurrence /\ receipt[table.occ] \in Handed
    BY <1>1, <1>3, <2>1, Named DEF MayPut, LaunchInv, LaunchActive, TypeFacts, NoOccurrence
  <2> QED BY <1>1, <2>1, <2>2 DEF RowInv
<1>5. PassInv'
  BY <1>1, <1>3, Named DEF PassInv, TypeFacts, LaunchOwns, LaunchActive, Put, Unlocked, MayPut,
            MarkedRow, IdleLaunch, NoOccurrence
<1>6. ReceiptInv'
  <2>1. /\ table.occ = table'.occ /\ table'.next = table.next /\ table'.gone = table.gone
        /\ UNCHANGED <<claim, minted, receipt>>
    BY <1>3, MarkedFields DEF Put, TypeFacts
  <2> QED BY <1>1, <1>3, <2>1, ReceiptsStand DEF TypeFacts
<1>7. BornInv'
  BY <1>1, <1>3, PutFacts DEF BornInv
<1>8. StartedInv'
  BY <1>1, <1>3, PutFacts DEF StartedInv, LaunchActive, Fresh, Handed
<1>9. CustodyInv'
  BY <1>1, <1>3, PutFacts DEF CustodyInv, PendingRow
<1>10. LaunchInv'
  BY <1>1, <1>3, Named DEF LaunchInv, TypeFacts, LaunchOwns, LaunchActive, Handed, Put,
            Unlocked, MayPut, MarkedRow, IdleLaunch, NoOccurrence, PendingRow
<1>11. RunInv'
  <2>1. launch.id \in Nat /\ alive \subseteq Nat /\ alive' = alive \cup {launch.id}
    BY <1>3, PutFacts DEF TypeFacts
  <2>2. \A q \in alive : q \in overdue' /\ q < launch.id
    BY <1>3, PutFacts
  <2>3. OnlyOverdueRunsOverlap'
    BY <2>1, <2>2 DEF OnlyOverdueRunsOverlap
  <2>4. \A q \in alive' : q \notin overdue' => q = launch.id
    BY <2>1, <2>2
  <2>5. /\ queue'[launch.id] = "running" /\ started'[launch.id] = 1 /\ captured'[launch.id] = "none"
        /\ launch.id # minted' => table'.gone /\ receipt'[minted'] \in {"none", "ended"}
    BY <1>3, PutFacts
  <2>6. \A q \in Occurrence : q # minted' /\ queue'[q] \in Fresh => q \in stops' \/ receipt'[q] = "ended"
    BY <1>1, <1>3, PutFacts DEF RunInv, Fresh
  <2> QED BY <2>3, <2>4, <2>5, <2>6 DEF RunInv
<1>12. DownInv'
  BY <1>1, <1>3, Named DEF DownInv, TypeFacts, Put, Unlocked, MayPut, MarkedRow, IdleLaunch,
            NoOccurrence
<1>13. OverdueInv'
  <2>1. /\ started[launch.id] = 0 /\ captured[launch.id] = "none" /\ started'[launch.id] = 1
        /\ \A q \in Occurrence \ {launch.id} : queue'[q] = queue[q] /\ started'[q] = started[q]
        /\ UNCHANGED <<overdue, captured>>
    BY <1>3, PutFacts
  <2>2. \A q \in overdue : q \in Occurrence \ {launch.id}
    BY <1>1, <1>3, <2>1 DEF OverdueInv, TypeFacts
  <2> QED BY <1>1, <2>1, <2>2 DEF OverdueInv
<1> QED BY <1>2, <1>4, <1>5, <1>6, <1>7, <1>8, <1>9, <1>10, <1>11, <1>12, <1>13 DEF ScheduleInv

LEMMA KeepPutRefused ==
    ASSUME ScheduleInv, PutRefused
    PROVE  ScheduleInv'
<1>1. ScheduleTypeOK /\ RowInv /\ PassInv /\ ReceiptInv /\ BornInv /\ StartedInv
      /\ CustodyInv /\ LaunchInv /\ RunInv /\ OverdueInv /\ DownInv
  BY DEF ScheduleInv
<1>2. ScheduleTypeOK'
  BY TypePutRefused, <1>1
<1>3. TypeFacts /\ TypeFacts'
  BY <1>1, <1>2, FactsOfType, FactsOfTypeNext
<1>4. BornInv' /\ CustodyInv'
  BY <1>1 DEF BornInv, CustodyInv, PendingRow, PutRefused, Unlocked, MayPut, MarkedRow,
            IdleLaunch, NoOccurrence
<1>5. RowInv'
  <2>1. /\ table.occ = table'.occ /\ table'.next = table.next /\ table'.def = table.def
        /\ table'.admitted = table.admitted
        /\ table'.possible => table.possible \/ (~table.gone /\ MayPut)
        /\ launch.pc = "put" /\ UNCHANGED <<claim, minted, receipt, edits>>
    BY <1>3, MarkedFields DEF PutRefused, TypeFacts
  <2>2. ~table.gone /\ MayPut => table.occ # NoOccurrence /\ receipt[table.occ] \in Handed
    BY <1>1, <1>3, <2>1, Named DEF MayPut, LaunchInv, LaunchActive, TypeFacts, NoOccurrence
  <2> QED BY <1>1, <2>1, <2>2 DEF RowInv
<1>6. PassInv'
  BY <1>1, <1>3, Named DEF PassInv, TypeFacts, LaunchOwns, LaunchActive, PutRefused, Unlocked,
            MayPut, MarkedRow, IdleLaunch, NoOccurrence
<1>7. ReceiptInv'
  <2>1. /\ table.occ = table'.occ /\ table'.next = table.next /\ table'.gone = table.gone
        /\ UNCHANGED <<claim, minted, receipt>>
    BY <1>3, MarkedFields DEF PutRefused, TypeFacts
  <2> QED BY <1>1, <1>3, <2>1, ReceiptsStand DEF TypeFacts
<1>8. StartedInv'
  BY <1>1, <1>3, Named DEF StartedInv, TypeFacts, Fresh, Handed, LaunchActive, PutRefused,
            Unlocked, MayPut, MarkedRow, IdleLaunch, NoOccurrence
<1>9. LaunchInv'
  BY <1>1, <1>3, Named DEF LaunchInv, TypeFacts, LaunchOwns, LaunchActive, Handed, PutRefused,
            Unlocked, MayPut, MarkedRow, IdleLaunch, NoOccurrence, PendingRow
<1>10. RunInv'
  BY <1>1, <1>3, Named DEF RunInv, TypeFacts, OnlyOverdueRunsOverlap, Fresh, PutRefused, Unlocked,
            MayPut, MarkedRow, IdleLaunch, NoOccurrence
<1>11. DownInv'
  BY <1>1, <1>3, Named DEF DownInv, TypeFacts, PutRefused, Unlocked, MayPut, MarkedRow,
            IdleLaunch, NoOccurrence
<1>12. OverdueInv'
  BY <1>1, <1>3 DEF OverdueInv, StartedInv, Fresh, Handed, PendingRow, TypeFacts, PutRefused,
            Unlocked, MayPut, MarkedRow, IdleLaunch
<1> QED BY <1>2, <1>4, <1>5, <1>6, <1>7, <1>8, <1>9, <1>10, <1>11, <1>12 DEF ScheduleInv

LEMMA KeepChangeSchedule ==
    ASSUME ScheduleInv, ChangeSchedule
    PROVE  ScheduleInv'
<1>1. ScheduleTypeOK /\ RowInv /\ PassInv /\ ReceiptInv /\ BornInv /\ StartedInv
      /\ CustodyInv /\ LaunchInv /\ RunInv /\ OverdueInv /\ DownInv
  BY DEF ScheduleInv
<1>2. ScheduleTypeOK'
  BY TypeChangeSchedule, <1>1
<1>3. TypeFacts /\ TypeFacts'
  BY <1>1, <1>2, FactsOfType, FactsOfTypeNext
<1>4. BornInv' /\ StartedInv' /\ CustodyInv' /\ LaunchInv' /\ DownInv'
  BY <1>1 DEF BornInv, StartedInv, CustodyInv, LaunchInv, DownInv, Fresh, Handed, LaunchActive,
            PendingRow, LaunchOwns, ChangeSchedule, Edit, Unlocked, process
<1>5. RowInv'
  <2>1. table \in TableRow /\ table.next \in Nat /\ table.def \in Nat /\ edits \in Nat /\ minted \in Nat
    BY <1>3 DEF TypeFacts
  <2>2. table.occ # NoOccurrence => claim[table.occ].due \in Nat
    BY <1>1, <1>3, Named DEF TypeFacts
  <2> QED BY <1>1, <2>1, <2>2, EditFields DEF RowInv
<1>6. PassInv'
  BY <1>1, <1>3, Named DEF PassInv, TypeFacts, LaunchOwns, LaunchActive, ChangeSchedule, Edit,
            Unlocked, process
<1>7. ReceiptInv'
  BY <1>1, <1>3, EditFields, ReceiptsStand DEF TypeFacts
<1>8. RunInv'
  BY <1>1, <1>3, Named DEF RunInv, TypeFacts, OnlyOverdueRunsOverlap, Fresh, ChangeSchedule, Edit,
            Unlocked, process
<1>9. OverdueInv'
  BY <1>1, <1>3 DEF OverdueInv, StartedInv, Fresh, Handed, PendingRow, TypeFacts,
            ChangeSchedule, Edit, Unlocked, process
<1> QED BY <1>2, <1>4, <1>5, <1>6, <1>7, <1>8, <1>9 DEF ScheduleInv

LEMMA KeepCrash ==
    ASSUME ScheduleInv, Crash
    PROVE  ScheduleInv'
<1>1. ScheduleTypeOK /\ RowInv /\ PassInv /\ ReceiptInv /\ BornInv /\ StartedInv
      /\ CustodyInv /\ LaunchInv /\ RunInv /\ OverdueInv /\ DownInv
  BY DEF ScheduleInv
<1>2. ScheduleTypeOK'
  BY TypeCrash, <1>1
<1>3. TypeFacts /\ TypeFacts'
  BY <1>1, <1>2, FactsOfType, FactsOfTypeNext
<1>4. RowInv' /\ ReceiptInv'
  BY <1>1 DEF RowInv, ReceiptInv, Handed, NoOccurrence, AcceptedIsOwned, OnePointOneRoot, Crash,
            Gone, IdlePass, IdleLaunch, durable
<1>5. PassInv'
  BY <1>1, <1>3, Named DEF PassInv, TypeFacts, LaunchOwns, LaunchActive, Crash, Gone, IdlePass,
            IdleLaunch, durable, NoOccurrence
<1>6. BornInv'
  BY <1>1, <1>3, Named DEF BornInv, TypeFacts, Crash, Gone, IdlePass, IdleLaunch, durable,
            NoOccurrence
<1>7. StartedInv'
  BY <1>1, <1>3, Named DEF StartedInv, TypeFacts, Fresh, Handed, LaunchActive, Crash, Gone,
            IdlePass, IdleLaunch, durable, NoOccurrence
<1>8. CustodyInv'
  BY <1>1, <1>3, Named DEF CustodyInv, TypeFacts, PendingRow, Crash, Gone, IdlePass, IdleLaunch,
            durable, NoOccurrence
<1>9. LaunchInv'
  BY <1>1, <1>3, Named DEF LaunchInv, TypeFacts, LaunchOwns, LaunchActive, Handed, Crash, Gone,
            IdlePass, IdleLaunch, durable, NoOccurrence, PendingRow
<1>10. RunInv'
  BY <1>1, <1>3, Named DEF RunInv, TypeFacts, OnlyOverdueRunsOverlap, Fresh, Crash, Gone, IdlePass,
            IdleLaunch, durable, NoOccurrence
<1>11. DownInv'
  BY <1>1, <1>3, Named DEF DownInv, TypeFacts, Crash, Gone, IdlePass, IdleLaunch, durable,
            NoOccurrence
<1>12. OverdueInv'
  BY <1>1, <1>3 DEF OverdueInv, StartedInv, Fresh, Handed, PendingRow, TypeFacts, Crash, Gone,
            IdlePass, IdleLaunch, durable
<1> QED BY <1>2, <1>4, <1>5, <1>6, <1>7, <1>8, <1>9, <1>10, <1>11, <1>12 DEF ScheduleInv

LEMMA KeepPlannedRestart ==
    ASSUME ScheduleInv, PlannedRestart
    PROVE  ScheduleInv'
<1>1. ScheduleTypeOK /\ RowInv /\ PassInv /\ ReceiptInv /\ BornInv /\ StartedInv
      /\ CustodyInv /\ LaunchInv /\ RunInv /\ OverdueInv /\ DownInv
  BY DEF ScheduleInv
<1>2. ScheduleTypeOK'
  BY TypePlannedRestart, <1>1
<1>3. TypeFacts /\ TypeFacts'
  BY <1>1, <1>2, FactsOfType, FactsOfTypeNext
<1>4. RowInv' /\ ReceiptInv'
  BY <1>1 DEF RowInv, ReceiptInv, Handed, NoOccurrence, AcceptedIsOwned, OnePointOneRoot,
            PlannedRestart, Gone, Unlocked, IdlePass, IdleLaunch
<1>5. PassInv'
  BY <1>1, <1>3, Named DEF PassInv, TypeFacts, LaunchOwns, LaunchActive, PlannedRestart, Gone,
            Unlocked, IdlePass, IdleLaunch, NoOccurrence
<1>6. BornInv'
  BY <1>1, <1>3, Named DEF BornInv, TypeFacts, PlannedRestart, Gone, Unlocked, IdlePass,
            IdleLaunch, NoOccurrence
<1>7. StartedInv'
  BY <1>1, <1>3, Named DEF StartedInv, TypeFacts, Fresh, Handed, LaunchActive, PlannedRestart,
            Gone, Unlocked, IdlePass, IdleLaunch, NoOccurrence
<1>8. CustodyInv'
  BY <1>1, <1>3, Named DEF CustodyInv, TypeFacts, PendingRow, PlannedRestart, Gone, Unlocked,
            IdlePass, IdleLaunch, NoOccurrence
<1>9. LaunchInv'
  BY <1>1, <1>3, Named DEF LaunchInv, TypeFacts, LaunchOwns, LaunchActive, Handed,
            PlannedRestart, Gone, Unlocked, IdlePass, IdleLaunch, NoOccurrence, PendingRow
<1>10. RunInv'
  BY <1>1, <1>3, Named DEF RunInv, TypeFacts, OnlyOverdueRunsOverlap, Fresh, PlannedRestart, Gone,
            Unlocked, IdlePass, IdleLaunch, NoOccurrence
<1>11. DownInv'
  BY <1>1, <1>3, Named DEF DownInv, TypeFacts, PlannedRestart, Gone, Unlocked, IdlePass,
            IdleLaunch, NoOccurrence
<1>12. OverdueInv'
  BY <1>1, <1>3 DEF OverdueInv, StartedInv, Fresh, Handed, PendingRow, TypeFacts,
            PlannedRestart, Gone, Unlocked, IdlePass, IdleLaunch
<1> QED BY <1>2, <1>4, <1>5, <1>6, <1>7, <1>8, <1>9, <1>10, <1>11, <1>12 DEF ScheduleInv

LEMMA KeepRestore ==
    ASSUME ScheduleInv, Restore
    PROVE  ScheduleInv'
<1>1. ScheduleTypeOK /\ RowInv /\ PassInv /\ ReceiptInv /\ BornInv /\ StartedInv
      /\ CustodyInv /\ LaunchInv /\ RunInv /\ OverdueInv /\ DownInv
  BY DEF ScheduleInv
<1>2. ScheduleTypeOK'
  BY TypeRestore, <1>1
<1>3. TypeFacts /\ TypeFacts'
  BY <1>1, <1>2, FactsOfType, FactsOfTypeNext
<1>4. RowInv' /\ ReceiptInv'
  BY <1>1 DEF RowInv, ReceiptInv, Handed, NoOccurrence, AcceptedIsOwned, OnePointOneRoot,
            Restore, Restored, PendingRow
<1>5. PassInv'
  BY <1>1 DEF Restore, DownInv, PassInv
<1>6. BornInv'
  BY <1>1, <1>3, Named DEF BornInv, TypeFacts, Restore, Restored, PendingRow
<1>7. StartedInv'
  BY <1>1, <1>3, Named DEF StartedInv, TypeFacts, Fresh, Handed, LaunchActive, Restore,
            Restored, PendingRow
<1>8. CustodyInv'
  BY <1>1, <1>3, Named DEF CustodyInv, TypeFacts, PendingRow, Restore, Restored
<1>9. LaunchInv'
  BY <1>1 DEF Restore, DownInv, LaunchInv, LaunchActive, LaunchOwns
<1>10. RunInv'
  <2>1. alive = {} /\ UNCHANGED <<alive, overdue, minted, receipt>>
    BY <1>1 DEF Restore, DownInv
  <2>2. \A o \in Occurrence : queue'[o] \in Fresh => receipt[o] = "accepted"
    BY <1>3 DEF Restore, Restored, Fresh, TypeFacts
  <2>3. \A o \in Occurrence : receipt[o] = "accepted" => o = minted
    BY <1>1, <1>3 DEF ReceiptInv, AcceptedIsOwned, RowInv, TypeFacts, NoOccurrence
  <2> QED BY <2>1, <2>2, <2>3 DEF RunInv, OnlyOverdueRunsOverlap
<1>11. DownInv'
  BY <1>1, <1>3, Named DEF DownInv, TypeFacts, Restore, Restored, PendingRow
<1>12. OverdueInv'
  <2>1. overdue' = {}
    BY <1>1 DEF Restore, DownInv
  <2>2. \A q \in Occurrence : queue'[q] # "running"
    BY DEF Restore, Restored
  <2> QED BY <2>1, <2>2 DEF OverdueInv
<1> QED BY <1>2, <1>4, <1>5, <1>6, <1>7, <1>8, <1>9, <1>10, <1>11, <1>12 DEF ScheduleInv

LEMMA KeepChooseLaunch ==
    ASSUME ScheduleInv, NEW o \in Occurrence, ChooseLaunch(o)
    PROVE  ScheduleInv'
<1>1. ScheduleTypeOK /\ RowInv /\ PassInv /\ ReceiptInv /\ BornInv /\ StartedInv
      /\ CustodyInv /\ LaunchInv /\ RunInv /\ OverdueInv /\ DownInv
  BY DEF ScheduleInv
<1>2. ScheduleTypeOK'
  BY TypeChooseLaunch, <1>1
<1>3. TypeFacts /\ TypeFacts'
  BY <1>1, <1>2, FactsOfType, FactsOfTypeNext
<1>4. RowInv' /\ ReceiptInv' /\ BornInv' /\ CustodyInv' /\ RunInv'
  BY <1>1 DEF RowInv, ReceiptInv, BornInv, CustodyInv, RunInv, Handed, NoOccurrence,
            AcceptedIsOwned, OnePointOneRoot, PendingRow, OnlyOverdueRunsOverlap, Fresh, ChooseLaunch,
            Unlocked, durable, counters
<1>5. PassInv'
  BY <1>1, <1>3, Named DEF PassInv, TypeFacts, LaunchOwns, LaunchActive, ChooseLaunch, Unlocked,
            durable, counters
<1>6. StartedInv'
  BY <1>1, <1>3, Named DEF StartedInv, TypeFacts, Fresh, Handed, LaunchActive, ChooseLaunch,
            Unlocked, durable, counters
<1>7. LaunchInv'
  <2>1. /\ queue[o] \in {"queued", "marked"} /\ o \notin stops /\ receipt[o] # "ended"
        /\ launch'.pc \in {"locate", "commit"} /\ launch'.id = o /\ launch'.own
        /\ UNCHANGED <<alive, overdue, minted, queue, captured, receipt>>
    BY DEF ChooseLaunch, durable, process, counters
  <2>2. o = minted /\ captured[o] = "none" /\ \A p \in alive : p \in overdue /\ p <= minted
    BY <1>3, <2>1, ChosenAlone
  <2>3. o \in 1..minted
    BY <1>3, <2>2 DEF TypeFacts
  <2> QED BY <2>1, <2>2, <2>3 DEF LaunchInv, LaunchActive, LaunchOwns, PendingRow
<1>8. DownInv'
  BY <1>1, <1>3, Named DEF DownInv, TypeFacts, ChooseLaunch, Unlocked, durable, counters
<1>9. OverdueInv'
  BY <1>1, <1>3 DEF OverdueInv, StartedInv, Fresh, Handed, PendingRow, TypeFacts, ChooseLaunch,
            Unlocked, durable, counters, process
<1> QED BY <1>2, <1>4, <1>5, <1>6, <1>7, <1>8, <1>9 DEF ScheduleInv

LEMMA KeepComplete ==
    ASSUME ScheduleInv, NEW o \in Occurrence, Complete(o)
    PROVE  ScheduleInv'
<1>1. ScheduleTypeOK /\ RowInv /\ PassInv /\ ReceiptInv /\ BornInv /\ StartedInv
      /\ CustodyInv /\ LaunchInv /\ RunInv /\ OverdueInv /\ DownInv
  BY DEF ScheduleInv
<1>2. ScheduleTypeOK'
  BY TypeComplete, <1>1
<1>3. TypeFacts /\ TypeFacts'
  BY <1>1, <1>2, FactsOfType, FactsOfTypeNext
<1>4. PassInv' /\ DownInv'
  BY <1>1 DEF PassInv, DownInv, LaunchOwns, LaunchActive, Complete, process, counters
<1>5. RowInv'
  BY <1>1, <1>3, Named DEF RowInv, TypeFacts, Handed, NoOccurrence, Complete, process, counters
<1>6. ReceiptInv'
  <2>1. receipt[o] # "none"
    BY <1>3, Processes DEF Complete, Handed
  <2> QED BY <1>1, <1>3, <2>1, ReceiptEnds DEF Complete
<1>7. BornInv'
  BY <1>1, <1>3, Named DEF BornInv, TypeFacts, Complete, process, counters
<1>8. StartedInv'
  BY <1>1, <1>3, Named DEF StartedInv, TypeFacts, Fresh, Handed, LaunchActive, Complete,
            process, counters
<1>9. CustodyInv'
  <2>1. queue[o] \in {"running", "absent"} /\ captured[o] \in {"none", "running", "miss", "missed"}
    BY <1>3, Processes DEF Complete
  <2>2. /\ receipt'[o] = "ended" /\ \A q \in Occurrence \ {o} : receipt'[q] = receipt[q]
        /\ UNCHANGED <<captured, stops, queue, alive, overdue>>
    BY <1>3 DEF Complete, process, TypeFacts
  <2> QED BY <1>1, <2>1, <2>2 DEF CustodyInv, PendingRow
<1>10. LaunchInv'
  <2>1. /\ receipt'[o] = "ended" /\ \A q \in Occurrence \ {o} : receipt'[q] = receipt[q]
        /\ UNCHANGED <<launch, alive, overdue, minted, queue, captured>>
    BY <1>3 DEF Complete, process, TypeFacts
  <2>2. minted \in Occurrence /\ ~(LaunchActive /\ launch.id = o)
    BY <1>3, Processes DEF Complete
  <2>3. LaunchActive => launch.id \in Occurrence
    BY <1>1, Named
  <2> QED BY <1>1, <2>1, <2>2, <2>3 DEF LaunchInv, LaunchActive, LaunchOwns, Handed
<1>11. RunInv'
  BY <1>1, <1>3, Named DEF RunInv, TypeFacts, OnlyOverdueRunsOverlap, Fresh, Complete, process,
            counters
<1>12. OverdueInv'
  BY <1>1, <1>3 DEF OverdueInv, StartedInv, Fresh, Handed, PendingRow, TypeFacts, Complete,
            process, counters
<1> QED BY <1>2, <1>4, <1>5, <1>6, <1>7, <1>8, <1>9, <1>10, <1>11, <1>12 DEF ScheduleInv

LEMMA KeepRetire ==
    ASSUME ScheduleInv, NEW o \in Occurrence, Retire(o)
    PROVE  ScheduleInv'
<1>1. ScheduleTypeOK /\ RowInv /\ PassInv /\ ReceiptInv /\ BornInv /\ StartedInv
      /\ CustodyInv /\ LaunchInv /\ RunInv /\ OverdueInv /\ DownInv
  BY DEF ScheduleInv
<1>2. ScheduleTypeOK'
  BY TypeRetire, <1>1
<1>3. TypeFacts /\ TypeFacts'
  BY <1>1, <1>2, FactsOfType, FactsOfTypeNext
<1>4. RowInv' /\ ReceiptInv'
  BY <1>1 DEF RowInv, ReceiptInv, Handed, NoOccurrence, AcceptedIsOwned, OnePointOneRoot,
            Retire, Unlocked
<1>5. PassInv'
  BY <1>1, <1>3, Named DEF PassInv, TypeFacts, LaunchOwns, LaunchActive, Retire, Unlocked
<1>6. BornInv'
  BY <1>1, <1>3, Named DEF BornInv, TypeFacts, Retire, Unlocked
<1>7. StartedInv'
  BY <1>1, <1>3, Named DEF StartedInv, TypeFacts, Fresh, Handed, LaunchActive, Retire, Unlocked
<1>8. CustodyInv'
  BY <1>1, <1>3, Named DEF CustodyInv, TypeFacts, PendingRow, Retire, Unlocked
<1>9. LaunchInv'
  BY <1>1, <1>3, Named DEF LaunchInv, TypeFacts, LaunchOwns, LaunchActive, Handed, Retire,
            Unlocked, PendingRow
<1>10. RunInv'
  BY <1>1, <1>3, Named DEF RunInv, TypeFacts, OnlyOverdueRunsOverlap, Fresh, Retire, Unlocked
<1>11. DownInv'
  BY <1>1, <1>3, Named DEF DownInv, TypeFacts, Retire, Unlocked
<1>12. OverdueInv'
  BY <1>1, <1>3 DEF OverdueInv, StartedInv, Fresh, Handed, PendingRow, TypeFacts, Retire,
            Unlocked
<1> QED BY <1>2, <1>4, <1>5, <1>6, <1>7, <1>8, <1>9, <1>10, <1>11, <1>12 DEF ScheduleInv

LEMMA KeepTimeout ==
    ASSUME ScheduleInv, NEW o \in Occurrence, Timeout(o)
    PROVE  ScheduleInv'
<1>1. ScheduleTypeOK /\ RowInv /\ PassInv /\ ReceiptInv /\ BornInv /\ StartedInv
      /\ CustodyInv /\ LaunchInv /\ RunInv /\ OverdueInv /\ DownInv
  BY DEF ScheduleInv
<1>2. ScheduleTypeOK'
  BY TypeTimeout, <1>1
<1>3. TypeFacts /\ TypeFacts'
  BY <1>1, <1>2, FactsOfType, FactsOfTypeNext
<1>4. RowInv' /\ ReceiptInv'
  BY <1>1 DEF RowInv, ReceiptInv, Handed, NoOccurrence, AcceptedIsOwned, OnePointOneRoot,
            Timeout, Unlocked
<1>5. /\ queue[o] = "running" /\ queue'[o] = "absent" /\ o \notin stops
      /\ \A q \in Occurrence \ {o} : queue'[q] = queue[q]
      /\ overdue' = overdue \cup {o}
      /\ pass.pc \in {"idle", "prepared"} /\ server = "up"
      /\ UNCHANGED <<table, claim, minted, receipt, stops, server, pass, launch, captured, alive, started>>
  BY <1>3 DEF Timeout, Unlocked, TypeFacts
<1>6. PassInv' /\ BornInv' /\ DownInv'
  BY <1>1, <1>5 DEF PassInv, BornInv, DownInv
<1>7. StartedInv' /\ CustodyInv'
  BY <1>1, <1>5 DEF StartedInv, CustodyInv, Fresh, LaunchActive, PendingRow
<1>8. LaunchInv'
  <2>1. LaunchActive => launch.id \in Occurrence
    BY <1>1, Named
  <2> QED BY <1>1, <1>5, <2>1 DEF LaunchInv, LaunchActive, LaunchOwns
<1>9. RunInv'
  BY <1>1, <1>3, <1>5 DEF RunInv, TypeFacts, OnlyOverdueRunsOverlap, Fresh
<1>10. OverdueInv'
  <2>1. started[o] = 1 /\ captured[o] \in {"none", "miss", "missed", "settled"}
    BY <1>1, <1>5 DEF CustodyInv, OverdueInv
  <2> QED BY <1>1, <1>3, <1>5, <2>1 DEF OverdueInv, TypeFacts
<1> QED BY <1>2, <1>4, <1>6, <1>7, <1>8, <1>9, <1>10 DEF ScheduleInv

LEMMA KeepKill ==
    ASSUME ScheduleInv, NEW o \in Occurrence, Kill(o)
    PROVE  ScheduleInv'
<1>1. ScheduleTypeOK /\ RowInv /\ PassInv /\ ReceiptInv /\ BornInv /\ StartedInv
      /\ CustodyInv /\ LaunchInv /\ RunInv /\ OverdueInv /\ DownInv
  BY DEF ScheduleInv
<1>2. ScheduleTypeOK'
  BY TypeKill, <1>1
<1>3. TypeFacts /\ TypeFacts'
  BY <1>1, <1>2, FactsOfType, FactsOfTypeNext
<1>4. /\ alive' = alive \ {o} /\ server = "up"
      /\ UNCHANGED <<table, claim, minted, receipt, stops, server, queue, pass, launch, captured,
                     overdue, started, edits>>
  BY DEF Kill, durable, counters
<1>5. RowInv' /\ PassInv' /\ ReceiptInv' /\ BornInv' /\ OverdueInv' /\ DownInv'
  BY <1>1, <1>4 DEF RowInv, PassInv, ReceiptInv, BornInv, OverdueInv, DownInv, AcceptedIsOwned,
                    OnePointOneRoot, LaunchOwns, LaunchActive
<1>6. StartedInv' /\ CustodyInv' /\ LaunchInv'
  BY <1>1, <1>4 DEF StartedInv, CustodyInv, LaunchInv, LaunchOwns, LaunchActive
<1>7. RunInv'
  BY <1>1, <1>4 DEF RunInv, OnlyOverdueRunsOverlap
<1> QED BY <1>2, <1>5, <1>6, <1>7 DEF ScheduleInv

LEMMA KeepPublish ==
    ASSUME ScheduleInv, NEW o \in Occurrence, Publish(o)
    PROVE  ScheduleInv'
<1>1. ScheduleTypeOK /\ RowInv /\ PassInv /\ ReceiptInv /\ BornInv /\ StartedInv
      /\ CustodyInv /\ LaunchInv /\ RunInv /\ OverdueInv /\ DownInv
  BY DEF ScheduleInv
<1>2. ScheduleTypeOK'
  BY TypePublish, <1>1
<1>3. TypeFacts /\ TypeFacts'
  BY <1>1, <1>2, FactsOfType, FactsOfTypeNext
<1>4. /\ o \in overdue /\ receipt'[o] = "ended" /\ server = "up"
      /\ \A q \in Occurrence \ {o} : receipt'[q] = receipt[q]
      /\ UNCHANGED <<table, claim, minted, stops, server, queue, pass, launch, captured, alive,
                     overdue, started, edits>>
  BY <1>3 DEF Publish, TypeFacts, process, counters
<1>5. /\ started[o] = 1 /\ queue[o] = "absent" /\ captured[o] \notin PendingRow
      /\ receipt[o] \in Handed /\ ~(LaunchActive /\ launch.id = o)
  BY <1>1, <1>4 DEF OverdueInv, StartedInv, PendingRow
<1>6. RowInv' /\ PassInv' /\ BornInv' /\ OverdueInv' /\ DownInv'
  BY <1>1, <1>3, <1>4, <1>5, Named DEF RowInv, PassInv, BornInv, OverdueInv, DownInv, Handed,
                    LaunchOwns, LaunchActive, TypeFacts
<1>7. ReceiptInv'
  BY <1>1, <1>3, <1>5, ReceiptEnds DEF Publish, Handed
<1>8. StartedInv' /\ CustodyInv'
  BY <1>1, <1>4, <1>5 DEF StartedInv, CustodyInv, LaunchActive, Handed, PendingRow
<1>9. LaunchInv'
  <2>1. LaunchActive => launch.id \in Occurrence /\ launch.id # o
    BY <1>1, <1>5, Named
  <2>2. minted \in Occurrence => receipt'[minted] \in {receipt[minted], "ended"}
    BY <1>4
  <2>3. LaunchActive => minted \in Occurrence
    BY <1>1, <1>3, ScheduleBoundAssumption DEF LaunchInv, ScheduleTypeOK, Occurrence
  <2> QED BY <1>1, <1>4, <2>1, <2>2, <2>3 DEF LaunchInv, LaunchActive, LaunchOwns, Handed
<1>10. RunInv'
  <2>1. \A q \in Occurrence : receipt'[q] \in {receipt[q], "ended"}
    BY <1>4
  <2>2. \A q \in alive : minted \in Occurrence
    BY <1>3, Processes
  <2> QED BY <1>1, <1>4, <2>1, <2>2 DEF RunInv, OnlyOverdueRunsOverlap
<1> QED BY <1>2, <1>6, <1>7, <1>8, <1>9, <1>10 DEF ScheduleInv

LEMMA KeepRespawn ==
    ASSUME ScheduleInv, NEW o \in Occurrence, Respawn(o)
    PROVE  ScheduleInv'
<1>1. ScheduleTypeOK /\ RowInv /\ PassInv /\ ReceiptInv /\ BornInv /\ StartedInv
      /\ CustodyInv /\ LaunchInv /\ RunInv /\ OverdueInv /\ DownInv
  BY DEF ScheduleInv
<1>2. ScheduleTypeOK'
  BY TypeRespawn, <1>1
<1>3. TypeFacts /\ TypeFacts'
  BY <1>1, <1>2, FactsOfType, FactsOfTypeNext
<1>4. /\ overdue' = overdue \ {o} /\ o \notin alive /\ server = "up"
      /\ UNCHANGED <<table, claim, minted, receipt, stops, server, queue, pass, launch, captured,
                     alive, started, edits>>
  BY DEF Respawn, Unlocked
<1>5. RowInv' /\ PassInv' /\ ReceiptInv' /\ BornInv' /\ OverdueInv' /\ DownInv'
  BY <1>1, <1>4 DEF RowInv, PassInv, ReceiptInv, BornInv, OverdueInv, DownInv, AcceptedIsOwned,
                    OnePointOneRoot, LaunchOwns, LaunchActive
<1>6. StartedInv' /\ CustodyInv' /\ LaunchInv'
  BY <1>1, <1>4 DEF StartedInv, CustodyInv, LaunchInv, LaunchOwns, LaunchActive
<1>7. RunInv'
  BY <1>1, <1>4 DEF RunInv, OnlyOverdueRunsOverlap
<1> QED BY <1>2, <1>5, <1>6, <1>7 DEF ScheduleInv

LEMMA KeepRequestStop ==
    ASSUME ScheduleInv, NEW o \in Occurrence, RequestStop(o)
    PROVE  ScheduleInv'
<1>1. ScheduleTypeOK /\ RowInv /\ PassInv /\ ReceiptInv /\ BornInv /\ StartedInv
      /\ CustodyInv /\ LaunchInv /\ RunInv /\ OverdueInv /\ DownInv
  BY DEF ScheduleInv
<1>2. ScheduleTypeOK'
  BY TypeRequestStop, <1>1
<1>3. TypeFacts /\ TypeFacts'
  BY <1>1, <1>2, FactsOfType, FactsOfTypeNext
<1>4. RowInv' /\ PassInv' /\ ReceiptInv' /\ StartedInv' /\ LaunchInv' /\ DownInv'
  BY <1>1 DEF RowInv, PassInv, ReceiptInv, StartedInv, LaunchInv, DownInv, Handed, NoOccurrence,
            LaunchOwns, LaunchActive, AcceptedIsOwned, OnePointOneRoot, Fresh, RequestStop,
            process, PendingRow
<1>5. BornInv'
  BY <1>1, <1>3, Named DEF BornInv, TypeFacts, RequestStop, process
<1>6. CustodyInv'
  BY <1>1, <1>3, Named DEF CustodyInv, TypeFacts, PendingRow, RequestStop, process
<1>7. RunInv'
  BY <1>1, <1>3, Named DEF RunInv, TypeFacts, OnlyOverdueRunsOverlap, Fresh, RequestStop, process
<1>8. OverdueInv'
  BY <1>1, <1>3 DEF OverdueInv, StartedInv, Fresh, Handed, PendingRow, TypeFacts, RequestStop,
            process
<1> QED BY <1>2, <1>4, <1>5, <1>6, <1>7, <1>8 DEF ScheduleInv

LEMMA KeepCapture ==
    ASSUME ScheduleInv, NEW o \in Occurrence, Capture(o)
    PROVE  ScheduleInv'
<1>1. ScheduleTypeOK /\ RowInv /\ PassInv /\ ReceiptInv /\ BornInv /\ StartedInv
      /\ CustodyInv /\ LaunchInv /\ RunInv /\ OverdueInv /\ DownInv
  BY DEF ScheduleInv
<1>2. ScheduleTypeOK'
  BY TypeCapture, <1>1
<1>3. TypeFacts /\ TypeFacts'
  BY <1>1, <1>2, FactsOfType, FactsOfTypeNext
<1>4. RowInv' /\ ReceiptInv'
  BY <1>1 DEF RowInv, ReceiptInv, Handed, NoOccurrence, AcceptedIsOwned, OnePointOneRoot,
            Capture, Unlocked, Live, durable, counters, PendingRow
<1>5. PassInv'
  BY <1>1, <1>3, Named DEF PassInv, TypeFacts, LaunchOwns, LaunchActive, Capture, Unlocked,
            Live, durable, counters, PendingRow
<1>6. BornInv'
  BY <1>1, <1>3, Named DEF BornInv, TypeFacts, Capture, Unlocked, Live, durable, counters,
            PendingRow
<1>7. StartedInv'
  BY <1>1, <1>3, Named DEF StartedInv, TypeFacts, Fresh, Handed, LaunchActive, Capture,
            Unlocked, Live, durable, counters, PendingRow
<1>8. CustodyInv'
  BY <1>1, <1>3, Named DEF CustodyInv, TypeFacts, PendingRow, Capture, Unlocked, Live, durable,
            counters
<1>9. LaunchInv'
  <2>1. /\ captured[o] = "none" /\ o \in stops
        /\ captured'[o] = IF queue[o] # "absent" THEN queue[o] ELSE "miss"
        /\ \A q \in Occurrence \ {o} : queue'[q] = queue[q] /\ captured'[q] = captured[q]
        /\ launch' = IF launch.id = o THEN [launch EXCEPT !.own = FALSE] ELSE launch
        /\ UNCHANGED <<alive, overdue, minted, receipt>>
    BY <1>3 DEF Capture, Live, TypeFacts, durable, PendingRow
  <2>2. /\ launch'.pc = launch.pc /\ launch'.id = launch.id
        /\ launch.id = o => ~launch'.own
        /\ launch.id # o => launch'.own = launch.own
    BY <1>3, <2>1 DEF TypeFacts, LaunchRow
  <2>3. LaunchActive => launch.id \in Occurrence
    BY <1>1, Named
  <2>4. CASE launch.id = o
    <3>1. LaunchActive /\ queue[o] \in PendingRow => queue[o] \in {"queued", "marked"}
      BY <1>1, <2>1, <2>4 DEF LaunchInv, LaunchOwns, CustodyInv
    <3>2. queue[o] # "none"
      BY <1>3 DEF TypeFacts
    <3> QED BY <1>1, <2>1, <2>2, <2>4, <3>1, <3>2 DEF LaunchInv, LaunchActive, LaunchOwns, PendingRow
  <2>5. CASE launch.id # o
    BY <1>1, <2>1, <2>2, <2>3, <2>5 DEF LaunchInv, LaunchActive, LaunchOwns
  <2> QED BY <2>4, <2>5
<1>10. RunInv'
  BY <1>1, <1>3, Named DEF RunInv, TypeFacts, OnlyOverdueRunsOverlap, Fresh, Capture, Unlocked, Live,
            durable, counters, PendingRow
<1>11. DownInv'
  BY <1>1, <1>3, Named DEF DownInv, TypeFacts, Capture, Unlocked, Live, durable, counters,
            PendingRow
<1>12. OverdueInv'
  BY <1>1, <1>3 DEF OverdueInv, StartedInv, Fresh, Handed, PendingRow, TypeFacts, Capture,
            Unlocked, Live, durable, counters
<1> QED BY <1>2, <1>4, <1>5, <1>6, <1>7, <1>8, <1>9, <1>10, <1>11, <1>12 DEF ScheduleInv

LEMMA KeepWriteCancelled ==
    ASSUME ScheduleInv, NEW o \in Occurrence, WriteCancelled(o)
    PROVE  ScheduleInv'
<1>1. ScheduleTypeOK /\ RowInv /\ PassInv /\ ReceiptInv /\ BornInv /\ StartedInv
      /\ CustodyInv /\ LaunchInv /\ RunInv /\ OverdueInv /\ DownInv
  BY DEF ScheduleInv
<1>2. ScheduleTypeOK'
  BY TypeWriteCancelled, <1>1
<1>3. TypeFacts /\ TypeFacts'
  BY <1>1, <1>2, FactsOfType, FactsOfTypeNext
<1>4. PassInv'
  BY <1>1 DEF PassInv, LaunchOwns, LaunchActive, WriteCancelled, counters, PendingRow
<1>5. RowInv'
  BY <1>1, <1>3, Named DEF RowInv, TypeFacts, Handed, NoOccurrence, WriteCancelled, counters,
            PendingRow
<1>6. ReceiptInv'
  <2>1. receipt[o] # "none"
    BY <1>1 DEF WriteCancelled, BornInv, PendingRow
  <2> QED BY <1>1, <1>3, <2>1, ReceiptEnds DEF WriteCancelled
<1>7. BornInv'
  BY <1>1, <1>3, Named DEF BornInv, TypeFacts, WriteCancelled, counters, PendingRow
<1>8. StartedInv'
  BY <1>1, <1>3, Named DEF StartedInv, TypeFacts, Fresh, Handed, LaunchActive, WriteCancelled,
            counters, PendingRow
<1>9. CustodyInv'
  <2>1. /\ o \in stops /\ receipt'[o] = "ended" /\ captured'[o] \in {"written", "missed"}
        /\ \A q \in Occurrence \ {o} : captured'[q] = captured[q] /\ receipt'[q] = receipt[q]
        /\ alive' \subseteq alive /\ UNCHANGED <<stops, queue>>
    BY <1>1, <1>3 DEF WriteCancelled, CustodyInv, PendingRow, TypeFacts
  <2>2. captured'[o] = "written" => o \notin alive'
    <3>1. captured[o] \in PendingRow => o \notin alive
      BY <1>3, Processes DEF PendingRow
    <3> QED BY <1>3, <3>1 DEF WriteCancelled, TypeFacts
  <2> QED BY <1>1, <2>1, <2>2 DEF CustodyInv, PendingRow
<1>10. LaunchInv'
  BY <1>1, <1>3, Named DEF LaunchInv, TypeFacts, LaunchOwns, LaunchActive, Handed,
            WriteCancelled, counters, PendingRow
<1>11. RunInv'
  BY <1>1, <1>3, Named DEF RunInv, TypeFacts, OnlyOverdueRunsOverlap, Fresh, WriteCancelled, counters,
            PendingRow
<1>12. DownInv'
  BY <1>1, <1>3, Named DEF DownInv, TypeFacts, WriteCancelled, counters, PendingRow
<1>13. OverdueInv'
  BY <1>1, <1>3 DEF OverdueInv, StartedInv, Fresh, Handed, PendingRow, TypeFacts,
            WriteCancelled, counters
<1> QED BY <1>2, <1>4, <1>5, <1>6, <1>7, <1>8, <1>9, <1>10, <1>11, <1>12, <1>13 DEF ScheduleInv

LEMMA KeepSettleStop ==
    ASSUME ScheduleInv, NEW o \in Occurrence, SettleStop(o)
    PROVE  ScheduleInv'
<1>1. ScheduleTypeOK /\ RowInv /\ PassInv /\ ReceiptInv /\ BornInv /\ StartedInv
      /\ CustodyInv /\ LaunchInv /\ RunInv /\ OverdueInv /\ DownInv
  BY DEF ScheduleInv
<1>2. ScheduleTypeOK'
  BY TypeSettleStop, <1>1
<1>3. TypeFacts /\ TypeFacts'
  BY <1>1, <1>2, FactsOfType, FactsOfTypeNext
<1>4. RowInv' /\ PassInv' /\ ReceiptInv' /\ DownInv'
  BY <1>1 DEF RowInv, PassInv, ReceiptInv, DownInv, Handed, NoOccurrence, LaunchOwns,
            LaunchActive, AcceptedIsOwned, OnePointOneRoot, SettleStop, counters
<1>5. BornInv'
  BY <1>1, <1>3, Named DEF BornInv, TypeFacts, SettleStop, counters
<1>6. StartedInv'
  BY <1>1, <1>3, Named DEF StartedInv, TypeFacts, Fresh, Handed, LaunchActive, SettleStop,
            counters
<1>7. CustodyInv'
  BY <1>1, <1>3, Named DEF CustodyInv, TypeFacts, PendingRow, SettleStop, counters
<1>8. LaunchInv'
  <2>1. /\ captured[o] \in {"written", "missed"} /\ receipt[o] = "ended"
        /\ captured'[o] \in {"none", "settled"}
        /\ \A q \in Occurrence \ {o} : captured'[q] = captured[q]
        /\ UNCHANGED <<alive, overdue, minted, queue, launch, receipt>>
    BY <1>1, <1>3 DEF SettleStop, CustodyInv, TypeFacts
  <2>2. LaunchActive => launch.id \in Occurrence
    BY <1>1, Named
  <2> QED BY <1>1, <2>1, <2>2 DEF LaunchInv, LaunchActive, LaunchOwns, PendingRow
<1>9. RunInv'
  <2>1. /\ receipt[o] = "ended" /\ stops' = stops \ {o} /\ (o \in alive => o \in overdue)
        /\ \A q \in Occurrence \ {o} : captured'[q] = captured[q]
        /\ UNCHANGED <<alive, overdue, queue, started, minted, table, receipt>>
    BY <1>1, <1>3 DEF SettleStop, CustodyInv, RunInv, TypeFacts
  <2>2. alive \subseteq Occurrence
    BY <1>3 DEF TypeFacts
  <2> QED BY <1>1, <2>1, <2>2 DEF RunInv, OnlyOverdueRunsOverlap
<1>10. OverdueInv'
  BY <1>1, <1>3 DEF OverdueInv, StartedInv, Fresh, Handed, PendingRow, TypeFacts, SettleStop,
            counters
<1> QED BY <1>2, <1>4, <1>5, <1>6, <1>7, <1>8, <1>9, <1>10 DEF ScheduleInv

LEMMA KeepSaveStop ==
    ASSUME ScheduleInv, NEW o \in Occurrence, SaveStop(o)
    PROVE  ScheduleInv'
<1>1. ScheduleTypeOK /\ RowInv /\ PassInv /\ ReceiptInv /\ BornInv /\ StartedInv
      /\ CustodyInv /\ LaunchInv /\ RunInv /\ OverdueInv /\ DownInv
  BY DEF ScheduleInv
<1>2. ScheduleTypeOK'
  BY TypeSaveStop, <1>1
<1>3. TypeFacts /\ TypeFacts'
  BY <1>1, <1>2, FactsOfType, FactsOfTypeNext
<1>4. RowInv' /\ ReceiptInv' /\ DownInv'
  BY <1>1 DEF RowInv, ReceiptInv, DownInv, Handed, NoOccurrence, AcceptedIsOwned,
            OnePointOneRoot, SaveStop, Unlocked
<1>5. PassInv'
  BY <1>1, <1>3, Named DEF PassInv, TypeFacts, LaunchOwns, LaunchActive, SaveStop, Unlocked
<1>6. BornInv'
  BY <1>1, <1>3, Named DEF BornInv, TypeFacts, SaveStop, Unlocked
<1>7. StartedInv'
  BY <1>1, <1>3, Named DEF StartedInv, TypeFacts, Fresh, Handed, LaunchActive, SaveStop,
            Unlocked
<1>8. CustodyInv'
  BY <1>1, <1>3, Named DEF CustodyInv, TypeFacts, PendingRow, SaveStop, Unlocked
<1>9. LaunchInv'
  <2>1. /\ captured[o] = "settled" /\ receipt[o] = "ended" /\ captured'[o] = "none"
        /\ \A q \in Occurrence \ {o} : captured'[q] = captured[q] /\ queue'[q] = queue[q]
        /\ UNCHANGED <<alive, overdue, minted, launch, receipt>>
    BY <1>1, <1>3 DEF SaveStop, CustodyInv, TypeFacts
  <2>2. LaunchActive => launch.id \in Occurrence
    BY <1>1, Named
  <2> QED BY <1>1, <2>1, <2>2 DEF LaunchInv, LaunchActive, LaunchOwns, PendingRow
<1>10. RunInv'
  BY <1>1, <1>3, Named DEF RunInv, TypeFacts, OnlyOverdueRunsOverlap, Fresh, SaveStop, Unlocked
<1>11. OverdueInv'
  BY <1>1, <1>3 DEF OverdueInv, StartedInv, Fresh, Handed, PendingRow, TypeFacts, SaveStop,
            Unlocked
<1> QED BY <1>2, <1>4, <1>5, <1>6, <1>7, <1>8, <1>9, <1>10, <1>11 DEF ScheduleInv

LEMMA KeepReturnCaptured ==
    ASSUME ScheduleInv, NEW o \in Occurrence, ReturnCaptured(o)
    PROVE  ScheduleInv'
<1>1. ScheduleTypeOK /\ RowInv /\ PassInv /\ ReceiptInv /\ BornInv /\ StartedInv
      /\ CustodyInv /\ LaunchInv /\ RunInv /\ OverdueInv /\ DownInv
  BY DEF ScheduleInv
<1>2. ScheduleTypeOK'
  BY TypeReturnCaptured, <1>1
<1>3. TypeFacts /\ TypeFacts'
  BY <1>1, <1>2, FactsOfType, FactsOfTypeNext
<1>4. RowInv' /\ ReceiptInv'
  BY <1>1 DEF RowInv, ReceiptInv, Handed, NoOccurrence, AcceptedIsOwned, OnePointOneRoot,
            ReturnCaptured, Unlocked, durable, PendingRow
<1>5. PassInv'
  BY <1>1, <1>3, Named DEF PassInv, TypeFacts, LaunchOwns, LaunchActive, ReturnCaptured,
            Unlocked, durable, PendingRow
<1>6. BornInv'
  BY <1>1, <1>3, Named DEF BornInv, TypeFacts, ReturnCaptured, Unlocked, durable, PendingRow
<1>7. StartedInv'
  BY <1>1, <1>3, Named DEF StartedInv, TypeFacts, Fresh, Handed, LaunchActive, ReturnCaptured,
            Unlocked, durable, PendingRow
<1>8. CustodyInv'
  BY <1>1, <1>3, Named DEF CustodyInv, TypeFacts, PendingRow, ReturnCaptured, Unlocked, durable
<1>9. LaunchInv'
  <2>1. /\ captured[o] \in PendingRow /\ receipt[o] # "ended"
        /\ queue'[o] = captured[o] /\ captured'[o] = "none"
        /\ \A q \in Occurrence \ {o} : queue'[q] = queue[q] /\ captured'[q] = captured[q]
        /\ launch' = IF launch.id = o THEN [launch EXCEPT !.own = TRUE] ELSE launch
        /\ UNCHANGED <<alive, overdue, minted, receipt>>
    BY <1>1, <1>3 DEF ReturnCaptured, CustodyInv, TypeFacts, durable
  <2>2. /\ launch'.pc = launch.pc /\ launch'.id = launch.id
        /\ launch.id = o => launch'.own
        /\ launch.id # o => launch'.own = launch.own
    BY <1>3, <2>1 DEF TypeFacts, LaunchRow
  <2>3. LaunchActive => launch.id \in Occurrence
    BY <1>1, Named
  <2>4. CASE launch.id = o
    BY <1>1, <2>1, <2>2, <2>4 DEF LaunchInv, LaunchActive, LaunchOwns, PendingRow
  <2>5. CASE launch.id # o
    BY <1>1, <2>1, <2>2, <2>3, <2>5 DEF LaunchInv, LaunchActive, LaunchOwns
  <2> QED BY <2>4, <2>5
<1>10. RunInv'
  <2>1. /\ o \in stops /\ o \notin alive
        /\ \A q \in Occurrence \ {o} : queue'[q] = queue[q] /\ captured'[q] = captured[q]
        /\ UNCHANGED <<alive, overdue, started, minted, table, receipt, stops>>
    BY <1>1, <1>3, Processes DEF ReturnCaptured, CustodyInv, PendingRow, TypeFacts, durable
  <2>2. alive \subseteq Occurrence
    BY <1>3 DEF TypeFacts
  <2> QED BY <1>1, <2>1, <2>2 DEF RunInv, OnlyOverdueRunsOverlap
<1>11. DownInv'
  BY <1>1, <1>3, Named DEF DownInv, TypeFacts, ReturnCaptured, Unlocked, durable, PendingRow
<1>12. OverdueInv'
  BY <1>1, <1>3 DEF OverdueInv, StartedInv, Fresh, Handed, PendingRow, TypeFacts,
            ReturnCaptured, Unlocked, durable
<1> QED BY <1>2, <1>4, <1>5, <1>6, <1>7, <1>8, <1>9, <1>10, <1>11, <1>12 DEF ScheduleInv

LEMMA KeepDropPending ==
    ASSUME ScheduleInv, NEW o \in Occurrence, DropPending(o)
    PROVE  ScheduleInv'
<1>1. ScheduleTypeOK /\ RowInv /\ PassInv /\ ReceiptInv /\ BornInv /\ StartedInv
      /\ CustodyInv /\ LaunchInv /\ RunInv /\ OverdueInv /\ DownInv
  BY DEF ScheduleInv
<1>2. ScheduleTypeOK'
  BY TypeDropPending, <1>1
<1>3. TypeFacts /\ TypeFacts'
  BY <1>1, <1>2, FactsOfType, FactsOfTypeNext
<1>4. RowInv'
  BY <1>1, <1>3, Named DEF RowInv, TypeFacts, Handed, NoOccurrence, DropPending, Unlocked,
            counters, PendingRow
<1>5. PassInv'
  BY <1>1, <1>3, Named DEF PassInv, TypeFacts, LaunchOwns, LaunchActive, DropPending, Unlocked,
            counters, PendingRow
<1>6. ReceiptInv'
  <2>1. receipt[o] # "none"
    BY <1>1 DEF DropPending, BornInv, PendingRow
  <2> QED BY <1>1, <1>3, <2>1, ReceiptEnds DEF DropPending
<1>7. BornInv'
  BY <1>1, <1>3, Named DEF BornInv, TypeFacts, DropPending, Unlocked, counters, PendingRow
<1>8. StartedInv'
  BY <1>1, <1>3, Named DEF StartedInv, TypeFacts, Fresh, Handed, LaunchActive, DropPending,
            Unlocked, counters, PendingRow
<1>9. CustodyInv'
  BY <1>1, <1>3, Named DEF CustodyInv, TypeFacts, PendingRow, DropPending, Unlocked, counters
<1>10. LaunchInv'
  BY <1>1, <1>3, Named DEF LaunchInv, TypeFacts, LaunchOwns, LaunchActive, Handed, DropPending,
            Unlocked, counters, PendingRow
<1>11. RunInv'
  BY <1>1, <1>3, Named DEF RunInv, TypeFacts, OnlyOverdueRunsOverlap, Fresh, DropPending, Unlocked,
            counters, PendingRow
<1>12. DownInv'
  BY <1>1, <1>3, Named DEF DownInv, TypeFacts, DropPending, Unlocked, counters, PendingRow
<1>13. OverdueInv'
  BY <1>1, <1>3 DEF OverdueInv, StartedInv, Fresh, Handed, PendingRow, TypeFacts, DropPending,
            Unlocked, counters
<1> QED BY <1>2, <1>4, <1>5, <1>6, <1>7, <1>8, <1>9, <1>10, <1>11, <1>12, <1>13 DEF ScheduleInv

LEMMA KeepResume ==
    ASSUME ScheduleInv, NEW o \in Occurrence, Resume(o)
    PROVE  ScheduleInv'
<1>1. ScheduleTypeOK /\ RowInv /\ PassInv /\ ReceiptInv /\ BornInv /\ StartedInv
      /\ CustodyInv /\ LaunchInv /\ RunInv /\ OverdueInv /\ DownInv
  BY DEF ScheduleInv
<1>2. ScheduleTypeOK'
  BY TypeResume, <1>1
<1>3. TypeFacts /\ TypeFacts'
  BY <1>1, <1>2, FactsOfType, FactsOfTypeNext
<1>4. RowInv' /\ ReceiptInv' /\ DownInv'
  BY <1>1 DEF RowInv, ReceiptInv, DownInv, Handed, NoOccurrence, AcceptedIsOwned,
            OnePointOneRoot, Resume, Unlocked
<1>5. PassInv'
  BY <1>1, <1>3, Named DEF PassInv, TypeFacts, LaunchOwns, LaunchActive, Resume, Unlocked
<1>6. BornInv'
  BY <1>1, <1>3, Named DEF BornInv, TypeFacts, Resume, Unlocked
<1>7. StartedInv'
  BY <1>1, <1>3, Named DEF StartedInv, TypeFacts, Fresh, Handed, LaunchActive, Resume, Unlocked
<1>8. CustodyInv'
  BY <1>1, <1>3, Named DEF CustodyInv, TypeFacts, PendingRow, Resume, Unlocked
<1>9. LaunchInv'
  BY <1>1, <1>3, Named DEF LaunchInv, TypeFacts, LaunchOwns, LaunchActive, Handed, Resume,
            Unlocked, PendingRow
<1>10. RunInv'
  BY <1>1, <1>3, Named DEF RunInv, TypeFacts, OnlyOverdueRunsOverlap, Fresh, Resume, Unlocked
<1>11. OverdueInv'
  BY <1>1, <1>3 DEF OverdueInv, StartedInv, Fresh, Handed, PendingRow, TypeFacts, Resume,
            Unlocked
<1> QED BY <1>2, <1>4, <1>5, <1>6, <1>7, <1>8, <1>9, <1>10, <1>11 DEF ScheduleInv

-----------------------------------------------------------------------------
(* The invariant of every behaviour.                                       *)

LEMMA InitKeeps == Init => ScheduleInv
<1> SUFFICES ASSUME Init PROVE ScheduleInv
  OBVIOUS
<1>1. /\ 0 \in 0..MaxOccurrence /\ 0 \in 0..MaxEdit /\ 0 \in 0..MaxStop /\ 0 \in 0..MaxFault
      /\ 1 \in 1..(MaxOccurrence + MaxEdit + 1) /\ 0 \in 0..(MaxOccurrence + MaxEdit + 1)
  BY ScheduleBoundAssumption
<1>2. /\ table.occ = NoOccurrence /\ ~table.admitted /\ ~table.possible
      /\ table.def = 0 /\ table.next = 1 /\ table \in TableRow
  BY <1>1 DEF Init, TableRow, NoOccurrence
<1>3. ScheduleTypeOK
  BY <1>1, <1>2 DEF Init, ScheduleTypeOK, TableRow, IdlePass, IdleLaunch, NoOccurrence,
                    QueueRow, PendingRow
<1>4. RowInv
  BY <1>2 DEF Init, RowInv, NoOccurrence
<1>5. PassInv /\ LaunchInv /\ DownInv
  BY DEF Init, PassInv, LaunchInv, DownInv, IdlePass, IdleLaunch, LaunchActive, LaunchOwns
<1>6. ReceiptInv /\ BornInv
  BY DEF Init, ReceiptInv, BornInv, AcceptedIsOwned, OnePointOneRoot
<1>7. StartedInv /\ CustodyInv /\ RunInv
  BY DEF Init, StartedInv, CustodyInv, RunInv, OnlyOverdueRunsOverlap, Fresh, Handed, LaunchActive,
         IdleLaunch, PendingRow
<1>8. OverdueInv
  BY DEF Init, OverdueInv
<1> QED BY <1>3, <1>4, <1>5, <1>6, <1>7, <1>8 DEF ScheduleInv

LEMMA StutterKeeps ==
    ASSUME ScheduleInv, UNCHANGED vars
    PROVE  ScheduleInv'
BY DEF ScheduleInv, vars, durable, process, counters, ScheduleTypeOK, RowInv, PassInv, ReceiptInv,
       BornInv, StartedInv, CustodyInv, LaunchInv, RunInv, OverdueInv, DownInv, AcceptedIsOwned,
       OnePointOneRoot, OnlyOverdueRunsOverlap, LaunchActive, LaunchOwns

LEMMA NextKeeps == ScheduleInv /\ [Next]_vars => ScheduleInv'
<1> SUFFICES ASSUME ScheduleInv, [Next]_vars PROVE ScheduleInv'
  OBVIOUS
<1>1. CASE SchedulerPass
  BY <1>1, KeepTakeUp, KeepClaimDue, KeepTidy, KeepAdmit, KeepForgo, KeepWriteRow,
     KeepWriteSnapshot DEF SchedulerPass
<1>2. CASE LaunchStep
  BY <1>2, KeepLocate, KeepCommit, KeepCommitRefused, KeepSaveMark, KeepPut, KeepPutRefused
     DEF LaunchStep
<1>3. CASE ChangeSchedule
  BY <1>3, KeepChangeSchedule
<1>4. CASE Crash \/ PlannedRestart \/ Restore
  BY <1>4, KeepCrash, KeepPlannedRestart, KeepRestore
<1>5. ASSUME NEW o \in Occurrence,
             ChooseLaunch(o) \/ Complete(o) \/ Retire(o) \/ RequestStop(o) \/ Resume(o)
      PROVE  ScheduleInv'
  BY <1>5, KeepChooseLaunch, KeepComplete, KeepRetire, KeepRequestStop, KeepResume
<1>6. ASSUME NEW o \in Occurrence, Custody(o)
      PROVE  ScheduleInv'
  BY <1>6, KeepCapture, KeepWriteCancelled, KeepSettleStop, KeepSaveStop, KeepReturnCaptured,
     KeepDropPending DEF Custody
<1>7. ASSUME NEW o \in Occurrence, Overdue(o)
      PROVE  ScheduleInv'
  BY <1>7, KeepTimeout, KeepKill, KeepPublish, KeepRespawn DEF Overdue
<1>8. CASE UNCHANGED vars
  BY <1>8, StutterKeeps
<1> QED BY <1>1, <1>2, <1>3, <1>4, <1>5, <1>6, <1>7, <1>8 DEF Next

\* The inductive invariant: the row names the latest occurrence, receipts and the row agree, a
\* task in custody is covered by its Stop, and what still runs beside a launch is overdue.
THEOREM ScheduleInvariant == Spec => []ScheduleInv
BY InitKeeps, NextKeeps, PTL DEF Spec

\* Every variable of the schedule keeps its type and its bound.
THEOREM ScheduleTypeCorrect == Spec => []ScheduleTypeOK
<1>1. ScheduleInv => ScheduleTypeOK
  BY DEF ScheduleInv
<1> QED BY <1>1, ScheduleInvariant, PTL

\* No occurrence is handed to a worker twice, whatever write failed and wherever the server
\* died (_commit_launch, _restore_reading).
THEOREM StartedOnceHolds == Spec => []StartedOnce
<1>1. ScheduleInv => StartedOnce
  BY DEF ScheduleInv, StartedInv, StartedOnce
<1> QED BY <1>1, ScheduleInvariant, PTL

\* A firing point becomes at most one accepted root, however often the row is edited or its
\* write fails (_advance, admit).
THEOREM OnePointOneRootHolds == Spec => []OnePointOneRoot
<1>1. ScheduleInv => OnePointOneRoot
  BY DEF ScheduleInv, ReceiptInv
<1> QED BY <1>1, ScheduleInvariant, PTL

\* Accepted work that has not reached a worker stays on the schedule's row (reconcile,
\* _remove_withdrawn).
THEOREM AcceptedIsOwnedHolds == Spec => []AcceptedIsOwned
<1>1. ScheduleInv => AcceptedIsOwned
  BY DEF ScheduleInv, ReceiptInv
<1> QED BY <1>1, ScheduleInvariant, PTL

\* Around edits, deletions, Stops, failed writes and restarts, two runs of a schedule are alive
\* together only while the earlier one, struck by a hard bound, still has to be killed
\* (_schedule_running_or_queued, enforce_task_timeouts, reap_timed_out_task).
THEOREM OnlyOverdueRunsOverlapHolds == Spec => []OnlyOverdueRunsOverlap
<1>1. ScheduleInv => OnlyOverdueRunsOverlap
  BY DEF ScheduleInv, RunInv
<1> QED BY <1>1, ScheduleInvariant, PTL

\* Only Put starts a task, and its receipt says possible then.
LEMMA OnlyPutStarts ==
    ASSUME ScheduleInv, [Next]_vars, NEW o \in Occurrence, receipt[o] = "ended"
    PROVE  started'[o] = started[o]
<1>1. CASE Put
  <2>1. TypeFacts
    BY FactsOfType DEF ScheduleInv
  <2>2. o # launch.id
    BY <1>1, <2>1, PutFacts
  <2> QED BY <1>1, <2>1, <2>2, PutFacts
<1>2. CASE ~Put
  <2>1. UNCHANGED started
    BY <1>2 DEF Next, vars, SchedulerPass, LaunchStep, Custody, Overdue, Timeout, Kill, Publish, Respawn, durable,
         process, counters, TakeUp, ClaimDue, Tidy, Admit, Forgo, WriteRow, WriteSnapshot, Locate, Commit,
         CommitRefused, SaveMark, PutRefused, ChangeSchedule, Edit, Crash, PlannedRestart, Restore,
         ChooseLaunch, Complete, Retire, RequestStop, Resume, Capture, WriteCancelled, SettleStop,
         SaveStop, ReturnCaptured, DropPending
  <2> QED BY <2>1
<1> QED BY <1>1, <1>2

\* Only an admission and a commit write a receipt that is not the end, and not over an end.
LEMMA EndIsKept ==
    ASSUME ScheduleInv, [Next]_vars, NEW o \in Occurrence, receipt[o] = "ended"
    PROVE  receipt'[o] = "ended"
<1>1. ScheduleTypeOK /\ TypeFacts
  BY FactsOfType DEF ScheduleInv
<1>2. CASE Admit
  <2>1. o # pass.id
    BY <1>2 DEF Admit, StillPrepared, Reconcile
  <2>2. receipt' = receipt \/ receipt' = [receipt EXCEPT ![pass.id] = "accepted"]
    BY <1>2 DEF Admit
  <2> QED BY <1>1, <2>1, <2>2 DEF TypeFacts
<1>3. CASE Commit
  BY <1>1, <1>3, CommitFields
<1>4. ASSUME NEW p \in Occurrence, Complete(p) \/ Publish(p) \/ WriteCancelled(p) \/ DropPending(p)
      PROVE  receipt'[o] = "ended"
  <2>1. receipt' = [receipt EXCEPT ![p] = "ended"]
    BY <1>4 DEF Complete, Publish, WriteCancelled, DropPending
  <2> QED BY <1>1, <2>1 DEF TypeFacts
<1>5. CASE UNCHANGED receipt
  BY <1>5
<1>6. \/ Admit \/ Commit \/ UNCHANGED receipt
      \/ \E p \in Occurrence : Complete(p) \/ Publish(p) \/ WriteCancelled(p) \/ DropPending(p)
  BY DEF Next, vars, SchedulerPass, LaunchStep, Custody, Overdue, Timeout, Kill, Respawn, durable, process, counters,
         TakeUp, ClaimDue, Tidy, Forgo, WriteRow, WriteSnapshot, Locate, CommitRefused,
         SaveMark, Put, PutRefused, ChangeSchedule, Edit, Crash, PlannedRestart, Restore,
         ChooseLaunch, Retire, RequestStop, Resume, Capture, SettleStop, SaveStop, ReturnCaptured
<1> QED BY <1>2, <1>3, <1>4, <1>5, <1>6

\* A result that is terminal stays so, and its task is not started, even when the scheduler
\* republished it while a Stop had it in custody (dispatch_projection, reconcile).
THEOREM EndedIsFinalHolds == Spec => EndedIsFinal
<1> DEFINE Stands == \A o \in Occurrence : receipt[o] = "ended" =>
                        receipt'[o] = "ended" /\ started'[o] = started[o]
<1>1. ScheduleInv /\ [Next]_vars => Stands
  BY OnlyPutStarts, EndIsKept
<1> HIDE DEF Stands
<1>2. Spec => [][Stands]_vars
  BY <1>1, ScheduleInvariant, PTL DEF Spec
<1> QED BY <1>2 DEF EndedIsFinal, Stands
=============================================================================
