--------------------------- MODULE TerminalDelivery ---------------------------
(***************************************************************************)
(* The outbox of owed chat messages (supervisor/terminal_delivery.py,      *)
(* terminal_supersession.py) and the handler that sends them               *)
(* (events_chat_delivery.py).  A terminal message is owed in a durable     *)
(* registry before it is sent and leaves it with the receipt of its send.  *)
(* Two threads run the handler: the bus consumer and the replay duty.  The *)
(* registry survives a crash, everything else does not.                    *)
(*                                                                         *)
(* The messages of one task, all to one chat: its own messages and the     *)
(* facts (custody row, Wrap up receipt) a message carries, which the       *)
(* handler splits off into messages of their own.                          *)
(***************************************************************************)
EXTENDS Naturals, Sequences, FiniteSets, Functions

CONSTANTS
    Message,    \* delivery ids
    Notice,     \* final: rows stamped host_notice, which a Stop receipt replaces
    Stop,       \* cancel:/cascade: receipts
    Carries,    \* message -> the fact bundled with it
    PendingCap, \* _PENDING_CAP
    MaxReplays, \* _PENDING_MAX_REPLAYS
    MaxCopies,  \* bound: live copies of an answer (the live put and the buffered one)
    MaxFault    \* bound: failed writes, refused sends and crashes together

Fact == Range(Carries)
Own == Message \ Fact

ASSUME MessageAssumption ==
    /\ Notice \subseteq Message /\ Stop \subseteq Message /\ Notice \cap Stop = {}
    /\ DOMAIN Carries \subseteq Message /\ Fact \subseteq Message
    /\ Fact \cap (DOMAIN Carries \cup Notice \cup Stop) = {}
ASSUME BoundAssumption ==
    /\ PendingCap \in Nat \ {0} /\ MaxReplays \in Nat
    /\ MaxCopies \in Nat /\ MaxFault \in Nat

Thread == {"consumer", "duty"}

\* What a registry row remembers beside its payload: whether it still carries its fact.
Row == [deferred : BOOLEAN, emitted : BOOLEAN, failed : BOOLEAN, whole : BOOLEAN,
        tries : 0..MaxReplays]

\* A send_message event.  Copies on the bus are whole and carry none of the row's facts.
Event == [id : Message, replay : BOOLEAN, whole : BOOLEAN,
          deferred : BOOLEAN, emitted : BOOLEAN, failed : BOOLEAN]

LiveEvent(m) == [id |-> m, replay |-> FALSE, whole |-> m \in DOMAIN Carries,
                 deferred |-> FALSE, emitted |-> FALSE, failed |-> FALSE]
RowEvent(m, r) == [id |-> m, replay |-> TRUE, whole |-> r.whole,
                   deferred |-> r.deferred, emitted |-> r.emitted, failed |-> r.failed]

NoRow == [deferred |-> FALSE, emitted |-> FALSE, failed |-> FALSE, whole |-> FALSE, tries |-> 0]

VARIABLES
    registry,   \* terminal_deliveries.json
    chatted,    \* Stops whose task result names the chat their receipt reached
    producer,   \* message -> how far the code that produces it is
    older,      \* notices owed when the task's Stop was requested
    bus,        \* queued send_message events
    handler,    \* thread -> the events it still has to handle, and where it is
    active,     \* _ACTIVE_DELIVERIES
    memory,     \* _DELIVERED_MESSAGE_IDS
    hints,      \* _DEFERRED_DELIVERIES
    sweep,      \* the duty's pass over the owed rows
    landed,     \* history: messages whose send returned
    faults

durable == <<registry, chatted>>
volatile == <<bus, handler, active, memory, hints, sweep>>
vars == <<durable, producer, older, volatile, landed, faults>>

-----------------------------------------------------------------------------
(* The registry.  Each operator is one locked write of the file.           *)

Registry == [owed : Seq(Message), delivered : SUBSET Message, exhausted : SUBSET Message,
             superseded : SUBSET Message, row : [Message -> Row]]

\* What s holds at some of its places, in its order.
AtPlaces(s, places) ==
    LET rank(i) == Cardinality({j \in places : j <= i})
    IN  [k \in 1..Cardinality(places) |-> s[CHOOSE i \in places : rank(i) = k]]

\* pending.pop of each of the ids
Without(s, ids) == AtPlaces(s, {i \in DOMAIN s : s[i] \notin ids})

Pending(r) == Range(r.owed)
Known(r) == Pending(r) \cup r.delivered \cup r.exhausted \cup r.superseded

\* Mutant: the outbox is not trimmed.
NoEviction(r) == r

\* _evict_over_cap: the oldest rows beyond the cap are given up.
EvictOverCap(r) ==
    LET over == IF Len(r.owed) > PendingCap THEN Len(r.owed) - PendingCap ELSE 0
    IN  [r EXCEPT !.owed = SubSeq(@, over + 1, Len(@)),
                  !.exhausted = @ \cup {r.owed[i] : i \in 1..over}]

\* Mutant: a stale copy reopens a debt that was given up or replaced.
Reopens(r, e) ==
    IF e.id \in r.delivered \cup Pending(r) THEN r
    ELSE EvictOverCap([r EXCEPT !.owed = Append(@, e.id)])

\* _owed_row
OwedRow(e) == [deferred |-> e.deferred, emitted |-> e.emitted, failed |-> e.failed,
               whole |-> e.whole, tries |-> 0]

\* register_pending_delivery for an id the registry has given up or replaced.
KeepBeside(r, e) ==
    [r EXCEPT !.row[e.id].emitted = @ \/ e.emitted]

\* register_pending_delivery
Register(r, e) ==
    IF e.id \in r.delivered THEN r
    ELSE IF e.id \in r.exhausted \cup r.superseded THEN KeepBeside(r, e)
    ELSE IF e.id \in Pending(r)
    THEN IF e.deferred
         THEN [r EXCEPT !.row[e.id].deferred = TRUE,
                        !.row[e.id].emitted = @ \/ e.emitted,
                        !.row[e.id].failed = e.failed]
         ELSE r
    ELSE EvictOverCap([r EXCEPT !.owed = Append(@, e.id), !.row[e.id] = OwedRow(e)])

\* Replaceable rows: a notice with no recorded send.
Replaceable(r) == {m \in Pending(r) \cap Notice : m \notin r.delivered /\ ~r.row[m].emitted}

\* Mutant: what a replaced notice bundled goes with it.
ForgetsFacts(r, notices) ==
    [r EXCEPT !.owed = Without(@, notices), !.superseded = @ \cup notices]

\* bundled_rows of replaced notices that the outbox does not know, each once: where the first
\* notice that bundles it is owed.
NewFacts(r, notices) ==
    LET opens == {i \in DOMAIN r.owed : /\ r.owed[i] \in notices /\ r.row[r.owed[i]].whole
                                        /\ Carries[r.owed[i]] \notin Known(r)}
        first == {i \in opens : \A j \in opens : Carries[r.owed[j]] = Carries[r.owed[i]] => i <= j}
        bundles == AtPlaces(r.owed, first)
    IN  [k \in DOMAIN bundles |-> Carries[bundles[k]]]

\* _supersede: the notices leave as they were owed, what they bundled is owed in their place.
Supersede(r, notices) ==
    LET facts == NewFacts(r, notices)
    IN  [r EXCEPT !.owed = Without(@, notices) \o facts,
                  !.superseded = @ \cup notices,
                  !.row = [m \in Message |-> IF m \in Range(facts) THEN NoRow ELSE @[m]]]

\* supersede_host_notices: what was owed before the Stop receipt was.
OwedBefore(r, m) == {r.owed[i] : i \in {j \in DOMAIN r.owed : \E k \in DOMAIN r.owed :
                                            j < k /\ r.owed[k] = m}}

\* register_delivery: the receipt of a send retires the debt and the mark a given-up or
\* replaced message left.
Deliver(r, m) ==
    LET replaced == IF m \in Stop THEN Replaceable(r) \cap OwedBefore(r, m) ELSE {}
        popped   == [r EXCEPT !.owed = Without(@, {m})]
        settled  == IF m \in Pending(r) THEN EvictOverCap(Supersede(popped, replaced)) ELSE r
    IN  [settled EXCEPT !.delivered = @ \cup {m},
                        !.exhausted = @ \ {m},
                        !.superseded = @ \ {m}]

\* withdraw_stop_episode
Withdraw(r, m) ==
    IF m \in Pending(r) \ r.delivered THEN [r EXCEPT !.owed = Without(@, {m})] ELSE r

\* Mutant: replays are not bounded.
UnboundedReplays(r, m) == m \in Pending(r) \ r.delivered /\ ~r.row[m].emitted

\* record_replay_dispatch: whether a replay may enter the transport.
MayDispatch(r, m) ==
    /\ m \in Pending(r) \ r.delivered
    /\ ~r.row[m].emitted
    /\ r.row[m].tries < MaxReplays

\* Mutant: a row that spent its replays is dropped without a trace.
LosesRow(r, m) == [r EXCEPT !.owed = Without(@, {m})]

\* _retire_exhausted
Retire(r, m) ==
    IF m \in Pending(r) \ r.delivered /\ ~r.row[m].emitted
    THEN [r EXCEPT !.owed = Without(@, {m}), !.exhausted = @ \cup {m}]
    ELSE r

-----------------------------------------------------------------------------
(* A write may fail: n is what went wrong earlier in the same step.        *)

Written(new, n) ==
    \/ registry' = new /\ faults' = faults + n /\ faults' <= MaxFault
    \/ UNCHANGED registry /\ faults' = faults + n + 1 /\ faults' <= MaxFault

\* _defer_delivery: the row keeps why the handler stopped; a volatile hint covers a failed write.
Defer(e, emitted, failed, n) ==
    /\ hints' = hints \cup {e.id}
    /\ Written(Register(registry, [e EXCEPT !.deferred = TRUE, !.emitted = @ \/ emitted,
                                            !.failed = failed]), n)

\* A queued or in-flight send of the id (ObservedEventQueue._outstanding).
Outstanding(m) == (\E i \in DOMAIN bus : bus[i].id = m) \/ m \in handler["consumer"].held

-----------------------------------------------------------------------------
(* Producers.                                                              *)

\* register_final_answer_owed, or custody owing its salvage: owed before it is sent.
Owe(m) ==
    /\ producer[m] = IF m \in Stop THEN "asked" ELSE "new"
    /\ producer' = [producer EXCEPT ![m] = "owed"]
    /\ Written(Register(registry, LiveEvent(m)), 0)
    /\ UNCHANGED <<chatted, older, volatile, landed>>

\* The Stop is requested: the instant an older notice is compared with.
RequestStop(m) ==
    /\ m \in Stop /\ producer[m] = "new"
    /\ producer' = [producer EXCEPT ![m] = "asked"]
    /\ older' = Pending(registry) \cap Notice
    /\ UNCHANGED <<durable, volatile, landed, faults>>

\* The final answer's live put, then the buffered copy of the same event.
PutAnswer(m) ==
    /\ m \in Own \ Stop /\ producer[m] \in {"owed", "put"} /\ MaxCopies > 0
    /\ producer' = [producer EXCEPT ![m] = IF @ = "owed" /\ MaxCopies > 1 THEN "put" ELSE "done"]
    /\ bus' = Append(bus, LiveEvent(m))
    /\ UNCHANGED <<durable, older, handler, active, memory, hints, sweep, landed, faults>>

\* enqueue_terminal_delivery_outcome of a Stop receipt
EnqueueStop(m) ==
    /\ m \in Stop /\ producer[m] = "owed"
    /\ producer' = [producer EXCEPT ![m] = "done"]
    /\ IF m \in registry.delivered
       THEN UNCHANGED <<registry, faults, bus>>
       ELSE /\ Written(Register(registry, LiveEvent(m)), 0)
            /\ bus' = Append(bus, LiveEvent(m))
    /\ UNCHANGED <<chatted, older, handler, active, memory, hints, sweep, landed>>

\* The worker's own result won over the Stop: its receipt is no longer owed.
WithdrawStop(m) ==
    /\ m \in Stop /\ producer[m] = "owed"
    /\ producer' = [producer EXCEPT ![m] = "done"]
    /\ Written(Withdraw(registry, m), 0)
    /\ UNCHANGED <<chatted, older, volatile, landed>>

-----------------------------------------------------------------------------
(* The handler: one event at a time, in thread t.                          *)

Idle(t) == handler[t].pc = "idle"
Event1(t) == Head(handler[t].todo)
At(t, pc) == handler[t].pc = pc
Proceed(t, pc) == handler' = [handler EXCEPT ![t].pc = pc]

\* The event is done: the physical claim is released, and with the last one the bus
\* membership.
NextEvent(t) ==
    handler' = [handler EXCEPT ![t] =
                    IF Len(@.todo) = 1
                    THEN [pc |-> "idle", todo |-> <<>>, held |-> {}]
                    ELSE [pc |-> "claim", todo |-> Tail(@.todo), held |-> @.held]]
Finish(t) ==
    /\ NextEvent(t)
    /\ active' = active \ {Event1(t).id}

Begin(t, e, held) ==
    handler' = [handler EXCEPT ![t] = [pc |-> "claim", todo |-> <<e>>, held |-> held]]

\* The supervisor loop takes the next event.
Take ==
    /\ Idle("consumer") /\ bus # <<>>
    /\ Begin("consumer", Head(bus), {Head(bus).id})
    /\ bus' = Tail(bus)
    /\ UNCHANGED <<durable, producer, older, active, memory, hints, sweep, landed, faults>>

\* _send_message of a bundle: the fact is owed as its own row, whether or not that write
\* succeeds, then the answer and the fact are handled.
Split(t) ==
    /\ At(t, "claim") /\ Event1(t).whole
    /\ LET answer == [Event1(t) EXCEPT !.whole = FALSE]
           fact == [answer EXCEPT !.id = Carries[answer.id]]
       IN  /\ Written(Register(registry, fact), 0)
           /\ handler' = [handler EXCEPT ![t].todo = <<answer, fact>>]
    /\ UNCHANGED <<chatted, producer, older, bus, active, memory, hints, sweep, landed>>

\* What _send_message finds before it sends: a send on record only needs its receipt.
Verdict(e) ==
    LET owed == e.id \in Pending(registry) \ registry.delivered
    IN  IF e.emitted \/ (owed /\ registry.row[e.id].emitted) THEN "repair"
        ELSE IF e.replay /\ ~owed THEN "drop"
        ELSE IF e.id \in memory THEN "repair"
        ELSE IF e.id \in registry.delivered THEN "known"
        ELSE IF ~owed /\ e.id \in registry.superseded THEN "drop"
        ELSE "dispatch"

\* Mutant: the handler does not own the physical send.
ClaimsNothing(e) == TRUE

\* _handle_send_message: a message another handler is sending is left to it.
MayClaim(e) == e.id \notin active

\* The claim, and what the handler reads under it.
Claim(t) ==
    /\ At(t, "claim") /\ ~Event1(t).whole
    /\ LET e == Event1(t)
           verdict == Verdict(e)
       IN  \/ /\ ~MayClaim(e)
              /\ NextEvent(t)
              /\ UNCHANGED <<active, hints>>
           \/ /\ MayClaim(e) /\ verdict \in {"drop", "known"}
              /\ NextEvent(t)
              /\ hints' = IF verdict = "known" THEN hints \ {e.id} ELSE hints
              /\ UNCHANGED active
           \/ /\ MayClaim(e) /\ verdict \in {"repair", "dispatch"}
              /\ Proceed(t, verdict)
              /\ active' = active \cup {e.id}
              /\ UNCHANGED hints
    /\ UNCHANGED <<durable, producer, older, bus, memory, sweep, landed, faults>>

\* send_with_budget up to the transport: the required writes, and for a replay the record
\* of its dispatch.
Dispatch(t) ==
    /\ At(t, "dispatch")
    /\ LET e == Event1(t)
       IN  \/ /\ e.replay => MayDispatch(registry, e.id)
              /\ registry' = IF e.replay THEN [registry EXCEPT !.row[e.id].tries = @ + 1]
                                         ELSE registry
              /\ Proceed(t, "transmit")
              /\ UNCHANGED <<active, hints, faults>>
           \/ /\ e.replay /\ ~MayDispatch(registry, e.id)
              /\ Finish(t)
              /\ UNCHANGED <<registry, hints, faults>>
           \/ /\ Defer(e, FALSE, FALSE, 1)
              /\ Finish(t)
    /\ UNCHANGED <<chatted, producer, older, bus, memory, sweep, landed>>

\* The transport returned: the send is remembered before anything is written.
Transmit(t) ==
    /\ At(t, "transmit")
    /\ landed' = landed \cup {Event1(t).id}
    /\ memory' = memory \cup {Event1(t).id}
    /\ Proceed(t, "retain")
    /\ UNCHANGED <<durable, producer, older, bus, active, hints, sweep, faults>>

\* Mutant: a refused send is retained as one that returned.
RefusedCountsAsSent(t) ==
    /\ At(t, "transmit")
    /\ Defer(Event1(t), TRUE, TRUE, 1)
    /\ Finish(t)
    /\ UNCHANGED <<chatted, producer, older, bus, memory, sweep, landed>>

\* MessageTransportError: nobody knows whether the message reached the chat.
Refuse(t) ==
    /\ At(t, "transmit")
    /\ Defer(Event1(t), FALSE, TRUE, 1)
    /\ Finish(t)
    /\ UNCHANGED <<chatted, producer, older, bus, memory, sweep, landed>>

\* The physical send is retained before its slower receipt.
Retain(t) ==
    /\ At(t, "retain")
    /\ Defer(Event1(t), TRUE, FALSE, 0)
    /\ Proceed(t, "receipt")
    /\ UNCHANGED <<chatted, producer, older, bus, active, memory, sweep, landed>>

\* _register_delivered.  A Stop's task result names the chat first; a failed write leaves
\* the debt, and a repair retains the send again.
Receipt(t) ==
    /\ handler[t].pc \in {"receipt", "repair"}
    /\ LET e == Event1(t)
           stop == {e.id} \cap Stop
       IN  \/ /\ registry' = Deliver(registry, e.id)
              /\ chatted' = chatted \cup stop
              /\ hints' = hints \ {e.id}
              /\ UNCHANGED faults
           \/ /\ chatted' \in {chatted, chatted \cup stop}
              /\ IF At(t, "repair")
                 THEN Defer(e, TRUE, e.failed, 1)
                 ELSE faults < MaxFault /\ faults' = faults + 1 /\ UNCHANGED <<registry, hints>>
    /\ Finish(t)
    /\ UNCHANGED <<producer, older, bus, memory, sweep, landed>>

-----------------------------------------------------------------------------
(* The replay duty: replay_pending_deliveries and replay_deferred_deliveries. *)

\* supersede_recorded_stops: notices a Stop receipt replaced that was recorded without its
\* own row, proven by what its task result retains.
Proven(r) ==
    IF r.delivered \cap chatted # {} THEN Replaceable(r) \cap older ELSE {}

\* Mutant: a returned send kept beside a given-up row is never repaired.
NoKeptSends(r) == {}

\* _kept_send_facts: rows given up or replaced whose send returned anyway.
KeptSends(r) ==
    {[id |-> m, row |-> [NoRow EXCEPT !.deferred = TRUE, !.emitted = TRUE]] :
        m \in {k \in (r.exhausted \cup r.superseded) \ r.delivered : r.row[k].emitted}}

\* Receipt repairs go first, then failed handlers; a row no handler deferred waits for the
\* aged replay.
Phase(x) ==
    IF ~x.row.deferred /\ x.id \notin hints THEN "aged"
    ELSE IF x.row.emitted \/ x.id \in memory THEN "repair"
    ELSE "retry"

\* _replay_due: rows that must wait for their age or backoff.
Paced(x) == Phase(x) = "aged" \/ (Phase(x) = "retry" /\ (x.row.tries > 0 \/ x.row.failed))

\* The rows this sweep will look at, as it reads them: the paced ones among them only when
\* they are due (late: all are).  Hints whose row is gone are dropped.
Sweep(late) ==
    /\ Idle("duty") /\ sweep = {}
    /\ IF Proven(registry) = {}
       THEN UNCHANGED <<registry, faults>>
       ELSE Written(EvictOverCap(Supersede(registry, Proven(registry))), 0)
    /\ LET rows == {[id |-> m, row |-> registry.row[m]] : m \in Pending(registry) \cap Pending(registry')}
                       \cup KeptSends(registry')
           paced == {x \in rows : Paced(x)}
       IN  /\ \E due \in IF late THEN {paced} ELSE SUBSET paced :
                 sweep' = {[id |-> x.id, row |-> x.row, phase |-> Phase(x)] : x \in (rows \ paced) \cup due}
           /\ hints' = hints \cap {x.id : x \in rows}
    /\ UNCHANGED <<chatted, producer, older, bus, handler, active, memory, landed>>

\* x is next: no row of an earlier phase is left.
IsNext(x) ==
    /\ Idle("duty") /\ x \in sweep
    /\ x.phase = "retry" => \A y \in sweep : y.phase # "repair"
    /\ x.phase = "aged" => \A y \in sweep : y.phase = "aged"

Drop(x) == sweep' = sweep \ {x}

\* Mutant: a debt is never given up.
NeverSpent(x) == FALSE

\* The row has spent its dispatches and nothing says that one of them was sent.
Spent(x) == /\ x.row.tries >= MaxReplays
            /\ x.phase = "aged" \/ ~(x.row.emitted \/ x.id \in memory)

\* Mutant: the last copy of a spent row may still be with its handler.
Impatient(x) == FALSE

\* A handler or the bus still has the message: the next sweep decides.
Busy(x) == Outstanding(x.id) \/ (x.phase # "aged" /\ x.id \in active)

\* A row only a hint defers goes on to the aged replay while its handler is at work.
LeaveRow(x) ==
    /\ IsNext(x) /\ Busy(x)
    /\ IF x.phase # "aged" /\ ~x.row.deferred /\ x.id \in active
       THEN sweep' = (sweep \ {x}) \cup {[x EXCEPT !.phase = "aged"]}
       ELSE Drop(x)
    /\ UNCHANGED <<durable, producer, older, bus, handler, active, memory, hints, landed, faults>>

\* The allowance is spent and no copy is left: the debt is given up.
RetireRow(x) ==
    /\ IsNext(x) /\ ~Busy(x) /\ Spent(x)
    /\ Written(Retire(registry, x.id), 0)
    /\ Drop(x)
    /\ UNCHANGED <<chatted, producer, older, bus, handler, active, memory, hints, landed>>

\* A deferred row is continued here, in the duty's own thread.
ContinueRow(x) ==
    /\ IsNext(x) /\ ~Busy(x) /\ ~Spent(x) /\ x.phase # "aged"
    /\ Begin("duty", [RowEvent(x.id, x.row) EXCEPT !.deferred = TRUE], {})
    /\ Drop(x)
    /\ UNCHANGED <<durable, producer, older, bus, active, memory, hints, landed, faults>>

\* An aged row is presumed lost: a copy goes to the bus unless one is outstanding.
ReplayRow(x) ==
    /\ IsNext(x) /\ ~Busy(x) /\ ~Spent(x) /\ x.phase = "aged"
    /\ bus' = IF x.id \in registry.delivered THEN bus ELSE Append(bus, RowEvent(x.id, x.row))
    /\ Drop(x)
    /\ UNCHANGED <<durable, producer, older, handler, active, memory, hints, landed, faults>>

-----------------------------------------------------------------------------
\* The server dies: the registry and the task result are what is left.  A worker that was
\* still producing its answer dies with it; a Stop is taken up again.
Crash ==
    /\ faults < MaxFault /\ faults' = faults + 1
    /\ bus' = <<>> /\ active' = {} /\ memory' = {} /\ hints' = {}
    /\ handler' = [t \in Thread |-> [pc |-> "idle", todo |-> <<>>, held |-> {}]]
    /\ sweep' = {}
    /\ producer' = [m \in Message |-> IF m \in Own \ Stop /\ producer[m] # "new" THEN "done"
                                      ELSE producer[m]]
    /\ UNCHANGED <<durable, older, landed>>

Init ==
    /\ registry = [owed |-> <<>>, delivered |-> {}, exhausted |-> {}, superseded |-> {},
                   row |-> [m \in Message |-> NoRow]]
    /\ chatted = {} /\ older = {}
    /\ producer = [m \in Message |-> IF m \in Own THEN "new" ELSE "done"]
    /\ bus = <<>> /\ active = {} /\ memory = {} /\ hints = {}
    /\ handler = [t \in Thread |-> [pc |-> "idle", todo |-> <<>>, held |-> {}]]
    /\ sweep = {}
    /\ landed = {} /\ faults = 0

Produce(m) == Owe(m) \/ RequestStop(m) \/ PutAnswer(m) \/ EnqueueStop(m) \/ WithdrawStop(m)
Handle(t) ==
    \/ Split(t) \/ Claim(t) \/ Dispatch(t)
    \/ Transmit(t) \/ Refuse(t) \/ Retain(t) \/ Receipt(t)
SweepRow(x) == LeaveRow(x) \/ RetireRow(x) \/ ContinueRow(x) \/ ReplayRow(x)

Next ==
    \/ \E m \in Message : Produce(m)
    \/ Take
    \/ \E t \in Thread : Handle(t)
    \/ Sweep(FALSE)
    \/ \E x \in sweep : SweepRow(x)
    \/ Crash

Spec == Init /\ [][Next]_vars

\* The loop and the duty keep running; backoffs are bounded, so again and again a sweep
\* finds every row due.  Nothing obliges a producer to go on.
Fairness ==
    /\ WF_vars(Take)
    /\ \A t \in Thread : WF_vars(Handle(t))
    /\ SF_vars(Sweep(TRUE))
    /\ WF_vars(\E x \in sweep : SweepRow(x))

FairSpec == Spec /\ Fairness

-----------------------------------------------------------------------------
(* Properties.                                                             *)

\* Every variable has its type.
DeliveryTypeOK ==
    /\ registry \in Registry
    /\ chatted \subseteq Stop /\ older \subseteq Notice
    /\ producer \in [Message -> {"new", "asked", "owed", "put", "done"}]
    /\ bus \in Seq(Event)
    /\ handler \in [Thread -> [pc : {"idle", "claim", "dispatch", "transmit", "retain", "receipt", "repair"},
                               todo : Seq(Event), held : SUBSET Message]]
    /\ active \subseteq Message /\ memory \subseteq Message /\ hints \subseteq Message
    /\ sweep \subseteq [id : Message, row : Row, phase : {"aged", "repair", "retry"}]
    /\ landed \subseteq Message /\ faults \in 0..MaxFault

\* A message is owed once, or delivered, or given up, or replaced, never two of these,
\* whatever copies, replays, evictions and receipts crossed (_mutate of each writer).
OneDisposition ==
    /\ \A i, j \in DOMAIN registry.owed : registry.owed[i] = registry.owed[j] => i = j
    /\ Pending(registry) \cap (registry.delivered \cup registry.exhausted \cup registry.superseded) = {}
    /\ registry.delivered \cap (registry.exhausted \cup registry.superseded) = {}
    /\ registry.exhausted \cap registry.superseded = {}

\* The outbox never outgrows its cap, also when a receipt owes the facts of what it
\* replaced (_evict_over_cap).
OutboxBounded == Len(registry.owed) <= PendingCap

\* A handler that is about to enter the transport sends what this process has not sent and
\* no record, receipt or owed row, says an earlier one did (_ACTIVE_DELIVERIES, emitted).
SentOnce ==
    \A t \in Thread : At(t, "transmit") =>
        LET m == Event1(t).id
        IN  /\ m \notin memory \cup registry.delivered
            /\ m \in Own \cap Pending(registry) => ~registry.row[m].emitted

\* A task's own message is recorded as delivered, or as sent, only after its send returned,
\* in this life of the server or an earlier one (register_delivery).
RecordedWasSent ==
    \A m \in Own : m \in registry.delivered \/ registry.row[m].emitted => m \in landed

\* The same of the facts a message carries.
BundledFactWasSent == registry.delivered \cap Fact \subseteq landed

\* A notice is replaced only by a receipt that reached the chat, and what it carried is
\* still accounted for (_supersede).
ReplacedNoticeLeavesItsFact ==
    \A m \in registry.superseded :
        /\ registry.delivered \cap Stop # {}
        /\ m \in DOMAIN Carries /\ registry.row[m].whole => Carries[m] \in Known(registry)

\* A task's own message is given up for its spent replays although this process remembers a
\* send of it only when the write that retains the send and its receipt both failed after the
\* sweep read the row and the hints (_retire_exhausted after delivery_outstanding).
GivenUpUnsent ==
    [][\A x \in sweep : RetireRow(x) /\ x.id \in Own /\ x.id \in Pending(registry) \ Pending(registry')
                            => x.id \notin memory \/ (x.id \in hints /\ faults >= 2)]_vars

\* A send that returned is recorded as delivered, unless the process dies first or the debt
\* left the outbox, withdrawn or given up, before any write recorded the send (_defer_delivery,
\* its hint, and the duty's receipt repairs).
SendIsRecorded ==
    \A m \in Own : m \in memory ~>
        \/ m \in registry.delivered \/ m \notin memory
        \/ m \notin Pending(registry) /\ ~(m \in Known(registry) /\ registry.row[m].emitted)
=============================================================================
