---------------------------- MODULE CancelIntents ----------------------------
(***************************************************************************)
(* The durable cancel-intent projection (ouroboros/cancel_intents.py).     *)
(*                                                                         *)
(* A Stop is a row of state/cancel_intents.json, keyed by task id, at most *)
(* one per id.  Ingresses mint or strengthen rows; custody attempts        *)
(* (threads of the server process) CLAIM a row before they tear a task     *)
(* down and then RELEASE it (the attempt failed) or SETTLE it (the row is  *)
(* removed).  Every mutation is one locked read-modify-write of the file,  *)
(* so each is one action.  What is not atomic is the time between a claim  *)
(* and the write that ends it: the row may be widened, taken over or       *)
(* settled meanwhile, the server may die, the file may be unwritable.      *)
(***************************************************************************)
EXTENDS Integers

CONSTANTS
    Task,           \* task ids
    RetryLeaf,      \* task id -> the physical retry its stored lineage ends at
    Custodian,      \* threads of the server that may run a custody attempt
    Stamp,          \* times at which a finalize control may be drained
    NoIntent,       \* no row under this id
    NoClaim,        \* a thread that holds no claim
    NotDrained,     \* a row whose finalize control was not drained yet
    ProbeMayFail,   \* may pid_is_alive raise?
    PidRecycles,    \* may a restarted server get a pid used before?
    MaxRequest,     \* bound: requests ever minted
    MaxGeneration,  \* bound: claims of one request
    MaxBoot,        \* bound: server starts
    MaxOutage       \* bound: times the projection is unwritable (lock timeout, corrupt file)

Scope  == {"single", "cascade"}
Policy == {"immediate", "finalize"}

\* What update_json_locked stores for one task id.  pid is 0 and aged FALSE
\* while nobody claims the row; aged is claim_is_stale, the claim being older
\* than CLAIM_STALE_SEC.
Intent == [request    : Nat,
           state      : {"requested", "claimed"},
           generation : Nat,
           scope      : Scope,
           policy     : Policy,
           drained    : Stamp \cup {NotDrained},
           pid        : Nat,
           aged       : BOOLEAN]

\* The part of a claimed row that custody keeps to fence its later writes.
Claim == [task : Task, request : Nat, generation : Nat]

ASSUME LineageAssumption ==
    /\ RetryLeaf \in [Task -> Task]
    /\ \A t \in Task : RetryLeaf[RetryLeaf[t]] = RetryLeaf[t]
    /\ \A t, u \in Task :
          (RetryLeaf[t] = RetryLeaf[u] /\ t # RetryLeaf[t] /\ u # RetryLeaf[u]) => t = u

ASSUME NullAssumption ==
    /\ NoIntent \notin Intent
    /\ NoClaim \notin Claim
    /\ NotDrained \notin Stamp

ASSUME BoundAssumption ==
    /\ MaxRequest \in Nat /\ MaxGeneration \in Nat /\ MaxBoot \in Nat
    /\ MaxOutage \in Nat
    /\ ProbeMayFail \in BOOLEAN /\ PidRecycles \in BOOLEAN

VARIABLES
    intents,        \* Task -> its row, or NoIntent
    held,           \* Custodian -> the claim its custody attempt works under
    judged,         \* Custodian -> the cascade row its postcondition has just read
    settled,        \* tasks whose stored result is terminal
    minted,         \* requests minted so far; request ids are 1..minted
    boot,           \* number of server starts so far
    serverPid,      \* pid of the running server
    available,      \* can the projection be written?
    outages         \* number of times it could not

vars == <<intents, held, judged, settled, minted, boot, serverPid, available, outages>>

-----------------------------------------------------------------------------
\* Reading the projection.

Open(t) == intents[t] # NoIntent

\* The stable id whose retry lineage ends at t, or t itself.
LogicalRoot(t) ==
    IF \E r \in Task : r # t /\ RetryLeaf[r] = t
    THEN CHOOSE r \in Task : r # t /\ RetryLeaf[r] = t
    ELSE t

\* Mutant: the alias of a retry leaf to its root's cascade is never resolved.
NoAlias(t) == FALSE

\* A retry leaf is governed by the cascade its logical root already has.
AliasedToRoot(t) ==
    /\ ~Open(t)
    /\ LogicalRoot(t) # t
    /\ Open(LogicalRoot(t))
    /\ intents[LogicalRoot(t)].scope = "cascade"

\* A cascade asked on a logical root takes over the single row of its leaf.
Rekeys(t, scope) ==
    /\ ~Open(t)
    /\ ~AliasedToRoot(t)
    /\ scope = "cascade"
    /\ RetryLeaf[t] # t
    /\ Open(RetryLeaf[t])

\* The id under which request_cancel(t, scope) looks for, or mints, the row.
AuthorityKey(t, scope) ==
    IF Open(t) THEN t
    ELSE IF AliasedToRoot(t) THEN LogicalRoot(t)
    ELSE IF scope = "cascade" THEN t
    ELSE RetryLeaf[t]

\* Mutant: the fence compares the request only, as before claims had generations.
FencedByRequest(claim) ==
    /\ claim # NoClaim
    /\ Open(claim.task)
    /\ intents[claim.task].request = claim.request

\* _generation_mismatch: the row is still the very claim the caller captured.
Fenced(claim) ==
    /\ claim # NoClaim
    /\ Open(claim.task)
    /\ intents[claim.task].request = claim.request
    /\ intents[claim.task].generation = claim.generation

\* claim_still_owned
Owns(c) ==
    /\ Fenced(held[c])
    /\ intents[held[c].task].state = "claimed"
    /\ intents[held[c].task].pid = serverPid

\* What probing the claimant may answer: claims are taken by the server, whose
\* pid now runs the current server and nobody else.
ProbeOutcomes(row) ==
    {IF row.pid = serverPid THEN "alive" ELSE "dead"}
        \cup (IF ProbeMayFail THEN {"unknown"} ELSE {})

\* Mutant: an indeterminate probe counts as death, whatever the claim's age.
UnknownIsDead(row) ==
    /\ row.state = "claimed"
    /\ \E probe \in ProbeOutcomes(row) : probe \in {"dead", "unknown"}

\* Mutant: only age abandons a claim, and age needs an indeterminate probe.
OnlyStaleIsDead(row) ==
    /\ row.state = "claimed"
    /\ row.aged
    /\ "unknown" \in ProbeOutcomes(row)

\* claim_is_abandoned: a dead claimant is, a live one never, an unknown one by age.
Abandoned(row) ==
    /\ row.state = "claimed"
    /\ \E probe \in ProbeOutcomes(row) :
          \/ probe = "dead"
          \/ probe = "unknown" /\ row.aged

Claimed(row) ==
    [row EXCEPT !.state = "claimed", !.generation = @ + 1, !.pid = serverPid, !.aged = FALSE]

\* Mutant: a reopened row keeps no state of its own but the attempt's outcome.
ReopenedAsReleased(row) == [row EXCEPT !.state = "released", !.pid = 0]

Reopened(row) == [row EXCEPT !.state = "requested", !.pid = 0, !.aged = FALSE]

\* Mutant: the last request of a row wins, even when it is narrower or softer.
LastRequestWins(row, scope, policy) ==
    [row EXCEPT !.scope = scope, !.policy = IF policy = "none" THEN @ ELSE policy]

\* Widen-only scope and harden-only policy of a repeated request.
Strengthened(row, scope, policy) ==
    [row EXCEPT !.scope  = IF scope = "cascade" THEN "cascade" ELSE @,
                !.policy = IF policy = "immediate" THEN "immediate" ELSE @]

TokenOf(t) == [task       |-> t,
               request    |-> intents[t].request,
               generation |-> intents[t].generation]

-----------------------------------------------------------------------------
Init ==
    /\ intents   = [t \in Task |-> NoIntent]
    /\ held      = [c \in Custodian |-> NoClaim]
    /\ judged    = [c \in Custodian |-> NoClaim]
    /\ settled   = {}
    /\ minted    = 0
    /\ boot      = 1
    /\ serverPid = 1
    /\ available = TRUE
    /\ outages   = 0

\* request_cancel without an open row: mint one.  A settled task is answered
\* "already settled" unless the ingress proved it still has live ownership.
MintIntent(t, scope, policy, allowSettled) ==
    LET key == AuthorityKey(t, scope) IN
    /\ available
    /\ minted < MaxRequest
    /\ ~Open(key)
    /\ ~Rekeys(t, scope)
    /\ key \notin settled \/ allowSettled
    /\ intents' = [intents EXCEPT ![key] =
                     [request |-> minted + 1, state |-> "requested", generation |-> 0,
                      scope |-> scope,
                      policy |-> IF policy = "finalize" THEN "finalize" ELSE "immediate",
                      drained |-> NotDrained, pid |-> 0, aged |-> FALSE]]
    /\ minted' = minted + 1
    /\ UNCHANGED <<held, judged, settled, boot, serverPid, available, outages>>

\* request_cancel over an open row: same request, never weaker.  policy "none"
\* is an ingress that names no policy.
RepeatRequest(t, scope, policy) ==
    LET key == AuthorityKey(t, scope) IN
    /\ available
    /\ Open(key)
    /\ intents' = [intents EXCEPT ![key] = Strengthened(@, scope, policy)]
    /\ UNCHANGED <<held, judged, settled, minted, boot, serverPid, available, outages>>

\* request_cancel(scope=cascade) on a root whose leaf has an unclaimed row: the
\* row moves to the root.  A claimed one is refused (the ingress gets an error).
RekeyIntent(t, policy) ==
    LET leaf == RetryLeaf[t] IN
    /\ available
    /\ Rekeys(t, "cascade")
    /\ intents[leaf].state = "requested"
    /\ intents' = [intents EXCEPT ![leaf] = NoIntent,
                                  ![t] = Strengthened(intents[leaf], "cascade", policy)]
    /\ UNCHANGED <<held, judged, settled, minted, boot, serverPid, available, outages>>

RequestCancel ==
    \E t \in Task, scope \in Scope, policy \in Policy \cup {"none"} :
        \/ \E allowSettled \in BOOLEAN : MintIntent(t, scope, policy, allowSettled)
        \/ RepeatRequest(t, scope, policy)
        \/ scope = "cascade" /\ RekeyIntent(t, policy)

\* mark_intent_scope(t, "cascade"), the cascade's own stamp.
MarkIntentScope(t) ==
    /\ available
    /\ Open(t)
    /\ intents' = [intents EXCEPT ![t].scope = "cascade"]
    /\ UNCHANGED <<held, judged, settled, minted, boot, serverPid, available, outages>>

\* resolve_owner_stop_intent: the worker of task t answers to its own row or,
\* having none, to the graceful cascade of its logical root.
OwnerStopKey(t) == IF AliasedToRoot(t) THEN LogicalRoot(t) ELSE t

\* mark_finalize_control_drained: the first drain stamps the row.
MarkFinalizeControlDrained(t, stamp) ==
    LET key == OwnerStopKey(t) IN
    /\ available
    /\ Open(key)
    /\ intents[key].policy = "finalize"
    /\ intents[key].drained = NotDrained
    /\ intents' = [intents EXCEPT ![key].drained = stamp]
    /\ UNCHANGED <<held, judged, settled, minted, boot, serverPid, available, outages>>

\* claim_intent
ClaimIntent(c, t) ==
    /\ available
    /\ held[c] = NoClaim
    /\ Open(t)
    /\ intents[t].state = "requested" \/ Abandoned(intents[t])
    /\ intents[t].generation < MaxGeneration
    /\ intents' = [intents EXCEPT ![t] = Claimed(@)]
    /\ held' = [held EXCEPT ![c] = [task |-> t,
                                    request |-> intents[t].request,
                                    generation |-> intents[t].generation + 1]]
    /\ UNCHANGED <<judged, settled, minted, boot, serverPid, available, outages>>

\* Mutant: a late release puts the row its caller once read back.
ReleaseResurrects(c) ==
    /\ available
    /\ held[c] # NoClaim
    /\ held[c].generation < MaxGeneration
    /\ intents' = [intents EXCEPT ![held[c].task] =
                     [request |-> held[c].request, state |-> "requested",
                      generation |-> held[c].generation, scope |-> "single",
                      policy |-> "immediate", drained |-> NotDrained,
                      pid |-> 0, aged |-> FALSE]]
    /\ held' = [held EXCEPT ![c] = NoClaim]
    /\ UNCHANGED <<judged, settled, minted, boot, serverPid, available, outages>>

\* release_claim: reopens exactly the claim the caller captured.  The number of
\* failed attempts is what MaxGeneration bounds.
ReleaseClaim(c) ==
    /\ available
    /\ held[c] # NoClaim
    /\ held[c].generation < MaxGeneration
    /\ intents' = IF Fenced(held[c]) /\ intents[held[c].task].state = "claimed"
                  THEN [intents EXCEPT ![held[c].task] = Reopened(@)]
                  ELSE intents
    /\ held' = [held EXCEPT ![c] = NoClaim]
    /\ UNCHANGED <<judged, settled, minted, boot, serverPid, available, outages>>

\* Mutant: settle removes whatever row the task has by now.
SettleUnfenced(c) ==
    /\ available
    /\ held[c] # NoClaim
    /\ intents' = [intents EXCEPT ![held[c].task] = NoIntent]
    /\ held' = [held EXCEPT ![c] = NoClaim]
    /\ UNCHANGED <<judged, settled, minted, boot, serverPid, available, outages>>

\* Mutant: a single custody's settle removes a row that was widened meanwhile.
SettleWidened(c) ==
    /\ available
    /\ held[c] # NoClaim
    /\ intents' = IF Fenced(held[c])
                  THEN [intents EXCEPT ![held[c].task] = NoIntent] ELSE intents
    /\ held' = [held EXCEPT ![c] = NoClaim]
    /\ UNCHANGED <<judged, settled, minted, boot, serverPid, available, outages>>

\* settle_intent by the custody that holds the claim.  A cascade row is never
\* removed here: the matching claim is given back in the same write.
SettleIntent(c) ==
    /\ available
    /\ held[c] # NoClaim
    /\ intents' =
         IF ~Fenced(held[c]) THEN intents
         ELSE [intents EXCEPT ![held[c].task] =
                  IF @.scope # "cascade" THEN NoIntent
                  ELSE IF @.state = "claimed" THEN Reopened(@) ELSE @]
    /\ held' = [held EXCEPT ![c] = NoClaim]
    /\ UNCHANGED <<judged, settled, minted, boot, serverPid, available, outages>>

\* settle_intent of a custody that never had a row to claim: a cascade sweep of
\* another task, whose mint for t had failed.  Nothing fences this write.
SettleUnclaimed(t) ==
    /\ available
    /\ Open(t)
    /\ intents[t].scope = "single"
    /\ \E root \in Task \ {t} : Open(root) /\ intents[root].scope = "cascade"
    /\ intents' = [intents EXCEPT ![t] = NoIntent]
    /\ UNCHANGED <<held, judged, settled, minted, boot, serverPid, available, outages>>

\* The end of custody while the projection cannot be written: _settle_intent and
\* _release_intent_claim log the failure and go on, the row stays as it is.
EndWithoutWrite(c) ==
    /\ ~available
    /\ held[c] # NoClaim
    /\ held' = [held EXCEPT ![c] = NoClaim]
    /\ UNCHANGED <<intents, judged, settled, minted, boot, serverPid, available, outages>>

\* The cascade postcondition of cancel_task_by_id: nothing of the tree lives, the
\* summary is owed, the root's row is read once more ...
JudgeCascade(c, t) ==
    /\ judged[c] = NoClaim
    /\ Open(t)
    /\ intents[t].scope = "cascade"
    /\ judged' = [judged EXCEPT ![c] = TokenOf(t)]
    /\ UNCHANGED <<intents, held, settled, minted, boot, serverPid, available, outages>>

\* ... and settled with allow_cascade_scope, fenced by what was read.
SettleCascade(c) ==
    /\ judged[c] # NoClaim
    /\ intents' = IF available /\ Fenced(judged[c])
                  THEN [intents EXCEPT ![judged[c].task] = NoIntent]
                  ELSE intents
    /\ judged' = [judged EXCEPT ![c] = NoClaim]
    /\ UNCHANGED <<held, settled, minted, boot, serverPid, available, outages>>

-----------------------------------------------------------------------------
\* What happens around the projection.

\* A task reaches a terminal stored result.
SettleResult(t) ==
    /\ t \notin settled
    /\ settled' = settled \cup {t}
    /\ UNCHANGED <<intents, held, judged, minted, boot, serverPid, available, outages>>

\* CLAIM_STALE_SEC pass.  Nobody looks at the age while the probe answers.
AgeClaim(t) ==
    /\ ProbeMayFail
    /\ Open(t)
    /\ intents[t].state = "claimed"
    /\ ~intents[t].aged
    /\ intents' = [intents EXCEPT ![t].aged = TRUE]
    /\ UNCHANGED <<held, judged, settled, minted, boot, serverPid, available, outages>>

\* The server dies with all its threads and starts again.
Restart ==
    /\ boot < MaxBoot
    /\ \A t \in Task : Open(t) => intents[t].generation < MaxGeneration
    /\ boot' = boot + 1
    /\ serverPid' \in IF PidRecycles THEN 1..(boot + 1) ELSE {boot + 1}
    /\ held'   = [c \in Custodian |-> NoClaim]
    /\ judged' = [c \in Custodian |-> NoClaim]
    /\ UNCHANGED <<intents, settled, minted, available, outages>>

StoreFails ==
    /\ outages < MaxOutage
    /\ available
    /\ available' = FALSE
    /\ outages' = outages + 1
    /\ UNCHANGED <<intents, held, judged, settled, minted, boot, serverPid>>

StoreRecovers ==
    /\ ~available
    /\ available' = TRUE
    /\ UNCHANGED <<intents, held, judged, settled, minted, boot, serverPid, outages>>

EndAttempt(c) == ReleaseClaim(c) \/ SettleIntent(c) \/ EndWithoutWrite(c)

Next ==
    \/ RequestCancel
    \/ \E t \in Task : MarkIntentScope(t)
    \/ \E t \in Task, stamp \in Stamp : MarkFinalizeControlDrained(t, stamp)
    \/ \E c \in Custodian, t \in Task : ClaimIntent(c, t)
    \/ \E c \in Custodian : ReleaseClaim(c)
    \/ \E c \in Custodian : SettleIntent(c)
    \/ \E c \in Custodian : EndWithoutWrite(c)
    \/ \E t \in Task : SettleUnclaimed(t)
    \/ \E c \in Custodian, t \in Task : JudgeCascade(c, t)
    \/ \E c \in Custodian : SettleCascade(c)
    \/ \E t \in Task : SettleResult(t)
    \/ \E t \in Task : AgeClaim(t)
    \/ Restart
    \/ StoreFails
    \/ StoreRecovers

Spec == Init /\ [][Next]_vars

\* The supervisor tick sweeps every open row it may take into custody, a custody
\* attempt ends, a cascade runs to its postcondition, an outage passes.
Fairness ==
    /\ \A t \in Task : WF_vars(\E c \in Custodian : ClaimIntent(c, t))
    /\ \A c \in Custodian : WF_vars(EndAttempt(c))
    /\ \A t \in Task : WF_vars(\E c \in Custodian : JudgeCascade(c, t))
    /\ \A c \in Custodian : WF_vars(SettleCascade(c))
    /\ WF_vars(StoreRecovers)

FairSpec == Spec /\ Fairness

-----------------------------------------------------------------------------
\* The projection and the threads' memory of it stay well formed.
TypeOK ==
    /\ intents \in [Task -> Intent \cup {NoIntent}]
    /\ held \in [Custodian -> Claim \cup {NoClaim}]
    /\ judged \in [Custodian -> Claim \cup {NoClaim}]
    /\ settled \subseteq Task
    /\ minted \in Nat
    /\ boot \in Nat
    /\ serverPid \in Nat
    /\ available \in BOOLEAN
    /\ outages \in Nat

\* Two custody attempts never both pass the write fence claim_still_owned for the
\* same row, whatever was taken over, released or minted again in between.
ClaimExclusion ==
    \A c, d \in Custodian :
        (c # d /\ Owns(c) /\ Owns(d)) => held[c].task # held[d].task

\* One retry lineage never has two open rows, so no Stop can be settled on one
\* physical id while its twin stays open on the other (request_cancel's aliases).
SingleAuthorityPerLineage ==
    \A t \in Task : RetryLeaf[t] # t => ~(Open(t) /\ Open(RetryLeaf[t]))

\* The end of an attempt whose claim was taken over changes nothing (release_claim
\* and settle_intent, "a late settle/release is a no-op").
StaleAttemptIsInert ==
    [][\A c \in Custodian :
          (/\ held[c] # NoClaim /\ ~Fenced(held[c])
           /\ held'[c] = NoClaim /\ judged' = judged)
          => intents' = intents]_vars

\* A claim whose holder is alive passes to another attempt only when the probe
\* could not tell and the claim is stale (claim_intent, claim_is_abandoned).
LiveClaimNotStolen ==
    [][\A c \in Custodian :
          (/\ Owns(c)
           /\ intents'[held[c].task] # NoIntent
           /\ intents'[held[c].task].request = held[c].request
           /\ intents'[held[c].task].generation # held[c].generation)
          => ProbeMayFail /\ intents[held[c].task].aged]_vars

\* As long as a request is open it never narrows, softens, forgets its drain or
\* loses a generation, under whichever id it is kept.
RequestNeverWeakens ==
    [][\A t, u \in Task :
          (Open(t) /\ intents'[u] # NoIntent /\ intents'[u].request = intents[t].request)
          => /\ intents[t].scope = "cascade" => intents'[u].scope = "cascade"
             /\ intents[t].policy = "immediate" => intents'[u].policy = "immediate"
             /\ intents[t].drained # NotDrained => intents'[u].drained = intents[t].drained
             /\ intents'[u].generation >= intents[t].generation]_vars

RequestOpen(n) == \E t \in Task : Open(t) /\ intents[t].request = n

\* A cascade request is closed only by a postcondition that read this very claim
\* state, even when it was widened after a single custody had claimed it.
CascadeClosedByPostcondition ==
    [][\A t \in Task, n \in 1..MaxRequest :
          (/\ Open(t)
           /\ intents[t].scope = "cascade"
           /\ intents[t].request = n
           /\ ~RequestOpen(n)')
          => \E c \in Custodian : judged[c] = TokenOf(t) /\ judged'[c] = NoClaim]_vars

\* No request stays open for ever: what an in-band wake lost, the sweep finishes.
EveryRequestCloses == \A n \in 1..MaxRequest : RequestOpen(n) ~> ~RequestOpen(n)
=============================================================================
