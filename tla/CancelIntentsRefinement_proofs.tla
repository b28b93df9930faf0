--------------------- MODULE CancelIntentsRefinement_proofs ---------------------
(***************************************************************************)
(* The projection implements the promise of StopRequests, for every set of *)
(* tasks and custodians and every bound: each step of the file, of a       *)
(* custody thread and of the server makes, takes, gives back or closes one *)
(* request, loses all holders, or leaves the promise alone.                *)
(***************************************************************************)
EXTENDS CancelIntentsRefinement, CancelIntents_proofs

Request == 1..MaxRequest

\* Custodian c is at work on request n.
Holds(c, n) == Owns(c) /\ held[c].request = n

\* Rows are minted within the bound.
RefInv == IInv /\ minted <= MaxRequest

-----------------------------------------------------------------------------
(* The mapped state.                                                       *)

\* A request has one holder at most.
LEMMA HoldsOnce ==
    ASSUME IInv, NEW n, NEW c \in Custodian, NEW d \in Custodian, Holds(c, n), Holds(d, n)
    PROVE  c = d
<1>1. /\ held[c].task \in Task /\ held[d].task \in Task
      /\ Open(held[c].task) /\ Open(held[d].task)
      /\ intents[held[c].task].request = n /\ intents[held[d].task].request = n
      /\ intents[held[c].task].generation = held[c].generation
      /\ intents[held[d].task].generation = held[d].generation
      /\ held[c] # NoClaim /\ held[d] # NoClaim /\ held[c].request = n /\ held[d].request = n
  BY DEF Holds, Owns, Fenced, IInv, TypeOK, Claim
<1>2. held[c].task = held[d].task
  BY <1>1 DEF IInv, RequestsIdentifyRows
<1> QED BY <1>1, <1>2 DEF IInv, ClaimsAreOrdered

MappedHolder(n) ==
    /\ \A c \in Custodian : HolderOf(n) = c <=> Holds(c, n)
    /\ HolderOf(n) = Nobody <=> ~\E c \in Custodian : Holds(c, n)
    /\ HolderOf(n) \in Custodian \cup {Nobody}

\* What the mapping makes of a holder, in a state ...
LEMMA HolderIs == IInv => \A n \in Request : MappedHolder(n)
<1> SUFFICES ASSUME IInv, NEW n \in Request PROVE MappedHolder(n)
  OBVIOUS
<1>1. CASE \E c \in Custodian : Holds(c, n)
  <2>1. HolderOf(n) \in Custodian /\ Holds(HolderOf(n), n)
    BY <1>1 DEF HolderOf, Holds
  <2> QED BY <1>1, <2>1, HoldsOnce, NobodyAssumption DEF MappedHolder
<1>2. CASE ~\E c \in Custodian : Holds(c, n)
  <2>1. HolderOf(n) = Nobody
    BY <1>2 DEF HolderOf, Holds
  <2> QED BY <1>2, <2>1, NobodyAssumption DEF MappedHolder
<1> QED BY <1>1, <1>2

\* ... and in the next one.
LEMMA HolderIsNext == IInv' => \A n \in Request : MappedHolder(n)'
<1>1. (IInv => \A n \in Request : MappedHolder(n))'
  BY HolderIs, PTL
<1> QED BY <1>1

\* The promise speaks of two functions on requests.
Status == [n \in Request |-> StatusOf(n)]
Holder == [n \in Request |-> HolderOf(n)]

HolderKept(n) == \A c \in Custodian : Holds(c, n)' <=> Holds(c, n)

\* A request whose holders stay keeps its holder.
LEMMA KeptHolder ==
    ASSUME IInv, IInv', NEW n \in Request, HolderKept(n)
    PROVE  HolderOf(n)' = HolderOf(n)
BY HolderIs, HolderIsNext, NobodyAssumption DEF HolderKept, MappedHolder

\* The row of a held request, and its number.
LEMMA HeldRow ==
    ASSUME RefInv, NEW c \in Custodian, Owns(c)
    PROVE  /\ held[c] # NoClaim /\ held[c].task \in Task /\ Open(held[c].task)
           /\ intents[held[c].task].request = held[c].request
           /\ intents[held[c].task].generation = held[c].generation
           /\ intents[held[c].task].state = "claimed"
           /\ held[c].request \in Request /\ StatusOf(held[c].request) = "open"
<1>1. /\ held[c] # NoClaim /\ held[c].task \in Task /\ Open(held[c].task)
      /\ intents[held[c].task].request = held[c].request
      /\ intents[held[c].task].generation = held[c].generation
      /\ intents[held[c].task].state = "claimed"
  BY DEF RefInv, IInv, TypeOK, Owns, Fenced, Claim
<1>2. held[c].request \in 1..minted /\ minted \in Nat /\ minted <= MaxRequest
  BY <1>1 DEF RefInv, IInv, TypeOK, RequestsIdentifyRows
<1>3. held[c].request \in Request /\ ~(held[c].request > minted)
  BY <1>2, BoundAssumption DEF Request
<1> QED BY <1>1, <1>3 DEF StatusOf, RequestOpen

\* The row of an open task, and its number.
LEMMA OpenRow ==
    ASSUME RefInv, NEW t \in Task, Open(t)
    PROVE  /\ intents[t] \in Intent /\ intents[t].request \in Request
           /\ ~(intents[t].request > minted)
           /\ StatusOf(intents[t].request) = "open"
<1>1. intents[t].request \in 1..minted /\ minted \in Nat /\ minted <= MaxRequest
  BY DEF RefInv, IInv, TypeOK, RequestsIdentifyRows
<1>2. intents[t].request \in Request /\ ~(intents[t].request > minted)
  BY <1>1, BoundAssumption DEF Request
<1> QED BY <1>2, OpenRowIsIntent DEF StatusOf, RequestOpen, RefInv, IInv

-----------------------------------------------------------------------------
(* Steps the promise does not see.                                         *)

\* What identifies a row and its claim.
SameRow(t) ==
    /\ intents'[t] # NoIntent <=> Open(t)
    /\ Open(t) => /\ intents'[t].request = intents[t].request
                  /\ intents'[t].generation = intents[t].generation
                  /\ intents'[t].state = intents[t].state
                  /\ intents'[t].pid = intents[t].pid

Unseen ==
    /\ \A t \in Task : SameRow(t)
    /\ held' = held /\ serverPid' = serverPid /\ minted' = minted

LEMMA RowSame ==
    ASSUME TypeOK, NEW key \in Task, NEW row \in Intent, Open(key),
           intents' = [intents EXCEPT ![key] = row],
           row.request = intents[key].request, row.generation = intents[key].generation,
           row.state = intents[key].state, row.pid = intents[key].pid
    PROVE  \A t \in Task : SameRow(t)
BY NullAssumption DEF TypeOK, SameRow, Open

\* Widening and hardening leave the claim on a row alone.
LEMMA StrengthenedKeepsClaim ==
    ASSUME NEW row \in Intent, NEW scope, NEW policy
    PROVE  /\ Strengthened(row, scope, policy).state = row.state
           /\ Strengthened(row, scope, policy).pid = row.pid
BY DEF Strengthened, Intent

\* Strengthening, stamping, draining, ageing, reading and failing are not seen.
LEMMA UnseenSteps ==
    ASSUME TypeOK,
           \/ \E t \in Task, scope \in Scope, policy \in Policy \cup {"none"} :
                 RepeatRequest(t, scope, policy)
           \/ \E t \in Task : MarkIntentScope(t) \/ SettleResult(t) \/ AgeClaim(t)
           \/ \E t \in Task, stamp \in Stamp : MarkFinalizeControlDrained(t, stamp)
           \/ \E c \in Custodian, t \in Task : JudgeCascade(c, t)
           \/ \E c \in Custodian : SettleCascade(c) /\ intents' = intents
           \/ StoreFails \/ StoreRecovers \/ UNCHANGED vars
    PROVE  Unseen
<1>1. ASSUME NEW t \in Task, NEW scope \in Scope, NEW policy \in Policy \cup {"none"},
             RepeatRequest(t, scope, policy)
      PROVE  Unseen
  <2> DEFINE key == AuthorityKey(t, scope)
             row == Strengthened(intents[key], scope, policy)
  <2>1. key \in Task /\ Open(key) /\ intents[key] \in Intent /\ intents' = [intents EXCEPT ![key] = row]
    BY <1>1, AuthorityKeyIsTask, OpenRowIsIntent DEF RepeatRequest
  <2>2. /\ row \in Intent /\ row.request = intents[key].request
        /\ row.generation = intents[key].generation
        /\ row.state = intents[key].state /\ row.pid = intents[key].pid
    BY <2>1, StrengthenedKeeps, StrengthenedKeepsClaim
  <2> HIDE DEF key, row
  <2>3. \A u \in Task : SameRow(u)
    BY <2>1, <2>2, RowSame
  <2> QED BY <1>1, <2>3 DEF RepeatRequest, Unseen
<1>2. ASSUME NEW t \in Task, NEW row, intents' = [intents EXCEPT ![t] = row], Open(t),
             \/ row = [intents[t] EXCEPT !.scope = "cascade"]
             \/ row = [intents[t] EXCEPT !.aged = TRUE]
             \/ \E stamp \in Stamp : row = [intents[t] EXCEPT !.drained = stamp]
      PROVE  \A u \in Task : SameRow(u)
  <2>1. /\ row \in Intent /\ row.request = intents[t].request
        /\ row.generation = intents[t].generation
        /\ row.state = intents[t].state /\ row.pid = intents[t].pid
    BY <1>2, OpenRowIsIntent DEF Intent, Scope
  <2> QED BY <1>2, <2>1, RowSame
<1>3. ASSUME NEW t \in Task, MarkIntentScope(t) \/ AgeClaim(t)
      PROVE  Unseen
  BY <1>2, <1>3 DEF MarkIntentScope, AgeClaim, Unseen
<1>4. ASSUME NEW t \in Task, NEW stamp \in Stamp, MarkFinalizeControlDrained(t, stamp)
      PROVE  Unseen
  BY <1>2, <1>4, OwnerStopKeyIsTask DEF MarkFinalizeControlDrained, Unseen
<1>5. CASE UNCHANGED <<intents, held, serverPid, minted>>
  BY <1>5 DEF Unseen, SameRow, Open
<1> QED
  BY <1>1, <1>3, <1>4, <1>5 DEF SettleResult, JudgeCascade, SettleCascade, StoreFails,
     StoreRecovers, vars

\* The promise stays as it is when nobody's row or claim does anything.
LEMMA UnseenStutters ==
    ASSUME RefInv, RefInv', Unseen
    PROVE  UNCHANGED <<Status, Holder>>
<1>1. \A n \in Request : RequestOpen(n)' <=> RequestOpen(n)
  BY DEF Unseen, SameRow, RequestOpen, Open
<1>2. UNCHANGED Status
  BY <1>1 DEF Status, StatusOf, Unseen
<1>3. \A c \in Custodian : Owns(c)' <=> Owns(c)
  BY DEF Unseen, SameRow, Owns, Fenced, Open, RefInv, IInv, TypeOK, Claim
<1>4. \A n \in Request : HolderKept(n)
  BY <1>3 DEF HolderKept, Holds, Unseen
<1> QED BY <1>2, <1>4, KeptHolder DEF Holder, RefInv

-----------------------------------------------------------------------------
(* Steps the promise sees.                                                 *)

\* A mint makes the next request.
LEMMA MintMakes ==
    ASSUME RefInv, RefInv', NEW t \in Task, NEW scope \in Scope,
           NEW policy \in Policy \cup {"none"}, NEW allowSettled \in BOOLEAN,
           MintIntent(t, scope, policy, allowSettled)
    PROVE  \E n \in Request :
              Status[n] = "unborn" /\ Status' = [Status EXCEPT ![n] = "open"] /\ UNCHANGED Holder
<1> DEFINE key == AuthorityKey(t, scope)
           n == minted + 1
<1>1. /\ key \in Task /\ ~Open(key) /\ held' = held /\ serverPid' = serverPid /\ minted' = n
      /\ n \in Request /\ n > minted /\ minted \in Nat
  BY AuthorityKeyIsTask, BoundAssumption DEF MintIntent, RefInv, IInv, TypeOK, Request
<1>2. /\ intents'[key] # NoIntent /\ intents'[key].request = n
      /\ \A u \in Task : u # key => intents'[u] = intents[u]
  <2> DEFINE row == [request |-> minted + 1, state |-> "requested", generation |-> 0,
                     scope |-> scope,
                     policy |-> IF policy = "finalize" THEN "finalize" ELSE "immediate",
                     drained |-> NotDrained, pid |-> 0, aged |-> FALSE]
  <2>1. row \in Intent /\ row.request = n
    BY <1>1 DEF Intent, Scope, Policy
  <2>2. intents' = [intents EXCEPT ![key] = row]
    BY DEF MintIntent
  <2> HIDE DEF row, key
  <2> QED BY <1>1, <2>1, <2>2, NullAssumption DEF RefInv, IInv, TypeOK
<1> HIDE DEF key
<1>3. \A u \in Task : Open(u) => intents[u].request \in 1..minted
  BY DEF RefInv, IInv, RequestsIdentifyRows
<1>4. \A m \in Request : RequestOpen(m)' <=> RequestOpen(m) \/ m = n
  BY <1>1, <1>2, <1>3 DEF RequestOpen, Open
<1>5. \A m \in Request : StatusOf(m)' = IF m = n THEN "open" ELSE StatusOf(m)
  BY <1>1, <1>4, <1>3 DEF StatusOf, Request, RequestOpen
<1>6. Status[n] = "unborn" /\ Status' = [Status EXCEPT ![n] = "open"]
  BY <1>1, <1>5 DEF Status, StatusOf
<1>7. \A c \in Custodian : held[c] # NoClaim => held[c].request # n /\ held[c].task \in Task
  BY <1>1 DEF RefInv, IInv, TypeOK, ClaimsAreOrdered, Claim
<1>8. \A c \in Custodian : Owns(c)' <=> Owns(c)
  BY <1>1, <1>2, <1>7 DEF Owns, Fenced, Open
<1>9. UNCHANGED Holder
  BY <1>1, <1>8, KeptHolder DEF Holder, HolderKept, Holds, RefInv
<1> QED BY <1>1, <1>6, <1>9

\* A re-key moves an unclaimed row: the promise does not see it.
LEMMA RekeyStutters ==
    ASSUME RefInv, RefInv', NEW t \in Task, NEW policy \in Policy \cup {"none"},
           RekeyIntent(t, policy)
    PROVE  UNCHANGED <<Status, Holder>>
<1> DEFINE leaf == RetryLeaf[t]
<1>1. /\ leaf \in Task /\ leaf # t /\ Open(leaf) /\ ~Open(t)
      /\ intents'[leaf] = NoIntent /\ intents'[t] # NoIntent
      /\ intents'[t].request = intents[leaf].request
      /\ \A u \in Task \ {t, leaf} : intents'[u] = intents[u]
      /\ minted' = minted /\ held' = held /\ serverPid' = serverPid
  <2>1. TypeOK
    BY DEF RefInv, IInv
  <2>2. serverPid' = serverPid
    BY DEF RekeyIntent
  <2> QED BY <2>1, <2>2, RekeyMovesRow, NullAssumption
<1>2. intents[leaf].state = "requested" /\ intents'[t].state = "requested"
  <2>1. intents'[t] = Strengthened(intents[leaf], "cascade", policy)
    BY <1>1 DEF RekeyIntent, RefInv, IInv, TypeOK
  <2> QED BY <1>1, <2>1, OpenRowIsIntent, StrengthenedKeepsClaim DEF RekeyIntent, RefInv, IInv
<1> HIDE DEF leaf
<1>3. \A n \in Request : RequestOpen(n)' <=> RequestOpen(n)
  BY <1>1 DEF RequestOpen, Open
<1>4. UNCHANGED Status
  BY <1>1, <1>3 DEF Status, StatusOf
<1>5. \A c \in Custodian : Owns(c)' <=> Owns(c)
  BY <1>1, <1>2 DEF Owns, Fenced, Open, RefInv, IInv, TypeOK, Claim
<1> QED BY <1>1, <1>4, <1>5, KeptHolder DEF Holder, HolderKept, Holds, RefInv

\* A claim takes a request, free or abandoned, for a custodian that had none.
LEMMA ClaimTakes ==
    ASSUME RefInv, RefInv', NEW c \in Custodian, NEW t \in Task, ClaimIntent(c, t)
    PROVE  \E n \in Request :
              /\ Status[n] = "open" /\ \A q \in Request : Holder[q] # c
              /\ Holder' = [Holder EXCEPT ![n] = c] /\ UNCHANGED Status
<1>0. Open(t) /\ intents[t].request \in Request
  BY OpenRow DEF ClaimIntent
<1> PICK n \in Request : n = intents[t].request
  BY <1>0
<1>1. /\ Open(t) /\ intents'[t] # NoIntent
      /\ intents'[t].request = n /\ intents'[t].generation = intents[t].generation + 1
      /\ \A u \in Task : u # t => intents'[u] = intents[u]
      /\ held'[c].request = n /\ held'[c].generation = intents[t].generation + 1
      /\ held'[c] # NoClaim
      /\ \A d \in Custodian : d # c => held'[d] = held[d]
      /\ minted' = minted
  BY ClaimAdvancesRow, NullAssumption DEF RefInv, IInv
<1>2. n \in Request /\ StatusOf(n) = "open" /\ intents[t] \in Intent
  BY <1>1, OpenRow
<1>3. held[c] = NoClaim /\ held'[c].task = t /\ serverPid' = serverPid
      /\ intents'[t].state = "claimed" /\ intents'[t].pid = serverPid
  BY <1>2 DEF ClaimIntent, RefInv, IInv, TypeOK, Claimed, Intent
<1>4. UNCHANGED Status
  <2>1. \A m \in Request : RequestOpen(m)' <=> RequestOpen(m)
    BY <1>1 DEF RequestOpen, Open
  <2> QED BY <1>1, <2>1 DEF Status, StatusOf
<1>5. Owns(c)' /\ Holds(c, n)' /\ \A q : ~Holds(c, q)
  BY <1>1, <1>3 DEF Owns, Fenced, Open, Holds
<1>6. \A d \in Custodian : d # c =>
         /\ held[d] # NoClaim /\ held[d].task = t => ~Owns(d)'
         /\ held[d] # NoClaim /\ held[d].task # t => (Owns(d)' <=> Owns(d))
         /\ held[d] = NoClaim => ~Owns(d)' /\ ~Owns(d)
  <2> SUFFICES ASSUME NEW d \in Custodian, d # c
               PROVE  /\ held[d] # NoClaim /\ held[d].task = t => ~Owns(d)'
                      /\ held[d] # NoClaim /\ held[d].task # t => (Owns(d)' <=> Owns(d))
                      /\ held[d] = NoClaim => ~Owns(d)' /\ ~Owns(d)
    OBVIOUS
  <2>1. held'[d] = held[d]
    BY <1>1
  <2>2. CASE held[d] # NoClaim /\ held[d].task = t
    <3>1. held'[d].request = n => held'[d].generation # held'[c].generation
      BY <1>1, <2>1, <2>2 DEF RefInv, IInv, ClaimsAreOrdered
    <3> QED BY <1>1, <2>1, <2>2, <3>1 DEF Owns, Fenced
  <2>3. CASE held[d] # NoClaim /\ held[d].task # t
    BY <1>1, <1>3, <2>1, <2>3 DEF Owns, Fenced, Open, RefInv, IInv, TypeOK, Claim
  <2>4. CASE held[d] = NoClaim
    BY <2>1, <2>4 DEF Owns, Fenced
  <2> QED BY <2>2, <2>3, <2>4
<1>7. \A q \in Request : q # n => HolderKept(q)
  <2> SUFFICES ASSUME NEW q \in Request, q # n, NEW d \in Custodian
               PROVE  Holds(d, q)' <=> Holds(d, q)
    BY DEF HolderKept
  <2>1. CASE d = c
    BY <1>1, <1>5, <2>1 DEF Holds
  <2>2. CASE d # c /\ held[d] # NoClaim /\ held[d].task = t
    <3>1. ~Holds(d, q)
      BY <2>2, HeldRow DEF Holds
    <3> QED BY <1>6, <2>2, <3>1 DEF Holds
  <2>3. CASE d # c /\ ~(held[d] # NoClaim /\ held[d].task = t)
    BY <1>1, <1>6, <2>3 DEF Holds
  <2> QED BY <2>1, <2>2, <2>3
<1>8. HolderOf(n)' = c /\ \A q \in Request : HolderOf(q) # c
  BY <1>2, <1>5, HolderIs, HolderIsNext DEF RefInv, MappedHolder
<1>9. Holder' = [Holder EXCEPT ![n] = c]
  BY <1>2, <1>7, <1>8, KeptHolder DEF Holder, RefInv
<1> QED BY <1>2, <1>4, <1>8, <1>9 DEF Status, Holder

\* A request is given back, or closed.
GivesBack ==
    \E n \in Request :
        /\ Status[n] = "open" /\ Holder[n] # Nobody
        /\ Holder' = [Holder EXCEPT ![n] = Nobody] /\ UNCHANGED Status

Closes ==
    \E n \in Request :
        /\ Status[n] = "open"
        /\ Status' = [Status EXCEPT ![n] = "closed"]
        /\ Holder' = [Holder EXCEPT ![n] = Nobody]

\* An attempt that ends without removing its row gives its request back, if it still had it.
LEMMA EndGivesBack ==
    ASSUME RefInv, RefInv', NEW c \in Custodian, held[c] # NoClaim,
           held' = [held EXCEPT ![c] = NoClaim], serverPid' = serverPid, minted' = minted,
           \/ intents' = intents
           \/ /\ Fenced(held[c])
              /\ intents' = [intents EXCEPT ![held[c].task] = Reopened(intents[held[c].task])]
    PROVE  GivesBack \/ UNCHANGED <<Status, Holder>>
<1> DEFINE key == held[c].task
<1>1. key \in Task /\ held'[c] = NoClaim /\ \A d \in Custodian : d # c => held'[d] = held[d]
  BY DEF RefInv, IInv, TypeOK, Claim
<1>2. \A u \in Task : /\ intents'[u] # NoIntent <=> Open(u)
                      /\ Open(u) => intents'[u].request = intents[u].request
                      /\ u # key => intents'[u] = intents[u]
  <2>1. CASE intents' = intents
    BY <2>1 DEF Open
  <2>2. CASE /\ Fenced(held[c])
             /\ intents' = [intents EXCEPT ![key] = Reopened(intents[key])]
    <3>1. Open(key) /\ intents[key] \in Intent
      BY <1>1, <2>2, OpenRowIsIntent DEF Fenced, RefInv, IInv
    <3>2. Reopened(intents[key]) # NoIntent /\ Reopened(intents[key]).request = intents[key].request
      BY <3>1, ReopenedKeeps, NullAssumption
    <3>3. \A u \in Task : intents'[u] = IF u = key THEN Reopened(intents[key]) ELSE intents[u]
      BY <2>2 DEF RefInv, IInv, TypeOK
    <3> HIDE DEF key
    <3> QED BY <1>1, <3>1, <3>2, <3>3 DEF Open
  <2> QED BY <2>1, <2>2
<1>3. UNCHANGED Status
  <2>1. \A m \in Request : RequestOpen(m)' <=> RequestOpen(m)
    BY <1>2 DEF RequestOpen, Open
  <2> QED BY <2>1 DEF Status, StatusOf
\* Nobody else has the row that is reopened, neither before nor after.
<1>4. \A d \in Custodian : d # c => (Owns(d)' <=> Owns(d))
  <2> SUFFICES ASSUME NEW d \in Custodian, d # c PROVE Owns(d)' <=> Owns(d)
    OBVIOUS
  <2>1. CASE intents' = intents
    BY <1>1, <2>1 DEF Owns, Fenced, Open
  <2>2. CASE /\ Fenced(held[c])
             /\ intents' = [intents EXCEPT ![key] = Reopened(intents[key])]
    <3>1. CASE held[d] # NoClaim /\ held[d].task = key
      <4>1. ~Owns(d)
        BY <2>2, <3>1 DEF Owns, Fenced, RefInv, IInv, ClaimsAreOrdered
      <4>2. intents'[key].state = "requested"
        <5>1. Open(key) /\ intents[key] \in Intent
          BY <1>1, <2>2, OpenRowIsIntent DEF Fenced, RefInv, IInv
        <5>2. intents'[key] = Reopened(intents[key])
          BY <1>1, <2>2 DEF RefInv, IInv, TypeOK
        <5> QED BY <5>1, <5>2 DEF Reopened, Intent
      <4> QED BY <1>1, <3>1, <4>1, <4>2 DEF Owns
    <3>2. CASE held[d] # NoClaim /\ held[d].task # key
      BY <1>1, <1>2, <3>2 DEF Owns, Fenced, Open, RefInv, IInv, TypeOK, Claim
    <3>3. CASE held[d] = NoClaim
      BY <1>1, <3>3 DEF Owns, Fenced
    <3> QED BY <3>1, <3>2, <3>3
  <2> QED BY <2>1, <2>2
<1>5. ~Owns(c)'
  BY <1>1 DEF Owns, Fenced
<1>6. CASE Owns(c)
  <2> PICK n \in Request : n = held[c].request /\ StatusOf(n) = "open"
    BY <1>6, HeldRow
  <2>1. Holds(c, n)
    BY <1>6 DEF Holds
  <2>2. \A d \in Custodian : ~Holds(d, n)'
    BY <1>1, <1>4, <1>5, <2>1, HoldsOnce DEF Holds, RefInv
  <2>3. HolderOf(n) # Nobody /\ HolderOf(n)' = Nobody
    BY <2>1, <2>2, HolderIs, HolderIsNext, NobodyAssumption DEF RefInv, MappedHolder
  <2>4. \A q \in Request : q # n => HolderKept(q)
    BY <1>1, <1>4, <1>5 DEF HolderKept, Holds
  <2>5. Holder' = [Holder EXCEPT ![n] = Nobody]
    BY <2>3, <2>4, KeptHolder DEF Holder, RefInv
  <2> QED BY <1>3, <2>3, <2>5 DEF GivesBack, Status, Holder
<1>7. CASE ~Owns(c)
  <2>1. \A q \in Request : HolderKept(q)
    BY <1>1, <1>4, <1>5, <1>7 DEF HolderKept, Holds
  <2> QED BY <1>3, <2>1, KeptHolder DEF Holder, RefInv
<1> QED BY <1>6, <1>7

\* Removing a row closes its request, whoever removes it.
LEMMA RemovalCloses ==
    ASSUME RefInv, RefInv', NEW key \in Task, Open(key),
           intents' = [intents EXCEPT ![key] = NoIntent],
           serverPid' = serverPid, minted' = minted,
           \/ held' = held
           \/ \E c \in Custodian : /\ held[c] # NoClaim /\ held[c].task = key
                                   /\ held' = [held EXCEPT ![c] = NoClaim]
    PROVE  Closes
<1> PICK n \in Request : n = intents[key].request /\ StatusOf(n) = "open" /\ ~(n > minted)
  BY OpenRow
<1>1. intents'[key] = NoIntent /\ \A u \in Task : u # key => intents'[u] = intents[u]
  BY DEF RefInv, IInv, TypeOK
<1>2. \A u \in Task : Open(u) /\ intents[u].request = n => u = key
  BY DEF RefInv, IInv, RequestsIdentifyRows
<1>3. \A m \in Request : RequestOpen(m)' <=> RequestOpen(m) /\ m # n
  BY <1>1, <1>2 DEF RequestOpen, Open
<1>4. \A m \in Request : StatusOf(m)' = IF m = n THEN "closed" ELSE StatusOf(m)
  BY <1>3 DEF StatusOf
<1>5. \A d \in Custodian :
         \/ held'[d] = held[d]
         \/ held'[d] = NoClaim /\ held[d] # NoClaim /\ held[d].task = key
  BY DEF RefInv, IInv, TypeOK
<1>6. \A d \in Custodian : Owns(d)' <=> Owns(d) /\ held[d].task # key
  <2> SUFFICES ASSUME NEW d \in Custodian PROVE Owns(d)' <=> Owns(d) /\ held[d].task # key
    OBVIOUS
  <2>1. CASE held[d] # NoClaim /\ held[d].task # key
    BY <1>1, <1>5, <2>1 DEF Owns, Fenced, Open, RefInv, IInv, TypeOK, Claim
  <2>2. CASE held[d] = NoClaim \/ held[d].task = key
    BY <1>1, <1>5, <2>2 DEF Owns, Fenced, Open
  <2> QED BY <2>1, <2>2
<1>7. \A d \in Custodian, q \in Request : Holds(d, q) => (held[d].task = key <=> q = n)
  BY <1>2, HeldRow DEF Holds
<1>8. \A d \in Custodian, q \in Request : Holds(d, q)' <=> Holds(d, q) /\ q # n
  <2> SUFFICES ASSUME NEW d \in Custodian, NEW q \in Request
               PROVE  Holds(d, q)' <=> Holds(d, q) /\ q # n
    OBVIOUS
  <2>1. Owns(d)' => held'[d] = held[d]
    BY <1>5 DEF Owns, Fenced
  <2>2. Holds(d, q)' <=> Owns(d)' /\ held[d].request = q
    BY <2>1 DEF Holds
  <2>3. Holds(d, q)' <=> Holds(d, q) /\ held[d].task # key
    BY <1>6, <2>2 DEF Holds
  <2> QED BY <1>7, <2>3
<1>9. HolderOf(n)' = Nobody
  BY <1>8, HolderIsNext DEF RefInv, MappedHolder
<1>10. \A q \in Request : q # n => HolderOf(q)' = HolderOf(q)
  BY <1>8, KeptHolder DEF HolderKept, RefInv
<1> QED BY <1>4, <1>9, <1>10 DEF Closes, Status, Holder

\* A restart loses every holder and no request.
LEMMA RestartLoses ==
    ASSUME RefInv', Restart
    PROVE  Holder' = [n \in Request |-> Nobody] /\ UNCHANGED Status
<1>1. \A c \in Custodian, n \in Request : ~Holds(c, n)'
  BY DEF Restart, Holds, Owns, Fenced
<1>2. \A n \in Request : HolderOf(n)' = Nobody
  BY <1>1, HolderIsNext DEF RefInv, MappedHolder
<1> QED BY <1>2 DEF Holder, Status, StatusOf, RequestOpen, Open, Restart

\* The ends of an attempt: a release and the settle of a cascade give the request back, the
\* settle of a single row closes it, and a failed write leaves it to a later sweep.
LEMMA AttemptEnds ==
    ASSUME RefInv, RefInv', NEW c \in Custodian, EndAttempt(c)
    PROVE  GivesBack \/ Closes \/ UNCHANGED <<Status, Holder>>
<1>1. /\ held[c] # NoClaim /\ held' = [held EXCEPT ![c] = NoClaim]
      /\ serverPid' = serverPid /\ minted' = minted
  BY DEF EndAttempt, ReleaseClaim, SettleIntent, EndWithoutWrite
<1>2. CASE \/ intents' = intents
           \/ /\ Fenced(held[c])
              /\ intents' = [intents EXCEPT ![held[c].task] = Reopened(intents[held[c].task])]
  BY <1>1, <1>2, EndGivesBack
<1>3. CASE Fenced(held[c]) /\ intents' = [intents EXCEPT ![held[c].task] = NoIntent]
  <2>1. held[c].task \in Task /\ Open(held[c].task)
    BY <1>1, <1>3 DEF Fenced, RefInv, IInv, TypeOK, Claim
  <2> QED BY <1>1, <1>3, <2>1, RemovalCloses
<1>4. \/ intents' = intents
      \/ /\ Fenced(held[c])
         /\ \/ intents' = [intents EXCEPT ![held[c].task] = Reopened(intents[held[c].task])]
            \/ intents' = [intents EXCEPT ![held[c].task] = NoIntent]
  <2>1. CASE ReleaseClaim(c) \/ EndWithoutWrite(c)
    BY <2>1 DEF ReleaseClaim, EndWithoutWrite
  <2>2. CASE SettleIntent(c) /\ Fenced(held[c])
    <3> DEFINE key == held[c].task
    <3>1. intents' = [intents EXCEPT ![key] =
                        IF intents[key].scope # "cascade" THEN NoIntent
                        ELSE IF intents[key].state = "claimed"
                             THEN Reopened(intents[key]) ELSE intents[key]]
      BY <2>2 DEF SettleIntent
    <3>2. [intents EXCEPT ![key] = intents[key]] = intents
      BY DEF RefInv, IInv, TypeOK
    <3> HIDE DEF key
    <3>3. \/ intents' = intents
          \/ intents' = [intents EXCEPT ![key] = Reopened(intents[key])]
          \/ intents' = [intents EXCEPT ![key] = NoIntent]
      BY <3>1, <3>2
    <3> QED BY <2>2, <3>3 DEF key
  <2>3. CASE SettleIntent(c) /\ ~Fenced(held[c])
    BY <2>3 DEF SettleIntent
  <2> QED BY <2>1, <2>2, <2>3 DEF EndAttempt
<1> QED BY <1>2, <1>3, <1>4

\* The settles without a claim: of another cascade's sweep, and of a postcondition.
LEMMA OtherSettles ==
    ASSUME RefInv, RefInv',
           \/ \E t \in Task : SettleUnclaimed(t)
           \/ \E c \in Custodian : SettleCascade(c)
    PROVE  Closes \/ UNCHANGED <<Status, Holder>>
<1>1. ASSUME NEW t \in Task, SettleUnclaimed(t)
      PROVE  Closes
  BY <1>1, RemovalCloses DEF SettleUnclaimed
<1>2. ASSUME NEW c \in Custodian, SettleCascade(c)
      PROVE  Closes \/ UNCHANGED <<Status, Holder>>
  <2>1. CASE intents' = intents
    BY <1>2, <2>1, UnseenSteps, UnseenStutters DEF RefInv, IInv
  <2>2. CASE intents' # intents
    <3>1. /\ Fenced(judged[c]) /\ judged[c].task \in Task
          /\ intents' = [intents EXCEPT ![judged[c].task] = NoIntent]
          /\ held' = held /\ serverPid' = serverPid /\ minted' = minted
      BY <1>2, <2>2 DEF SettleCascade, RefInv, IInv, TypeOK, Claim
    <3> QED BY <3>1, RemovalCloses DEF Fenced
  <2> QED BY <2>1, <2>2
<1> QED BY <1>1, <1>2

-----------------------------------------------------------------------------
(* The simulation.                                                         *)

\* Requests are minted within their bound (request_cancel).
LEMMA MintedWithinBound == Spec => []RefInv
<1>1. Init => minted <= MaxRequest
  BY BoundAssumption DEF Init
<1>2. IInv /\ minted <= MaxRequest /\ [Next]_vars => (minted <= MaxRequest)'
  <2> SUFFICES ASSUME IInv, minted <= MaxRequest, [Next]_vars PROVE minted' <= MaxRequest
    OBVIOUS
  <2>1. minted \in Nat
    BY DEF IInv, TypeOK
  <2>2. minted' = minted \/ (minted < MaxRequest /\ minted' = minted + 1)
    BY DEF Next, RequestCancel, MintIntent, RepeatRequest, RekeyIntent, MarkIntentScope,
           MarkFinalizeControlDrained, ClaimIntent, ReleaseClaim, SettleIntent, EndWithoutWrite,
           SettleUnclaimed, JudgeCascade, SettleCascade, SettleResult, AgeClaim, Restart,
           StoreFails, StoreRecovers, vars
  <2> QED BY <2>1, <2>2, BoundAssumption
<1> QED BY <1>1, <1>2, ClaimOrder, PTL DEF Spec, RefInv

\* The empty projection is the promise before any request.
LEMMA InitMaps == Init => Promise!Init
<1> SUFFICES ASSUME Init PROVE Promise!Init
  OBVIOUS
<1>1. \A n \in 1..MaxRequest : StatusOf(n) = "unborn"
  BY BoundAssumption DEF Init, StatusOf
<1>2. \A n \in 1..MaxRequest : HolderOf(n) = Nobody
  BY DEF Init, HolderOf, Owns, Fenced
<1> QED BY <1>1, <1>2 DEF Promise!Init

\* Every step is one of the promise or leaves it alone.
LEMMA StepMaps ==
    ASSUME RefInv, RefInv', [Next]_vars
    PROVE  [Promise!Next]_(Promise!vars)
<1> USE DEF Status, Holder, Request
<1>1. ASSUME NEW t \in Task, NEW scope \in Scope, NEW policy \in Policy \cup {"none"},
             NEW allowSettled \in BOOLEAN, MintIntent(t, scope, policy, allowSettled)
      PROVE  Promise!Next
  BY <1>1, MintMakes DEF Promise!Next, Promise!Make
<1>2. ASSUME NEW t \in Task, NEW policy \in Policy \cup {"none"}, RekeyIntent(t, policy)
      PROVE  UNCHANGED <<Status, Holder>>
  BY <1>2, RekeyStutters
<1>3. ASSUME NEW c \in Custodian, NEW t \in Task, ClaimIntent(c, t)
      PROVE  Promise!Next
  BY <1>3, ClaimTakes DEF Promise!Next, Promise!Take
<1>4. CASE GivesBack
  BY <1>4 DEF GivesBack, Promise!Next, Promise!GiveBack
<1>5. CASE Closes
  BY <1>5 DEF Closes, Promise!Next, Promise!Close
<1>6. CASE Restart
  BY <1>6, RestartLoses DEF Promise!Next, Promise!LoseAllHolders
<1>7. CASE QuietNext
  <2>1. \/ Restart \/ GivesBack \/ Closes \/ UNCHANGED <<Status, Holder>>
    BY <1>7, AttemptEnds, OtherSettles, UnseenSteps, UnseenStutters
       DEF QuietNext, EndAttempt, RefInv, IInv
  <2> QED BY <1>4, <1>5, <1>6, <2>1 DEF Promise!vars
<1> QED BY <1>1, <1>2, <1>3, <1>7, NextCases DEF Promise!vars

\* The projection implements its promise: a settled request never comes back, and custody of a
\* request passes from one attempt to another only by a claim (claim_intent, settle_intent,
\* release_claim), however many threads, takeovers, restarts and outages there are.
THEOREM ProjectionKeepsPromise == Spec => ImplementsStopRequests
<1>1. RefInv /\ RefInv' /\ [Next]_vars => [Promise!Next]_(Promise!vars)
  BY StepMaps
<1>2. Spec => Promise!Init /\ [][Promise!Next]_(Promise!vars)
  BY <1>1, InitMaps, MintedWithinBound, PTL DEF Spec
<1> QED BY <1>2 DEF ImplementsStopRequests, Promise!Spec
=============================================================================
