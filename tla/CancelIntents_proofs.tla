------------------------- MODULE CancelIntents_proofs -------------------------
(***************************************************************************)
(* Theorems about CancelIntents, for every set of tasks and custodians and *)
(* every bound.                                                            *)
(***************************************************************************)
EXTENDS CancelIntents, TLAPS

\* Every open row carries a request minted once and kept under one id only.
RequestsIdentifyRows ==
    /\ \A t \in Task : Open(t) => intents[t].request \in 1..minted
    /\ \A t, u \in Task :
          (Open(t) /\ Open(u) /\ intents[t].request = intents[u].request) => t = u

\* A remembered claim is never ahead of the row it was taken on, and two
\* remembered claims of one request are of different generations.
ClaimsAreOrdered ==
    /\ \A c \in Custodian : held[c] # NoClaim => held[c].request <= minted
    /\ \A c \in Custodian, t \in Task :
          (held[c] # NoClaim /\ Open(t) /\ intents[t].request = held[c].request)
          => held[c].generation <= intents[t].generation
    /\ \A c, d \in Custodian :
          (/\ c # d /\ held[c] # NoClaim /\ held[d] # NoClaim
           /\ held[c].request = held[d].request)
          => held[c].generation # held[d].generation

\* A logical root with a physical retry only ever has a cascade row.
RootRowsAreCascades ==
    \A t \in Task : (RetryLeaf[t] # t /\ Open(t)) => intents[t].scope = "cascade"

IInv == TypeOK /\ RequestsIdentifyRows /\ ClaimsAreOrdered

LineageInv == RootRowsAreCascades /\ SingleAuthorityPerLineage

-----------------------------------------------------------------------------
\* The logical root of a leaf is the one id whose lineage ends at it.
LEMMA LogicalRootOfLeaf ==
    ASSUME NEW r \in Task, RetryLeaf[r] # r
    PROVE  LogicalRoot(RetryLeaf[r]) = r
<1> DEFINE IsRoot(q) == q # RetryLeaf[r] /\ RetryLeaf[q] = RetryLeaf[r]
<1>1. \A q \in Task : IsRoot(q) => q = r
  BY LineageAssumption
<1>2. IsRoot(r)
  OBVIOUS
<1>3. (CHOOSE q \in Task : IsRoot(q)) = r
  BY <1>1, <1>2
<1> QED
  BY <1>2, <1>3 DEF LogicalRoot

\* A logical root is not itself the end of a lineage.
LEMMA RootIsNoLeaf ==
    ASSUME NEW r \in Task, RetryLeaf[r] # r, NEW t \in Task
    PROVE  RetryLeaf[t] # r
BY LineageAssumption

\* The id a request resolves to is a task.
LEMMA AuthorityKeyIsTask ==
    ASSUME NEW t \in Task, NEW scope \in Scope
    PROVE  AuthorityKey(t, scope) \in Task
<1>1. LogicalRoot(t) \in Task
  BY DEF LogicalRoot
<1> QED
  BY <1>1, LineageAssumption DEF AuthorityKey

\* An owner-stop key is a task.
LEMMA OwnerStopKeyIsTask ==
    ASSUME NEW t \in Task
    PROVE  OwnerStopKey(t) \in Task
BY DEF OwnerStopKey, LogicalRoot

\* An open row is a well-formed intent.
LEMMA OpenRowIsIntent ==
    ASSUME TypeOK, NEW t \in Task, Open(t)
    PROVE  intents[t] \in Intent
BY DEF TypeOK, Open

\* A claimed row is a well-formed intent.
LEMMA ClaimedIsIntent ==
    ASSUME NEW row \in Intent, serverPid \in Nat
    PROVE  Claimed(row) \in Intent
<1> DEFINE next == row.generation + 1
<1>1. next \in Nat
  BY DEF Intent
<1>2. Claimed(row) = [row EXCEPT !.state = "claimed", !.generation = next,
                                 !.pid = serverPid, !.aged = FALSE]
  BY DEF Claimed
<1> HIDE DEF next
<1> QED
  BY <1>1, <1>2 DEF Intent

-----------------------------------------------------------------------------
\* Type correctness: no operation of the projection, crash or outage leaves a
\* row or a remembered claim malformed (cancel_intents.py's row shapes).
THEOREM TypeCorrect == Spec => []TypeOK
<1>1. Init => TypeOK
  BY DEF Init, TypeOK
<1>2. TypeOK /\ [Next]_vars => TypeOK'
  <2> SUFFICES ASSUME TypeOK, [Next]_vars PROVE TypeOK'
    OBVIOUS
  <2> USE NullAssumption DEF TypeOK
  <2>1. ASSUME NEW t \in Task, NEW scope \in Scope, NEW policy \in Policy \cup {"none"},
               NEW allowSettled \in BOOLEAN, MintIntent(t, scope, policy, allowSettled)
        PROVE  TypeOK'
    BY <2>1, AuthorityKeyIsTask DEF MintIntent, Intent, Scope, Policy
  <2>2. ASSUME NEW t \in Task, NEW scope \in Scope, NEW policy \in Policy \cup {"none"},
               RepeatRequest(t, scope, policy)
        PROVE  TypeOK'
    <3> DEFINE key == AuthorityKey(t, scope)
    <3>1. key \in Task /\ intents[key] \in Intent
      BY <2>2, AuthorityKeyIsTask DEF RepeatRequest, Open
    <3>2. Strengthened(intents[key], scope, policy) \in Intent
      BY <3>1 DEF Strengthened, Intent, Scope, Policy
    <3> QED
      BY <2>2, <3>1, <3>2 DEF RepeatRequest
  <2>3. ASSUME NEW t \in Task, NEW policy \in Policy \cup {"none"}, RekeyIntent(t, policy)
        PROVE  TypeOK'
    <3>1. RetryLeaf[t] \in Task
      BY LineageAssumption
    <3>2. intents[RetryLeaf[t]] \in Intent
      BY <2>3, <3>1 DEF RekeyIntent, Rekeys, Open
    <3>3. Strengthened(intents[RetryLeaf[t]], "cascade", policy) \in Intent
      BY <3>2 DEF Strengthened, Intent, Scope, Policy
    <3> QED
      BY <2>3, <3>1, <3>3 DEF RekeyIntent
  <2>4. ASSUME NEW t \in Task, MarkIntentScope(t)
        PROVE  TypeOK'
    BY <2>4 DEF MarkIntentScope, Open, Intent, Scope
  <2>5. ASSUME NEW t \in Task, NEW stamp \in Stamp, MarkFinalizeControlDrained(t, stamp)
        PROVE  TypeOK'
    BY <2>5, OwnerStopKeyIsTask DEF MarkFinalizeControlDrained, Open, Intent
  <2>6. ASSUME NEW c \in Custodian, NEW t \in Task, ClaimIntent(c, t)
        PROVE  TypeOK'
    <3>1. intents[t] \in Intent
      BY <2>6 DEF ClaimIntent, Open
    <3>2. Claimed(intents[t]) \in Intent
      BY <3>1, ClaimedIsIntent
    <3>3. held'[c] \in Claim
      BY <2>6, <3>1 DEF ClaimIntent, Intent, Claim
    <3> QED
      BY <2>6, <3>2, <3>3 DEF ClaimIntent
  <2>7. ASSUME NEW c \in Custodian, ReleaseClaim(c)
        PROVE  TypeOK'
    BY <2>7 DEF ReleaseClaim, Fenced, Open, Reopened, Intent, Claim
  <2>8. ASSUME NEW c \in Custodian, SettleIntent(c)
        PROVE  TypeOK'
    <3>1. CASE ~Fenced(held[c])
      BY <2>8, <3>1 DEF SettleIntent
    <3>2. CASE Fenced(held[c])
      <4> DEFINE key == held[c].task
      <4>1. key \in Task /\ intents[key] \in Intent
        BY <3>2 DEF Fenced, Open, Claim
      <4>2. Reopened(intents[key]) \in Intent
        BY <4>1 DEF Reopened, Intent
      <4> HIDE DEF key
      <4>3. intents' = [intents EXCEPT ![key] =
                          IF intents[key].scope # "cascade" THEN NoIntent
                          ELSE IF intents[key].state = "claimed"
                               THEN Reopened(intents[key]) ELSE intents[key]]
        BY <2>8, <3>2 DEF SettleIntent, key
      <4>4. intents' \in [Task -> Intent \cup {NoIntent}]
        BY <4>1, <4>2, <4>3
      <4> QED
        BY <2>8, <4>4 DEF SettleIntent
    <3> QED
      BY <3>1, <3>2
  <2>9. ASSUME NEW c \in Custodian, EndWithoutWrite(c)
        PROVE  TypeOK'
    BY <2>9 DEF EndWithoutWrite
  <2>10. ASSUME NEW t \in Task, SettleUnclaimed(t)
         PROVE  TypeOK'
    BY <2>10 DEF SettleUnclaimed
  <2>11. ASSUME NEW c \in Custodian, NEW t \in Task, JudgeCascade(c, t)
         PROVE  TypeOK'
    BY <2>11 DEF JudgeCascade, TokenOf, Open, Intent, Claim
  <2>12. ASSUME NEW c \in Custodian, SettleCascade(c)
         PROVE  TypeOK'
    BY <2>12 DEF SettleCascade, Fenced
  <2>13. ASSUME NEW t \in Task, SettleResult(t)
         PROVE  TypeOK'
    BY <2>13 DEF SettleResult
  <2>14. ASSUME NEW t \in Task, AgeClaim(t)
         PROVE  TypeOK'
    BY <2>14 DEF AgeClaim, Open, Intent
  <2>15. CASE Restart
    <3>1. serverPid' \in Nat
      BY <2>15 DEF Restart
    <3> QED
      BY <2>15, <3>1 DEF Restart
  <2>16. CASE StoreFails
    <3>1. outages' \in Nat
      BY <2>16 DEF StoreFails
    <3> QED
      BY <2>16, <3>1 DEF StoreFails
  <2>17. CASE StoreRecovers
    BY <2>17 DEF StoreRecovers
  <2>18. CASE UNCHANGED vars
    BY <2>18 DEF vars
  <2> QED
    BY <2>1, <2>2, <2>3, <2>4, <2>5, <2>6, <2>7, <2>8, <2>9, <2>10, <2>11, <2>12,
       <2>13, <2>14, <2>15, <2>16, <2>17, <2>18 DEF Next, RequestCancel
<1> QED
  BY <1>1, <1>2, PTL DEF Spec

-----------------------------------------------------------------------------
\* What every step but a mint and a re-key does to the rows: it opens none, and
\* keeps request and cascade scope of those it leaves open.
RowsKept ==
    \A t \in Task : intents'[t] # NoIntent =>
        /\ Open(t)
        /\ intents'[t].request = intents[t].request
        /\ intents[t].scope = "cascade" => intents'[t].scope = "cascade"

\* What every step but those two and a claim does to generations and claims.
GenerationsKept ==
    \A t \in Task : intents'[t] # NoIntent => intents'[t].generation = intents[t].generation

ClaimsKept == \A c \in Custodian : held'[c] # NoClaim => held'[c] = held[c]

QuietNext ==
    \/ \E t \in Task, scope \in Scope, policy \in Policy \cup {"none"} :
          RepeatRequest(t, scope, policy)
    \/ \E t \in Task : MarkIntentScope(t)
    \/ \E t \in Task, stamp \in Stamp : MarkFinalizeControlDrained(t, stamp)
    \/ \E c \in Custodian : ReleaseClaim(c) \/ SettleIntent(c) \/ EndWithoutWrite(c)
    \/ \E t \in Task : SettleUnclaimed(t)
    \/ \E c \in Custodian, t \in Task : JudgeCascade(c, t)
    \/ \E c \in Custodian : SettleCascade(c)
    \/ \E t \in Task : SettleResult(t) \/ AgeClaim(t)
    \/ Restart \/ StoreFails \/ StoreRecovers
    \/ UNCHANGED vars

\* Next is a mint, a re-key, a claim or a quiet step.
LEMMA NextCases ==
    ASSUME [Next]_vars
    PROVE  \/ \E t \in Task, scope \in Scope, policy \in Policy \cup {"none"},
                 allowSettled \in BOOLEAN : MintIntent(t, scope, policy, allowSettled)
           \/ \E t \in Task, policy \in Policy \cup {"none"} : RekeyIntent(t, policy)
           \/ \E c \in Custodian, t \in Task : ClaimIntent(c, t)
           \/ QuietNext
BY DEF Next, RequestCancel, QuietNext

\* Replacing one row by a strengthened, re-opened or equal one keeps rows.
LEMMA RowReplaced ==
    ASSUME TypeOK, NEW key \in Task, NEW row \in Intent \cup {NoIntent},
           intents' = [intents EXCEPT ![key] = row],
           row # NoIntent =>
               /\ Open(key)
               /\ row.request = intents[key].request
               /\ row.generation = intents[key].generation
               /\ intents[key].scope = "cascade" => row.scope = "cascade"
    PROVE  RowsKept /\ GenerationsKept
BY DEF TypeOK, Open, RowsKept, GenerationsKept

\* A step that leaves the projection alone keeps every row.
LEMMA RowsUntouched ==
    ASSUME TypeOK, intents' = intents
    PROVE  RowsKept /\ GenerationsKept
BY DEF TypeOK, Open, RowsKept, GenerationsKept

\* Widening and hardening keep a row's identity.
LEMMA StrengthenedKeeps ==
    ASSUME NEW row \in Intent, NEW scope \in Scope, NEW policy \in Policy \cup {"none"}
    PROVE  /\ Strengthened(row, scope, policy) \in Intent
           /\ Strengthened(row, scope, policy).request = row.request
           /\ Strengthened(row, scope, policy).generation = row.generation
           /\ (row.scope = "cascade" \/ scope = "cascade")
                 => Strengthened(row, scope, policy).scope = "cascade"
BY DEF Strengthened, Intent, Scope, Policy

\* Giving a claim back keeps a row's identity.
LEMMA ReopenedKeeps ==
    ASSUME NEW row \in Intent
    PROVE  /\ Reopened(row) \in Intent
           /\ Reopened(row).request = row.request
           /\ Reopened(row).generation = row.generation
           /\ Reopened(row).scope = row.scope
BY DEF Reopened, Intent

\* A quiet step removes rows or changes them in place; it never re-identifies one
\* nor lowers a generation (every operation but mint, re-key and claim).
LEMMA QuietStepsKeep ==
    ASSUME TypeOK, QuietNext
    PROVE  RowsKept /\ GenerationsKept /\ ClaimsKept /\ minted' = minted
<1> USE NullAssumption
<1>1. ASSUME NEW t \in Task, NEW scope \in Scope, NEW policy \in Policy \cup {"none"},
             RepeatRequest(t, scope, policy)
      PROVE  RowsKept /\ GenerationsKept /\ ClaimsKept /\ minted' = minted
  <2> DEFINE key == AuthorityKey(t, scope)
  <2>1. key \in Task /\ Open(key) /\ intents[key] \in Intent
    BY <1>1, AuthorityKeyIsTask, OpenRowIsIntent DEF RepeatRequest
  <2>2. intents' = [intents EXCEPT ![key] = Strengthened(intents[key], scope, policy)]
    BY <1>1 DEF RepeatRequest
  <2> HIDE DEF key
  <2>3. RowsKept /\ GenerationsKept
    BY <2>1, <2>2, StrengthenedKeeps, RowReplaced
  <2> QED
    BY <1>1, <2>3 DEF RepeatRequest, ClaimsKept
<1>2. ASSUME NEW t \in Task, MarkIntentScope(t)
      PROVE  RowsKept /\ GenerationsKept /\ ClaimsKept /\ minted' = minted
  BY <1>2 DEF MarkIntentScope, TypeOK, Open, Intent, RowsKept, GenerationsKept, ClaimsKept
<1>3. ASSUME NEW t \in Task, NEW stamp \in Stamp, MarkFinalizeControlDrained(t, stamp)
      PROVE  RowsKept /\ GenerationsKept /\ ClaimsKept /\ minted' = minted
  BY <1>3, OwnerStopKeyIsTask
     DEF MarkFinalizeControlDrained, TypeOK, Open, Intent, RowsKept, GenerationsKept, ClaimsKept
<1>4. ASSUME NEW c \in Custodian, ReleaseClaim(c)
      PROVE  RowsKept /\ GenerationsKept /\ ClaimsKept /\ minted' = minted
  <2>1. CASE Fenced(held[c]) /\ intents[held[c].task].state = "claimed"
    <3> DEFINE key == held[c].task
    <3>1. key \in Task /\ Open(key) /\ intents[key] \in Intent
      BY <2>1, OpenRowIsIntent DEF Fenced, TypeOK, Claim
    <3>2. intents' = [intents EXCEPT ![key] = Reopened(intents[key])]
      BY <1>4, <2>1 DEF ReleaseClaim
    <3> HIDE DEF key
    <3> QED
      BY <1>4, <3>1, <3>2, ReopenedKeeps, RowReplaced DEF ReleaseClaim, ClaimsKept, TypeOK
  <2>2. CASE ~(Fenced(held[c]) /\ intents[held[c].task].state = "claimed")
    BY <1>4, <2>2, RowsUntouched DEF ReleaseClaim, ClaimsKept, TypeOK
  <2> QED
    BY <2>1, <2>2
<1>5. ASSUME NEW c \in Custodian, SettleIntent(c)
      PROVE  RowsKept /\ GenerationsKept /\ ClaimsKept /\ minted' = minted
  <2>1. CASE Fenced(held[c])
    <3> DEFINE key == held[c].task
               row == IF intents[key].scope # "cascade" THEN NoIntent
                      ELSE IF intents[key].state = "claimed"
                           THEN Reopened(intents[key]) ELSE intents[key]
    <3>1. key \in Task /\ Open(key) /\ intents[key] \in Intent
      BY <2>1, OpenRowIsIntent DEF Fenced, TypeOK, Claim
    <3>2. intents' = [intents EXCEPT ![key] = row]
      BY <1>5, <2>1 DEF SettleIntent
    <3> HIDE DEF key
    <3>3. /\ row \in Intent \cup {NoIntent}
          /\ row # NoIntent => /\ row.request = intents[key].request
                               /\ row.generation = intents[key].generation
                               /\ row.scope = intents[key].scope
      BY <3>1, ReopenedKeeps
    <3> HIDE DEF row
    <3>4. RowsKept /\ GenerationsKept
      BY <3>1, <3>2, <3>3, RowReplaced
    <3> QED
      BY <1>5, <3>4 DEF SettleIntent, ClaimsKept, TypeOK
  <2>2. CASE ~Fenced(held[c])
    BY <1>5, <2>2, RowsUntouched DEF SettleIntent, ClaimsKept, TypeOK
  <2> QED
    BY <2>1, <2>2
<1>6. ASSUME NEW c \in Custodian, EndWithoutWrite(c)
      PROVE  RowsKept /\ GenerationsKept /\ ClaimsKept /\ minted' = minted
  BY <1>6, RowsUntouched DEF EndWithoutWrite, ClaimsKept, TypeOK
<1>7. ASSUME NEW t \in Task, SettleUnclaimed(t)
      PROVE  RowsKept /\ GenerationsKept /\ ClaimsKept /\ minted' = minted
  BY <1>7, RowReplaced DEF SettleUnclaimed, ClaimsKept, TypeOK
<1>8. ASSUME NEW c \in Custodian, NEW t \in Task, JudgeCascade(c, t)
      PROVE  RowsKept /\ GenerationsKept /\ ClaimsKept /\ minted' = minted
  BY <1>8, RowsUntouched DEF JudgeCascade, ClaimsKept
<1>9. ASSUME NEW c \in Custodian, SettleCascade(c)
      PROVE  RowsKept /\ GenerationsKept /\ ClaimsKept /\ minted' = minted
  <2>1. RowsKept /\ GenerationsKept
    BY <1>9 DEF SettleCascade, Fenced, TypeOK, Open, Claim, RowsKept, GenerationsKept
  <2> QED
    BY <1>9, <2>1 DEF SettleCascade, ClaimsKept
<1>10. ASSUME NEW t \in Task, SettleResult(t)
       PROVE  RowsKept /\ GenerationsKept /\ ClaimsKept /\ minted' = minted
  BY <1>10, RowsUntouched DEF SettleResult, ClaimsKept
<1>11. ASSUME NEW t \in Task, AgeClaim(t)
       PROVE  RowsKept /\ GenerationsKept /\ ClaimsKept /\ minted' = minted
  BY <1>11 DEF AgeClaim, TypeOK, Open, Intent, RowsKept, GenerationsKept, ClaimsKept
<1>12. CASE Restart
  BY <1>12, RowsUntouched DEF Restart, ClaimsKept
<1>13. CASE StoreFails \/ StoreRecovers \/ UNCHANGED vars
  BY <1>13, RowsUntouched DEF StoreFails, StoreRecovers, vars, ClaimsKept
<1> QED
  BY <1>1, <1>2, <1>3, <1>4, <1>5, <1>6, <1>7, <1>8, <1>9, <1>10, <1>11, <1>12, <1>13
     DEF QuietNext

-----------------------------------------------------------------------------
\* A mint gives a fresh request to an id that had no row.
LEMMA MintKeepsOrder ==
    ASSUME IInv, NEW t \in Task, NEW scope \in Scope, NEW policy \in Policy \cup {"none"},
           NEW allowSettled \in BOOLEAN, MintIntent(t, scope, policy, allowSettled)
    PROVE  RequestsIdentifyRows' /\ ClaimsAreOrdered'
<1> DEFINE key == AuthorityKey(t, scope)
<1>1. key \in Task
  BY AuthorityKeyIsTask
<1>2. minted \in Nat /\ minted' = minted + 1 /\ held' = held
  BY DEF MintIntent, IInv, TypeOK
<1>3. /\ intents'[key] # NoIntent
      /\ intents'[key].request = minted + 1
      /\ intents'[key].generation = 0
      /\ \A u \in Task : u # key => intents'[u] = intents[u]
  <2> DEFINE row == [request |-> minted + 1, state |-> "requested", generation |-> 0,
                     scope |-> scope,
                     policy |-> IF policy = "finalize" THEN "finalize" ELSE "immediate",
                     drained |-> NotDrained, pid |-> 0, aged |-> FALSE]
  <2>1. row \in Intent
    BY <1>2 DEF Intent, Scope, Policy
  <2>2. row # NoIntent
    BY <2>1, NullAssumption
  <2>3. row.request = minted + 1 /\ row.generation = 0
    OBVIOUS
  <2>4. intents' = [intents EXCEPT ![key] = row]
    BY DEF MintIntent
  <2> HIDE DEF row, key
  <2> QED
    BY <1>1, <2>2, <2>3, <2>4 DEF IInv, TypeOK
<1> HIDE DEF key
<1>4. \A u \in Task : Open(u) => intents[u].request \in 1..minted
  BY DEF IInv, RequestsIdentifyRows
<1>5. RequestsIdentifyRows'
  <2>1. \A u \in Task : intents'[u] # NoIntent => intents'[u].request \in 1..(minted + 1)
    BY <1>1, <1>2, <1>3, <1>4 DEF Open
  <2>2. \A u, v \in Task :
           (/\ intents'[u] # NoIntent /\ intents'[v] # NoIntent
            /\ intents'[u].request = intents'[v].request) => u = v
    BY <1>1, <1>2, <1>3, <1>4 DEF Open, IInv, RequestsIdentifyRows
  <2> QED
    BY <1>2, <2>1, <2>2 DEF RequestsIdentifyRows, Open
<1>6. \A c \in Custodian : held[c] # NoClaim => held[c].request \in Nat /\ held[c].request <= minted
  BY DEF IInv, ClaimsAreOrdered, TypeOK, Claim
<1>7. \A c \in Custodian, u \in Task :
         (held[c] # NoClaim /\ intents'[u] # NoIntent /\ intents'[u].request = held[c].request)
         => held[c].generation <= intents'[u].generation
  BY <1>1, <1>2, <1>3, <1>6 DEF IInv, ClaimsAreOrdered, Open
<1> QED
  BY <1>2, <1>5, <1>6, <1>7 DEF ClaimsAreOrdered, Open, IInv

\* A re-key moves one row, unchanged in identity, to an id that had none.
LEMMA RekeyMovesRow ==
    ASSUME TypeOK, NEW t \in Task, NEW policy \in Policy \cup {"none"}, RekeyIntent(t, policy)
    PROVE  /\ RetryLeaf[t] \in Task /\ RetryLeaf[t] # t
           /\ Open(RetryLeaf[t]) /\ ~Open(t)
           /\ intents'[RetryLeaf[t]] = NoIntent
           /\ intents'[t] \in Intent
           /\ intents'[t].request = intents[RetryLeaf[t]].request
           /\ intents'[t].generation = intents[RetryLeaf[t]].generation
           /\ intents'[t].scope = "cascade"
           /\ \A u \in Task \ {t, RetryLeaf[t]} : intents'[u] = intents[u]
           /\ minted' = minted /\ held' = held
<1>1. RetryLeaf[t] \in Task
  BY LineageAssumption
<1>2. RetryLeaf[t] # t /\ Open(RetryLeaf[t]) /\ ~Open(t)
  BY DEF RekeyIntent, Rekeys
<1>3. intents[RetryLeaf[t]] \in Intent
  BY <1>1, <1>2, OpenRowIsIntent
<1> DEFINE row == Strengthened(intents[RetryLeaf[t]], "cascade", policy)
<1>4. /\ row \in Intent
      /\ row.request = intents[RetryLeaf[t]].request
      /\ row.generation = intents[RetryLeaf[t]].generation
      /\ row.scope = "cascade"
  BY <1>3, StrengthenedKeeps DEF Scope
<1>5. intents' = [intents EXCEPT ![RetryLeaf[t]] = NoIntent, ![t] = row]
  BY DEF RekeyIntent
<1> HIDE DEF row
<1> QED
  BY <1>1, <1>2, <1>4, <1>5 DEF TypeOK, RekeyIntent

\* A re-key keeps the order of claims: request_cancel moves unclaimed rows only.
LEMMA RekeyKeepsOrder ==
    ASSUME IInv, NEW t \in Task, NEW policy \in Policy \cup {"none"}, RekeyIntent(t, policy)
    PROVE  RequestsIdentifyRows' /\ ClaimsAreOrdered'
<1> DEFINE leaf == RetryLeaf[t]
<1>1. /\ leaf \in Task /\ leaf # t /\ Open(leaf)
      /\ intents'[leaf] = NoIntent
      /\ intents'[t].request = intents[leaf].request
      /\ intents'[t].generation = intents[leaf].generation
      /\ \A u \in Task \ {t, leaf} : intents'[u] = intents[u]
      /\ minted' = minted /\ held' = held
  BY RekeyMovesRow DEF IInv
<1> HIDE DEF leaf
<1>2. RequestsIdentifyRows'
  BY <1>1 DEF IInv, RequestsIdentifyRows, Open
<1>3. ClaimsAreOrdered'
  BY <1>1 DEF IInv, ClaimsAreOrdered, Open
<1> QED
  BY <1>2, <1>3

\* A claim takes a generation no attempt of the same request ever held.
LEMMA ClaimAdvancesRow ==
    ASSUME TypeOK, NEW c \in Custodian, NEW t \in Task, ClaimIntent(c, t)
    PROVE  /\ Open(t)
           /\ intents'[t] \in Intent
           /\ intents'[t].request = intents[t].request
           /\ intents'[t].generation = intents[t].generation + 1
           /\ intents'[t].scope = intents[t].scope
           /\ \A u \in Task : u # t => intents'[u] = intents[u]
           /\ held'[c] # NoClaim
           /\ held'[c].request = intents[t].request
           /\ held'[c].generation = intents[t].generation + 1
           /\ \A d \in Custodian : d # c => held'[d] = held[d]
           /\ minted' = minted
<1>1. Open(t) /\ intents[t] \in Intent
  BY OpenRowIsIntent DEF ClaimIntent
<1>2. /\ Claimed(intents[t]).request = intents[t].request
      /\ Claimed(intents[t]).generation = intents[t].generation + 1
      /\ Claimed(intents[t]).scope = intents[t].scope
  BY <1>1 DEF Claimed, Intent
<1>3. intents'[t] = Claimed(intents[t]) /\ \A u \in Task : u # t => intents'[u] = intents[u]
  BY DEF ClaimIntent, TypeOK
<1>4. intents'[t] \in Intent
  BY <1>1, <1>3, ClaimedIsIntent DEF TypeOK
<1> DEFINE claim == [task |-> t, request |-> intents[t].request,
                     generation |-> intents[t].generation + 1]
<1>5. claim \in Claim
  BY <1>1 DEF Intent, Claim
<1>6. held' = [held EXCEPT ![c] = claim]
  BY DEF ClaimIntent
<1>7. claim # NoClaim /\ claim.request = intents[t].request
      /\ claim.generation = intents[t].generation + 1
  BY <1>5, NullAssumption
<1> HIDE DEF claim
<1>8. /\ held'[c] = claim
      /\ \A d \in Custodian : d # c => held'[d] = held[d]
  BY <1>6 DEF TypeOK
<1>9. minted' = minted
  BY DEF ClaimIntent
<1> QED
  BY <1>1, <1>2, <1>3, <1>4, <1>7, <1>8, <1>9

\* claim_intent keeps the order of claims: its generation is above all earlier ones.
LEMMA ClaimKeepsOrder ==
    ASSUME IInv, NEW c \in Custodian, NEW t \in Task, ClaimIntent(c, t)
    PROVE  RequestsIdentifyRows' /\ ClaimsAreOrdered'
<1>1. /\ Open(t)
      /\ intents'[t] # NoIntent
      /\ intents'[t].request = intents[t].request
      /\ intents'[t].generation = intents[t].generation + 1
      /\ \A u \in Task : u # t => intents'[u] = intents[u]
      /\ held'[c] # NoClaim
      /\ held'[c].request = intents[t].request
      /\ held'[c].generation = intents[t].generation + 1
      /\ \A d \in Custodian : d # c => held'[d] = held[d]
      /\ minted' = minted
  BY ClaimAdvancesRow, NullAssumption DEF IInv
<1>2. RequestsIdentifyRows'
  BY <1>1 DEF IInv, RequestsIdentifyRows, Open
<1>3. intents[t].generation \in Nat /\ intents[t].request \in 1..minted /\ minted \in Nat
  BY <1>1, OpenRowIsIntent DEF IInv, RequestsIdentifyRows, Intent, TypeOK
<1>4. \A d \in Custodian : held[d] # NoClaim => held[d].generation \in Nat
  BY DEF IInv, TypeOK, Claim
<1>5. \A d \in Custodian : held'[d] # NoClaim => held'[d].request <= minted'
  BY <1>1, <1>3 DEF IInv, ClaimsAreOrdered
<1>6. \A d \in Custodian, u \in Task :
         (held'[d] # NoClaim /\ intents'[u] # NoIntent /\ intents'[u].request = held'[d].request)
         => held'[d].generation <= intents'[u].generation
  <2> SUFFICES ASSUME NEW d \in Custodian, NEW u \in Task,
                      held'[d] # NoClaim, intents'[u] # NoIntent,
                      intents'[u].request = held'[d].request
               PROVE  held'[d].generation <= intents'[u].generation
    OBVIOUS
  <2>1. CASE d = c
    <3>1. u = t
      BY <1>1, <1>2, <2>1 DEF RequestsIdentifyRows, Open
    <3> QED
      BY <1>1, <1>3, <2>1, <3>1
  <2>2. CASE d # c /\ u = t
    BY <1>1, <1>3, <1>4, <2>2 DEF IInv, ClaimsAreOrdered
  <2>3. CASE d # c /\ u # t
    BY <1>1, <2>3 DEF IInv, ClaimsAreOrdered, Open
  <2> QED
    BY <2>1, <2>2, <2>3
<1>7. \A d \in Custodian :
         (d # c /\ held[d] # NoClaim /\ held[d].request = intents[t].request)
         => held[d].generation # intents[t].generation + 1
  BY <1>1, <1>3, <1>4 DEF IInv, ClaimsAreOrdered
<1>8. \A d, e \in Custodian :
         (/\ d # e /\ held'[d] # NoClaim /\ held'[e] # NoClaim
          /\ held'[d].request = held'[e].request)
         => held'[d].generation # held'[e].generation
  BY <1>1, <1>7 DEF IInv, ClaimsAreOrdered
<1> QED
  BY <1>2, <1>5, <1>6, <1>8 DEF ClaimsAreOrdered, Open

\* Releasing, settling, ageing and restarting keep the order of claims.
LEMMA QuietKeepsOrder ==
    ASSUME IInv, QuietNext
    PROVE  RequestsIdentifyRows' /\ ClaimsAreOrdered'
<1>1. RowsKept /\ GenerationsKept /\ ClaimsKept /\ minted' = minted
  BY QuietStepsKeep DEF IInv
<1>2. RequestsIdentifyRows'
  BY <1>1 DEF IInv, RequestsIdentifyRows, RowsKept, Open
<1>3. ClaimsAreOrdered'
  BY <1>1 DEF IInv, ClaimsAreOrdered, RowsKept, GenerationsKept, ClaimsKept, Open
<1> QED
  BY <1>2, <1>3

\* The inductive invariant behind the write fence.
THEOREM ClaimOrder == Spec => []IInv
<1>1. Init => RequestsIdentifyRows /\ ClaimsAreOrdered
  BY DEF Init, RequestsIdentifyRows, ClaimsAreOrdered, Open
<1>2. IInv /\ [Next]_vars => RequestsIdentifyRows' /\ ClaimsAreOrdered'
  BY NextCases, MintKeepsOrder, RekeyKeepsOrder, ClaimKeepsOrder, QuietKeepsOrder
<1>3. IInv <=> TypeOK /\ RequestsIdentifyRows /\ ClaimsAreOrdered
  BY DEF IInv
<1> DEFINE Order == RequestsIdentifyRows /\ ClaimsAreOrdered
<1>4. Init => Order
  BY <1>1
<1>5. TypeOK /\ Order /\ [Next]_vars => Order'
  BY <1>2 DEF IInv
<1>6. TypeOK /\ Order => IInv
  BY DEF IInv
<1> HIDE DEF Order
<1> QED
  BY <1>4, <1>5, <1>6, TypeCorrect, PTL DEF Spec

\* claim_still_owned is a mutual exclusion: no two custody attempts pass the write
\* fence of one row, for any number of attempts, restarts, takeovers and outages.
THEOREM ClaimExclusionHolds == Spec => []ClaimExclusion
<1>1. IInv => ClaimExclusion
  BY DEF IInv, ClaimsAreOrdered, ClaimExclusion, Owns, Fenced
<1> QED
  BY <1>1, ClaimOrder, PTL

-----------------------------------------------------------------------------
\* Minting under the authority key never makes a lineage's second row.
LEMMA MintKeepsLineage ==
    ASSUME TypeOK, LineageInv, NEW t \in Task, NEW scope \in Scope,
           NEW policy \in Policy \cup {"none"}, NEW allowSettled \in BOOLEAN,
           MintIntent(t, scope, policy, allowSettled)
    PROVE  LineageInv'
<1> DEFINE key == AuthorityKey(t, scope)
<1>1. key \in Task /\ ~Open(key) /\ ~Rekeys(t, scope)
  BY AuthorityKeyIsTask DEF MintIntent
<1>2. /\ intents'[key].scope = scope
      /\ \A u \in Task : u # key => intents'[u] = intents[u]
  BY <1>1 DEF MintIntent, TypeOK
\* The id is asked for itself and names no alias, or is the leaf of what was asked for.
<1>3. \/ key = t /\ scope = "cascade" /\ ~Open(t) /\ ~AliasedToRoot(t)
      \/ key = RetryLeaf[t] /\ ~Open(t) /\ ~AliasedToRoot(t)
  BY <1>1 DEF AuthorityKey, AliasedToRoot
<1>4. RetryLeaf[key] # key => key = t /\ scope = "cascade" /\ ~Open(RetryLeaf[t])
  BY <1>1, <1>3, LineageAssumption DEF Rekeys
<1>5. \A r \in Task : (RetryLeaf[r] = key /\ r # key) => ~Open(r)
  <2> SUFFICES ASSUME NEW r \in Task, RetryLeaf[r] = key, r # key, Open(r)
               PROVE  FALSE
    OBVIOUS
  <2>1. intents[r].scope = "cascade"
    BY DEF LineageInv, RootRowsAreCascades
  <2>2. LogicalRoot(key) = r
    BY LogicalRootOfLeaf
  <2>3. CASE key = t
    BY <1>1, <1>3, <2>1, <2>2, <2>3 DEF AliasedToRoot
  <2>4. CASE key = RetryLeaf[t] /\ key # t
    BY <1>3, <2>4, LineageAssumption
  <2> QED
    BY <1>3, <2>3, <2>4
<1> HIDE DEF key
<1>6. RootRowsAreCascades'
  BY <1>1, <1>2, <1>4 DEF LineageInv, RootRowsAreCascades, Open
<1>7. SingleAuthorityPerLineage'
  BY <1>1, <1>2, <1>4, <1>5, LineageAssumption DEF LineageInv, SingleAuthorityPerLineage, Open
<1> QED
  BY <1>6, <1>7 DEF LineageInv

\* Re-keying a leaf's row to its logical root leaves the leaf without one.
LEMMA RekeyKeepsLineage ==
    ASSUME TypeOK, LineageInv, NEW t \in Task, NEW policy \in Policy \cup {"none"},
           RekeyIntent(t, policy)
    PROVE  LineageInv'
<1>1. /\ RetryLeaf[t] \in Task /\ RetryLeaf[t] # t
      /\ intents'[RetryLeaf[t]] = NoIntent
      /\ intents'[t].scope = "cascade"
      /\ \A u \in Task \ {t, RetryLeaf[t]} : intents'[u] = intents[u]
  BY RekeyMovesRow
<1>2. RootRowsAreCascades'
  BY <1>1 DEF LineageInv, RootRowsAreCascades, Open
<1>3. \A r \in Task : RetryLeaf[r] # t
  BY <1>1, RootIsNoLeaf
<1>4. SingleAuthorityPerLineage'
  BY <1>1, <1>3, LineageAssumption DEF LineageInv, SingleAuthorityPerLineage, Open
<1> QED
  BY <1>2, <1>4 DEF LineageInv

\* A step that opens no row keeps one authority per lineage.
LEMMA KeptRowsKeepLineage ==
    ASSUME LineageInv, RowsKept
    PROVE  LineageInv'
BY LineageAssumption
   DEF LineageInv, RootRowsAreCascades, SingleAuthorityPerLineage, RowsKept, Open

\* request_cancel never leaves two open rows in one retry lineage: a Stop closed
\* on one physical id has no twin on the other.
THEOREM SingleAuthorityHolds == Spec => []SingleAuthorityPerLineage
<1>1. Init => LineageInv
  BY DEF Init, LineageInv, RootRowsAreCascades, SingleAuthorityPerLineage, Open
<1>2. TypeOK /\ LineageInv /\ [Next]_vars => LineageInv'
  <2> SUFFICES ASSUME TypeOK, LineageInv, [Next]_vars PROVE LineageInv'
    OBVIOUS
  <2>1. ASSUME NEW c \in Custodian, NEW t \in Task, ClaimIntent(c, t)
        PROVE  LineageInv'
    <3>1. RowsKept
      BY <2>1, ClaimAdvancesRow DEF RowsKept, Open
    <3> QED
      BY <3>1, KeptRowsKeepLineage
  <2>2. CASE QuietNext
    BY <2>2, QuietStepsKeep, KeptRowsKeepLineage
  <2> QED
    BY <2>1, <2>2, NextCases, MintKeepsLineage, RekeyKeepsLineage
<1>3. LineageInv => SingleAuthorityPerLineage
  BY DEF LineageInv
<1> QED
  BY <1>1, <1>2, <1>3, TypeCorrect, PTL DEF Spec
=============================================================================
