---------------------- MODULE CancelIntentsActions_proofs ----------------------
(***************************************************************************)
(* What no step of CancelIntents does, for every set of tasks and          *)
(* custodians and every bound: its action properties.                      *)
(***************************************************************************)
EXTENDS CancelIntents_proofs

\* A row that took an earlier one's place is as wide and as hard, and as drained.
NoWeaker(old, new) ==
    /\ old.scope = "cascade" => new.scope = "cascade"
    /\ old.policy = "immediate" => new.policy = "immediate"
    /\ old.drained # NotDrained => new.drained = old.drained

\* What every step but a mint and a re-key does to a row it leaves open.
RowsHarden == \A t \in Task : intents'[t] # NoIntent => NoWeaker(intents[t], intents'[t])

\* What every step but a re-key and the end of a cascade does to the cascade rows.
CascadesStay == \A t \in Task : Open(t) /\ intents[t].scope = "cascade" => intents'[t] # NoIntent

-----------------------------------------------------------------------------
(* How the operations change one row.                                      *)

\* A row replaced by one that is no weaker, or removed when it was single.
LEMMA RowHardened ==
    ASSUME TypeOK, NEW key \in Task, NEW row \in Intent \cup {NoIntent},
           intents' = [intents EXCEPT ![key] = row],
           row # NoIntent => NoWeaker(intents[key], row)
    PROVE  /\ RowsHarden
           /\ (row = NoIntent => intents[key].scope # "cascade") => CascadesStay
<1>1. \A t \in Task : intents'[t] = IF t = key THEN row ELSE intents[t]
  BY DEF TypeOK
<1>2. RowsHarden
  BY <1>1 DEF RowsHarden, NoWeaker
<1>3. (row = NoIntent => intents[key].scope # "cascade") => CascadesStay
  BY <1>1 DEF CascadesStay, Open
<1> QED BY <1>2, <1>3

LEMMA RowsUnchanged ==
    ASSUME intents' = intents
    PROVE  RowsHarden /\ CascadesStay
BY DEF RowsHarden, CascadesStay, NoWeaker, Open

\* A repeated request and a re-keyed one are no weaker than the row they found.
LEMMA StrengthenedHardens ==
    ASSUME NEW row \in Intent, NEW scope \in Scope, NEW policy \in Policy \cup {"none"}
    PROVE  NoWeaker(row, Strengthened(row, scope, policy))
BY DEF Strengthened, NoWeaker, Intent, Scope, Policy

\* Nor is one whose claim is taken or given back.
LEMMA ClaimingHardens ==
    ASSUME NEW row \in Intent
    PROVE  NoWeaker(row, Claimed(row)) /\ NoWeaker(row, Reopened(row))
BY DEF Claimed, Reopened, NoWeaker, Intent

\* A quiet step weakens no row, and none but the postcondition's settle ends a cascade
\* (settle_intent without allow_cascade_scope).
LEMMA QuietStepsHarden ==
    ASSUME TypeOK, QuietNext
    PROVE  RowsHarden /\ (CascadesStay \/ \E c \in Custodian : SettleCascade(c))
<1> USE NullAssumption
<1>1. ASSUME NEW t \in Task, NEW scope \in Scope, NEW policy \in Policy \cup {"none"},
             RepeatRequest(t, scope, policy)
      PROVE  RowsHarden /\ CascadesStay
  <2> DEFINE key == AuthorityKey(t, scope)
             row == Strengthened(intents[key], scope, policy)
  <2>1. key \in Task /\ intents[key] \in Intent /\ intents' = [intents EXCEPT ![key] = row]
    BY <1>1, AuthorityKeyIsTask, OpenRowIsIntent DEF RepeatRequest
  <2>2. row \in Intent /\ NoWeaker(intents[key], row)
    BY <2>1, StrengthenedKeeps, StrengthenedHardens
  <2> HIDE DEF key, row
  <2> QED BY <2>1, <2>2, RowHardened
<1>2. ASSUME NEW t \in Task, MarkIntentScope(t)
      PROVE  RowsHarden /\ CascadesStay
  <2> DEFINE row == [intents[t] EXCEPT !.scope = "cascade"]
  <2>1. intents[t] \in Intent /\ intents' = [intents EXCEPT ![t] = row]
    BY <1>2, OpenRowIsIntent DEF MarkIntentScope
  <2>2. row \in Intent /\ NoWeaker(intents[t], row)
    BY <2>1 DEF Intent, Scope, NoWeaker
  <2> HIDE DEF row
  <2> QED BY <2>1, <2>2, RowHardened
<1>3. ASSUME NEW t \in Task, NEW stamp \in Stamp, MarkFinalizeControlDrained(t, stamp)
      PROVE  RowsHarden /\ CascadesStay
  <2> DEFINE key == OwnerStopKey(t)
             row == [intents[key] EXCEPT !.drained = stamp]
  <2>1. /\ key \in Task /\ intents[key] \in Intent /\ intents' = [intents EXCEPT ![key] = row]
        /\ intents[key].drained = NotDrained
    BY <1>3, OwnerStopKeyIsTask, OpenRowIsIntent DEF MarkFinalizeControlDrained
  <2>2. row \in Intent /\ NoWeaker(intents[key], row)
    BY <2>1 DEF Intent, NoWeaker
  <2> HIDE DEF key, row
  <2> QED BY <2>1, <2>2, RowHardened
<1>4. ASSUME NEW c \in Custodian, ReleaseClaim(c)
      PROVE  RowsHarden /\ CascadesStay
  <2>1. CASE Fenced(held[c]) /\ intents[held[c].task].state = "claimed"
    <3> DEFINE key == held[c].task
               row == Reopened(intents[key])
    <3>1. key \in Task /\ intents[key] \in Intent /\ intents' = [intents EXCEPT ![key] = row]
      BY <1>4, <2>1, OpenRowIsIntent DEF ReleaseClaim, Fenced, TypeOK, Claim
    <3>2. row \in Intent /\ NoWeaker(intents[key], row)
      BY <3>1, ReopenedKeeps, ClaimingHardens
    <3> HIDE DEF key, row
    <3> QED BY <3>1, <3>2, RowHardened
  <2>2. CASE ~(Fenced(held[c]) /\ intents[held[c].task].state = "claimed")
    BY <1>4, <2>2, RowsUnchanged DEF ReleaseClaim
  <2> QED BY <2>1, <2>2
<1>5. ASSUME NEW c \in Custodian, SettleIntent(c)
      PROVE  RowsHarden /\ CascadesStay
  <2>1. CASE Fenced(held[c])
    <3> DEFINE key == held[c].task
               row == IF intents[key].scope # "cascade" THEN NoIntent
                      ELSE IF intents[key].state = "claimed"
                           THEN Reopened(intents[key]) ELSE intents[key]
    <3>1. key \in Task /\ intents[key] \in Intent /\ intents' = [intents EXCEPT ![key] = row]
      BY <1>5, <2>1, OpenRowIsIntent DEF SettleIntent, Fenced, TypeOK, Claim
    <3>2. /\ row \in Intent \cup {NoIntent}
          /\ row # NoIntent => NoWeaker(intents[key], row)
          /\ row = NoIntent => intents[key].scope # "cascade"
      BY <3>1, ReopenedKeeps, ClaimingHardens DEF NoWeaker
    <3> HIDE DEF key, row
    <3> QED BY <3>1, <3>2, RowHardened
  <2>2. CASE ~Fenced(held[c])
    BY <1>5, <2>2, RowsUnchanged DEF SettleIntent
  <2> QED BY <2>1, <2>2
<1>6. ASSUME NEW t \in Task, SettleUnclaimed(t)
      PROVE  RowsHarden /\ CascadesStay
  BY <1>6, RowHardened DEF SettleUnclaimed
<1>7. ASSUME NEW c \in Custodian, SettleCascade(c)
      PROVE  RowsHarden
  BY <1>7, RowHardened, RowsUnchanged DEF SettleCascade, Fenced, TypeOK, Claim
<1>8. ASSUME NEW t \in Task, AgeClaim(t)
      PROVE  RowsHarden /\ CascadesStay
  <2> DEFINE row == [intents[t] EXCEPT !.aged = TRUE]
  <2>1. intents[t] \in Intent /\ intents' = [intents EXCEPT ![t] = row]
    BY <1>8, OpenRowIsIntent DEF AgeClaim
  <2>2. row \in Intent /\ NoWeaker(intents[t], row)
    BY <2>1 DEF Intent, NoWeaker
  <2> HIDE DEF row
  <2> QED BY <2>1, <2>2, RowHardened
<1>9. CASE UNCHANGED intents
  BY <1>9, RowsUnchanged
<1>10. \/ UNCHANGED intents \/ \E c \in Custodian : ReleaseClaim(c) \/ SettleIntent(c) \/ SettleCascade(c)
       \/ \E t \in Task : MarkIntentScope(t) \/ SettleUnclaimed(t) \/ AgeClaim(t)
       \/ \E t \in Task, stamp \in Stamp : MarkFinalizeControlDrained(t, stamp)
       \/ \E t \in Task, scope \in Scope, policy \in Policy \cup {"none"} :
             RepeatRequest(t, scope, policy)
  BY DEF QuietNext, EndWithoutWrite, JudgeCascade, SettleResult, Restart, StoreFails,
         StoreRecovers, vars
<1> QED BY <1>1, <1>2, <1>3, <1>4, <1>5, <1>6, <1>7, <1>8, <1>9, <1>10

\* A mint leaves the open rows alone and gives its own a request nobody has.
LEMMA MintIsFresh ==
    ASSUME IInv, NEW t \in Task, NEW scope \in Scope, NEW policy \in Policy \cup {"none"},
           NEW allowSettled \in BOOLEAN, MintIntent(t, scope, policy, allowSettled)
    PROVE  /\ \A u \in Task : Open(u) => intents'[u] = intents[u]
           /\ \A u, v \in Task :
                 Open(u) /\ intents'[v] # NoIntent /\ intents'[v].request = intents[u].request
                 => v = u
           /\ held' = held
<1> DEFINE key == AuthorityKey(t, scope)
<1>1. /\ key \in Task /\ ~Open(key) /\ held' = held
      /\ intents'[key].request = minted + 1
      /\ \A u \in Task : u # key => intents'[u] = intents[u]
  BY AuthorityKeyIsTask DEF MintIntent, IInv, TypeOK
<1>2. \A u \in Task : Open(u) => intents[u].request # minted + 1
  BY DEF IInv, RequestsIdentifyRows, TypeOK
<1> HIDE DEF key
<1> QED BY <1>1, <1>2 DEF IInv, RequestsIdentifyRows, Open

-----------------------------------------------------------------------------
(* The action properties.                                                  *)

\* Only a claim, a restart and the ends of an attempt touch what a thread holds.
LEMMA HolderCases ==
    ASSUME [Next]_vars
    PROVE  \/ UNCHANGED held
           \/ UNCHANGED intents /\ Restart
           \/ \E c \in Custodian, t \in Task : ClaimIntent(c, t)
           \/ \E c \in Custodian : EndAttempt(c)
BY DEF Next, RequestCancel, MintIntent, RepeatRequest, RekeyIntent, MarkIntentScope,
       MarkFinalizeControlDrained, SettleUnclaimed, JudgeCascade, SettleCascade, SettleResult,
       AgeClaim, Restart, StoreFails, StoreRecovers, EndAttempt, vars

\* The end of an attempt whose claim was taken over changes nothing (release_claim
\* and settle_intent).
THEOREM StaleAttemptIsInertHolds == Spec => StaleAttemptIsInert
<1> DEFINE Inert == \A c \in Custodian :
                       (/\ held[c] # NoClaim /\ ~Fenced(held[c])
                        /\ held'[c] = NoClaim /\ judged' = judged)
                       => intents' = intents
<1>1. TypeOK /\ [Next]_vars => Inert
  <2> SUFFICES ASSUME TypeOK, [Next]_vars, NEW c \in Custodian,
                      held[c] # NoClaim, ~Fenced(held[c]), held'[c] = NoClaim
               PROVE  intents' = intents
    OBVIOUS
  <2>1. ASSUME NEW d \in Custodian, NEW t \in Task, ClaimIntent(d, t)
        PROVE  FALSE
    <3>1. held'[d] # NoClaim /\ \A e \in Custodian : e # d => held'[e] = held[e]
      BY <2>1, ClaimAdvancesRow
    <3> QED BY <3>1
  <2>2. ASSUME NEW d \in Custodian, EndAttempt(d)
        PROVE  intents' = intents
    <3>1. held' = [held EXCEPT ![d] = NoClaim]
      BY <2>2 DEF EndAttempt, ReleaseClaim, SettleIntent, EndWithoutWrite
    <3>2. d = c
      BY <3>1 DEF TypeOK
    <3> QED BY <2>2, <3>2 DEF EndAttempt, ReleaseClaim, SettleIntent, EndWithoutWrite
  <2>3. ~UNCHANGED held
    OBVIOUS
  <2> QED BY <2>1, <2>2, <2>3, HolderCases
<1> HIDE DEF Inert
<1>2. Spec => [][Inert]_vars
  BY <1>1, TypeCorrect, PTL DEF Spec
<1> QED BY <1>2 DEF StaleAttemptIsInert, Inert

\* A claim whose holder is alive passes to another attempt only when the probe could not tell
\* and the claim is stale (claim_is_abandoned): a live answer is never overruled by age.
THEOREM LiveClaimNotStolenHolds == Spec => LiveClaimNotStolen
<1> DEFINE Kept == \A c \in Custodian :
                      (/\ Owns(c)
                       /\ intents'[held[c].task] # NoIntent
                       /\ intents'[held[c].task].request = held[c].request
                       /\ intents'[held[c].task].generation # held[c].generation)
                      => ProbeMayFail /\ intents[held[c].task].aged
<1>1. IInv /\ [Next]_vars => Kept
  <2> SUFFICES ASSUME IInv, [Next]_vars, NEW c \in Custodian, Owns(c),
                      intents'[held[c].task] # NoIntent,
                      intents'[held[c].task].generation # held[c].generation
               PROVE  ProbeMayFail /\ intents[held[c].task].aged
    OBVIOUS
  <2> DEFINE key == held[c].task
  <2>1. /\ key \in Task /\ Open(key) /\ intents[key].state = "claimed"
        /\ intents[key].pid = serverPid /\ intents[key].generation = held[c].generation
    BY DEF Owns, Fenced, IInv, TypeOK, Claim
  <2> HIDE DEF key
  <2>2. intents'[key] # NoIntent /\ intents'[key].generation # intents[key].generation
    BY <2>1 DEF key
  <2>3. ASSUME NEW t \in Task, NEW scope \in Scope, NEW policy \in Policy \cup {"none"},
               NEW allowSettled \in BOOLEAN, MintIntent(t, scope, policy, allowSettled)
        PROVE  FALSE
    BY <2>1, <2>2, <2>3, MintIsFresh
  <2>4. ASSUME NEW t \in Task, NEW policy \in Policy \cup {"none"}, RekeyIntent(t, policy)
        PROVE  FALSE
    <3>1. /\ intents'[RetryLeaf[t]] = NoIntent /\ ~Open(t)
          /\ \A u \in Task \ {t, RetryLeaf[t]} : intents'[u] = intents[u]
      BY <2>4, RekeyMovesRow DEF IInv
    <3> QED BY <2>1, <2>2, <3>1
  <2>5. ASSUME NEW d \in Custodian, NEW t \in Task, ClaimIntent(d, t)
        PROVE  ProbeMayFail /\ intents[key].aged
    <3>1. t = key
      BY <2>1, <2>2, <2>5, ClaimAdvancesRow DEF IInv
    <3>2. Abandoned(intents[key])
      BY <2>1, <2>5, <3>1 DEF ClaimIntent
    <3> QED BY <2>1, <3>2, BoundAssumption DEF Abandoned, ProbeOutcomes
  <2>6. CASE QuietNext
    BY <2>1, <2>2, <2>6, QuietStepsKeep DEF GenerationsKept, IInv
  <2> QED BY <2>3, <2>4, <2>5, <2>6, NextCases DEF key
<1> HIDE DEF Kept
<1>2. Spec => [][Kept]_vars
  BY <1>1, ClaimOrder, PTL DEF Spec
<1> QED BY <1>2 DEF LiveClaimNotStolen, Kept

\* As long as a request is open it never narrows, softens, forgets its drain or loses a
\* generation, under whichever id it is kept (request_cancel's repeat and re-key).
THEOREM RequestNeverWeakensHolds == Spec => RequestNeverWeakens
<1> DEFINE Stands == \A t, u \in Task :
                        (Open(t) /\ intents'[u] # NoIntent /\ intents'[u].request = intents[t].request)
                        => /\ intents[t].scope = "cascade" => intents'[u].scope = "cascade"
                           /\ intents[t].policy = "immediate" => intents'[u].policy = "immediate"
                           /\ intents[t].drained # NotDrained => intents'[u].drained = intents[t].drained
                           /\ intents'[u].generation >= intents[t].generation
<1>1. IInv /\ [Next]_vars => Stands
  <2> SUFFICES ASSUME IInv, [Next]_vars, NEW t \in Task, NEW u \in Task, Open(t),
                      intents'[u] # NoIntent, intents'[u].request = intents[t].request
               PROVE  NoWeaker(intents[t], intents'[u]) /\ intents'[u].generation >= intents[t].generation
    BY DEF NoWeaker
  <2>1. intents[t] \in Intent /\ intents[t].generation \in Nat /\ NoWeaker(intents[t], intents[t])
    BY OpenRowIsIntent DEF IInv, Intent, NoWeaker
  <2>2. \A v \in Task : Open(v) /\ intents[v].request = intents[t].request => v = t
    BY DEF IInv, RequestsIdentifyRows
  <2>3. ASSUME NEW r \in Task, NEW scope \in Scope, NEW policy \in Policy \cup {"none"},
               NEW allowSettled \in BOOLEAN, MintIntent(r, scope, policy, allowSettled)
        PROVE  u = t /\ intents'[t] = intents[t]
    BY <2>3, MintIsFresh
  <2>4. ASSUME NEW r \in Task, NEW policy \in Policy \cup {"none"}, RekeyIntent(r, policy)
        PROVE  NoWeaker(intents[t], intents'[u]) /\ intents'[u].generation = intents[t].generation
    <3> DEFINE leaf == RetryLeaf[r]
    <3>1. /\ leaf \in Task /\ leaf # r /\ Open(leaf) /\ intents'[leaf] = NoIntent
          /\ intents'[r].request = intents[leaf].request
          /\ intents'[r].generation = intents[leaf].generation
          /\ \A v \in Task \ {r, leaf} : intents'[v] = intents[v]
      BY <2>4, RekeyMovesRow DEF IInv
    <3>2. NoWeaker(intents[leaf], intents'[r])
      <4>1. intents[leaf] \in Intent
        BY <3>1, OpenRowIsIntent DEF IInv
      <4>2. intents'[r] = Strengthened(intents[leaf], "cascade", policy)
        BY <2>4, <3>1 DEF RekeyIntent, IInv, TypeOK
      <4> QED BY <4>1, <4>2, StrengthenedHardens DEF Scope
    <3> HIDE DEF leaf
    <3>3. CASE u = r
      <4>1. t = leaf
        BY <2>2, <3>1, <3>3
      <4> QED BY <3>1, <3>2, <3>3, <4>1
    <3>4. CASE u # r
      <4>1. intents'[u] = intents[u] /\ Open(u)
        BY <3>1, <3>4 DEF Open
      <4> QED BY <2>1, <2>2, <4>1
    <3> QED BY <3>3, <3>4
  <2>5. ASSUME NEW d \in Custodian, NEW r \in Task, ClaimIntent(d, r)
        PROVE  NoWeaker(intents[t], intents'[u]) /\ intents'[u].generation >= intents[t].generation
    <3>1. /\ Open(r) /\ intents'[r].request = intents[r].request
          /\ intents'[r].generation = intents[r].generation + 1
          /\ \A v \in Task : v # r => intents'[v] = intents[v]
      BY <2>5, ClaimAdvancesRow DEF IInv
    <3>2. u = t
      BY <2>2, <3>1 DEF Open
    <3>3. intents'[r] = Claimed(intents[r])
      BY <2>5 DEF ClaimIntent, IInv, TypeOK
    <3>4. CASE t = r
      BY <2>1, <3>1, <3>2, <3>3, <3>4, ClaimingHardens
    <3>5. CASE t # r
      BY <2>1, <3>1, <3>2, <3>5
    <3> QED BY <3>4, <3>5
  <2>6. CASE QuietNext
    <3>1. RowsKept /\ GenerationsKept /\ RowsHarden
      BY <2>6, QuietStepsKeep, QuietStepsHarden DEF IInv
    <3>2. u = t
      BY <2>2, <3>1 DEF RowsKept
    <3> QED BY <2>1, <3>1, <3>2 DEF GenerationsKept, RowsHarden
  <2> QED BY <2>1, <2>3, <2>4, <2>5, <2>6, NextCases
<1> HIDE DEF Stands
<1>2. Spec => [][Stands]_vars
  BY <1>1, ClaimOrder, PTL DEF Spec
<1> QED BY <1>2 DEF RequestNeverWeakens, Stands

\* A cascade request is closed only by a postcondition that read this very claim state, even
\* when it was widened after a single custody had claimed it (settle_intent).
THEOREM CascadeClosedByPostconditionHolds == Spec => CascadeClosedByPostcondition
<1> DEFINE Judged == \A t \in Task, n \in 1..MaxRequest :
                        (/\ Open(t)
                         /\ intents[t].scope = "cascade"
                         /\ intents[t].request = n
                         /\ ~RequestOpen(n)')
                        => \E c \in Custodian : judged[c] = TokenOf(t) /\ judged'[c] = NoClaim
<1>1. IInv /\ [Next]_vars => Judged
  <2> SUFFICES ASSUME IInv, [Next]_vars, NEW t \in Task, Open(t), intents[t].scope = "cascade",
                      ~(\E u \in Task : intents'[u] # NoIntent /\ intents'[u].request = intents[t].request)
               PROVE  \E c \in Custodian : judged[c] = TokenOf(t) /\ judged'[c] = NoClaim
    BY DEF RequestOpen, Open
  <2>1. ASSUME NEW r \in Task, NEW scope \in Scope, NEW policy \in Policy \cup {"none"},
               NEW allowSettled \in BOOLEAN, MintIntent(r, scope, policy, allowSettled)
        PROVE  FALSE
    BY <2>1, MintIsFresh DEF Open
  <2>2. ASSUME NEW r \in Task, NEW policy \in Policy \cup {"none"}, RekeyIntent(r, policy)
        PROVE  FALSE
    BY <2>2, RekeyMovesRow, NullAssumption DEF IInv, Open
  <2>3. ASSUME NEW d \in Custodian, NEW r \in Task, ClaimIntent(d, r)
        PROVE  FALSE
    BY <2>3, ClaimAdvancesRow, NullAssumption DEF IInv, Open
  <2>4. CASE QuietNext
    <3>1. RowsKept /\ ~CascadesStay
      BY <2>4, QuietStepsKeep DEF IInv, RowsKept, CascadesStay, Open
    <3>2. PICK c \in Custodian : SettleCascade(c)
      BY <2>4, <3>1, QuietStepsHarden DEF IInv
    <3>3. judged[c] # NoClaim /\ judged[c] \in Claim /\ judged'[c] = NoClaim
      BY <3>2 DEF SettleCascade, IInv, TypeOK
    <3>4. Fenced(judged[c]) /\ intents' = [intents EXCEPT ![judged[c].task] = NoIntent]
      BY <3>2 DEF SettleCascade, Open
    <3>5. judged[c].task = t
      BY <3>3, <3>4 DEF IInv, TypeOK, Open, Claim
    <3>6. judged[c] = TokenOf(t)
      BY <3>3, <3>4, <3>5 DEF Fenced, TokenOf, Claim
    <3> QED BY <3>3, <3>6
  <2> QED BY <2>1, <2>2, <2>3, <2>4, NextCases
<1> HIDE DEF Judged
<1>2. Spec => [][Judged]_vars
  BY <1>1, ClaimOrder, PTL DEF Spec
<1> QED BY <1>2 DEF CascadeClosedByPostcondition, Judged
=============================================================================
