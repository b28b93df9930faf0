----------------------- MODULE TerminalDelivery_proofs -----------------------
(***************************************************************************)
(* The safety of the outbox, for every set of messages, every bundling and *)
(* every bound: types, one disposition per message, the cap, one send per  *)
(* record, no record without a send, and what giving up leaves; and that   *)
(* every write of the registry keeps the promise of OwedMessages.          *)
(***************************************************************************)
EXTENDS TerminalDeliveryRefinement, FiniteSetTheorems, TLAPS

-----------------------------------------------------------------------------
(* Sequences of distinct messages.                                         *)

Distinct(s) == \A i, j \in DOMAIN s : s[i] = s[j] => i = j

\* How many of the places are no later than i: the index AtPlaces gives place i.
Rank(places, i) == Cardinality({j \in places : j <= i})

\* The places of a sequence are ranked without gaps.
LEMMA Ranked ==
    ASSUME NEW m \in Nat, NEW places \in SUBSET (1..m)
    PROVE  /\ IsFiniteSet(places) /\ Cardinality(places) \in Nat /\ Cardinality(places) <= m
           /\ \A i \in places : Rank(places, i) \in 1..Cardinality(places)
           /\ \A i, j \in places : Rank(places, i) = Rank(places, j) => i = j
           /\ \A k \in 1..Cardinality(places) : \E i \in places : Rank(places, i) = k
<1> DEFINE upTo(i) == {j \in places : j <= i}
           rank == [i \in places |-> Cardinality(upTo(i))]
           n == Cardinality(places)
<1>1. places \subseteq Nat
  OBVIOUS
<1>2. IsFiniteSet(places) /\ n \in Nat /\ n <= m
  <2>1. IsFiniteSet(1..m) /\ Cardinality(1..m) = m
    BY FS_Interval
  <2> QED BY <2>1, FS_Subset, FS_CardinalityType
<1>3. ASSUME NEW i \in places PROVE rank[i] \in 1..n
  <2>1. upTo(i) \in SUBSET places /\ i \in upTo(i)
    BY <1>1
  <2>2. IsFiniteSet(upTo(i)) /\ Cardinality(upTo(i)) <= n /\ Cardinality(upTo(i)) \in Nat
    BY <2>1, <1>2, FS_Subset, FS_CardinalityType
  <2>3. Cardinality(upTo(i)) # 0
    BY <2>1, <2>2, FS_EmptySet
  <2> HIDE DEF upTo, n
  <2> QED BY <2>2, <2>3
<1>4. ASSUME NEW i \in places, NEW j \in places, i < j PROVE rank[i] # rank[j]
  <2>0. i \in Nat /\ j \in Nat /\ \A k \in places : k \in Nat
    BY <1>1
  <2>1. upTo(i) \in SUBSET upTo(j) /\ upTo(j) \in SUBSET places /\ j \in upTo(j) /\ j \notin upTo(i)
    <3>1. \A k \in places : k <= i => k <= j
      BY <2>0, <1>4
    <3>2. j \in upTo(j) /\ j \notin upTo(i)
      BY <2>0, <1>4
    <3> QED BY <3>1, <3>2
  <2>2. IsFiniteSet(upTo(j))
    BY <2>1, <1>2, FS_Subset
  <2>3. Cardinality(upTo(i)) # Cardinality(upTo(j))
    <3> HIDE DEF upTo
    <3> QED BY <2>1, <2>2, FS_Subset
  <2> HIDE DEF upTo
  <2> QED BY <2>3
<1>5. rank \in [places -> 1..n]
  BY <1>3
<1>6. \A i, j \in places : rank[i] = rank[j] => i = j
  <2> HIDE DEF rank
  <2> QED BY <1>1, <1>4
<1>7. rank \in Surjection(places, 1..n)
  <2> HIDE DEF rank, n
  <2>1. rank \in Injection(places, 1..n)
    BY <1>5, <1>6 DEF Injection, IsInjective
  <2>2. IsFiniteSet(1..n) /\ Cardinality(1..n) = n /\ Cardinality(places) = n
    BY <1>2, FS_Interval DEF n
  <2> QED BY <2>1, <2>2, FS_Injection
<1>8. \A i \in places : rank[i] = Rank(places, i)
  BY DEF Rank
<1> HIDE DEF rank
<1> QED BY <1>2, <1>3, <1>6, <1>7, <1>8 DEF Surjection

\* What AtPlaces keeps.
LEMMA PartOf ==
    ASSUME NEW S, NEW s \in Seq(S), NEW places \in SUBSET DOMAIN s
    PROVE  /\ AtPlaces(s, places) \in Seq(S)
           /\ Len(AtPlaces(s, places)) <= Len(s)
           /\ Range(AtPlaces(s, places)) = {s[i] : i \in places}
           /\ (\A i, j \in places : s[i] = s[j] => i = j) => Distinct(AtPlaces(s, places))
<1> DEFINE n == Cardinality(places)
           at(k) == CHOOSE i \in places : Rank(places, i) = k
<1>1. DOMAIN s = 1..Len(s) /\ Len(s) \in Nat
  OBVIOUS
<1>2. /\ n \in Nat /\ n <= Len(s)
      /\ \A i \in places : Rank(places, i) \in 1..n
      /\ \A i, j \in places : Rank(places, i) = Rank(places, j) => i = j
      /\ \A k \in 1..n : \E i \in places : Rank(places, i) = k
  BY <1>1, Ranked
<1>3. AtPlaces(s, places) = [k \in 1..n |-> s[at(k)]]
  BY DEF AtPlaces, Rank
<1> HIDE DEF n
<1>4. \A k \in 1..n : at(k) \in places /\ at(k) \in DOMAIN s /\ Rank(places, at(k)) = k
  BY <1>2
<1>5. \A i \in places : at(Rank(places, i)) = i
  BY <1>2, <1>4
<1> HIDE DEF at
<1>6. AtPlaces(s, places) \in Seq(S) /\ Len(AtPlaces(s, places)) = n /\ DOMAIN AtPlaces(s, places) = 1..n
  BY <1>2, <1>3, <1>4
<1>7. Range(AtPlaces(s, places)) = {s[i] : i \in places}
  BY <1>2, <1>3, <1>4, <1>5, <1>6 DEF Range
<1>8. ASSUME \A i, j \in places : s[i] = s[j] => i = j
      PROVE  Distinct(AtPlaces(s, places))
  <2> SUFFICES ASSUME NEW k \in 1..n, NEW l \in 1..n, s[at(k)] = s[at(l)] PROVE k = l
    BY <1>3, <1>6 DEF Distinct
  <2>1. at(k) = at(l)
    BY <1>4, <1>8
  <2> QED BY <2>1, <1>4
<1> QED BY <1>2, <1>6, <1>7, <1>8

\* A set of places has a first one.
LEMMA First ==
    ASSUME NEW m \in Nat, NEW places \in SUBSET (1..m), places # {}
    PROVE  \E i \in places : \A j \in places : i <= j
<1>1. Cardinality(places) \in Nat /\ Cardinality(places) # 0
  BY Ranked, FS_EmptySet
<1>2. PICK i \in places : Rank(places, i) = 1
  BY <1>1, Ranked
<1>3. SUFFICES ASSUME NEW j \in places, j < i PROVE FALSE
  BY <1>2
<1>4. Rank(places, j) \in Nat /\ Rank(places, j) >= 1 /\ Rank(places, j) # 1
  BY <1>1, <1>2, <1>3, Ranked
<1> DEFINE upTo(k) == {l \in places : l <= k}
<1>5. upTo(j) \in SUBSET upTo(i) /\ upTo(i) \in SUBSET places
  <2>1. i \in Nat /\ j \in Nat /\ \A k \in places : k \in Nat
    OBVIOUS
  <2>2. \A k \in places : k <= j => k <= i
    BY <2>1, <1>3
  <2> QED BY <2>2
<1>6. IsFiniteSet(upTo(i)) /\ Cardinality(upTo(j)) <= Cardinality(upTo(i))
  <2> HIDE DEF upTo
  <2> QED BY <1>5, Ranked, FS_Subset
<1> QED BY <1>2, <1>4, <1>6 DEF Rank

-----------------------------------------------------------------------------
(* The registry.                                                           *)

\* What OneDisposition says of a registry.
Sound(r) ==
    /\ Distinct(r.owed)
    /\ Pending(r) \cap (r.delivered \cup r.exhausted \cup r.superseded) = {}
    /\ r.delivered \cap (r.exhausted \cup r.superseded) = {}
    /\ r.exhausted \cap r.superseded = {}

\* Rows that carry a fact are those of messages that do.
BundlesKnown(r) == \A m \in Message : r.row[m].whole => m \in DOMAIN Carries

\* q is nothing but its fields.
Record(q) == q = [owed |-> q.owed, delivered |-> q.delivered, exhausted |-> q.exhausted,
                  superseded |-> q.superseded, row |-> q.row]

LEMMA WithoutIds ==
    ASSUME NEW r \in Registry, Distinct(r.owed), NEW ids
    PROVE  /\ Without(r.owed, ids) \in Seq(Message)
           /\ Len(Without(r.owed, ids)) <= Len(r.owed)
           /\ Range(Without(r.owed, ids)) = Pending(r) \ ids
           /\ Distinct(Without(r.owed, ids))
<1> DEFINE places == {i \in DOMAIN r.owed : r.owed[i] \notin ids}
<1>1. r.owed \in Seq(Message) /\ places \in SUBSET DOMAIN r.owed
  BY DEF Registry
<1>2. {r.owed[i] : i \in places} = Pending(r) \ ids
  BY DEF Pending, Range
<1>3. \A i, j \in places : r.owed[i] = r.owed[j] => i = j
  BY DEF Distinct
<1>4. Without(r.owed, ids) = AtPlaces(r.owed, places)
  BY DEF Without
<1> HIDE DEF places
<1> QED BY <1>1, <1>2, <1>3, <1>4, PartOf

\* Eviction gives up the oldest rows and touches nothing else.
LEMMA Evicts ==
    ASSUME NEW r \in Registry, Sound(r), NEW q, q = EvictOverCap(r)
    PROVE  /\ q \in Registry /\ Sound(q) /\ Len(q.owed) <= PendingCap
           /\ q.delivered = r.delivered /\ q.superseded = r.superseded /\ q.row = r.row
           /\ Pending(q) \subseteq Pending(r)
           /\ q.exhausted = r.exhausted \cup (Pending(r) \ Pending(q))
<1> DEFINE over == IF Len(r.owed) > PendingCap THEN Len(r.owed) - PendingCap ELSE 0
           evicted == {r.owed[i] : i \in 1..over}
<1>1. r.owed \in Seq(Message) /\ DOMAIN r.owed = 1..Len(r.owed) /\ Len(r.owed) \in Nat
  BY DEF Registry
<1>2. over \in Nat /\ over <= Len(r.owed) /\ Len(r.owed) - over <= PendingCap
  BY <1>1, BoundAssumption
<1>3. /\ q.owed = SubSeq(r.owed, over + 1, Len(r.owed)) /\ q.exhausted = r.exhausted \cup evicted
      /\ q.delivered = r.delivered /\ q.superseded = r.superseded /\ q.row = r.row
      /\ Record(q)
  BY DEF EvictOverCap, Registry, Record
<1> HIDE DEF over
<1>4. /\ q.owed \in Seq(Message) /\ Len(q.owed) = Len(r.owed) - over
      /\ DOMAIN q.owed = 1..(Len(r.owed) - over)
      /\ \A k \in 1..(Len(r.owed) - over) : q.owed[k] = r.owed[over + k]
  BY <1>1, <1>2, <1>3
<1>5. Distinct(q.owed)
  <2> SUFFICES ASSUME NEW k \in 1..(Len(r.owed) - over), NEW l \in 1..(Len(r.owed) - over),
                      q.owed[k] = q.owed[l]
               PROVE  k = l
    BY <1>4 DEF Distinct
  <2>1. over + k \in DOMAIN r.owed /\ over + l \in DOMAIN r.owed /\ r.owed[over + k] = r.owed[over + l]
    BY <1>1, <1>2, <1>4
  <2>2. over + k = over + l
    BY <2>1 DEF Sound, Distinct
  <2> QED BY <2>2, <1>2
<1>6. Pending(q) = {r.owed[i] : i \in (over + 1)..Len(r.owed)}
  <2>1. \A k \in 1..(Len(r.owed) - over) : over + k \in (over + 1)..Len(r.owed)
    BY <1>1, <1>2
  <2>2. \A i \in (over + 1)..Len(r.owed) : i - over \in 1..(Len(r.owed) - over) /\ over + (i - over) = i
    BY <1>1, <1>2
  <2> QED BY <2>1, <2>2, <1>4 DEF Pending, Range
<1>7. Pending(r) = {r.owed[i] : i \in 1..Len(r.owed)}
  BY <1>1 DEF Pending, Range
<1>8. evicted \cup Pending(q) = Pending(r) /\ evicted \cap Pending(q) = {}
  <2>1. \A i \in 1..Len(r.owed) : i \in 1..over \/ i \in (over + 1)..Len(r.owed)
    BY <1>1, <1>2
  <2>2. \A i \in 1..over : i \in 1..Len(r.owed) /\ i \notin (over + 1)..Len(r.owed)
    BY <1>1, <1>2
  <2>3. \A i \in (over + 1)..Len(r.owed) : i \in 1..Len(r.owed)
    BY <1>1, <1>2
  <2> QED BY <2>1, <2>2, <2>3, <1>1, <1>6, <1>7 DEF Sound, Distinct
<1>9. evicted \subseteq Message
  BY <1>1, <1>2
<1> HIDE DEF evicted
<1>10. q \in Registry
  BY <1>3, <1>4, <1>9 DEF Registry, Record
<1> QED BY <1>2, <1>3, <1>4, <1>5, <1>8, <1>10 DEF Sound

\* The facts that replaced notices leave behind.
Bundled(r, notices) ==
    {Carries[m] : m \in {k \in notices : r.row[k].whole /\ Carries[k] \notin Known(r)}}

LEMMA NewFactsAre ==
    ASSUME NEW r \in Registry, Sound(r), BundlesKnown(r), NEW notices \in SUBSET Pending(r)
    PROVE  /\ NewFacts(r, notices) \in Seq(Message) /\ Distinct(NewFacts(r, notices))
           /\ Range(NewFacts(r, notices)) = Bundled(r, notices)
           /\ Bundled(r, notices) \subseteq Fact
<1> DEFINE opens == {i \in DOMAIN r.owed : /\ r.owed[i] \in notices /\ r.row[r.owed[i]].whole
                                           /\ Carries[r.owed[i]] \notin Known(r)}
           first == {i \in opens : \A j \in opens : Carries[r.owed[j]] = Carries[r.owed[i]] => i <= j}
           bundles == AtPlaces(r.owed, first)
           facts == [k \in DOMAIN bundles |-> Carries[bundles[k]]]
<1>1. /\ r.owed \in Seq(Message) /\ DOMAIN r.owed = 1..Len(r.owed) /\ Len(r.owed) \in Nat
      /\ notices \subseteq {r.owed[i] : i \in DOMAIN r.owed}
  BY DEF Registry, Pending, Range
<1>2. first \in SUBSET DOMAIN r.owed /\ opens \in SUBSET (1..Len(r.owed))
  BY <1>1
<1>3. \A i, j \in first : Carries[r.owed[j]] = Carries[r.owed[i]] => i = j
  <2>1. \A i, j \in first : Carries[r.owed[j]] = Carries[r.owed[i]] => i <= j /\ j <= i
    OBVIOUS
  <2>2. \A i \in first : i \in Nat
    BY <1>1, <1>2
  <2> HIDE DEF first
  <2> QED BY <2>1, <2>2
<1>4. \A i \in opens : \E j \in first : Carries[r.owed[j]] = Carries[r.owed[i]]
  <2> SUFFICES ASSUME NEW i \in opens PROVE \E j \in first : Carries[r.owed[j]] = Carries[r.owed[i]]
    OBVIOUS
  <2> DEFINE same == {j \in opens : Carries[r.owed[j]] = Carries[r.owed[i]]}
  <2>1. same \in SUBSET (1..Len(r.owed)) /\ same # {}
    BY <1>2
  <2>2. PICK j \in same : \A k \in same : j <= k
    <3> HIDE DEF same
    <3> QED BY <2>1, <1>1, First
  <2> QED BY <2>2
<1>5. \A i \in first : Carries[r.owed[i]] \in Fact /\ Carries[r.owed[i]] \in Message /\ r.owed[i] \in notices
  BY <1>1, MessageAssumption DEF BundlesKnown, Fact, Range
<1>6. /\ bundles \in Seq(Message) /\ Distinct(bundles) /\ DOMAIN bundles = 1..Len(bundles)
      /\ {bundles[k] : k \in DOMAIN bundles} = {r.owed[i] : i \in first}
  <2>1. \A i, j \in first : r.owed[i] = r.owed[j] => i = j
    BY <1>3
  <2>2. /\ bundles \in Seq(Message) /\ Range(bundles) = {r.owed[i] : i \in first} /\ Distinct(bundles)
    <3> HIDE DEF first
    <3> QED BY <2>1, <1>1, <1>2, PartOf
  <2> HIDE DEF bundles, first
  <2>3. DOMAIN bundles = 1..Len(bundles)
    BY <2>2
  <2> QED BY <2>2, <2>3 DEF Range
<1>7. NewFacts(r, notices) = facts
  BY DEF NewFacts
<1>8. {Carries[r.owed[i]] : i \in first} = Bundled(r, notices)
  <2>1. {Carries[r.owed[i]] : i \in first} = {Carries[r.owed[i]] : i \in opens}
    <3> HIDE DEF opens
    <3> QED BY <1>4
  <2>2. {Carries[r.owed[i]] : i \in opens} = Bundled(r, notices)
    BY <1>1 DEF Bundled
  <2> QED BY <2>1, <2>2
<1> HIDE DEF opens, first, bundles
<1>9. \A k \in DOMAIN bundles : \E i \in first : bundles[k] = r.owed[i]
  BY <1>6
<1>10. facts \in Seq(Message) /\ DOMAIN facts = DOMAIN bundles
  BY <1>5, <1>6, <1>9
<1>11. Distinct(facts)
  <2> SUFFICES ASSUME NEW k \in DOMAIN bundles, NEW l \in DOMAIN bundles, Carries[bundles[k]] = Carries[bundles[l]]
               PROVE  k = l
    BY <1>10 DEF Distinct
  <2>1. bundles[k] = bundles[l]
    BY <1>3, <1>9
  <2> QED BY <2>1, <1>6 DEF Distinct
<1>12. Range(facts) = {Carries[r.owed[i]] : i \in first}
  BY <1>6, <1>9, <1>10 DEF Range
<1>13. Bundled(r, notices) \subseteq Fact
  BY <1>5, <1>8
<1> QED BY <1>7, <1>8, <1>10, <1>11, <1>12, <1>13

\* Superseding moves notices and opens the debts of their facts.
LEMMA Supersedes ==
    ASSUME NEW r \in Registry, Sound(r), BundlesKnown(r), NEW notices \in SUBSET Pending(r),
           NEW q, q = Supersede(r, notices)
    PROVE  /\ q \in Registry /\ Sound(q)
           /\ q.delivered = r.delivered /\ q.exhausted = r.exhausted
           /\ q.superseded = r.superseded \cup notices
           /\ Pending(q) = (Pending(r) \ notices) \cup Bundled(r, notices)
           /\ \A m \in Message : q.row[m] = IF m \in Bundled(r, notices) THEN NoRow ELSE r.row[m]
<1> DEFINE facts == NewFacts(r, notices)
           left == Without(r.owed, notices)
<1>1. /\ facts \in Seq(Message) /\ Distinct(facts) /\ Range(facts) = Bundled(r, notices)
      /\ Bundled(r, notices) \subseteq Fact /\ Bundled(r, notices) \cap Known(r) = {}
  BY NewFactsAre DEF Bundled
<1>2. /\ left \in Seq(Message) /\ Distinct(left) /\ Range(left) = Pending(r) \ notices
  BY WithoutIds DEF Sound
<1>3. notices \subseteq Message /\ NoRow \in Row
  BY BoundAssumption DEF Registry, Pending, Range, NoRow, Row
<1>4. /\ q.owed = left \o facts /\ q.superseded = r.superseded \cup notices
      /\ q.delivered = r.delivered /\ q.exhausted = r.exhausted
      /\ q.row = [m \in Message |-> IF m \in Range(facts) THEN NoRow ELSE r.row[m]]
      /\ Record(q)
  BY DEF Supersede, Registry, Record
<1> HIDE DEF facts, left
<1>5. /\ q.owed \in Seq(Message) /\ Len(q.owed) = Len(left) + Len(facts)
      /\ \A k \in 1..Len(q.owed) : q.owed[k] = IF k <= Len(left) THEN left[k] ELSE facts[k - Len(left)]
  BY <1>1, <1>2, <1>4
<1>0. /\ DOMAIN q.owed = 1..Len(q.owed) /\ DOMAIN left = 1..Len(left) /\ DOMAIN facts = 1..Len(facts)
      /\ Len(q.owed) \in Nat /\ Len(left) \in Nat /\ Len(facts) \in Nat
  BY <1>1, <1>2, <1>5
<1>6. Pending(q) = Range(left) \cup Range(facts)
  <2>1. \A k \in 1..Len(q.owed) : q.owed[k] \in Range(left) \cup Range(facts)
    <3> SUFFICES ASSUME NEW k \in 1..Len(q.owed) PROVE q.owed[k] \in Range(left) \cup Range(facts)
      OBVIOUS
    <3>1. CASE k <= Len(left)
      BY <3>1, <1>5, <1>0 DEF Range
    <3>2. CASE ~(k <= Len(left))
      <4>1. k - Len(left) \in 1..Len(facts)
        BY <3>2, <1>5, <1>0
      <4> QED BY <4>1, <3>2, <1>5, <1>0 DEF Range
    <3> QED BY <3>1, <3>2
  <2>2. \A k \in 1..Len(left) : k \in 1..Len(q.owed) /\ q.owed[k] = left[k]
    BY <1>0, <1>5
  <2>3. \A k \in 1..Len(facts) : Len(left) + k \in 1..Len(q.owed) /\ q.owed[Len(left) + k] = facts[k]
    <3> SUFFICES ASSUME NEW k \in 1..Len(facts)
                 PROVE  Len(left) + k \in 1..Len(q.owed) /\ q.owed[Len(left) + k] = facts[k]
      OBVIOUS
    <3>1. /\ Len(left) + k \in 1..Len(q.owed) /\ ~(Len(left) + k <= Len(left))
          /\ (Len(left) + k) - Len(left) = k
      BY <1>0, <1>5
    <3> QED BY <3>1, <1>5
  <2>4. Pending(q) = {q.owed[k] : k \in 1..Len(q.owed)}
    BY <1>0 DEF Pending, Range
  <2>5. Range(left) = {left[k] : k \in 1..Len(left)} /\ Range(facts) = {facts[k] : k \in 1..Len(facts)}
    BY <1>0 DEF Range
  <2>6. Range(left) \subseteq Pending(q)
    BY <2>2, <2>4, <2>5
  <2>7. Range(facts) \subseteq Pending(q)
    BY <2>3, <2>4, <2>5
  <2> QED BY <2>1, <2>4, <2>6, <2>7
<1>7. Distinct(q.owed)
  <2> SUFFICES ASSUME NEW k \in 1..Len(q.owed), NEW l \in 1..Len(q.owed), q.owed[k] = q.owed[l]
               PROVE  k = l
    BY <1>0 DEF Distinct
  <2>1. /\ \A i \in 1..Len(left) : left[i] \in Pending(r)
        /\ \A i \in 1..Len(facts) : facts[i] \notin Pending(r)
    BY <1>0, <1>1, <1>2 DEF Range, Known
  <2>2. \A i \in 1..Len(q.owed) : i > Len(left) => i - Len(left) \in 1..Len(facts) /\ q.owed[i] = facts[i - Len(left)]
    BY <1>0, <1>5
  <2>7. \A i \in 1..Len(q.owed) : i <= Len(left) => i \in 1..Len(left) /\ q.owed[i] = left[i]
    BY <1>0, <1>5
  <2>3. CASE k <= Len(left) /\ l <= Len(left)
    BY <2>3, <2>7, <1>0, <1>2 DEF Distinct
  <2>4. CASE k > Len(left) /\ l > Len(left)
    <3>1. /\ k - Len(left) \in DOMAIN facts /\ l - Len(left) \in DOMAIN facts
          /\ facts[k - Len(left)] = facts[l - Len(left)]
      BY <2>2, <2>4, <1>0
    <3>2. k - Len(left) = l - Len(left)
      BY <3>1, <1>1 DEF Distinct
    <3> QED BY <3>2, <1>0
  <2>5. CASE k <= Len(left) /\ l > Len(left)
    BY <2>1, <2>2, <2>5, <2>7
  <2>6. CASE k > Len(left) /\ l <= Len(left)
    BY <2>1, <2>2, <2>6, <2>7
  <2> QED BY <1>0, <2>3, <2>4, <2>5, <2>6
<1>8. q \in Registry
  <2>1. q.row \in [Message -> Row]
    BY <1>3, <1>4 DEF Registry
  <2>2. q.superseded \subseteq Message /\ q.delivered \subseteq Message /\ q.exhausted \subseteq Message
    BY <1>3, <1>4 DEF Registry
  <2> QED BY <2>1, <2>2, <1>4, <1>5 DEF Registry, Record
<1>9. Bundled(r, notices) \cap notices = {}
  BY <1>1 DEF Known
<1> QED BY <1>1, <1>2, <1>4, <1>6, <1>7, <1>8, <1>9 DEF Sound, Known

\* A registry as every write finds it.
Good(r) == r \in Registry /\ Sound(r) /\ BundlesKnown(r) /\ Len(r.owed) <= PendingCap

\* A row of the registry that was not known is opened, or the oldest ones make room for it;
\* a known one keeps its place (register_pending_delivery).
LEMMA Registers ==
    ASSUME NEW r, Good(r), NEW e \in Event, e.whole => e.id \in DOMAIN Carries,
           NEW q, q = Register(r, e)
    PROVE  /\ Good(q)
           /\ q.delivered = r.delivered /\ q.superseded = r.superseded
           /\ r.exhausted \subseteq q.exhausted
           /\ Pending(q) \subseteq Pending(r) \cup (IF e.id \in Known(r) THEN {} ELSE {e.id})
           /\ Known(q) = Known(r) \cup {e.id}
           /\ \A m \in Message \ {e.id} : q.row[m] = r.row[m]
           /\ e.id \in Known(r) => q.row[e.id].whole = r.row[e.id].whole
           /\ q.row[e.id].emitted => r.row[e.id].emitted \/ e.emitted
           /\ e.id \notin Known(r) => q.row[e.id].emitted = e.emitted
           /\ e.id \in Pending(r) /\ r.row[e.id].emitted => q.row[e.id].emitted
           /\ e.deferred /\ e.emitted /\ e.id \in Pending(q) => q.row[e.id].emitted
<1>0. /\ r \in Registry /\ e.id \in Message /\ r.row \in [Message -> Row] /\ r.row[e.id] \in Row
      /\ e.deferred \in BOOLEAN /\ e.emitted \in BOOLEAN /\ e.failed \in BOOLEAN /\ e.whole \in BOOLEAN
  BY DEF Good, Registry, Event
<1>1. CASE e.id \in r.delivered
  BY <1>0, <1>1 DEF Register, Good, Sound, Known
<1>2. CASE e.id \notin r.delivered /\ e.id \in r.exhausted \cup r.superseded
  <2> DEFINE row == [r.row[e.id] EXCEPT !.emitted = @ \/ e.emitted]
  <2>1. q = [r EXCEPT !.row[e.id] = row]
    BY <1>2 DEF Register, KeepBeside
  <2>2. row \in Row /\ row.whole = r.row[e.id].whole /\ row.emitted = (r.row[e.id].emitted \/ e.emitted)
    BY <1>0 DEF Row
  <2> HIDE DEF row
  <2>3. /\ q \in Registry /\ q.owed = r.owed /\ q.delivered = r.delivered
        /\ q.exhausted = r.exhausted /\ q.superseded = r.superseded
        /\ q.row = [r.row EXCEPT ![e.id] = row]
    BY <1>0, <2>1, <2>2 DEF Registry
  <2>4. \A m \in Message : q.row[m] = IF m = e.id THEN row ELSE r.row[m]
    BY <1>0, <2>3
  <2>5. e.id \notin Pending(q) /\ Pending(q) = Pending(r) /\ e.id \in Known(r) /\ Known(q) = Known(r)
    BY <1>2, <2>3 DEF Good, Sound, Pending, Known
  <2> QED BY <2>2, <2>3, <2>4, <2>5, <1>0 DEF Good, Sound, BundlesKnown
<1>3. CASE e.id \notin r.delivered \cup r.exhausted \cup r.superseded /\ e.id \in Pending(r)
  <2> DEFINE row == IF e.deferred THEN [r.row[e.id] EXCEPT !.deferred = TRUE, !.emitted = @ \/ e.emitted,
                                                          !.failed = e.failed]
                    ELSE r.row[e.id]
  <2>1. q = [r EXCEPT !.row[e.id] = row]
    <3>1. CASE e.deferred
      BY <1>0, <1>3, <3>1 DEF Register, Registry, Row
    <3>2. CASE ~e.deferred
      BY <1>0, <1>3, <3>2 DEF Register, Registry
    <3> QED BY <3>1, <3>2
  <2>2. /\ row \in Row /\ row.whole = r.row[e.id].whole
        /\ row.emitted => r.row[e.id].emitted \/ e.emitted
        /\ r.row[e.id].emitted \/ (e.deferred /\ e.emitted) => row.emitted
    BY <1>0 DEF Row
  <2> HIDE DEF row
  <2>3. /\ q \in Registry /\ q.owed = r.owed /\ q.delivered = r.delivered
        /\ q.exhausted = r.exhausted /\ q.superseded = r.superseded
        /\ q.row = [r.row EXCEPT ![e.id] = row]
    BY <1>0, <2>1, <2>2 DEF Registry
  <2>4. \A m \in Message : q.row[m] = IF m = e.id THEN row ELSE r.row[m]
    BY <1>0, <2>3
  <2>5. Pending(q) = Pending(r) /\ e.id \in Known(r) /\ Known(q) = Known(r)
    BY <1>3, <2>3 DEF Pending, Known
  <2> QED BY <2>2, <2>3, <2>4, <2>5, <1>0 DEF Good, Sound, BundlesKnown
<1>4. CASE e.id \notin Known(r)
  <2> DEFINE p == [r EXCEPT !.owed = Append(@, e.id), !.row[e.id] = OwedRow(e)]
  <2>1. q = EvictOverCap(p)
    BY <1>4 DEF Register, Known
  <2>2. OwedRow(e) \in Row /\ OwedRow(e).emitted = e.emitted /\ OwedRow(e).whole = e.whole
    BY <1>0, BoundAssumption DEF OwedRow, Row
  <2>3. /\ p.owed = Append(r.owed, e.id) /\ p.delivered = r.delivered /\ p.exhausted = r.exhausted
        /\ p.superseded = r.superseded /\ p.row = [r.row EXCEPT ![e.id] = OwedRow(e)]
        /\ p.row \in [Message -> Row] /\ p \in Registry
    <3>1. Append(r.owed, e.id) \in Seq(Message) /\ [r.row EXCEPT ![e.id] = OwedRow(e)] \in [Message -> Row]
      BY <1>0, <2>2 DEF Registry
    <3>2. /\ p.owed = Append(r.owed, e.id) /\ p.delivered = r.delivered /\ p.exhausted = r.exhausted
          /\ p.superseded = r.superseded /\ p.row = [r.row EXCEPT ![e.id] = OwedRow(e)]
          /\ Record(p)
      <4> DEFINE row == [r.row EXCEPT ![e.id] = OwedRow(e)]
      <4>1. p = [r EXCEPT !.owed = Append(r.owed, e.id), !.row = row]
        BY <1>0 DEF Registry
      <4> HIDE DEF p, row
      <4>2. /\ p.owed = Append(r.owed, e.id) /\ p.delivered = r.delivered /\ p.exhausted = r.exhausted
            /\ p.superseded = r.superseded /\ p.row = row /\ Record(p)
        BY <1>0, <4>1 DEF Registry, Record
      <4> QED BY <4>2 DEF row
    <3> HIDE DEF p
    <3> QED BY <3>1, <3>2, <1>0 DEF Registry, Record
  <2> HIDE DEF p
  <2>4. /\ r.owed \in Seq(Message) /\ DOMAIN r.owed = 1..Len(r.owed) /\ Len(r.owed) \in Nat
        /\ Len(p.owed) = Len(r.owed) + 1 /\ DOMAIN p.owed = 1..(Len(r.owed) + 1)
        /\ \A k \in 1..(Len(r.owed) + 1) : p.owed[k] = IF k = Len(r.owed) + 1 THEN e.id ELSE r.owed[k]
    BY <1>0, <2>3 DEF Registry
  <2>5. Pending(p) = Pending(r) \cup {e.id}
    <3>1. Pending(p) = {p.owed[k] : k \in 1..(Len(r.owed) + 1)}
      BY <2>4 DEF Pending, Range
    <3>2. \A k \in 1..Len(r.owed) : k \in 1..(Len(r.owed) + 1) /\ k # Len(r.owed) + 1
      BY <2>4
    <3>3. \A k \in 1..(Len(r.owed) + 1) : k = Len(r.owed) + 1 \/ k \in 1..Len(r.owed)
      BY <2>4
    <3>4. Len(r.owed) + 1 \in 1..(Len(r.owed) + 1)
      BY <2>4
    <3>5. Pending(r) = {r.owed[k] : k \in 1..Len(r.owed)}
      BY <2>4 DEF Pending, Range
    <3> QED BY <3>1, <3>2, <3>3, <3>4, <3>5, <2>4
  <2>6. Distinct(p.owed)
    <3> SUFFICES ASSUME NEW k \in 1..(Len(r.owed) + 1), NEW l \in 1..(Len(r.owed) + 1), p.owed[k] = p.owed[l]
                 PROVE  k = l
      BY <2>4 DEF Distinct
    <3>1. \A i \in 1..(Len(r.owed) + 1) : i = Len(r.owed) + 1 \/ (i \in DOMAIN r.owed /\ r.owed[i] # e.id)
      BY <2>4, <1>4 DEF Known, Pending, Range
    <3> QED BY <3>1, <2>4 DEF Good, Sound, Distinct
  <2>7. Sound(p)
    BY <2>3, <2>5, <2>6, <1>4 DEF Good, Sound, Known
  <2>8. /\ q \in Registry /\ Sound(q) /\ Len(q.owed) <= PendingCap
        /\ q.delivered = p.delivered /\ q.superseded = p.superseded /\ q.row = p.row
        /\ Pending(q) \subseteq Pending(p)
        /\ q.exhausted = p.exhausted \cup (Pending(p) \ Pending(q))
    BY <2>1, <2>3, <2>7, Evicts
  <2>9. \A m \in Message : q.row[m] = IF m = e.id THEN OwedRow(e) ELSE r.row[m]
    BY <2>3, <2>8, <1>0
  <2>10. BundlesKnown(q)
    BY <2>2, <2>9 DEF Good, BundlesKnown
  <2> QED BY <1>4, <2>2, <2>3, <2>5, <2>8, <2>9, <2>10, <1>0 DEF Good, Known
<1> QED BY <1>1, <1>2, <1>3, <1>4 DEF Known

\* A receipt, or a sweep, replaces notices.
LEMMA Replaces ==
    ASSUME NEW r, r \in Registry, Sound(r), BundlesKnown(r), NEW notices \in SUBSET Pending(r),
           NEW q, q = EvictOverCap(Supersede(r, notices))
    PROVE  /\ Good(q)
           /\ q.delivered = r.delivered /\ q.superseded = r.superseded \cup notices
           /\ r.exhausted \subseteq q.exhausted
           /\ Pending(q) \subseteq (Pending(r) \ notices) \cup Bundled(r, notices)
           /\ Known(q) = Known(r) \cup Bundled(r, notices)
           /\ \A m \in Message : q.row[m] = IF m \in Bundled(r, notices) THEN NoRow ELSE r.row[m]
           /\ Bundled(r, notices) \subseteq Fact /\ Bundled(r, notices) \cap Known(r) = {}
           /\ \A m \in notices : r.row[m].whole => Carries[m] \in Known(q)
<1> DEFINE p == Supersede(r, notices)
<1>1. /\ p \in Registry /\ Sound(p)
      /\ p.delivered = r.delivered /\ p.exhausted = r.exhausted
      /\ p.superseded = r.superseded \cup notices
      /\ Pending(p) = (Pending(r) \ notices) \cup Bundled(r, notices)
      /\ \A m \in Message : p.row[m] = IF m \in Bundled(r, notices) THEN NoRow ELSE r.row[m]
  BY Supersedes
<1> HIDE DEF p
<1>2. /\ q \in Registry /\ Sound(q) /\ Len(q.owed) <= PendingCap
      /\ q.delivered = p.delivered /\ q.superseded = p.superseded /\ q.row = p.row
      /\ Pending(q) \subseteq Pending(p)
      /\ q.exhausted = p.exhausted \cup (Pending(p) \ Pending(q))
  BY <1>1, Evicts DEF p
<1>3. Known(q) = Known(r) \cup Bundled(r, notices)
  BY <1>1, <1>2 DEF Known
<1>4. BundlesKnown(q)
  BY <1>1, <1>2 DEF BundlesKnown, NoRow
<1>5. Bundled(r, notices) \subseteq Fact /\ Bundled(r, notices) \cap Known(r) = {}
  BY NewFactsAre DEF Bundled
<1>6. \A m \in notices : r.row[m].whole => Carries[m] \in Known(r) \cup Bundled(r, notices)
  BY DEF Bundled
<1> QED BY <1>1, <1>2, <1>3, <1>4, <1>5, <1>6 DEF Good

\* A row leaves the registry, withdrawn or given up.
LEMMA Pops ==
    ASSUME NEW r, Good(r), NEW m \in Message, m \in Pending(r), NEW given \in SUBSET {m},
           NEW q, Record(q), q.owed = Without(r.owed, {m}), q.exhausted = r.exhausted \cup given,
           q.delivered = r.delivered, q.superseded = r.superseded, q.row = r.row
    PROVE  Good(q) /\ Pending(q) = Pending(r) \ {m}
<1>2. /\ q.owed \in Seq(Message) /\ Len(q.owed) <= Len(r.owed) /\ Distinct(q.owed)
      /\ Pending(q) = Pending(r) \ {m}
  <2>1. r \in Registry /\ Distinct(r.owed)
    BY DEF Good, Sound
  <2>2. Pending(q) = Range(Without(r.owed, {m}))
    BY DEF Pending
  <2>3. /\ Without(r.owed, {m}) \in Seq(Message) /\ Len(Without(r.owed, {m})) <= Len(r.owed)
        /\ Range(Without(r.owed, {m})) = Pending(r) \ {m} /\ Distinct(Without(r.owed, {m}))
    BY <2>1, WithoutIds
  <2> QED BY <2>2, <2>3
<1>3. q \in Registry
  BY <1>2 DEF Good, Registry, Record
<1>4. Len(q.owed) <= PendingCap
  <2>1. Len(q.owed) \in Nat /\ Len(r.owed) \in Nat
    BY <1>2 DEF Good, Registry
  <2> QED BY <1>2, <2>1, BoundAssumption DEF Good
<1> QED BY <1>2, <1>3, <1>4 DEF Good, Sound, BundlesKnown

LEMMA Withdraws ==
    ASSUME NEW r, Good(r), NEW m \in Message, NEW q, q = Withdraw(r, m)
    PROVE  /\ Good(q) /\ Pending(q) = Pending(r) \ {m}
           /\ q.delivered = r.delivered /\ q.superseded = r.superseded /\ q.row = r.row
           /\ q.exhausted = r.exhausted
<1>1. CASE m \in Pending(r)
  <2>1. m \notin r.delivered
    BY <1>1 DEF Good, Sound
  <2>2. /\ Record(q) /\ q.owed = Without(r.owed, {m}) /\ q.exhausted = r.exhausted
        /\ q.delivered = r.delivered /\ q.superseded = r.superseded /\ q.row = r.row
    BY <1>1, <2>1 DEF Withdraw, Good, Registry, Record
  <2>3. {} \in SUBSET {m} /\ q.exhausted = r.exhausted \cup {}
    BY <2>2
  <2> QED BY <1>1, <2>2, <2>3, Pops
<1>2. CASE m \notin Pending(r)
  BY <1>2 DEF Withdraw
<1> QED BY <1>1, <1>2

LEMMA Retires ==
    ASSUME NEW r, Good(r), NEW m \in Message, NEW q, q = Retire(r, m)
    PROVE  /\ Good(q) /\ q.delivered = r.delivered /\ q.superseded = r.superseded /\ q.row = r.row
           /\ q = r \/ (/\ m \in Pending(r) /\ ~r.row[m].emitted
                        /\ Pending(q) = Pending(r) \ {m} /\ q.exhausted = r.exhausted \cup {m})
<1>1. CASE m \in Pending(r) \ r.delivered /\ ~r.row[m].emitted
  <2>1. /\ Record(q) /\ q.owed = Without(r.owed, {m}) /\ q.exhausted = r.exhausted \cup {m}
        /\ q.delivered = r.delivered /\ q.superseded = r.superseded /\ q.row = r.row
    BY <1>1 DEF Retire, Good, Registry, Record
  <2>2. {m} \in SUBSET {m}
    OBVIOUS
  <2> QED BY <1>1, <2>1, <2>2, Pops
<1>2. CASE ~(m \in Pending(r) \ r.delivered /\ ~r.row[m].emitted)
  BY <1>2 DEF Retire
<1> QED BY <1>1, <1>2

\* The notices a receipt replaces.
Replaced(r, m) == IF m \in Stop /\ m \in Pending(r) THEN Replaceable(r) \cap OwedBefore(r, m) ELSE {}

\* The receipt of a send (register_delivery).
LEMMA Delivers ==
    ASSUME NEW r, Good(r), NEW m \in Message, NEW q, q = Deliver(r, m)
    PROVE  /\ Good(q)
           /\ Replaced(r, m) \subseteq (Pending(r) \cap Notice) \ {m}
           /\ \A k \in Replaced(r, m) : ~r.row[k].emitted
           /\ m \in Stop \/ Replaced(r, m) = {}
           /\ q.delivered = r.delivered \cup {m}
           /\ q.superseded = (r.superseded \cup Replaced(r, m)) \ {m}
           /\ r.exhausted \ {m} \subseteq q.exhausted
           /\ Pending(q) \subseteq (Pending(r) \ (Replaced(r, m) \cup {m})) \cup (Fact \ Known(r))
           /\ Known(r) \cup {m} \subseteq Known(q)
           /\ Known(q) \subseteq Known(r) \cup {m} \cup Fact
           /\ \A k \in Message : q.row[k] = r.row[k] \/ (k \in Fact \ Known(r) /\ q.row[k] = NoRow)
           /\ \A k \in Replaced(r, m) : r.row[k].whole => Carries[k] \in Known(q)
<1> DEFINE notices == Replaced(r, m)
           popped == [r EXCEPT !.owed = Without(@, {m})]
           settled == IF m \in Pending(r) THEN EvictOverCap(Supersede(popped, notices)) ELSE r
<1>1. /\ notices \subseteq (Pending(r) \cap Notice) \ {m}
      /\ \A k \in notices : ~r.row[k].emitted
      /\ m \in Stop \/ notices = {}
  BY MessageAssumption DEF Replaced, Replaceable
<1>2. /\ r \in Registry
      /\ q = [settled EXCEPT !.delivered = @ \cup {m}, !.exhausted = @ \ {m}, !.superseded = @ \ {m}]
  BY DEF Deliver, Replaced, Good
<1>3. CASE m \in Pending(r)
  <2>1. /\ Good(popped) /\ Pending(popped) = Pending(r) \ {m}
        /\ popped.delivered = r.delivered /\ popped.superseded = r.superseded /\ popped.row = r.row
        /\ popped.exhausted = r.exhausted
    <3>1. /\ Record(popped) /\ popped.owed = Without(r.owed, {m}) /\ popped.exhausted = r.exhausted
          /\ popped.delivered = r.delivered /\ popped.superseded = r.superseded /\ popped.row = r.row
      BY <1>2 DEF Registry, Record
    <3>2. {} \in SUBSET {m} /\ popped.exhausted = r.exhausted \cup {}
      BY <3>1
    <3> HIDE DEF popped
    <3> QED BY <1>3, <3>1, <3>2, Pops
  <2>2. notices \in SUBSET Pending(popped)
    BY <1>1, <2>1
  <2>3. settled = EvictOverCap(Supersede(popped, notices))
    BY <1>3
  <2> HIDE DEF popped, settled, notices
  <2>4. /\ Good(settled)
        /\ settled.delivered = popped.delivered /\ settled.superseded = popped.superseded \cup notices
        /\ popped.exhausted \subseteq settled.exhausted
        /\ Pending(settled) \subseteq (Pending(popped) \ notices) \cup Bundled(popped, notices)
        /\ Known(settled) = Known(popped) \cup Bundled(popped, notices)
        /\ \A k \in Message : settled.row[k] = IF k \in Bundled(popped, notices) THEN NoRow ELSE popped.row[k]
        /\ Bundled(popped, notices) \subseteq Fact /\ Bundled(popped, notices) \cap Known(popped) = {}
        /\ \A k \in notices : popped.row[k].whole => Carries[k] \in Known(settled)
    BY <2>1, <2>2, <2>3, Replaces DEF Good
  <2>5. m \notin Bundled(popped, notices)
    <3>1. CASE notices = {}
      BY <3>1 DEF Bundled
    <3>2. CASE m \in Stop
      BY <2>4, <3>2, MessageAssumption
    <3> QED BY <1>1, <3>1, <3>2 DEF notices
  <2>6. Known(popped) \cup {m} = Known(r)
    BY <1>3, <2>1 DEF Known
  <2>7. Bundled(popped, notices) \subseteq Fact \ Known(r)
    BY <2>4, <2>5, <2>6
  <2>8. /\ q.owed = settled.owed /\ Pending(q) = Pending(settled) /\ q.row = settled.row
        /\ q.delivered = r.delivered \cup {m}
        /\ q.superseded = (r.superseded \cup notices) \ {m}
        /\ q.exhausted = settled.exhausted \ {m}
        /\ q \in Registry
    <3>1. /\ q.owed = settled.owed /\ q.row = settled.row /\ q.delivered = r.delivered \cup {m}
          /\ q.superseded = (r.superseded \cup notices) \ {m}
          /\ q.exhausted = settled.exhausted \ {m} /\ Record(q)
      <4>1. settled \in Registry
        BY <2>4 DEF Good
      <4>2. /\ q.owed = settled.owed /\ q.row = settled.row /\ q.delivered = settled.delivered \cup {m}
            /\ q.superseded = settled.superseded \ {m}
            /\ q.exhausted = settled.exhausted \ {m} /\ Record(q)
        BY <1>2, <4>1 DEF Registry, Record
      <4> QED BY <4>2, <2>1, <2>4
    <3>2. q \in Registry
      <4>1. /\ q.owed \in Seq(Message) /\ q.row \in [Message -> Row] /\ q.delivered \subseteq Message
            /\ q.exhausted \subseteq Message /\ q.superseded \subseteq Message
        BY <3>1, <1>2, <2>1, <2>4 DEF Good, Registry
      <4> QED BY <3>1, <4>1 DEF Registry, Record
    <3> QED BY <3>1, <3>2 DEF Pending
  <2>9. m \notin Pending(q)
    BY <2>1, <2>4, <2>5, <2>8
  <2>10. Known(q) = Known(settled) \cup {m}
    BY <2>1, <2>4, <2>8 DEF Known
  <2>11. Good(q)
    BY <2>1, <2>4, <2>8, <2>9 DEF Good, Sound, BundlesKnown
  <2> QED BY <1>1, <2>1, <2>4, <2>6, <2>7, <2>8, <2>10, <2>11 DEF notices
<1>4. CASE m \notin Pending(r)
  <2>1. notices = {} /\ settled = r
    BY <1>4 DEF Replaced
  <2>2. /\ q.owed = r.owed /\ q.row = r.row
        /\ q.delivered = r.delivered \cup {m} /\ q.superseded = r.superseded \ {m}
        /\ q.exhausted = r.exhausted \ {m} /\ Record(q)
    BY <1>2, <2>1 DEF Good, Registry, Record
  <2>5. q \in Registry
    <3>1. /\ q.owed \in Seq(Message) /\ q.row \in [Message -> Row] /\ q.delivered \subseteq Message
          /\ q.exhausted \subseteq Message /\ q.superseded \subseteq Message
      BY <1>2, <2>2 DEF Registry
    <3> QED BY <2>2, <3>1 DEF Registry, Record
  <2>3. Pending(q) = Pending(r) /\ Known(q) = Known(r) \cup {m}
    BY <2>2 DEF Pending, Known
  <2>4. Good(q)
    BY <1>4, <2>2, <2>3, <2>5 DEF Good, Sound, BundlesKnown
  <2> HIDE DEF notices
  <2> QED BY <1>4, <2>1, <2>2, <2>3, <2>4 DEF notices
<1> QED BY <1>3, <1>4

-----------------------------------------------------------------------------
(* The inductive invariant.                                                *)

Working == {"dispatch", "transmit", "retain", "receipt", "repair"}
InBus == Range(bus)
Todo(t) == Range(handler[t].todo)

\* What is replaced, owed and bounded, of the registry.
RegistryInv == Good(registry) /\ ReplacedNoticeLeavesItsFact

\* What is recorded or remembered as sent was sent.
LandedInv == RecordedWasSent /\ \A m \in Own : m \in memory => m \in landed

\* An event or a row says of itself only what is so.
Honest(id, whole, emitted) ==
    /\ whole => id \in DOMAIN Carries
    /\ id \in Own /\ emitted => id \in landed
HonestEvent(e) == Honest(e.id, e.whole, e.emitted)

EventsInv ==
    /\ \A e \in InBus : HonestEvent(e)
    /\ \A t \in Thread : \A e \in Todo(t) : HonestEvent(e)
    /\ \A x \in sweep : Honest(x.id, x.row.whole, x.row.emitted)

\* No record, receipt, row or memory, says that m was sent.
Unsent(m) ==
    /\ m \notin memory \cup registry.delivered
    /\ m \in Own \cap Pending(registry) => ~registry.row[m].emitted

HandlerOK(t) ==
    /\ handler[t].pc = "idle" <=> handler[t].todo = <<>>
    /\ handler[t].pc \in Working => ~Event1(t).whole /\ Event1(t).id \in active
    /\ handler[t].pc \in {"dispatch", "transmit"} => ~Event1(t).emitted /\ Unsent(Event1(t).id)
    /\ handler[t].pc \in {"retain", "receipt", "repair"} /\ Event1(t).id \in Own => Event1(t).id \in landed
HandlerInv == \A t \in Thread : HandlerOK(t)

\* Two handlers never work on one message.
UnsharedInv ==
    \A t, u \in Thread :
        t # u /\ handler[t].pc \in Working /\ handler[u].pc \in Working => Event1(t).id # Event1(u).id

\* The bus counts what its consumer handles as outstanding.
HeldInv == \A e \in Todo("consumer") : e.id \in Own => e.id \in handler["consumer"].held

\* A message nobody owes and its producer still has is nowhere.
Nowhere(m) ==
    /\ m \notin memory
    /\ \A e \in InBus : e.id # m
    /\ \A t \in Thread : \A e \in Todo(t) : e.id # m
    /\ \A x \in sweep : x.id # m
UnbornInv ==
    \A m \in Own : producer[m] \in {"new", "asked", "owed"} /\ m \notin Known(registry) => Nowhere(m)

\* A remembered send that its row does not know of is about to be retained, or the write that
\* retains it failed, and then perhaps its receipt too.
Unrecorded(m) == m \in memory /\ m \in Pending(registry) /\ ~registry.row[m].emitted
Excused(m) ==
    \/ \E t \in Thread : At(t, "retain") /\ Event1(t).id = m
    \/ \E t \in Thread : At(t, "receipt") /\ Event1(t).id = m /\ m \in hints /\ faults >= 1
    \/ m \in hints /\ faults >= 2
UnrecordedInv == \A m \in Own : Unrecorded(m) => Excused(m)

DeliveryInv ==
    /\ DeliveryTypeOK /\ RegistryInv /\ LandedInv /\ EventsInv
    /\ HandlerInv /\ UnsharedInv /\ HeldInv /\ UnbornInv /\ UnrecordedInv

-----------------------------------------------------------------------------
(* What a write of the registry leaves alone.                              *)

\* But for ids, no message is newly recorded as delivered or as sent.
SentSame(ids) ==
    /\ registry'.delivered \subseteq registry.delivered \cup ids
    /\ \A m \in Own \ ids :
          registry'.row[m].emitted =>
              registry.row[m].emitted /\ (m \in Pending(registry') => m \in Pending(registry))

\* But for ids, no message of the task's own is newly owed, and no record of a send is lost.
OwedSame(ids) ==
    \A m \in Own \ ids :
        m \in Pending(registry') =>
            m \in Pending(registry) /\ (registry.row[m].emitted => registry'.row[m].emitted)

LEMMA OwnIsNoFact == \A m \in Own : m \in Message /\ m \notin Fact
BY DEF Own

LEMMA SameRegistry ==
    ASSUME DeliveryInv, registry' = registry
    PROVE  /\ RegistryInv' /\ SentSame({}) /\ OwedSame({})
           /\ registry'.delivered = registry.delivered /\ Known(registry') = Known(registry)
BY DEF DeliveryInv, RegistryInv, Good, BundlesKnown, ReplacedNoticeLeavesItsFact, SentSame, OwedSame

\* A registry whose replaced messages, their rows and the receipts stay leaves them their facts.
LEMMA FactsStay ==
    ASSUME ReplacedNoticeLeavesItsFact, Good(registry), registry'.superseded \subseteq registry.superseded,
           registry.delivered \subseteq registry'.delivered,
           \A m \in registry.superseded : registry'.row[m].whole => registry.row[m].whole,
           \A m \in Fact : m \in Known(registry) => m \in Known(registry')
    PROVE  ReplacedNoticeLeavesItsFact'
<1> SUFFICES ASSUME NEW m \in registry'.superseded
             PROVE  /\ registry'.delivered \cap Stop # {}
                    /\ m \in DOMAIN Carries /\ registry'.row[m].whole => Carries[m] \in Known(registry')
  BY DEF ReplacedNoticeLeavesItsFact
<1>1. m \in registry.superseded
  OBVIOUS
<1>2. m \in DOMAIN Carries => Carries[m] \in Fact
  BY DEF Fact, Range
<1> QED BY <1>1, <1>2 DEF ReplacedNoticeLeavesItsFact

LEMMA WrittenEvent ==
    ASSUME DeliveryInv, NEW e \in Event, e.whole => e.id \in DOMAIN Carries,
           registry' = registry \/ registry' = Register(registry, e)
    PROVE  /\ RegistryInv'
           /\ registry'.delivered = registry.delivered
           /\ SentSame(IF e.emitted THEN {e.id} ELSE {}) /\ OwedSame({e.id})
           /\ Known(registry) \subseteq Known(registry')
           /\ Known(registry') \subseteq Known(registry) \cup {e.id}
           /\ registry'.row[e.id].emitted => registry.row[e.id].emitted \/ e.emitted
           /\ e.id \in Known(registry) /\ e.id \in Pending(registry') =>
                 e.id \in Pending(registry) /\ (registry.row[e.id].emitted => registry'.row[e.id].emitted)
           /\ (registry' = Register(registry, e) /\ e.deferred /\ e.emitted /\ e.id \in Pending(registry')) =>
                 registry'.row[e.id].emitted
<1>1. CASE registry' = registry /\ registry' # Register(registry, e)
  BY <1>1, SameRegistry DEF SentSame, OwedSame
<1>2. CASE registry' = Register(registry, e)
  <2>1. Good(registry) /\ ReplacedNoticeLeavesItsFact /\ e.id \in Message
    BY DEF DeliveryInv, RegistryInv, Event
  <2> DEFINE q == registry'
  <2>2. /\ Good(q)
        /\ q.delivered = registry.delivered /\ q.superseded = registry.superseded
        /\ registry.exhausted \subseteq q.exhausted
        /\ Pending(q) \subseteq Pending(registry) \cup (IF e.id \in Known(registry) THEN {} ELSE {e.id})
        /\ Known(q) = Known(registry) \cup {e.id}
        /\ \A m \in Message \ {e.id} : q.row[m] = registry.row[m]
        /\ e.id \in Known(registry) => q.row[e.id].whole = registry.row[e.id].whole
        /\ q.row[e.id].emitted => registry.row[e.id].emitted \/ e.emitted
        /\ e.id \notin Known(registry) => q.row[e.id].emitted = e.emitted
        /\ e.id \in Pending(registry) /\ registry.row[e.id].emitted => q.row[e.id].emitted
        /\ e.deferred /\ e.emitted /\ e.id \in Pending(q) => q.row[e.id].emitted
    BY <1>2, <2>1, Registers
  <2> HIDE DEF q
  <2>3. \A m \in registry.superseded : m \in Message /\ m \in Known(registry)
    BY <2>1 DEF Good, Registry, Known
  <2>4. ReplacedNoticeLeavesItsFact'
    BY <2>1, <2>2, <2>3, FactsStay DEF q
  <2>5. Good(registry)'
    BY <2>2 DEF q, Good, BundlesKnown
  <2>6. SentSame(IF e.emitted THEN {e.id} ELSE {})
    BY <2>1, <2>2, OwnIsNoFact DEF SentSame, q, Known
  <2>7. OwedSame({e.id})
    BY <2>1, <2>2, OwnIsNoFact DEF OwedSame, q
  <2> QED BY <1>2, <2>2, <2>4, <2>5, <2>6, <2>7 DEF RegistryInv, q, Known
<1> QED BY <1>1, <1>2

LEMMA WrittenReceipt ==
    ASSUME DeliveryInv, NEW m \in Message, registry' = Deliver(registry, m)
    PROVE  /\ RegistryInv' /\ SentSame({m}) /\ OwedSame({m})
           /\ registry'.delivered = registry.delivered \cup {m}
           /\ m \notin Pending(registry')
           /\ m \in Own => (registry'.row[m].emitted => registry.row[m].emitted)
           /\ Known(registry) \cup {m} \subseteq Known(registry')
<1>1. Good(registry) /\ ReplacedNoticeLeavesItsFact
  BY DEF DeliveryInv, RegistryInv
<1> DEFINE q == registry'
           notices == Replaced(registry, m)
<1>2. /\ Good(q)
      /\ notices \subseteq (Pending(registry) \cap Notice) \ {m}
      /\ m \in Stop \/ notices = {}
      /\ q.delivered = registry.delivered \cup {m}
      /\ q.superseded = (registry.superseded \cup notices) \ {m}
      /\ Pending(q) \subseteq (Pending(registry) \ (notices \cup {m})) \cup (Fact \ Known(registry))
      /\ Known(registry) \cup {m} \subseteq Known(q)
      /\ \A k \in Message : q.row[k] = registry.row[k] \/ (k \in Fact \ Known(registry) /\ q.row[k] = NoRow)
      /\ \A k \in notices : registry.row[k].whole => Carries[k] \in Known(q)
  BY <1>1, Delivers
<1>3. m \notin Pending(q)
  BY <1>2 DEF Good, Sound
<1>4. ReplacedNoticeLeavesItsFact'
  <2> SUFFICES ASSUME NEW k \in q.superseded
               PROVE  /\ q.delivered \cap Stop # {}
                      /\ k \in DOMAIN Carries /\ q.row[k].whole => Carries[k] \in Known(q)
    BY DEF ReplacedNoticeLeavesItsFact
  <2>1. k \in Message /\ (k \in registry.superseded \/ k \in notices)
    BY <1>1, <1>2 DEF Good, Registry
  <2>2. q.row[k].whole => registry.row[k].whole
    <3>1. ~NoRow.whole
      BY DEF NoRow
    <3> HIDE DEF q, notices
    <3> QED BY <3>1, <1>2, <2>1
  <2>3. q.delivered \cap Stop # {}
    <3>1. CASE k \in registry.superseded
      BY <1>1, <1>2, <3>1 DEF ReplacedNoticeLeavesItsFact
    <3>2. CASE k \in notices
      BY <1>2, <3>2
    <3> QED BY <2>1, <3>1, <3>2
  <2>4. k \in DOMAIN Carries /\ q.row[k].whole => Carries[k] \in Known(q)
    <3>1. CASE k \in registry.superseded
      BY <1>1, <1>2, <2>2, <3>1 DEF ReplacedNoticeLeavesItsFact
    <3>2. CASE k \in notices
      BY <1>2, <2>2, <3>2
    <3> QED BY <2>1, <3>1, <3>2
  <2> QED BY <2>3, <2>4
<1> HIDE DEF q, notices
<1>5. \A k \in Own : q.row[k] = registry.row[k] /\ (k \in Pending(q) => k \in Pending(registry))
  BY <1>2, OwnIsNoFact
<1> QED BY <1>2, <1>3, <1>4, <1>5 DEF q, RegistryInv, SentSame, OwedSame

LEMMA Withdrawn ==
    ASSUME DeliveryInv, NEW m \in Stop, registry' = registry \/ registry' = Withdraw(registry, m)
    PROVE  /\ RegistryInv' /\ SentSame({}) /\ OwedSame({})
           /\ registry'.delivered = registry.delivered /\ registry'.row = registry.row
           /\ Known(registry) \ {m} \subseteq Known(registry')
<1>1. CASE registry' = registry
  BY <1>1, SameRegistry
<1>2. CASE registry' = Withdraw(registry, m)
  <2>1. Good(registry) /\ ReplacedNoticeLeavesItsFact /\ m \in Message /\ m \notin Fact
    BY MessageAssumption DEF DeliveryInv, RegistryInv
  <2> DEFINE q == registry'
  <2>2. /\ Good(q) /\ Pending(q) = Pending(registry) \ {m}
        /\ q.delivered = registry.delivered /\ q.superseded = registry.superseded /\ q.row = registry.row
        /\ q.exhausted = registry.exhausted
    BY <1>2, <2>1, Withdraws
  <2> HIDE DEF q
  <2>3. Known(registry) \ {m} \subseteq Known(q)
    BY <2>2 DEF Known
  <2>4. ReplacedNoticeLeavesItsFact'
    BY <2>1, <2>2, <2>3, FactsStay DEF q
  <2>5. Good(registry)'
    BY <2>2 DEF q, Good, BundlesKnown
  <2> QED BY <2>2, <2>3, <2>4, <2>5 DEF q, RegistryInv, SentSame, OwedSame
<1> QED BY <1>1, <1>2

LEMMA Retired ==
    ASSUME DeliveryInv, NEW m \in Message, registry' = registry \/ registry' = Retire(registry, m)
    PROVE  /\ RegistryInv' /\ SentSame({}) /\ OwedSame({})
           /\ registry'.delivered = registry.delivered /\ registry'.row = registry.row
           /\ Known(registry) = Known(registry')
           /\ \A k \in Message : k \in Pending(registry) \ Pending(registry') => k = m /\ ~registry.row[k].emitted
<1>1. CASE registry' = registry
  BY <1>1, SameRegistry
<1>2. CASE registry' = Retire(registry, m)
  <2>1. Good(registry) /\ ReplacedNoticeLeavesItsFact
    BY DEF DeliveryInv, RegistryInv
  <2> DEFINE q == registry'
  <2>2. /\ Good(q) /\ q.delivered = registry.delivered /\ q.superseded = registry.superseded
        /\ q.row = registry.row
        /\ q = registry \/ (/\ m \in Pending(registry) /\ ~registry.row[m].emitted
                            /\ Pending(q) = Pending(registry) \ {m} /\ q.exhausted = registry.exhausted \cup {m})
    BY <1>2, <2>1, Retires
  <2> HIDE DEF q
  <2>3. Known(registry) = Known(q)
    BY <2>2 DEF Known
  <2>4. ReplacedNoticeLeavesItsFact'
    BY <2>1, <2>2, <2>3, FactsStay DEF q
  <2>5. Good(registry)'
    BY <2>2 DEF q, Good, BundlesKnown
  <2> QED BY <2>2, <2>3, <2>4, <2>5 DEF q, RegistryInv, SentSame, OwedSame
<1> QED BY <1>1, <1>2

\* The sweep's own replacement of notices.
LEMMA Swept ==
    ASSUME DeliveryInv, Proven(registry) # {},
           registry' = registry \/ registry' = EvictOverCap(Supersede(registry, Proven(registry)))
    PROVE  /\ RegistryInv' /\ SentSame({}) /\ OwedSame({})
           /\ registry'.delivered = registry.delivered
           /\ Known(registry) \subseteq Known(registry')
<1>1. CASE registry' = registry
  BY <1>1, SameRegistry
<1>2. CASE registry' = EvictOverCap(Supersede(registry, Proven(registry)))
  <2> DEFINE q == registry'
             notices == Proven(registry)
  <2>1. Good(registry) /\ ReplacedNoticeLeavesItsFact
    BY DEF DeliveryInv, RegistryInv
  <2>2. notices \in SUBSET Pending(registry) /\ registry.delivered \cap Stop # {}
    BY DEF Proven, Replaceable, DeliveryInv, DeliveryTypeOK
  <2>3. /\ Good(q)
        /\ q.delivered = registry.delivered /\ q.superseded = registry.superseded \cup notices
        /\ Pending(q) \subseteq (Pending(registry) \ notices) \cup Bundled(registry, notices)
        /\ Known(q) = Known(registry) \cup Bundled(registry, notices)
        /\ \A k \in Message : q.row[k] = IF k \in Bundled(registry, notices) THEN NoRow ELSE registry.row[k]
        /\ Bundled(registry, notices) \subseteq Fact /\ Bundled(registry, notices) \cap Known(registry) = {}
        /\ \A k \in notices : registry.row[k].whole => Carries[k] \in Known(q)
    BY <1>2, <2>1, <2>2, Replaces DEF Good
  <2> HIDE DEF q, notices
  <2>4. ReplacedNoticeLeavesItsFact'
    <3> SUFFICES ASSUME NEW k \in q.superseded
                 PROVE  /\ q.delivered \cap Stop # {}
                        /\ k \in DOMAIN Carries /\ q.row[k].whole => Carries[k] \in Known(q)
      BY DEF ReplacedNoticeLeavesItsFact, q
    <3>1. k \in Message /\ (k \in registry.superseded \/ k \in notices)
      BY <2>1, <2>2, <2>3 DEF Good, Registry
    <3>2. q.row[k].whole => registry.row[k].whole
      BY <2>3, <3>1 DEF NoRow
    <3>3. CASE k \in registry.superseded
      BY <2>1, <2>2, <2>3, <3>2, <3>3 DEF ReplacedNoticeLeavesItsFact
    <3>4. CASE k \in notices
      BY <2>2, <2>3, <3>2, <3>4
    <3> QED BY <3>1, <3>3, <3>4
  <2>5. Good(registry)'
    BY <2>3 DEF q, Good, BundlesKnown
  <2>6. \A k \in Own : q.row[k] = registry.row[k] /\ (k \in Pending(q) => k \in Pending(registry))
    BY <2>3, OwnIsNoFact
  <2> QED BY <2>3, <2>4, <2>5, <2>6 DEF q, RegistryInv, SentSame, OwedSame
<1> QED BY <1>1, <1>2

\* The record of a replay's dispatch.
LEMMA Dispatched ==
    ASSUME DeliveryInv, NEW m \in Message, MayDispatch(registry, m),
           registry' = [registry EXCEPT !.row[m].tries = @ + 1]
    PROVE  /\ RegistryInv' /\ SentSame({}) /\ OwedSame({})
           /\ registry'.delivered = registry.delivered /\ Known(registry') = Known(registry)
<1>1. Good(registry) /\ ReplacedNoticeLeavesItsFact
  BY DEF DeliveryInv, RegistryInv
<1> DEFINE row == [registry.row[m] EXCEPT !.tries = @ + 1]
           q == registry'
<1>2. /\ registry.row \in [Message -> Row] /\ registry.row[m] \in Row /\ registry \in Registry
      /\ registry.row[m].tries < MaxReplays
  BY <1>1 DEF Good, Registry, MayDispatch
<1>3. row \in Row /\ row.whole = registry.row[m].whole /\ row.emitted = registry.row[m].emitted
  BY <1>2, BoundAssumption DEF Row
<1>4. q = [registry EXCEPT !.row = [registry.row EXCEPT ![m] = row]]
  BY <1>2 DEF Registry
<1> HIDE DEF row
<1>5. /\ q.owed = registry.owed /\ q.delivered = registry.delivered /\ q.exhausted = registry.exhausted
      /\ q.superseded = registry.superseded /\ q.row = [registry.row EXCEPT ![m] = row] /\ Record(q)
  BY <1>2, <1>4 DEF Registry, Record
<1> HIDE DEF q
<1>6. q \in Registry
  BY <1>2, <1>3, <1>5 DEF Registry, Record
<1>7. /\ Pending(q) = Pending(registry) /\ Known(q) = Known(registry)
      /\ \A k \in Message : q.row[k].whole = registry.row[k].whole /\ q.row[k].emitted = registry.row[k].emitted
  BY <1>2, <1>3, <1>5 DEF Pending, Known
<1>8. Good(q)
  BY <1>1, <1>5, <1>6, <1>7 DEF Good, Sound, BundlesKnown
<1>9. ReplacedNoticeLeavesItsFact'
  <2>1. \A k \in registry.superseded : k \in Message
    BY <1>2 DEF Registry
  <2> QED BY <1>1, <1>5, <1>7, <2>1, FactsStay DEF q
<1>10. Good(registry)'
  BY <1>8 DEF q, Good, BundlesKnown
<1> QED BY <1>5, <1>7, <1>9, <1>10, OwnIsNoFact DEF q, RegistryInv, SentSame, OwedSame

-----------------------------------------------------------------------------
(* What a step of a handler leaves alone.                                  *)

Task == [pc : {"idle", "claim", "dispatch", "transmit", "retain", "receipt", "repair"},
         todo : Seq(Event), held : SUBSET Message]

\* The events of a sequence, and what is left of it without its first.
LEMMA Ranges ==
    ASSUME NEW s \in Seq(Event)
    PROVE  /\ \A e \in Event : Append(s, e) \in Seq(Event) /\ Range(Append(s, e)) = Range(s) \cup {e}
           /\ s # <<>> =>
                 /\ Head(s) \in Event /\ Head(s) \in Range(s)
                 /\ Tail(s) \in Seq(Event) /\ Range(Tail(s)) \subseteq Range(s)
                 /\ Tail(s) = <<>> <=> Len(s) = 1
           /\ s = <<>> => Range(s) = {}
           /\ Range(s) \subseteq Event
<1>1. DOMAIN s = 1..Len(s) /\ Len(s) \in Nat /\ \A k \in 1..Len(s) : s[k] \in Event
  OBVIOUS
<1>2. ASSUME NEW e \in Event PROVE Append(s, e) \in Seq(Event) /\ Range(Append(s, e)) = Range(s) \cup {e}
  <2> DEFINE q == Append(s, e)
  <2>1. /\ q \in Seq(Event) /\ DOMAIN q = 1..(Len(s) + 1)
        /\ \A k \in 1..(Len(s) + 1) : q[k] = IF k = Len(s) + 1 THEN e ELSE s[k]
    BY <1>1
  <2> HIDE DEF q
  <2>2. \A k \in 1..Len(s) : k \in 1..(Len(s) + 1) /\ k # Len(s) + 1
    BY <1>1
  <2>3. \A k \in 1..(Len(s) + 1) : k = Len(s) + 1 \/ k \in 1..Len(s)
    BY <1>1
  <2>4. Len(s) + 1 \in 1..(Len(s) + 1)
    BY <1>1
  <2>5. Range(q) = {q[k] : k \in 1..(Len(s) + 1)} /\ Range(s) = {s[k] : k \in 1..Len(s)}
    BY <1>1, <2>1 DEF Range
  <2>6. Range(q) = Range(s) \cup {e}
    BY <2>1, <2>2, <2>3, <2>4, <2>5
  <2> QED BY <2>1, <2>6 DEF q
<1>3. ASSUME s # <<>>
      PROVE  /\ Head(s) \in Event /\ Head(s) \in Range(s)
             /\ Tail(s) \in Seq(Event) /\ Range(Tail(s)) \subseteq Range(s)
             /\ Tail(s) = <<>> <=> Len(s) = 1
  <2>1. Len(s) >= 1 /\ 1 \in 1..Len(s) /\ Head(s) = s[1]
    BY <1>1, <1>3
  <2> DEFINE q == Tail(s)
  <2>2. /\ q \in Seq(Event) /\ Len(q) = Len(s) - 1 /\ DOMAIN q = 1..(Len(s) - 1)
        /\ \A k \in 1..(Len(s) - 1) : q[k] = s[k + 1]
    BY <1>1, <1>3, <2>1
  <2>3. q = <<>> <=> Len(q) = 0
    BY <2>2
  <2> HIDE DEF q
  <2>4. \A k \in 1..(Len(s) - 1) : k + 1 \in 1..Len(s)
    BY <1>1, <2>1
  <2>5. Range(q) = {q[k] : k \in 1..(Len(s) - 1)} /\ Range(s) = {s[k] : k \in 1..Len(s)}
    BY <1>1, <2>2 DEF Range
  <2>6. Range(q) \subseteq Range(s)
    BY <2>2, <2>4, <2>5
  <2>7. Head(s) \in Range(s) /\ Head(s) \in Event
    BY <1>1, <2>1, <2>5
  <2>8. q = <<>> <=> Len(s) = 1
    BY <1>1, <2>2, <2>3
  <2> QED BY <2>2, <2>6, <2>7, <2>8 DEF q
<1>4. s = <<>> => Range(s) = {}
  BY DEF Range
<1>5. Range(s) \subseteq Event
  BY <1>1 DEF Range
<1> QED BY <1>2, <1>3, <1>4, <1>5

\* The event a busy handler is at.
LEMMA Current ==
    ASSUME DeliveryInv, NEW t \in Thread, handler[t].pc # "idle"
    PROVE  /\ handler[t].todo # <<>> /\ Event1(t) \in Todo(t)
           /\ Event1(t) \in Event /\ HonestEvent(Event1(t)) /\ Event1(t).id \in Message
           /\ Tail(handler[t].todo) \in Seq(Event) /\ Range(Tail(handler[t].todo)) \subseteq Todo(t)
           /\ Tail(handler[t].todo) = <<>> <=> Len(handler[t].todo) = 1
<1>1. handler[t].todo \in Seq(Event) /\ handler[t].todo # <<>>
  BY DEF DeliveryInv, DeliveryTypeOK, HandlerInv, HandlerOK
<1>2. /\ Event1(t) \in Event /\ Event1(t) \in Todo(t)
      /\ Tail(handler[t].todo) \in Seq(Event) /\ Range(Tail(handler[t].todo)) \subseteq Todo(t)
      /\ Tail(handler[t].todo) = <<>> <=> Len(handler[t].todo) = 1
  <2>1. PICK todo \in Seq(Event) : todo = handler[t].todo
    BY <1>1
  <2>2. /\ Head(todo) \in Event /\ Head(todo) \in Range(todo)
        /\ Tail(todo) \in Seq(Event) /\ Range(Tail(todo)) \subseteq Range(todo)
        /\ Tail(todo) = <<>> <=> Len(todo) = 1
    BY <1>1, <2>1, Ranges
  <2> QED BY <2>1, <2>2 DEF Event1, Todo
<1>3. HonestEvent(Event1(t))
  BY <1>2 DEF DeliveryInv, EventsInv
<1> QED BY <1>1, <1>2, <1>3 DEF Event

\* Only the handler of t moves.
OnlyHandler(t) == handler' \in [Thread -> Task] /\ \A u \in Thread \ {t} : handler'[u] = handler[u]

LEMMA Proceeds ==
    ASSUME DeliveryInv, NEW t \in Thread, NEW pc \in Working, Proceed(t, pc)
    PROVE  /\ OnlyHandler(t) /\ handler'[t].pc = pc
           /\ handler'[t].todo = handler[t].todo /\ handler'[t].held = handler[t].held
<1>1. handler \in [Thread -> Task] /\ pc \in {"dispatch", "transmit", "retain", "receipt", "repair"}
  BY DEF DeliveryInv, DeliveryTypeOK, Task, Working
<1>2. handler' = [handler EXCEPT ![t] = [handler[t] EXCEPT !.pc = pc]] /\ handler[t] \in Task
  BY <1>1 DEF Proceed, Task
<1> DEFINE task == [handler[t] EXCEPT !.pc = pc]
<1>3. task \in Task /\ task.pc = pc /\ task.todo = handler[t].todo /\ task.held = handler[t].held
  BY <1>1, <1>2 DEF Task
<1> HIDE DEF task
<1>4. handler' = [handler EXCEPT ![t] = task]
  BY <1>2 DEF task
<1> QED BY <1>1, <1>3, <1>4 DEF OnlyHandler

LEMMA GoesOn ==
    ASSUME DeliveryInv, NEW t \in Thread, handler[t].pc # "idle", NextEvent(t)
    PROVE  /\ OnlyHandler(t) /\ handler'[t].pc \in {"idle", "claim"}
           /\ handler'[t].pc = "idle" <=> handler'[t].todo = <<>>
           /\ Range(handler'[t].todo) \subseteq Todo(t)
           /\ handler'[t].todo # <<>> => handler'[t].held = handler[t].held
<1>1. handler \in [Thread -> Task] /\ handler[t] \in Task
  BY DEF DeliveryInv, DeliveryTypeOK, Task
<1> DEFINE task == IF Len(handler[t].todo) = 1
                   THEN [pc |-> "idle", todo |-> <<>>, held |-> {}]
                   ELSE [pc |-> "claim", todo |-> Tail(handler[t].todo), held |-> handler[t].held]
<1>2. handler' = [handler EXCEPT ![t] = task]
  BY <1>1 DEF NextEvent
<1>3. /\ task \in Task /\ task.pc \in {"idle", "claim"}
      /\ task.pc = "idle" <=> task.todo = <<>>
      /\ task.todo = <<>> \/ task.todo = Tail(handler[t].todo)
      /\ task.todo # <<>> => task.held = handler[t].held
  BY <1>1, Current DEF Task
<1> HIDE DEF task
<1>4. Range(<<>>) = {}
  BY DEF Range
<1>5. Range(task.todo) \subseteq Todo(t)
  BY <1>3, <1>4, Current
<1>6. handler' \in [Thread -> Task] /\ handler'[t] = task /\ \A u \in Thread \ {t} : handler'[u] = handler[u]
  BY <1>1, <1>2, <1>3
<1> QED BY <1>3, <1>5, <1>6 DEF OnlyHandler

LEMMA Begins ==
    ASSUME DeliveryInv, NEW t \in Thread, NEW e \in Event, NEW held \in SUBSET Message, Begin(t, e, held)
    PROVE  /\ OnlyHandler(t) /\ handler'[t].pc = "claim" /\ handler'[t].todo # <<>>
           /\ Range(handler'[t].todo) = {e} /\ handler'[t].held = held
<1>1. handler \in [Thread -> Task]
  BY DEF DeliveryInv, DeliveryTypeOK, Task
<1>2. [pc |-> "claim", todo |-> <<e>>, held |-> held] \in Task
  BY DEF Task
<1>3. Range(<<e>>) = {e} /\ <<e>> # <<>>
  BY DEF Range
<1> QED BY <1>1, <1>2, <1>3 DEF OnlyHandler, Begin

LEMMA Splits ==
    ASSUME DeliveryInv, NEW t \in Thread, At(t, "claim"), NEW todo \in Seq(Event), todo # <<>>,
           handler' = [handler EXCEPT ![t].todo = todo]
    PROVE  /\ OnlyHandler(t) /\ handler'[t].pc = "claim"
           /\ handler'[t].todo = todo /\ handler'[t].held = handler[t].held
<1>1. handler \in [Thread -> Task] /\ handler[t] \in Task /\ handler[t].pc = "claim"
  BY DEF DeliveryInv, DeliveryTypeOK, Task, At
<1> DEFINE task == [handler[t] EXCEPT !.todo = todo]
<1>2. handler' = [handler EXCEPT ![t] = task]
  BY <1>1
<1>3. task \in Task /\ task.pc = "claim" /\ task.todo = todo /\ task.held = handler[t].held
  BY <1>1 DEF Task
<1> HIDE DEF task
<1> QED BY <1>1, <1>2, <1>3 DEF OnlyHandler

\* Records and memories of what was sent stay records of that.
LEMMA LandedStays ==
    ASSUME DeliveryInv, NEW ids, SentSame(ids), landed \subseteq landed',
           \A m \in Own : m \in ids => m \in landed',
           \A m \in Own : m \in memory' => m \in memory \cup landed'
    PROVE  LandedInv'
BY DEF DeliveryInv, LandedInv, RecordedWasSent, SentSame

\* Honest events and rows stay so.
LEMMA StaysHonest ==
    ASSUME landed \subseteq landed', NEW id, NEW whole, NEW emitted, Honest(id, whole, emitted)
    PROVE  Honest(id, whole, emitted)'
BY DEF Honest

LEMMA EventsStay ==
    ASSUME DeliveryInv, landed \subseteq landed',
           \A e \in InBus' : e \in InBus \/ HonestEvent(e)',
           \A t \in Thread : \A e \in Todo(t)' : e \in Todo(t) \/ HonestEvent(e)',
           \A x \in sweep' : x \in sweep \/ Honest(x.id, x.row.whole, x.row.emitted)'
    PROVE  EventsInv'
<1>1. \A e \in InBus : HonestEvent(e)'
  BY DEF DeliveryInv, EventsInv, HonestEvent, Honest
<1>2. \A t \in Thread : \A e \in Todo(t) : HonestEvent(e)'
  BY DEF DeliveryInv, EventsInv, HonestEvent, Honest
<1>3. \A x \in sweep : Honest(x.id, x.row.whole, x.row.emitted)'
  BY DEF DeliveryInv, EventsInv, Honest
<1> QED BY <1>1, <1>2, <1>3 DEF EventsInv

\* A handler that does not move is where it may be, whatever is written about others.
LEMMA HandlerStays ==
    ASSUME DeliveryInv, NEW t \in Thread, handler'[t] = handler[t],
           NEW ids, SentSame(ids), landed \subseteq landed',
           memory' \subseteq memory \cup ids,
           handler[t].pc \in Working => Event1(t).id \notin ids /\ Event1(t).id \in active'
    PROVE  HandlerOK(t)'
<1>1. HandlerOK(t) /\ Event1(t)' = Event1(t)
  BY DEF DeliveryInv, HandlerInv, Event1
<1>2. ASSUME handler[t].pc \in {"dispatch", "transmit"} PROVE ~Event1(t).emitted /\ Unsent(Event1(t).id)'
  <2>1. PICK m : m = Event1(t).id
    OBVIOUS
  <2>2. m \notin ids /\ Unsent(m) /\ ~Event1(t).emitted /\ m = Event1(t)'.id
    BY <1>1, <1>2, <2>1 DEF HandlerOK, Working
  <2>3. m \notin memory' \cup registry'.delivered
    BY <2>2 DEF Unsent, SentSame
  <2>4. m \in Own /\ m \in Pending(registry') => ~registry'.row[m].emitted
    BY <2>2 DEF Unsent, SentSame
  <2> QED BY <2>2, <2>3, <2>4 DEF Unsent
<1>3. ASSUME handler[t].pc \in {"retain", "receipt", "repair"}, Event1(t).id \in Own PROVE Event1(t).id \in landed'
  BY <1>1, <1>3 DEF HandlerOK
<1> QED BY <1>1, <1>2, <1>3 DEF HandlerOK

LEMMA HandlersStay ==
    ASSUME DeliveryInv, handler' = handler, active' = active, memory' = memory, landed' = landed, SentSame({})
    PROVE  HandlerInv' /\ UnsharedInv' /\ HeldInv'
<1>1. ASSUME NEW t \in Thread PROVE HandlerOK(t)'
  <2>1. handler[t].pc \in Working => Event1(t).id \in active
    BY DEF DeliveryInv, HandlerInv, HandlerOK
  <2> QED BY <2>1, HandlerStays
<1>2. UnsharedInv' /\ HeldInv'
  BY DEF DeliveryInv, UnsharedInv, HeldInv, Event1, Todo
<1> QED BY <1>1, <1>2 DEF HandlerInv

\* When one handler moves, the others stay where they may be.
LEMMA OthersStay ==
    ASSUME DeliveryInv, NEW t \in Thread, OnlyHandler(t), NEW ids, SentSame(ids), landed \subseteq landed',
           memory' \subseteq memory \cup ids,
           IF handler[t].pc \in Working
           THEN ids \subseteq {Event1(t).id} /\ active \ {Event1(t).id} \subseteq active'
           ELSE ids = {} /\ active \subseteq active',
           HandlerOK(t)',
           handler'[t].pc \in Working =>
               \/ handler[t].pc \in Working /\ Event1(t)'.id = Event1(t).id
               \/ Event1(t)'.id \notin active
    PROVE  HandlerInv' /\ UnsharedInv'
<1>1. ASSUME NEW u \in Thread \ {t} PROVE HandlerOK(u)'
  <2>1. handler'[u] = handler[u] /\ u \in Thread
    BY DEF OnlyHandler
  <2>2. handler[u].pc \in Working => Event1(u).id \in active
    BY DEF DeliveryInv, HandlerInv, HandlerOK
  <2>3. handler[t].pc \in Working /\ handler[u].pc \in Working => Event1(u).id # Event1(t).id
    BY DEF DeliveryInv, UnsharedInv
  <2>4. handler[u].pc \in Working => Event1(u).id \notin ids /\ Event1(u).id \in active'
    BY <2>2, <2>3
  <2> QED BY <2>1, <2>4, HandlerStays
<1>2. \A u \in Thread \ {t} : handler'[u].pc \in Working =>
          handler[u].pc \in Working /\ Event1(u)' = Event1(u) /\ Event1(u).id \in active
  BY DEF OnlyHandler, DeliveryInv, HandlerInv, HandlerOK, Event1
<1>3. UnsharedInv'
  <2> SUFFICES ASSUME NEW u \in Thread, NEW v \in Thread, u # v,
                      handler'[u].pc \in Working, handler'[v].pc \in Working
               PROVE  Event1(u)'.id # Event1(v)'.id
    BY DEF UnsharedInv
  <2>1. CASE u # t /\ v # t
    BY <1>2, <2>1 DEF DeliveryInv, UnsharedInv
  <2>2. CASE u = t
    BY <1>2, <2>2 DEF DeliveryInv, UnsharedInv
  <2>3. CASE v = t
    BY <1>2, <2>3 DEF DeliveryInv, UnsharedInv
  <2> QED BY <2>1, <2>2, <2>3
<1> QED BY <1>1, <1>3 DEF HandlerInv

\* What nobody owed and nothing mentioned is still nowhere.
LEMMA UnbornStays ==
    ASSUME DeliveryInv,
           \A m \in Own : producer'[m] \in {"new", "asked", "owed"} =>
               /\ producer[m] \in {"new", "asked", "owed"}
               /\ m \in Known(registry) => m \in Known(registry')
               /\ Nowhere(m) => Nowhere(m)' \/ m \in Known(registry')
    PROVE  UnbornInv'
BY DEF DeliveryInv, UnbornInv

\* A remembered send without a record keeps its excuse.
LEMMA ExcuseStays ==
    ASSUME DeliveryInv, NEW m \in Own, NEW ids, m \notin ids, OwedSame(ids),
           m \in memory' => m \in memory,
           m \in hints /\ m \in Pending(registry) /\ m \in Pending(registry') => m \in hints',
           faults' \in Nat, faults' >= faults,
           \A t \in Thread : handler'[t] = handler[t] \/ handler[t].pc \notin {"retain", "receipt"} \/ Event1(t).id # m
    PROVE  Unrecorded(m)' => Excused(m)'
<1> SUFFICES ASSUME Unrecorded(m)' PROVE Excused(m)'
  OBVIOUS
<1>1. Unrecorded(m) /\ m \in Pending(registry) /\ m \in Pending(registry')
  BY DEF Unrecorded, OwedSame
<1>2. faults \in Nat /\ (m \in hints => m \in hints')
  BY <1>1, BoundAssumption DEF DeliveryInv, DeliveryTypeOK
<1>3. CASE \E t \in Thread : At(t, "retain") /\ Event1(t).id = m
  BY <1>3 DEF Excused, At, Event1
<1>4. CASE \E t \in Thread : At(t, "receipt") /\ Event1(t).id = m /\ m \in hints /\ faults >= 1
  <2>1. PICK t \in Thread : At(t, "receipt") /\ Event1(t).id = m /\ m \in hints /\ faults >= 1
    BY <1>4
  <2>2. handler'[t] = handler[t] /\ faults' >= 1
    BY <1>2, <2>1 DEF At
  <2> QED BY <1>2, <2>1, <2>2 DEF Excused, At, Event1
<1>5. CASE m \in hints /\ faults >= 2
  BY <1>2, <1>5 DEF Excused
<1> QED BY <1>1, <1>3, <1>4, <1>5 DEF DeliveryInv, UnrecordedInv, Excused

-----------------------------------------------------------------------------
(* Each step keeps the invariant: the producers.                           *)

LEMMA LiveEvents ==
    \A m \in Message : /\ LiveEvent(m) \in Event /\ LiveEvent(m).id = m /\ ~LiveEvent(m).emitted
                       /\ LiveEvent(m).whole => m \in DOMAIN Carries
                       /\ HonestEvent(LiveEvent(m)) /\ HonestEvent(LiveEvent(m))'
<1> SUFFICES ASSUME NEW m \in Message
             PROVE  /\ LiveEvent(m) \in Event /\ LiveEvent(m).id = m /\ ~LiveEvent(m).emitted
                    /\ LiveEvent(m).whole => m \in DOMAIN Carries
                    /\ HonestEvent(LiveEvent(m)) /\ HonestEvent(LiveEvent(m))'
  OBVIOUS
<1> DEFINE w == m \in DOMAIN Carries
<1>1. w \in BOOLEAN
  OBVIOUS
<1>2. LiveEvent(m) = [id |-> m, replay |-> FALSE, whole |-> w,
                      deferred |-> FALSE, emitted |-> FALSE, failed |-> FALSE]
  BY DEF LiveEvent
<1> HIDE DEF w
<1>3. LiveEvent(m) \in Event /\ LiveEvent(m).id = m /\ LiveEvent(m).emitted = FALSE /\ LiveEvent(m).whole = w
  BY <1>1, <1>2 DEF Event
<1> QED BY <1>3 DEF HonestEvent, Honest, w

\* What failed before in a step and in its write stays within the bound.
LEMMA FaultsGrow ==
    ASSUME DeliveryInv, NEW n \in 0..2, faults' = faults + n, faults' <= MaxFault
    PROVE  faults' \in 0..MaxFault /\ faults' >= faults /\ faults' >= n
BY BoundAssumption DEF DeliveryInv, DeliveryTypeOK

\* A producer moves on; it may owe its message and send it on its way.
LEMMA ProducerKeeps ==
    ASSUME DeliveryInv, NEW m \in Message,
           UNCHANGED <<chatted, handler, active, memory, hints, sweep, landed>>, older' \subseteq Notice,
           registry' = registry \/ registry' = Register(registry, LiveEvent(m)),
           registry' # registry => producer[m] \in {"new", "asked", "owed"},
           bus' = bus \/ bus' = Append(bus, LiveEvent(m)),
           NEW p \in {"new", "asked", "owed", "put", "done"}, producer' = [producer EXCEPT ![m] = p],
           p \in {"new", "asked", "owed"} => bus' = bus /\ producer[m] \in {"new", "asked", "owed"},
           faults' \in 0..MaxFault, faults' >= faults
    PROVE  DeliveryInv'
<1> DEFINE e == LiveEvent(m)
<1>1. /\ e \in Event /\ e.id = m /\ ~e.emitted /\ (e.whole => m \in DOMAIN Carries)
      /\ HonestEvent(e)'
  BY LiveEvents
<1>2. /\ RegistryInv' /\ SentSame({}) /\ OwedSame({m})
      /\ Known(registry) \subseteq Known(registry')
      /\ m \in Known(registry) /\ m \in Pending(registry') =>
            m \in Pending(registry) /\ (registry.row[m].emitted => registry'.row[m].emitted)
  <2> HIDE DEF e
  <2>1. registry' = registry \/ registry' = Register(registry, e)
    BY DEF e
  <2> QED BY <1>1, <2>1, WrittenEvent
<1>3. bus \in Seq(Event) /\ producer \in [Message -> {"new", "asked", "owed", "put", "done"}]
  BY DEF DeliveryInv, DeliveryTypeOK
<1> HIDE DEF e
<1>4. bus' \in Seq(Event) /\ InBus' \subseteq InBus \cup {e} /\ (bus' = bus => InBus' = InBus)
  <2>1. Append(bus, e) \in Seq(Event) /\ Range(Append(bus, e)) = Range(bus) \cup {e}
    BY <1>1, <1>3, Ranges
  <2>2. bus' = bus \/ bus' = Append(bus, e)
    BY DEF e
  <2> QED BY <1>3, <2>1, <2>2 DEF InBus
<1>5. DeliveryTypeOK'
  BY <1>2, <1>3, <1>4 DEF DeliveryInv, DeliveryTypeOK, RegistryInv, Good
<1>6. LandedInv'
  BY <1>2, LandedStays DEF DeliveryInv, LandedInv
<1>7. EventsInv'
  BY <1>1, <1>4, EventsStay DEF Todo
<1>8. HandlerInv' /\ UnsharedInv' /\ HeldInv'
  BY <1>2, HandlersStay
<1>9. UnbornInv'
  <2> SUFFICES ASSUME NEW k \in Own, producer'[k] \in {"new", "asked", "owed"}
               PROVE  /\ producer[k] \in {"new", "asked", "owed"}
                      /\ k \in Known(registry) => k \in Known(registry')
                      /\ Nowhere(k) => Nowhere(k)' \/ k \in Known(registry')
    BY UnbornStays
  <2>1. k \in Message
    BY OwnIsNoFact
  <2>2. producer[k] \in {"new", "asked", "owed"} /\ (k = m => bus' = bus)
    BY <1>3, <2>1
  <2>3. Nowhere(k) => Nowhere(k)'
    BY <1>1, <1>4, <2>2 DEF Nowhere, Todo
  <2> QED BY <1>2, <2>2, <2>3
<1>10. UnrecordedInv'
  <2> SUFFICES ASSUME NEW k \in Own, Unrecorded(k)' PROVE Excused(k)'
    BY DEF UnrecordedInv
  <2>0. faults' \in Nat
    BY BoundAssumption
  <2>1. CASE k # m
    BY <1>2, <2>0, <2>1, ExcuseStays
  <2>2. CASE k = m /\ (registry' = registry \/ m \in Known(registry))
    <3>1. OwedSame({})
      BY <1>2, <2>2 DEF OwedSame
    <3> QED BY <2>0, <3>1, ExcuseStays
  <2>3. CASE k = m /\ registry' # registry /\ m \notin Known(registry)
    <3>1. Nowhere(m)
      BY <2>3 DEF DeliveryInv, UnbornInv
    <3> QED BY <2>3, <3>1 DEF Nowhere, Unrecorded
  <2> QED BY <2>1, <2>2, <2>3
<1> QED BY <1>2, <1>5, <1>6, <1>7, <1>8, <1>9, <1>10 DEF DeliveryInv

LEMMA OweKeeps ==
    ASSUME DeliveryInv, NEW m \in Message, Owe(m)
    PROVE  DeliveryInv'
<1>1. producer[m] \in {"new", "asked", "owed"} /\ producer' = [producer EXCEPT ![m] = "owed"]
  BY DEF Owe
<1>2. UNCHANGED <<chatted, handler, active, memory, hints, sweep, landed, bus>> /\ older' \subseteq Notice
  BY DEF Owe, volatile, DeliveryInv, DeliveryTypeOK
<1>3. registry' = registry \/ registry' = Register(registry, LiveEvent(m))
  BY DEF Owe, Written
<1>4. faults' \in 0..MaxFault /\ faults' >= faults
  BY BoundAssumption DEF Owe, Written, DeliveryInv, DeliveryTypeOK
<1> QED BY <1>1, <1>2, <1>3, <1>4, ProducerKeeps

LEMMA RequestStopKeeps ==
    ASSUME DeliveryInv, NEW m \in Message, RequestStop(m)
    PROVE  DeliveryInv'
<1>1. producer[m] \in {"new", "asked", "owed"} /\ producer' = [producer EXCEPT ![m] = "asked"]
  BY DEF RequestStop
<1>2. /\ UNCHANGED <<registry, chatted, handler, active, memory, hints, sweep, landed, bus, faults>>
      /\ older' \subseteq Notice
  BY DEF RequestStop, durable, volatile
<1>3. faults' \in 0..MaxFault /\ faults' >= faults
  BY <1>2, BoundAssumption DEF DeliveryInv, DeliveryTypeOK
<1> QED BY <1>1, <1>2, <1>3, ProducerKeeps

LEMMA PutAnswerKeeps ==
    ASSUME DeliveryInv, NEW m \in Message, PutAnswer(m)
    PROVE  DeliveryInv'
<1>1. PICK p \in {"put", "done"} : producer' = [producer EXCEPT ![m] = p]
  BY DEF PutAnswer
<1>2. /\ UNCHANGED <<registry, chatted, older, handler, active, memory, hints, sweep, landed, faults>>
      /\ bus' = Append(bus, LiveEvent(m))
  BY DEF PutAnswer, durable
<1>3. faults' \in 0..MaxFault /\ faults' >= faults /\ older' \subseteq Notice
  BY <1>2, BoundAssumption DEF DeliveryInv, DeliveryTypeOK
<1> QED BY <1>1, <1>2, <1>3, ProducerKeeps

LEMMA EnqueueStopKeeps ==
    ASSUME DeliveryInv, NEW m \in Message, EnqueueStop(m)
    PROVE  DeliveryInv'
<1>1. producer[m] \in {"new", "asked", "owed"} /\ producer' = [producer EXCEPT ![m] = "done"]
  BY DEF EnqueueStop
<1>2. UNCHANGED <<chatted, handler, active, memory, hints, sweep, landed>> /\ older' \subseteq Notice
  BY DEF EnqueueStop, DeliveryInv, DeliveryTypeOK
<1>3. /\ registry' = registry \/ registry' = Register(registry, LiveEvent(m))
      /\ bus' = bus \/ bus' = Append(bus, LiveEvent(m))
  BY DEF EnqueueStop, Written
<1>4. faults' \in 0..MaxFault /\ faults' >= faults
  BY BoundAssumption DEF EnqueueStop, Written, DeliveryInv, DeliveryTypeOK
<1> QED BY <1>1, <1>2, <1>3, <1>4, ProducerKeeps

LEMMA WithdrawStopKeeps ==
    ASSUME DeliveryInv, NEW m \in Message, WithdrawStop(m)
    PROVE  DeliveryInv'
<1>1. m \in Stop /\ producer' = [producer EXCEPT ![m] = "done"]
  BY DEF WithdrawStop
<1>2. UNCHANGED <<chatted, older, bus, handler, active, memory, hints, sweep, landed>>
  BY DEF WithdrawStop, volatile
<1>3. registry' = registry \/ registry' = Withdraw(registry, m)
  BY DEF WithdrawStop, Written
<1>4. faults' \in 0..MaxFault /\ faults' >= faults /\ faults' \in Nat
  BY BoundAssumption DEF WithdrawStop, Written, DeliveryInv, DeliveryTypeOK
<1>5. RegistryInv' /\ SentSame({}) /\ OwedSame({}) /\ Known(registry) \ {m} \subseteq Known(registry')
  BY <1>1, <1>3, Withdrawn
<1>6. producer \in [Message -> {"new", "asked", "owed", "put", "done"}]
  BY DEF DeliveryInv, DeliveryTypeOK
<1>7. DeliveryTypeOK'
  BY <1>1, <1>2, <1>4, <1>5, <1>6 DEF DeliveryInv, DeliveryTypeOK, RegistryInv, Good
<1>8. LandedInv'
  BY <1>2, <1>5, LandedStays DEF DeliveryInv, LandedInv
<1>9. EventsInv'
  BY <1>2, EventsStay DEF Todo, InBus
<1>10. HandlerInv' /\ UnsharedInv' /\ HeldInv'
  BY <1>2, <1>5, HandlersStay
<1>11. UnbornInv'
  <2>1. \A k \in Own : Nowhere(k) => Nowhere(k)'
    BY <1>2 DEF Nowhere, InBus, Todo
  <2>2. \A k \in Own : producer'[k] \in {"new", "asked", "owed"} => k # m /\ producer[k] = producer'[k]
    BY <1>1, <1>6, OwnIsNoFact
  <2> QED BY <1>5, <2>1, <2>2, UnbornStays
<1>12. UnrecordedInv'
  BY <1>2, <1>4, <1>5, ExcuseStays DEF UnrecordedInv
<1> QED BY <1>5, <1>7, <1>8, <1>9, <1>10, <1>11, <1>12 DEF DeliveryInv

-----------------------------------------------------------------------------
(* The handlers.                                                           *)

\* A handler that goes on to its next event, or rests, is where it may be.
LEMMA RestsWell ==
    ASSUME NEW t \in Thread, handler'[t].pc \in {"idle", "claim"},
           handler'[t].pc = "idle" <=> handler'[t].todo = <<>>
    PROVE  HandlerOK(t)' /\ handler'[t].pc \notin Working
BY DEF HandlerOK, Working

LEMMA UnrecordedStays ==
    ASSUME DeliveryInv, NEW t \in Thread, OnlyHandler(t), NEW ids, OwedSame(ids),
           \A m \in Own :
               \/ m \in memory' \ memory
               \/ m \in ids
               \/ m \in hints \ hints' /\ m \in Pending(registry')
               \/ handler[t].pc \in {"retain", "receipt"} /\ Event1(t).id = m
               => (Unrecorded(m)' => Excused(m)'),
           faults' \in Nat, faults' >= faults
    PROVE  UnrecordedInv'
<1> SUFFICES ASSUME NEW m \in Own, Unrecorded(m)' PROVE Excused(m)'
  BY DEF UnrecordedInv
<1>1. CASE /\ m \notin memory' \ memory /\ m \notin ids
           /\ ~(m \in hints \ hints' /\ m \in Pending(registry'))
           /\ ~(handler[t].pc \in {"retain", "receipt"} /\ Event1(t).id = m)
  <2>1. \A u \in Thread : handler'[u] = handler[u] \/ handler[u].pc \notin {"retain", "receipt"} \/ Event1(u).id # m
    BY <1>1 DEF OnlyHandler
  <2> QED BY <1>1, <2>1, ExcuseStays
<1> QED BY <1>1

\* A step of one handler, which writes, remembers and claims for its own event only.
LEMMA HandlerKeeps ==
    ASSUME DeliveryInv, NEW t \in Thread, OnlyHandler(t), NEW ids,
           producer' = producer, older' = older, chatted' \subseteq Stop,
           RegistryInv', SentSame(ids), Known(registry) \subseteq Known(registry'),
           landed \subseteq landed', landed' \subseteq Message,
           bus' \in Seq(Event), InBus' \subseteq InBus, sweep' \subseteq sweep,
           active' \subseteq Message, hints' \subseteq Message,
           memory' \subseteq memory \cup ids, memory' \subseteq Message,
           \A m \in Own : m \in ids => m \in landed',
           IF handler[t].pc \in Working
           THEN ids \subseteq {Event1(t).id} /\ active \ {Event1(t).id} \subseteq active'
           ELSE ids = {} /\ active \subseteq active',
           \A e \in Todo(t)' : e \in Todo(t) \/ (HonestEvent(e)' /\ (e.id \in Own => ~Nowhere(e.id))),
           HandlerOK(t)',
           handler'[t].pc \in Working =>
               \/ handler[t].pc \in Working /\ Event1(t)'.id = Event1(t).id
               \/ Event1(t)'.id \notin active,
           t = "consumer" => \A e \in Todo(t)' : e.id \in Own => e.id \in handler'[t].held,
           faults' \in 0..MaxFault, UnrecordedInv'
    PROVE  DeliveryInv'
<1>1. handler' \in [Thread -> Task] /\ \A u \in Thread \ {t} : handler'[u] = handler[u]
  BY DEF OnlyHandler
<1>2. DeliveryTypeOK'
  BY <1>1 DEF DeliveryInv, DeliveryTypeOK, RegistryInv, Good, Task
<1>3. LandedInv'
  BY LandedStays
<1>4. EventsInv'
  <2>1. \A u \in Thread : \A e \in Todo(u)' : e \in Todo(u) \/ HonestEvent(e)'
    BY <1>1 DEF Todo
  <2> QED BY <2>1, EventsStay
<1>5. HandlerInv' /\ UnsharedInv'
  BY OthersStay
<1>6. HeldInv'
  BY <1>1 DEF DeliveryInv, HeldInv, Todo, Thread
<1>7. UnbornInv'
  <2> SUFFICES ASSUME NEW m \in Own, Nowhere(m) PROVE Nowhere(m)'
    BY UnbornStays
  <2>1. m \notin ids
    <3>1. handler[t].pc \in Working => Event1(t) \in Todo(t)
      BY Current DEF Working
    <3> QED BY <3>1 DEF Nowhere
  <2>2. m \notin memory' /\ (\A e \in InBus' : e.id # m) /\ (\A x \in sweep' : x.id # m)
    BY <2>1 DEF Nowhere
  <2>3. \A u \in Thread : \A e \in Todo(u)' : e.id # m
    BY <1>1 DEF Nowhere, Todo
  <2> QED BY <2>2, <2>3 DEF Nowhere
<1> QED BY <1>2, <1>3, <1>4, <1>5, <1>6, <1>7 DEF DeliveryInv

LEMMA TakeKeeps ==
    ASSUME DeliveryInv, Take
    PROVE  DeliveryInv'
<1>0. PICK e : e = Head(bus)
  OBVIOUS
<1> DEFINE t == "consumer"
<1>1. /\ handler[t].pc = "idle" /\ t \in Thread
      /\ UNCHANGED <<registry, chatted, producer, older, active, memory, hints, sweep, landed, faults>>
  BY DEF Take, Idle, Thread, durable
<1>2. bus \in Seq(Event) /\ bus # <<>> /\ bus' = Tail(bus) /\ Begin(t, e, {e.id})
  BY <1>0 DEF Take, DeliveryInv, DeliveryTypeOK
<1>3. e \in Event /\ e \in InBus /\ bus' \in Seq(Event) /\ InBus' \subseteq InBus
  BY <1>0, <1>2, Ranges DEF InBus
<1>4. e.id \in Message /\ {e.id} \in SUBSET Message
  BY <1>3 DEF Event
<1> HIDE DEF t
<1>5. /\ OnlyHandler(t) /\ handler'[t].pc = "claim" /\ handler'[t].todo # <<>>
      /\ Range(handler'[t].todo) = {e} /\ handler'[t].held = {e.id}
  BY <1>1, <1>2, <1>3, <1>4, Begins
<1>6. RegistryInv' /\ SentSame({}) /\ OwedSame({}) /\ Known(registry') = Known(registry)
  BY <1>1, SameRegistry
<1>7. HandlerOK(t)' /\ handler'[t].pc \notin Working
  BY <1>1, <1>5, RestsWell
<1>8. HonestEvent(e)' /\ (e.id \in Own => ~Nowhere(e.id))
  BY <1>1, <1>3 DEF DeliveryInv, EventsInv, HonestEvent, Honest, Nowhere
<1>9. Todo(t)' = {e}
  BY <1>5 DEF Todo
<1>10. faults' \in 0..MaxFault /\ faults' \in Nat /\ faults' >= faults
  BY <1>1, BoundAssumption DEF DeliveryInv, DeliveryTypeOK
<1>11. UnrecordedInv'
  BY <1>1, <1>5, <1>6, <1>10, UnrecordedStays
<1>12. /\ chatted' \subseteq Stop /\ landed' \subseteq Message /\ active' \subseteq Message
       /\ hints' \subseteq Message /\ memory' \subseteq Message
  BY <1>1 DEF DeliveryInv, DeliveryTypeOK
<1>13. handler[t].pc \notin Working
  BY <1>1 DEF Working
<1> QED BY <1>1, <1>3, <1>5, <1>6, <1>7, <1>8, <1>9, <1>10, <1>11, <1>12, <1>13, HandlerKeeps

LEMMA SplitKeeps ==
    ASSUME DeliveryInv, NEW t \in Thread, Split(t)
    PROVE  DeliveryInv'
<1>0. PICK e, answer, fact : /\ e = Event1(t) /\ answer = [e EXCEPT !.whole = FALSE]
                             /\ fact = [answer EXCEPT !.id = Carries[answer.id]]
  OBVIOUS
<1>1. /\ At(t, "claim") /\ handler[t].pc # "idle" /\ handler[t].pc \notin Working /\ e.whole
      /\ Written(Register(registry, fact), 0)
      /\ handler' = [handler EXCEPT ![t].todo = <<answer, fact>>]
      /\ UNCHANGED <<chatted, producer, older, bus, active, memory, hints, sweep, landed>>
  BY <1>0 DEF Split, At, Working
<1>2. e \in Event /\ HonestEvent(e) /\ e \in Todo(t) /\ e.id \in DOMAIN Carries
  BY <1>0, <1>1, Current DEF HonestEvent, Honest
<1>3. Carries[e.id] \in Fact /\ Carries[e.id] \in Message
  BY <1>2, MessageAssumption DEF Fact, Range
<1>4. answer \in Event /\ answer.id = e.id /\ answer.whole = FALSE /\ answer.emitted = e.emitted
  BY <1>0, <1>2 DEF Event
<1>5. fact \in Event /\ fact.id = Carries[e.id] /\ fact.whole = FALSE /\ fact.emitted = e.emitted
  BY <1>0, <1>3, <1>4 DEF Event
<1>6. registry' = registry \/ registry' = Register(registry, fact)
  BY <1>1 DEF Written
<1>7. faults' \in 0..MaxFault /\ faults' \in Nat /\ faults' >= faults
  BY <1>1, BoundAssumption DEF Written, DeliveryInv, DeliveryTypeOK
<1>8. fact.id \notin Own
  BY <1>3, <1>5 DEF Own
<1>9. /\ RegistryInv' /\ SentSame({}) /\ OwedSame({}) /\ Known(registry) \subseteq Known(registry')
  <2>1. /\ RegistryInv' /\ registry'.delivered = registry.delivered
        /\ SentSame(IF fact.emitted THEN {fact.id} ELSE {}) /\ OwedSame({fact.id})
        /\ Known(registry) \subseteq Known(registry')
    BY <1>5, <1>6, WrittenEvent
  <2> QED BY <1>8, <2>1 DEF SentSame, OwedSame
<1>10. /\ OnlyHandler(t) /\ handler'[t].pc = "claim" /\ handler'[t].todo # <<>>
       /\ Range(handler'[t].todo) = {answer, fact} /\ handler'[t].held = handler[t].held
  <2>1. PICK todo : todo = <<answer, fact>>
    OBVIOUS
  <2>2. todo \in Seq(Event) /\ todo # <<>> /\ Range(todo) = {answer, fact}
    <3>1. <<answer, fact>> \in Seq(Event) /\ <<answer, fact>> # <<>>
      BY <1>4, <1>5
    <3>2. Range(<<answer, fact>>) = {answer, fact}
      BY DEF Range
    <3> QED BY <2>1, <3>1, <3>2
  <2>3. At(t, "claim") /\ handler' = [handler EXCEPT ![t].todo = todo]
    BY <1>1, <2>1
  <2> QED BY <2>2, <2>3, Splits
<1>11. HandlerOK(t)' /\ handler'[t].pc \notin Working
  BY <1>10, RestsWell
<1>12. HonestEvent(answer)' /\ HonestEvent(fact)' /\ (e.id \in Own => ~Nowhere(e.id))
  BY <1>1, <1>2, <1>4, <1>5, <1>8 DEF HonestEvent, Honest, Nowhere
<1>13. Todo(t)' = {answer, fact}
  BY <1>10 DEF Todo
<1>14. t = "consumer" => \A f \in Todo(t)' : f.id \in Own => f.id \in handler'[t].held
  BY <1>2, <1>4, <1>8, <1>10, <1>13 DEF DeliveryInv, HeldInv
<1>15. UnrecordedInv'
  BY <1>1, <1>7, <1>9, <1>10, UnrecordedStays DEF Working, At
<1>16. /\ chatted' \subseteq Stop /\ landed' \subseteq Message /\ active' \subseteq Message /\ InBus' = InBus
       /\ hints' \subseteq Message /\ memory' \subseteq Message /\ bus' \in Seq(Event)
  BY <1>1 DEF DeliveryInv, DeliveryTypeOK, InBus
<1> QED BY <1>1, <1>4, <1>7, <1>8, <1>9, <1>10, <1>11, <1>12, <1>13, <1>14, <1>15, <1>16, HandlerKeeps

LEMMA ClaimKeeps ==
    ASSUME DeliveryInv, NEW t \in Thread, Claim(t)
    PROVE  DeliveryInv'
<1>0. PICK e : e = Event1(t)
  OBVIOUS
<1>1. /\ At(t, "claim") /\ handler[t].pc # "idle" /\ handler[t].pc \notin Working /\ ~e.whole
      /\ UNCHANGED <<registry, chatted, producer, older, bus, memory, sweep, landed, faults>>
      /\ \/ /\ NextEvent(t) /\ active' = active
            /\ hints' = hints \/ (Verdict(e) = "known" /\ hints' = hints \ {e.id})
         \/ /\ MayClaim(e) /\ Verdict(e) \in {"repair", "dispatch"} /\ Proceed(t, Verdict(e))
            /\ active' = active \cup {e.id} /\ hints' = hints
  BY <1>0 DEF Claim, At, Working, durable
<1>2. e \in Event /\ HonestEvent(e) /\ e \in Todo(t) /\ e.id \in Message
  BY <1>0, <1>1, Current
<1>3. RegistryInv' /\ SentSame({}) /\ OwedSame({}) /\ Known(registry') = Known(registry)
  BY <1>1, SameRegistry
<1>4. faults' \in 0..MaxFault /\ faults' \in Nat /\ faults' >= faults
  BY <1>1, BoundAssumption DEF DeliveryInv, DeliveryTypeOK
<1>5. /\ chatted' \subseteq Stop /\ landed' \subseteq Message /\ active' \subseteq Message /\ InBus' = InBus
      /\ hints' \subseteq Message /\ memory' \subseteq Message /\ bus' \in Seq(Event) /\ active \subseteq active'
  BY <1>1, <1>2 DEF DeliveryInv, DeliveryTypeOK, InBus
<1>6. /\ OnlyHandler(t) /\ HandlerOK(t)'
      /\ \A f \in Todo(t)' : f \in Todo(t)
      /\ \A f \in Todo(t)' : handler'[t].held = handler[t].held
      /\ handler'[t].pc \in Working => Event1(t)'.id \notin active
  <2>1. CASE NextEvent(t)
    <3>1. /\ OnlyHandler(t) /\ handler'[t].pc \in {"idle", "claim"}
          /\ handler'[t].pc = "idle" <=> handler'[t].todo = <<>>
          /\ Range(handler'[t].todo) \subseteq Todo(t)
          /\ handler'[t].todo # <<>> => handler'[t].held = handler[t].held
      BY <1>1, <2>1, GoesOn
    <3>2. HandlerOK(t)' /\ handler'[t].pc \notin Working
      BY <3>1, RestsWell
    <3>3. handler'[t].todo = <<>> => Todo(t)' = {}
      BY DEF Todo, Range
    <3> QED BY <3>1, <3>2, <3>3 DEF Todo
  <2>2. CASE MayClaim(e) /\ Verdict(e) \in {"repair", "dispatch"} /\ Proceed(t, Verdict(e)) /\ active' = active \cup {e.id}
    <3>0. PICK pc : pc = Verdict(e)
      OBVIOUS
    <3>1. pc \in Working /\ pc \in {"repair", "dispatch"} /\ Proceed(t, pc)
      BY <2>2, <3>0 DEF Working
    <3>2. /\ OnlyHandler(t) /\ handler'[t].pc = pc
          /\ handler'[t].todo = handler[t].todo /\ handler'[t].held = handler[t].held
      BY <3>1, Proceeds
    <3>3. Event1(t)' = e /\ Todo(t)' = Todo(t) /\ handler'[t].todo # <<>>
      BY <1>0, <1>1, <3>2, Current DEF Event1, Todo
    <3>4. ASSUME pc = "repair", e.id \in Own PROVE e.id \in landed'
      <4>1. e.emitted \/ (e.id \in Pending(registry) /\ registry.row[e.id].emitted) \/ e.id \in memory
        BY <3>0, <3>4 DEF Verdict
      <4> QED BY <1>1, <1>2, <3>4, <4>1 DEF HonestEvent, Honest, DeliveryInv, LandedInv, RecordedWasSent
    <3>5. ASSUME pc = "dispatch" PROVE ~e.emitted /\ Unsent(e.id)
      BY <3>0, <3>5 DEF Verdict, Unsent
    <3>6. Unsent(e.id)' <=> Unsent(e.id)
      BY <1>1 DEF Unsent
    <3>7. HandlerOK(t)'
      BY <1>1, <2>2, <3>1, <3>2, <3>3, <3>4, <3>5, <3>6 DEF HandlerOK, Working
    <3>8. e.id \notin active
      BY <2>2 DEF MayClaim
    <3> QED BY <3>2, <3>3, <3>7, <3>8
  <2> QED BY <1>1, <2>1, <2>2
<1>7. UnrecordedInv'
  <2>1. \A m \in Own : m \in hints \ hints' => m \notin Pending(registry')
    <3>1. Verdict(e) = "known" => e.id \in registry.delivered
      BY DEF Verdict
    <3>2. e.id \in registry.delivered => e.id \notin Pending(registry')
      BY <1>1 DEF DeliveryInv, RegistryInv, Good, Sound
    <3> QED BY <1>1, <3>1, <3>2
  <2> QED BY <1>1, <1>3, <1>4, <1>6, <2>1, UnrecordedStays DEF At
<1>8. t = "consumer" => \A f \in Todo(t)' : f.id \in Own => f.id \in handler'[t].held
  BY <1>6 DEF DeliveryInv, HeldInv
<1> QED BY <1>1, <1>3, <1>4, <1>5, <1>6, <1>7, <1>8, HandlerKeeps

\* What deferring an event writes, or fails to.
LEMMA Defers ==
    ASSUME DeliveryInv, NEW e \in Event, ~e.whole, NEW emitted \in BOOLEAN, NEW failed \in BOOLEAN,
           NEW n \in {0, 1}, Defer(e, emitted, failed, n)
    PROVE  /\ hints' = hints \cup {e.id} /\ RegistryInv' /\ Known(registry) \subseteq Known(registry')
           /\ SentSame(IF e.emitted \/ emitted THEN {e.id} ELSE {}) /\ OwedSame({e.id})
           /\ emitted /\ e.id \in Pending(registry') /\ ~registry'.row[e.id].emitted => faults' >= n + 1
           /\ faults' \in 0..MaxFault /\ faults' \in Nat /\ faults' >= faults
<1>1. PICK d : d = [e EXCEPT !.deferred = TRUE, !.emitted = e.emitted \/ emitted, !.failed = failed]
  OBVIOUS
<1>2. /\ d \in Event /\ d.id = e.id /\ ~d.whole /\ d.deferred
      /\ d.emitted <=> (e.emitted \/ emitted)
  BY <1>1 DEF Event
<1>3. hints' = hints \cup {e.id} /\ Written(Register(registry, d), n)
  BY <1>1 DEF Defer
<1>4. /\ registry' = registry \/ registry' = Register(registry, d)
      /\ registry' # Register(registry, d) => faults' = faults + n + 1
      /\ faults' <= MaxFault /\ (faults' = faults + n \/ faults' = faults + n + 1)
  BY <1>3 DEF Written
<1>5. faults' \in 0..MaxFault /\ faults' \in Nat /\ faults' >= faults /\ (faults' = faults + n + 1 => faults' >= n + 1)
  BY <1>4, BoundAssumption DEF DeliveryInv, DeliveryTypeOK
<1>6. /\ RegistryInv'
      /\ SentSame(IF d.emitted THEN {d.id} ELSE {}) /\ OwedSame({d.id})
      /\ Known(registry) \subseteq Known(registry')
      /\ (registry' = Register(registry, d) /\ d.deferred /\ d.emitted /\ d.id \in Pending(registry')) =>
             registry'.row[d.id].emitted
  BY <1>2, <1>4, WrittenEvent
<1> QED BY <1>2, <1>3, <1>4, <1>5, <1>6

LEMMA Finishes ==
    ASSUME DeliveryInv, NEW t \in Thread, handler[t].pc # "idle", Finish(t)
    PROVE  /\ OnlyHandler(t) /\ HandlerOK(t)' /\ handler'[t].pc \notin Working
           /\ \A f \in Todo(t)' : f \in Todo(t)
           /\ t = "consumer" => \A f \in Todo(t)' : f.id \in Own => f.id \in handler'[t].held
           /\ active' = active \ {Event1(t).id} /\ active' \subseteq Message
<1>1. NextEvent(t) /\ active' = active \ {Event1(t).id}
  BY DEF Finish
<1>2. /\ OnlyHandler(t) /\ handler'[t].pc \in {"idle", "claim"}
      /\ handler'[t].pc = "idle" <=> handler'[t].todo = <<>>
      /\ Range(handler'[t].todo) \subseteq Todo(t)
      /\ handler'[t].todo # <<>> => handler'[t].held = handler[t].held
  BY <1>1, GoesOn
<1>3. HandlerOK(t)' /\ handler'[t].pc \notin Working
  BY <1>2, RestsWell
<1>4. handler'[t].todo = <<>> => Todo(t)' = {}
  BY DEF Todo, Range
<1>5. \A f \in Todo(t)' : f \in Todo(t) /\ handler'[t].held = handler[t].held
  BY <1>2, <1>4 DEF Todo
<1>6. t = "consumer" => \A f \in Todo(t)' : f.id \in Own => f.id \in handler'[t].held
  BY <1>5 DEF DeliveryInv, HeldInv
<1>7. active' \subseteq Message
  BY <1>1 DEF DeliveryInv, DeliveryTypeOK
<1> QED BY <1>1, <1>2, <1>3, <1>5, <1>6, <1>7

\* A handler that stops at its event, deferring it.
LEMMA DeferringKeeps ==
    ASSUME DeliveryInv, NEW t \in Thread, handler[t].pc \in Working, NEW e, e = Event1(t),
           NEW emitted \in BOOLEAN, NEW failed \in BOOLEAN, NEW n \in {0, 1},
           Defer(e, emitted, failed, n), Finish(t), chatted' \subseteq Stop,
           UNCHANGED <<producer, older, bus, memory, sweep, landed>>,
           emitted /\ e.id \in Own => e.id \in landed,
           e.id \in memory => emitted /\ n = 1
    PROVE  DeliveryInv'
<1>0. PICK ids : ids = IF e.emitted \/ emitted THEN {e.id} ELSE {}
  OBVIOUS
<1>1. handler[t].pc # "idle" /\ ~e.whole
  BY DEF DeliveryInv, HandlerInv, HandlerOK, Working
<1>2. e \in Event /\ HonestEvent(e) /\ e.id \in Message
  BY <1>1, Current
<1>3. /\ hints' = hints \cup {e.id} /\ RegistryInv' /\ Known(registry) \subseteq Known(registry')
      /\ SentSame(ids) /\ OwedSame({e.id})
      /\ emitted /\ e.id \in Pending(registry') /\ ~registry'.row[e.id].emitted => faults' >= n + 1
      /\ faults' \in 0..MaxFault /\ faults' \in Nat /\ faults' >= faults
  BY <1>0, <1>1, <1>2, Defers
<1>4. /\ OnlyHandler(t) /\ HandlerOK(t)' /\ handler'[t].pc \notin Working
      /\ \A f \in Todo(t)' : f \in Todo(t)
      /\ t = "consumer" => \A f \in Todo(t)' : f.id \in Own => f.id \in handler'[t].held
      /\ active' = active \ {e.id} /\ active' \subseteq Message
  BY <1>1, Finishes
<1>5. /\ landed' \subseteq Message /\ InBus' = InBus /\ hints' \subseteq Message
      /\ memory' \subseteq Message /\ bus' \in Seq(Event)
  BY <1>2, <1>3 DEF DeliveryInv, DeliveryTypeOK, InBus
<1>6. \A m \in Own : m \in ids => m \in landed'
  BY <1>0, <1>2 DEF HonestEvent, Honest
<1>7. ids \subseteq {e.id} /\ active \ {e.id} \subseteq active'
  BY <1>0, <1>4
<1>8. UnrecordedInv'
  <2>1. e.id \in Own /\ Unrecorded(e.id)' => Excused(e.id)'
    <3> SUFFICES ASSUME e.id \in Own, Unrecorded(e.id)' PROVE Excused(e.id)'
      OBVIOUS
    <3>1. e.id \in memory /\ e.id \in Pending(registry') /\ ~registry'.row[e.id].emitted
      BY DEF Unrecorded
    <3>2. e.id \in hints' /\ faults' >= 2
      BY <1>3, <3>1
    <3> QED BY <3>2 DEF Excused
  <2>2. \A m \in Own : m \in memory' \ memory \/ m \in {e.id} \/ (m \in hints \ hints' /\ m \in Pending(registry'))
                       \/ (handler[t].pc \in {"retain", "receipt"} /\ Event1(t).id = m) => m = e.id
    BY <1>3
  <2> QED BY <1>3, <1>4, <2>1, <2>2, UnrecordedStays
<1> QED BY <1>3, <1>4, <1>5, <1>6, <1>7, <1>8, HandlerKeeps

LEMMA DispatchKeeps ==
    ASSUME DeliveryInv, NEW t \in Thread, Dispatch(t)
    PROVE  DeliveryInv'
<1>0. PICK e : e = Event1(t)
  OBVIOUS
<1>1. /\ handler[t].pc = "dispatch" /\ handler[t].pc \in Working
      /\ UNCHANGED <<chatted, producer, older, bus, memory, sweep, landed>>
  BY DEF Dispatch, At, Working
<1>2. e \in Event /\ HonestEvent(e) /\ e.id \in Message /\ e \in Todo(t)
  BY <1>0, <1>1, Current
<1>3. ~e.whole /\ ~e.emitted /\ Unsent(e.id) /\ e.id \in active
  BY <1>0, <1>1 DEF DeliveryInv, HandlerInv, HandlerOK
<1>4. /\ chatted' \subseteq Stop /\ landed' \subseteq Message /\ InBus' = InBus
      /\ memory' \subseteq Message /\ bus' \in Seq(Event)
  BY <1>1 DEF DeliveryInv, DeliveryTypeOK, InBus
<1>5. CASE /\ registry' = registry \/ (MayDispatch(registry, e.id) /\ registry' = [registry EXCEPT !.row[e.id].tries = @ + 1])
           /\ \/ Proceed(t, "transmit") /\ active' = active
              \/ Finish(t)
           /\ UNCHANGED <<hints, faults>>
  <2>1. RegistryInv' /\ SentSame({}) /\ OwedSame({}) /\ Known(registry') = Known(registry)
    BY <1>2, <1>5, SameRegistry, Dispatched
  <2>2. faults' \in 0..MaxFault /\ faults' \in Nat /\ faults' >= faults /\ hints' \subseteq Message
    BY <1>5, BoundAssumption DEF DeliveryInv, DeliveryTypeOK
  <2>3. Unsent(e.id)'
    <3>1. e.id \notin memory' \cup registry'.delivered
      BY <1>1, <1>3, <2>1 DEF Unsent, SentSame
    <3>2. e.id \in Own \cap Pending(registry') => ~registry'.row[e.id].emitted
      BY <1>3, <2>1 DEF Unsent, SentSame
    <3> QED BY <3>1, <3>2 DEF Unsent
  <2>4. /\ OnlyHandler(t) /\ HandlerOK(t)'
        /\ handler'[t].pc \in Working => Event1(t)'.id = e.id
        /\ \A f \in Todo(t)' : f \in Todo(t)
        /\ t = "consumer" => \A f \in Todo(t)' : f.id \in Own => f.id \in handler'[t].held
        /\ active \ {e.id} \subseteq active' /\ active' \subseteq Message
    <3>1. CASE Proceed(t, "transmit") /\ active' = active
      <4>1. /\ OnlyHandler(t) /\ handler'[t].pc = "transmit"
            /\ handler'[t].todo = handler[t].todo /\ handler'[t].held = handler[t].held
        BY <3>1, Proceeds DEF Working
      <4>2. Event1(t)' = e /\ Todo(t)' = Todo(t) /\ handler'[t].todo # <<>>
        BY <1>0, <1>1, <4>1, Current DEF Event1, Todo
      <4>3. HandlerOK(t)'
        BY <1>3, <2>3, <3>1, <4>1, <4>2 DEF HandlerOK
      <4>4. t = "consumer" => \A f \in Todo(t)' : f.id \in Own => f.id \in handler'[t].held
        BY <4>1, <4>2 DEF DeliveryInv, HeldInv
      <4> QED BY <3>1, <4>1, <4>2, <4>3, <4>4 DEF DeliveryInv, DeliveryTypeOK
    <3>2. CASE Finish(t)
      BY <1>0, <1>1, <3>2, Finishes
    <3> QED BY <1>5, <3>1, <3>2
  <2>5. UnrecordedInv'
    BY <1>1, <1>5, <2>1, <2>2, <2>4, UnrecordedStays
  <2> QED BY <1>0, <1>1, <1>4, <2>1, <2>2, <2>4, <2>5, HandlerKeeps
<1>6. CASE Defer(e, FALSE, FALSE, 1) /\ Finish(t)
  <2>1. e.id \notin memory
    BY <1>3 DEF Unsent
  <2> QED BY <1>0, <1>1, <1>4, <1>6, <2>1, DeferringKeeps
<1>7. \/ /\ registry' = registry \/ (MayDispatch(registry, e.id) /\ registry' = [registry EXCEPT !.row[e.id].tries = @ + 1])
         /\ \/ Proceed(t, "transmit") /\ active' = active
            \/ Finish(t)
         /\ UNCHANGED <<hints, faults>>
      \/ Defer(e, FALSE, FALSE, 1) /\ Finish(t)
  BY <1>0 DEF Dispatch
<1> QED BY <1>5, <1>6, <1>7

LEMMA TransmitKeeps ==
    ASSUME DeliveryInv, NEW t \in Thread, Transmit(t)
    PROVE  DeliveryInv'
<1>0. PICK e : e = Event1(t)
  OBVIOUS
<1>1. /\ handler[t].pc = "transmit" /\ handler[t].pc \in Working /\ Proceed(t, "retain")
      /\ landed' = landed \cup {e.id} /\ memory' = memory \cup {e.id}
      /\ UNCHANGED <<registry, chatted, producer, older, bus, active, hints, sweep, faults>>
  BY <1>0 DEF Transmit, At, Working, durable
<1>2. e \in Event /\ e.id \in Message /\ e \in Todo(t) /\ handler[t].todo # <<>>
  BY <1>0, <1>1, Current
<1>3. ~e.whole /\ e.id \in active
  BY <1>0, <1>1 DEF DeliveryInv, HandlerInv, HandlerOK
<1>4. RegistryInv' /\ SentSame({}) /\ OwedSame({}) /\ Known(registry') = Known(registry)
  BY <1>1, SameRegistry
<1>5. SentSame({e.id})
  BY <1>4 DEF SentSame
<1>6. /\ OnlyHandler(t) /\ handler'[t].pc = "retain"
      /\ handler'[t].todo = handler[t].todo /\ handler'[t].held = handler[t].held
  BY <1>1, Proceeds DEF Working
<1>7. Event1(t)' = e /\ Todo(t)' = Todo(t)
  BY <1>0, <1>6 DEF Event1, Todo
<1>8. HandlerOK(t)'
  BY <1>1, <1>2, <1>3, <1>6, <1>7 DEF HandlerOK
<1>9. t = "consumer" => \A f \in Todo(t)' : f.id \in Own => f.id \in handler'[t].held
  BY <1>6, <1>7 DEF DeliveryInv, HeldInv
<1>10. faults' \in 0..MaxFault /\ faults' \in Nat /\ faults' >= faults
  BY <1>1, BoundAssumption DEF DeliveryInv, DeliveryTypeOK
<1>11. UnrecordedInv'
  <2>1. Excused(e.id)'
    BY <1>6, <1>7 DEF Excused, At
  <2>2. \A m \in Own : m \in memory' \ memory \/ m \in {} \/ (m \in hints \ hints' /\ m \in Pending(registry'))
                       \/ (handler[t].pc \in {"retain", "receipt"} /\ Event1(t).id = m) => m = e.id
    BY <1>1
  <2> QED BY <1>4, <1>6, <1>10, <2>1, <2>2, UnrecordedStays
<1>12. /\ chatted' \subseteq Stop /\ landed' \subseteq Message /\ InBus' = InBus /\ hints' \subseteq Message
       /\ memory' \subseteq Message /\ bus' \in Seq(Event) /\ active' \subseteq Message
  BY <1>1, <1>2 DEF DeliveryInv, DeliveryTypeOK, InBus
<1> QED BY <1>0, <1>1, <1>4, <1>5, <1>6, <1>7, <1>8, <1>9, <1>10, <1>11, <1>12, HandlerKeeps

LEMMA RefuseKeeps ==
    ASSUME DeliveryInv, NEW t \in Thread, Refuse(t)
    PROVE  DeliveryInv'
<1>0. PICK e : e = Event1(t)
  OBVIOUS
<1>1. /\ handler[t].pc = "transmit" /\ handler[t].pc \in Working /\ Defer(e, FALSE, TRUE, 1) /\ Finish(t)
      /\ UNCHANGED <<chatted, producer, older, bus, memory, sweep, landed>>
  BY <1>0 DEF Refuse, At, Working
<1>2. e.id \notin memory
  BY <1>0, <1>1 DEF DeliveryInv, HandlerInv, HandlerOK, Unsent
<1>3. chatted' \subseteq Stop
  BY <1>1 DEF DeliveryInv, DeliveryTypeOK
<1> QED BY <1>0, <1>1, <1>2, <1>3, DeferringKeeps

LEMMA RetainKeeps ==
    ASSUME DeliveryInv, NEW t \in Thread, Retain(t)
    PROVE  DeliveryInv'
<1>0. PICK e : e = Event1(t)
  OBVIOUS
<1>1. /\ handler[t].pc = "retain" /\ handler[t].pc \in Working /\ Proceed(t, "receipt")
      /\ Defer(e, TRUE, FALSE, 0)
      /\ UNCHANGED <<chatted, producer, older, bus, active, memory, sweep, landed>>
  BY <1>0 DEF Retain, At, Working
<1>2. e \in Event /\ e.id \in Message /\ e \in Todo(t) /\ handler[t].todo # <<>>
  BY <1>0, <1>1, Current
<1>3. ~e.whole /\ e.id \in active /\ (e.id \in Own => e.id \in landed)
  BY <1>0, <1>1 DEF DeliveryInv, HandlerInv, HandlerOK
<1>4. /\ hints' = hints \cup {e.id} /\ RegistryInv' /\ Known(registry) \subseteq Known(registry')
      /\ SentSame({e.id}) /\ OwedSame({e.id})
      /\ e.id \in Pending(registry') /\ ~registry'.row[e.id].emitted => faults' >= 1
      /\ faults' \in 0..MaxFault /\ faults' \in Nat /\ faults' >= faults
  <2>1. /\ hints' = hints \cup {e.id} /\ RegistryInv' /\ Known(registry) \subseteq Known(registry')
        /\ SentSame(IF e.emitted \/ TRUE THEN {e.id} ELSE {}) /\ OwedSame({e.id})
        /\ TRUE /\ e.id \in Pending(registry') /\ ~registry'.row[e.id].emitted => faults' >= 0 + 1
        /\ faults' \in 0..MaxFault /\ faults' \in Nat /\ faults' >= faults
    BY <1>1, <1>2, <1>3, Defers
  <2> QED BY <2>1
<1>6. /\ OnlyHandler(t) /\ handler'[t].pc = "receipt"
      /\ handler'[t].todo = handler[t].todo /\ handler'[t].held = handler[t].held
  BY <1>1, Proceeds DEF Working
<1>7. Event1(t)' = e /\ Todo(t)' = Todo(t)
  BY <1>0, <1>6 DEF Event1, Todo
<1>8. HandlerOK(t)'
  BY <1>1, <1>2, <1>3, <1>6, <1>7 DEF HandlerOK
<1>9. t = "consumer" => \A f \in Todo(t)' : f.id \in Own => f.id \in handler'[t].held
  BY <1>6, <1>7 DEF DeliveryInv, HeldInv
<1>10. UnrecordedInv'
  <2>1. Unrecorded(e.id)' => Excused(e.id)'
    BY <1>4, <1>6, <1>7 DEF Unrecorded, Excused, At
  <2>2. \A m \in Own : m \in memory' \ memory \/ m \in {e.id} \/ (m \in hints \ hints' /\ m \in Pending(registry'))
                       \/ (handler[t].pc \in {"retain", "receipt"} /\ Event1(t).id = m) => m = e.id
    BY <1>0, <1>1, <1>4
  <2> QED BY <1>4, <1>6, <2>1, <2>2, UnrecordedStays
<1>11. /\ chatted' \subseteq Stop /\ landed' \subseteq Message /\ InBus' = InBus /\ hints' \subseteq Message
       /\ memory' \subseteq Message /\ bus' \in Seq(Event) /\ active' \subseteq Message
  BY <1>1, <1>2, <1>4 DEF DeliveryInv, DeliveryTypeOK, InBus
<1> QED BY <1>0, <1>1, <1>3, <1>4, <1>6, <1>7, <1>8, <1>9, <1>10, <1>11, HandlerKeeps

LEMMA ReceiptKeeps ==
    ASSUME DeliveryInv, NEW t \in Thread, Receipt(t)
    PROVE  DeliveryInv'
<1>0. PICK e : e = Event1(t)
  OBVIOUS
<1>1. /\ handler[t].pc \in {"receipt", "repair"} /\ handler[t].pc \in Working /\ handler[t].pc # "idle"
      /\ Finish(t) /\ chatted' \in {chatted, chatted \cup ({e.id} \cap Stop)}
      /\ UNCHANGED <<producer, older, bus, memory, sweep, landed>>
      /\ \/ registry' = Deliver(registry, e.id) /\ hints' = hints \ {e.id} /\ faults' = faults
         \/ At(t, "repair") /\ Defer(e, TRUE, e.failed, 1)
         \/ /\ At(t, "receipt") /\ faults < MaxFault /\ faults' = faults + 1
            /\ UNCHANGED <<registry, hints>>
  BY <1>0 DEF Receipt, At, Working
<1>2. e \in Event /\ e.id \in Message /\ e \in Todo(t) /\ e.failed \in BOOLEAN
  BY <1>0, <1>1, Current DEF Event
<1>3. e.id \in Own => e.id \in landed
  BY <1>0, <1>1 DEF DeliveryInv, HandlerInv, HandlerOK
<1>4. /\ chatted' \subseteq Stop /\ landed' \subseteq Message /\ InBus' = InBus
      /\ memory' \subseteq Message /\ bus' \in Seq(Event)
  BY <1>1 DEF DeliveryInv, DeliveryTypeOK, InBus
<1>5. /\ OnlyHandler(t) /\ HandlerOK(t)' /\ handler'[t].pc \notin Working
      /\ \A f \in Todo(t)' : f \in Todo(t)
      /\ t = "consumer" => \A f \in Todo(t)' : f.id \in Own => f.id \in handler'[t].held
      /\ active' = active \ {e.id} /\ active' \subseteq Message
  BY <1>0, <1>1, Finishes
<1>6. CASE registry' = Deliver(registry, e.id) /\ hints' = hints \ {e.id} /\ faults' = faults
  <2>1. /\ RegistryInv' /\ SentSame({e.id}) /\ OwedSame({e.id}) /\ e.id \notin Pending(registry')
        /\ Known(registry) \subseteq Known(registry')
    BY <1>2, <1>6, WrittenReceipt
  <2>2. faults' \in 0..MaxFault /\ faults' \in Nat /\ faults' >= faults /\ hints' \subseteq Message
    BY <1>6, BoundAssumption DEF DeliveryInv, DeliveryTypeOK
  <2>3. UnrecordedInv'
    <3>1. ~Unrecorded(e.id)'
      BY <2>1 DEF Unrecorded
    <3>2. \A m \in Own : m \in memory' \ memory \/ m \in {e.id} \/ (m \in hints \ hints' /\ m \in Pending(registry'))
                         \/ (handler[t].pc \in {"retain", "receipt"} /\ Event1(t).id = m) => m = e.id
      BY <1>0, <1>1, <1>6
    <3> QED BY <1>5, <2>1, <2>2, <3>1, <3>2, UnrecordedStays
  <2> QED BY <1>0, <1>1, <1>3, <1>4, <1>5, <2>1, <2>2, <2>3, HandlerKeeps
<1>7. CASE At(t, "repair") /\ Defer(e, TRUE, e.failed, 1)
  BY <1>0, <1>1, <1>2, <1>3, <1>4, <1>7, DeferringKeeps
<1>8. CASE At(t, "receipt") /\ faults < MaxFault /\ faults' = faults + 1 /\ UNCHANGED <<registry, hints>>
  <2>1. RegistryInv' /\ SentSame({}) /\ OwedSame({}) /\ Known(registry') = Known(registry)
    BY <1>8, SameRegistry
  <2>2. /\ faults \in Nat /\ faults' \in 0..MaxFault /\ faults' \in Nat /\ faults' >= faults
        /\ hints' \subseteq Message
    BY <1>8, BoundAssumption DEF DeliveryInv, DeliveryTypeOK
  <2>3. UnrecordedInv'
    <3>1. e.id \in Own /\ Unrecorded(e.id)' => Excused(e.id)'
      <4> SUFFICES ASSUME e.id \in Own, Unrecorded(e.id)' PROVE Excused(e.id)'
        OBVIOUS
      <4>1. Unrecorded(e.id)
        BY <1>1, <1>8 DEF Unrecorded
      <4>2. Excused(e.id)
        BY <4>1 DEF DeliveryInv, UnrecordedInv
      <4>3. ~\E u \in Thread : At(u, "retain") /\ Event1(u).id = e.id
        BY <1>0, <1>8 DEF DeliveryInv, UnsharedInv, At, Working
      <4>4. e.id \in hints /\ faults >= 1
        BY <2>2, <4>2, <4>3 DEF Excused
      <4>5. e.id \in hints' /\ faults' >= 2
        BY <1>8, <2>2, <4>4
      <4> QED BY <4>5 DEF Excused
    <3>2. \A m \in Own : m \in memory' \ memory \/ m \in {} \/ (m \in hints \ hints' /\ m \in Pending(registry'))
                         \/ (handler[t].pc \in {"retain", "receipt"} /\ Event1(t).id = m) => m = e.id
      BY <1>0, <1>1, <1>8
    <3> QED BY <1>5, <2>1, <2>2, <3>1, <3>2, UnrecordedStays
  <2>4. active \ {e.id} \subseteq active'
    BY <1>5
  <2> QED BY <1>0, <1>1, <1>4, <1>5, <2>1, <2>2, <2>3, <2>4, HandlerKeeps
<1> QED BY <1>1, <1>6, <1>7, <1>8

-----------------------------------------------------------------------------
(* The replay duty.                                                        *)

Swept1 == [id : Message, row : Row, phase : {"aged", "repair", "retry"}]

\* A step no handler takes.
LEMMA QuietKeeps ==
    ASSUME DeliveryInv, UNCHANGED <<chatted, producer, older, handler, active, memory, landed>>,
           RegistryInv', SentSame({}), OwedSame({}), Known(registry) \subseteq Known(registry'),
           bus' \in Seq(Event), \A e \in InBus' : e \in InBus \/ (HonestEvent(e)' /\ ~Nowhere(e.id)),
           sweep' \subseteq Swept1,
           \A x \in sweep' : /\ Honest(x.id, x.row.whole, x.row.emitted)'
                             /\ ~Nowhere(x.id) \/ x.id \in Known(registry'),
           hints' \subseteq Message,
           \A m \in Own : m \in hints /\ m \in Pending(registry) /\ m \in Pending(registry') => m \in hints',
           faults' \in 0..MaxFault, faults' >= faults
    PROVE  DeliveryInv'
<1>1. DeliveryTypeOK'
  BY DEF DeliveryInv, DeliveryTypeOK, RegistryInv, Good, Swept1
<1>2. LandedInv'
  BY LandedStays DEF DeliveryInv, LandedInv
<1>3. EventsInv'
  BY EventsStay DEF Todo
<1>4. HandlerInv' /\ UnsharedInv' /\ HeldInv'
  BY HandlersStay
<1>5. UnbornInv'
  <2> SUFFICES ASSUME NEW m \in Own, Nowhere(m) PROVE Nowhere(m)' \/ m \in Known(registry')
    BY UnbornStays
  <2> QED BY DEF Nowhere, Todo
<1>6. UnrecordedInv'
  <2>1. faults' \in Nat
    BY BoundAssumption
  <2> QED BY <2>1, ExcuseStays DEF UnrecordedInv
<1> QED BY <1>1, <1>2, <1>3, <1>4, <1>5, <1>6 DEF DeliveryInv

LEMMA SweepKeeps ==
    ASSUME DeliveryInv, NEW late \in BOOLEAN, Sweep(late)
    PROVE  DeliveryInv'
<1>0. PICK rows : rows = {[id |-> m, row |-> registry.row[m]] : m \in Pending(registry) \cap Pending(registry')}
                             \cup KeptSends(registry')
  OBVIOUS
<1>1. /\ UNCHANGED <<chatted, producer, older, bus, handler, active, memory, landed>>
      /\ sweep' \subseteq {[id |-> x.id, row |-> x.row, phase |-> Phase(x)] : x \in rows}
      /\ hints' = hints \cap {x.id : x \in rows}
  <2>1. PICK due \in SUBSET {x \in rows : Paced(x)} :
            sweep' = {[id |-> x.id, row |-> x.row, phase |-> Phase(x)] :
                          x \in (rows \ {y \in rows : Paced(y)}) \cup due}
    BY <1>0 DEF Sweep
  <2>2. \A y \in sweep' : \E x \in rows : y = [id |-> x.id, row |-> x.row, phase |-> Phase(x)]
    BY <2>1
  <2>3. sweep' \subseteq {[id |-> x.id, row |-> x.row, phase |-> Phase(x)] : x \in rows}
    BY <2>2
  <2> QED BY <1>0, <2>3 DEF Sweep
<1>2. \/ registry' = registry /\ faults' = faults
      \/ Proven(registry) # {} /\ Written(EvictOverCap(Supersede(registry, Proven(registry))), 0)
  BY DEF Sweep
<1>3. faults' \in 0..MaxFault /\ faults' >= faults
  BY <1>2, BoundAssumption DEF Written, DeliveryInv, DeliveryTypeOK
<1>4. RegistryInv' /\ SentSame({}) /\ OwedSame({}) /\ Known(registry) \subseteq Known(registry')
  BY <1>2, SameRegistry, Swept DEF Written
<1>5. LandedInv'
  BY <1>1, <1>4, LandedStays DEF DeliveryInv, LandedInv
<1>6. \A x \in rows : /\ x.id \in Message /\ x.row \in Row /\ x.id \in Known(registry')
                      /\ Honest(x.id, x.row.whole, x.row.emitted)'
  <2>1. ASSUME NEW m \in Pending(registry) \cap Pending(registry')
        PROVE  /\ m \in Message /\ registry.row[m] \in Row /\ m \in Known(registry')
               /\ Honest(m, registry.row[m].whole, registry.row[m].emitted) /\ landed' = landed
    <3>1. m \in Message /\ registry.row[m] \in Row
      BY DEF DeliveryInv, RegistryInv, Good, Registry, Pending, Range
    <3> QED BY <1>1, <3>1 DEF DeliveryInv, RegistryInv, LandedInv, RecordedWasSent, Good, BundlesKnown, Known, Honest
  <2>2. ASSUME NEW m \in (registry'.exhausted \cup registry'.superseded) \ registry'.delivered,
               registry'.row[m].emitted,
               NEW row, row = [NoRow EXCEPT !.deferred = TRUE, !.emitted = TRUE]
        PROVE  m \in Message /\ row \in Row /\ m \in Known(registry') /\ Honest(m, row.whole, row.emitted)'
    <3>1. m \in Message /\ m \in Known(registry')
      BY <1>4 DEF RegistryInv, Good, Registry, Known
    <3>2. row \in Row /\ ~row.whole
      <4>1. row = [deferred |-> TRUE, emitted |-> TRUE, failed |-> FALSE, whole |-> FALSE, tries |-> 0]
        BY <2>2 DEF NoRow
      <4>2. 0 \in 0..MaxReplays
        BY BoundAssumption
      <4> QED BY <4>1, <4>2 DEF Row
    <3>3. m \in Own => m \in landed'
      BY <1>5, <2>2 DEF LandedInv, RecordedWasSent
    <3> QED BY <3>1, <3>2, <3>3 DEF Honest
  <2> SUFFICES ASSUME NEW x \in rows
               PROVE  /\ x.id \in Message /\ x.row \in Row /\ x.id \in Known(registry')
                      /\ Honest(x.id, x.row.whole, x.row.emitted)'
    OBVIOUS
  <2>3. CASE \E m \in Pending(registry) \cap Pending(registry') : x = [id |-> m, row |-> registry.row[m]]
    <3>1. PICK m \in Pending(registry) \cap Pending(registry') : x = [id |-> m, row |-> registry.row[m]]
      BY <2>3
    <3> QED BY <2>1, <3>1 DEF Honest
  <2>4. CASE x \in KeptSends(registry')
    <3>1. PICK m \in (registry'.exhausted \cup registry'.superseded) \ registry'.delivered :
              /\ registry'.row[m].emitted
              /\ x = [id |-> m, row |-> [NoRow EXCEPT !.deferred = TRUE, !.emitted = TRUE]]
      BY <2>4 DEF KeptSends
    <3>2. PICK row : row = [NoRow EXCEPT !.deferred = TRUE, !.emitted = TRUE]
      OBVIOUS
    <3>3. x.id = m /\ x.row = row
      BY <3>1, <3>2
    <3> QED BY <2>2, <3>1, <3>2, <3>3
  <2> QED BY <1>0, <2>3, <2>4
<1>7. \A y \in sweep' : /\ y \in Swept1 /\ Honest(y.id, y.row.whole, y.row.emitted)'
                        /\ y.id \in Known(registry')
  <2> SUFFICES ASSUME NEW x \in rows, NEW phase, phase = Phase(x),
                      NEW y, y = [id |-> x.id, row |-> x.row, phase |-> phase]
               PROVE  /\ y \in Swept1 /\ Honest(y.id, y.row.whole, y.row.emitted)' /\ y.id \in Known(registry')
    BY <1>1
  <2>1. phase \in {"aged", "repair", "retry"}
    BY DEF Phase
  <2> QED BY <1>6, <2>1 DEF Swept1
<1>8. \A m \in Own : m \in hints /\ m \in Pending(registry) /\ m \in Pending(registry') => m \in hints'
  <2> SUFFICES ASSUME NEW m \in hints, m \in Pending(registry), m \in Pending(registry') PROVE m \in hints'
    OBVIOUS
  <2>1. [id |-> m, row |-> registry.row[m]] \in rows
    BY <1>0
  <2>2. m \in {x.id : x \in rows}
    BY <2>1
  <2> QED BY <1>1, <2>2
<1>9. bus' \in Seq(Event) /\ InBus' = InBus /\ hints' \subseteq Message
  BY <1>1 DEF DeliveryInv, DeliveryTypeOK, InBus
<1> QED BY <1>1, <1>3, <1>4, <1>7, <1>8, <1>9, QuietKeeps

LEMMA LeaveRowKeeps ==
    ASSUME DeliveryInv, NEW x \in sweep, LeaveRow(x)
    PROVE  DeliveryInv'
<1>0. PICK y : y = [x EXCEPT !.phase = "aged"]
  OBVIOUS
<1>1. /\ UNCHANGED <<registry, chatted, producer, older, bus, handler, active, memory, hints, landed, faults>>
      /\ sweep' \subseteq sweep \cup {y}
  BY <1>0 DEF LeaveRow, durable, Drop
<1>2. sweep \subseteq Swept1 /\ x \in Swept1
  BY DEF DeliveryInv, DeliveryTypeOK, Swept1
<1>3. y \in Swept1 /\ y.id = x.id /\ y.row = x.row
  BY <1>0, <1>2 DEF Swept1
<1>4. RegistryInv' /\ SentSame({}) /\ OwedSame({}) /\ Known(registry') = Known(registry)
  BY <1>1, SameRegistry
<1>5. \A z \in sweep' : Honest(z.id, z.row.whole, z.row.emitted)' /\ ~Nowhere(z.id)
  BY <1>1, <1>3 DEF DeliveryInv, EventsInv, Honest, Nowhere
<1>6. faults' \in 0..MaxFault /\ faults' >= faults
  BY <1>1, BoundAssumption DEF DeliveryInv, DeliveryTypeOK
<1>7. bus' \in Seq(Event) /\ InBus' = InBus /\ hints' \subseteq Message
  BY <1>1 DEF DeliveryInv, DeliveryTypeOK, InBus
<1> QED BY <1>1, <1>2, <1>3, <1>4, <1>5, <1>6, <1>7, QuietKeeps

LEMMA RetireRowKeeps ==
    ASSUME DeliveryInv, NEW x \in sweep, RetireRow(x)
    PROVE  DeliveryInv'
<1>1. /\ UNCHANGED <<chatted, producer, older, bus, handler, active, memory, hints, landed>>
      /\ sweep' \subseteq sweep /\ Written(Retire(registry, x.id), 0)
  BY DEF RetireRow, Drop
<1>2. sweep \subseteq Swept1 /\ x.id \in Message
  BY DEF DeliveryInv, DeliveryTypeOK, Swept1
<1>3. registry' = registry \/ registry' = Retire(registry, x.id)
  BY <1>1 DEF Written
<1>4. RegistryInv' /\ SentSame({}) /\ OwedSame({}) /\ Known(registry') = Known(registry)
  BY <1>2, <1>3, Retired
<1>5. \A z \in sweep' : Honest(z.id, z.row.whole, z.row.emitted)' /\ ~Nowhere(z.id)
  BY <1>1 DEF DeliveryInv, EventsInv, Honest, Nowhere
<1>6. faults' \in 0..MaxFault /\ faults' >= faults
  BY <1>1, BoundAssumption DEF Written, DeliveryInv, DeliveryTypeOK
<1>7. bus' \in Seq(Event) /\ InBus' = InBus /\ hints' \subseteq Message
  BY <1>1 DEF DeliveryInv, DeliveryTypeOK, InBus
<1> QED BY <1>1, <1>2, <1>4, <1>5, <1>6, <1>7, QuietKeeps

\* The event of a row says what the row says.
LEMMA RowEvents ==
    ASSUME DeliveryInv, NEW x \in sweep
    PROVE  /\ RowEvent(x.id, x.row) \in Event /\ RowEvent(x.id, x.row).id = x.id
           /\ RowEvent(x.id, x.row).whole = x.row.whole /\ RowEvent(x.id, x.row).emitted = x.row.emitted
<1>1. x.id \in Message /\ x.row \in Row
  BY DEF DeliveryInv, DeliveryTypeOK
<1> QED BY <1>1 DEF RowEvent, Event, Row

LEMMA ContinueRowKeeps ==
    ASSUME DeliveryInv, NEW x \in sweep, ContinueRow(x)
    PROVE  DeliveryInv'
<1>0. PICK e : e = [RowEvent(x.id, x.row) EXCEPT !.deferred = TRUE]
  OBVIOUS
<1> DEFINE t == "duty"
<1>1. /\ UNCHANGED <<registry, chatted, producer, older, bus, active, memory, hints, landed, faults>>
      /\ sweep' \subseteq sweep /\ Begin(t, e, {}) /\ handler[t].pc = "idle" /\ t \in Thread
      /\ handler[t].pc \notin Working
  BY <1>0 DEF ContinueRow, IsNext, Idle, Drop, durable, Thread, Working
<1>2. e \in Event /\ e.id = x.id /\ e.whole = x.row.whole /\ e.emitted = x.row.emitted
  BY <1>0, RowEvents DEF Event
<1>3. HonestEvent(e)' /\ ~Nowhere(e.id)
  BY <1>1, <1>2 DEF DeliveryInv, EventsInv, HonestEvent, Honest, Nowhere
<1>4. t # "consumer"
  OBVIOUS
<1> HIDE DEF t
<1>5. /\ OnlyHandler(t) /\ handler'[t].pc = "claim" /\ handler'[t].todo # <<>>
      /\ Range(handler'[t].todo) = {e} /\ handler'[t].held = {}
  <2>1. {} \in SUBSET Message
    OBVIOUS
  <2> QED BY <1>1, <1>2, <2>1, Begins
<1>6. RegistryInv' /\ SentSame({}) /\ OwedSame({}) /\ Known(registry') = Known(registry)
  BY <1>1, SameRegistry
<1>7. HandlerOK(t)' /\ handler'[t].pc \notin Working
  BY <1>1, <1>5, RestsWell
<1>9. Todo(t)' = {e}
  BY <1>5 DEF Todo
<1>10. faults' \in 0..MaxFault /\ faults' \in Nat /\ faults' >= faults
  BY <1>1, BoundAssumption DEF DeliveryInv, DeliveryTypeOK
<1>11. UnrecordedInv'
  BY <1>1, <1>5, <1>6, <1>10, UnrecordedStays
<1>12. /\ chatted' \subseteq Stop /\ landed' \subseteq Message /\ active' \subseteq Message
       /\ hints' \subseteq Message /\ memory' \subseteq Message /\ bus' \in Seq(Event) /\ InBus' = InBus
  BY <1>1 DEF DeliveryInv, DeliveryTypeOK, InBus
<1> QED BY <1>1, <1>3, <1>4, <1>5, <1>6, <1>7, <1>9, <1>10, <1>11, <1>12, HandlerKeeps

LEMMA ReplayRowKeeps ==
    ASSUME DeliveryInv, NEW x \in sweep, ReplayRow(x)
    PROVE  DeliveryInv'
<1>0. PICK e : e = RowEvent(x.id, x.row)
  OBVIOUS
<1>1. /\ UNCHANGED <<registry, chatted, producer, older, handler, active, memory, hints, landed, faults>>
      /\ sweep' \subseteq sweep /\ (bus' = bus \/ bus' = Append(bus, e))
  BY <1>0 DEF ReplayRow, Drop, durable
<1>2. e \in Event /\ e.id = x.id /\ e.whole = x.row.whole /\ e.emitted = x.row.emitted
  BY <1>0, RowEvents
<1>3. HonestEvent(e)' /\ ~Nowhere(e.id)
  BY <1>1, <1>2 DEF DeliveryInv, EventsInv, HonestEvent, Honest, Nowhere
<1>4. RegistryInv' /\ SentSame({}) /\ OwedSame({}) /\ Known(registry') = Known(registry)
  BY <1>1, SameRegistry
<1>5. \A z \in sweep' : Honest(z.id, z.row.whole, z.row.emitted)' /\ ~Nowhere(z.id)
  BY <1>1 DEF DeliveryInv, EventsInv, Honest, Nowhere
<1>6. faults' \in 0..MaxFault /\ faults' >= faults
  BY <1>1, BoundAssumption DEF DeliveryInv, DeliveryTypeOK
<1>7. bus \in Seq(Event) /\ sweep \subseteq Swept1 /\ hints' \subseteq Message
  BY <1>1 DEF DeliveryInv, DeliveryTypeOK, Swept1
<1>8. bus' \in Seq(Event) /\ \A f \in InBus' : f \in InBus \/ f = e
  <2>1. Append(bus, e) \in Seq(Event) /\ Range(Append(bus, e)) = Range(bus) \cup {e}
    BY <1>2, <1>7, Ranges
  <2> QED BY <1>1, <1>7, <2>1 DEF InBus
<1> QED BY <1>1, <1>3, <1>4, <1>5, <1>6, <1>7, <1>8, QuietKeeps

-----------------------------------------------------------------------------
(* The invariant.                                                          *)

\* The handlers and the bus as a new process has them.
LEMMA FreshHandlers ==
    ASSUME NEW h, h = [t \in Thread |-> [pc |-> "idle", todo |-> <<>>, held |-> {}]]
    PROVE  /\ h \in [Thread -> Task] /\ <<>> \in Seq(Event) /\ Range(<<>>) = {}
           /\ \A t \in Thread : h[t].pc = "idle" /\ h[t].todo = <<>> /\ h[t].held = {}
<1>1. <<>> \in Seq(Event) /\ Range(<<>>) = {}
  BY DEF Range
<1>2. [pc |-> "idle", todo |-> <<>>, held |-> {}] \in Task
  BY DEF Task
<1> QED BY <1>1, <1>2

LEMMA CrashKeeps ==
    ASSUME DeliveryInv, Crash
    PROVE  DeliveryInv'
<1>1. /\ bus' = <<>> /\ active' = {} /\ memory' = {} /\ hints' = {} /\ sweep' = {}
      /\ handler' = [t \in Thread |-> [pc |-> "idle", todo |-> <<>>, held |-> {}]]
      /\ producer' = [m \in Message |-> IF m \in Own \ Stop /\ producer[m] # "new" THEN "done" ELSE producer[m]]
      /\ faults' = faults + 1 /\ faults < MaxFault
      /\ UNCHANGED <<registry, chatted, older, landed>>
  BY DEF Crash, durable
<1>2. /\ handler' \in [Thread -> Task] /\ <<>> \in Seq(Event) /\ Range(<<>>) = {}
      /\ \A t \in Thread : handler'[t].pc = "idle" /\ handler'[t].todo = <<>> /\ handler'[t].held = {}
  BY <1>1, FreshHandlers
<1>3. RegistryInv' /\ SentSame({})
  BY <1>1, SameRegistry
<1>4. DeliveryTypeOK'
  <2>1. producer' \in [Message -> {"new", "asked", "owed", "put", "done"}]
    BY <1>1 DEF DeliveryInv, DeliveryTypeOK
  <2>2. faults' \in 0..MaxFault
    BY <1>1, BoundAssumption DEF DeliveryInv, DeliveryTypeOK
  <2> QED BY <1>1, <1>2, <1>3, <2>1, <2>2 DEF DeliveryInv, DeliveryTypeOK, Task
<1>5. InBus' = {} /\ \A t \in Thread : Todo(t)' = {}
  BY <1>1, <1>2 DEF InBus, Todo
<1>6. LandedInv'
  BY <1>1, <1>3, LandedStays DEF DeliveryInv, LandedInv
<1>7. EventsInv' /\ HeldInv'
  BY <1>1, <1>5 DEF EventsInv, HeldInv, Thread
<1>8. HandlerInv' /\ UnsharedInv'
  BY <1>2 DEF HandlerInv, HandlerOK, UnsharedInv, Working
<1>9. UnbornInv' /\ UnrecordedInv'
  BY <1>1, <1>5 DEF UnbornInv, UnrecordedInv, Unrecorded, Nowhere
<1> QED BY <1>3, <1>4, <1>6, <1>7, <1>8, <1>9 DEF DeliveryInv

LEMMA DeliveryInit == Init => DeliveryInv
<1> SUFFICES ASSUME Init PROVE DeliveryInv
  OBVIOUS
<1>1. /\ registry = [owed |-> <<>>, delivered |-> {}, exhausted |-> {}, superseded |-> {},
                     row |-> [m \in Message |-> NoRow]]
      /\ chatted = {} /\ older = {}
      /\ producer = [m \in Message |-> IF m \in Own THEN "new" ELSE "done"]
      /\ bus = <<>> /\ active = {} /\ memory = {} /\ hints = {}
      /\ handler = [t \in Thread |-> [pc |-> "idle", todo |-> <<>>, held |-> {}]]
      /\ sweep = {} /\ landed = {} /\ faults = 0
  BY DEF Init
<1>2. /\ handler \in [Thread -> Task] /\ <<>> \in Seq(Event) /\ Range(<<>>) = {}
      /\ \A t \in Thread : handler[t].pc = "idle" /\ handler[t].todo = <<>> /\ handler[t].held = {}
  BY <1>1, FreshHandlers
<1>3. NoRow \in Row /\ ~NoRow.whole /\ ~NoRow.emitted
  BY BoundAssumption DEF NoRow, Row
<1>4. /\ registry.owed = <<>> /\ registry.delivered = {} /\ registry.exhausted = {}
      /\ registry.superseded = {} /\ Pending(registry) = {} /\ Known(registry) = {}
      /\ \A m \in Message : registry.row[m] = NoRow
  BY <1>1, <1>2 DEF Pending, Known
<1>5. registry \in Registry
  <2>1. <<>> \in Seq(Message) /\ [m \in Message |-> NoRow] \in [Message -> Row]
    BY <1>3
  <2> QED BY <1>1, <2>1 DEF Registry
<1>6. RegistryInv
  <2>1. Sound(registry)
    BY <1>4 DEF Sound, Distinct
  <2>2. Len(registry.owed) <= PendingCap
    BY <1>4, BoundAssumption
  <2>3. BundlesKnown(registry) /\ ReplacedNoticeLeavesItsFact
    BY <1>3, <1>4 DEF BundlesKnown, ReplacedNoticeLeavesItsFact
  <2> QED BY <1>5, <2>1, <2>2, <2>3 DEF RegistryInv, Good
<1>7. DeliveryTypeOK
  <2>1. 0 \in 0..MaxFault
    BY BoundAssumption
  <2> QED BY <1>1, <1>2, <1>5, <2>1 DEF DeliveryTypeOK, Task
<1>8. LandedInv
  BY <1>1, <1>3, <1>4, OwnIsNoFact DEF LandedInv, RecordedWasSent
<1>9. InBus = {} /\ \A t \in Thread : Todo(t) = {}
  BY <1>1, <1>2 DEF InBus, Todo
<1>10. EventsInv /\ HeldInv
  BY <1>1, <1>9 DEF EventsInv, HeldInv, Thread
<1>11. HandlerInv /\ UnsharedInv
  BY <1>2 DEF HandlerInv, HandlerOK, UnsharedInv, Working
<1>12. UnbornInv /\ UnrecordedInv
  BY <1>1, <1>9 DEF UnbornInv, UnrecordedInv, Unrecorded, Nowhere
<1> QED BY <1>6, <1>7, <1>8, <1>10, <1>11, <1>12 DEF DeliveryInv

LEMMA DeliveryStep == DeliveryInv /\ [Next]_vars => DeliveryInv'
<1> SUFFICES ASSUME DeliveryInv, [Next]_vars PROVE DeliveryInv'
  OBVIOUS
<1>1. CASE \E m \in Message : Produce(m)
  BY <1>1, OweKeeps, RequestStopKeeps, PutAnswerKeeps, EnqueueStopKeeps, WithdrawStopKeeps DEF Produce
<1>2. CASE Take
  BY <1>2, TakeKeeps
<1>3. CASE \E t \in Thread : Handle(t)
  BY <1>3, SplitKeeps, ClaimKeeps, DispatchKeeps, TransmitKeeps, RefuseKeeps, RetainKeeps, ReceiptKeeps DEF Handle
<1>4. CASE Sweep(FALSE)
  BY <1>4, SweepKeeps
<1>5. CASE \E x \in sweep : SweepRow(x)
  BY <1>5, LeaveRowKeeps, RetireRowKeeps, ContinueRowKeeps, ReplayRowKeeps DEF SweepRow
<1>6. CASE Crash
  BY <1>6, CrashKeeps
<1>7. CASE UNCHANGED vars
  <2>1. UNCHANGED <<registry, chatted, producer, older, bus, handler, active, memory, hints, sweep, landed, faults>>
    BY <1>7 DEF vars, durable, volatile
  <2>2. RegistryInv' /\ SentSame({}) /\ OwedSame({}) /\ Known(registry') = Known(registry)
    BY <2>1, SameRegistry
  <2>3. \A x \in sweep' : Honest(x.id, x.row.whole, x.row.emitted)' /\ ~Nowhere(x.id)
    BY <2>1 DEF DeliveryInv, EventsInv, Honest, Nowhere
  <2>4. /\ bus' \in Seq(Event) /\ InBus' = InBus /\ sweep' \subseteq Swept1 /\ hints' \subseteq Message
        /\ faults' \in 0..MaxFault /\ faults' >= faults
    BY <2>1, BoundAssumption DEF DeliveryInv, DeliveryTypeOK, InBus, Swept1
  <2> QED BY <2>1, <2>2, <2>3, <2>4, QuietKeeps
<1> QED BY <1>1, <1>2, <1>3, <1>4, <1>5, <1>6, <1>7 DEF Next

\* The outbox, its handlers and its duty keep the invariant, with any messages and bounds.
THEOREM DeliveryInvariant == Spec => []DeliveryInv
BY DeliveryInit, DeliveryStep, PTL DEF Spec

-----------------------------------------------------------------------------
(* The properties.                                                         *)

LEMMA DeliverySafety ==
    DeliveryInv => /\ DeliveryTypeOK /\ OneDisposition /\ OutboxBounded /\ SentOnce
                   /\ RecordedWasSent /\ ReplacedNoticeLeavesItsFact
<1> SUFFICES ASSUME DeliveryInv
             PROVE  /\ DeliveryTypeOK /\ OneDisposition /\ OutboxBounded /\ SentOnce
                    /\ RecordedWasSent /\ ReplacedNoticeLeavesItsFact
  OBVIOUS
<1>1. OneDisposition /\ OutboxBounded
  BY DEF DeliveryInv, RegistryInv, Good, Sound, Distinct, OneDisposition, OutboxBounded
<1>2. SentOnce
  BY DEF DeliveryInv, HandlerInv, HandlerOK, Unsent, SentOnce, At
<1> QED BY <1>1, <1>2 DEF DeliveryInv, RegistryInv, LandedInv

\* Every variable keeps its type.
THEOREM DeliveryTypes == Spec => []DeliveryTypeOK
BY DeliveryInvariant, DeliverySafety, PTL

\* Copies, replays, evictions and receipts never give a message two fates (_mutate of each
\* writer).
THEOREM DispositionIsOne == Spec => []OneDisposition
BY DeliveryInvariant, DeliverySafety, PTL

\* No write leaves the outbox beyond its cap, not even the one that owes the facts of what it
\* replaced (_evict_over_cap).
THEOREM OutboxIsBounded == Spec => []OutboxBounded
BY DeliveryInvariant, DeliverySafety, PTL

\* Two threads, copies on the bus and replays never send what is known to be sent
\* (_handle_send_message, _ACTIVE_DELIVERIES).
THEOREM SendsOnce == Spec => []SentOnce
BY DeliveryInvariant, DeliverySafety, PTL

\* No receipt and no retained send without a send that returned (register_delivery).
THEOREM RecordsWereSent == Spec => []RecordedWasSent
BY DeliveryInvariant, DeliverySafety, PTL

\* A replaced notice leaves a Stop receipt that was delivered, and its fact accounted for
\* (_supersede).
THEOREM ReplacedLeaveTheirFacts == Spec => []ReplacedNoticeLeavesItsFact
BY DeliveryInvariant, DeliverySafety, PTL

\* A message given up was not sent by this process, as far as any write that succeeded could
\* tell (_retire_exhausted after delivery_outstanding).
THEOREM GivesUpUnsent == Spec => GivenUpUnsent
<1> DEFINE Unsent1 == \A x \in sweep : RetireRow(x) /\ x.id \in Own /\ x.id \in Pending(registry) \ Pending(registry')
                          => x.id \notin memory \/ (x.id \in hints /\ faults >= 2)
<1>1. DeliveryInv => Unsent1
  <2> SUFFICES ASSUME DeliveryInv, NEW x \in sweep, RetireRow(x), x.id \in Own,
                      x.id \in Pending(registry) \ Pending(registry'), x.id \in memory
               PROVE  x.id \in hints /\ faults >= 2
    OBVIOUS
  <2>1. registry' = registry \/ registry' = Retire(registry, x.id)
    BY DEF RetireRow, Written
  <2>2. x.id \in Message /\ x.phase \in {"aged", "repair", "retry"}
    BY DEF DeliveryInv, DeliveryTypeOK
  <2>3. ~registry.row[x.id].emitted
    BY <2>1, <2>2, Retired
  <2>4. Excused(x.id)
    BY <2>3 DEF Unrecorded, DeliveryInv, UnrecordedInv
  <2>5. ASSUME NEW t \in Thread, handler[t].pc \in {"retain", "receipt"} PROVE Event1(t).id # x.id
    <3>1. t = "consumer"
      BY <2>5 DEF RetireRow, IsNext, Idle, Thread
    <3>2. Event1(t) \in Todo(t)
      BY <2>5, Current
    <3>3. x.id \notin handler["consumer"].held
      BY DEF RetireRow, Busy, Outstanding
    <3> QED BY <3>1, <3>2, <3>3 DEF DeliveryInv, HeldInv
  <2> QED BY <2>4, <2>5 DEF Excused, At
<1>2. DeliveryInv /\ [Next]_vars => [Unsent1]_vars
  BY <1>1
<1> HIDE DEF Unsent1
<1>3. Spec => [][Unsent1]_vars
  BY <1>2, DeliveryInvariant, PTL DEF Spec
<1> QED BY <1>3 DEF GivenUpUnsent, Unsent1

-----------------------------------------------------------------------------
(* The outbox implements OwedMessages.                                     *)

\* What a registry says has become of m.
Debt(r, m) ==
    IF m \in r.delivered THEN "delivered"
    ELSE IF m \in Pending(r) THEN "owed"
    ELSE IF m \in r.exhausted THEN "given up"
    ELSE IF m \in r.superseded THEN "replaced"
    ELSE "none"

\* The debts a write may move: it may reach one message and replace notices for it, withdraw
\* a Stop receipt, give up what was owed and open new debts.
Moves(r, q, reached, replaced, withdrawn) ==
    /\ \A m, k \in reached : m = k
    /\ replaced \subseteq (Pending(r) \cap Notice) \ reached
    /\ replaced # {} => q.delivered \cap Stop # {}
    /\ withdrawn \subseteq Stop
    /\ q.delivered = r.delivered \cup reached
    /\ q.superseded = (r.superseded \cup replaced) \ reached
    /\ r.exhausted \ reached \subseteq q.exhausted
    /\ Known(r) \ withdrawn \subseteq Known(q)

\* What OwedMessages lets a write do to the debt of m.
Promised(r, q, m) ==
    \/ Debt(q, m) = Debt(r, m)
    \/ Debt(r, m) = "none" /\ Debt(q, m) \in {"owed", "given up"}
    \/ Debt(r, m) # "delivered" /\ Debt(q, m) = "delivered"
    \/ Debt(r, m) = "owed" /\ Debt(q, m) = "given up"
    \/ m \in Stop /\ Debt(r, m) = "owed" /\ Debt(q, m) = "none"
    \/ /\ m \in Notice /\ Debt(r, m) = "owed" /\ Debt(q, m) = "replaced"
       /\ \E s \in Stop : Debt(q, s) = "delivered"

LEMMA DebtsMove ==
    ASSUME NEW r, NEW q, Good(r), Good(q), NEW reached, NEW replaced, NEW withdrawn,
           Moves(r, q, reached, replaced, withdrawn), NEW m \in Message
    PROVE  Promised(r, q, m)
<1>1. CASE m \in reached
  BY <1>1 DEF Moves, Debt, Promised
<1>2. CASE m \in replaced
  <2>1. Debt(r, m) = "owed" /\ Debt(q, m) = "replaced" /\ m \in Notice
    BY <1>2 DEF Moves, Debt, Good, Sound
  <2>2. \E s \in Stop : Debt(q, s) = "delivered"
    BY <1>2 DEF Moves, Debt
  <2> QED BY <2>1, <2>2 DEF Promised
<1>3. CASE m \notin reached /\ m \notin replaced
  <2>1. /\ m \in q.delivered <=> m \in r.delivered
        /\ m \in q.superseded <=> m \in r.superseded
        /\ m \in r.exhausted => m \in q.exhausted
        /\ m \in Pending(r) /\ m \notin Stop => m \in Known(q)
    BY <1>3 DEF Moves, Known
  <2>2. CASE m \in r.delivered
    BY <2>1, <2>2 DEF Debt, Promised
  <2>3. CASE m \in Pending(r)
    BY <2>1, <2>3 DEF Debt, Promised, Good, Sound, Known
  <2>4. CASE m \in r.exhausted
    BY <2>1, <2>4 DEF Debt, Promised, Good, Sound
  <2>5. CASE m \in r.superseded
    BY <2>1, <2>5 DEF Debt, Promised, Good, Sound
  <2>6. CASE m \notin Known(r)
    BY <2>1, <2>6 DEF Debt, Promised, Known
  <2> QED BY <2>2, <2>3, <2>4, <2>5, <2>6 DEF Known
<1> QED BY <1>1, <1>2, <1>3

\* Only the messages a write reaches become delivered by it.
LEMMA ReachesOne ==
    ASSUME NEW r, NEW q, NEW reached, NEW replaced, NEW withdrawn, Moves(r, q, reached, replaced, withdrawn),
           NEW m, Debt(r, m) # "delivered", Debt(q, m) = "delivered"
    PROVE  m \in reached
BY DEF Moves, Debt

\* What each step does to the registry.
RegistryStep ==
    \/ registry' = registry
    \/ \E e \in Event : (e.whole => e.id \in DOMAIN Carries) /\ registry' = Register(registry, e)
    \/ \E m \in Stop : registry' = Withdraw(registry, m)
    \/ \E m \in Message : registry' = Deliver(registry, m)
    \/ \E m \in Message : registry' = Retire(registry, m)
    \/ Proven(registry) # {} /\ registry' = EvictOverCap(Supersede(registry, Proven(registry)))
    \/ \E m \in Message : MayDispatch(registry, m) /\ registry' = [registry EXCEPT !.row[m].tries = @ + 1]

LEMMA RegistryMoves ==
    ASSUME DeliveryInv, RegistryStep
    PROVE  \E reached, replaced, withdrawn : Moves(registry, registry', reached, replaced, withdrawn)
<1>0. Good(registry) /\ chatted \subseteq Stop
  BY DEF DeliveryInv, RegistryInv, DeliveryTypeOK
<1>1. CASE registry' = registry
  <2>1. Moves(registry, registry', {}, {}, {})
    BY <1>1 DEF Moves
  <2> QED BY <2>1
<1>2. CASE \E e \in Event : (e.whole => e.id \in DOMAIN Carries) /\ registry' = Register(registry, e)
  <2>1. PICK e \in Event : (e.whole => e.id \in DOMAIN Carries) /\ registry' = Register(registry, e)
    BY <1>2
  <2>2. /\ registry'.delivered = registry.delivered /\ registry'.superseded = registry.superseded
        /\ registry.exhausted \subseteq registry'.exhausted
        /\ Known(registry') = Known(registry) \cup {e.id}
    BY <1>0, <2>1, Registers
  <2>3. Moves(registry, registry', {}, {}, {})
    BY <2>2 DEF Moves
  <2> QED BY <2>3
<1>3. CASE \E m \in Stop : registry' = Withdraw(registry, m)
  <2>1. PICK m \in Stop : registry' = Withdraw(registry, m)
    BY <1>3
  <2>2. /\ Pending(registry') = Pending(registry) \ {m} /\ registry'.exhausted = registry.exhausted
        /\ registry'.delivered = registry.delivered /\ registry'.superseded = registry.superseded
    BY <1>0, <2>1, Withdraws, MessageAssumption
  <2>3. Moves(registry, registry', {}, {}, {m})
    BY <2>2 DEF Moves, Known
  <2> QED BY <2>3
<1>4. CASE \E m \in Message : registry' = Deliver(registry, m)
  <2>1. PICK m \in Message : registry' = Deliver(registry, m)
    BY <1>4
  <2>2. /\ Replaced(registry, m) \subseteq (Pending(registry) \cap Notice) \ {m}
        /\ m \in Stop \/ Replaced(registry, m) = {}
        /\ registry'.delivered = registry.delivered \cup {m}
        /\ registry'.superseded = (registry.superseded \cup Replaced(registry, m)) \ {m}
        /\ registry.exhausted \ {m} \subseteq registry'.exhausted
        /\ Known(registry) \cup {m} \subseteq Known(registry')
    BY <1>0, <2>1, Delivers
  <2>3. Moves(registry, registry', {m}, Replaced(registry, m), {})
    BY <2>2 DEF Moves
  <2> QED BY <2>3
<1>5. CASE \E m \in Message : registry' = Retire(registry, m)
  <2>1. PICK m \in Message : registry' = Retire(registry, m)
    BY <1>5
  <2>2. /\ registry'.delivered = registry.delivered /\ registry'.superseded = registry.superseded
        /\ \/ registry' = registry
           \/ /\ Pending(registry') = Pending(registry) \ {m}
              /\ registry'.exhausted = registry.exhausted \cup {m}
    BY <1>0, <2>1, Retires
  <2>3. Moves(registry, registry', {}, {}, {})
    BY <2>2 DEF Moves, Known
  <2> QED BY <2>3
<1>6. CASE Proven(registry) # {} /\ registry' = EvictOverCap(Supersede(registry, Proven(registry)))
  <2>1. /\ Proven(registry) \in SUBSET Pending(registry) /\ Proven(registry) \subseteq Notice
        /\ registry.delivered \cap Stop # {}
    BY <1>0, <1>6 DEF Proven, Replaceable
  <2>2. /\ registry'.delivered = registry.delivered
        /\ registry'.superseded = registry.superseded \cup Proven(registry)
        /\ registry.exhausted \subseteq registry'.exhausted
        /\ Known(registry) \subseteq Known(registry')
    BY <1>0, <1>6, <2>1, Replaces DEF Good
  <2>3. Moves(registry, registry', {}, Proven(registry), {})
    BY <2>1, <2>2 DEF Moves
  <2> QED BY <2>3
<1>7. CASE \E m \in Message : MayDispatch(registry, m) /\ registry' = [registry EXCEPT !.row[m].tries = @ + 1]
  <2>1. PICK m \in Message : registry' = [registry EXCEPT !.row[m].tries = @ + 1]
    BY <1>7
  <2>2. /\ registry'.owed = registry.owed /\ registry'.delivered = registry.delivered
        /\ registry'.exhausted = registry.exhausted /\ registry'.superseded = registry.superseded
    BY <1>0, <2>1 DEF Good, Registry
  <2>3. Moves(registry, registry', {}, {}, {})
    BY <2>2 DEF Moves, Known, Pending
  <2> QED BY <2>3
<1> QED BY <1>1, <1>2, <1>3, <1>4, <1>5, <1>6, <1>7 DEF RegistryStep

LEMMA RegistrySteps ==
    ASSUME DeliveryInv, [Next]_vars
    PROVE  RegistryStep
<1>1. ASSUME NEW m \in Message, Produce(m) PROVE RegistryStep
  <2>1. LiveEvent(m) \in Event /\ (LiveEvent(m).whole => LiveEvent(m).id \in DOMAIN Carries)
    BY LiveEvents
  <2>2. CASE Owe(m) \/ EnqueueStop(m)
    BY <2>1, <2>2 DEF Owe, EnqueueStop, Written, RegistryStep
  <2>3. CASE RequestStop(m) \/ PutAnswer(m)
    BY <2>3 DEF RequestStop, PutAnswer, durable, RegistryStep
  <2>4. CASE WithdrawStop(m)
    BY <2>4 DEF WithdrawStop, Written, RegistryStep
  <2> QED BY <1>1, <2>2, <2>3, <2>4 DEF Produce
<1>2. CASE Take \/ Crash
  BY <1>2 DEF Take, Crash, durable, RegistryStep
<1>3. ASSUME NEW t \in Thread, Handle(t) PROVE RegistryStep
  <2>0. PICK e : e = Event1(t)
    OBVIOUS
  <2>1. handler[t].pc # "idle" /\ (handler[t].pc # "claim" => ~e.whole)
    BY <1>3, <2>0 DEF Handle, Split, Claim, Dispatch, Transmit, Refuse, Retain, Receipt, At,
                      DeliveryInv, DeliveryTypeOK, HandlerInv, HandlerOK, Working
  <2>2. e \in Event /\ e.id \in Message /\ HonestEvent(e)
    BY <2>0, <2>1, Current
  <2>3. ASSUME NEW emitted \in BOOLEAN, NEW failed \in BOOLEAN, NEW n, Defer(e, emitted, failed, n),
               handler[t].pc # "claim"
        PROVE  RegistryStep
    <3>1. PICK d : d = [e EXCEPT !.deferred = TRUE, !.emitted = e.emitted \/ emitted, !.failed = failed]
      OBVIOUS
    <3>2. d \in Event /\ ~d.whole
      BY <2>1, <2>2, <2>3, <3>1 DEF Event
    <3>3. registry' = registry \/ registry' = Register(registry, d)
      BY <2>3, <3>1 DEF Defer, Written
    <3> QED BY <3>2, <3>3 DEF RegistryStep
  <2>4. CASE Split(t)
    <3>1. PICK answer, fact : /\ answer = [e EXCEPT !.whole = FALSE]
                              /\ fact = [answer EXCEPT !.id = Carries[answer.id]]
      OBVIOUS
    <3>2. e.id \in DOMAIN Carries
      BY <2>0, <2>2, <2>4 DEF Split, HonestEvent, Honest
    <3>3. Carries[e.id] \in Message
      BY <3>2, MessageAssumption DEF Fact, Range
    <3>4. answer \in Event /\ answer.id = e.id /\ ~answer.whole
      BY <2>2, <3>1 DEF Event
    <3>5. fact \in Event /\ ~fact.whole
      BY <3>1, <3>3, <3>4 DEF Event
    <3>6. registry' = registry \/ registry' = Register(registry, fact)
      BY <2>0, <2>4, <3>1 DEF Split, Written
    <3> QED BY <3>5, <3>6 DEF RegistryStep
  <2>5. CASE Claim(t) \/ Transmit(t)
    BY <2>5 DEF Claim, Transmit, durable, RegistryStep
  <2>6. CASE Dispatch(t)
    <3>1. CASE Defer(e, FALSE, FALSE, 1)
      BY <2>3, <2>6, <3>1 DEF Dispatch, At
    <3>2. CASE ~Defer(e, FALSE, FALSE, 1)
      <4>1. \/ registry' = registry
            \/ MayDispatch(registry, e.id) /\ registry' = [registry EXCEPT !.row[e.id].tries = @ + 1]
        BY <2>0, <2>6, <3>2 DEF Dispatch
      <4> QED BY <2>2, <4>1 DEF RegistryStep
    <3> QED BY <3>1, <3>2
  <2>7. CASE Refuse(t)
    BY <2>0, <2>3, <2>7 DEF Refuse, At
  <2>8. CASE Retain(t)
    BY <2>0, <2>3, <2>8 DEF Retain, At
  <2>9. CASE Receipt(t)
    <3>1. e.failed \in BOOLEAN
      BY <2>2 DEF Event
    <3>2. \/ registry' = Deliver(registry, e.id)
          \/ At(t, "repair") /\ Defer(e, TRUE, e.failed, 1)
          \/ registry' = registry
      BY <2>0, <2>9 DEF Receipt
    <3>3. CASE At(t, "repair") /\ Defer(e, TRUE, e.failed, 1)
      BY <2>3, <3>1, <3>3 DEF At
    <3> QED BY <2>2, <3>2, <3>3 DEF RegistryStep
  <2> QED BY <1>3, <2>4, <2>5, <2>6, <2>7, <2>8, <2>9 DEF Handle
<1>4. CASE Sweep(FALSE)
  BY <1>4 DEF Sweep, Written, RegistryStep
<1>5. ASSUME NEW x \in sweep, SweepRow(x) PROVE RegistryStep
  <2>1. x.id \in Message
    BY DEF DeliveryInv, DeliveryTypeOK
  <2>2. CASE RetireRow(x)
    BY <2>1, <2>2 DEF RetireRow, Written, RegistryStep
  <2>3. CASE LeaveRow(x) \/ ContinueRow(x) \/ ReplayRow(x)
    BY <2>3 DEF LeaveRow, ContinueRow, ReplayRow, durable, RegistryStep
  <2> QED BY <1>5, <2>2, <2>3 DEF SweepRow
<1>6. CASE UNCHANGED vars
  BY <1>6 DEF vars, durable, RegistryStep
<1> QED BY <1>1, <1>2, <1>3, <1>4, <1>5, <1>6 DEF Next

LEMMA DebtsOf ==
    /\ \A m \in Message : DebtOf(m) = Debt(registry, m)
    /\ \A m \in Message : DebtOf(m)' = Debt(registry', m)
BY DEF DebtOf, Debt, Pending

\* Every step of the outbox moves debts as promised, or none.
LEMMA StepKeepsPromise ==
    ASSUME DeliveryInv, DeliveryInv', [Next]_vars
    PROVE  Promise!Next
<1>1. PICK reached, replaced, withdrawn : Moves(registry, registry', reached, replaced, withdrawn)
  BY RegistrySteps, RegistryMoves
<1>2. PICK r, q : r = registry /\ q = registry' /\ Good(r) /\ Good(q)
  BY DEF DeliveryInv, RegistryInv, Good, BundlesKnown
<1> DEFINE debt == [m \in Message |-> DebtOf(m)]
<1>3. /\ \A m \in Message : debt[m] = Debt(r, m) /\ debt'[m] = Debt(q, m)
      /\ \A s \in Stop : debt'[s] = Debt(q, s)
  BY <1>2, DebtsOf, MessageAssumption
<1>4. Moves(r, q, reached, replaced, withdrawn)
  BY <1>1, <1>2
<1>5. ASSUME NEW m \in Message
      PROVE  \/ debt'[m] = debt[m]
             \/ Promise!Opens(m) \/ Promise!Reaches(m) \/ Promise!GivesUp(m)
             \/ Promise!Withdraws(m) \/ Promise!Replaces(m)
  <2>1. Promised(r, q, m)
    BY <1>2, <1>4, DebtsMove
  <2> HIDE DEF debt
  <2> QED BY <1>3, <2>1 DEF debt, Promised, Promise!Opens, Promise!Reaches, Promise!GivesUp, Promise!Withdraws, Promise!Replaces
<1>6. ASSUME NEW m \in Message, NEW k \in Message, Promise!Reaches(m), Promise!Reaches(k)
      PROVE  m = k
  <2>1. /\ Debt(r, m) # "delivered" /\ Debt(q, m) = "delivered"
        /\ Debt(r, k) # "delivered" /\ Debt(q, k) = "delivered"
    BY <1>3, <1>6 DEF Promise!Reaches
  <2> QED BY <1>4, <2>1, ReachesOne DEF Moves
<1> QED BY <1>5, <1>6 DEF Promise!Next

LEMMA PromiseInit == Init => Promise!Init
<1> SUFFICES ASSUME Init PROVE Promise!Init
  OBVIOUS
<1>1. /\ registry.owed = <<>> /\ registry.delivered = {} /\ registry.exhausted = {} /\ registry.superseded = {}
  BY DEF Init
<1>2. Pending(registry) = {}
  BY <1>1 DEF Pending, Range
<1> QED BY <1>1, <1>2 DEF Promise!Init, DebtOf

\* The outbox implements OwedMessages: every write of the registry moves debts only as it
\* promises.
THEOREM OutboxKeepsItsPromise == Spec => ImplementsOwedMessages
<1>1. DeliveryInv /\ DeliveryInv' /\ [Next]_vars => [Promise!Next]_([m \in Message |-> DebtOf(m)])
  BY StepKeepsPromise
<1>2. Spec => Promise!Init /\ [][Promise!Next]_([m \in Message |-> DebtOf(m)])
  BY <1>1, PromiseInit, DeliveryInvariant, PTL DEF Spec
<1>3. ImplementsOwedMessages <=> Promise!Init /\ [][Promise!Next]_([m \in Message |-> DebtOf(m)])
  BY DEF ImplementsOwedMessages, Promise!Safety
<1> QED BY <1>2, <1>3, PTL

=============================================================================
