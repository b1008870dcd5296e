------------------------ MODULE WriteControllerProofs ------------------------
(***************************************************************************)
(* Proofs about the frequency limit, for any number of threads, call       *)
(* sites, cache capacity, period and threshold: the types, the consistency *)
(* of the LRU cache and the keys it keeps, that no write is discarded      *)
(* without cause, and what the limit is worth.                             *)
(***************************************************************************)
EXTENDS WriteController, TLAPS, FiniteSetTheorems

(* Moving an element to the front permutes the list.                       *)
LEMMA MoveToFrontPermutes ==
  ASSUME NEW S, NEW s \in Seq(S), NEW i \in 1..Len(s)
  PROVE  /\ MoveToFront(s, i) \in Seq(S)
         /\ Len(MoveToFront(s, i)) = Len(s)
         /\ {MoveToFront(s, i)[j] : j \in 1..Len(s)} = {s[j] : j \in 1..Len(s)}
         /\ (\A j, l \in 1..Len(s) : s[j] = s[l] => j = l)
              => (\A j, l \in 1..Len(s) : MoveToFront(s, i)[j] = MoveToFront(s, i)[l] => j = l)
<1> DEFINE m == MoveToFront(s, i)
           P(j) == IF j = 1 THEN i ELSE IF j <= i THEN j - 1 ELSE j
<1>1. Len(s) \in Nat
  OBVIOUS
<1>2. \A j \in 1..Len(s) : P(j) \in 1..Len(s) /\ m[j] = s[P(j)]
  BY <1>1 DEF MoveToFront
<1>3. \A j \in 1..Len(s) : m[j] \in S
  BY <1>2
<1>4. m \in Seq(S) /\ Len(m) = Len(s)
  BY <1>1, <1>3 DEF MoveToFront
<1>5. \A l \in 1..Len(s) : \E j \in 1..Len(s) : P(j) = l
  <2> SUFFICES ASSUME NEW l \in 1..Len(s) PROVE \E j \in 1..Len(s) : P(j) = l
    OBVIOUS
  <2>1. CASE l = i
    BY <2>1, <1>1
  <2>2. CASE l < i
    <3>1. l + 1 \in 1..Len(s) /\ P(l + 1) = l
      BY <2>2, <1>1
    <3> QED BY <3>1
  <2>3. CASE l > i
    BY <2>3, <1>1
  <2> QED BY <2>1, <2>2, <2>3
<1>6. {m[j] : j \in 1..Len(s)} = {s[j] : j \in 1..Len(s)}
  <2> HIDE DEF m, P
  <2>1. ASSUME NEW j \in 1..Len(s) PROVE m[j] \in {s[l] : l \in 1..Len(s)}
    BY <1>2
  <2>2. ASSUME NEW l \in 1..Len(s) PROVE s[l] \in {m[j] : j \in 1..Len(s)}
    BY <1>2, <1>5
  <2> QED BY <2>1, <2>2
<1>7. \A j, l \in 1..Len(s) : P(j) = P(l) => j = l
  BY <1>1
<1>8. (\A j, l \in 1..Len(s) : s[j] = s[l] => j = l)
        => (\A j, l \in 1..Len(s) : m[j] = m[l] => j = l)
  <2> HIDE DEF m, P
  <2> QED BY <1>2, <1>7
<1> QED BY <1>4, <1>6, <1>8

(* The stored iterator of a listed key points to it.                       *)
LEMMA PositionFinds ==
  ASSUME NEW s, NEW k, \E i \in 1..Len(s) : s[i] = k
  PROVE  Position(s, k) \in 1..Len(s) /\ s[Position(s, k)] = k
BY DEF Position

-----------------------------------------------------------------------------
CacheInv == TypeOK /\ CacheConsistent

(* Modify keeps the list consistent with the index.                        *)
LEMMA ModifyKeepsCache ==
  ASSUME CacheInv, NEW k \in DOMAIN key2Index, Modify(k)
  PROVE  /\ keyCache' \in Seq(Keys)
         /\ Len(keyCache') = Len(keyCache)
         /\ DOMAIN key2Index = {keyCache'[i] : i \in 1..Len(keyCache')}
         /\ \A i, j \in 1..Len(keyCache') : keyCache'[i] = keyCache'[j] => i = j
<1>1. \E i \in 1..Len(keyCache) : keyCache[i] = k
  BY DEF CacheInv, CacheConsistent
<1>2. Position(keyCache, k) \in 1..Len(keyCache)
  BY <1>1, PositionFinds
<1>3. keyCache \in Seq(Keys)
  BY DEF CacheInv, TypeOK
<1>4. keyCache' = MoveToFront(keyCache, Position(keyCache, k))
  BY DEF Modify
<1>5. ASSUME NEW p \in 1..Len(keyCache), keyCache' = MoveToFront(keyCache, p)
      PROVE
      /\ keyCache' \in Seq(Keys)
      /\ Len(keyCache') = Len(keyCache)
      /\ {keyCache'[i] : i \in 1..Len(keyCache)} = {keyCache[i] : i \in 1..Len(keyCache)}
      /\ (\A i, j \in 1..Len(keyCache) : keyCache[i] = keyCache[j] => i = j)
           => (\A i, j \in 1..Len(keyCache) : keyCache'[i] = keyCache'[j] => i = j)
  <2> DEFINE m == MoveToFront(keyCache, p)
  <2>1. /\ m \in Seq(Keys)
        /\ Len(m) = Len(keyCache)
        /\ {m[i] : i \in 1..Len(keyCache)} = {keyCache[i] : i \in 1..Len(keyCache)}
        /\ (\A i, j \in 1..Len(keyCache) : keyCache[i] = keyCache[j] => i = j)
             => (\A i, j \in 1..Len(keyCache) : m[i] = m[j] => i = j)
    BY <1>3, MoveToFrontPermutes, Zenon
  <2>2. keyCache' = m
    BY <1>5
  <2> HIDE DEF m
  <2> QED BY <2>1, <2>2
<1> QED BY <1>2, <1>4, <1>5 DEF CacheInv, CacheConsistent

LEMMA RecordUseType ==
  ASSUME recency \in Seq(Keys), NEW k \in Keys, RecordUse(k)
  PROVE  recency' \in Seq(Keys)
<1>1. CASE \E i \in 1..Len(recency) : recency[i] = k
  BY <1>1, PositionFinds, MoveToFrontPermutes DEF RecordUse
<1>2. CASE ~\E i \in 1..Len(recency) : recency[i] = k
  BY <1>2 DEF RecordUse
<1> QED BY <1>1, <1>2

(* Put: the cache stays consistent, and only the record of k is new.       *)
LEMMA CachePutKeepsCache ==
  ASSUME CacheInv, NEW k \in Keys, NEW r \in EventWroteRecord, CachePut(k, r)
  PROVE  /\ DOMAIN key2Index' \subseteq Keys
         /\ key2Index' \in [DOMAIN key2Index' -> EventWroteRecord]
         /\ keyCache' \in Seq(Keys)
         /\ recency' \in Seq(Keys)
         /\ CacheConsistent'
         /\ \A x \in DOMAIN key2Index' :
              \/ x = k /\ key2Index'[x] = r
              \/ x \in DOMAIN key2Index /\ key2Index'[x] = key2Index[x]
<1> USE ControllerAssumption
<1>1. CASE Capacity = 0
  BY <1>1 DEF CachePut, CacheInv, TypeOK, CacheConsistent, cacheVars
<1>2. CASE Capacity # 0 /\ k \in DOMAIN key2Index
  <2>1. /\ key2Index' = [key2Index EXCEPT ![k] = r]
        /\ Modify(k)
        /\ RecordUse(k)
    BY <1>2 DEF CachePut
  <2>2. DOMAIN key2Index' = DOMAIN key2Index
    BY <2>1 DEF CacheInv, TypeOK
  <2>3. recency' \in Seq(Keys)
    BY <2>1, RecordUseType DEF CacheInv, TypeOK
  <2>4. keyCache' \in Seq(Keys) /\ CacheConsistent'
    BY <1>2, <2>1, <2>2, ModifyKeepsCache DEF CacheInv, CacheConsistent
  <2> QED BY <2>1, <2>2, <2>3, <2>4, <1>2 DEF CacheInv, TypeOK
<1>3. CASE Capacity # 0 /\ k \notin DOMAIN key2Index
  <2> DEFINE full == Len(keyCache) = Capacity
             kept == IF full THEN DOMAIN key2Index \ {keyCache[Capacity]}
                             ELSE DOMAIN key2Index
             rest == IF full THEN SubSeq(keyCache, 1, Capacity - 1) ELSE keyCache
  <2>1. /\ key2Index' = [x \in kept \cup {k} |-> IF x = k THEN r ELSE key2Index[x]]
        /\ keyCache' = <<k>> \o rest
        /\ RecordUse(k)
    BY <1>3 DEF CachePut
  <2>2. recency' \in Seq(Keys)
    BY <2>1, RecordUseType DEF CacheInv, TypeOK
  <2>3. /\ rest \in Seq(Keys)
        /\ Len(rest) < Capacity
        /\ Len(rest) <= Len(keyCache)
        /\ \A i \in 1..Len(rest) : rest[i] = keyCache[i]
        /\ kept = {rest[i] : i \in 1..Len(rest)}
    <3>1. CASE full
      <4>1. /\ rest \in Seq(Keys) /\ Len(rest) = Capacity - 1
            /\ \A i \in 1..(Capacity - 1) : rest[i] = keyCache[i]
        BY <3>1, <1>3 DEF CacheInv, TypeOK
      <4>2. kept = {keyCache[i] : i \in 1..(Capacity - 1)}
        BY <3>1, <1>3 DEF CacheInv, CacheConsistent
      <4> QED BY <3>1, <4>1, <4>2, <1>3
    <3>2. CASE ~full
      <4>1. rest = keyCache /\ kept = DOMAIN key2Index
        BY <3>2
      <4> HIDE DEF rest, kept
      <4> QED BY <4>1, <3>2, <1>3 DEF CacheInv, TypeOK, CacheConsistent
    <3> QED BY <3>1, <3>2
  <2>4. k \notin kept /\ kept \subseteq DOMAIN key2Index
    BY <1>3
  <2>5. DOMAIN key2Index' = kept \cup {k}
    BY <2>1
  <2> HIDE DEF rest, kept, full
  <2>6. /\ keyCache' \in Seq(Keys)
        /\ Len(keyCache') = Len(rest) + 1
        /\ keyCache'[1] = k
        /\ \A i \in 1..Len(rest) : keyCache'[i + 1] = rest[i]
    BY <2>1, <2>3
  <2>10. ASSUME NEW i \in 1..Len(keyCache'), i # 1
         PROVE  /\ i - 1 \in 1..Len(keyCache)
                /\ keyCache'[i] = keyCache[i - 1]
                /\ keyCache'[i] \in kept
    <3>1. Len(rest) \in Nat /\ Len(keyCache) \in Nat
      BY <2>3 DEF CacheInv, TypeOK
    <3>2. i - 1 \in 1..Len(rest) /\ (i - 1) + 1 = i
      BY <3>1, <2>6, <2>10
    <3>3. keyCache'[i] = rest[i - 1]
      BY <3>2, <2>6
    <3> QED BY <3>1, <3>2, <3>3, <2>3
  <2>7. CacheConsistent'
    <3>1. Len(keyCache') <= Capacity
      BY <2>3, <2>6
    <3>2. DOMAIN key2Index' = {keyCache'[i] : i \in 1..Len(keyCache')}
      <4>1. ASSUME NEW x \in kept PROVE \E i \in 1..Len(keyCache') : keyCache'[i] = x
        <5>1. PICK i \in 1..Len(rest) : rest[i] = x
          BY <4>1, <2>3
        <5>2. i + 1 \in 1..Len(keyCache') /\ keyCache'[i + 1] = x
          BY <5>1, <2>3, <2>6
        <5> QED BY <5>2
      <4>2. \E i \in 1..Len(keyCache') : keyCache'[i] = k
        BY <2>3, <2>6
      <4>3. ASSUME NEW i \in 1..Len(keyCache') PROVE keyCache'[i] \in kept \cup {k}
        BY <2>6, <2>10
      <4> QED BY <4>1, <4>2, <4>3, <2>5
    <3>3. ASSUME NEW i \in 1..Len(keyCache'), NEW j \in 1..Len(keyCache'),
                 keyCache'[i] = keyCache'[j]
          PROVE  i = j
      <4>1. CASE i = 1 /\ j = 1
        BY <4>1
      <4>2. CASE i = 1 /\ j # 1
        BY <4>2, <3>3, <2>4, <2>6, <2>10
      <4>3. CASE i # 1 /\ j = 1
        BY <4>3, <3>3, <2>4, <2>6, <2>10
      <4>4. CASE i # 1 /\ j # 1
        <5>1. /\ i - 1 \in 1..Len(keyCache) /\ j - 1 \in 1..Len(keyCache)
              /\ keyCache[i - 1] = keyCache[j - 1]
          BY <4>4, <3>3, <2>10
        <5>2. i - 1 = j - 1
          BY <5>1 DEF CacheInv, CacheConsistent
        <5> QED BY <5>2
      <4> QED BY <4>1, <4>2, <4>3, <4>4
    <3> QED BY <3>1, <3>2, <3>3 DEF CacheConsistent
  <2>8. \A x \in DOMAIN key2Index' :
           \/ x = k /\ key2Index'[x] = r
           \/ x \in DOMAIN key2Index /\ key2Index'[x] = key2Index[x]
    BY <2>1, <2>4, <2>5
  <2>9. /\ DOMAIN key2Index' \subseteq Keys
        /\ key2Index' \in [DOMAIN key2Index' -> EventWroteRecord]
    BY <2>1, <2>4, <2>5 DEF CacheInv, TypeOK
  <2> QED BY <2>2, <2>6, <2>7, <2>8, <2>9
<1> QED BY <1>1, <1>2, <1>3

-----------------------------------------------------------------------------
LEMMA NewRecordType ==
  ASSUME NEW r \in EventWroteRecord, NEW now \in Nat
  PROVE  NewRecord(r, now) \in EventWroteRecord /\ Admits(r, now) \in BOOLEAN
BY DEF NewRecord, EventWroteRecord, Admits, Restarts

LEMMA CacheInvInit == Init => CacheInv
BY ControllerAssumption
   DEF Init, CacheInv, TypeOK, CacheConsistent, EventWroteRecord, NoRecord

LEMMA CacheInvStep == CacheInv /\ [Next]_vars => CacheInv'
<1> SUFFICES ASSUME CacheInv, [Next]_vars PROVE CacheInv'
  OBVIOUS
<1> USE ControllerAssumption
<1>1. ASSUME NEW t \in Threads, NEW k \in Keys, CheckLimitWritingEvent(t, k)
      PROVE  CacheInv'
  BY <1>1 DEF CheckLimitWritingEvent, CacheInv, TypeOK, CacheConsistent
<1>2. ASSUME NEW t \in Threads, Get(t) PROVE CacheInv'
  <2>1. key[t] \in Keys /\ NoRecord \in EventWroteRecord
    BY <1>2 DEF Get, CacheInv, TypeOK, NoRecord, EventWroteRecord
  <2>2. CASE key[t] \in DOMAIN key2Index
    <3>1. /\ Modify(key[t]) /\ RecordUse(key[t])
          /\ record' = [record EXCEPT ![t] = key2Index[key[t]]]
          /\ key2Index' = key2Index
      BY <1>2, <2>2 DEF Get
    <3>2. keyCache' \in Seq(Keys) /\ CacheConsistent'
      BY <2>2, <3>1, ModifyKeepsCache DEF CacheInv, CacheConsistent
    <3>3. recency' \in Seq(Keys)
      BY <2>1, <3>1, RecordUseType DEF CacheInv, TypeOK
    <3> QED BY <1>2, <2>2, <3>1, <3>2, <3>3 DEF Get, CacheInv, TypeOK
  <2>3. CASE key[t] \notin DOMAIN key2Index
    <3>1. /\ UNCHANGED <<clock, key2Index, keyCache, key, cur, calls, id, log, recency, undisturbed>>
          /\ record' = [record EXCEPT ![t] = NoRecord]
          /\ pc' = [pc EXCEPT ![t] = "put"]
      BY <1>2, <2>3 DEF Get
    <3>2. CacheConsistent'
      BY <3>1 DEF CacheInv, CacheConsistent
    <3> QED BY <1>2, <2>1, <3>1, <3>2 DEF Get, CacheInv, TypeOK
  <2> QED BY <2>2, <2>3
<1>3. ASSUME NEW t \in Threads, Put(t) PROVE CacheInv'
  <2> DEFINE r == NewRecord(record[t], cur[t])
             e == [id |-> id[t], key |-> key[t], time |-> cur[t],
                   opened |-> r.timestamp, ok |-> Admits(record[t], cur[t])]
  <2>1. key[t] \in Keys /\ record[t] \in EventWroteRecord /\ cur[t] \in Nat /\ id[t] \in Nat
    BY <1>3 DEF Put, CacheInv, TypeOK
  <2>2. r \in EventWroteRecord /\ Admits(record[t], cur[t]) \in BOOLEAN
    BY <2>1, NewRecordType
  <2>3. CachePut(key[t], r)
    BY <1>3 DEF Put
  <2>4. e \in LogEntry
    <3> HIDE DEF r
    <3> QED BY <2>1, <2>2 DEF LogEntry, EventWroteRecord
  <2>5. log' \subseteq LogEntry
    BY <1>3, <2>4 DEF Put, CacheInv, TypeOK
  <2>6. /\ pc' \in [Threads -> {"idle", "get", "put"}]
        /\ cur' \in [Threads -> Nat]
        /\ record' \in [Threads -> EventWroteRecord]
        /\ id' \in [Threads -> Nat]
        /\ key' \in [Threads -> Keys \cup {NoKey}]
        /\ \A u \in Threads : pc'[u] # "idle" => key'[u] \in Keys
        /\ UNCHANGED <<clock, calls>>
    BY <1>3 DEF Put, CacheInv, TypeOK, NoRecord, EventWroteRecord
  <2>7. undisturbed' \in BOOLEAN
    BY <1>3, Zenon DEF Put, CacheInv, TypeOK
  <2> HIDE DEF r, e
  <2> QED BY <2>1, <2>2, <2>3, <2>5, <2>6, <2>7, CachePutKeepsCache DEF CacheInv, TypeOK
<1>4. CASE Tick
  BY <1>4 DEF Tick, CacheInv, TypeOK, CacheConsistent, cacheVars
<1>5. CASE SetBack
  <2>1. undisturbed' \in BOOLEAN /\ clock' \in Nat
    BY <1>5 DEF SetBack
  <2> QED BY <1>5, <2>1 DEF SetBack, CacheInv, TypeOK, CacheConsistent, cacheVars
<1>6. CASE UNCHANGED vars
  BY <1>6 DEF vars, CacheInv, TypeOK, CacheConsistent
<1> QED BY <1>1, <1>2, <1>3, <1>4, <1>5, <1>6 DEF Next

-----------------------------------------------------------------------------
(* Every finished or running check has a number of its own.                *)
Numbered ==
  /\ IsFiniteSet(log)
  /\ \A e \in log : e.id < calls
  /\ \A t \in Threads : pc[t] # "idle" =>
       /\ id[t] < calls
       /\ \A e \in log : e.id # id[t]
       /\ \A u \in Threads : pc[u] # "idle" /\ id[u] = id[t] => u = t

(* A counter, in the cache or in a thread's copy of it, is backed by as    *)
(* many admitted writes of its window, up to the threshold.                *)
Backed(l, k, r) ==
  \/ Cardinality(AdmittedIn(l, k, r.timestamp)) >= r.count
  \/ Cardinality(AdmittedIn(l, k, r.timestamp)) >= Threshold

CountersBacked ==
  /\ \A k \in DOMAIN key2Index : Backed(log, k, key2Index[k])
  /\ \A t \in Threads : pc[t] = "put" => Backed(log, key[t], record[t])

RejectInv == CacheInv /\ Numbered /\ CountersBacked /\ NoFalseReject

(* Type correctness, for any instance of the constants.                    *)
THEOREM TypeCorrect == Spec => []TypeOK
<1>1. CacheInv => TypeOK
  BY DEF CacheInv
<1> QED BY <1>1, CacheInvInit, CacheInvStep, PTL DEF Spec

(* The list and the index of EventWroteLruCache always agree, for any      *)
(* capacity and any interleaving of Get and Put.                           *)
THEOREM CacheIsConsistent == Spec => []CacheConsistent
<1>1. CacheInv => CacheConsistent
  BY DEF CacheInv
<1> QED BY <1>1, CacheInvInit, CacheInvStep, PTL DEF Spec

-----------------------------------------------------------------------------
LEMMA AdmittedFinite ==
  ASSUME NEW l, IsFiniteSet(l), NEW k, NEW o
  PROVE  /\ IsFiniteSet(AdmittedIn(l, k, o))
         /\ Cardinality(AdmittedIn(l, k, o)) \in Nat
<1>1. AdmittedIn(l, k, o) \subseteq l
  BY DEF AdmittedIn
<1> QED BY <1>1, FS_Subset, FS_CardinalityType

(* The writes admitted in a window only grow with the history.             *)
LEMMA AdmittedGrows ==
  ASSUME NEW l, NEW l2, IsFiniteSet(l2), l \subseteq l2, NEW k, NEW o
  PROVE  /\ Cardinality(AdmittedIn(l, k, o)) \in Nat
         /\ Cardinality(AdmittedIn(l2, k, o)) \in Nat
         /\ Cardinality(AdmittedIn(l2, k, o)) >= Cardinality(AdmittedIn(l, k, o))
<1>1. AdmittedIn(l, k, o) \subseteq AdmittedIn(l2, k, o)
  BY DEF AdmittedIn
<1>2. IsFiniteSet(l)
  BY FS_Subset
<1> QED BY <1>1, <1>2, FS_Subset, AdmittedFinite

(* A new admitted write of the window counts.                              *)
LEMMA AdmittedAdds ==
  ASSUME NEW l, IsFiniteSet(l), NEW k, NEW o, NEW e,
         e \notin l, e.ok, e.key = k, InWindow(e.time, o)
  PROVE  Cardinality(AdmittedIn(l \cup {e}, k, o)) = Cardinality(AdmittedIn(l, k, o)) + 1
<1>1. AdmittedIn(l \cup {e}, k, o) = AdmittedIn(l, k, o) \cup {e} /\ e \notin AdmittedIn(l, k, o)
  BY DEF AdmittedIn
<1> QED BY <1>1, AdmittedFinite, FS_AddElement

(* A counter stays backed while the history grows.                         *)
LEMMA BackedGrows ==
  ASSUME NEW l, NEW l2, IsFiniteSet(l2), l \subseteq l2,
         NEW k, NEW r \in EventWroteRecord, Backed(l, k, r)
  PROVE  Backed(l2, k, r)
<1> DEFINE n == Cardinality(AdmittedIn(l, k, r.timestamp))
           m == Cardinality(AdmittedIn(l2, k, r.timestamp))
<1>1. m \in Nat /\ n \in Nat /\ m >= n
  BY AdmittedGrows
<1>2. r.count \in Nat /\ Threshold \in Nat
  BY ControllerAssumption DEF EventWroteRecord
<1>3. n >= r.count \/ n >= Threshold
  BY DEF Backed
<1>4. m >= r.count \/ m >= Threshold
  <2> HIDE DEF n, m
  <2> QED BY <1>1, <1>2, <1>3
<1> QED BY <1>4 DEF Backed

LEMMA RejectInvInit == Init => RejectInv
<1> SUFFICES ASSUME Init PROVE RejectInv
  OBVIOUS
<1>1. Numbered
  BY FS_EmptySet DEF Init, Numbered
<1>2. CountersBacked /\ NoFalseReject
  BY DEF Init, CountersBacked, NoFalseReject
<1> QED BY <1>1, <1>2, CacheInvInit DEF RejectInv

LEMMA NumberedStep == CacheInv /\ Numbered /\ [Next]_vars => Numbered' /\ log \subseteq log'
<1> SUFFICES ASSUME CacheInv, Numbered, [Next]_vars PROVE Numbered' /\ log \subseteq log'
  OBVIOUS
<1>1. ASSUME NEW t \in Threads, NEW k \in Keys, CheckLimitWritingEvent(t, k)
      PROVE  Numbered' /\ log \subseteq log'
  BY <1>1 DEF CheckLimitWritingEvent, CacheInv, TypeOK, Numbered, LogEntry
<1>2. ASSUME NEW t \in Threads, Get(t) PROVE Numbered' /\ log \subseteq log'
  <2>1. /\ pc[t] = "get" /\ pc' = [pc EXCEPT ![t] = "put"]
        /\ UNCHANGED <<calls, id, log>>
    BY <1>2 DEF Get
  <2> QED BY <2>1 DEF Numbered, CacheInv, TypeOK
<1>3. ASSUME NEW t \in Threads, Put(t) PROVE Numbered' /\ log \subseteq log'
  <2>1. PICK e : /\ log' = log \cup {e} /\ e.id = id[t]
                 /\ pc[t] = "put" /\ pc' = [pc EXCEPT ![t] = "idle"]
                 /\ calls' = calls /\ id' = [id EXCEPT ![t] = 0]
    BY <1>3 DEF Put
  <2>2. IsFiniteSet(log')
    BY <2>1, FS_AddElement DEF Numbered
  <2>3. \A x \in log' : x.id < calls'
    BY <2>1 DEF Numbered
  <2>4. \A u \in Threads : pc'[u] # "idle" => u # t /\ pc[u] # "idle"
    BY <2>1 DEF CacheInv, TypeOK
  <2>5. ASSUME NEW u \in Threads, pc'[u] # "idle"
        PROVE  /\ id'[u] < calls'
               /\ \A x \in log' : x.id # id'[u]
               /\ \A w \in Threads : pc'[w] # "idle" /\ id'[w] = id'[u] => w = u
    BY <2>1, <2>4, <2>5 DEF Numbered
  <2> QED BY <2>1, <2>2, <2>3, <2>5 DEF Numbered
<1>4. CASE Tick
  BY <1>4 DEF Tick, Numbered
<1>5. CASE SetBack
  BY <1>5 DEF SetBack, Numbered
<1>6. CASE UNCHANGED vars
  BY <1>6 DEF vars, Numbered
<1> QED BY <1>1, <1>2, <1>3, <1>4, <1>5, <1>6 DEF Next

LEMMA SecType == ASSUME NEW x \in Nat PROVE Sec(x) \in Int
BY ControllerAssumption DEF Sec

(* A write either opens its own window or falls into the one it was read.  *)
LEMMA NewRecordWindow ==
  ASSUME NEW r \in EventWroteRecord, NEW now \in Nat
  PROVE  InWindow(now, NewRecord(r, now).timestamp)
<1>1. Sec(now) \in Int /\ Sec(r.timestamp) \in Int /\ Period \in Nat
  BY SecType, ControllerAssumption DEF EventWroteRecord
<1>2. CASE Restarts(r, now)
  <2>1. NewRecord(r, now).timestamp = now
    BY <1>2 DEF NewRecord
  <2> QED BY <1>1, <2>1 DEF InWindow
<1>3. CASE ~Restarts(r, now)
  <2>1. NewRecord(r, now).timestamp = r.timestamp
    BY <1>3 DEF NewRecord
  <2> QED BY <1>1, <1>3, <2>1 DEF InWindow, Restarts
<1> QED BY <1>2, <1>3

(* The counter a check writes back is backed once the check is in the      *)
(* history, and a check that discards finds the threshold reached.         *)
LEMMA NewRecordBacked ==
  ASSUME NEW l, IsFiniteSet(l), NEW k, NEW old \in EventWroteRecord, NEW now \in Nat,
         Backed(l, k, old), NEW e, e \notin l,
         e.ok = Admits(old, now), e.key = k, e.time = now
  PROVE  LET r == NewRecord(old, now) IN
         /\ Backed(l \cup {e}, k, r)
         /\ ~Admits(old, now) => Cardinality(AdmittedIn(l \cup {e}, k, r.timestamp)) >= Threshold
<1> DEFINE r == NewRecord(old, now)
           o == r.timestamp
           n == Cardinality(AdmittedIn(l, k, o))
           m == Cardinality(AdmittedIn(l \cup {e}, k, o))
<1>1. r \in EventWroteRecord /\ Threshold \in Nat /\ r.count \in Nat /\ old.count \in Nat
  BY NewRecordType, ControllerAssumption DEF EventWroteRecord
<1>2. InWindow(e.time, o)
  BY NewRecordWindow
<1>3. m \in Nat /\ n \in Nat /\ m >= n
  <2>1. IsFiniteSet(l \cup {e})
    BY FS_AddElement
  <2> QED BY <2>1, AdmittedGrows
<1>4. Admits(old, now) => m = n + 1
  <2> SUFFICES ASSUME Admits(old, now) PROVE m = n + 1
    OBVIOUS
  <2>1. e.ok
    OBVIOUS
  <2>2. \A w : InWindow(e.time, w) =>
          Cardinality(AdmittedIn(l \cup {e}, k, w)) = Cardinality(AdmittedIn(l, k, w)) + 1
    BY <2>1, AdmittedAdds
  <2> QED BY <1>2, <2>2
<1>5. /\ m >= r.count \/ m >= Threshold
      /\ ~Admits(old, now) => m >= Threshold
  <2>1. CASE Restarts(old, now)
    <3>1. r.count = 1 /\ Admits(old, now)
      BY <2>1 DEF NewRecord, Admits
    <3> HIDE DEF m, n, r
    <3> QED BY <3>1, <1>3, <1>4
  <2>2. CASE ~Restarts(old, now)
    <3>1. /\ r.count = old.count + 1
          /\ o = old.timestamp
          /\ Admits(old, now) <=> old.count + 1 <= Threshold
      BY <2>2 DEF NewRecord, Admits
    <3>2. n >= old.count \/ n >= Threshold
      BY <3>1 DEF Backed
    <3> HIDE DEF m, n, r
    <3> QED BY <3>1, <3>2, <1>1, <1>3, <1>4
  <2> QED BY <2>1, <2>2
<1>6. Backed(l \cup {e}, k, r)
  BY <1>5 DEF Backed
<1> QED BY <1>5, <1>6

LEMMA RejectInvStep == RejectInv /\ [Next]_vars => RejectInv'
<1> SUFFICES ASSUME RejectInv, [Next]_vars PROVE RejectInv'
  OBVIOUS
<1>1. CacheInv' /\ Numbered' /\ log \subseteq log'
  BY CacheInvStep, NumberedStep DEF RejectInv
<1>2. ASSUME log' = log, key2Index' = key2Index,
             \A t \in Threads : pc'[t] = "put" =>
               pc[t] = "put" /\ key'[t] = key[t] /\ record'[t] = record[t]
      PROVE  RejectInv'
  BY <1>1, <1>2 DEF RejectInv, CountersBacked, NoFalseReject
<1>3. ASSUME NEW t \in Threads, NEW k \in Keys, CheckLimitWritingEvent(t, k)
      PROVE  RejectInv'
  <2>1. \A u \in Threads : pc'[u] = "put" =>
          pc[u] = "put" /\ key'[u] = key[u] /\ record'[u] = record[u]
    BY <1>3 DEF CheckLimitWritingEvent, RejectInv, CacheInv, TypeOK
  <2> QED BY <1>2, <1>3, <2>1 DEF CheckLimitWritingEvent
<1>4. ASSUME NEW t \in Threads, Get(t) PROVE RejectInv'
  <2>1. /\ log' = log /\ key2Index' = key2Index /\ key' = key
        /\ pc' = [pc EXCEPT ![t] = "put"]
        /\ record' = [record EXCEPT ![t] =
                        IF key[t] \in DOMAIN key2Index THEN key2Index[key[t]] ELSE NoRecord]
    BY <1>4 DEF Get
  <2>2. Backed(log, key[t], NoRecord)
    BY AdmittedFinite DEF Backed, NoRecord, RejectInv, Numbered
  <2>3. Backed(log, key[t], record'[t])
    BY <2>1, <2>2 DEF RejectInv, CountersBacked, CacheInv, TypeOK
  <2>4. ASSUME NEW u \in Threads, pc'[u] = "put" PROVE Backed(log', key'[u], record'[u])
    <3>1. CASE u = t
      BY <3>1, <2>1, <2>3
    <3>2. CASE u # t
      BY <3>2, <2>1, <2>4 DEF RejectInv, CountersBacked, CacheInv, TypeOK
    <3> QED BY <3>1, <3>2
  <2>5. CountersBacked' /\ NoFalseReject'
    BY <2>1, <2>4 DEF RejectInv, CountersBacked, NoFalseReject
  <2> QED BY <1>1, <2>5 DEF RejectInv
<1>5. ASSUME NEW t \in Threads, Put(t) PROVE RejectInv'
  <2> DEFINE k == key[t]
             old == record[t]
             now == cur[t]
             r == NewRecord(old, now)
             e == [id |-> id[t], key |-> k, time |-> now, opened |-> r.timestamp,
                   ok |-> Admits(old, now)]
  <2>1. /\ k \in Keys /\ old \in EventWroteRecord /\ now \in Nat /\ r \in EventWroteRecord
        /\ IsFiniteSet(log) /\ IsFiniteSet(log')
    BY <1>1, <1>5, NewRecordType DEF Put, RejectInv, CacheInv, TypeOK, Numbered
  <2>2. log' = log \cup {e} /\ e \notin log /\ CachePut(k, r)
    BY <1>5 DEF Put, RejectInv, Numbered
  <2>3. Backed(log, k, old)
    BY <1>5 DEF Put, RejectInv, CountersBacked
  <2>4. /\ e.ok = Admits(old, now) /\ e.key = k /\ e.time = now /\ e.opened = r.timestamp
    OBVIOUS
  <2>5. /\ Backed(log', k, r)
        /\ ~e.ok => Cardinality(AdmittedIn(log', k, r.timestamp)) >= Threshold
        /\ InWindow(now, r.timestamp)
    <3> HIDE DEF e, k, old, now
    <3> QED BY <2>1, <2>2, <2>3, <2>4, NewRecordBacked, NewRecordWindow
  <2>6. \A x \in DOMAIN key2Index' :
           \/ x = k /\ key2Index'[x] = r
           \/ x \in DOMAIN key2Index /\ key2Index'[x] = key2Index[x]
    <3> HIDE DEF k, r
    <3> QED BY <2>1, <2>2, CachePutKeepsCache DEF RejectInv
  <2>7. ASSUME NEW x \in DOMAIN key2Index' PROVE Backed(log', x, key2Index'[x])
    <3>1. CASE x = k /\ key2Index'[x] = r
      BY <3>1, <2>5
    <3>2. CASE x \in DOMAIN key2Index /\ key2Index'[x] = key2Index[x]
      <4>1. Backed(log, x, key2Index[x]) /\ key2Index[x] \in EventWroteRecord
        BY <3>2 DEF RejectInv, CountersBacked, CacheInv, TypeOK
      <4> QED BY <3>2, <4>1, <2>1, <1>1, BackedGrows
    <3> QED BY <3>1, <3>2, <2>6
  <2>8. ASSUME NEW u \in Threads, pc'[u] = "put" PROVE Backed(log', key'[u], record'[u])
    <3>1. pc[u] = "put" /\ key'[u] = key[u] /\ record'[u] = record[u]
      BY <1>5, <2>8 DEF Put, RejectInv, CacheInv, TypeOK
    <3>2. Backed(log, key[u], record[u]) /\ record[u] \in EventWroteRecord
      BY <3>1 DEF RejectInv, CountersBacked, CacheInv, TypeOK
    <3> QED BY <3>1, <3>2, <2>1, <1>1, BackedGrows
  <2>9. ASSUME NEW x \in log', ~x.ok
        PROVE  /\ InWindow(x.time, x.opened)
               /\ Cardinality(AdmittedIn(log', x.key, x.opened)) >= Threshold
    <3>1. CASE x = e
      <4> HIDE DEF e, k, r, now
      <4> QED BY <3>1, <2>4, <2>5, <2>9
    <3>2. CASE x \in log
      <4>1. /\ InWindow(x.time, x.opened)
            /\ Cardinality(AdmittedIn(log, x.key, x.opened)) >= Threshold
        BY <3>2, <2>9 DEF RejectInv, NoFalseReject
      <4>2. /\ Cardinality(AdmittedIn(log, x.key, x.opened)) \in Nat
            /\ Cardinality(AdmittedIn(log', x.key, x.opened)) \in Nat
            /\ Cardinality(AdmittedIn(log', x.key, x.opened))
                 >= Cardinality(AdmittedIn(log, x.key, x.opened))
        BY <2>1, <1>1, AdmittedGrows
      <4> QED BY <4>1, <4>2, ControllerAssumption
    <3> QED BY <3>1, <3>2, <2>2
  <2> QED BY <1>1, <2>7, <2>8, <2>9 DEF RejectInv, CountersBacked, NoFalseReject
<1>6. CASE Tick
  BY <1>2, <1>6 DEF Tick, cacheVars
<1>7. CASE SetBack
  BY <1>2, <1>7 DEF SetBack, cacheVars
<1>8. CASE UNCHANGED vars
  BY <1>2, <1>8 DEF vars
<1> QED BY <1>3, <1>4, <1>5, <1>6, <1>7, <1>8 DEF Next

(* A write is discarded only after Threshold admitted writes of its call   *)
(* site in its window: for any threads, call sites, capacity and clock.    *)
THEOREM NeverFalselyRejected == Spec => []NoFalseReject
<1>1. RejectInv => NoFalseReject
  BY DEF RejectInv
<1> QED BY <1>1, RejectInvInit, RejectInvStep, PTL DEF Spec
-----------------------------------------------------------------------------
(* The cached keys are the first of all the keys that were ever used.      *)
MostRecent ==
  /\ \A i, j \in 1..Len(recency) : recency[i] = recency[j] => i = j
  /\ Len(keyCache) = IF Len(recency) < Capacity THEN Len(recency) ELSE Capacity
  /\ \A i \in 1..Len(keyCache) : keyCache[i] = recency[i]

(* In a list without duplicates a key has one position.                    *)
LEMMA PositionIs ==
  ASSUME NEW S, NEW s \in Seq(S), \A i, j \in 1..Len(s) : s[i] = s[j] => i = j,
         NEW p \in 1..Len(s)
  PROVE  Position(s, s[p]) = p
<1>1. \E i \in 1..Len(s) : s[i] = s[p]
  OBVIOUS
<1> QED BY <1>1, PositionFinds

(* A move within the front of a list is a move of the front.               *)
LEMMA MoveInFront ==
  ASSUME NEW S, NEW s \in Seq(S), NEW l \in Seq(S), Len(s) <= Len(l),
         \A i \in 1..Len(s) : s[i] = l[i], NEW p \in 1..Len(s)
  PROVE  \A i \in 1..Len(s) : MoveToFront(s, p)[i] = MoveToFront(l, p)[i]
<1> SUFFICES ASSUME NEW i \in 1..Len(s) PROVE MoveToFront(s, p)[i] = MoveToFront(l, p)[i]
  OBVIOUS
<1>1. /\ MoveToFront(s, p)[i] = IF i = 1 THEN s[p] ELSE IF i <= p THEN s[i - 1] ELSE s[i]
      /\ MoveToFront(l, p)[i] = IF i = 1 THEN l[p] ELSE IF i <= p THEN l[i - 1] ELSE l[i]
  BY DEF MoveToFront
<1>2. CASE i = 1
  BY <1>1, <1>2
<1>3. CASE i # 1 /\ i <= p
  <2>1. i - 1 \in 1..Len(s)
    BY <1>3
  <2> QED BY <1>1, <1>3, <2>1
<1>4. CASE i # 1 /\ ~(i <= p)
  BY <1>1, <1>4
<1> QED BY <1>2, <1>3, <1>4

LEMMA SizesAreNat ==
  ASSUME CacheInv, MostRecent
  PROVE  /\ Len(keyCache) \in Nat /\ Len(recency) \in Nat /\ Capacity \in Nat
         /\ Len(keyCache) <= Len(recency)
         /\ keyCache \in Seq(Keys) /\ recency \in Seq(Keys)
BY ControllerAssumption DEF CacheInv, TypeOK, MostRecent

(* The list of all uses stays without duplicates when a key moves.         *)
LEMMA UseMoves ==
  ASSUME recency \in Seq(Keys), \A i, j \in 1..Len(recency) : recency[i] = recency[j] => i = j,
         NEW p \in 1..Len(recency), recency' = MoveToFront(recency, p)
  PROVE  /\ Len(recency') = Len(recency)
         /\ \A i, j \in 1..Len(recency) : recency'[i] = recency'[j] => i = j
<1> DEFINE m == MoveToFront(recency, p)
<1>1. /\ Len(m) = Len(recency)
      /\ (\A i, j \in 1..Len(recency) : recency[i] = recency[j] => i = j)
           => (\A i, j \in 1..Len(recency) : m[i] = m[j] => i = j)
  BY MoveToFrontPermutes, Zenon
<1> QED BY <1>1

(* A use of a cached key moves it in both lists.                           *)
LEMMA UseCached ==
  ASSUME CacheInv, MostRecent, NEW k \in DOMAIN key2Index, Modify(k), RecordUse(k)
  PROVE  MostRecent'
<1>1. PICK p \in 1..Len(keyCache) : keyCache[p] = k
  BY DEF CacheInv, CacheConsistent
<1>2. p \in 1..Len(recency) /\ recency[p] = k
  BY <1>1, SizesAreNat DEF MostRecent
<1>3. Position(keyCache, k) = p
  BY <1>1, SizesAreNat, PositionIs DEF CacheInv, CacheConsistent
<1>4. Position(recency, k) = p
  BY <1>2, SizesAreNat, PositionIs DEF MostRecent
<1>5. keyCache' = MoveToFront(keyCache, p) /\ recency' = MoveToFront(recency, p)
  BY <1>2, <1>3, <1>4 DEF Modify, RecordUse
<1>6. Len(keyCache') = Len(keyCache)
  BY <1>1, <1>5, SizesAreNat, MoveToFrontPermutes
<1>7. /\ Len(recency') = Len(recency)
      /\ \A i, j \in 1..Len(recency) : recency'[i] = recency'[j] => i = j
  BY <1>2, <1>5, SizesAreNat, UseMoves DEF MostRecent
<1>8. \A i \in 1..Len(keyCache) : keyCache'[i] = recency'[i]
  BY <1>1, <1>5, SizesAreNat, MoveInFront DEF MostRecent
<1> QED BY <1>6, <1>7, <1>8 DEF MostRecent

(* A key that is not cached becomes the first of both lists; a full cache  *)
(* drops its last one.                                                     *)
LEMMA UseNew ==
  ASSUME CacheInv, MostRecent, NEW k \in Keys, k \notin DOMAIN key2Index, Capacity # 0,
         keyCache' = <<k>> \o (IF Len(keyCache) = Capacity
                               THEN SubSeq(keyCache, 1, Capacity - 1) ELSE keyCache),
         RecordUse(k)
  PROVE  MostRecent'
<1> DEFINE rest == IF Len(keyCache) = Capacity THEN SubSeq(keyCache, 1, Capacity - 1) ELSE keyCache
<1>1. /\ rest \in Seq(Keys)
      /\ Len(rest) = IF Len(keyCache) = Capacity THEN Capacity - 1 ELSE Len(keyCache)
      /\ \A i \in 1..Len(rest) : rest[i] = keyCache[i]
  BY SizesAreNat
<1>2. keyCache' = <<k>> \o rest
  OBVIOUS
<1> HIDE DEF rest
<1>3. /\ Len(keyCache') = Len(rest) + 1
      /\ keyCache'[1] = k
      /\ \A i \in 1..Len(rest) : keyCache'[i + 1] = rest[i]
  BY <1>1, <1>2
<1>4. Len(keyCache') = IF Len(keyCache) < Capacity THEN Len(keyCache) + 1 ELSE Capacity
  BY <1>1, <1>3, SizesAreNat DEF CacheInv, CacheConsistent
<1>5. \A i \in 1..Len(keyCache) : keyCache[i] # k
  BY DEF CacheInv, CacheConsistent
<1>6. ASSUME NEW i \in 1..Len(keyCache'), i # 1
      PROVE  i - 1 \in 1..Len(keyCache) /\ keyCache'[i] = recency[i - 1] /\ i <= Capacity
  <2>1. i - 1 \in 1..Len(rest) /\ (i - 1) + 1 = i
    BY <1>1, <1>3, <1>6, SizesAreNat
  <2>2. keyCache'[i] = rest[i - 1]
    BY <1>3, <2>1
  <2>3. i - 1 \in 1..Len(keyCache)
    BY <1>1, <2>1, SizesAreNat
  <2>4. i <= Capacity
    BY <1>1, <2>1, SizesAreNat DEF CacheInv, CacheConsistent
  <2> QED BY <1>1, <2>1, <2>2, <2>3, <2>4 DEF MostRecent
<1>7. CASE ~\E i \in 1..Len(recency) : recency[i] = k
  <2>1. recency' = <<k>> \o recency
    BY <1>7 DEF RecordUse
  <2>2. /\ Len(recency') = Len(recency) + 1
        /\ recency'[1] = k
        /\ \A i \in 1..Len(recency) : recency'[i + 1] = recency[i]
    BY <2>1, SizesAreNat
  <2>3. ASSUME NEW i \in 1..Len(recency'), i # 1
        PROVE  i - 1 \in 1..Len(recency) /\ recency'[i] = recency[i - 1]
    <3>1. i - 1 \in 1..Len(recency) /\ (i - 1) + 1 = i
      BY <2>2, <2>3, SizesAreNat
    <3> QED BY <2>2, <3>1
  <2>4. ASSUME NEW i \in 1..Len(recency'), NEW j \in 1..Len(recency'), recency'[i] = recency'[j]
        PROVE  i = j
    <3>1. CASE i = 1 \/ j = 1
      BY <1>7, <2>2, <2>3, <2>4, <3>1
    <3>2. CASE i # 1 /\ j # 1
      <4>1. /\ i - 1 \in 1..Len(recency) /\ j - 1 \in 1..Len(recency)
            /\ recency[i - 1] = recency[j - 1]
        BY <2>3, <2>4, <3>2
      <4>2. i - 1 = j - 1
        BY <4>1 DEF MostRecent
      <4> QED BY <4>2
    <3> QED BY <3>1, <3>2
  <2>5. Len(keyCache') = IF Len(recency') < Capacity THEN Len(recency') ELSE Capacity
    BY <1>4, <2>2, SizesAreNat DEF MostRecent
  <2>6. ASSUME NEW i \in 1..Len(keyCache') PROVE keyCache'[i] = recency'[i]
    <3>1. CASE i = 1
      BY <3>1, <1>3, <2>2
    <3>2. CASE i # 1
      <4>1. i - 1 \in 1..Len(recency) /\ (i - 1) + 1 = i
        BY <1>6, <3>2, SizesAreNat
      <4> QED BY <1>6, <2>2, <3>2, <4>1
    <3> QED BY <3>1, <3>2
  <2> QED BY <2>4, <2>5, <2>6 DEF MostRecent
<1>8. CASE \E i \in 1..Len(recency) : recency[i] = k
  <2>1. PICK q \in 1..Len(recency) : recency[q] = k
    BY <1>8
  <2>2. q > Len(keyCache)
    BY <1>5, <2>1, SizesAreNat DEF MostRecent
  <2>3. Len(keyCache) = Capacity /\ Capacity < q
    BY <2>1, <2>2, SizesAreNat DEF MostRecent
  <2>4. Position(recency, k) = q
    BY <2>1, SizesAreNat, PositionIs DEF MostRecent
  <2>5. recency' = MoveToFront(recency, q)
    BY <1>8, <2>4 DEF RecordUse
  <2>6. /\ Len(recency') = Len(recency)
        /\ \A i, j \in 1..Len(recency) : recency'[i] = recency'[j] => i = j
    BY <2>1, <2>5, SizesAreNat, UseMoves DEF MostRecent
  <2>7. Len(keyCache') = IF Len(recency') < Capacity THEN Len(recency') ELSE Capacity
    BY <1>4, <2>1, <2>3, <2>6, SizesAreNat
  <2>8. ASSUME NEW i \in 1..Len(keyCache') PROVE keyCache'[i] = recency'[i]
    <3>1. i \in 1..Len(recency)
      BY <1>4, <2>3, SizesAreNat
    <3>2. recency'[i] = IF i = 1 THEN recency[q] ELSE IF i <= q THEN recency[i - 1] ELSE recency[i]
      BY <2>5, <3>1 DEF MoveToFront
    <3>3. CASE i = 1
      BY <1>3, <2>1, <3>2, <3>3
    <3>4. CASE i # 1
      BY <1>6, <2>3, <3>2, <3>4, SizesAreNat
    <3> QED BY <3>3, <3>4
  <2> QED BY <2>6, <2>7, <2>8 DEF MostRecent
<1> QED BY <1>7, <1>8

LEMMA MostRecentStep == CacheInv /\ MostRecent /\ [Next]_vars => MostRecent'
<1> SUFFICES ASSUME CacheInv, MostRecent, [Next]_vars PROVE MostRecent'
  OBVIOUS
<1>1. ASSUME UNCHANGED <<keyCache, recency>> PROVE MostRecent'
  BY <1>1 DEF MostRecent
<1>2. ASSUME NEW t \in Threads, Get(t) PROVE MostRecent'
  <2>1. CASE key[t] \in DOMAIN key2Index
    BY <1>2, <2>1, UseCached DEF Get
  <2>2. CASE key[t] \notin DOMAIN key2Index
    BY <1>1, <1>2, <2>2 DEF Get
  <2> QED BY <2>1, <2>2
<1>3. ASSUME NEW t \in Threads, Put(t) PROVE MostRecent'
  <2>1. PICK r : CachePut(key[t], r)
    BY <1>3 DEF Put
  <2>2. key[t] \in Keys
    BY <1>3 DEF Put, CacheInv, TypeOK
  <2>3. CASE Capacity = 0
    BY <1>1, <2>1, <2>3 DEF CachePut, cacheVars
  <2>4. CASE Capacity # 0 /\ key[t] \in DOMAIN key2Index
    BY <2>1, <2>4, UseCached DEF CachePut
  <2>5. CASE Capacity # 0 /\ key[t] \notin DOMAIN key2Index
    <3>1. /\ keyCache' = <<key[t]>> \o (IF Len(keyCache) = Capacity
                               THEN SubSeq(keyCache, 1, Capacity - 1) ELSE keyCache)
          /\ RecordUse(key[t])
      BY <2>1, <2>5 DEF CachePut
    <3> QED BY <2>2, <2>5, <3>1, UseNew
  <2> QED BY <2>3, <2>4, <2>5
<1>4. ASSUME NEW t \in Threads, NEW k \in Keys, CheckLimitWritingEvent(t, k)
      PROVE  MostRecent'
  BY <1>1, <1>4 DEF CheckLimitWritingEvent
<1>5. CASE Tick \/ SetBack \/ UNCHANGED vars
  BY <1>1, <1>5 DEF Tick, SetBack, vars, cacheVars
<1> QED BY <1>2, <1>3, <1>4, <1>5 DEF Next

(* The LRU cache keeps the keys used last, for any number of threads and   *)
(* any capacity: a counter is forgotten only after Capacity other call     *)
(* sites were used.                                                        *)
THEOREM CacheKeepsMostRecent == Spec => []CacheHoldsMostRecent
<1>1. Init => MostRecent
  BY ControllerAssumption DEF Init, MostRecent
<1>2. CacheInv /\ MostRecent => CacheHoldsMostRecent
  <2> SUFFICES ASSUME CacheInv, MostRecent PROVE CacheHoldsMostRecent
    OBVIOUS
  <2> DEFINE n == IF Len(recency) < Capacity THEN Len(recency) ELSE Capacity
             front == SubSeq(recency, 1, n)
  <2>1. n \in Nat /\ n <= Len(recency)
    BY SizesAreNat
  <2>2. /\ front \in Seq(Keys) /\ Len(front) = n
        /\ \A i \in 1..n : front[i] = recency[i]
    <3> HIDE DEF n
    <3> QED BY <2>1, SizesAreNat
  <2>3. keyCache \in Seq(Keys) /\ Len(keyCache) = n /\ \A i \in 1..n : keyCache[i] = recency[i]
    BY SizesAreNat DEF MostRecent
  <2>4. keyCache = front
    <3> HIDE DEF n, front
    <3> QED BY <2>1, <2>2, <2>3
  <2> QED BY <2>4 DEF CacheHoldsMostRecent
<1> QED BY <1>1, <1>2, CacheInvInit, CacheInvStep, MostRecentStep, PTL DEF Spec
-----------------------------------------------------------------------------
(* While checks do not overlap and the clock is not set back, there is one *)
(* check at a time, its copy of the record is that of the cache, and no    *)
(* window was opened behind the clock.                                     *)
OneAtATime ==
  /\ \A t, u \in Threads : pc[t] # "idle" /\ pc[u] # "idle" => t = u
  /\ \A k \in DOMAIN key2Index : Sec(key2Index[k].timestamp) <= Sec(clock)
  /\ \A t \in Threads : pc[t] # "idle" =>
       /\ Sec(cur[t]) <= Sec(clock)
       /\ \A k \in DOMAIN key2Index : Sec(key2Index[k].timestamp) <= Sec(cur[t])
  /\ \A t \in Threads : pc[t] = "put" =>
       record[t] = IF key[t] \in DOMAIN key2Index THEN key2Index[key[t]] ELSE NoRecord

(* The window of e is that of the counter r, or ended before it.           *)
Passed(e, r) == e.opened = r.timestamp \/ Sec(e.opened) + Period < Sec(r.timestamp)

InOldWindows ==
  \A e \in log : e.key \in DOMAIN key2Index /\ Passed(e, key2Index[e.key])

InOwnWindow == \A e \in log : InWindow(e.time, e.opened)

Allowed == IF Threshold = 0 THEN 1 ELSE Threshold

(* What was admitted in the window of a counter was counted, and is not    *)
(* more than allowed.                                                      *)
Counted(l, k, r) ==
  /\ r.count >= 1
  /\ Cardinality(AdmittedIn(l, k, r.timestamp)) <= r.count
  /\ Cardinality(AdmittedIn(l, k, r.timestamp)) <= Allowed

AllCounted == \A k \in DOMAIN key2Index : Counted(log, k, key2Index[k])

(* What holds while nothing disturbs the checks.                           *)
Calm == OneAtATime /\ InOldWindows /\ AllCounted /\ LimitPerWindow

(* A later time is in no earlier second.                                   *)
LEMMA SecGrows ==
  ASSUME NEW x \in Nat, NEW y \in Nat, x <= y
  PROVE  Sec(x) <= Sec(y)
<1> DEFINE S == SecToMillis
           p == x \div S
           q == y \div S
<1>1. S \in Nat /\ S >= 1
  BY ControllerAssumption
<1>2. p \in Int /\ q \in Int /\ S * p <= x /\ y < S * q + S
  <2> HIDE DEF S
  <2> QED BY <1>1
<1>3. p <= q
  <2> SUFFICES ASSUME q + 1 <= p PROVE FALSE
    BY <1>2
  <2> HIDE DEF p, q, S
  <2>1. S * (q + 1) <= S * p
    BY <1>1, <1>2
  <2>2. S * (q + 1) = S * q + S
    BY <1>1, <1>2
  <2> QED BY <1>1, <1>2, <2>1, <2>2
<1> QED BY <1>3 DEF Sec

(* A write that is discarded, of another call site or behind the window is *)
(* not in it.                                                              *)
LEMMA AdmittedSame ==
  ASSUME NEW l, NEW k, NEW o, NEW e, ~(e.ok /\ e.key = k /\ InWindow(e.time, o))
  PROVE  AdmittedIn(l \cup {e}, k, o) = AdmittedIn(l, k, o)
BY DEF AdmittedIn

LEMMA AllowedIsNat == Allowed \in Nat /\ Allowed >= 1 /\ Threshold <= Allowed
BY ControllerAssumption DEF Allowed

(* The first check of a window finds nothing that was admitted in it.      *)
LEMMA FreshWindow ==
  ASSUME NEW l \in SUBSET LogEntry, IsFiniteSet(l), NEW k, NEW old \in EventWroteRecord,
         NEW now \in Nat, Restarts(old, now), Sec(old.timestamp) <= Sec(now),
         \A x \in l : InWindow(x.time, x.opened),
         \A x \in l : x.key = k => Passed(x, old) /\ old.count >= 1
  PROVE  /\ AdmittedIn(l, k, now) = {}
         /\ \A x \in l : x.key = k => Sec(x.opened) + Period < Sec(now)
<1>1. ASSUME NEW x \in l, x.key = k
      PROVE  Sec(x.opened) + Period < Sec(now) /\ ~InWindow(x.time, now)
  <2>1. /\ Sec(x.time) \in Int /\ Sec(x.opened) \in Int /\ Sec(old.timestamp) \in Int
        /\ Sec(now) \in Int /\ Period \in Nat /\ old.count \in Nat
    BY SecType, ControllerAssumption DEF LogEntry, EventWroteRecord
  <2>2. Sec(old.timestamp) + Period < Sec(now)
    BY <1>1, <2>1 DEF Restarts
  <2>3. Sec(x.opened) + Period < Sec(now)
    BY <1>1, <2>1, <2>2 DEF Passed
  <2>4. Sec(x.time) <= Sec(x.opened) + Period
    BY DEF InWindow
  <2> QED BY <2>1, <2>3, <2>4 DEF InWindow
<1> QED BY <1>1 DEF AdmittedIn

(* The counter that a check puts back has counted the check.               *)
LEMMA NewRecordCounted ==
  ASSUME NEW l \in SUBSET LogEntry, IsFiniteSet(l), NEW k, NEW old \in EventWroteRecord,
         NEW now \in Nat, Sec(old.timestamp) <= Sec(now),
         \A x \in l : InWindow(x.time, x.opened),
         \A x \in l : x.key = k => Passed(x, old) /\ old.count >= 1,
         old.count # 0 => Counted(l, k, old),
         NEW e, e \notin l, e.ok = Admits(old, now), e.key = k, e.time = now
  PROVE  Counted(l \cup {e}, k, NewRecord(old, now))
<1> DEFINE r == NewRecord(old, now)
           o == r.timestamp
           n == Cardinality(AdmittedIn(l, k, o))
           m == Cardinality(AdmittedIn(l \cup {e}, k, o))
<1>1. /\ r \in EventWroteRecord /\ r.count \in Nat /\ old.count \in Nat
      /\ InWindow(e.time, o)
  BY NewRecordType, NewRecordWindow DEF EventWroteRecord
<1>2. n \in Nat
  BY AdmittedFinite
<1>3. Admits(old, now) => m = n + 1
  <2> SUFFICES ASSUME Admits(old, now) PROVE m = n + 1
    OBVIOUS
  <2>1. e.ok
    OBVIOUS
  <2>2. \A w : InWindow(e.time, w) =>
          Cardinality(AdmittedIn(l \cup {e}, k, w)) = Cardinality(AdmittedIn(l, k, w)) + 1
    BY <2>1, AdmittedAdds
  <2> QED BY <1>1, <2>2
<1>4. ~Admits(old, now) => m = n
  <2> SUFFICES ASSUME ~Admits(old, now) PROVE m = n
    OBVIOUS
  <2>1. \A w : AdmittedIn(l \cup {e}, k, w) = AdmittedIn(l, k, w)
    BY AdmittedSame
  <2> QED BY <2>1
<1>5. CASE Restarts(old, now)
  <2>1. o = now /\ r.count = 1 /\ Admits(old, now)
    BY <1>5 DEF NewRecord, Admits
  <2>2. AdmittedIn(l, k, now) = {}
    BY <1>5, FreshWindow
  <2>3. n = 0
    <3>1. Cardinality({}) = 0
      BY FS_EmptySet
    <3>2. AdmittedIn(l, k, o) = {}
      <4> HIDE DEF r
      <4> QED BY <2>1, <2>2
    <3> QED BY <3>1, <3>2
  <2>4. m = 1
    BY <1>3, <2>1, <2>3
  <2>5. r.count >= 1 /\ m <= r.count /\ m <= Allowed
    <3> HIDE DEF m, r
    <3> QED BY <2>1, <2>4, AllowedIsNat
  <2> QED BY <2>5 DEF Counted
<1>6. CASE ~Restarts(old, now)
  <2>1. /\ o = old.timestamp /\ r.count = old.count + 1 /\ old.count # 0
        /\ Admits(old, now) <=> old.count + 1 <= Threshold
    BY <1>6 DEF NewRecord, Admits, Restarts
  <2>2. n <= old.count /\ n <= Allowed
    BY <2>1 DEF Counted
  <2>3. r.count >= 1 /\ m <= r.count /\ m <= Allowed
    <3>1. (m = n + 1 /\ old.count + 1 <= Threshold) \/ m = n
      BY <1>3, <1>4, <2>1
    <3> HIDE DEF m, n, r
    <3> QED BY <1>1, <1>2, <2>1, <2>2, <3>1, AllowedIsNat, ControllerAssumption
  <2> QED BY <2>3 DEF Counted
<1> QED BY <1>5, <1>6

-----------------------------------------------------------------------------
LEMMA OwnWindowStep == CacheInv /\ InOwnWindow /\ [Next]_vars => InOwnWindow'
<1> SUFFICES ASSUME CacheInv, InOwnWindow, [Next]_vars PROVE InOwnWindow'
  OBVIOUS
<1>1. ASSUME log' = log PROVE InOwnWindow'
  BY <1>1 DEF InOwnWindow
<1>2. ASSUME NEW t \in Threads, Put(t) PROVE InOwnWindow'
  <2> DEFINE r == NewRecord(record[t], cur[t])
             e == [id |-> id[t], key |-> key[t], time |-> cur[t], opened |-> r.timestamp,
                   ok |-> Admits(record[t], cur[t])]
  <2>1. /\ log' = log \cup {e} /\ e.time = cur[t]
        /\ e.opened = NewRecord(record[t], cur[t]).timestamp
    BY <1>2 DEF Put
  <2>2. record[t] \in EventWroteRecord /\ cur[t] \in Nat
    BY <1>2 DEF CacheInv, TypeOK
  <2>3. InWindow(e.time, e.opened)
    BY <2>1, <2>2, NewRecordWindow
  <2> HIDE DEF e
  <2> QED BY <2>1, <2>3 DEF InOwnWindow
<1>3. ASSUME NEW t \in Threads, NEW k \in Keys, CheckLimitWritingEvent(t, k)
      PROVE  InOwnWindow'
  BY <1>1, <1>3 DEF CheckLimitWritingEvent
<1>4. CASE Tick \/ SetBack \/ UNCHANGED vars
  BY <1>1, <1>4 DEF Tick, SetBack, vars
<1>5. ASSUME NEW t \in Threads, Get(t) PROVE InOwnWindow'
  BY <1>1, <1>5 DEF Get
<1> QED BY <1>2, <1>3, <1>4, <1>5 DEF Next

LEMMA CalmCheck ==
  ASSUME CacheInv, Calm, NEW t \in Threads, NEW k \in Keys, CheckLimitWritingEvent(t, k),
         \A u \in Threads : pc[u] = "idle"
  PROVE  Calm'
<1>1. /\ \A u \in Threads : pc'[u] # "idle" => u = t
      /\ pc'[t] = "get" /\ cur'[t] = clock
      /\ UNCHANGED <<clock, key2Index, keyCache, record, log>>
  BY DEF CheckLimitWritingEvent, CacheInv, TypeOK
<1>2. Sec(clock) \in Int
  BY SecType DEF CacheInv, TypeOK
<1>3. OneAtATime'
  BY <1>1, <1>2 DEF Calm, OneAtATime
<1> QED BY <1>1, <1>3 DEF Calm, InOldWindows, AllCounted, LimitPerWindow

LEMMA CalmGet ==
  ASSUME CacheInv, Calm, NEW t \in Threads, Get(t)
  PROVE  Calm'
<1>1. /\ pc[t] = "get" /\ pc' = [pc EXCEPT ![t] = "put"]
      /\ record' = [record EXCEPT ![t] =
                       IF key[t] \in DOMAIN key2Index THEN key2Index[key[t]] ELSE NoRecord]
      /\ UNCHANGED <<clock, key2Index, key, cur, log>>
  BY DEF Get
<1>2. \A u \in Threads : pc[u] # "idle" => u = t
  BY <1>1 DEF Calm, OneAtATime
<1>3. \A u \in Threads : pc'[u] # "idle" => u = t
  BY <1>1, <1>2 DEF CacheInv, TypeOK
<1>4. OneAtATime'
  <2>1. /\ Sec(cur[t]) <= Sec(clock)
        /\ \A k \in DOMAIN key2Index : Sec(key2Index[k].timestamp) <= Sec(cur[t])
    BY <1>1 DEF Calm, OneAtATime
  <2>2. record'[t] = IF key[t] \in DOMAIN key2Index THEN key2Index[key[t]] ELSE NoRecord
    BY <1>1 DEF CacheInv, TypeOK
  <2> QED BY <1>1, <1>3, <2>1, <2>2 DEF Calm, OneAtATime
<1> QED BY <1>1, <1>4 DEF Calm, InOldWindows, AllCounted, LimitPerWindow

LEMMA CalmTick ==
  ASSUME CacheInv, Calm, Tick
  PROVE  Calm'
<1>1. /\ clock' = clock + 1
      /\ UNCHANGED <<key2Index, keyCache, recency, pc, key, cur, record, calls, id, log>>
  BY DEF Tick, cacheVars
<1>2. /\ clock \in Nat /\ clock + 1 \in Nat
      /\ \A k \in DOMAIN key2Index : key2Index[k].timestamp \in Nat
      /\ \A t \in Threads : cur[t] \in Nat
  BY DEF CacheInv, TypeOK, EventWroteRecord
<1>3. \A x \in Nat : Sec(x) \in Int
  BY SecType
<1>4. \A x, y \in Nat : x <= y => Sec(x) <= Sec(y)
  BY SecGrows
<1>5. Sec(clock) <= Sec(clock + 1) /\ Sec(clock) \in Int /\ Sec(clock + 1) \in Int
  BY <1>2, <1>3, <1>4
<1>6. \A k \in DOMAIN key2Index : Sec(key2Index[k].timestamp) <= Sec(clock + 1)
  BY <1>2, <1>3, <1>5 DEF Calm, OneAtATime
<1>7. \A t \in Threads : pc[t] # "idle" => Sec(cur[t]) <= Sec(clock + 1)
  BY <1>2, <1>3, <1>5 DEF Calm, OneAtATime
<1>8. OneAtATime'
  BY <1>1, <1>6, <1>7 DEF Calm, OneAtATime
<1> QED BY <1>1, <1>8 DEF Calm, InOldWindows, AllCounted, LimitPerWindow

(* A Put that evicts no counter.                                           *)
LEMMA PutWithoutEviction ==
  ASSUME CacheInv, NEW k \in Keys, NEW r \in EventWroteRecord, CachePut(k, r),
         k \in DOMAIN key2Index \/ Len(keyCache) < Capacity
  PROVE  /\ DOMAIN key2Index' = DOMAIN key2Index \cup {k}
         /\ key2Index'[k] = r
         /\ \A x \in DOMAIN key2Index : x # k => key2Index'[x] = key2Index[x]
<1>1. Capacity # 0 /\ Len(keyCache) \in Nat /\ Capacity \in Nat
  BY ControllerAssumption DEF CacheInv, TypeOK, CacheConsistent
<1>2. CASE k \in DOMAIN key2Index
  BY <1>1, <1>2 DEF CachePut, CacheInv, TypeOK
<1>3. CASE k \notin DOMAIN key2Index
  <2>1. key2Index' = [x \in DOMAIN key2Index \cup {k} |-> IF x = k THEN r ELSE key2Index[x]]
    BY <1>1, <1>3 DEF CachePut
  <2> QED BY <1>3, <2>1
<1> QED BY <1>2, <1>3

(* A Put while nothing disturbs the checks.                                *)
LEMMA CalmPut ==
  ASSUME RejectInv, InOwnWindow, Calm, NEW t \in Threads, Put(t),
         key[t] \in DOMAIN key2Index \/ Len(keyCache) < Capacity
  PROVE  Calm'
<1> DEFINE k == key[t]
           old == record[t]
           now == cur[t]
           r == NewRecord(old, now)
           e == [id |-> id[t], key |-> k, time |-> now, opened |-> r.timestamp,
                 ok |-> Admits(old, now)]
<1>1. /\ k \in Keys /\ old \in EventWroteRecord /\ now \in Nat /\ r \in EventWroteRecord
      /\ log \in SUBSET LogEntry /\ IsFiniteSet(log)
  BY NewRecordType DEF Put, RejectInv, CacheInv, TypeOK, Numbered
<1>2. log' = log \cup {e} /\ e \notin log /\ CachePut(k, r) /\ pc[t] = "put"
  BY DEF Put, RejectInv, Numbered
<1>3. /\ e.ok = Admits(old, now) /\ e.key = k /\ e.time = now /\ e.opened = r.timestamp
  OBVIOUS
<1>4. /\ DOMAIN key2Index' = DOMAIN key2Index \cup {k}
      /\ key2Index'[k] = r
      /\ \A x \in DOMAIN key2Index : x # k => key2Index'[x] = key2Index[x]
  <2> HIDE DEF r
  <2> QED BY <1>1, <1>2, PutWithoutEviction DEF RejectInv
<1>5. old = IF k \in DOMAIN key2Index THEN key2Index[k] ELSE NoRecord
  BY <1>2 DEF Calm, OneAtATime
<1>6. /\ \A x \in DOMAIN key2Index : key2Index[x] \in EventWroteRecord
      /\ \A x \in Nat : Sec(x) \in Int
      /\ clock \in Nat
  BY SecType DEF RejectInv, CacheInv, TypeOK
<1>7. Sec(old.timestamp) <= Sec(now)
  <2>1. CASE k \in DOMAIN key2Index
    BY <1>2, <1>5, <2>1 DEF Calm, OneAtATime
  <2>2. CASE k \notin DOMAIN key2Index
    <3>1. old.timestamp = 0
      BY <1>5, <2>2 DEF NoRecord
    <3>2. Sec(0) <= Sec(now)
      BY <1>1, SecGrows
    <3> QED BY <3>1, <3>2
  <2> QED BY <2>1, <2>2
<1>8. \A x \in log : x.key = k => Passed(x, old) /\ old.count >= 1
  BY <1>5 DEF Calm, InOldWindows, AllCounted, Counted
<1>9. old.count # 0 => Counted(log, k, old)
  <2>1. NoRecord.count = 0
    BY DEF NoRecord
  <2> QED BY <1>5, <2>1 DEF Calm, AllCounted
<1>10. Counted(log', k, r)
  <2> HIDE DEF k, old, now, e
  <2> QED BY <1>1, <1>2, <1>3, <1>7, <1>8, <1>9, NewRecordCounted DEF InOwnWindow
<1>11. /\ Sec(r.timestamp) <= Sec(now) /\ Sec(now) <= Sec(clock)
       /\ InWindow(now, r.timestamp)
  BY <1>1, <1>2, NewRecordWindow DEF InWindow, Calm, OneAtATime
<1>12. ASSUME NEW x \in log, x.key = k
       PROVE  Passed(x, r)
  <2>1. CASE Restarts(old, now)
    <3>1. r.timestamp = now
      BY <2>1 DEF NewRecord
    <3>2. Sec(x.opened) + Period < Sec(now)
      <4> HIDE DEF k, old, now
      <4> QED BY <1>1, <1>7, <1>8, <1>12, <2>1, FreshWindow DEF InOwnWindow
    <3> HIDE DEF r
    <3> QED BY <3>1, <3>2 DEF Passed
  <2>2. CASE ~Restarts(old, now)
    <3>1. r.timestamp = old.timestamp
      BY <2>2 DEF NewRecord
    <3>2. Passed(x, old)
      BY <1>8, <1>12
    <3> HIDE DEF r, old
    <3> QED BY <3>1, <3>2 DEF Passed
  <2> QED BY <2>1, <2>2
<1> HIDE DEF k, old, now, r, e
<1>13. OneAtATime'
  <2>1. \A u \in Threads : pc'[u] = "idle"
    BY <1>2 DEF Calm, OneAtATime, Put, RejectInv, CacheInv, TypeOK
  <2>2. clock' = clock
    BY DEF Put
  <2>3. \A x \in DOMAIN key2Index : Sec(key2Index[x].timestamp) <= Sec(clock)
    BY DEF Calm, OneAtATime
  <2>4. Sec(r.timestamp) <= Sec(clock)
    BY <1>1, <1>6, <1>11 DEF EventWroteRecord
  <2>5. \A x \in DOMAIN key2Index' : Sec(key2Index'[x].timestamp) <= Sec(clock)
    BY <1>4, <2>3, <2>4
  <2> QED BY <2>1, <2>2, <2>5 DEF OneAtATime
<1>14. InOldWindows'
  <2>1. ASSUME NEW x \in log PROVE x.key \in DOMAIN key2Index' /\ Passed(x, key2Index'[x.key])
    BY <1>4, <1>12, <2>1 DEF Calm, InOldWindows
  <2>2. Passed(e, r)
    BY <1>3 DEF Passed
  <2> QED BY <1>2, <1>3, <1>4, <2>1, <2>2 DEF InOldWindows
<1>15. AllCounted'
  <2>1. ASSUME NEW x \in DOMAIN key2Index, x # k PROVE Counted(log', x, key2Index'[x])
    <3>1. Counted(log, x, key2Index[x]) /\ key2Index'[x] = key2Index[x]
      BY <1>4, <2>1 DEF Calm, AllCounted
    <3>2. \A o : AdmittedIn(log', x, o) = AdmittedIn(log, x, o)
      BY <1>2, <1>3, <2>1, AdmittedSame
    <3> QED BY <3>1, <3>2 DEF Counted
  <2> QED BY <1>4, <1>10, <2>1 DEF AllCounted
<1>16. LimitPerWindow'
  <2>1. ASSUME NEW x \in log' PROVE Cardinality(AdmittedIn(log', x.key, x.opened)) <= Allowed
    <3>1. CASE x.key = k /\ x.opened = r.timestamp
      BY <1>10, <3>1 DEF Counted
    <3>2. CASE x \in log /\ (x.key # k \/ x.opened # r.timestamp)
      <4>1. ~(e.key = x.key /\ InWindow(e.time, x.opened))
        <5>1. CASE x.key # k
          BY <1>3, <5>1
        <5>2. CASE x.key = k
          <6>1. Sec(x.opened) + Period < Sec(r.timestamp)
            BY <1>12, <3>2, <5>2 DEF Passed
          <6>2. Sec(x.opened) \in Int /\ Sec(r.timestamp) \in Int /\ Sec(now) \in Int /\ Period \in Nat
            BY <1>1, <1>6, <3>2, ControllerAssumption DEF LogEntry, EventWroteRecord
          <6>3. ~(Sec(now) <= Sec(x.opened) + Period)
            BY <1>11, <6>1, <6>2
          <6> QED BY <1>3, <6>3 DEF InWindow
        <5> QED BY <5>1, <5>2
      <4>2. AdmittedIn(log', x.key, x.opened) = AdmittedIn(log, x.key, x.opened)
        BY <1>2, <4>1, AdmittedSame
      <4> QED BY <3>2, <4>2 DEF Calm, LimitPerWindow, Allowed
    <3>3. CASE x = e
      BY <1>3, <3>1, <3>3
    <3> QED BY <1>2, <3>1, <3>2, <3>3
  <2> QED BY <2>1 DEF LimitPerWindow, Allowed
<1> QED BY <1>13, <1>14, <1>15, <1>16 DEF Calm

LEMMA CalmStep == RejectInv /\ InOwnWindow /\ (undisturbed => Calm) /\ [Next]_vars
                    => (undisturbed => Calm)'
<1> SUFFICES ASSUME RejectInv, InOwnWindow, undisturbed => Calm, [Next]_vars, undisturbed'
             PROVE  Calm'
  OBVIOUS
<1>1. CacheInv
  BY DEF RejectInv
<1>2. ASSUME NEW t \in Threads, NEW k \in Keys, CheckLimitWritingEvent(t, k) PROVE Calm'
  <2>1. undisturbed /\ \A u \in Threads : pc[u] = "idle"
    BY <1>2 DEF CheckLimitWritingEvent
  <2> QED BY <1>1, <1>2, <2>1, CalmCheck
<1>3. ASSUME NEW t \in Threads, Get(t) PROVE Calm'
  <2>1. undisturbed
    BY <1>3 DEF Get
  <2> QED BY <1>1, <1>3, <2>1, CalmGet
<1>4. ASSUME NEW t \in Threads, Put(t) PROVE Calm'
  <2>1. undisturbed /\ (key[t] \in DOMAIN key2Index \/ Len(keyCache) < Capacity)
    BY <1>4 DEF Put
  <2> QED BY <1>4, <2>1, CalmPut
<1>5. CASE Tick
  <2>1. undisturbed
    BY <1>5 DEF Tick
  <2> QED BY <1>1, <1>5, <2>1, CalmTick
<1>6. CASE SetBack
  BY <1>6 DEF SetBack
<1>7. CASE UNCHANGED vars
  BY <1>7 DEF vars, Calm, OneAtATime, InOldWindows, AllCounted, LimitPerWindow
<1> QED BY <1>2, <1>3, <1>4, <1>5, <1>6, <1>7 DEF Next

(* What the limit is worth, for any number of call sites, any period and   *)
(* threshold: while checks do not overlap, no counter is evicted and the   *)
(* clock is not set back, no window admits more than Threshold writes.     *)
THEOREM LimitHoldsUndisturbed == Spec => []LimitUnlessDisturbed
<1> DEFINE I == RejectInv /\ InOwnWindow /\ (undisturbed => Calm)
<1>1. Init => I
  <2>1. Init => InOwnWindow /\ Calm
    BY DEF Init, InOwnWindow, Calm, OneAtATime, InOldWindows, AllCounted, LimitPerWindow
  <2> QED BY <2>1, RejectInvInit
<1>2. I /\ [Next]_vars => I'
  <2>1. RejectInv => CacheInv
    BY DEF RejectInv
  <2> QED BY <2>1, RejectInvStep, OwnWindowStep, CalmStep
<1>3. I => LimitUnlessDisturbed
  BY DEF Calm, LimitUnlessDisturbed
<1> QED BY <1>1, <1>2, <1>3, PTL DEF Spec
=============================================================================
