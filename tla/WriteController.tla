--------------------------- MODULE WriteController ---------------------------
(***************************************************************************)
(* The frequency limit on event writing: WriteController and its           *)
(* EventWroteLruCache.  One process-wide LRU cache maps the key of a call  *)
(* site (a hash of event name, function and line) to the number of writes  *)
(* seen in the current window and the time the window was opened.          *)
(*                                                                         *)
(* A check reads the clock, copies the record out of the cache, decides,   *)
(* and puts the record back.  Get and Put each take the cache's mutex, but *)
(* the mutex is free between them, so the checks of several threads        *)
(* interleave at exactly these points.                                     *)
(***************************************************************************)
EXTENDS Integers, Sequences, FiniteSets

CONSTANTS
  Threads,      (* application threads that write events                    *)
  Keys,         (* keys of the call sites, as ConcatenateInfoAsKey builds   *)
  NoKey,        (* no key: the thread is in no check                        *)
  Capacity,     (* LRU_CACHE_DEFAULT_SIZE                                   *)
  Period,       (* ControlParam.period, in seconds                          *)
  Threshold,    (* ControlParam.threshold                                   *)
  SecToMillis,  (* milliseconds in a second                                 *)
  ClockSteps,   (* how the system clock moves: subset of {"tick", "back"}   *)
  MaxTime,      (* bound on the clock                                       *)
  MaxCalls      (* bound on the number of checks                            *)

ASSUME ControllerAssumption ==
  /\ NoKey \notin Keys
  /\ Capacity \in Nat
  /\ Period \in Nat
  /\ Threshold \in Nat
  /\ SecToMillis \in Nat \ {0}
  /\ ClockSteps \subseteq {"tick", "back"}
  /\ MaxTime \in Nat
  /\ MaxCalls \in Nat

VARIABLES
  clock,      (* std::chrono::system_clock in milliseconds                  *)
  key2Index,  (* cached key -> EventWroteRecord                             *)
  keyCache,   (* the cached keys, most recently used first                  *)
  pc,         (* where each thread is inside CheckLimitWritingEvent         *)
  key,        (* local of each thread: the key it checks                    *)
  cur,        (* local of each thread: CallerInfo.timeStamp                 *)
  record,     (* local of each thread: its copy of the record               *)
  calls,      (* number of checks started; numbers the entries of log       *)
  id,         (* number of the check each thread is in                      *)
  log,        (* history: one entry for each finished check                 *)
  recency,    (* history: every key ever used, most recently used first     *)
  undisturbed (* history: no checks overlapped, no counter was evicted, the *)
              (* clock was not set back                                     *)

cacheVars == <<key2Index, keyCache, recency>>
vars == <<clock, key2Index, keyCache, pc, key, cur, record, calls, id, log, recency,
          undisturbed>>

EventWroteRecord == [count : Nat, timestamp : Nat]
NoRecord == [count |-> 0, timestamp |-> 0]
LogEntry == [id : Nat, key : Keys, time : Nat, opened : Nat, ok : BOOLEAN]

Sec(time) == time \div SecToMillis
-----------------------------------------------------------------------------
(* std::list::splice of the element at position i to the front.            *)
MoveToFront(s, i) ==
  [j \in 1..Len(s) |-> IF j = 1 THEN s[i] ELSE IF j <= i THEN s[j - 1] ELSE s[j]]

(* EventWroteCacheNode.iter: where the cached key k is in keyCache.        *)
Position(s, k) == CHOOSE i \in 1..Len(s) : s[i] = k

(* Mutant of Modify: the splice is forgotten.                              *)
ModifyInPlace(k) == keyCache' = keyCache

(* Modify: the key becomes the most recently used one.                     *)
Modify(k) == keyCache' = MoveToFront(keyCache, Position(keyCache, k))

(* History of uses: the list an LRU cache without a capacity would keep.   *)
RecordUse(k) ==
  recency' = IF \E i \in 1..Len(recency) : recency[i] = k
             THEN MoveToFront(recency, Position(recency, k))
             ELSE <<k>> \o recency
-----------------------------------------------------------------------------
(* EventWroteLruCache::Get: a copy of the record, or a fresh one.          *)
Get(t) ==
  LET k == key[t] IN
  /\ pc[t] = "get"
  /\ IF k \in DOMAIN key2Index
     THEN /\ record' = [record EXCEPT ![t] = key2Index[k]]
          /\ Modify(k)
          /\ RecordUse(k)
     ELSE /\ record' = [record EXCEPT ![t] = NoRecord]
          /\ UNCHANGED <<keyCache, recency>>
  /\ pc' = [pc EXCEPT ![t] = "put"]
  /\ UNCHANGED <<clock, key2Index, key, cur, calls, id, log, undisturbed>>

(* Mutant of CachePut: the evicted key stays in the index.                 *)
CachePutKeepsIndex(k, r) ==
  /\ key2Index' = [x \in DOMAIN key2Index \cup {k} |-> IF x = k THEN r ELSE key2Index[x]]
  /\ IF k \in DOMAIN key2Index
     THEN Modify(k)
     ELSE keyCache' = <<k>> \o SubSeq(keyCache, 1,
                                 IF Len(keyCache) = Capacity THEN Capacity - 1 ELSE Len(keyCache))
  /\ RecordUse(k)

(* EventWroteLruCache::Put: overwrite, or insert after evicting the least  *)
(* recently used key of a full cache.                                      *)
CachePut(k, r) ==
  IF Capacity = 0 THEN UNCHANGED cacheVars
  ELSE IF k \in DOMAIN key2Index
  THEN /\ key2Index' = [key2Index EXCEPT ![k] = r]
       /\ Modify(k)
       /\ RecordUse(k)
  ELSE LET full == Len(keyCache) = Capacity
           kept == IF full THEN DOMAIN key2Index \ {keyCache[Capacity]}
                           ELSE DOMAIN key2Index
       IN /\ key2Index' = [x \in kept \cup {k} |-> IF x = k THEN r ELSE key2Index[x]]
          /\ keyCache' = <<k>> \o (IF full THEN SubSeq(keyCache, 1, Capacity - 1) ELSE keyCache)
          /\ RecordUse(k)

(* Mutant of Restarts: a window that has passed is never closed.           *)
RestartsOnlyBackwards(r, now) == r.count = 0 \/ Sec(r.timestamp) > Sec(now)

(* The record that was read starts a new window for a write at time now:   *)
(* it is fresh, its window has passed, or the clock is behind the window.  *)
Restarts(r, now) ==
  \/ r.count = 0
  \/ Sec(r.timestamp) + Period < Sec(now)
  \/ Sec(r.timestamp) > Sec(now)

(* Mutant of NewRecord: a new window keeps the time since the last one.    *)
NewRecordElapsed(r, now) ==
  IF Restarts(r, now) THEN [count |-> 1, timestamp |-> now - r.timestamp]
                      ELSE [count |-> r.count + 1, timestamp |-> r.timestamp]

(* The record CheckLimitWritingEvent puts back, and whether it admits.     *)
NewRecord(r, now) ==
  IF Restarts(r, now) THEN [count |-> 1, timestamp |-> now]
                      ELSE [count |-> r.count + 1, timestamp |-> r.timestamp]

(* Mutant of Admits: the count is compared before it is increased.         *)
AdmitsOneMore(r, now) == Restarts(r, now) \/ r.count <= Threshold

Admits(r, now) == Restarts(r, now) \/ r.count + 1 <= Threshold

(* CheckLimitWritingEvent after Get: decide, put the record back, return.  *)
Put(t) ==
  LET r == NewRecord(record[t], cur[t]) IN
  /\ pc[t] = "put"
  /\ CachePut(key[t], r)
  /\ log' = log \cup {[id |-> id[t], key |-> key[t], time |-> cur[t],
                       opened |-> r.timestamp, ok |-> Admits(record[t], cur[t])]}
  /\ pc' = [pc EXCEPT ![t] = "idle"]
  /\ key' = [key EXCEPT ![t] = NoKey]
  /\ cur' = [cur EXCEPT ![t] = 0]
  /\ record' = [record EXCEPT ![t] = NoRecord]
  /\ id' = [id EXCEPT ![t] = 0]
  /\ undisturbed' = (undisturbed /\ (key[t] \in DOMAIN key2Index \/ Len(keyCache) < Capacity))
  /\ UNCHANGED <<clock, calls>>

(* CheckLimitWritingEvent up to Get: the key is built, the clock is read.  *)
CheckLimitWritingEvent(t, k) ==
  /\ pc[t] = "idle"
  /\ calls < MaxCalls
  /\ key' = [key EXCEPT ![t] = k]
  /\ cur' = [cur EXCEPT ![t] = clock]
  /\ id' = [id EXCEPT ![t] = calls]
  /\ calls' = calls + 1
  /\ pc' = [pc EXCEPT ![t] = "get"]
  /\ undisturbed' = (undisturbed /\ \A u \in Threads : pc[u] = "idle")
  /\ UNCHANGED <<clock, key2Index, keyCache, record, log, recency>>

(* The system clock advances, or is set back by the user or the network.   *)
Tick ==
  /\ "tick" \in ClockSteps
  /\ clock < MaxTime
  /\ clock' = clock + 1
  /\ UNCHANGED <<cacheVars, pc, key, cur, record, calls, id, log, undisturbed>>

SetBack ==
  /\ "back" \in ClockSteps
  /\ clock > SecToMillis
  /\ clock' = SecToMillis
  /\ undisturbed' = FALSE
  /\ UNCHANGED <<cacheVars, pc, key, cur, record, calls, id, log>>
-----------------------------------------------------------------------------
Init ==
  /\ clock = SecToMillis
  /\ key2Index = <<>>
  /\ keyCache = <<>>
  /\ pc = [t \in Threads |-> "idle"]
  /\ key = [t \in Threads |-> NoKey]
  /\ cur = [t \in Threads |-> 0]
  /\ record = [t \in Threads |-> NoRecord]
  /\ calls = 0
  /\ id = [t \in Threads |-> 0]
  /\ log = {}
  /\ recency = <<>>
  /\ undisturbed = TRUE

Next ==
  \/ \E t \in Threads :
       \/ \E k \in Keys : CheckLimitWritingEvent(t, k)
       \/ Get(t)
       \/ Put(t)
  \/ Tick
  \/ SetBack

Spec == Init /\ [][Next]_vars
-----------------------------------------------------------------------------
(* A write at time falls into the window that was opened at opened.        *)
InWindow(time, opened) ==
  Sec(opened) <= Sec(time) /\ Sec(time) <= Sec(opened) + Period

(* The writes of call site k in history l admitted with a time in that     *)
(* window.                                                                 *)
AdmittedIn(l, k, opened) ==
  {e \in l : e.ok /\ e.key = k /\ InWindow(e.time, opened)}

TypeOK ==
  /\ clock \in Nat
  /\ DOMAIN key2Index \subseteq Keys
  /\ key2Index \in [DOMAIN key2Index -> EventWroteRecord]
  /\ keyCache \in Seq(Keys)
  /\ pc \in [Threads -> {"idle", "get", "put"}]
  /\ key \in [Threads -> Keys \cup {NoKey}]
  /\ \A t \in Threads : pc[t] # "idle" => key[t] \in Keys
  /\ cur \in [Threads -> Nat]
  /\ record \in [Threads -> EventWroteRecord]
  /\ calls \in Nat
  /\ id \in [Threads -> Nat]
  /\ log \subseteq LogEntry
  /\ recency \in Seq(Keys)
  /\ undisturbed \in BOOLEAN

(***************************************************************************)
(* The list and the index of the LRU cache describe the same keys: every   *)
(* indexed key is in the list exactly once, the list holds nothing else    *)
(* and never exceeds the capacity.  A Get that moved a key another thread  *)
(* evicted, or an eviction that left one of the two structures behind,     *)
(* would make a stored iterator dangle.                                    *)
(***************************************************************************)
CacheConsistent ==
  /\ Len(keyCache) <= Capacity
  /\ DOMAIN key2Index = {keyCache[i] : i \in 1..Len(keyCache)}
  /\ \A i, j \in 1..Len(keyCache) : keyCache[i] = keyCache[j] => i = j

(***************************************************************************)
(* Whatever Gets and Puts interleave, the cache keeps the keys that were   *)
(* used last: its list is the front of the list of all uses.  A counter is *)
(* only forgotten when Capacity other call sites wrote after it.           *)
(***************************************************************************)
CacheHoldsMostRecent ==
  keyCache = SubSeq(recency, 1, IF Len(recency) < Capacity THEN Len(recency) ELSE Capacity)

(***************************************************************************)
(* A write is discarded for its frequency only if Threshold writes of the  *)
(* same call site were admitted in the window it falls into.  Lost updates *)
(* between threads, evictions and clock changes may make the counter too   *)
(* small, never too large.                                                 *)
(***************************************************************************)
NoFalseReject ==
  \A e \in log : ~e.ok =>
    /\ InWindow(e.time, e.opened)
    /\ Cardinality(AdmittedIn(log, e.key, e.opened)) >= Threshold

(***************************************************************************)
(* The limit itself: no window of a call site admits more than Threshold   *)
(* writes (and never fewer than the one that opens it).                    *)
(***************************************************************************)
LimitPerWindow ==
  \A e \in log :
    Cardinality(AdmittedIn(log, e.key, e.opened)) <= (IF Threshold = 0 THEN 1 ELSE Threshold)

(***************************************************************************)
(* What the limit is worth: it can only be exceeded by checks that overlap *)
(* in time, by the eviction of a counter or by a clock that is set back;   *)
(* without these, windows that close and open again never add up to more.  *)
(***************************************************************************)
LimitUnlessDisturbed == undisturbed => LimitPerWindow
=============================================================================
