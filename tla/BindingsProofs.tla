---------------------------- MODULE BindingsProofs ----------------------------
(***************************************************************************)
(* Proofs about the bindings to other languages, which share no state: the *)
(* map of the listeners and the queue of callbacks of the JS interface,    *)
(* the queue of callbacks of the ArkTS interface, and the struct that the  *)
(* Rust interface shares with the C++ library.                             *)
(***************************************************************************)
EXTENDS JsInterface, JsCallbackManager, AniCallbackManager, RustWrapper, FiniteSetTheorems, TLAPS

(***************************************************************************)
(* The JS interface: the map of the listeners, for any number of JS        *)
(* threads, objects and calls.                                             *)
(*                                                                         *)
(* The inductive invariant.  A watcher belongs to the thread that added    *)
(* it: whoever works on a watcher is its thread, so that no two threads    *)
(* hold an iterator of the same entry, and the entry that is stored is not *)
(* in the map yet.                                                         *)
(***************************************************************************)
JTypes ==
  /\ queries \in Nat /\ watchers \in Nat /\ queries + watchers <= MaxCalls
  /\ jPc \in [JsThreads -> {"idle", "query", "store", "storeWatcher", "unregister", "erase"}]
  /\ jItem \in [JsThreads -> Nat]
  /\ DOMAIN wThread = Ids
  /\ listeners \subseteq 1..watchers

JOwnsItem ==
  \A t \in JsThreads : jPc[t] \in {"storeWatcher", "unregister", "erase"} =>
    jItem[t] \in 1..watchers /\ jItem[t] \in Ids /\ wThread[jItem[t]] = t

JStoresRegistered ==
  \A t \in JsThreads : jPc[t] = "storeWatcher" => jItem[t] \in watching

JInv == JTypes /\ JOwnsItem /\ JStoresRegistered /\ JsMapsSound

(* The invariant holds when the module is loaded.                          *)
LEMMA JInitHolds == JInit => JInv
BY JsAssumption DEF JInit, JInv, JTypes, JOwnsItem, JStoresRegistered, JsMapsSound

(* Every step of query, addWatcher and removeWatcher keeps it.             *)
LEMMA JStepKeeps == JInv /\ [JNext]_jVars => JInv'
<1> USE JsAssumption DEF JInv, JTypes, JOwnsItem, JStoresRegistered, JsMapsSound, JGoto, Ids
<1> SUFFICES ASSUME JInv, [JNext]_jVars PROVE JInv'
  OBVIOUS
<1>1. CASE UNCHANGED jVars
  BY <1>1 DEF jVars, qVars, wVars
<1>2. ASSUME NEW t \in JsThreads, QueryService(t) PROVE JInv'
  BY <1>2 DEF QueryService, wVars
<1>3. ASSUME NEW t \in JsThreads, QueryStore(t) PROVE JInv'
  BY <1>3 DEF QueryStore, wVars
<1>4. ASSUME NEW t \in JsThreads, StoreWatcher(t) PROVE JInv'
  <2> USE <1>4 DEF StoreWatcher, qVars
  <2>1. JTypes'
    OBVIOUS
  <2>2. JOwnsItem'
    OBVIOUS
  <2>3. JStoresRegistered'
    OBVIOUS
  <2>4. ASSUME NEW u \in JsThreads, jPc'[u] \in {"unregister", "erase"} PROVE jItem'[u] \in listeners'
    BY <2>4
  <2>5. ASSUME NEW w \in listeners'
        PROVE  w \in watching' \/ \E u \in JsThreads : jPc'[u] = "erase" /\ jItem'[u] = w
    BY <2>5
  <2> QED
    BY <2>1, <2>2, <2>3, <2>4, <2>5
<1>5. ASSUME NEW t \in JsThreads, RemoveListener(t) PROVE JInv'
  <2> USE <1>5 DEF RemoveListener, qVars
  <2>1. JTypes'
    OBVIOUS
  <2>2. JOwnsItem'
    OBVIOUS
  <2>3. JStoresRegistered'
    OBVIOUS
  <2>4. ASSUME NEW u \in JsThreads, jPc'[u] \in {"unregister", "erase"} PROVE jItem'[u] \in listeners'
    BY <2>4
  <2>5. ASSUME NEW w \in listeners'
        PROVE  w \in watching' \/ \E u \in JsThreads : jPc'[u] = "erase" /\ jItem'[u] = w
    BY <2>5
  <2> QED
    BY <2>1, <2>2, <2>3, <2>4, <2>5
<1>6. ASSUME NEW t \in JsThreads, EraseWatcher(t) PROVE JInv'
  <2> USE <1>6 DEF EraseWatcher, qVars
  <2>1. JTypes'
    OBVIOUS
  <2>2. JOwnsItem'
    OBVIOUS
  <2>3. JStoresRegistered'
    OBVIOUS
  <2>4. ASSUME NEW u \in JsThreads, jPc'[u] \in {"unregister", "erase"} PROVE jItem'[u] \in listeners'
    BY <2>4
  <2>5. ASSUME NEW w \in listeners'
        PROVE  w \in watching' \/ \E u \in JsThreads : jPc'[u] = "erase" /\ jItem'[u] = w
    BY <2>5
  <2> QED
    BY <2>1, <2>2, <2>3, <2>4, <2>5
<1>7. ASSUME NEW t \in JsThreads, NEW q \in Ids, RunComplete(t, q) PROVE JInv'
  BY <1>7 DEF RunComplete, wVars
<1>8. ASSUME NEW t \in JsThreads, NEW object \in JsObjects, Query(t, object) PROVE JInv'
  BY <1>8 DEF Query, wVars
<1>9. ASSUME NEW t \in JsThreads, NEW object \in JsObjects, AddWatcher(t, object) PROVE JInv'
  <2> USE <1>9 DEF AddWatcher, qVars
  <2>1. JTypes'
    OBVIOUS
  <2>2. JOwnsItem'
    OBVIOUS
  <2>3. JStoresRegistered'
    OBVIOUS
  <2>4. ASSUME NEW u \in JsThreads, jPc'[u] \in {"unregister", "erase"} PROVE jItem'[u] \in listeners'
    BY <2>4
  <2>5. ASSUME NEW w \in listeners'
        PROVE  w \in watching' \/ \E u \in JsThreads : jPc'[u] = "erase" /\ jItem'[u] = w
    BY <2>5
  <2> QED
    BY <2>1, <2>2, <2>3, <2>4, <2>5
<1>10. ASSUME NEW t \in JsThreads, NEW object \in JsObjects, RemoveWatcher(t, object) PROVE JInv'
  <2> USE <1>10 DEF RemoveWatcher, CacheItems, qVars, wVars
  <2>1. JTypes'
    OBVIOUS
  <2>2. JOwnsItem'
    OBVIOUS
  <2>3. JStoresRegistered'
    OBVIOUS
  <2>4. ASSUME NEW u \in JsThreads, jPc'[u] \in {"unregister", "erase"} PROVE jItem'[u] \in listeners'
    BY <2>4
  <2>5. ASSUME NEW w \in listeners'
        PROVE  w \in watching' \/ \E u \in JsThreads : jPc'[u] = "erase" /\ jItem'[u] = w
    BY <2>5
  <2> QED
    BY <2>1, <2>2, <2>3, <2>4, <2>5
<1>11. ASSUME NEW q \in Ids, OnComplete(q) \/ ServiceDrops(q) PROVE JInv'
  BY <1>11 DEF OnComplete, ServiceDrops, wVars
<1> QED
  BY <1>1, <1>2, <1>3, <1>4, <1>5, <1>6, <1>7, <1>8, <1>9, <1>10, <1>11 DEF JNext, JCallStep

(***************************************************************************)
(* removeWatcher of the JS interface uses an iterator of the map after the *)
(* IPC call, and its entry is still there, whatever the other threads do:  *)
(* for any number of threads, objects and calls.                           *)
(***************************************************************************)
THEOREM MapsStaySound == JSpec => []JsMapsSound
<1>1. JInit => JInv
  BY JInitHolds
<1>2. JInv /\ [JNext]_jVars => JInv'
  BY JStepKeeps
<1>3. JInv => JsMapsSound
  BY DEF JInv
<1> QED
  BY <1>1, <1>2, <1>3, PTL DEF JSpec
-----------------------------------------------------------------------------
(***************************************************************************)
(* The ArkTS interface: the callbacks, for any number of IPC threads and   *)
(* deliveries.  As long as aniRaced does not hold, one thread at most is   *)
(* between Add and its way out of ImmediateRun; the invariant says which   *)
(* callback it is at, and what the queue holds when there is none.         *)
(***************************************************************************)
AniLabels ==
  {"idle", "add", "run", "pick", "context", "call", "release", "again", "pop", "done"}

AniTypes ==
  /\ aniCallbacks \in Seq(Nat)
  /\ aniPc \in [AniThreads -> AniLabels]
  /\ aniArg \in [AniThreads -> Nat]
  /\ aniCurrent \in [AniThreads -> Nat]
  /\ aniContext \in Nat
  /\ aniNext \in Nat
  /\ aniAdded \in Seq(Nat)
  /\ aniRan \in Seq(Nat)

(* A thread inside the stub holds the owner, and an owner that somebody    *)
(* holds is not released.                                                  *)
AniHolds ==
  /\ \A t \in AniThreads : aniPc[t] # "idle" => t \in aniHeld
  /\ aniReleased = (aniHeld = {})

(* The thread between Add and its way out of ImmediateRun.                 *)
AniInCharge(t) == aniPc[t] \notin {"idle", "add", "done"}

AniPopped == Len(aniAdded) - Len(aniCallbacks)

AniNoFinal == \A i \in 1..Len(aniRan) : aniRan[i] \notin AniFinals

(* What ran is the beginning of what was added.                            *)
AniOrder ==
  /\ Len(aniRan) <= Len(aniAdded)
  /\ \A i \in 1..Len(aniRan) : aniRan[i] = aniAdded[i]

(* The queue holds what was added and has not left it.                     *)
AniQueueIsRest ==
  ~aniReleased =>
    /\ Len(aniCallbacks) <= Len(aniAdded)
    /\ \A i \in 1..Len(aniCallbacks) : aniCallbacks[i] = aniAdded[AniPopped + i]

AniAlone == \A t, u \in AniThreads : AniInCharge(t) /\ AniInCharge(u) => t = u

(* Which callback the one in charge is at, and that there is one.          *)
AniChain ==
  \A t \in AniThreads : AniInCharge(t) =>
    /\ aniCallbacks # <<>>
    /\ aniPc[t] # "run" => aniInCalling
    /\ aniPc[t] # "release" => AniNoFinal
    /\ aniPc[t] \in {"run", "pick", "context", "call"} => AniPopped = Len(aniRan)
    /\ aniPc[t] = "context" => aniCurrent[t] = Head(aniCallbacks)
    /\ aniPc[t] = "call" => aniContext = Head(aniCallbacks)
    /\ aniPc[t] \in {"release", "again", "pop"} => AniPopped = Len(aniRan) - 1
    /\ aniPc[t] = "release" =>
         /\ aniContext = aniRan[Len(aniRan)]
         /\ \A i \in 1..Len(aniRan) - 1 : aniRan[i] \notin AniFinals

(* Nobody is in charge: all has run, or the last callback of a query has.  *)
AniAtRest ==
  ~aniReleased /\ (\A t \in AniThreads : ~AniInCharge(t)) =>
    IF aniInCalling THEN ~AniNoFinal
    ELSE aniCallbacks = <<>> /\ Len(aniRan) = Len(aniAdded) /\ AniNoFinal

AniCharge == AniOrder /\ AniQueueIsRest /\ AniAlone /\ AniChain /\ AniAtRest

AniInv == AniTypes /\ AniHolds /\ (~aniRaced => AniCharge)
-----------------------------------------------------------------------------
(* The queue is empty and nobody is calling.                               *)
LEMMA AniInitHolds == AniInit => AniInv
<1> SUFFICES ASSUME AniInit PROVE AniInv
  OBVIOUS
<1> USE DEF AniInit
<1>1. AniTypes
  BY DEF AniTypes, AniLabels
<1>2. AniHolds
  BY DEF AniHolds
<1>3. AniCharge
  BY DEF AniCharge, AniOrder, AniQueueIsRest, AniAlone, AniChain, AniAtRest, AniInCharge, AniNoFinal,
         AniPopped
<1> QED BY <1>1, <1>2, <1>3 DEF AniInv

(* Types: every step keeps them.                                           *)
LEMMA AniTypesStep == AniTypes /\ [AniNextStep]_aniVars => AniTypes'
<1> SUFFICES ASSUME AniTypes, [AniNextStep]_aniVars PROVE AniTypes'
  OBVIOUS
<1> USE DEF AniTypes, AniLabels, AniGoto, AniHold
<1>1. CASE AniRegister \/ AniStore \/ AniRemove
  <2>1. /\ UNCHANGED <<aniPc, aniArg, aniCurrent, aniContext, aniNext, aniAdded, aniRan>>
        /\ aniCallbacks' \in {aniCallbacks, <<>>}
    BY <1>1 DEF AniRegister, AniStore, AniRemove
  <2>2. aniCallbacks' \in Seq(Nat)
    <3>1. CASE aniCallbacks' = aniCallbacks
      BY <3>1
    <3>2. CASE aniCallbacks' = <<>>
      BY <3>2
    <3> QED BY <2>1, <3>1, <3>2
  <2> QED BY <2>1, <2>2
<1>2. ASSUME NEW t \in AniThreads, AniDeliver(t) PROVE AniTypes'
  BY <1>2 DEF AniDeliver
<1>3. ASSUME NEW t \in AniThreads, AniAdd(t) PROVE AniTypes'
  BY <1>3 DEF AniAdd
<1>4. ASSUME NEW t \in AniThreads, AniImmediateRun(t) PROVE AniTypes'
  BY <1>4 DEF AniImmediateRun
<1>5. ASSUME NEW t \in AniThreads, AniPick(t) PROVE AniTypes'
  <2>1. AniRest(t) \in Seq(Nat)
    BY DEF AniRest
  <2>2. AniRest(t) # <<>> => Head(AniRest(t)) \in Nat
    BY <2>1
  <2> QED BY <1>5, <2>1, <2>2 DEF AniPick
<1>6. ASSUME NEW t \in AniThreads, AniRunCallback(t) PROVE AniTypes'
  BY <1>6 DEF AniRunCallback
<1>7. ASSUME NEW t \in AniThreads, AniCall(t) PROVE AniTypes'
  BY <1>7 DEF AniCall
<1>8. ASSUME NEW t \in AniThreads, AniRelease(t) PROVE AniTypes'
  BY <1>8 DEF AniRelease
<1>9. ASSUME NEW t \in AniThreads, AniDone(t) PROVE AniTypes'
  BY <1>9 DEF AniDone
<1>10. CASE UNCHANGED aniVars
  BY <1>10 DEF aniVars
<1> QED
  BY <1>1, <1>2, <1>3, <1>4, <1>5, <1>6, <1>7, <1>8, <1>9, <1>10 DEF AniNextStep, AniStep

(* What the threads hold at their program counters.                        *)
LEMMA AniHoldsStep == AniTypes /\ AniHolds /\ [AniNextStep]_aniVars => AniHolds'
<1> SUFFICES ASSUME AniTypes, AniHolds, [AniNextStep]_aniVars PROVE AniHolds'
  OBVIOUS
<1> USE AniAssumption DEF AniTypes, AniHolds, AniGoto, AniHold
<1>1. CASE AniRegister \/ AniStore \/ AniRemove
  BY <1>1 DEF AniRegister, AniStore, AniRemove
<1>2. ASSUME NEW t \in AniThreads, AniDeliver(t) PROVE AniHolds'
  BY <1>2 DEF AniDeliver
<1>3. ASSUME NEW t \in AniThreads, AniAdd(t) PROVE AniHolds'
  BY <1>3 DEF AniAdd
<1>4. ASSUME NEW t \in AniThreads, AniImmediateRun(t) PROVE AniHolds'
  BY <1>4 DEF AniImmediateRun
<1>5. ASSUME NEW t \in AniThreads, AniPick(t) PROVE AniHolds'
  BY <1>5 DEF AniPick
<1>6. ASSUME NEW t \in AniThreads, AniRunCallback(t) PROVE AniHolds'
  BY <1>6 DEF AniRunCallback
<1>7. ASSUME NEW t \in AniThreads, AniCall(t) PROVE AniHolds'
  BY <1>7 DEF AniCall
<1>8. ASSUME NEW t \in AniThreads, AniRelease(t) PROVE AniHolds'
  BY <1>8 DEF AniRelease
<1>9. ASSUME NEW t \in AniThreads, AniDone(t) PROVE AniHolds'
  BY <1>9 DEF AniDone
<1>10. CASE UNCHANGED aniVars
  BY <1>10 DEF aniVars
<1> QED
  BY <1>1, <1>2, <1>3, <1>4, <1>5, <1>6, <1>7, <1>8, <1>9, <1>10 DEF AniNextStep, AniStep

-----------------------------------------------------------------------------
(* Whoever holds or lets go of the owner, the queue and who is in charge   *)
(* of it stay; behind the last holder nobody is.                           *)
LEMMA AniHoldKeeps ==
  ASSUME AniInv, ~aniRaced, NEW held, AniHold(held), AniHolds',
         UNCHANGED <<aniOwner, aniInCalling, aniContext, aniAdded, aniRan>>,
         \A t \in AniThreads :
           \/ aniPc'[t] = aniPc[t] /\ aniCurrent'[t] = aniCurrent[t]
           \/ ~AniInCharge(t) /\ ~AniInCharge(t)'
  PROVE  AniCharge'
<1> USE DEF AniInv, AniCharge
<1>1. AniOrder'
  BY DEF AniOrder
<1>2. AniAlone' /\ \A t \in AniThreads : AniInCharge(t)' <=> AniInCharge(t)
  BY DEF AniAlone, AniInCharge
<1>3. CASE held = {}
  <2>1. aniReleased' /\ \A t \in AniThreads : ~AniInCharge(t)'
    BY <1>3 DEF AniHold, AniHolds, AniInCharge
  <2> QED BY <1>1, <1>2, <2>1 DEF AniQueueIsRest, AniChain, AniAtRest
<1>4. CASE held # {}
  <2>1. aniReleased' = aniReleased /\ aniCallbacks' = aniCallbacks
    BY <1>4 DEF AniHold, AniHolds
  <2>2. (AniNoFinal' <=> AniNoFinal) /\ AniPopped' = AniPopped /\ AniFinals' = AniFinals
    BY <2>1 DEF AniNoFinal, AniFinals, AniPopped
  <2>3. AniQueueIsRest'
    BY <2>1, <2>2 DEF AniQueueIsRest
  <2>4. AniChain'
    BY <1>2, <2>1, <2>2 DEF AniChain, AniInCharge
  <2>5. AniAtRest'
    BY <1>2, <2>1, <2>2 DEF AniAtRest
  <2> QED BY <1>1, <1>2, <2>3, <2>4, <2>5
<1> QED BY <1>3, <1>4

(* Add: a thread that finds nobody calling takes charge.                   *)
LEMMA AniChargeAdd ==
  ASSUME AniInv, ~aniRaced', aniOwner' = aniOwner, NEW t \in AniThreads, AniAdd(t)
  PROVE  AniCharge'
<1>1. /\ aniPc[t] = "add" /\ ~aniRaced
      /\ aniCallbacks' = Append(aniCallbacks, aniArg[t]) /\ aniAdded' = Append(aniAdded, aniArg[t])
      /\ aniPc' = [aniPc EXCEPT ![t] = IF aniInCalling THEN "done" ELSE "run"]
      /\ ~aniInCalling => \A u \in AniThreads : ~AniInCharge(u)
      /\ UNCHANGED <<aniInCalling, aniReleased, aniCurrent, aniContext, aniRan>>
  BY DEF AniAdd, AniGoto, AniInCharge
<1>2. AniCharge /\ AniTypes /\ AniHolds
  BY <1>1 DEF AniInv
<1>3. ~aniReleased
  BY <1>1, <1>2 DEF AniHolds
<1>4. /\ Len(aniCallbacks') = Len(aniCallbacks) + 1 /\ Len(aniAdded') = Len(aniAdded) + 1
      /\ Len(aniCallbacks) \in Nat /\ Len(aniAdded) \in Nat /\ Len(aniRan) \in Nat
      /\ \A i \in 1..Len(aniAdded) : aniAdded'[i] = aniAdded[i]
      /\ \A i \in 1..Len(aniCallbacks) : aniCallbacks'[i] = aniCallbacks[i]
      /\ aniAdded'[Len(aniAdded) + 1] = aniArg[t]
      /\ aniCallbacks'[Len(aniCallbacks) + 1] = aniArg[t]
      /\ aniCallbacks' # <<>>
      /\ aniCallbacks # <<>> => Head(aniCallbacks') = Head(aniCallbacks)
  BY <1>1, <1>2 DEF AniTypes
<1>5. AniPopped' = AniPopped /\ (AniNoFinal' <=> AniNoFinal) /\ AniFinals' = AniFinals
  BY <1>1, <1>4 DEF AniPopped, AniNoFinal, AniFinals
<1>6. AniOrder'
  BY <1>1, <1>2, <1>4 DEF AniCharge, AniOrder
<1>7. AniQueueIsRest'
  <2>1. Len(aniCallbacks) <= Len(aniAdded)
    BY <1>2, <1>3 DEF AniCharge, AniQueueIsRest
  <2>2. ASSUME NEW i \in 1..Len(aniCallbacks') PROVE aniCallbacks'[i] = aniAdded'[AniPopped' + i]
    <3>1. CASE i \in 1..Len(aniCallbacks)
      BY <1>2, <1>3, <1>4, <1>5, <2>1, <3>1, SMTT(30) DEF AniCharge, AniQueueIsRest, AniPopped
    <3>2. CASE i = Len(aniCallbacks) + 1
      BY <1>4, <1>5, <3>2 DEF AniPopped
    <3> QED BY <1>4, <3>1, <3>2
  <2> QED BY <1>4, <2>1, <2>2 DEF AniQueueIsRest
<1>8. \A u \in AniThreads : u # t => (AniInCharge(u)' <=> AniInCharge(u)) /\ aniPc'[u] = aniPc[u]
  BY <1>1, <1>2 DEF AniTypes, AniInCharge
<1>9. aniPc'[t] = IF aniInCalling THEN "done" ELSE "run"
  BY <1>1, <1>2 DEF AniTypes
<1>10. AniAlone'
  BY <1>1, <1>2, <1>8, <1>9 DEF AniCharge, AniAlone, AniInCharge
<1>11. AniChain'
  <2> SUFFICES ASSUME NEW u \in AniThreads, AniInCharge(u)'
               PROVE  /\ aniCallbacks' # <<>>
                      /\ aniPc'[u] # "run" => aniInCalling'
                      /\ aniPc'[u] # "release" => AniNoFinal'
                      /\ aniPc'[u] \in {"run", "pick", "context", "call"} => AniPopped' = Len(aniRan')
                      /\ aniPc'[u] = "context" => aniCurrent'[u] = Head(aniCallbacks')
                      /\ aniPc'[u] = "call" => aniContext' = Head(aniCallbacks')
                      /\ aniPc'[u] \in {"release", "again", "pop"} => AniPopped' = Len(aniRan') - 1
                      /\ aniPc'[u] = "release" =>
                           /\ aniContext' = aniRan'[Len(aniRan')]
                           /\ \A i \in 1..Len(aniRan') - 1 : aniRan'[i] \notin AniFinals'
    BY DEF AniChain
  <2>1. CASE u # t
    BY <1>1, <1>2, <1>4, <1>5, <1>8, <2>1 DEF AniCharge, AniChain
  <2>2. CASE u = t
    <3>1. ~aniInCalling /\ aniPc'[t] = "run"
      BY <1>9, <2>2 DEF AniInCharge
    <3>2. aniCallbacks = <<>> /\ Len(aniRan) = Len(aniAdded) /\ AniNoFinal
      BY <1>1, <1>2, <1>3, <3>1 DEF AniCharge, AniAtRest
    <3>3. AniPopped' = Len(aniRan') /\ AniNoFinal'
      BY <1>1, <1>4, <1>5, <3>2 DEF AniPopped
    <3> QED BY <1>4, <2>2, <3>1, <3>3
  <2> QED BY <2>1, <2>2
<1>12. AniAtRest'
  <2>1. CASE aniInCalling
    BY <1>1, <1>2, <1>3, <1>5, <1>8, <2>1 DEF AniCharge, AniAtRest, AniInCharge
  <2>2. CASE ~aniInCalling
    BY <1>9, <2>2 DEF AniAtRest, AniInCharge
  <2> QED BY <2>1, <2>2
<1> QED BY <1>6, <1>7, <1>10, <1>11, <1>12 DEF AniCharge

(* What is known of the thread t in charge.                                *)
LEMMA AniOnlyOne ==
  ASSUME AniInv, ~aniRaced, NEW t \in AniThreads, AniInCharge(t)
  PROVE  /\ ~aniReleased
         /\ \A u \in AniThreads : u # t => ~AniInCharge(u)
         /\ aniCallbacks # <<>>
         /\ AniCharge /\ AniTypes
BY DEF AniInv, AniHolds, AniInCharge, AniCharge, AniAlone, AniChain

(* When only one thread can be in charge, the facts about it are enough.   *)
LEMMA AniOnlyOneStays ==
  ASSUME NEW t \in AniThreads, aniPc' = [aniPc EXCEPT ![t] = aniPc'[t]],
         \A u \in AniThreads : u # t => ~AniInCharge(u), AniTypes
  PROVE  /\ \A u \in AniThreads : AniInCharge(u)' => u = t
         /\ AniAlone'
BY DEF AniInCharge, AniAlone, AniTypes

(* ImmediateRun: the thread that set inCalling goes on.                    *)
LEMMA AniChargeImmediateRun ==
  ASSUME AniInv, ~aniRaced', aniOwner' = aniOwner, NEW t \in AniThreads, AniImmediateRun(t)
  PROVE  AniCharge'
<1>1. /\ aniPc[t] \in {"run", "again"} /\ AniInCharge(t) /\ ~aniRaced /\ aniInCalling'
      /\ UNCHANGED <<aniCallbacks, aniReleased, aniCurrent, aniContext, aniAdded, aniRan>>
  BY DEF AniImmediateRun, AniInCharge
<1>2. /\ ~aniReleased /\ aniCallbacks # <<>> /\ AniCharge /\ AniTypes
      /\ \A u \in AniThreads : u # t => ~AniInCharge(u)
  BY <1>1, AniOnlyOne
<1>3. /\ aniPc' = [aniPc EXCEPT ![t] = aniPc'[t]]
      /\ aniPc'[t] = IF aniPc[t] = "run" THEN "pick" ELSE "pop"
  BY <1>2 DEF AniImmediateRun, AniGoto, AniTypes
<1>4. (\A u \in AniThreads : AniInCharge(u)' => u = t) /\ AniAlone'
  BY <1>2, <1>3, AniOnlyOneStays
<1>5. AniPopped' = AniPopped /\ (AniNoFinal' <=> AniNoFinal)
  BY <1>1 DEF AniPopped, AniNoFinal, AniFinals
<1>6. AniOrder' /\ AniQueueIsRest'
  BY <1>1, <1>2, <1>5 DEF AniCharge, AniOrder, AniQueueIsRest
<1>7. /\ AniNoFinal
      /\ aniPc[t] = "run" => AniPopped = Len(aniRan)
      /\ aniPc[t] = "again" => AniPopped = Len(aniRan) - 1
  BY <1>1, <1>2 DEF AniCharge, AniChain
<1>8. AniChain' /\ AniAtRest'
  BY <1>1, <1>2, <1>3, <1>4, <1>5, <1>7 DEF AniChain, AniAtRest, AniInCharge
<1> QED BY <1>4, <1>6, <1>8 DEF AniCharge

(* The loop takes the front of the queue, or hands the queue back.         *)
LEMMA AniChargePick ==
  ASSUME AniInv, ~aniRaced', aniOwner' = aniOwner, NEW t \in AniThreads, AniPick(t)
  PROVE  AniCharge'
<1>1. /\ aniPc[t] \in {"pick", "pop"} /\ AniInCharge(t) /\ ~aniRaced
      /\ aniCallbacks' = AniRest(t)
      /\ UNCHANGED <<aniReleased, aniContext, aniAdded, aniRan>>
  BY DEF AniPick, AniInCharge
<1>2. /\ ~aniReleased /\ aniCallbacks # <<>> /\ AniCharge /\ AniTypes
      /\ \A u \in AniThreads : u # t => ~AniInCharge(u)
  BY <1>1, AniOnlyOne
<1>3. /\ AniNoFinal /\ aniInCalling
      /\ aniPc[t] = "pick" => AniPopped = Len(aniRan)
      /\ aniPc[t] = "pop" => AniPopped = Len(aniRan) - 1
  BY <1>1, <1>2 DEF AniCharge, AniChain
<1>4. /\ aniCallbacks \in Seq(Nat) /\ Len(aniCallbacks) \in Nat /\ Len(aniCallbacks) > 0
      /\ Len(aniAdded) \in Nat /\ Len(aniRan) \in Nat
      /\ aniCallbacks' \in Seq(Nat) /\ Len(aniCallbacks') \in Nat
  BY <1>1, <1>2 DEF AniTypes, AniRest
<1>5. AniPopped' = Len(aniRan')
  <2>1. CASE aniPc[t] = "pick"
    BY <1>1, <1>3, <2>1 DEF AniRest, AniPopped
  <2>2. CASE aniPc[t] = "pop"
    <3>1. Len(aniCallbacks') = Len(aniCallbacks) - 1
      BY <1>1, <1>2, <1>4, <2>2 DEF AniRest
    <3> QED BY <1>1, <1>3, <1>4, <2>2, <3>1 DEF AniPopped
  <2> QED BY <1>1, <2>1, <2>2
<1>6. AniOrder' /\ AniNoFinal'
  BY <1>1, <1>2, <1>3 DEF AniCharge, AniOrder, AniNoFinal, AniFinals
<1>7. AniQueueIsRest'
  <2>1. /\ Len(aniCallbacks) <= Len(aniAdded)
        /\ \A i \in 1..Len(aniCallbacks) : aniCallbacks[i] = aniAdded[AniPopped + i]
    BY <1>2 DEF AniCharge, AniQueueIsRest
  <2>2. CASE aniPc[t] = "pick"
    BY <1>1, <2>1, <2>2 DEF AniQueueIsRest, AniRest, AniPopped
  <2>3. CASE aniPc[t] = "pop"
    <3>1. /\ Len(aniCallbacks') = Len(aniCallbacks) - 1
          /\ \A i \in 1..Len(aniCallbacks') : aniCallbacks'[i] = aniCallbacks[i + 1]
      BY <1>1, <1>2, <1>4, <2>3 DEF AniRest
    <3>2. AniPopped' = AniPopped + 1 /\ AniPopped \in Int
      BY <1>1, <1>4, <3>1 DEF AniPopped
    <3>3. ASSUME NEW i \in 1..Len(aniCallbacks') PROVE aniCallbacks'[i] = aniAdded'[AniPopped' + i]
      <4>1. i + 1 \in 1..Len(aniCallbacks) /\ AniPopped' + i = AniPopped + (i + 1)
        <5> DEFINE m == Len(aniCallbacks)
                   k == AniPopped
                   l == AniPopped'
        <5>1. m \in Nat /\ i \in 1..(m - 1) /\ k \in Int /\ l = k + 1
          BY <1>4, <3>1, <3>2
        <5> HIDE DEF m, k, l
        <5>2. i + 1 \in 1..m /\ l + i = k + (i + 1)
          BY <5>1
        <5> QED BY <5>2 DEF m, k, l
      <4>2. aniCallbacks[i + 1] = aniAdded[AniPopped + (i + 1)]
        BY <2>1, <4>1
      <4>3. aniCallbacks'[i] = aniCallbacks[i + 1]
        BY <3>1
      <4>4. aniAdded' = aniAdded
        BY <1>1
      <4> QED BY <4>1, <4>2, <4>3, <4>4
    <3>4. Len(aniCallbacks') <= Len(aniAdded')
      BY <1>1, <1>4, <2>1, <3>1
    <3> QED BY <3>3, <3>4 DEF AniQueueIsRest
  <2> QED BY <1>1, <2>2, <2>3
<1>8. CASE aniCallbacks' = <<>>
  <2>1. aniInCalling' = FALSE /\ aniPc' = [aniPc EXCEPT ![t] = "done"]
    BY <1>1, <1>8 DEF AniPick, AniGoto
  <2>2. aniPc'[t] = "done" /\ aniPc' = [aniPc EXCEPT ![t] = aniPc'[t]]
    BY <1>2, <2>1 DEF AniTypes
  <2>3. AniAlone' /\ \A u \in AniThreads : ~AniInCharge(u)'
    BY <1>2, <2>2, AniOnlyOneStays DEF AniInCharge
  <2>4. Len(aniRan') = Len(aniAdded')
    BY <1>1, <1>4, <1>5, <1>8 DEF AniPopped
  <2> QED BY <1>6, <1>7, <1>8, <2>1, <2>3, <2>4 DEF AniCharge, AniChain, AniAtRest
<1>9. CASE aniCallbacks' # <<>>
  <2>1. /\ aniInCalling' = aniInCalling /\ aniPc' = [aniPc EXCEPT ![t] = "context"]
        /\ aniCurrent' = [aniCurrent EXCEPT ![t] = Head(aniCallbacks')]
    BY <1>1, <1>9 DEF AniPick, AniGoto
  <2>2. /\ aniPc'[t] = "context" /\ aniPc' = [aniPc EXCEPT ![t] = aniPc'[t]]
        /\ aniCurrent'[t] = Head(aniCallbacks')
    BY <1>2, <2>1 DEF AniTypes
  <2>3. AniAlone' /\ (\A u \in AniThreads : AniInCharge(u)' => u = t) /\ AniInCharge(t)'
    BY <1>2, <2>2, AniOnlyOneStays DEF AniInCharge
  <2>4. AniChain' /\ AniAtRest'
    BY <1>3, <1>5, <1>6, <1>9, <2>1, <2>2, <2>3 DEF AniChain, AniAtRest
  <2> QED BY <1>6, <1>7, <2>3, <2>4 DEF AniCharge
<1> QED BY <1>8, <1>9

(* RunCallback stores what was taken in the context.                       *)
LEMMA AniChargeRunCallback ==
  ASSUME AniInv, ~aniRaced', aniOwner' = aniOwner, NEW t \in AniThreads, AniRunCallback(t)
  PROVE  AniCharge'
<1>1. /\ aniPc[t] = "context" /\ AniInCharge(t) /\ ~aniRaced /\ aniContext' = aniCurrent[t]
      /\ UNCHANGED <<aniCallbacks, aniInCalling, aniReleased, aniAdded, aniRan>>
  BY DEF AniRunCallback, AniInCharge
<1>2. /\ ~aniReleased /\ aniCallbacks # <<>> /\ AniCharge /\ AniTypes
      /\ \A u \in AniThreads : u # t => ~AniInCharge(u)
  BY <1>1, AniOnlyOne
<1>3. aniPc' = [aniPc EXCEPT ![t] = aniPc'[t]] /\ aniPc'[t] = "call"
  BY <1>2 DEF AniRunCallback, AniGoto, AniTypes
<1>4. (\A u \in AniThreads : AniInCharge(u)' => u = t) /\ AniAlone' /\ AniInCharge(t)'
  BY <1>2, <1>3, AniOnlyOneStays DEF AniInCharge
<1>5. AniPopped' = AniPopped /\ (AniNoFinal' <=> AniNoFinal)
  BY <1>1 DEF AniPopped, AniNoFinal, AniFinals
<1>6. AniOrder' /\ AniQueueIsRest'
  BY <1>1, <1>2, <1>5 DEF AniCharge, AniOrder, AniQueueIsRest
<1>7. AniNoFinal /\ AniPopped = Len(aniRan) /\ aniInCalling /\ aniCurrent[t] = Head(aniCallbacks)
  BY <1>1, <1>2 DEF AniCharge, AniChain
<1>8. AniChain' /\ AniAtRest'
  BY <1>1, <1>2, <1>3, <1>4, <1>5, <1>7 DEF AniChain, AniAtRest
<1> QED BY <1>4, <1>6, <1>8 DEF AniCharge

(* The callback of the script is called.                                   *)
LEMMA AniChargeCall ==
  ASSUME AniInv, ~aniRaced', aniOwner' = aniOwner, NEW t \in AniThreads, AniCall(t)
  PROVE  AniCharge'
<1>1. /\ aniPc[t] = "call" /\ AniInCharge(t) /\ ~aniRaced /\ aniRan' = Append(aniRan, aniContext)
      /\ UNCHANGED <<aniCallbacks, aniInCalling, aniReleased, aniContext, aniAdded>>
  BY DEF AniCall, AniInCharge
<1>2. /\ ~aniReleased /\ aniCallbacks # <<>> /\ AniCharge /\ AniTypes
      /\ \A u \in AniThreads : u # t => ~AniInCharge(u)
  BY <1>1, AniOnlyOne
<1>3. aniPc' = [aniPc EXCEPT ![t] = aniPc'[t]] /\ aniPc'[t] = "release"
  BY <1>2 DEF AniCall, AniGoto, AniTypes
<1>4. (\A u \in AniThreads : AniInCharge(u)' => u = t) /\ AniAlone' /\ AniInCharge(t)'
  BY <1>2, <1>3, AniOnlyOneStays DEF AniInCharge
<1>5. AniNoFinal /\ AniPopped = Len(aniRan) /\ aniInCalling /\ aniContext = Head(aniCallbacks)
  BY <1>1, <1>2 DEF AniCharge, AniChain
<1>6. /\ Len(aniRan) \in Nat /\ Len(aniAdded) \in Nat /\ Len(aniCallbacks) \in Nat /\ Len(aniCallbacks) > 0
      /\ Len(aniRan') = Len(aniRan) + 1 /\ aniRan'[Len(aniRan) + 1] = aniContext
      /\ \A i \in 1..Len(aniRan) : aniRan'[i] = aniRan[i]
      /\ Head(aniCallbacks) = aniCallbacks[1]
  BY <1>1, <1>2 DEF AniTypes
<1>7. AniPopped' = AniPopped /\ aniContext = aniAdded[Len(aniRan) + 1] /\ Len(aniRan) + 1 <= Len(aniAdded)
  BY <1>1, <1>2, <1>5, <1>6 DEF AniCharge, AniQueueIsRest, AniPopped
<1>8. AniOrder'
  BY <1>1, <1>2, <1>6, <1>7 DEF AniCharge, AniOrder
<1>9. AniQueueIsRest'
  BY <1>1, <1>2, <1>7 DEF AniCharge, AniQueueIsRest
<1>10. \A i \in 1..Len(aniRan') - 1 : aniRan'[i] \notin AniFinals'
  BY <1>5, <1>6 DEF AniNoFinal, AniFinals
<1>11. AniChain' /\ AniAtRest'
  BY <1>1, <1>2, <1>3, <1>4, <1>5, <1>6, <1>7, <1>10 DEF AniChain, AniAtRest
<1> QED BY <1>4, <1>8, <1>9, <1>11 DEF AniCharge

(* Release: what was run, and its context, are done with.                  *)
LEMMA AniChargeRelease ==
  ASSUME AniInv, ~aniRaced', aniOwner' = aniOwner, AniHolds', NEW t \in AniThreads, AniRelease(t)
  PROVE  AniCharge'
<1>1. /\ aniPc[t] = "release" /\ AniInCharge(t) /\ ~aniRaced
      /\ UNCHANGED <<aniInCalling, aniContext, aniAdded, aniRan>>
      /\ aniHeld' \in {aniHeld, aniHeld \ {"map"}}
  BY DEF AniRelease, AniInCharge, AniHold
<1>2. /\ ~aniReleased /\ aniCallbacks # <<>> /\ AniCharge /\ AniTypes
      /\ \A u \in AniThreads : u # t => ~AniInCharge(u)
  BY <1>1, AniOnlyOne
<1>3. /\ aniPc' = [aniPc EXCEPT ![t] = aniPc'[t]]
      /\ aniPc'[t] = IF aniContext \in AniFinals THEN "done" ELSE "again"
  BY <1>2 DEF AniRelease, AniGoto, AniTypes
<1>4. (\A u \in AniThreads : AniInCharge(u)' => u = t) /\ AniAlone'
  BY <1>2, <1>3, AniOnlyOneStays
<1>5. aniHeld' # {} /\ ~aniReleased' /\ aniCallbacks' = aniCallbacks
  <2>1. t \in aniHeld /\ t # "map"
    BY <1>1, AniAssumption DEF AniInv, AniHolds
  <2>2. aniHeld' # {}
    BY <1>1, <2>1
  <2> QED BY <1>2, <2>2 DEF AniRelease, AniHold
<1>6. /\ AniPopped = Len(aniRan) - 1 /\ aniInCalling /\ aniContext = aniRan[Len(aniRan)]
      /\ \A i \in 1..Len(aniRan) - 1 : aniRan[i] \notin AniFinals
  BY <1>1, <1>2 DEF AniCharge, AniChain
<1>7. Len(aniRan) \in Nat /\ Len(aniAdded) \in Nat /\ Len(aniCallbacks) \in Nat
  BY <1>2 DEF AniTypes
<1>8. Len(aniRan) > 0
  BY <1>2, <1>6, <1>7 DEF AniCharge, AniQueueIsRest, AniPopped
<1>9. AniPopped' = AniPopped /\ (AniNoFinal' <=> AniNoFinal)
  BY <1>1, <1>5 DEF AniPopped, AniNoFinal, AniFinals
<1>10. AniNoFinal <=> aniContext \notin AniFinals
  BY <1>6, <1>7, <1>8 DEF AniNoFinal
<1>11. AniOrder' /\ AniQueueIsRest'
  BY <1>1, <1>2, <1>5, <1>9 DEF AniCharge, AniOrder, AniQueueIsRest
<1>12. AniChain' /\ AniAtRest'
  BY <1>1, <1>2, <1>3, <1>4, <1>5, <1>6, <1>9, <1>10 DEF AniChain, AniAtRest, AniInCharge
<1> QED BY <1>4, <1>11, <1>12 DEF AniCharge
-----------------------------------------------------------------------------
(* Every step of the ArkTS callback manager keeps the invariant.           *)
LEMMA AniStepKeeps == AniInv /\ [AniNextStep]_aniVars => AniInv'
<1> SUFFICES ASSUME AniInv, [AniNextStep]_aniVars PROVE AniInv'
  OBVIOUS
<1>1. AniTypes' /\ AniHolds'
  BY AniTypesStep, AniHoldsStep DEF AniInv
<1>2. ASSUME ~aniRaced' PROVE AniCharge'
  <2>1. aniOwner' = aniOwner
    BY DEF AniNextStep, aniVars
  <2>2. CASE AniRegister \/ AniStore \/ AniRemove
    <3>1. PICK held : AniHold(held)
      BY <2>2 DEF AniRegister, AniStore, AniRemove
    <3>2. /\ UNCHANGED <<aniInCalling, aniPc, aniCurrent, aniContext, aniAdded, aniRan>>
          /\ ~aniRaced
      BY <1>2, <2>2 DEF AniRegister, AniStore, AniRemove
    <3> QED BY <1>1, <2>1, <3>1, <3>2, AniHoldKeeps
  <2>3. ASSUME NEW t \in AniThreads, AniDeliver(t) PROVE AniCharge'
    <3>1. /\ UNCHANGED <<aniInCalling, aniCurrent, aniContext, aniAdded, aniRan>> /\ ~aniRaced
          /\ AniHold(aniHeld \cup {t})
      BY <1>2, <2>3 DEF AniDeliver
    <3>2. \A u \in AniThreads : aniPc'[u] = aniPc[u] \/ (~AniInCharge(u) /\ ~AniInCharge(u)')
      BY <2>3 DEF AniDeliver, AniGoto, AniInCharge, AniInv, AniTypes
    <3> QED BY <1>1, <2>1, <3>1, <3>2, AniHoldKeeps
  <2>4. ASSUME NEW t \in AniThreads, AniDone(t) PROVE AniCharge'
    <3>1. /\ UNCHANGED <<aniInCalling, aniContext, aniAdded, aniRan>> /\ ~aniRaced
          /\ AniHold(aniHeld \ {t})
      BY <1>2, <2>4 DEF AniDone
    <3>2. \A u \in AniThreads : \/ aniPc'[u] = aniPc[u] /\ aniCurrent'[u] = aniCurrent[u]
                                \/ ~AniInCharge(u) /\ ~AniInCharge(u)'
      BY <2>4 DEF AniDone, AniGoto, AniInCharge, AniInv, AniTypes
    <3> QED BY <1>1, <2>1, <3>1, <3>2, AniHoldKeeps
  <2>5. ASSUME NEW t \in AniThreads,
               \/ AniAdd(t) \/ AniImmediateRun(t) \/ AniPick(t) \/ AniRunCallback(t) \/ AniCall(t)
               \/ AniRelease(t)
        PROVE  AniCharge'
    BY <1>1, <1>2, <2>1, <2>5, AniChargeAdd, AniChargeImmediateRun, AniChargePick,
       AniChargeRunCallback, AniChargeCall, AniChargeRelease
  <2>6. CASE UNCHANGED aniVars
    <3>1. AniCharge
      BY <1>2, <2>6 DEF aniVars, AniInv
    <3> QED BY <2>6, <3>1 DEF aniVars, AniCharge, AniOrder, AniQueueIsRest, AniAlone, AniChain,
                              AniAtRest, AniInCharge, AniNoFinal, AniPopped, AniFinals
  <2> QED BY <2>2, <2>3, <2>4, <2>5, <2>6 DEF AniNextStep, AniStep
<1> QED BY <1>1, <1>2 DEF AniInv

(***************************************************************************)
(* Whatever the number of IPC threads and deliveries: as long as no second *)
(* thread passes Add between the check of inCalling and the assignment     *)
(* behind it, a script of the ArkTS interface sees the deliveries once     *)
(* each and in order, and when no thread is calling any more, nothing is   *)
(* left in the queue of an owner that lives, unless a query is complete.   *)
(***************************************************************************)
THEOREM AniRunsInOrder == AniSpec => []AniRanInOrder
<1>1. AniInv => AniRanInOrder
  <2> SUFFICES ASSUME AniInv, ~aniRaced,
                      ~aniReleased, AniNoFinal, \A t \in AniThreads : ~AniInCharge(t)
               PROVE  aniRan = aniAdded
    BY DEF AniInv, AniCharge, AniOrder, AniRanInOrder, AniNoFinal, AniInCharge
  <2>1. AniTypes /\ AniOrder /\ Len(aniRan) = Len(aniAdded)
    BY DEF AniInv, AniCharge, AniAtRest
  <2>2. /\ aniRan = [i \in 1..Len(aniRan) |-> aniRan[i]]
        /\ aniAdded = [i \in 1..Len(aniAdded) |-> aniAdded[i]]
    BY <2>1 DEF AniTypes
  <2> QED BY <2>1, <2>2 DEF AniOrder
<1> QED BY <1>1, AniInitHolds, AniStepKeeps, PTL DEF AniSpec
-----------------------------------------------------------------------------
(***************************************************************************)
(* The Rust interface: the struct of a watcher or querier is deleted       *)
(* exactly once and not used behind that, for every behaviour of its owner *)
(* and of the service in which it is registered at most once.              *)
(***************************************************************************)
RWho == {"owner", "ipc", "service", "delegate", "base", "map", "owner recycles", "callback recycles"}

RTypes ==
  /\ rKind \in {"watcher", "querier"}
  /\ rStatus \in {"NORMAL", "MEM_NEED_RECYCLE", "MEM_FREED"}
  /\ rHolders \in [RListeners -> SUBSET RWho]
  /\ rPc \in [RThreads -> {"idle", "call", "storeBase", "store", "added", "unregister", "erase",
                           "removed", "callback", "recycle", "forget"}]
  /\ rItem \in [RThreads -> Nat]
  /\ rBase \in Nat /\ rMap \in Nat
  /\ rRecycled \in {"no", "missed", "found"}

(* Only the listener that was made is held.                                *)
RFresh == \A n \in RListeners : n > rAdds => rHolders[n] = {}

(* The owner holds the listener it works with.  Until it is stored, nobody *)
(* finds it in the map, and until it is registered nobody else has it.     *)
RAdding == {"call", "storeBase", "store"}
ROwnerHolds ==
  /\ rPc["owner"] \in RAdding \cup {"added", "unregister", "erase", "removed"} =>
       rAdds = 1 /\ rItem["owner"] = 1 /\ "owner" \in rHolders[1]
  /\ rPc["owner"] \in RAdding => rMap = 0 /\ rRecycled # "found"
  /\ rPc["owner"] = "call" => rHolders[1] = {"owner"}
  /\ rPc["owner"] # "callback"

(* So does the IPC thread.                                                 *)
RIpcHolds ==
  /\ rPc["ipc"] # "idle" => rAdds = 1 /\ rItem["ipc"] = 1 /\ "ipc" \in rHolders[1]
  /\ rPc["ipc"] \in {"idle", "callback", "recycle", "forget"}

(* The entries of the maps hold the listener.                              *)
RMapsHold ==
  /\ rMap # 0 => rAdds = 1 /\ rMap = 1 /\ "map" \in rHolders[1]
  /\ rBase # 0 => rAdds = 1 /\ rBase = 1 /\ "base" \in rHolders[1]
  /\ rAdds = 1 /\ "map" \in rHolders[1] => rMap = 1

(* The struct is recycled by its owner once, on one of the threads.        *)
RRecycler(t) == rPc[t] \in {"recycle", "forget"}
RRecyclersHold ==
  /\ \A t \in RThreads : RRecycler(t) => rAdds = 1 /\ rRecycled = "found"
  /\ \A t \in RThreads : rAdds = 1 => (RRecycler(t) <=> RRecycling(t) \in rHolders[1])
  /\ ~(RRecycler("owner") /\ RRecycler("ipc"))
  /\ rRecycled = "found" => rAdds = 1 /\ (rMap = 0 \/ RRecycler("owner") \/ RRecycler("ipc"))

(* The two parties: the owner has recycled the struct, and the listener    *)
(* made for it is destroyed.                                               *)
ROwnerDone == rRecycled = "found" /\ \A t \in RThreads : rPc[t] # "recycle"
RListenerGone == rAdds = 1 /\ rHolders[1] = {}

RParties ==
  /\ ~rFault
  /\ rStatus = IF ROwnerDone /\ RListenerGone THEN "MEM_FREED"
               ELSE IF ROwnerDone \/ RListenerGone THEN "MEM_NEED_RECYCLE"
               ELSE "NORMAL"

(***************************************************************************)
(* The inductive invariant: while the struct has been registered at most   *)
(* once, its status says how many of the two parties have given it up.     *)
(***************************************************************************)
ROnce == RTypes /\ RFresh /\ ROwnerHolds /\ RIpcHolds /\ RMapsHold /\ RRecyclersHold /\ RParties

RInv == rAdds \in 0..MaxAdds /\ (rAdds <= 1 => ROnce)

(* What a change of the holders does while there is one listener, alive.   *)
LEMMA RHoldOne ==
  ASSUME NEW holders \in [RListeners -> SUBSET RWho], NEW reads \in BOOLEAN,
         rAdds = 1, 1 \in RListeners, RTypes, RFresh, ~rFault, rStatus # "MEM_FREED",
         rHolders[1] # {}, \A n \in RListeners : n # 1 => holders[n] = {},
         RHoldReading(holders, reads)
  PROVE  /\ rHolders' = holders
         /\ ~rFault'
         /\ rStatus' = IF holders[1] = {} THEN RRecycleOnce(rStatus) ELSE rStatus
<1> DEFINE dying == {n \in RListeners : RAlive(rHolders, n) /\ ~RAlive(holders, n)}
<1>1. dying = IF holders[1] = {} THEN {1} ELSE {}
  BY RustAssumption DEF RAlive, RFresh, RListeners
<1>2. Cardinality({1}) = 1 /\ Cardinality({}) = 0
  BY FS_EmptySet, FS_Singleton
<1>3. Cardinality(dying) = IF holders[1] = {} THEN 1 ELSE 0
  BY <1>1, <1>2
<1> QED
  BY <1>3 DEF RHoldReading, RTypes, RRecycleOnce

(* The invariant holds for a struct nobody has registered.                 *)
LEMMA RInitHolds == RInit => RInv
BY RustAssumption DEF RInit, RInv, ROnce, RTypes, RFresh, ROwnerHolds, RIpcHolds, RMapsHold,
  RRecyclersHold, RParties, RAdding, RRecycler, RRecycling, ROwnerDone, RListenerGone, RThreads,
  RListeners, RWho

(* A struct that is registered at most once gets listener 1.               *)
LEMMA RFirstAdd ==
  ASSUME rAdds \in {0, 1}, rAdds' \in {0, 1}, rAdds' = rAdds + 1, rAdds < MaxAdds
  PROVE  rAdds = 0 /\ rAdds' = 1 /\ 1 \in RListeners
BY RustAssumption DEF RListeners

(* Every step of the owners of a struct keeps it.                          *)
LEMMA RStepKeeps == RInv /\ [RNext]_rVars => RInv'
<1> SUFFICES ASSUME RInv, [RNext]_rVars PROVE RInv'
  OBVIOUS
<1> USE RustAssumption DEF RThreads, RGoto, RAdding, RRecycler, RRecycling
<1>0. rAdds' \in 0..MaxAdds /\ rAdds <= rAdds'
  <2>1. CASE RAdd
    BY <2>1 DEF RInv, RAdd
  <2>2. CASE UNCHANGED rAdds
    BY <2>2 DEF RInv
  <2> QED
    BY <2>1, <2>2 DEF RNext, rVars, RCall, RStoreBase, RStore, RReturn, RRemove, RUnregister, RErase,
    RRecycle, RRecycleFound, RForget, RCallback, RServiceDone, RCallbackEnds
<1> SUFFICES ASSUME rAdds' <= 1 PROVE ROnce'
  BY <1>0 DEF RInv
<1>a. rAdds \in {0, 1} /\ rAdds' \in {0, 1} /\ ROnce
  BY <1>0 DEF RInv
<1>b. rAdds = 1 => 1 \in RListeners
  BY <1>a DEF RInv, RListeners
<1>c. \A n \in RListeners : rHolders[n] # {} => n = 1 /\ rAdds = 1
  BY <1>a DEF ROnce, RFresh, RListeners
<1>d. /\ {"owner", "ipc", "service", "delegate", "base", "map"} \subseteq RWho
      /\ {"owner recycles", "callback recycles"} \subseteq RWho
  BY DEF RWho
<1> USE <1>0, <1>a, <1>b, <1>c, <1>d DEF ROnce
<1>1. CASE UNCHANGED rVars
  <2>11. RTypes'
    BY <1>1 DEF rVars, RTypes, ROwnerHolds, RIpcHolds, RMapsHold, RRecycleOnce
  <2>12. RFresh'
    BY <1>1 DEF rVars, RTypes, RFresh, ROwnerHolds, RIpcHolds, RMapsHold
  <2>13. ROwnerHolds'
    BY <1>1 DEF rVars, RTypes, RFresh, ROwnerHolds, RIpcHolds, RMapsHold, RRecyclersHold
  <2>14. RIpcHolds'
    BY <1>1 DEF rVars, RTypes, RFresh, ROwnerHolds, RIpcHolds, RMapsHold, RRecyclersHold
  <2>15. RMapsHold'
    BY <1>1 DEF rVars, RTypes, RFresh, ROwnerHolds, RIpcHolds, RMapsHold, RRecyclersHold
  <2>16. RRecyclersHold'
    BY <1>1 DEF rVars, RTypes, RFresh, ROwnerHolds, RIpcHolds, RMapsHold, RRecyclersHold
  <2>17. RParties'
    BY <1>1 DEF rVars, RTypes, RFresh, ROwnerHolds, RIpcHolds, RMapsHold, RRecyclersHold, RParties, ROwnerDone, RListenerGone, RRecycleOnce
  <2> QED
    BY <2>11, <2>12, <2>13, <2>14, <2>15, <2>16, <2>17
<1>2. ASSUME RAdd, rStatus # "NORMAL" PROVE ROnce'
  <2>11. RTypes'
    BY <1>2 DEF RAdd, RTouch, RTypes, ROwnerHolds, RIpcHolds, RMapsHold, RRecycleOnce
  <2>12. RFresh'
    BY <1>2 DEF RAdd, RTouch, RTypes, RFresh, ROwnerHolds, RIpcHolds, RMapsHold
  <2>13. ROwnerHolds'
    BY <1>2 DEF RAdd, RTouch, RTypes, RFresh, ROwnerHolds, RIpcHolds, RMapsHold, RRecyclersHold
  <2>14. RIpcHolds'
    BY <1>2 DEF RAdd, RTouch, RTypes, RFresh, ROwnerHolds, RIpcHolds, RMapsHold, RRecyclersHold
  <2>15. RMapsHold'
    BY <1>2 DEF RAdd, RTouch, RTypes, RFresh, ROwnerHolds, RIpcHolds, RMapsHold, RRecyclersHold
  <2>16. RRecyclersHold'
    BY <1>2 DEF RAdd, RTouch, RTypes, RFresh, ROwnerHolds, RIpcHolds, RMapsHold, RRecyclersHold
  <2>17. RParties'
    BY <1>2 DEF RAdd, RTouch, RTypes, RFresh, ROwnerHolds, RIpcHolds, RMapsHold, RRecyclersHold, RParties, ROwnerDone, RListenerGone, RRecycleOnce
  <2> QED
    BY <2>11, <2>12, <2>13, <2>14, <2>15, <2>16, <2>17
<1>3. ASSUME RAdd, rStatus = "NORMAL", rAdds = 0, rAdds' = 1, 1 \in RListeners PROVE ROnce'
  <2>2. /\ rHolders' = [rHolders EXCEPT ![1] = {"owner"}]
        /\ rItem' = [rItem EXCEPT !["owner"] = 1]
        /\ rPc' = [rPc EXCEPT !["owner"] = "call"]
        /\ rPc["owner"] = "idle" /\ rRecycled = "no"
        /\ UNCHANGED <<rKind, rStatus, rBase, rMap, rRecycled>>
    BY <1>3 DEF RAdd
  <2>3. rPc["ipc"] = "idle"
    <3>1. rAdds # 1
      BY ONLY <1>3
    <3> QED
      BY <3>1 DEF RIpcHolds
  <2>4. ~rFault'
    BY <1>3 DEF RAdd, RTouch, RParties
  <2>1. /\ rHolders' = [rHolders EXCEPT ![1] = {"owner"}]
        /\ rItem' = [rItem EXCEPT !["owner"] = 1]
        /\ rPc' = [rPc EXCEPT !["owner"] = "call"]
        /\ rPc["owner"] = "idle" /\ rPc["ipc"] = "idle" /\ rAdds = 0 /\ rAdds' = 1 /\ 1 \in RListeners
        /\ rRecycled = "no" /\ rStatus = "NORMAL" /\ ~rFault'
        /\ UNCHANGED <<rKind, rStatus, rBase, rMap, rRecycled>>
    BY <1>3, <2>2, <2>3, <2>4
  <2>11. RTypes'
    BY <2>1 DEF RListeners, RTypes, ROwnerHolds, RIpcHolds, RMapsHold, RRecycleOnce
  <2>12. RFresh'
    <3> SUFFICES ASSUME NEW n \in RListeners, n > rAdds' PROVE rHolders'[n] = {}
      BY DEF RFresh
    <3>1. n # 1
      BY ONLY <2>1, n > rAdds'
    <3>2. rHolders[n] = {}
      BY <1>c, <3>1
    <3> QED
      BY <2>1, <3>1, <3>2 DEF RTypes
  <2>13. ROwnerHolds'
    BY <2>1 DEF RListeners, RTypes, RFresh, ROwnerHolds, RIpcHolds, RMapsHold, RRecyclersHold
  <2>14. RIpcHolds'
    BY <2>1 DEF RListeners, RTypes, RFresh, ROwnerHolds, RIpcHolds, RMapsHold, RRecyclersHold
  <2>15. RMapsHold'
    BY <2>1 DEF RListeners, RTypes, RFresh, ROwnerHolds, RIpcHolds, RMapsHold, RRecyclersHold
  <2>16. RRecyclersHold'
    BY <2>1 DEF RListeners, RTypes, RFresh, ROwnerHolds, RIpcHolds, RMapsHold, RRecyclersHold
  <2>17. RParties'
    BY <2>1 DEF RListeners, RTypes, RFresh, ROwnerHolds, RIpcHolds, RMapsHold, RRecyclersHold, RParties, ROwnerDone, RListenerGone, RRecycleOnce
  <2> QED
    BY <2>11, <2>12, <2>13, <2>14, <2>15, <2>16, <2>17
<1>4. ASSUME RCall, RHold([rHolders EXCEPT ![rItem["owner"]] = @ \cup {"service"} \cup RDelegate]),
             RGoto("owner", IF rKind = "watcher" THEN "storeBase" ELSE "store") PROVE ROnce'
  <2> DEFINE holders == [rHolders EXCEPT ![rItem["owner"]] = @ \cup {"service"} \cup RDelegate]
  <2>1. rAdds = 1 /\ rHolders[1] # {} /\ rStatus # "MEM_FREED" /\ ~rFault
    BY <1>4 DEF RCall, RDelegate, RTypes, RFresh, ROwnerHolds, RIpcHolds, RMapsHold, RRecyclersHold, RParties, ROwnerDone, RListenerGone
  <2>2. holders \in [RListeners -> SUBSET RWho] /\ \A k \in RListeners : k # 1 => holders[k] = {}
    BY <1>4, <2>1 DEF RCall, RDelegate, RTypes, RFresh, ROwnerHolds, RIpcHolds, RMapsHold
  <2>3. RHoldReading(holders, FALSE)
    BY <1>4 DEF RCall, RDelegate, RHold
  <2>4. /\ rHolders' = holders /\ ~rFault'
        /\ rStatus' = IF holders[1] = {} THEN RRecycleOnce(rStatus) ELSE rStatus
    BY <2>1, <2>2, <2>3, RHoldOne DEF RTypes
  <2>11. RTypes'
    BY <1>4, <2>1, <2>2, <2>4 DEF RCall, RDelegate, RTypes, ROwnerHolds, RIpcHolds, RMapsHold, RRecycleOnce
  <2>12. RFresh'
    BY <1>4, <2>1, <2>2, <2>4 DEF RCall, RDelegate, RTypes, RFresh, ROwnerHolds, RIpcHolds, RMapsHold
  <2>13. ROwnerHolds'
    BY <1>4, <2>1, <2>2, <2>4 DEF RCall, RDelegate, RTypes, RFresh, ROwnerHolds, RIpcHolds, RMapsHold, RRecyclersHold
  <2>14. RIpcHolds'
    BY <1>4, <2>1, <2>2, <2>4 DEF RCall, RDelegate, RTypes, RFresh, ROwnerHolds, RIpcHolds, RMapsHold, RRecyclersHold
  <2>15. RMapsHold'
    BY <1>4, <2>1, <2>2, <2>4 DEF RCall, RDelegate, RTypes, RFresh, ROwnerHolds, RIpcHolds, RMapsHold, RRecyclersHold
  <2>16. RRecyclersHold'
    BY <1>4, <2>1, <2>2, <2>4 DEF RCall, RDelegate, RTypes, RFresh, ROwnerHolds, RIpcHolds, RMapsHold, RRecyclersHold
  <2>17. RParties'
    BY <1>4, <2>1, <2>2, <2>4 DEF RCall, RDelegate, RTypes, RFresh, ROwnerHolds, RIpcHolds, RMapsHold, RRecyclersHold, RParties, ROwnerDone, RListenerGone, RRecycleOnce
  <2> QED
    BY <2>11, <2>12, <2>13, <2>14, <2>15, <2>16, <2>17
<1>5. ASSUME RCall, NEW left \in {{}, RDelegate}, RHold([rHolders EXCEPT ![rItem["owner"]] = left]),
             RGoto("owner", "idle") PROVE ROnce'
  <2> DEFINE holders == [rHolders EXCEPT ![rItem["owner"]] = left]
  <2>1. rAdds = 1 /\ rHolders[1] # {} /\ rStatus # "MEM_FREED" /\ ~rFault
    BY <1>5 DEF RCall, RDelegate, RTypes, RFresh, ROwnerHolds, RIpcHolds, RMapsHold, RRecyclersHold, RParties, ROwnerDone, RListenerGone
  <2>2. holders \in [RListeners -> SUBSET RWho] /\ \A k \in RListeners : k # 1 => holders[k] = {}
    BY <1>5, <2>1 DEF RCall, RDelegate, RTypes, RFresh, ROwnerHolds, RIpcHolds, RMapsHold
  <2>3. RHoldReading(holders, FALSE)
    BY <1>5 DEF RCall, RDelegate, RHold
  <2>4. /\ rHolders' = holders /\ ~rFault'
        /\ rStatus' = IF holders[1] = {} THEN RRecycleOnce(rStatus) ELSE rStatus
    BY <2>1, <2>2, <2>3, RHoldOne DEF RTypes
  <2>11. RTypes'
    BY <1>5, <2>1, <2>2, <2>4 DEF RCall, RDelegate, RTypes, ROwnerHolds, RIpcHolds, RMapsHold, RRecycleOnce
  <2>12. RFresh'
    BY <1>5, <2>1, <2>2, <2>4 DEF RCall, RDelegate, RTypes, RFresh, ROwnerHolds, RIpcHolds, RMapsHold
  <2>13. ROwnerHolds'
    BY <1>5, <2>1, <2>2, <2>4 DEF RCall, RDelegate, RTypes, RFresh, ROwnerHolds, RIpcHolds, RMapsHold, RRecyclersHold
  <2>14. RIpcHolds'
    BY <1>5, <2>1, <2>2, <2>4 DEF RCall, RDelegate, RTypes, RFresh, ROwnerHolds, RIpcHolds, RMapsHold, RRecyclersHold
  <2>15. RMapsHold'
    BY <1>5, <2>1, <2>2, <2>4 DEF RCall, RDelegate, RTypes, RFresh, ROwnerHolds, RIpcHolds, RMapsHold, RRecyclersHold
  <2>16. RRecyclersHold'
    BY <1>5, <2>1, <2>2, <2>4 DEF RCall, RDelegate, RTypes, RFresh, ROwnerHolds, RIpcHolds, RMapsHold, RRecyclersHold
  <2>17. RParties'
    BY <1>5, <2>1, <2>2, <2>4 DEF RCall, RDelegate, RTypes, RFresh, ROwnerHolds, RIpcHolds, RMapsHold, RRecyclersHold, RParties, ROwnerDone, RListenerGone, RRecycleOnce
  <2> QED
    BY <2>11, <2>12, <2>13, <2>14, <2>15, <2>16, <2>17
<1>6. ASSUME RStoreBase PROVE ROnce'
  <2> DEFINE holders == RReplaced(rBase, "base")
  <2>1. rAdds = 1 /\ rHolders[1] # {} /\ rStatus # "MEM_FREED" /\ ~rFault
    BY <1>6 DEF RStoreBase, RReplaced, RTypes, RFresh, ROwnerHolds, RIpcHolds, RMapsHold, RRecyclersHold, RParties, ROwnerDone, RListenerGone
  <2>2. holders \in [RListeners -> SUBSET RWho] /\ \A k \in RListeners : k # 1 => holders[k] = {}
    BY <1>6, <2>1 DEF RStoreBase, RReplaced, RTypes, RFresh, ROwnerHolds, RIpcHolds, RMapsHold
  <2>3. RHoldReading(holders, TRUE)
    BY <1>6 DEF RStoreBase, RReplaced, RHold
  <2>4. /\ rHolders' = holders /\ ~rFault'
        /\ rStatus' = IF holders[1] = {} THEN RRecycleOnce(rStatus) ELSE rStatus
    BY <2>1, <2>2, <2>3, RHoldOne DEF RTypes
  <2>11. RTypes'
    BY <1>6, <2>1, <2>2, <2>4 DEF RStoreBase, RReplaced, RTypes, ROwnerHolds, RIpcHolds, RMapsHold, RRecycleOnce
  <2>12. RFresh'
    BY <1>6, <2>1, <2>2, <2>4 DEF RStoreBase, RReplaced, RTypes, RFresh, ROwnerHolds, RIpcHolds, RMapsHold
  <2>13. ROwnerHolds'
    BY <1>6, <2>1, <2>2, <2>4 DEF RStoreBase, RReplaced, RTypes, RFresh, ROwnerHolds, RIpcHolds, RMapsHold, RRecyclersHold
  <2>14. RIpcHolds'
    BY <1>6, <2>1, <2>2, <2>4 DEF RStoreBase, RReplaced, RTypes, RFresh, ROwnerHolds, RIpcHolds, RMapsHold, RRecyclersHold
  <2>15. RMapsHold'
    BY <1>6, <2>1, <2>2, <2>4 DEF RStoreBase, RReplaced, RTypes, RFresh, ROwnerHolds, RIpcHolds, RMapsHold, RRecyclersHold
  <2>16. RRecyclersHold'
    BY <1>6, <2>1, <2>2, <2>4 DEF RStoreBase, RReplaced, RTypes, RFresh, ROwnerHolds, RIpcHolds, RMapsHold, RRecyclersHold
  <2>17. RParties'
    BY <1>6, <2>1, <2>2, <2>4 DEF RStoreBase, RReplaced, RTypes, RFresh, ROwnerHolds, RIpcHolds, RMapsHold, RRecyclersHold, RParties, ROwnerDone, RListenerGone, RRecycleOnce
  <2> QED
    BY <2>11, <2>12, <2>13, <2>14, <2>15, <2>16, <2>17
<1>7. ASSUME RStore PROVE ROnce'
  <2> DEFINE holders == RReplaced(rMap, "map")
  <2>1. rAdds = 1 /\ rHolders[1] # {} /\ rStatus # "MEM_FREED" /\ ~rFault
    BY <1>7 DEF RStore, RReplaced, RTypes, RFresh, ROwnerHolds, RIpcHolds, RMapsHold, RRecyclersHold, RParties, ROwnerDone, RListenerGone
  <2>2. holders \in [RListeners -> SUBSET RWho] /\ \A k \in RListeners : k # 1 => holders[k] = {}
    BY <1>7, <2>1 DEF RStore, RReplaced, RTypes, RFresh, ROwnerHolds, RIpcHolds, RMapsHold
  <2>3. RHoldReading(holders, TRUE)
    BY <1>7 DEF RStore, RReplaced, RHold
  <2>4. /\ rHolders' = holders /\ ~rFault'
        /\ rStatus' = IF holders[1] = {} THEN RRecycleOnce(rStatus) ELSE rStatus
    BY <2>1, <2>2, <2>3, RHoldOne DEF RTypes
  <2>11. RTypes'
    BY <1>7, <2>1, <2>2, <2>4 DEF RStore, RReplaced, RTypes, ROwnerHolds, RIpcHolds, RMapsHold, RRecycleOnce
  <2>12. RFresh'
    BY <1>7, <2>1, <2>2, <2>4 DEF RStore, RReplaced, RTypes, RFresh, ROwnerHolds, RIpcHolds, RMapsHold
  <2>13. ROwnerHolds'
    BY <1>7, <2>1, <2>2, <2>4 DEF RStore, RReplaced, RTypes, RFresh, ROwnerHolds, RIpcHolds, RMapsHold, RRecyclersHold
  <2>14. RIpcHolds'
    BY <1>7, <2>1, <2>2, <2>4 DEF RStore, RReplaced, RTypes, RFresh, ROwnerHolds, RIpcHolds, RMapsHold, RRecyclersHold
  <2>15. RMapsHold'
    BY <1>7, <2>1, <2>2, <2>4 DEF RStore, RReplaced, RTypes, RFresh, ROwnerHolds, RIpcHolds, RMapsHold, RRecyclersHold
  <2>16. RRecyclersHold'
    BY <1>7, <2>1, <2>2, <2>4 DEF RStore, RReplaced, RTypes, RFresh, ROwnerHolds, RIpcHolds, RMapsHold, RRecyclersHold
  <2>17. RParties'
    BY <1>7, <2>1, <2>2, <2>4 DEF RStore, RReplaced, RTypes, RFresh, ROwnerHolds, RIpcHolds, RMapsHold, RRecyclersHold, RParties, ROwnerDone, RListenerGone, RRecycleOnce
  <2> QED
    BY <2>11, <2>12, <2>13, <2>14, <2>15, <2>16, <2>17
<1>8. ASSUME RReturn PROVE ROnce'
  <2> DEFINE holders == Without(rItem["owner"], "owner")
  <2>1. rAdds = 1 /\ rHolders[1] # {} /\ rStatus # "MEM_FREED" /\ ~rFault
    BY <1>8 DEF RReturn, Without, RTypes, RFresh, ROwnerHolds, RIpcHolds, RMapsHold, RRecyclersHold, RParties, ROwnerDone, RListenerGone
  <2>2. holders \in [RListeners -> SUBSET RWho] /\ \A k \in RListeners : k # 1 => holders[k] = {}
    BY <1>8, <2>1 DEF RReturn, Without, RTypes, RFresh, ROwnerHolds, RIpcHolds, RMapsHold
  <2>3. RHoldReading(holders, FALSE)
    BY <1>8 DEF RReturn, Without, RHold
  <2>4. /\ rHolders' = holders /\ ~rFault'
        /\ rStatus' = IF holders[1] = {} THEN RRecycleOnce(rStatus) ELSE rStatus
    BY <2>1, <2>2, <2>3, RHoldOne DEF RTypes
  <2>11. RTypes'
    BY <1>8, <2>1, <2>2, <2>4 DEF RReturn, Without, RTypes, ROwnerHolds, RIpcHolds, RMapsHold, RRecycleOnce
  <2>12. RFresh'
    BY <1>8, <2>1, <2>2, <2>4 DEF RReturn, Without, RTypes, RFresh, ROwnerHolds, RIpcHolds, RMapsHold
  <2>13. ROwnerHolds'
    BY <1>8, <2>1, <2>2, <2>4 DEF RReturn, Without, RTypes, RFresh, ROwnerHolds, RIpcHolds, RMapsHold, RRecyclersHold
  <2>14. RIpcHolds'
    BY <1>8, <2>1, <2>2, <2>4 DEF RReturn, Without, RTypes, RFresh, ROwnerHolds, RIpcHolds, RMapsHold, RRecyclersHold
  <2>15. RMapsHold'
    BY <1>8, <2>1, <2>2, <2>4 DEF RReturn, Without, RTypes, RFresh, ROwnerHolds, RIpcHolds, RMapsHold, RRecyclersHold
  <2>16. RRecyclersHold'
    BY <1>8, <2>1, <2>2, <2>4 DEF RReturn, Without, RTypes, RFresh, ROwnerHolds, RIpcHolds, RMapsHold, RRecyclersHold
  <2>17. RParties'
    BY <1>8, <2>1, <2>2, <2>4 DEF RReturn, Without, RTypes, RFresh, ROwnerHolds, RIpcHolds, RMapsHold, RRecyclersHold, RParties, ROwnerDone, RListenerGone, RRecycleOnce
  <2> QED
    BY <2>11, <2>12, <2>13, <2>14, <2>15, <2>16, <2>17
<1>9. ASSUME RRemove, ~(rStatus = "NORMAL" /\ rBase # 0) PROVE ROnce'
  <2>11. RTypes'
    BY <1>9 DEF RRemove, RTouch, RTypes, ROwnerHolds, RIpcHolds, RMapsHold, RRecycleOnce
  <2>12. RFresh'
    BY <1>9 DEF RRemove, RTouch, RTypes, RFresh, ROwnerHolds, RIpcHolds, RMapsHold
  <2>13. ROwnerHolds'
    BY <1>9 DEF RRemove, RTouch, RTypes, RFresh, ROwnerHolds, RIpcHolds, RMapsHold, RRecyclersHold
  <2>14. RIpcHolds'
    BY <1>9 DEF RRemove, RTouch, RTypes, RFresh, ROwnerHolds, RIpcHolds, RMapsHold, RRecyclersHold
  <2>15. RMapsHold'
    BY <1>9 DEF RRemove, RTouch, RTypes, RFresh, ROwnerHolds, RIpcHolds, RMapsHold, RRecyclersHold
  <2>16. RRecyclersHold'
    BY <1>9 DEF RRemove, RTouch, RTypes, RFresh, ROwnerHolds, RIpcHolds, RMapsHold, RRecyclersHold
  <2>17. RParties'
    BY <1>9 DEF RRemove, RTouch, RTypes, RFresh, ROwnerHolds, RIpcHolds, RMapsHold, RRecyclersHold, RParties, ROwnerDone, RListenerGone, RRecycleOnce
  <2> QED
    BY <2>11, <2>12, <2>13, <2>14, <2>15, <2>16, <2>17
<1>10. ASSUME RRemove, rStatus = "NORMAL", rBase # 0 PROVE ROnce'
  <2>1. /\ rHolders' = [rHolders EXCEPT ![1] = @ \cup {"owner"}]
        /\ rItem' = [rItem EXCEPT !["owner"] = 1]
        /\ rPc' = [rPc EXCEPT !["owner"] = "unregister"]
        /\ rPc["owner"] = "idle" /\ rAdds = 1 /\ rRecycled = "no" /\ "base" \in rHolders[1]
        /\ ~rFault'
        /\ UNCHANGED <<rKind, rStatus, rBase, rMap, rAdds, rRecycled>>
    BY <1>10 DEF RRemove, RTouch, RTypes, RFresh, ROwnerHolds, RIpcHolds, RMapsHold, RRecyclersHold, RParties, ROwnerDone, RListenerGone
  <2>11. RTypes'
    BY <2>1 DEF RTypes, ROwnerHolds, RIpcHolds, RMapsHold, RRecycleOnce
  <2>12. RFresh'
    BY <2>1 DEF RTypes, RFresh, ROwnerHolds, RIpcHolds, RMapsHold
  <2>13. ROwnerHolds'
    BY <2>1 DEF RTypes, RFresh, ROwnerHolds, RIpcHolds, RMapsHold, RRecyclersHold
  <2>14. RIpcHolds'
    BY <2>1 DEF RTypes, RFresh, ROwnerHolds, RIpcHolds, RMapsHold, RRecyclersHold
  <2>15. RMapsHold'
    BY <2>1 DEF RTypes, RFresh, ROwnerHolds, RIpcHolds, RMapsHold, RRecyclersHold
  <2>16. RRecyclersHold'
    BY <2>1 DEF RTypes, RFresh, ROwnerHolds, RIpcHolds, RMapsHold, RRecyclersHold
  <2>17. RParties'
    BY <2>1 DEF RTypes, RFresh, ROwnerHolds, RIpcHolds, RMapsHold, RRecyclersHold, RParties, ROwnerDone, RListenerGone, RRecycleOnce
  <2> QED
    BY <2>11, <2>12, <2>13, <2>14, <2>15, <2>16, <2>17
<1>11. ASSUME RUnregister, RHold([rHolders EXCEPT ![rItem["owner"]] = @ \ {"service", "delegate"}]),
             RGoto("owner", "erase") PROVE ROnce'
  <2> DEFINE holders == [rHolders EXCEPT ![rItem["owner"]] = @ \ {"service", "delegate"}]
  <2>1. rAdds = 1 /\ rHolders[1] # {} /\ rStatus # "MEM_FREED" /\ ~rFault
    BY <1>11 DEF RUnregister, RTypes, RFresh, ROwnerHolds, RIpcHolds, RMapsHold, RRecyclersHold, RParties, ROwnerDone, RListenerGone
  <2>2. holders \in [RListeners -> SUBSET RWho] /\ \A k \in RListeners : k # 1 => holders[k] = {}
    BY <1>11, <2>1 DEF RUnregister, RTypes, RFresh, ROwnerHolds, RIpcHolds, RMapsHold
  <2>3. RHoldReading(holders, FALSE)
    BY <1>11 DEF RUnregister, RHold
  <2>4. /\ rHolders' = holders /\ ~rFault'
        /\ rStatus' = IF holders[1] = {} THEN RRecycleOnce(rStatus) ELSE rStatus
    BY <2>1, <2>2, <2>3, RHoldOne DEF RTypes
  <2>11. RTypes'
    BY <1>11, <2>1, <2>2, <2>4 DEF RUnregister, RTypes, ROwnerHolds, RIpcHolds, RMapsHold, RRecycleOnce
  <2>12. RFresh'
    BY <1>11, <2>1, <2>2, <2>4 DEF RUnregister, RTypes, RFresh, ROwnerHolds, RIpcHolds, RMapsHold
  <2>13. ROwnerHolds'
    BY <1>11, <2>1, <2>2, <2>4 DEF RUnregister, RTypes, RFresh, ROwnerHolds, RIpcHolds, RMapsHold, RRecyclersHold
  <2>14. RIpcHolds'
    BY <1>11, <2>1, <2>2, <2>4 DEF RUnregister, RTypes, RFresh, ROwnerHolds, RIpcHolds, RMapsHold, RRecyclersHold
  <2>15. RMapsHold'
    BY <1>11, <2>1, <2>2, <2>4 DEF RUnregister, RTypes, RFresh, ROwnerHolds, RIpcHolds, RMapsHold, RRecyclersHold
  <2>16. RRecyclersHold'
    BY <1>11, <2>1, <2>2, <2>4 DEF RUnregister, RTypes, RFresh, ROwnerHolds, RIpcHolds, RMapsHold, RRecyclersHold
  <2>17. RParties'
    BY <1>11, <2>1, <2>2, <2>4 DEF RUnregister, RTypes, RFresh, ROwnerHolds, RIpcHolds, RMapsHold, RRecyclersHold, RParties, ROwnerDone, RListenerGone, RRecycleOnce
  <2> QED
    BY <2>11, <2>12, <2>13, <2>14, <2>15, <2>16, <2>17
<1>12. ASSUME RUnregister, RHold(Without(rItem["owner"], "delegate")), RGoto("owner", "removed") PROVE ROnce'
  <2> DEFINE holders == Without(rItem["owner"], "delegate")
  <2>1. rAdds = 1 /\ rHolders[1] # {} /\ rStatus # "MEM_FREED" /\ ~rFault
    BY <1>12 DEF RUnregister, Without, RTypes, RFresh, ROwnerHolds, RIpcHolds, RMapsHold, RRecyclersHold, RParties, ROwnerDone, RListenerGone
  <2>2. holders \in [RListeners -> SUBSET RWho] /\ \A k \in RListeners : k # 1 => holders[k] = {}
    BY <1>12, <2>1 DEF RUnregister, Without, RTypes, RFresh, ROwnerHolds, RIpcHolds, RMapsHold
  <2>3. RHoldReading(holders, FALSE)
    BY <1>12 DEF RUnregister, Without, RHold
  <2>4. /\ rHolders' = holders /\ ~rFault'
        /\ rStatus' = IF holders[1] = {} THEN RRecycleOnce(rStatus) ELSE rStatus
    BY <2>1, <2>2, <2>3, RHoldOne DEF RTypes
  <2>11. RTypes'
    BY <1>12, <2>1, <2>2, <2>4 DEF RUnregister, Without, RTypes, ROwnerHolds, RIpcHolds, RMapsHold, RRecycleOnce
  <2>12. RFresh'
    BY <1>12, <2>1, <2>2, <2>4 DEF RUnregister, Without, RTypes, RFresh, ROwnerHolds, RIpcHolds, RMapsHold
  <2>13. ROwnerHolds'
    BY <1>12, <2>1, <2>2, <2>4 DEF RUnregister, Without, RTypes, RFresh, ROwnerHolds, RIpcHolds, RMapsHold, RRecyclersHold
  <2>14. RIpcHolds'
    BY <1>12, <2>1, <2>2, <2>4 DEF RUnregister, Without, RTypes, RFresh, ROwnerHolds, RIpcHolds, RMapsHold, RRecyclersHold
  <2>15. RMapsHold'
    BY <1>12, <2>1, <2>2, <2>4 DEF RUnregister, Without, RTypes, RFresh, ROwnerHolds, RIpcHolds, RMapsHold, RRecyclersHold
  <2>16. RRecyclersHold'
    BY <1>12, <2>1, <2>2, <2>4 DEF RUnregister, Without, RTypes, RFresh, ROwnerHolds, RIpcHolds, RMapsHold, RRecyclersHold
  <2>17. RParties'
    BY <1>12, <2>1, <2>2, <2>4 DEF RUnregister, Without, RTypes, RFresh, ROwnerHolds, RIpcHolds, RMapsHold, RRecyclersHold, RParties, ROwnerDone, RListenerGone, RRecycleOnce
  <2> QED
    BY <2>11, <2>12, <2>13, <2>14, <2>15, <2>16, <2>17
<1>13. ASSUME RErase PROVE ROnce'
  <2>11. RTypes'
    BY <1>13 DEF RErase, RTypes, ROwnerHolds, RIpcHolds, RMapsHold, RRecycleOnce
  <2>12. RFresh'
    BY <1>13 DEF RErase, RTypes, RFresh, ROwnerHolds, RIpcHolds, RMapsHold
  <2>13. ROwnerHolds'
    BY <1>13 DEF RErase, RTypes, RFresh, ROwnerHolds, RIpcHolds, RMapsHold, RRecyclersHold
  <2>14. RIpcHolds'
    BY <1>13 DEF RErase, RTypes, RFresh, ROwnerHolds, RIpcHolds, RMapsHold, RRecyclersHold
  <2>15. RMapsHold'
    BY <1>13 DEF RErase, RTypes, RFresh, ROwnerHolds, RIpcHolds, RMapsHold, RRecyclersHold
  <2>16. RRecyclersHold'
    BY <1>13 DEF RErase, RTypes, RFresh, ROwnerHolds, RIpcHolds, RMapsHold, RRecyclersHold
  <2>17. RParties'
    BY <1>13 DEF RErase, RTypes, RFresh, ROwnerHolds, RIpcHolds, RMapsHold, RRecyclersHold, RParties, ROwnerDone, RListenerGone, RRecycleOnce
  <2> QED
    BY <2>11, <2>12, <2>13, <2>14, <2>15, <2>16, <2>17
<1>14. ASSUME NEW t \in RThreads, RRecycle(t), rMap = 0 PROVE ROnce'
  <2>11. RTypes'
    BY <1>14 DEF RRecycle, RTouch, RTypes, ROwnerHolds, RIpcHolds, RMapsHold, RRecycleOnce
  <2>12. RFresh'
    BY <1>14 DEF RRecycle, RTouch, RTypes, RFresh, ROwnerHolds, RIpcHolds, RMapsHold
  <2>13. ROwnerHolds'
    BY <1>14 DEF RRecycle, RTouch, RTypes, RFresh, ROwnerHolds, RIpcHolds, RMapsHold, RRecyclersHold
  <2>14. RIpcHolds'
    BY <1>14 DEF RRecycle, RTouch, RTypes, RFresh, ROwnerHolds, RIpcHolds, RMapsHold, RRecyclersHold
  <2>15. RMapsHold'
    BY <1>14 DEF RRecycle, RTouch, RTypes, RFresh, ROwnerHolds, RIpcHolds, RMapsHold, RRecyclersHold
  <2>16. RRecyclersHold'
    BY <1>14 DEF RRecycle, RTouch, RTypes, RFresh, ROwnerHolds, RIpcHolds, RMapsHold, RRecyclersHold
  <2>17. RParties'
    BY <1>14 DEF RRecycle, RTouch, RTypes, RFresh, ROwnerHolds, RIpcHolds, RMapsHold, RRecyclersHold, RParties, ROwnerDone, RListenerGone, RRecycleOnce
  <2> QED
    BY <2>11, <2>12, <2>13, <2>14, <2>15, <2>16, <2>17
<1>15. ASSUME NEW t \in RThreads, RRecycle(t), rMap # 0 PROVE ROnce'
  <2>1. /\ rHolders' = [rHolders EXCEPT ![1] = @ \cup {RRecycling(t)}]
        /\ rItem' = [rItem EXCEPT ![t] = IF t = "owner" THEN 1 ELSE @]
        /\ rPc' = [rPc EXCEPT ![t] = "recycle"]
        /\ rPc[t] = IF t = "owner" THEN "idle" ELSE "callback"
        /\ rPc["owner"] \notin RAdding
        /\ rAdds = 1 /\ rMap = 1 /\ rRecycled = "no" /\ rRecycled' = "found" /\ "map" \in rHolders[1]
        /\ ~rFault'
        /\ UNCHANGED <<rKind, rStatus, rBase, rMap, rAdds>>
    BY <1>15 DEF RRecycle, RTouch, RTypes, RFresh, ROwnerHolds, RIpcHolds, RMapsHold, RRecyclersHold, RParties, ROwnerDone, RListenerGone
  <2>11. RTypes'
    BY <2>1 DEF RTypes, ROwnerHolds, RIpcHolds, RMapsHold, RRecycleOnce
  <2>12. RFresh'
    BY <2>1 DEF RTypes, RFresh, ROwnerHolds, RIpcHolds, RMapsHold
  <2>13. ROwnerHolds'
    BY <2>1 DEF RTypes, RFresh, ROwnerHolds, RIpcHolds, RMapsHold, RRecyclersHold
  <2>14. RIpcHolds'
    BY <2>1 DEF RTypes, RFresh, ROwnerHolds, RIpcHolds, RMapsHold, RRecyclersHold
  <2>15. RMapsHold'
    BY <2>1 DEF RTypes, RFresh, ROwnerHolds, RIpcHolds, RMapsHold, RRecyclersHold
  <2>16. RRecyclersHold'
    <3>1. 1 \in RListeners /\ rHolders'[1] = rHolders[1] \cup {RRecycling(t)}
      BY <2>1 DEF RTypes
    <3>2. ~RRecycler("owner") /\ ~RRecycler("ipc")
      BY <2>1 DEF RRecyclersHold
    <3>3. \A u \in RThreads : RRecycling(u) \notin rHolders[1]
      BY <2>1, <3>2 DEF RRecyclersHold
    <3>4. rPc'[t] = "recycle" /\ \A u \in RThreads \ {t} : rPc'[u] = rPc[u]
      BY <2>1 DEF RTypes
    <3>5. CASE t = "owner"
      BY <2>1, <3>1, <3>2, <3>3, <3>4, <3>5 DEF RRecyclersHold
    <3>6. CASE t = "ipc"
      BY <2>1, <3>1, <3>2, <3>3, <3>4, <3>6 DEF RRecyclersHold
    <3> QED
      BY <3>5, <3>6
  <2>17. RParties'
    BY <2>1 DEF RTypes, RFresh, ROwnerHolds, RIpcHolds, RMapsHold, RRecyclersHold, RParties, ROwnerDone, RListenerGone, RRecycleOnce
  <2> QED
    BY <2>11, <2>12, <2>13, <2>14, <2>15, <2>16, <2>17
<1>16. ASSUME NEW t \in RThreads, RRecycleFound(t) PROVE ROnce'
  <2>11. RTypes'
    BY <1>16 DEF RRecycleFound, RTouch, RTypes, ROwnerHolds, RIpcHolds, RMapsHold, RRecycleOnce
  <2>12. RFresh'
    BY <1>16 DEF RRecycleFound, RTouch, RTypes, RFresh, ROwnerHolds, RIpcHolds, RMapsHold
  <2>13. ROwnerHolds'
    BY <1>16 DEF RRecycleFound, RTouch, RTypes, RFresh, ROwnerHolds, RIpcHolds, RMapsHold, RRecyclersHold
  <2>14. RIpcHolds'
    BY <1>16 DEF RRecycleFound, RTouch, RTypes, RFresh, ROwnerHolds, RIpcHolds, RMapsHold, RRecyclersHold
  <2>15. RMapsHold'
    BY <1>16 DEF RRecycleFound, RTouch, RTypes, RFresh, ROwnerHolds, RIpcHolds, RMapsHold, RRecyclersHold
  <2>16. RRecyclersHold'
    BY <1>16 DEF RRecycleFound, RTouch, RTypes, RFresh, ROwnerHolds, RIpcHolds, RMapsHold, RRecyclersHold
  <2>17. RParties'
    BY <1>16 DEF RRecycleFound, RTouch, RTypes, RFresh, ROwnerHolds, RIpcHolds, RMapsHold, RRecyclersHold, RParties, ROwnerDone, RListenerGone, RRecycleOnce
  <2> QED
    BY <2>11, <2>12, <2>13, <2>14, <2>15, <2>16, <2>17
<1>17. ASSUME NEW t \in RThreads, RForget(t) PROVE ROnce'
  <2> DEFINE holders == [n \in RListeners |-> rHolders[n] \ {"map", RRecycling(t)}]
  <2>1. rAdds = 1 /\ rHolders[1] # {} /\ rStatus # "MEM_FREED" /\ ~rFault
    BY <1>17 DEF RForget, RTypes, RFresh, ROwnerHolds, RIpcHolds, RMapsHold, RRecyclersHold, RParties, ROwnerDone, RListenerGone
  <2>2. holders \in [RListeners -> SUBSET RWho] /\ \A k \in RListeners : k # 1 => holders[k] = {}
    BY <1>17, <2>1 DEF RForget, RTypes, RFresh, ROwnerHolds, RIpcHolds, RMapsHold
  <2>3. RHoldReading(holders, FALSE)
    BY <1>17 DEF RForget, RHold
  <2>4. /\ rHolders' = holders /\ ~rFault'
        /\ rStatus' = IF holders[1] = {} THEN RRecycleOnce(rStatus) ELSE rStatus
    BY <2>1, <2>2, <2>3, RHoldOne DEF RTypes
  <2>11. RTypes'
    BY <1>17, <2>1, <2>2, <2>4 DEF RForget, RTypes, ROwnerHolds, RIpcHolds, RMapsHold, RRecycleOnce
  <2>12. RFresh'
    BY <1>17, <2>1, <2>2, <2>4 DEF RForget, RTypes, RFresh, ROwnerHolds, RIpcHolds, RMapsHold
  <2>13. ROwnerHolds'
    BY <1>17, <2>1, <2>2, <2>4 DEF RForget, RTypes, RFresh, ROwnerHolds, RIpcHolds, RMapsHold, RRecyclersHold
  <2>14. RIpcHolds'
    BY <1>17, <2>1, <2>2, <2>4 DEF RForget, RTypes, RFresh, ROwnerHolds, RIpcHolds, RMapsHold, RRecyclersHold
  <2>15. RMapsHold'
    BY <1>17, <2>1, <2>2, <2>4 DEF RForget, RTypes, RFresh, ROwnerHolds, RIpcHolds, RMapsHold, RRecyclersHold
  <2>16. RRecyclersHold'
    BY <1>17, <2>1, <2>2, <2>4 DEF RForget, RTypes, RFresh, ROwnerHolds, RIpcHolds, RMapsHold, RRecyclersHold
  <2>17. RParties'
    BY <1>17, <2>1, <2>2, <2>4 DEF RForget, RTypes, RFresh, ROwnerHolds, RIpcHolds, RMapsHold, RRecyclersHold, RParties, ROwnerDone, RListenerGone, RRecycleOnce
  <2> QED
    BY <2>11, <2>12, <2>13, <2>14, <2>15, <2>16, <2>17
<1>18. ASSUME NEW n \in RListeners, RCallback(n), n = 1, rAdds = 1 PROVE ROnce'
  <2>11. RTypes'
    BY <1>18 DEF RCallback, RTouch, RTypes, ROwnerHolds, RIpcHolds, RMapsHold, RRecycleOnce
  <2>12. RFresh'
    BY <1>18 DEF RCallback, RTouch, RTypes, RFresh, ROwnerHolds, RIpcHolds, RMapsHold
  <2>13. ROwnerHolds'
    BY <1>18 DEF RCallback, RTouch, RTypes, RFresh, ROwnerHolds, RIpcHolds, RMapsHold, RRecyclersHold
  <2>14. RIpcHolds'
    BY <1>18 DEF RCallback, RTouch, RTypes, RFresh, ROwnerHolds, RIpcHolds, RMapsHold, RRecyclersHold
  <2>15. RMapsHold'
    BY <1>18 DEF RCallback, RTouch, RTypes, RFresh, ROwnerHolds, RIpcHolds, RMapsHold, RRecyclersHold
  <2>16. RRecyclersHold'
    BY <1>18 DEF RCallback, RTouch, RTypes, RFresh, ROwnerHolds, RIpcHolds, RMapsHold, RRecyclersHold
  <2>17. RParties'
    BY <1>18 DEF RCallback, RTouch, RTypes, RFresh, ROwnerHolds, RIpcHolds, RMapsHold, RRecyclersHold, RParties, ROwnerDone, RListenerGone, RRecycleOnce
  <2> QED
    BY <2>11, <2>12, <2>13, <2>14, <2>15, <2>16, <2>17
<1>19. ASSUME NEW n \in RListeners, RServiceDone(n), n = 1, rAdds = 1 PROVE ROnce'
  <2> DEFINE holders == Without(n, "service")
  <2>1. rAdds = 1 /\ rHolders[1] # {} /\ rStatus # "MEM_FREED" /\ ~rFault
    BY <1>19 DEF RServiceDone, Without, RTypes, RFresh, ROwnerHolds, RIpcHolds, RMapsHold, RRecyclersHold, RParties, ROwnerDone, RListenerGone
  <2>2. holders \in [RListeners -> SUBSET RWho] /\ \A k \in RListeners : k # 1 => holders[k] = {}
    BY <1>19, <2>1 DEF RServiceDone, Without, RTypes, RFresh, ROwnerHolds, RIpcHolds, RMapsHold
  <2>3. RHoldReading(holders, FALSE)
    BY <1>19 DEF RServiceDone, Without, RHold
  <2>4. /\ rHolders' = holders /\ ~rFault'
        /\ rStatus' = IF holders[1] = {} THEN RRecycleOnce(rStatus) ELSE rStatus
    BY <2>1, <2>2, <2>3, RHoldOne DEF RTypes
  <2>11. RTypes'
    BY <1>19, <2>1, <2>2, <2>4 DEF RServiceDone, Without, RTypes, ROwnerHolds, RIpcHolds, RMapsHold, RRecycleOnce
  <2>12. RFresh'
    BY <1>19, <2>1, <2>2, <2>4 DEF RServiceDone, Without, RTypes, RFresh, ROwnerHolds, RIpcHolds, RMapsHold
  <2>13. ROwnerHolds'
    BY <1>19, <2>1, <2>2, <2>4 DEF RServiceDone, Without, RTypes, RFresh, ROwnerHolds, RIpcHolds, RMapsHold, RRecyclersHold
  <2>14. RIpcHolds'
    BY <1>19, <2>1, <2>2, <2>4 DEF RServiceDone, Without, RTypes, RFresh, ROwnerHolds, RIpcHolds, RMapsHold, RRecyclersHold
  <2>15. RMapsHold'
    BY <1>19, <2>1, <2>2, <2>4 DEF RServiceDone, Without, RTypes, RFresh, ROwnerHolds, RIpcHolds, RMapsHold, RRecyclersHold
  <2>16. RRecyclersHold'
    BY <1>19, <2>1, <2>2, <2>4 DEF RServiceDone, Without, RTypes, RFresh, ROwnerHolds, RIpcHolds, RMapsHold, RRecyclersHold
  <2>17. RParties'
    BY <1>19, <2>1, <2>2, <2>4 DEF RServiceDone, Without, RTypes, RFresh, ROwnerHolds, RIpcHolds, RMapsHold, RRecyclersHold, RParties, ROwnerDone, RListenerGone, RRecycleOnce
  <2> QED
    BY <2>11, <2>12, <2>13, <2>14, <2>15, <2>16, <2>17
<1>20. ASSUME RCallbackEnds PROVE ROnce'
  <2> DEFINE holders == Without(rItem["ipc"], "ipc")
  <2>1. rAdds = 1 /\ rHolders[1] # {} /\ rStatus # "MEM_FREED" /\ ~rFault
    BY <1>20 DEF RCallbackEnds, Without, RTypes, RFresh, ROwnerHolds, RIpcHolds, RMapsHold, RRecyclersHold, RParties, ROwnerDone, RListenerGone
  <2>2. holders \in [RListeners -> SUBSET RWho] /\ \A k \in RListeners : k # 1 => holders[k] = {}
    BY <1>20, <2>1 DEF RCallbackEnds, Without, RTypes, RFresh, ROwnerHolds, RIpcHolds, RMapsHold
  <2>3. RHoldReading(holders, FALSE)
    BY <1>20 DEF RCallbackEnds, Without, RHold
  <2>4. /\ rHolders' = holders /\ ~rFault'
        /\ rStatus' = IF holders[1] = {} THEN RRecycleOnce(rStatus) ELSE rStatus
    BY <2>1, <2>2, <2>3, RHoldOne DEF RTypes
  <2>11. RTypes'
    BY <1>20, <2>1, <2>2, <2>4 DEF RCallbackEnds, Without, RTypes, ROwnerHolds, RIpcHolds, RMapsHold, RRecycleOnce
  <2>12. RFresh'
    BY <1>20, <2>1, <2>2, <2>4 DEF RCallbackEnds, Without, RTypes, RFresh, ROwnerHolds, RIpcHolds, RMapsHold
  <2>13. ROwnerHolds'
    BY <1>20, <2>1, <2>2, <2>4 DEF RCallbackEnds, Without, RTypes, RFresh, ROwnerHolds, RIpcHolds, RMapsHold, RRecyclersHold
  <2>14. RIpcHolds'
    BY <1>20, <2>1, <2>2, <2>4 DEF RCallbackEnds, Without, RTypes, RFresh, ROwnerHolds, RIpcHolds, RMapsHold, RRecyclersHold
  <2>15. RMapsHold'
    BY <1>20, <2>1, <2>2, <2>4 DEF RCallbackEnds, Without, RTypes, RFresh, ROwnerHolds, RIpcHolds, RMapsHold, RRecyclersHold
  <2>16. RRecyclersHold'
    BY <1>20, <2>1, <2>2, <2>4 DEF RCallbackEnds, Without, RTypes, RFresh, ROwnerHolds, RIpcHolds, RMapsHold, RRecyclersHold
  <2>17. RParties'
    BY <1>20, <2>1, <2>2, <2>4 DEF RCallbackEnds, Without, RTypes, RFresh, ROwnerHolds, RIpcHolds, RMapsHold, RRecyclersHold, RParties, ROwnerDone, RListenerGone, RRecycleOnce
  <2> QED
    BY <2>11, <2>12, <2>13, <2>14, <2>15, <2>16, <2>17
<1> QED
  <2>1. RAdd => rStatus # "NORMAL" \/ (rAdds = 0 /\ rAdds' = 1 /\ 1 \in RListeners)
    <3>1. RAdd /\ rStatus = "NORMAL" => rAdds' = rAdds + 1 /\ rAdds < MaxAdds
      BY DEF RAdd
    <3> HIDE DEF ROnce
    <3> QED
      BY ONLY <3>1, <1>a, RustAssumption, RFirstAdd DEF RListeners
  <2>2. \A n \in RListeners : RCallback(n) \/ RServiceDone(n) => n = 1 /\ rAdds = 1
    BY DEF RCallback, RServiceDone
  <2> QED
    BY <2>1, <2>2, <1>1, <1>2, <1>3, <1>4, <1>5, <1>6, <1>7, <1>8, <1>9, <1>10, <1>11, <1>12, <1>13, <1>14, <1>15, <1>16, <1>17, <1>18, <1>19, <1>20 DEF RNext, RCall, RUnregister

(***************************************************************************)
(* The struct behind a Rust watcher or querier is never used after it was  *)
(* deleted, nor deleted twice: whatever the order of recycling,            *)
(* unregistering and running callbacks.                                    *)
(***************************************************************************)
THEOREM StructStaysSafe == RSpec => []RustMemorySafe
<1>1. RInit => RInv
  BY RInitHolds
<1>2. RInv /\ [RNext]_rVars => RInv'
  BY RStepKeeps
<1>3. RInv => RustMemorySafe
  BY DEF RInv, ROnce, RParties, RustMemorySafe
<1> QED
  BY <1>1, <1>2, <1>3, PTL DEF RSpec

(***************************************************************************)
(* It is deleted exactly when both parties have given it up: once the      *)
(* owner has recycled it, as soon as nobody holds the listener.            *)
(***************************************************************************)
THEOREM StructIsReclaimed == RSpec => []RustReclaimed
<1>1. RInit => RInv
  BY RInitHolds
<1>2. RInv /\ [RNext]_rVars => RInv'
  BY RStepKeeps
<1>3. RInv => RustReclaimed
  <2> SUFFICES ASSUME RInv, rAdds = 1, rRecycled = "found",
                      \A t \in RThreads : rPc[t] \notin {"recycle", "forget"}
               PROVE  (rStatus = "MEM_FREED")
                        = (\A n \in RListeners :
                             rHolders[n] \cap {"service", "delegate", "base", "ipc", "owner"} = {})
    BY DEF RustReclaimed
  <2>1. ROnce /\ 1 \in RListeners
    BY RustAssumption DEF RInv, RListeners
  <2>2. rStatus = "MEM_FREED" <=> rHolders[1] = {}
    BY <2>1 DEF ROnce, RParties, ROwnerDone, RListenerGone
  <2>3. rHolders[1] \subseteq {"service", "delegate", "base", "ipc", "owner"}
    <3>1. "map" \notin rHolders[1]
      BY <2>1 DEF ROnce, RMapsHold, RRecyclersHold, RRecycler, RThreads
    <3>2. "owner recycles" \notin rHolders[1] /\ "callback recycles" \notin rHolders[1]
      BY <2>1 DEF ROnce, RRecyclersHold, RRecycler, RRecycling, RThreads
    <3>3. rHolders[1] \subseteq RWho
      BY <2>1 DEF ROnce, RTypes
    <3> QED
      BY <3>1, <3>2, <3>3 DEF RWho
  <2>4. \A n \in RListeners : n # 1 => rHolders[n] = {}
    BY <2>1, RustAssumption DEF ROnce, RFresh, RListeners
  <2> QED
    BY <2>1, <2>2, <2>3, <2>4
<1> QED
  BY <1>1, <1>2, <1>3, PTL DEF RSpec
-----------------------------------------------------------------------------
(***************************************************************************)
(* The JS callback manager, for any number of IPC threads and callbacks.   *)
(* At most one thread is in charge of the queue at a time, as long as      *)
(* deliveries do not overlap: a thread inside ImmediateRun, the work on    *)
(* the uv loop, or the JS thread behind it.  The invariant says, for each  *)
(* of them, which callback it is going to run and how many callbacks have  *)
(* left the queue.                                                         *)
(***************************************************************************)
(* A callback is where one is needed.                                      *)
Filled ==
  /\ \A t \in Adders : pc[t] = "emplace" => arg[t] \in Callbacks
  /\ \A u \in Users : pc[u] = "submit" => context \in Callbacks
  /\ works > 0 => context \in Callbacks

TypeInv == TypeOK /\ Filled

(* How many callbacks have left the queue of a manager that lives.         *)
Popped == Len(added) - Len(jsCallbacks)

(* OnComplete has not run.                                                 *)
NoFinal == \A i \in 1..Len(ran) : ran[i] \notin Finals

(* The next callback to run is c.                                          *)
IsNext(c) == Len(ran) < Len(added) /\ c = added[Len(ran) + 1]

(* The queue holds what was added and has not left it.                     *)
QueueIsRest ==
  ~isReleased =>
    /\ Len(jsCallbacks) <= Len(added)
    /\ \A i \in 1..Len(jsCallbacks) : jsCallbacks[i] = added[Popped + i]

(* Threads are where they can be; nobody is inside Add after Release.      *)
Places ==
  /\ pc[Loop] # "emplace"
  /\ \A t \in Adders : pc[t] # "release"
  /\ isReleased => \A t \in Adders : pc[t] = "idle"

(* Deliveries that do not overlap.                                         *)
Serial == \A t, u \in Adders : pc[t] # "idle" /\ pc[u] # "idle" => t = u

(* Only one is in charge.                                                  *)
OneInCharge ==
  /\ works \in {0, 1}
  /\ works = 1 => pc[Loop] = "idle"
  /\ works = 1 \/ pc[Loop] # "idle" => \A t \in Adders : pc[t] \in {"idle", "emplace"}

(* Nobody is in charge while inCalling is false.                           *)
NotCalling ==
  ~isReleased /\ ~inCalling =>
    /\ works = 0
    /\ pc[Loop] = "idle"
    /\ \A t \in Adders : pc[t] \in {"idle", "emplace", "run"}
    /\ Popped = Len(ran)
    /\ NoFinal

(* A thread in charge, behind Add.                                         *)
AdderInCharge ==
  \A t \in Adders : pc[t] \notin {"idle", "emplace"} =>
    /\ Popped = Len(ran)
    /\ NoFinal
    /\ pc[t] \in {"context", "submit"} => IsNext(current[t])
    /\ pc[t] = "submit" => context = current[t]

(* The work on the uv loop.                                                *)
WorkInCharge ==
  works = 1 =>
    /\ IsNext(context)
    /\ NoFinal
    /\ ~isReleased => Popped = Len(ran)

(* The JS thread, behind the work.                                         *)
LoopInCharge ==
  /\ pc[Loop] = "release" => Len(ran) > 0 /\ context = ran[Len(ran)]
  /\ pc[Loop] \in {"run", "pick", "context", "submit"} => Len(ran) > 0 /\ NoFinal
  /\ pc[Loop] \in {"release", "run", "pick"} /\ ~isReleased => Popped = Len(ran) - 1
  /\ pc[Loop] \in {"context", "submit"} =>
       IsNext(current[Loop]) /\ (~isReleased => Popped = Len(ran))
  /\ pc[Loop] = "submit" => context = current[Loop]

Order ==
  /\ Len(ran) <= Len(added)
  /\ \A i \in 1..Len(ran) : ran[i] = added[i]
  /\ \A i \in 1..Len(ran) : ran[i] \in Finals => i = Len(ran)

Charge ==
  /\ Serial
  /\ OneInCharge
  /\ NotCalling
  /\ AdderInCharge
  /\ WorkInCharge
  /\ LoopInCharge
  /\ Order

Inv ==
  /\ TypeInv
  /\ Places
  /\ QueueIsRest
  /\ ~overlapped => Charge

-----------------------------------------------------------------------------
LEMMA TypeInit == Init => TypeInv
<1> SUFFICES ASSUME Init PROVE TypeInv
  OBVIOUS
<1>1. jsCallbacks \in Seq(Callbacks) /\ added \in Seq(Callbacks) /\ ran \in Seq(Callbacks)
  BY DEF Init
<1>2. /\ inCalling \in BOOLEAN /\ isReleased \in BOOLEAN
      /\ overlapped \in BOOLEAN /\ failed \in BOOLEAN
  BY Zenon DEF Init
<1>3. TypeOK
  BY <1>1, <1>2 DEF Init, TypeOK, Users
<1> QED BY <1>3 DEF Init, TypeInv, Filled, Users

LEMMA TypeStep == TypeInv /\ [Next]_vars => TypeInv'
<1> SUFFICES ASSUME TypeInv, [Next]_vars PROVE TypeInv'
  OBVIOUS
<1> USE CallbackAssumption DEF TypeInv, Filled, TypeOK, Users, Goto
<1>1. ASSUME NEW t \in Adders, NEW c \in Callbacks, Add(t, c) PROVE TypeInv'
  <2>1. overlapped' \in BOOLEAN
    BY <1>1, Zenon DEF Add
  <2> QED BY <1>1, <2>1 DEF Add
<1>2. ASSUME NEW t \in Adders, Emplace(t) PROVE TypeInv'
  BY <1>2 DEF Emplace, ghosts
<1>3. ASSUME NEW u \in Users, ImmediateRun(u) PROVE TypeInv'
  BY <1>3 DEF ImmediateRun, ghosts
<1>4. ASSUME NEW u \in Users, Pick(u) PROVE TypeInv'
  <2>1. Rest(u) \in Seq(Callbacks) /\ (Rest(u) # <<>> => Head(Rest(u)) \in Callbacks)
    BY DEF Rest
  <2>2. inCalling' \in BOOLEAN
    BY <1>4 DEF Pick
  <2> DEFINE rest == Rest(u)
  <2>3. /\ pc[u] = "pick" /\ jsCallbacks' = rest
        /\ IF isReleased \/ rest = <<>>
           THEN pc' = [pc EXCEPT ![u] = "idle"] /\ current' = [current EXCEPT ![u] = NoCallback]
           ELSE /\ current' = [current EXCEPT ![u] = Head(rest)]
                /\ pc' = [pc EXCEPT ![u] = "context"]
        /\ UNCHANGED <<isReleased, arg, context, works, added, ran, ghosts>>
    BY <1>4 DEF Pick, Return, Goto
  <2>4. rest \in Seq(Callbacks) /\ (rest # <<>> => Head(rest) \in Callbacks)
    BY <2>1
  <2> HIDE DEF rest
  <2>5. PICK label \in {"idle", "context"}, c \in Callbacks \cup {NoCallback} :
          /\ pc' = [pc EXCEPT ![u] = label] /\ current' = [current EXCEPT ![u] = c]
          /\ label = "context" => c \in Callbacks
    BY <2>3, <2>4
  <2>6. UNCHANGED <<isReleased, arg, context, works, added, ran, overlapped, failed>>
    BY <2>3 DEF ghosts
  <2>7. \A v \in Users : /\ pc'[v] = (IF v = u THEN label ELSE pc[v])
                          /\ current'[v] = (IF v = u THEN c ELSE current[v])
    BY <2>5
  <2>8. pc' \in [Users -> {"idle", "emplace", "run", "pick", "context", "submit", "release"}]
        /\ current' \in [Users -> Callbacks \cup {NoCallback}]
    BY <2>5
  <2>9. \A v \in Users : pc'[v] \in {"context", "submit"} => current'[v] \in Callbacks
    BY <2>5, <2>7
  <2>10. TypeOK'
    BY <2>2, <2>3, <2>4, <2>6, <2>8, <2>9
  <2>11. Filled'
    <3>1. \A v \in Users : pc'[v] \in {"emplace", "submit"} => pc'[v] = pc[v]
      BY <2>5, <2>7
    <3> QED BY <2>6, <3>1
  <2> QED BY <2>10, <2>11
<1>5. ASSUME NEW u \in Users, RunCallback(u) PROVE TypeInv'
  BY <1>5 DEF RunCallback, Return
<1>6. ASSUME NEW u \in Users, QueueWork(u) PROVE TypeInv'
  <2>1. failed' \in BOOLEAN
    BY <1>6, Zenon DEF QueueWork
  <2> QED BY <1>6, <2>1 DEF QueueWork, Return
<1>7. CASE Work
  <2>1. failed' \in BOOLEAN
    BY <1>7, Zenon DEF Work
  <2>2. works > 0 /\ works' = works - 1 /\ (ran' = Append(ran, context) \/ ran' = ran)
    BY <1>7, Zenon DEF Work
  <2>3. works' \in Nat
    BY <2>2
  <2>4. context \in Callbacks /\ ran \in Seq(Callbacks)
    BY <2>2
  <2>5. ran' \in Seq(Callbacks)
    <3>1. CASE ran' = Append(ran, context)
      BY <2>4, <3>1
    <3>2. CASE ran' = ran
      BY <2>4, <3>2
    <3> QED BY <2>2, <3>1, <3>2
  <2> QED BY <1>7, <2>1, <2>3, <2>5 DEF Work
<1>8. CASE CallRelease
  <2>1. isReleased' \in BOOLEAN
    BY <1>8, Zenon DEF CallRelease, ReleaseManager
  <2>2. jsCallbacks' = <<>> \/ jsCallbacks' = jsCallbacks
    BY <1>8, Zenon DEF CallRelease, ReleaseManager
  <2>3. jsCallbacks' \in Seq(Callbacks)
    <3>1. CASE jsCallbacks' = <<>>
      BY <3>1
    <3>2. CASE jsCallbacks' = jsCallbacks
      BY <3>2
    <3> QED BY <2>2, <3>1, <3>2
  <2>4. UNCHANGED <<inCalling, arg, current, context, works, added, ran, overlapped, failed>>
    BY <1>8 DEF CallRelease, ghosts
  <2>5. pc' \in [Users -> {"idle", "emplace", "run", "pick", "context", "submit", "release"}]
        /\ \A u \in Users : pc'[u] \in {"context", "submit", "emplace"} => pc'[u] = pc[u]
    BY <1>8 DEF CallRelease
  <2> QED BY <2>1, <2>3, <2>4, <2>5
<1>9. CASE Release
  BY <1>9 DEF Release, ReleaseManager, ghosts
<1>10. CASE UNCHANGED vars
  BY <1>10 DEF vars
<1> QED BY <1>1, <1>2, <1>3, <1>4, <1>5, <1>6, <1>7, <1>8, <1>9, <1>10
        DEF Next, AdderStep, LoopStep, Running

(* The variables of the callback manager keep their types.                 *)
THEOREM TypeCorrect == Spec => []TypeOK
<1>1. TypeInv => TypeOK
  BY DEF TypeInv
<1> QED BY <1>1, TypeInit, TypeStep, PTL DEF Spec
-----------------------------------------------------------------------------
LEMMA PlacesStep == TypeInv /\ Places /\ [Next]_vars => Places'
<1> SUFFICES ASSUME TypeInv, Places, [Next]_vars PROVE Places'
  OBVIOUS
<1> USE CallbackAssumption DEF TypeInv, TypeOK, Users, Goto, Places
<1>1. ASSUME NEW t \in Adders, NEW c \in Callbacks, Add(t, c) PROVE Places'
  BY <1>1 DEF Add
<1>2. ASSUME NEW t \in Adders, Emplace(t) PROVE Places'
  BY <1>2 DEF Emplace
<1>3. ASSUME NEW u \in Users, ImmediateRun(u) PROVE Places'
  BY <1>3 DEF ImmediateRun
<1>4. ASSUME NEW u \in Users, Pick(u) PROVE Places'
  BY <1>4 DEF Pick, Return
<1>5. ASSUME NEW u \in Users, RunCallback(u) PROVE Places'
  BY <1>5 DEF RunCallback, Return
<1>6. ASSUME NEW u \in Users, QueueWork(u) PROVE Places'
  BY <1>6 DEF QueueWork, Return
<1>7. CASE Work
  BY <1>7 DEF Work
<1>8. CASE CallRelease
  BY <1>8 DEF CallRelease, ReleaseManager
<1>9. CASE Release
  BY <1>9 DEF Release, ReleaseManager
<1>10. CASE UNCHANGED vars
  BY <1>10 DEF vars
<1> QED BY <1>1, <1>2, <1>3, <1>4, <1>5, <1>6, <1>7, <1>8, <1>9, <1>10
        DEF Next, AdderStep, LoopStep, Running

LEMMA QueueStep == TypeInv /\ Places /\ QueueIsRest /\ [Next]_vars => QueueIsRest'
<1> SUFFICES ASSUME TypeInv, Places, QueueIsRest, [Next]_vars PROVE QueueIsRest'
  OBVIOUS
<1> USE CallbackAssumption
<1>1. ASSUME jsCallbacks' = jsCallbacks, added' = added, isReleased => isReleased'
      PROVE  QueueIsRest'
  BY <1>1 DEF QueueIsRest, Popped
<1>2. ASSUME NEW t \in Adders, Emplace(t) PROVE QueueIsRest'
  <2>1. /\ jsCallbacks' = Append(jsCallbacks, arg[t]) /\ added' = Append(added, arg[t])
        /\ jsCallbacks \in Seq(Callbacks) /\ added \in Seq(Callbacks) /\ arg[t] \in Callbacks
        /\ isReleased' = isReleased
    BY <1>2 DEF Emplace, TypeInv, TypeOK, Filled
  <2>2. /\ Len(jsCallbacks') = Len(jsCallbacks) + 1 /\ Len(added') = Len(added) + 1
        /\ \A i \in 1..Len(jsCallbacks') :
             jsCallbacks'[i] = IF i <= Len(jsCallbacks) THEN jsCallbacks[i] ELSE arg[t]
        /\ \A i \in 1..Len(added') : added'[i] = IF i <= Len(added) THEN added[i] ELSE arg[t]
    BY <2>1
  <2>3. ~isReleased => Len(jsCallbacks) <= Len(added)
    BY DEF QueueIsRest
  <2>4. ASSUME ~isReleased', NEW i \in 1..Len(jsCallbacks')
        PROVE  jsCallbacks'[i] = added'[Popped' + i]
    <3>1. Popped' = Popped /\ Popped + i \in 1..Len(added') /\ Len(jsCallbacks) \in Nat /\ Len(added) \in Nat
      BY <2>1, <2>2, <2>3, <2>4 DEF Popped
    <3>2. CASE i <= Len(jsCallbacks)
      BY <2>1, <2>2, <2>4, <3>1, <3>2 DEF QueueIsRest, Popped
    <3>3. CASE i = Len(jsCallbacks) + 1
      BY <2>1, <2>2, <3>1, <3>3 DEF Popped
    <3> QED BY <2>2, <3>1, <3>2, <3>3
  <2>5. ~isReleased' => Len(jsCallbacks') <= Len(added')
    BY <2>1, <2>2, <2>3
  <2> QED BY <2>4, <2>5, Zenon DEF QueueIsRest
<1>3. ASSUME NEW u \in Users, Pick(u) PROVE QueueIsRest'
  <2>1. /\ jsCallbacks' = Rest(u) /\ added' = added /\ isReleased' = isReleased
        /\ jsCallbacks \in Seq(Callbacks) /\ added \in Seq(Callbacks)
    BY <1>3 DEF Pick, TypeInv, TypeOK
  <2>2. CASE u = Loop /\ jsCallbacks # <<>>
    <3>1. jsCallbacks' = Tail(jsCallbacks)
      BY <2>1, <2>2 DEF Rest
    <3>2. /\ Len(jsCallbacks') = Len(jsCallbacks) - 1
          /\ \A i \in 1..Len(jsCallbacks') : jsCallbacks'[i] = jsCallbacks[i + 1]
      BY <2>1, <2>2, <3>1
    <3> QED BY <2>1, <3>2 DEF QueueIsRest, Popped
  <2>3. CASE ~(u = Loop /\ jsCallbacks # <<>>)
    BY <2>1, <2>3, <1>1 DEF Rest
  <2> QED BY <2>2, <2>3
<1>4. CASE isReleased'
  BY <1>4 DEF QueueIsRest
<1>5. ASSUME NEW t \in Adders, NEW c \in Callbacks, Add(t, c) PROVE QueueIsRest'
  BY <1>1, <1>5 DEF Add
<1>6. ASSUME NEW u \in Users, ImmediateRun(u) \/ RunCallback(u) \/ QueueWork(u)
      PROVE QueueIsRest'
  BY <1>1, <1>6 DEF ImmediateRun, RunCallback, QueueWork
<1>7. CASE Work
  BY <1>1, <1>7 DEF Work
<1>8. CASE CallRelease
  BY <1>1, <1>4, <1>8 DEF CallRelease, ReleaseManager
<1>9. CASE Release
  BY <1>4, <1>9 DEF Release, ReleaseManager
<1>10. CASE UNCHANGED vars
  BY <1>1, <1>10 DEF vars
<1> QED BY <1>2, <1>3, <1>5, <1>6, <1>7, <1>8, <1>9, <1>10
        DEF Next, AdderStep, LoopStep, Running, Users
-----------------------------------------------------------------------------
Labels == {"idle", "emplace", "run", "pick", "context", "submit", "release"}

(* The facts about types the steps need.                                   *)
LEMMA Facts ==
  ASSUME Inv
  PROVE  /\ pc \in [Users -> Labels]
         /\ current \in [Users -> Callbacks \cup {NoCallback}]
         /\ Loop \in Users /\ Adders \subseteq Users /\ Loop \notin Adders
         /\ jsCallbacks \in Seq(Callbacks) /\ added \in Seq(Callbacks) /\ ran \in Seq(Callbacks)
         /\ Len(jsCallbacks) \in Nat /\ Len(added) \in Nat /\ Len(ran) \in Nat
         /\ works \in Nat /\ Popped \in Int
         /\ pc[Loop] # "emplace"
         /\ \A t \in Adders : pc[t] # "release"
         /\ isReleased => \A t \in Adders : pc[t] = "idle"
BY CallbackAssumption DEF Inv, TypeInv, TypeOK, Places, Popped, Users, Labels

LEMMA InCharge == ASSUME Inv, ~overlapped PROVE Charge
BY Zenon DEF Inv

LEMMA ChargeAdd ==
  ASSUME Inv, ~overlapped', NEW t \in Adders, NEW c \in Callbacks, Add(t, c)
  PROVE  Charge'
<1>1. /\ \A u \in Adders : pc[u] = "idle"
      /\ pc' = [pc EXCEPT ![t] = "emplace"]
      /\ UNCHANGED <<jsCallbacks, inCalling, isReleased, current, context, works, added, ran>>
      /\ ~overlapped
  BY DEF Add, Goto
<1>2. Charge
  BY <1>1, InCharge
<1>3. Serial' /\ OneInCharge' /\ AdderInCharge'
  BY <1>1, <1>2, Facts DEF Charge, Serial, OneInCharge, AdderInCharge
<1>4. NotCalling' /\ WorkInCharge' /\ LoopInCharge' /\ Order'
  BY <1>1, <1>2, Facts DEF Charge, NotCalling, WorkInCharge, LoopInCharge, Order, NoFinal, IsNext,
                    Popped
<1> QED BY <1>3, <1>4 DEF Charge

LEMMA ChargeEmplace ==
  ASSUME Inv, ~overlapped', NEW t \in Adders, Emplace(t)
  PROVE  Charge'
<1>1. /\ pc[t] = "emplace"
      /\ pc' = [pc EXCEPT ![t] = IF inCalling THEN "idle" ELSE "run"]
      /\ jsCallbacks' = Append(jsCallbacks, arg[t]) /\ added' = Append(added, arg[t])
      /\ UNCHANGED <<inCalling, isReleased, current, context, works, ran>>
      /\ ~overlapped
  BY DEF Emplace, Goto, ghosts
<1>2. Charge
  BY <1>1, InCharge
<1>3. arg[t] \in Callbacks
  BY <1>1 DEF Inv, TypeInv, Filled
<1>4. /\ Popped' = Popped /\ Len(added') = Len(added) + 1
      /\ \A i \in 1..Len(added) : added'[i] = added[i]
  BY <1>1, <1>3, Facts DEF Popped
<1>5. ~isReleased /\ Len(ran) <= Len(added)
  BY <1>1, <1>2, Facts DEF Charge, Order
<1>6. Serial' /\ OneInCharge'
  BY <1>1, <1>2, <1>5, Facts DEF Charge, Serial, OneInCharge, NotCalling
<1>7. NoFinal' <=> NoFinal
  BY <1>1 DEF NoFinal
<1>8. ASSUME NEW x, IsNext(x) PROVE Len(ran) < Len(added') /\ x = added'[Len(ran) + 1]
  BY <1>4, <1>8, Facts DEF IsNext
<1>9. NotCalling'
  BY <1>1, <1>2, <1>4, <1>7, Facts DEF Charge, NotCalling
<1>10. WorkInCharge'
  BY <1>1, <1>2, <1>4, <1>7, <1>8, Facts DEF Charge, WorkInCharge, IsNext
<1>11. LoopInCharge'
  BY <1>1, <1>2, <1>4, <1>7, <1>8, Facts DEF Charge, LoopInCharge, IsNext
<1>12. AdderInCharge'
  <2> SUFFICES ASSUME NEW u \in Adders, pc'[u] \notin {"idle", "emplace"}
               PROVE  /\ Popped' = Len(ran') /\ NoFinal'
                      /\ pc'[u] \notin {"context", "submit"}
    BY DEF AdderInCharge
  <2>1. u = t
    <3>1. u # t => pc[u] # "idle" /\ pc[t] # "idle"
      BY <1>1, Facts
    <3> QED BY <1>2, <3>1 DEF Charge, Serial
  <2>2. pc'[t] = "run" /\ ~inCalling
    BY <1>1, <2>1, Facts
  <2>3. Popped = Len(ran) /\ NoFinal
    BY <1>2, <1>5, <2>2 DEF Charge, NotCalling
  <2> QED BY <1>1, <1>4, <1>7, <2>1, <2>2, <2>3
<1>13. Order'
  <2>1. ran' = ran /\ Len(ran) \in Nat /\ Len(added) \in Nat
    BY <1>1, Facts
  <2>2. \A i \in 1..Len(ran) : i \in 1..Len(added) /\ ran[i] = added[i]
    BY <1>2, <1>5, <2>1 DEF Charge, Order
  <2>3. \A i \in 1..Len(ran) : ran[i] = added'[i]
    BY <1>4, <2>2
  <2>4. \A i \in 1..Len(ran) : ran[i] \in Finals => i = Len(ran)
    BY <1>2 DEF Charge, Order
  <2> QED BY <1>4, <1>5, <2>1, <2>3, <2>4 DEF Order
<1> QED BY <1>6, <1>9, <1>10, <1>11, <1>12, <1>13 DEF Charge

LEMMA ChargeImmediateRun ==
  ASSUME Inv, ~overlapped', NEW u \in Users, ImmediateRun(u)
  PROVE  Charge'
<1>1. /\ pc[u] = "run" /\ inCalling'
      /\ pc' = [pc EXCEPT ![u] = IF isReleased THEN "idle" ELSE "pick"]
      /\ UNCHANGED <<jsCallbacks, isReleased, current, context, works, added, ran>>
      /\ ~overlapped
  BY DEF ImmediateRun, Goto, ghosts
<1>2. Charge
  BY <1>1, InCharge
<1>3. Serial' /\ OneInCharge' /\ NotCalling'
  BY <1>1, <1>2, Facts DEF Charge, Serial, OneInCharge, NotCalling
<1>4. AdderInCharge' /\ WorkInCharge' /\ LoopInCharge' /\ Order'
  BY <1>1, <1>2, Facts DEF Charge, AdderInCharge, WorkInCharge, LoopInCharge, Order, NoFinal, IsNext,
                    Popped
<1> QED BY <1>3, <1>4 DEF Charge

LEMMA ChargePickAdder ==
  ASSUME Inv, ~overlapped', NEW t \in Adders, Pick(t)
  PROVE  Charge'
<1>1. /\ pc[t] = "pick" /\ jsCallbacks' = jsCallbacks
      /\ UNCHANGED <<isReleased, context, works, added, ran>>
      /\ ~overlapped
  BY Facts DEF Pick, ghosts, Rest
<1>2. Charge
  BY <1>1, InCharge
<1>3. /\ ~isReleased /\ works = 0 /\ pc[Loop] = "idle" /\ Popped = Len(ran) /\ NoFinal
      /\ \A u \in Adders : u # t => pc[u] = "idle"
  BY <1>1, <1>2, Facts DEF Charge, AdderInCharge, OneInCharge, Serial
<1>4. Popped' = Popped /\ (NoFinal' <=> NoFinal) /\ Order'
  BY <1>1, <1>2 DEF Charge, Order, NoFinal, Popped
<1>5. CASE jsCallbacks = <<>>
  <2>1. pc' = [pc EXCEPT ![t] = "idle"]
    BY <1>1, <1>5, Facts DEF Pick, Return, Goto, Rest
  <2>2. Serial' /\ OneInCharge' /\ NotCalling'
    BY <1>1, <1>3, <1>4, <2>1, Facts DEF Serial, OneInCharge, NotCalling
  <2>3. AdderInCharge' /\ WorkInCharge' /\ LoopInCharge'
    BY <1>1, <1>3, <2>1, Facts DEF AdderInCharge, WorkInCharge, LoopInCharge
  <2> QED BY <1>4, <2>2, <2>3 DEF Charge
<1>6. CASE jsCallbacks # <<>>
  <2>1. /\ pc' = [pc EXCEPT ![t] = "context"] /\ inCalling' = inCalling
        /\ current' = [current EXCEPT ![t] = Head(jsCallbacks)]
    BY <1>3, <1>6, Facts DEF Pick, Return, Goto, Rest
  <2>2. Head(jsCallbacks) = jsCallbacks[1] /\ 1 \in 1..Len(jsCallbacks)
    BY <1>6, Facts
  <2>3. Len(jsCallbacks) <= Len(added) /\ jsCallbacks[1] = added[Popped + 1]
    BY <1>3, <2>2 DEF Inv, QueueIsRest
  <2>4. IsNext(Head(jsCallbacks))
    BY <1>3, <2>2, <2>3, Facts DEF IsNext, Popped
  <2>5. IsNext(current[t])'
    BY <1>1, <2>1, <2>4, Facts DEF IsNext
  <2>6. Serial' /\ OneInCharge' /\ NotCalling'
    BY <1>1, <1>2, <1>3, <2>1, Facts DEF Charge, Serial, OneInCharge, NotCalling
  <2>7. AdderInCharge' /\ WorkInCharge' /\ LoopInCharge'
    BY <1>1, <1>3, <1>4, <2>1, <2>5, Facts DEF AdderInCharge, WorkInCharge, LoopInCharge
  <2> QED BY <1>4, <2>6, <2>7 DEF Charge
<1> QED BY <1>5, <1>6

LEMMA ChargePickLoop ==
  ASSUME Inv, ~overlapped', Pick(Loop)
  PROVE  Charge'
<1>1. /\ pc[Loop] = "pick" /\ jsCallbacks' = Rest(Loop)
      /\ UNCHANGED <<isReleased, context, works, added, ran>>
      /\ ~overlapped
  BY DEF Pick, ghosts
<1>2. Charge
  BY <1>1, InCharge
<1>3. /\ works = 0 /\ NoFinal /\ Len(ran) > 0
      /\ \A t \in Adders : pc[t] \in {"idle", "emplace"}
      /\ ~isReleased => Popped = Len(ran) - 1
      /\ Len(ran) <= Len(added)
  BY <1>1, <1>2, Facts DEF Charge, LoopInCharge, OneInCharge, Order
<1>4. (NoFinal' <=> NoFinal) /\ Order'
  BY <1>1, <1>2 DEF Charge, Order, NoFinal
<1>5. ~isReleased => Popped' = Len(ran)
  <2> SUFFICES ASSUME ~isReleased PROVE Popped' = Len(ran)
    OBVIOUS
  <2>1. jsCallbacks # <<>>
    BY <1>3, Facts DEF Popped
  <2>2. jsCallbacks' = Tail(jsCallbacks)
    BY <1>1, <2>1 DEF Rest
  <2>3. Len(jsCallbacks') = Len(jsCallbacks) - 1
    BY <2>1, <2>2, Facts
  <2> QED BY <1>1, <1>3, <2>3, Facts DEF Popped
<1>6. CASE isReleased \/ Rest(Loop) = <<>>
  <2>1. pc' = [pc EXCEPT ![Loop] = "idle"] /\ current' = [current EXCEPT ![Loop] = NoCallback]
    BY <1>6 DEF Pick, Return, Goto
  <2>2. Serial' /\ OneInCharge' /\ NotCalling'
    BY <1>1, <1>2, <1>3, <1>4, <1>5, <2>1, Facts DEF Charge, Serial, OneInCharge, NotCalling
  <2>3. AdderInCharge' /\ WorkInCharge' /\ LoopInCharge'
    BY <1>1, <1>3, <2>1, Facts DEF AdderInCharge, WorkInCharge, LoopInCharge
  <2> QED BY <1>4, <2>2, <2>3 DEF Charge
<1>7. CASE ~isReleased /\ Rest(Loop) # <<>>
  <2>1. /\ pc' = [pc EXCEPT ![Loop] = "context"] /\ inCalling' = inCalling
        /\ current' = [current EXCEPT ![Loop] = Head(jsCallbacks')]
    BY <1>1, <1>7 DEF Pick, Goto
  <2>2. jsCallbacks' \in Seq(Callbacks) /\ jsCallbacks' # <<>>
    BY <1>1, <1>7, Facts DEF Rest
  <2>3. Head(jsCallbacks') = jsCallbacks'[1] /\ 1 \in 1..Len(jsCallbacks') /\ Len(jsCallbacks') \in Nat
    BY <2>2
  <2>4. QueueIsRest'
    <3>1. [Next]_vars
      BY DEF Next, LoopStep, Running
    <3> QED BY <3>1, QueueStep DEF Inv
  <2>5. Len(jsCallbacks') <= Len(added') /\ jsCallbacks'[1] = added'[Popped' + 1]
    BY <1>1, <1>7, <2>3, <2>4 DEF QueueIsRest
  <2>6. IsNext(Head(jsCallbacks'))
    BY <1>1, <1>5, <1>7, <2>3, <2>5, Facts DEF IsNext, Popped
  <2>7. IsNext(current[Loop])'
    BY <1>1, <2>1, <2>6, Facts DEF IsNext
  <2>8. Serial' /\ OneInCharge' /\ NotCalling'
    BY <1>1, <1>2, <1>3, <1>7, <2>1, Facts DEF Charge, Serial, OneInCharge, NotCalling
  <2>9. AdderInCharge' /\ WorkInCharge' /\ LoopInCharge'
    BY <1>1, <1>3, <1>4, <1>5, <2>1, <2>7, Facts DEF AdderInCharge, WorkInCharge, LoopInCharge
  <2> QED BY <1>4, <2>8, <2>9 DEF Charge
<1> QED BY <1>6, <1>7

(* Who is in charge behind Pick is the only one, and inCalling is set.     *)
LEMMA Alone ==
  ASSUME Inv, Charge, NEW u \in Users, pc[u] \in {"context", "submit"}
  PROVE  /\ works = 0
         /\ Popped = Len(ran) \/ isReleased
         /\ NoFinal /\ IsNext(current[u])
         /\ isReleased \/ inCalling
         /\ \A t \in Adders : t # u => pc[t] \in {"idle", "emplace"}
         /\ u # Loop => pc[Loop] = "idle"
BY Facts DEF Charge, OneInCharge, NotCalling, AdderInCharge, LoopInCharge, Serial, Users

LEMMA ChargeRunCallback ==
  ASSUME Inv, ~overlapped', NEW u \in Users, RunCallback(u)
  PROVE  Charge'
<1>1. /\ pc[u] = "context"
      /\ UNCHANGED <<jsCallbacks, inCalling, isReleased, works, added, ran>>
      /\ ~overlapped
  BY DEF RunCallback
<1>2. Charge
  BY <1>1, InCharge
<1>3. /\ NoFinal' <=> NoFinal
      /\ Popped' = Popped /\ Order'
      /\ \A x : IsNext(x) => Len(ran') < Len(added') /\ x = added'[Len(ran') + 1]
  BY <1>1, <1>2 DEF Charge, Order, NoFinal, Popped, IsNext
<1>4. CASE pc' = [pc EXCEPT ![u] = "idle"] /\ current' = [current EXCEPT ![u] = NoCallback]
  <2>1. Serial' /\ OneInCharge' /\ NotCalling'
    BY <1>1, <1>2, <1>4, Alone, Facts DEF Charge, Serial, OneInCharge, NotCalling
  <2>2. AdderInCharge' /\ WorkInCharge' /\ LoopInCharge'
    BY <1>1, <1>2, <1>4, Alone, Facts DEF Charge, OneInCharge, AdderInCharge, WorkInCharge, LoopInCharge
  <2> QED BY <1>3, <2>1, <2>2 DEF Charge
<1>5. CASE context' = current[u] /\ pc' = [pc EXCEPT ![u] = "submit"] /\ current' = current
  <2>1. Serial' /\ OneInCharge' /\ NotCalling'
    BY <1>1, <1>2, <1>5, Alone, Facts DEF Charge, Serial, OneInCharge, NotCalling
  <2>2. IsNext(current[u])'
    BY <1>1, <1>2, <1>3, <1>5, Alone DEF IsNext
  <2>3. AdderInCharge' /\ WorkInCharge' /\ LoopInCharge'
    BY <1>1, <1>2, <1>3, <1>5, <2>2, Alone, Facts
       DEF Charge, OneInCharge, AdderInCharge, WorkInCharge, LoopInCharge
  <2> QED BY <1>3, <2>1, <2>3 DEF Charge
<1> QED BY <1>4, <1>5 DEF RunCallback, Return, Goto

LEMMA ChargeQueueWork ==
  ASSUME Inv, ~overlapped', NEW u \in Users, QueueWork(u)
  PROVE  Charge'
<1>1. /\ pc[u] = "submit" /\ works' \in {works, works + 1}
      /\ pc' = [pc EXCEPT ![u] = "idle"] /\ current' = [current EXCEPT ![u] = NoCallback]
      /\ UNCHANGED <<jsCallbacks, inCalling, isReleased, context, added, ran>>
      /\ ~overlapped
  BY DEF QueueWork, Return, Goto
<1>2. Charge
  BY <1>1, InCharge
<1>3. context = current[u]
  BY <1>1, <1>2, Facts DEF Charge, AdderInCharge, LoopInCharge, Users
<1>4. works' \in {0, 1} /\ pc'[Loop] = "idle" /\ \A t \in Adders : pc'[t] \in {"idle", "emplace"}
  BY <1>1, <1>2, Alone, Facts
<1>5. /\ NoFinal' /\ IsNext(context)' /\ (~isReleased => Popped' = Len(ran))
      /\ isReleased' \/ inCalling'
  BY <1>1, <1>2, <1>3, Alone DEF NoFinal, IsNext, Popped
<1>6. Serial'
  BY <1>1, <1>2, Facts DEF Charge, Serial
<1>7. OneInCharge' /\ NotCalling' /\ AdderInCharge' /\ WorkInCharge' /\ LoopInCharge'
  BY <1>1, <1>4, <1>5 DEF OneInCharge, NotCalling, AdderInCharge, WorkInCharge, LoopInCharge
<1>8. Order'
  BY <1>1, <1>2 DEF Charge, Order
<1> QED BY <1>6, <1>7, <1>8 DEF Charge

LEMMA ChargeWork ==
  ASSUME Inv, ~overlapped', Work
  PROVE  Charge'
<1>1. /\ pc[Loop] = "idle" /\ works > 0 /\ works' = works - 1
      /\ UNCHANGED <<jsCallbacks, inCalling, isReleased, current, context, added>>
      /\ ~overlapped
  BY DEF Work
<1>2. Charge
  BY <1>1, InCharge
<1>3. /\ works = 1 /\ IsNext(context) /\ NoFinal
      /\ ~isReleased => Popped = Len(ran)
      /\ isReleased \/ inCalling
      /\ \A t \in Adders : pc[t] \in {"idle", "emplace"}
  BY <1>1, <1>2, Facts DEF Charge, OneInCharge, WorkInCharge, NotCalling
<1>4. CASE ran' = Append(ran, context) /\ pc' = [pc EXCEPT ![Loop] = "release"]
  <2>1. context \in Callbacks
    BY <1>1 DEF Inv, TypeInv, Filled
  <2>2. /\ Len(ran') = Len(ran) + 1 /\ ran'[Len(ran')] = context
        /\ \A i \in 1..Len(ran) : ran'[i] = ran[i]
    BY <1>4, <2>1, Facts
  <2>3. Order'
    <3>1. Len(ran') <= Len(added') /\ Len(ran') \in Nat
      BY <1>1, <1>3, <2>2, Facts DEF IsNext
    <3>2. ASSUME NEW i \in 1..Len(ran')
          PROVE  ran'[i] = added'[i] /\ (ran'[i] \in Finals => i = Len(ran'))
      <4>1. CASE i = Len(ran')
        BY <1>1, <1>3, <2>2, <4>1, Facts DEF IsNext
      <4>2. CASE i # Len(ran')
        <5>1. i \in 1..Len(ran)
          BY <2>2, <3>1, <4>2, Facts
        <5>2. ran[i] = added[i] /\ ran[i] \notin Finals
          BY <1>2, <1>3, <5>1 DEF Charge, Order, NoFinal
        <5> QED BY <1>1, <2>2, <5>1, <5>2
      <4> QED BY <4>1, <4>2
    <3> QED BY <3>1, <3>2 DEF Order
  <2>4. Serial' /\ OneInCharge' /\ NotCalling' /\ AdderInCharge'
    BY <1>1, <1>2, <1>3, <1>4, Facts DEF Charge, Serial, OneInCharge, NotCalling, AdderInCharge
  <2>5. Popped' = Popped
    BY <1>1 DEF Popped
  <2>6. WorkInCharge' /\ LoopInCharge'
    BY <1>1, <1>3, <1>4, <2>2, <2>5, Facts DEF WorkInCharge, LoopInCharge
  <2> QED BY <2>3, <2>4, <2>6 DEF Charge
<1>5. CASE UNCHANGED <<ran, pc>>
  <2>1. Order'
    BY <1>1, <1>2, <1>5 DEF Charge, Order
  <2>2. Serial' /\ OneInCharge' /\ NotCalling' /\ AdderInCharge' /\ WorkInCharge' /\ LoopInCharge'
    BY <1>1, <1>2, <1>3, <1>5, Facts
       DEF Charge, Serial, OneInCharge, NotCalling, AdderInCharge, WorkInCharge, LoopInCharge
  <2> QED BY <2>1, <2>2 DEF Charge
<1> QED BY <1>4, <1>5 DEF Work, Goto

LEMMA ChargeCallRelease ==
  ASSUME Inv, ~overlapped', CallRelease
  PROVE  Charge'
<1>1. /\ pc[Loop] = "release"
      /\ UNCHANGED <<inCalling, current, context, works, added, ran>>
      /\ ~overlapped
  BY DEF CallRelease, ghosts
<1>2. Charge
  BY <1>1, InCharge
<1>3. /\ works = 0 /\ Len(ran) > 0 /\ context = ran[Len(ran)]
      /\ isReleased \/ inCalling
      /\ \A t \in Adders : pc[t] \in {"idle", "emplace"}
      /\ ~isReleased => Popped = Len(ran) - 1
  BY <1>1, <1>2, Facts DEF Charge, OneInCharge, LoopInCharge, NotCalling
<1>4. Order' /\ (NoFinal' <=> NoFinal)
  BY <1>1, <1>2 DEF Charge, Order, NoFinal
<1>5. CASE /\ context \notin Finals /\ pc' = [pc EXCEPT ![Loop] = "run"]
           /\ UNCHANGED <<isReleased, jsCallbacks>>
  <2>1. NoFinal'
    BY <1>1, <1>2, <1>3, <1>5 DEF Charge, Order, NoFinal
  <2>2. Popped' = Popped
    BY <1>1, <1>5 DEF Popped
  <2>3. Serial' /\ OneInCharge' /\ NotCalling'
    BY <1>1, <1>2, <1>3, <1>5, Facts DEF Charge, Serial, OneInCharge, NotCalling
  <2>4. AdderInCharge' /\ WorkInCharge' /\ LoopInCharge'
    BY <1>1, <1>3, <1>5, <2>1, <2>2, Facts DEF AdderInCharge, WorkInCharge, LoopInCharge
  <2> QED BY <1>4, <2>3, <2>4 DEF Charge
<1>6. CASE /\ pc' = [pc EXCEPT ![Loop] = "idle"]
           /\ isReleased' \/ isReleased' = isReleased
  <2>1. Serial' /\ OneInCharge' /\ NotCalling'
    BY <1>1, <1>2, <1>3, <1>6, Facts DEF Charge, Serial, OneInCharge, NotCalling
  <2>2. AdderInCharge' /\ WorkInCharge' /\ LoopInCharge'
    BY <1>1, <1>3, <1>6, Facts DEF AdderInCharge, WorkInCharge, LoopInCharge
  <2> QED BY <1>4, <2>1, <2>2 DEF Charge
<1> QED BY <1>5, <1>6 DEF CallRelease, ReleaseManager, Goto

LEMMA ChargeRelease ==
  ASSUME Inv, ~overlapped', Release
  PROVE  Charge'
<1>1. /\ isReleased' /\ \A t \in Adders : pc[t] = "idle"
      /\ UNCHANGED <<inCalling, pc, current, context, works, added, ran>>
      /\ ~overlapped
  BY DEF Release, ReleaseManager, ghosts
<1>2. Charge
  BY <1>1, InCharge
<1> QED BY <1>1, <1>2 DEF Charge, Serial, OneInCharge, NotCalling, AdderInCharge, WorkInCharge,
                          LoopInCharge, Order, NoFinal, IsNext

LEMMA ChargeStutter ==
  ASSUME Inv, ~overlapped', UNCHANGED vars
  PROVE  Charge'
<1>1. ~overlapped /\ UNCHANGED <<jsCallbacks, inCalling, isReleased, pc, current, context, works,
                                 added, ran>>
  BY DEF vars
<1>2. Charge
  BY <1>1, InCharge
<1> QED BY <1>1, <1>2 DEF Charge, Serial, OneInCharge, NotCalling, AdderInCharge, WorkInCharge,
                          LoopInCharge, Order, NoFinal, IsNext, Popped
-----------------------------------------------------------------------------
LEMMA InvInit == Init => Inv
<1> SUFFICES ASSUME Init PROVE Inv
  OBVIOUS
<1> USE CallbackAssumption DEF Init, Users
<1>1. TypeInv
  BY TypeInit
<1>2. Places /\ QueueIsRest
  BY DEF Places, QueueIsRest
<1>3. Len(ran) = 0 /\ Popped = 0
  BY DEF Popped
<1>4. Serial /\ OneInCharge /\ NotCalling
  BY <1>3 DEF Serial, OneInCharge, NotCalling, NoFinal
<1>5. AdderInCharge /\ WorkInCharge /\ LoopInCharge /\ Order
  BY <1>3 DEF AdderInCharge, WorkInCharge, LoopInCharge, Order
<1> QED BY <1>1, <1>2, <1>4, <1>5, Zenon DEF Inv, Charge

LEMMA InvStep == Inv /\ [Next]_vars => Inv'
<1> SUFFICES ASSUME Inv, [Next]_vars PROVE Inv'
  OBVIOUS
<1>1. TypeInv' /\ Places' /\ QueueIsRest'
  BY TypeStep, PlacesStep, QueueStep DEF Inv
<1>2. ASSUME ~overlapped' PROVE Charge'
  <2>1. ASSUME NEW t \in Adders, NEW c \in Callbacks, Add(t, c) PROVE Charge'
    BY <1>2, <2>1, ChargeAdd
  <2>2. ASSUME NEW t \in Adders, AdderStep(t) PROVE Charge'
    BY <1>2, <2>2, ChargeEmplace, ChargeImmediateRun, ChargePickAdder, ChargeRunCallback,
       ChargeQueueWork DEF AdderStep, Running, Users
  <2>3. CASE LoopStep
    BY <1>2, <2>3, ChargeWork, ChargeCallRelease, ChargeImmediateRun, ChargePickLoop,
       ChargeRunCallback, ChargeQueueWork DEF LoopStep, Running, Users
  <2>4. CASE Release
    BY <1>2, <2>4, ChargeRelease
  <2>5. CASE UNCHANGED vars
    BY <1>2, <2>5, ChargeStutter
  <2> QED BY <2>1, <2>2, <2>3, <2>4, <2>5 DEF Next
<1> QED BY <1>1, <1>2, Zenon DEF Inv

(***************************************************************************)
(* Whatever the number of IPC threads and callbacks, and whatever fails in *)
(* between: as long as deliveries do not overlap, the JS thread runs the   *)
(* callbacks once each, in the order of Add and without a gap.             *)
(***************************************************************************)
THEOREM CallbacksRunInOrder == Spec => []RanInOrder
<1>1. Inv => RanInOrder
  BY DEF Inv, Charge, Order, RanInOrder
<1> QED BY <1>1, InvInit, InvStep, PTL DEF Spec

(* Nothing runs behind OnComplete, whose release function destroys the     *)
(* querier that owns the context.                                          *)
THEOREM FinalRunsLast == Spec => []NothingAfterFinal
<1>1. Inv => NothingAfterFinal
  BY DEF Inv, Charge, Order, NothingAfterFinal
<1> QED BY <1>1, InvInit, InvStep, PTL DEF Spec
================================================================================
