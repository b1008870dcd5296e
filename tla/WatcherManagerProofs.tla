------------------------- MODULE WatcherManagerProofs -------------------------
(***************************************************************************)
(* Proofs about the C interface for listening.  The types hold whatever    *)
(* the service and the application do.  That no registration gets out of   *)
(* reach, and that the results of Add and Remove tell the truth, is proved *)
(* for an application that adds no watcher twice (~ReAdds) and a service   *)
(* that does not fail to remove one while it runs ("remove" \notin         *)
(* Refuses), for any number of threads, watchers, deaths and calls.        *)
(***************************************************************************)
EXTENDS WatcherManager, TLAPS

InAdd(t) == pc[t] \in {"adding", "added"}
InRemove(t) == pc[t] \in {"removing", "removed"}

(* An entry of the map is a base listener of its watcher.                  *)
MapOK == \A w \in Listeners : watchers[w] # NoBase => listener[watchers[w]] = w

(* A thread inside a call has a base listener with a watcher, and a stub   *)
(* when it makes an IPC call.                                              *)
HasBase ==
  \A t \in Threads : pc[t] # "idle" =>
    /\ base[t] \in Bases
    /\ listener[base[t]] \in Listeners
    /\ pc[t] \in {"adding", "removing"} => stub[base[t]] \in Stubs

(* A thread that removes has the mutex, and its base listener is stored;   *)
(* the base listener of one that adds is its own and not stored yet.       *)
Owners ==
  \A t \in Threads :
    /\ InRemove(t) => mapMutex = t /\ watchers[listener[base[t]]] = base[t]
    /\ InAdd(t) =>
         /\ \A w \in Listeners : watchers[w] # base[t]
         /\ \A u \in Threads : InAdd(u) /\ base[u] = base[t] => u = t

(* What holds whatever the service and the application do.                 *)
Control == TypeOK /\ MapOK /\ HasBase /\ Owners

Alive ==
  /\ \A t \in Threads : handle[t] => up
  /\ ~up => registered = {}

(* What the threads inside a call know of the stub of their base listener. *)
Handles ==
  \A t \in Threads :
    /\ pc[t] # "idle" /\ ~handle[t] => stub[base[t]] \notin registered
    /\ pc[t] = "removed" => stub[base[t]] = NoStub
    /\ pc[t] = "added" /\ ret[t] = IPC_CALL_SUCCEED /\ handle[t] => stub[base[t]] \in registered
    /\ InRemove(t) => said[listener[base[t]]] # "added"

(* The entry that a watcher has while it is being added is not registered, *)
(* so that nothing is lost when it is overwritten.                         *)
OneAdder ==
  \A t \in Threads : InAdd(t) =>
    LET w == listener[base[t]] IN
    /\ said[w] = "unknown"
    /\ watchers[w] # NoBase => stub[watchers[w]] \notin registered
    /\ \A u \in Threads : InAdd(u) /\ listener[base[u]] = w => u = t

(* A stored watcher is registered only if AddWatcher said so, until        *)
(* somebody removes it.                                                    *)
StoredSaid ==
  \A w \in Listeners : watchers[w] # NoBase /\ stub[watchers[w]] \in registered =>
    said[w] = "added" \/ \E u \in Threads : pc[u] = "removing" /\ base[u] = watchers[w]

Truth ==
  /\ Alive /\ Handles /\ OneAdder /\ StoredSaid
  /\ NoOrphanWatcher /\ AddedMeansListening /\ RemovedMeansSilent

Inv == Control /\ Truth

-----------------------------------------------------------------------------
(* The initial states are typed, and nobody is registered.                 *)
LEMMA InitInv == Init => Inv
<1> SUFFICES ASSUME Init PROVE Inv
  OBVIOUS
<1> USE BaseManagerAssumption, WatcherAssumption DEF Init, BaseInit
<1>1. Control
  BY DEF Control, TypeOK, BaseTypeOK, BaseTypes, StubShape, MapOK, HasBase, Owners,
         InAdd, InRemove, Codes
<1>2. Truth
  BY DEF Truth, Alive, Handles, OneAdder, StoredSaid, InAdd, InRemove, NoOrphanWatcher,
         AddedMeansListening, RemovedMeansSilent
<1> QED BY <1>1, <1>2 DEF Inv

(* The base manager's half of AddWatcher keeps the types and the shape.    *)
LEMMA BaseAddTypes ==
  ASSUME BaseTypeOK, NEW t \in Threads, NEW b \in Bases, BaseAdd(t, b)
  PROVE  /\ proxy' \in [Bases -> BOOLEAN]
         /\ stub' \in [Bases -> Stubs \cup {NoStub}]
         /\ target' \in [Stubs -> Bases \cup {NoBase}]
         /\ pc' \in [Threads -> {"idle", "adding", "added", "removing", "removed"}]
         /\ base' \in [Threads -> Bases \cup {NoBase}]
         /\ handle' \in [Threads -> BOOLEAN]
         /\ ret' \in [Threads -> Codes]
         /\ StubShape'
         /\ base'[t] = b
         /\ pc'[t] \in {"adding", "added"}
         /\ pc'[t] = "adding" => stub'[b] \in Stubs
         /\ \A u \in Threads \ {t} : pc'[u] = pc[u]
<1> USE BaseManagerAssumption DEF BaseTypeOK, BaseTypes, Codes, Answer, Request
<1>1. proxy' = [proxy EXCEPT ![b] = TRUE] /\ base' = [base EXCEPT ![t] = b]
  BY DEF BaseAdd
<1>2. CASE ~up
  BY <1>1, <1>2 DEF StubShape, BaseAdd
<1>3. CASE up /\ stub[b] # NoStub
  <2>1. UNCHANGED <<stub, target, ret>> /\ Request(t, "adding")
    BY <1>3 DEF BaseAdd
  <2>2. StubShape'
    BY <1>1, <2>1 DEF StubShape
  <2> QED BY <1>1, <1>3, <2>1, <2>2
<1>4. CASE up /\ stub[b] = NoStub
  <2>1. PICK s \in Stubs : /\ target[s] = NoBase
                           /\ stub' = [stub EXCEPT ![b] = s]
                           /\ target' = [target EXCEPT ![s] = b]
    BY <1>4 DEF BaseAdd
  <2>2. StubShape'
    BY <1>1, <2>1 DEF StubShape
  <2>3. /\ stub' \in [Bases -> Stubs \cup {NoStub}]
        /\ target' \in [Stubs -> Bases \cup {NoBase}]
        /\ stub'[b] \in Stubs
    BY <2>1
  <2>4. /\ pc' = [pc EXCEPT ![t] = "adding"]
        /\ handle' = [handle EXCEPT ![t] = TRUE]
        /\ ret' = ret
    BY <1>4 DEF BaseAdd
  <2> QED BY <1>1, <2>2, <2>3, <2>4
<1> QED BY <1>2, <1>3, <1>4

(* The base manager's half of RemoveWatcher keeps them too.                *)
LEMMA BaseRemoveTypes ==
  ASSUME BaseTypeOK, NEW t \in Threads, NEW b \in Bases, BaseRemove(t, b), UNCHANGED target
  PROVE  /\ proxy' \in [Bases -> BOOLEAN]
         /\ stub' \in [Bases -> Stubs \cup {NoStub}]
         /\ pc' \in [Threads -> {"idle", "adding", "added", "removing", "removed"}]
         /\ base' \in [Threads -> Bases \cup {NoBase}]
         /\ handle' \in [Threads -> BOOLEAN]
         /\ ret' \in [Threads -> Codes]
         /\ StubShape'
         /\ base'[t] = b
         /\ pc'[t] \in {"removing", "removed"}
         /\ pc'[t] = "removing" => stub'[b] \in Stubs
         /\ \A u \in Threads \ {t} : pc'[u] = pc[u]
<1> USE BaseManagerAssumption DEF BaseTypeOK, BaseTypes, Codes, Answer, Request
<1>1. CASE UNCHANGED <<proxy, stub>>
  <2>1. StubShape'
    BY <1>1 DEF StubShape
  <2>2. CASE proxy[b] /\ stub[b] # NoStub /\ up
    <3>1. Request(t, "removing") /\ UNCHANGED <<proxy, stub, ret>> /\ base' = [base EXCEPT ![t] = b]
      BY <2>2 DEF BaseRemove
    <3> QED BY <2>1, <2>2, <3>1
  <2>3. CASE ~(proxy[b] /\ stub[b] # NoStub /\ up)
    <3>1. \E code \in Codes :
            Answer(t, "removed", code) /\ UNCHANGED handle /\ base' = [base EXCEPT ![t] = b]
      BY <2>3 DEF BaseRemove
    <3> QED BY <1>1, <2>1, <3>1
  <2> QED BY <2>2, <2>3
<1>2. CASE DeleteProxy(b)
  <2>1. StubShape'
    BY <1>2 DEF DeleteProxy, StubShape
  <2> QED BY <1>2, <2>1 DEF BaseRemove, DeleteProxy
<1> QED BY <1>1, <1>2 DEF BaseRemove

(* Every step keeps the types, the map and what the threads own.           *)
LEMMA ControlStep == Control /\ [Next]_vars => Control'
<1> SUFFICES ASSUME Control, [Next]_vars PROVE Control'
  OBVIOUS
<1> USE BaseManagerAssumption, WatcherAssumption DEF Control, TypeOK, BaseTypeOK,
      objects, service, call, watcherVars, InAdd, InRemove
<1>1. ASSUME NEW t \in Threads, NEW w \in Listeners, AddWatcher(t, w) PROVE Control'
  <2>1. PICK b \in Bases :
          /\ listener[b] = NoListener
          /\ listener' = [listener EXCEPT ![b] = w]
          /\ BaseAdd(t, b)
    BY <1>1 DEF AddWatcher
  <2>2. /\ pc[t] = "idle" /\ calls' = calls + 1 /\ said' = [said EXCEPT ![w] = "unknown"]
        /\ UNCHANGED <<up, registered, deaths, watchers, mapMutex>>
    BY <1>1 DEF AddWatcher
  <2>3. TypeOK'
    BY <2>1, <2>2, BaseAddTypes DEF BaseTypes
  <2>4. base' = [base EXCEPT ![t] = b]
    BY <2>1 DEF BaseAdd
  <2>5. \A c \in Bases : c # b => stub'[c] = stub[c]
    BY <2>1 DEF BaseAdd, BaseTypes
  <2>6. \A k \in Listeners : watchers[k] # b
    BY <2>1 DEF MapOK
  <2>7. \A u \in Threads : pc[u] # "idle" => base[u] # b
    BY <2>1 DEF HasBase
  <2>8. MapOK'
    BY <2>1, <2>2, <2>6 DEF MapOK, BaseTypes
  <2>9. HasBase'
    <3> SUFFICES ASSUME NEW u \in Threads, pc'[u] # "idle"
                 PROVE  /\ base'[u] \in Bases
                        /\ listener'[base'[u]] \in Listeners
                        /\ pc'[u] \in {"adding", "removing"} => stub'[base'[u]] \in Stubs
      BY DEF HasBase
    <3>1. CASE u = t
      BY <3>1, <2>1, BaseAddTypes DEF BaseTypes
    <3>2. CASE u # t
      <4>1. pc'[u] = pc[u] /\ base'[u] = base[u] /\ base[u] # b
        BY <3>2, <2>1, <2>4, <2>7, BaseAddTypes DEF BaseTypes
      <4> QED BY <4>1, <2>1, <2>5 DEF HasBase, BaseTypes
    <3> QED BY <3>1, <3>2
  <2>10. Owners'
    BY <2>1, <2>2, <2>4, <2>6, <2>7, BaseAddTypes DEF Owners, HasBase, BaseTypes
  <2> QED BY <2>3, <2>8, <2>9, <2>10
<1>2. ASSUME NEW t \in Threads, NEW w \in Listeners, RemoveWatcher(t, w) PROVE Control'
  <2>1. /\ BaseRemove(t, watchers[w]) /\ UNCHANGED <<listener, target, watchers>>
        /\ watchers[w] \in Bases /\ base' = [base EXCEPT ![t] = watchers[w]]
        /\ pc[t] = "idle" /\ mapMutex = NoThread /\ mapMutex' = t
    BY <1>2 DEF RemoveWatcher, BaseRemove
  <2>2. TypeOK'
    BY <1>2, <2>1, BaseRemoveTypes DEF RemoveWatcher, BaseTypes
  <2>3. MapOK'
    BY <2>1 DEF MapOK
  <2>4. \A c \in Bases : c # watchers[w] => stub'[c] = stub[c]
    BY <2>1 DEF BaseRemove, DeleteProxy, BaseTypes
  <2>5. \A u \in Threads : pc[u] # "idle" => InAdd(u) /\ base[u] # watchers[w]
    BY <2>1 DEF Owners, HasBase, BaseTypes
  <2>6. HasBase'
    <3> SUFFICES ASSUME NEW u \in Threads, pc'[u] # "idle"
                 PROVE  /\ base'[u] \in Bases
                        /\ listener'[base'[u]] \in Listeners
                        /\ pc'[u] \in {"adding", "removing"} => stub'[base'[u]] \in Stubs
      BY DEF HasBase
    <3>1. CASE u = t
      BY <3>1, <2>1, BaseRemoveTypes DEF BaseTypes, MapOK
    <3>2. CASE u # t
      <4>1. pc'[u] = pc[u] /\ base'[u] = base[u] /\ base[u] # watchers[w]
        BY <3>2, <2>1, <2>5, BaseRemoveTypes DEF BaseTypes
      <4> QED BY <4>1, <2>1, <2>4 DEF HasBase
    <3> QED BY <3>1, <3>2
  <2>7. Owners'
    BY <2>1, <2>5, BaseRemoveTypes DEF Owners, MapOK, BaseTypes
  <2> QED BY <2>2, <2>3, <2>6, <2>7
<1>3. ASSUME NEW t \in Threads, NEW w \in Listeners, RemoveUnknownWatcher(t, w) PROVE Control'
  <2>1. SaysRemoved(w) \in {"removed", "unknown"}
    BY DEF SaysRemoved
  <2> QED BY <1>3, <2>1 DEF RemoveUnknownWatcher, BaseTypes, StubShape, MapOK, HasBase, Owners
<1>4. ASSUME NEW t \in Threads, StoreWatcher(t) PROVE Control'
  <2>1. /\ pc[t] = "added" /\ Leave(t)
        /\ UNCHANGED <<listener, proxy, stub, target, up, registered, deaths, mapMutex, calls>>
        /\ \/ UNCHANGED <<watchers, said>>
           \/ /\ mapMutex = NoThread
              /\ watchers' = [watchers EXCEPT ![listener[base[t]]] = base[t]]
              /\ said' = [said EXCEPT ![listener[base[t]]] = IF handle[t] THEN "added" ELSE @]
    BY <1>4 DEF StoreWatcher
  <2>2. base[t] \in Bases /\ listener[base[t]] \in Listeners
    BY <2>1 DEF HasBase
  <2>3. TypeOK'
    <3>1. watchers' \in [Listeners -> Bases \cup {NoBase}]
      BY <2>1, <2>2
    <3>2. said' \in [Listeners -> {"unknown", "added", "removed"}]
      BY <2>1, <2>2 DEF BaseTypes
    <3> QED BY <2>1, <3>1, <3>2 DEF Leave, Codes, BaseTypes, StubShape
  <2>4. MapOK' /\ HasBase'
    BY <2>1, <2>2 DEF Leave, MapOK, HasBase, BaseTypes
  <2>5. Owners'
    BY <2>1, <2>2 DEF Leave, Owners, HasBase, BaseTypes
  <2> QED BY <2>3, <2>4, <2>5
<1>5. ASSUME NEW t \in Threads, FinishRemove(t) PROVE Control'
  <2>1. /\ pc[t] = "removed" /\ Leave(t)
        /\ UNCHANGED <<listener, proxy, stub, target, up, registered, deaths, calls>>
        /\ mapMutex' = NoThread
        /\ \/ UNCHANGED watchers
           \/ watchers' = [watchers EXCEPT ![listener[base[t]]] = NoBase]
        /\ \/ UNCHANGED said
           \/ \E a \in {"removed", "unknown"} : said' = [said EXCEPT ![listener[base[t]]] = a]
    BY <1>5 DEF FinishRemove, SaysRemoved
  <2>2. base[t] \in Bases /\ listener[base[t]] \in Listeners /\ mapMutex = t
    BY <2>1 DEF HasBase, Owners
  <2>3. TypeOK'
    <3>1. watchers' \in [Listeners -> Bases \cup {NoBase}]
      BY <2>1, <2>2
    <3>2. said' \in [Listeners -> {"unknown", "added", "removed"}]
      BY <2>1, <2>2 DEF BaseTypes
    <3> QED BY <2>1, <3>1, <3>2 DEF Leave, Codes, BaseTypes, StubShape
  <2>4. MapOK' /\ HasBase'
    BY <2>1, <2>2 DEF Leave, MapOK, HasBase, BaseTypes
  <2>5. \A u \in Threads : u # t => ~InRemove(u)
    BY <2>2 DEF Owners
  <2>6. Owners'
    BY <2>1, <2>2, <2>5 DEF Leave, Owners, HasBase, BaseTypes
  <2> QED BY <2>3, <2>4, <2>6
<1>6. ASSUME NEW t \in Threads, IpcAdd(t), UNCHANGED watcherVars PROVE Control'
  <2>1. registered' \subseteq Stubs
    BY <1>6 DEF IpcAdd, BaseTypes, HasBase
  <2> QED BY <1>6, <2>1
        DEF IpcAdd, Answer, Codes, BaseTypes, StubShape, MapOK, HasBase, Owners
<1>7. ASSUME NEW t \in Threads, IpcRemove(t), UNCHANGED watcherVars PROVE Control'
  <2>1. \A u \in Threads : u # t /\ pc[u] # "idle" => base[u] # base[t]
    BY <1>7 DEF IpcRemove, Owners, HasBase, BaseTypes
  <2>2. /\ pc[t] = "removing" /\ pc' = [pc EXCEPT ![t] = "removed"]
        /\ proxy' = [proxy EXCEPT ![base[t]] = FALSE]
        /\ stub' = [stub EXCEPT ![base[t]] = NoStub]
        /\ \E code \in Codes : ret' = [ret EXCEPT ![t] = code]
        /\ registered' \subseteq registered
        /\ UNCHANGED <<listener, target, up, deaths, base, handle, said, watchers, mapMutex, calls>>
    BY <1>7 DEF IpcRemove, DeleteProxy, Answer, Codes
  <2>3. BaseTypes'
    <3>1. ret' \in [Threads -> Codes]
      BY <2>2 DEF BaseTypes
    <3>2. proxy' \in [Bases -> BOOLEAN]
      BY <2>2 DEF BaseTypes
    <3> QED BY <2>2, <3>1, <3>2 DEF BaseTypes
  <2>4. StubShape'
    BY <2>2 DEF BaseTypes, StubShape
  <2>5. MapOK' /\ Owners'
    BY <2>2 DEF BaseTypes, MapOK, Owners
  <2>6. HasBase'
    BY <2>1, <2>2 DEF BaseTypes, HasBase
  <2> QED BY <2>2, <2>3, <2>4, <2>5, <2>6
<1>8. ASSUME ServiceDies, UNCHANGED watcherVars PROVE Control'
  <2>1. said' \in [Listeners -> {"unknown", "added", "removed"}]
    BY <1>8 DEF ServiceDies, BaseTypes
  <2>2. handle' \in [Threads -> BOOLEAN]
    BY <1>8 DEF ServiceDies
  <2>3. /\ up' = FALSE /\ registered' = {} /\ deaths' = deaths + 1
        /\ UNCHANGED <<listener, proxy, stub, target, pc, base, ret>>
        /\ UNCHANGED <<watchers, mapMutex, calls>>
    BY <1>8 DEF ServiceDies
  <2>4. TypeOK'
    <3>1. registered' \subseteq Stubs /\ deaths' \in Nat
      BY <2>3 DEF BaseTypes
    <3>2. up' \in BOOLEAN
      BY <2>3, Zenon
    <3>3. BaseTypes'
      BY <2>1, <2>2, <2>3, <3>1, <3>2 DEF BaseTypes
    <3>4. StubShape'
      BY <2>3 DEF StubShape
    <3> QED BY <2>3, <3>3, <3>4
  <2> QED BY <2>3, <2>4 DEF MapOK, HasBase, Owners
<1>9. ASSUME ServiceStarts, UNCHANGED watcherVars PROVE Control'
  BY <1>9 DEF ServiceStarts, BaseTypes, StubShape, MapOK, HasBase, Owners
<1>10. CASE UNCHANGED vars
  BY <1>10 DEF vars, baseVars, BaseTypes, StubShape, MapOK, HasBase, Owners
<1> QED BY <1>1, <1>2, <1>3, <1>4, <1>5, <1>6, <1>7, <1>8, <1>9, <1>10 DEF Next, Ipc, Service

(* The types, for every number of threads, watchers, objects and calls.    *)
THEOREM TypeCorrect == Spec => []TypeOK
<1>1. Init => Control BY InitInv DEF Inv
<1>2. Control => TypeOK BY DEF Control
<1> QED BY <1>1, <1>2, ControlStep, PTL DEF Spec

-----------------------------------------------------------------------------
(* A registered stub, its base listener and its watcher refer to each      *)
(* other.                                                                  *)
LEMMA Registered ==
  ASSUME Inv, NEW s \in registered
  PROVE  /\ s \in Stubs
         /\ target[s] \in Bases
         /\ ListenerOf(s) \in Listeners
         /\ stub[target[s]] = s
<1>1. s \in Stubs /\ s # NoStub
  BY BaseManagerAssumption DEF Inv, Control, TypeOK, BaseTypeOK, BaseTypes
<1>2. CASE \E w \in Listeners : watchers[w] # NoBase /\ stub[watchers[w]] = s
  BY <1>1, <1>2 DEF Inv, Control, TypeOK, BaseTypeOK, StubShape, MapOK, ListenerOf
<1>3. CASE \E t \in Threads : pc[t] = "added" /\ stub[base[t]] = s
  BY <1>1, <1>3 DEF Inv, Control, TypeOK, BaseTypeOK, StubShape, HasBase, ListenerOf
<1> QED BY <1>2, <1>3 DEF Inv, Truth, NoOrphanWatcher

(* The base listener of a registered stub is stored or being added.        *)
LEMMA StoredOrAdding ==
  ASSUME Inv, NEW s \in registered
  PROVE  watchers[ListenerOf(s)] = target[s] \/ Adding(ListenerOf(s)) # {}
<1>1. s # NoStub
  BY BaseManagerAssumption DEF Inv, Control, TypeOK, BaseTypeOK, BaseTypes
<1>2. CASE \E w \in Listeners : watchers[w] # NoBase /\ stub[watchers[w]] = s
  BY <1>1, <1>2 DEF Inv, Control, TypeOK, BaseTypeOK, StubShape, MapOK, ListenerOf
<1>3. CASE \E t \in Threads : pc[t] = "added" /\ stub[base[t]] = s
  BY <1>1, <1>3 DEF Inv, Control, TypeOK, BaseTypeOK, StubShape, HasBase, ListenerOf, Adding
<1> QED BY <1>2, <1>3 DEF Inv, Truth, NoOrphanWatcher

(* Different base listeners have different stubs.                          *)
LEMMA OwnStub ==
  ASSUME StubShape, NEW b \in Bases, NEW c \in Bases, b # c, stub[b] # NoStub
  PROVE  stub[c] # stub[b]
  BY DEF StubShape

(* AddWatcher up to the IPC call works on a base listener of its own, and  *)
(* no registration is left of an earlier call.                             *)
LEMMA AddWatcherTruth ==
  ASSUME ~ReAdds, Inv, Control', NEW t \in Threads, NEW w \in Listeners, AddWatcher(t, w)
  PROVE  Truth'
<1> USE BaseManagerAssumption
<1>1. /\ pc[t] = "idle" /\ Adding(w) = {} /\ Removing(w) = {} /\ said[w] # "added"
      /\ said' = [said EXCEPT ![w] = "unknown"]
      /\ UNCHANGED <<up, registered, watchers>>
  BY DEF AddWatcher, service
<1>2. PICK b \in Bases :
        /\ listener[b] = NoListener
        /\ listener' = [listener EXCEPT ![b] = w]
        /\ BaseAdd(t, b)
  BY DEF AddWatcher
<1>3. /\ base' = [base EXCEPT ![t] = b]
      /\ \A u \in Threads : u # t => pc'[u] = pc[u] /\ handle'[u] = handle[u] /\ ret'[u] = ret[u]
      /\ \/ pc'[t] = "adding" /\ handle'[t] /\ up
         \/ pc'[t] = "added" /\ ret'[t] = ERR_SYS_EVENT_SERVICE_NOT_FOUND
            /\ handle'[t] = handle[t] /\ ~up
  BY <1>2 DEF BaseAdd, Answer, Request, Inv, Control, TypeOK, BaseTypeOK, BaseTypes
<1>4. /\ \A c \in Bases : c # b => stub'[c] = stub[c] /\ listener'[c] = listener[c]
      /\ \A s \in Stubs : target[s] # NoBase => target'[s] = target[s]
      /\ base'[t] = b /\ listener'[b] = w
      /\ \A u \in Threads : u # t => base'[u] = base[u]
  BY <1>2, <1>3 DEF BaseAdd, Inv, Control, TypeOK, BaseTypeOK, BaseTypes
<1>5. /\ \A u \in Threads : pc[u] # "idle" =>
            u # t /\ base[u] \in Bases /\ base[u] # b /\ listener[base[u]] \in Listeners
      /\ \A k \in Listeners : watchers[k] # NoBase => watchers[k] \in Bases /\ watchers[k] # b
  BY <1>1, <1>2 DEF Inv, Control, HasBase, MapOK, TypeOK
<1>6. Alive'
  BY <1>1, <1>3 DEF Alive, Inv, Truth
<1>7. Handles'
  <2> SUFFICES ASSUME NEW u \in Threads
               PROVE  /\ pc'[u] # "idle" /\ ~handle'[u] => stub'[base'[u]] \notin registered'
                      /\ pc'[u] = "removed" => stub'[base'[u]] = NoStub
                      /\ pc'[u] = "added" /\ ret'[u] = IPC_CALL_SUCCEED /\ handle'[u] =>
                           stub'[base'[u]] \in registered'
                      /\ InRemove(u)' => said'[listener'[base'[u]]] # "added"
    BY DEF Handles
  <2>1. CASE u = t
    BY <2>1, <1>1, <1>3
    DEF InRemove, Inv, Truth, Alive, ERR_SYS_EVENT_SERVICE_NOT_FOUND, IPC_CALL_SUCCEED
  <2>2. CASE u # t
    BY <2>2, <1>1, <1>3, <1>4, <1>5
    DEF InRemove, Inv, Truth, Handles, Control, TypeOK, BaseTypeOK, BaseTypes
  <2> QED BY <2>1, <2>2
<1>8. watchers[w] # NoBase => stub[watchers[w]] \notin registered
  BY <1>1 DEF Inv, Truth, StoredSaid, Removing, Control, MapOK
<1>9. OneAdder'
  <2> SUFFICES ASSUME NEW u \in Threads, InAdd(u)'
               PROVE  LET k == listener'[base'[u]] IN
                      /\ said'[k] = "unknown"
                      /\ watchers'[k] # NoBase => stub'[watchers'[k]] \notin registered'
                      /\ \A v \in Threads : InAdd(v)' /\ listener'[base'[v]] = k => v = u
    BY DEF OneAdder
  <2>1. \A v \in Threads : v # t /\ InAdd(v)' =>
          InAdd(v) /\ listener'[base'[v]] = listener[base[v]] /\ listener[base[v]] # w
    BY <1>1, <1>3, <1>4, <1>5 DEF InAdd, Adding
  <2>2. CASE u = t
    BY <2>1, <2>2, <1>1, <1>4, <1>5, <1>8 DEF Inv, Control, TypeOK, BaseTypeOK, BaseTypes
  <2>3. CASE u # t
    <3>1. InAdd(u) /\ listener'[base'[u]] = listener[base[u]] /\ listener[base[u]] # w
      BY <2>1, <2>3
    <3>2. listener[base[u]] \in Listeners
      BY <3>1, <1>5 DEF InAdd
    <3> QED BY <2>1, <3>1, <3>2, <1>1, <1>4, <1>5
        DEF Inv, Truth, OneAdder, Control, TypeOK, BaseTypeOK, BaseTypes
  <2> QED BY <2>2, <2>3
<1>10. StoredSaid'
  <2> SUFFICES ASSUME NEW k \in Listeners, watchers'[k] # NoBase, stub'[watchers'[k]] \in registered'
               PROVE  \/ said'[k] = "added"
                      \/ \E u \in Threads : pc'[u] = "removing" /\ base'[u] = watchers'[k]
    BY DEF StoredSaid
  <2>1. watchers[k] # NoBase /\ stub[watchers[k]] \in registered /\ k # w
    BY <1>1, <1>4, <1>5, <1>8
  <2>2. CASE said[k] = "added"
    BY <2>1, <2>2, <1>1 DEF Inv, Control, TypeOK, BaseTypeOK, BaseTypes
  <2>3. CASE \E u \in Threads : pc[u] = "removing" /\ base[u] = watchers[k]
    BY <2>3, <1>1, <1>3, <1>4
  <2> QED BY <2>1, <2>2, <2>3 DEF Inv, Truth, StoredSaid
<1>11. NoOrphanWatcher'
  <2> SUFFICES ASSUME NEW s \in registered
               PROVE  \/ \E k \in Listeners : watchers'[k] # NoBase /\ stub'[watchers'[k]] = s
                      \/ \E u \in Threads :
                           pc'[u] = "added" /\ ret'[u] = IPC_CALL_SUCCEED /\ stub'[base'[u]] = s
    BY <1>1 DEF NoOrphanWatcher
  <2>1. CASE \E k \in Listeners : watchers[k] # NoBase /\ stub[watchers[k]] = s
    BY <2>1, <1>1, <1>4, <1>5
  <2>2. CASE \E u \in Threads : pc[u] = "added" /\ ret[u] = IPC_CALL_SUCCEED /\ stub[base[u]] = s
    <3>1. PICK u \in Threads : pc[u] = "added" /\ ret[u] = IPC_CALL_SUCCEED /\ stub[base[u]] = s
      BY <2>2
    <3> QED BY <3>1, <1>3, <1>4, <1>5
  <2> QED BY <2>1, <2>2 DEF Inv, Truth, NoOrphanWatcher
<1>12. \A s \in registered :
         /\ target'[s] = target[s] /\ target[s] # NoBase
         /\ ListenerOf(s)' = ListenerOf(s) /\ ListenerOf(s) \in Listeners
  BY <1>2, <1>4, Registered DEF ListenerOf
<1>13. AddedMeansListening'
  BY <1>1, <1>12
  DEF AddedMeansListening, Inv, Truth, Control, TypeOK, BaseTypeOK, BaseTypes
<1>14. RemovedMeansSilent'
  BY <1>1, <1>12
  DEF RemovedMeansSilent, Inv, Truth, Control, TypeOK, BaseTypeOK, BaseTypes
<1> QED BY <1>6, <1>7, <1>9, <1>10, <1>11, <1>13, <1>14 DEF Truth

(* The end of AddWatcher: the entry that is overwritten is not registered, *)
(* and a success with a live handle is a registration.                     *)
LEMMA StoreWatcherTruth ==
  ASSUME Inv, NEW t \in Threads, StoreWatcher(t)
  PROVE  Truth'
<1> USE BaseManagerAssumption
<1> DEFINE w == listener[base[t]]
<1>1. /\ pc[t] = "added"
      /\ pc' = [pc EXCEPT ![t] = "idle"]
      /\ UNCHANGED <<listener, proxy, stub, target, up, registered, mapMutex>>
      /\ \A u \in Threads : u # t => pc'[u] = pc[u] /\ base'[u] = base[u]
                                    /\ handle'[u] = handle[u] /\ ret'[u] = ret[u]
      /\ pc'[t] = "idle" /\ ~handle'[t]
  BY DEF StoreWatcher, Leave, objects, service, Inv, Control, TypeOK, BaseTypeOK, BaseTypes
<1>2. /\ w \in Listeners /\ base[t] \in Bases /\ base[t] # NoBase /\ said[w] = "unknown"
      /\ watchers[w] # NoBase => stub[watchers[w]] \notin registered
      /\ \A u \in Threads : u # t /\ InAdd(u) => listener[base[u]] # w
  BY <1>1 DEF InAdd, Inv, Truth, OneAdder, Control, HasBase
<1>3. stub[base[t]] \in registered => handle[t]
  BY <1>1 DEF Inv, Truth, Handles
<1>4. Alive'
  BY <1>1 DEF Alive, Inv, Truth
<1>5. CASE ret[t] = IPC_CALL_SUCCEED
  <2>1. /\ mapMutex = NoThread
        /\ watchers' = [watchers EXCEPT ![w] = base[t]]
        /\ said' = [said EXCEPT ![w] = IF handle[t] THEN "added" ELSE @]
    BY <1>5 DEF StoreWatcher
  <2>2. /\ watchers'[w] = base[t] /\ said'[w] = IF handle[t] THEN "added" ELSE "unknown"
        /\ \A k \in Listeners : k # w => watchers'[k] = watchers[k] /\ said'[k] = said[k]
    BY <1>2, <2>1 DEF Inv, Control, TypeOK, BaseTypeOK, BaseTypes
  <2>3. \A u \in Threads : ~InRemove(u)
    BY <2>1 DEF Inv, Control, Owners
  <2>4. Handles'
    BY <1>1, <2>3 DEF Handles, InRemove, Inv, Truth
  <2>5. OneAdder'
    <3> SUFFICES ASSUME NEW u \in Threads, InAdd(u)'
                 PROVE  LET k == listener'[base'[u]] IN
                        /\ said'[k] = "unknown"
                        /\ watchers'[k] # NoBase => stub'[watchers'[k]] \notin registered'
                        /\ \A v \in Threads : InAdd(v)' /\ listener'[base'[v]] = k => v = u
      BY DEF OneAdder
    <3>1. \A v \in Threads : InAdd(v)' =>
            v # t /\ InAdd(v) /\ listener'[base'[v]] = listener[base[v]]
      BY <1>1 DEF InAdd
    <3>2. listener[base[u]] # w /\ listener[base[u]] \in Listeners
      BY <1>2, <3>1 DEF InAdd, Inv, Control, HasBase
    <3> QED BY <1>1, <2>2, <3>1, <3>2 DEF Inv, Truth, OneAdder
  <2>6. StoredSaid'
    <3> SUFFICES ASSUME NEW k \in Listeners, watchers'[k] # NoBase, stub'[watchers'[k]] \in registered'
                 PROVE  \/ said'[k] = "added"
                        \/ \E u \in Threads : pc'[u] = "removing" /\ base'[u] = watchers'[k]
      BY DEF StoredSaid
    <3>1. CASE k = w
      BY <3>1, <1>1, <1>3, <2>2
    <3>2. CASE k # w
      BY <3>2, <1>1, <2>2, <2>3 DEF InRemove, Inv, Truth, StoredSaid
    <3> QED BY <3>1, <3>2
  <2>7. NoOrphanWatcher'
    <3> SUFFICES ASSUME NEW s \in registered
                 PROVE  \/ \E k \in Listeners : watchers'[k] # NoBase /\ stub'[watchers'[k]] = s
                        \/ \E u \in Threads :
                             pc'[u] = "added" /\ ret'[u] = IPC_CALL_SUCCEED /\ stub'[base'[u]] = s
      BY <1>1 DEF NoOrphanWatcher
    <3>1. CASE \E k \in Listeners : watchers[k] # NoBase /\ stub[watchers[k]] = s
      BY <3>1, <1>1, <1>2, <2>2
    <3>2. CASE \E u \in Threads : pc[u] = "added" /\ ret[u] = IPC_CALL_SUCCEED /\ stub[base[u]] = s
      <4>1. PICK u \in Threads : pc[u] = "added" /\ ret[u] = IPC_CALL_SUCCEED /\ stub[base[u]] = s
        BY <3>2
      <4>2. CASE u = t
        BY <4>1, <4>2, <1>1, <1>2, <2>2
      <4>3. CASE u # t
        BY <4>1, <4>3, <1>1
      <4> QED BY <4>2, <4>3
    <3> QED BY <3>1, <3>2 DEF Inv, Truth, NoOrphanWatcher
  <2>8. handle[t] => \E s \in registered : target[s] # NoBase /\ ListenerOf(s) = w
    <3> SUFFICES ASSUME handle[t]
                 PROVE  \E s \in registered : target[s] # NoBase /\ ListenerOf(s) = w
      OBVIOUS
    <3>1. stub[base[t]] \in registered /\ stub[base[t]] # NoStub
      BY <1>1, <1>5 DEF Inv, Truth, Handles, Control, TypeOK, BaseTypeOK, BaseTypes
    <3>2. target[stub[base[t]]] = base[t]
      BY <1>2, <3>1 DEF Inv, Control, TypeOK, BaseTypeOK, StubShape
    <3> QED BY <1>2, <3>1, <3>2 DEF ListenerOf
  <2>9. AddedMeansListening'
    BY <1>1, <2>2, <2>8 DEF AddedMeansListening, ListenerOf, Inv, Truth
  <2>10. RemovedMeansSilent'
    BY <1>1, <2>2 DEF RemovedMeansSilent, ListenerOf, Inv, Truth
  <2> QED BY <1>4, <2>4, <2>5, <2>6, <2>7, <2>9, <2>10 DEF Truth
<1>6. CASE ret[t] # IPC_CALL_SUCCEED
  <2>1. UNCHANGED <<watchers, said>>
    BY <1>6 DEF StoreWatcher
  <2>2. Handles' /\ OneAdder'
    BY <1>1, <2>1 DEF Handles, OneAdder, InAdd, InRemove, Inv, Truth
  <2>3. StoredSaid'
    BY <1>1, <2>1 DEF StoredSaid, Inv, Truth
  <2>4. NoOrphanWatcher'
    BY <1>1, <1>6, <2>1 DEF NoOrphanWatcher, Inv, Truth
  <2>5. AddedMeansListening' /\ RemovedMeansSilent'
    BY <1>1, <2>1 DEF AddedMeansListening, RemovedMeansSilent, ListenerOf, Inv, Truth
  <2> QED BY <1>4, <2>2, <2>3, <2>4, <2>5 DEF Truth
<1> QED BY <1>5, <1>6

(* RemoveWatcher up to the IPC call: a delegate that is deleted on an      *)
(* early return has no registered stub.                                    *)
LEMMA RemoveWatcherTruth ==
  ASSUME Inv, NEW t \in Threads, NEW w \in Listeners, RemoveWatcher(t, w)
  PROVE  Truth'
<1> USE BaseManagerAssumption
<1> DEFINE b == watchers[w]
<1>1. /\ pc[t] = "idle" /\ mapMutex = NoThread
      /\ said' = [said EXCEPT ![w] = "unknown"]
      /\ UNCHANGED <<listener, target, up, registered, watchers>>
      /\ b \in Bases /\ listener[b] = w
      /\ BaseRemove(t, b)
  BY DEF RemoveWatcher, service, Inv, Control, TypeOK, MapOK
<1>2. /\ base'[t] = b
      /\ \A u \in Threads : u # t => base'[u] = base[u] /\ pc'[u] = pc[u] /\ handle'[u] = handle[u]
                                    /\ ret'[u] = ret[u]
  BY <1>1 DEF BaseRemove, Answer, Request, Inv, Control, TypeOK, BaseTypeOK, BaseTypes
<1>3. \/ /\ pc'[t] = "removing" /\ up /\ handle'[t] /\ UNCHANGED stub
      \/ /\ pc'[t] = "removed" /\ handle'[t] = handle[t] /\ stub'[b] = NoStub
         /\ \A c \in Bases : c # b => stub'[c] = stub[c]
         /\ stub[b] = NoStub \/ ~up
  <2>1. CASE ~proxy[b]
    BY <1>1, <2>1 DEF BaseRemove, Answer, Inv, Control, TypeOK, BaseTypeOK, BaseTypes, StubShape
  <2>2. CASE proxy[b] /\ (stub[b] = NoStub \/ ~up)
    BY <1>1, <2>2 DEF BaseRemove, Answer, DeleteProxy, Inv, Control, TypeOK, BaseTypeOK, BaseTypes
  <2>3. CASE proxy[b] /\ stub[b] # NoStub /\ up
    BY <1>1, <2>3 DEF BaseRemove, Request, Inv, Control, TypeOK, BaseTypeOK, BaseTypes
  <2> QED BY <2>1, <2>2, <2>3
<1>4. \A u \in Threads : ~InRemove(u)
  BY <1>1 DEF Inv, Control, Owners
<1>5. \A u \in Threads : pc[u] # "idle" => u # t /\ InAdd(u) /\ base[u] \in Bases /\ base[u] # b
  BY <1>1, <1>4 DEF InAdd, InRemove, Inv, Control, HasBase, Owners, TypeOK, BaseTypeOK, BaseTypes
<1>6. NoStub \notin registered
  BY DEF Inv, Control, TypeOK, BaseTypeOK, BaseTypes
<1>7. /\ \A c \in Bases : c # b => stub'[c] = stub[c]
      /\ \A c \in Bases : stub[c] \in registered => stub'[c] = stub[c]
      /\ \A c \in Bases : stub'[c] \in registered => stub'[c] = stub[c]
  BY <1>3, <1>6 DEF Inv, Truth, Alive
<1>8. /\ said'[w] = "unknown"
      /\ \A k \in Listeners : k # w => said'[k] = said[k]
  BY <1>1 DEF Inv, Control, TypeOK, BaseTypeOK, BaseTypes
<1>9. Alive'
  BY <1>1, <1>2, <1>3 DEF Alive, Inv, Truth
<1>10. Handles'
  <2> SUFFICES ASSUME NEW u \in Threads
               PROVE  /\ pc'[u] # "idle" /\ ~handle'[u] => stub'[base'[u]] \notin registered'
                      /\ pc'[u] = "removed" => stub'[base'[u]] = NoStub
                      /\ pc'[u] = "added" /\ ret'[u] = IPC_CALL_SUCCEED /\ handle'[u] =>
                           stub'[base'[u]] \in registered'
                      /\ InRemove(u)' => said'[listener'[base'[u]]] # "added"
    BY DEF Handles
  <2>1. CASE u = t
    BY <2>1, <1>1, <1>2, <1>3, <1>6, <1>8
  <2>2. CASE u # t
    BY <2>2, <1>1, <1>2, <1>4, <1>5, <1>7 DEF InRemove, Inv, Truth, Handles
  <2> QED BY <2>1, <2>2
<1>11. OneAdder'
  <2> SUFFICES ASSUME NEW u \in Threads, InAdd(u)'
               PROVE  LET k == listener'[base'[u]] IN
                      /\ said'[k] = "unknown"
                      /\ watchers'[k] # NoBase => stub'[watchers'[k]] \notin registered'
                      /\ \A v \in Threads : InAdd(v)' /\ listener'[base'[v]] = k => v = u
    BY DEF OneAdder
  <2>1. \A v \in Threads : InAdd(v)' =>
          v # t /\ InAdd(v) /\ listener'[base'[v]] = listener[base[v]]
    BY <1>1, <1>2, <1>3 DEF InAdd
  <2>2. listener[base[u]] \in Listeners
    BY <2>1 DEF InAdd, Inv, Control, HasBase
  <2> QED BY <1>1, <1>7, <1>8, <2>1, <2>2 DEF Inv, Truth, OneAdder, Control, TypeOK
<1>12. StoredSaid'
  <2> SUFFICES ASSUME NEW k \in Listeners, watchers'[k] # NoBase, stub'[watchers'[k]] \in registered'
               PROVE  \/ said'[k] = "added"
                      \/ \E u \in Threads : pc'[u] = "removing" /\ base'[u] = watchers'[k]
    BY DEF StoredSaid
  <2>1. CASE k = w
    BY <2>1, <1>1, <1>2, <1>3, <1>6
  <2>2. CASE k # w
    BY <2>2, <1>1, <1>4, <1>7, <1>8 DEF InRemove, Inv, Truth, StoredSaid, Control, TypeOK
  <2> QED BY <2>1, <2>2
<1>13. NoOrphanWatcher'
  <2> SUFFICES ASSUME NEW s \in registered
               PROVE  \/ \E k \in Listeners : watchers'[k] # NoBase /\ stub'[watchers'[k]] = s
                      \/ \E u \in Threads :
                           pc'[u] = "added" /\ ret'[u] = IPC_CALL_SUCCEED /\ stub'[base'[u]] = s
    BY <1>1 DEF NoOrphanWatcher
  <2>1. CASE \E k \in Listeners : watchers[k] # NoBase /\ stub[watchers[k]] = s
    BY <2>1, <1>1, <1>7 DEF Inv, Control, TypeOK
  <2>2. CASE \E u \in Threads : pc[u] = "added" /\ ret[u] = IPC_CALL_SUCCEED /\ stub[base[u]] = s
    <3>1. PICK u \in Threads : pc[u] = "added" /\ ret[u] = IPC_CALL_SUCCEED /\ stub[base[u]] = s
      BY <2>2
    <3> QED BY <3>1, <1>2, <1>5, <1>7
  <2> QED BY <2>1, <2>2 DEF Inv, Truth, NoOrphanWatcher
<1>14. AddedMeansListening' /\ RemovedMeansSilent'
  BY <1>1, <1>8 DEF AddedMeansListening, RemovedMeansSilent, ListenerOf, Inv, Truth
<1> QED BY <1>9, <1>10, <1>11, <1>12, <1>13, <1>14 DEF Truth

(* RemoveWatcher of a watcher that is not stored says the truth, because a *)
(* registered stub of the watcher would be stored or about to be stored.   *)
LEMMA RemoveUnknownWatcherTruth ==
  ASSUME Inv, NEW t \in Threads, NEW w \in Listeners, RemoveUnknownWatcher(t, w)
  PROVE  Truth'
<1> USE BaseManagerAssumption
<1>1. /\ mapMutex = NoThread /\ watchers[w] = NoBase
      /\ said' = [said EXCEPT ![w] = SaysRemoved(w)]
      /\ UNCHANGED <<listener, proxy, stub, target, up, registered, pc, base, handle, ret, watchers>>
  BY DEF RemoveUnknownWatcher, objects, service, call
<1>2. /\ said'[w] = SaysRemoved(w)
      /\ \A k \in Listeners : k # w => said'[k] = said[k]
      /\ SaysRemoved(w) # "added"
      /\ Adding(w) # {} => SaysRemoved(w) = "unknown"
  BY <1>1 DEF SaysRemoved, Inv, Control, TypeOK, BaseTypeOK, BaseTypes
<1>3. \A u \in Threads : ~InRemove(u)
  BY <1>1 DEF Inv, Control, Owners
<1>4. Alive' /\ Handles'
  BY <1>1, <1>3 DEF Alive, Handles, InRemove, Inv, Truth
<1>5. OneAdder'
  <2>1. \A u \in Threads : InAdd(u) => said'[listener[base[u]]] = "unknown"
    <3> SUFFICES ASSUME NEW u \in Threads, InAdd(u) PROVE said'[listener[base[u]]] = "unknown"
      OBVIOUS
    <3>1. CASE listener[base[u]] = w
      BY <3>1, <1>2 DEF InAdd, Adding
    <3>2. CASE listener[base[u]] # w
      BY <3>2, <1>2 DEF InAdd, Inv, Control, HasBase, Truth, OneAdder
    <3> QED BY <3>1, <3>2
  <2> QED BY <1>1, <2>1 DEF OneAdder, InAdd, Inv, Truth
<1>6. StoredSaid'
  BY <1>1, <1>2 DEF StoredSaid, Inv, Truth
<1>7. NoOrphanWatcher'
  BY <1>1 DEF NoOrphanWatcher, Inv, Truth
<1>8. AddedMeansListening'
  BY <1>1, <1>2 DEF AddedMeansListening, ListenerOf, Inv, Truth
<1>9. RemovedMeansSilent'
  <2>1. ASSUME Adding(w) = {}, NEW s \in registered PROVE ListenerOf(s) # w
    BY <1>1, <2>1, Registered, StoredOrAdding
  <2>2. said'[w] = "removed" => Adding(w) = {}
    BY <1>2
  <2>3. \A k \in Listeners : k # w => said'[k] = said[k]
    BY <1>2
  <2> QED BY <1>1, <2>1, <2>2, <2>3 DEF RemovedMeansSilent, ListenerOf, Inv, Truth
<1> QED BY <1>4, <1>5, <1>6, <1>7, <1>8, <1>9 DEF Truth

(* RemoveWatcher returns: its delegate is gone, so no registered stub is   *)
(* left for the entry that may be erased.                                  *)
LEMMA FinishRemoveTruth ==
  ASSUME Inv, NEW t \in Threads, FinishRemove(t)
  PROVE  Truth'
<1> USE BaseManagerAssumption
<1> DEFINE w == listener[base[t]]
<1>1. /\ pc[t] = "removed" /\ Leave(t)
      /\ UNCHANGED <<listener, proxy, stub, target, up, registered>>
      /\ \/ UNCHANGED watchers
         \/ watchers' = [watchers EXCEPT ![w] = NoBase]
      /\ said' = said \/ said' = [said EXCEPT ![w] = SaysRemoved(w)]
  BY DEF FinishRemove, objects, service
<1>2. /\ \A u \in Threads : u # t => pc'[u] = pc[u] /\ base'[u] = base[u]
                                    /\ handle'[u] = handle[u] /\ ret'[u] = ret[u]
      /\ pc'[t] = "idle" /\ ~handle'[t]
  BY <1>1 DEF Leave, Inv, Control, TypeOK, BaseTypeOK, BaseTypes
<1>3. /\ w \in Listeners /\ base[t] \in Bases /\ watchers[w] = base[t]
      /\ stub[base[t]] = NoStub /\ said[w] # "added" /\ mapMutex = t
  BY <1>1 DEF InRemove, Inv, Control, HasBase, Owners, Truth, Handles
<1>4. \A u \in Threads : u # t => ~InRemove(u)
  BY <1>3 DEF Inv, Control, Owners
<1>5. NoStub \notin registered
  BY DEF Inv, Control, TypeOK, BaseTypeOK, BaseTypes
<1>6. /\ \A k \in Listeners : k # w => watchers'[k] = watchers[k] /\ said'[k] = said[k]
      /\ watchers'[w] \in {base[t], NoBase}
      /\ said'[w] \in {said[w], SaysRemoved(w)}
      /\ Adding(w) # {} => SaysRemoved(w) = "unknown"
      /\ SaysRemoved(w) # "added"
  BY <1>1, <1>3 DEF SaysRemoved, Inv, Control, TypeOK, BaseTypeOK, BaseTypes
<1>7. \A s \in registered : ListenerOf(s) = w => Adding(w) # {}
  BY <1>3, <1>5, Registered, StoredOrAdding
<1>8. Alive'
  BY <1>1, <1>2 DEF Alive, Inv, Truth
<1>9. Handles'
  BY <1>1, <1>2, <1>4 DEF Handles, InRemove, Inv, Truth
<1>10. OneAdder'
  <2> SUFFICES ASSUME NEW u \in Threads, InAdd(u)'
               PROVE  LET k == listener'[base'[u]] IN
                      /\ said'[k] = "unknown"
                      /\ watchers'[k] # NoBase => stub'[watchers'[k]] \notin registered'
                      /\ \A v \in Threads : InAdd(v)' /\ listener'[base'[v]] = k => v = u
    BY DEF OneAdder
  <2>1. \A v \in Threads : InAdd(v)' =>
          v # t /\ InAdd(v) /\ listener'[base'[v]] = listener[base[v]]
    BY <1>1, <1>2 DEF InAdd
  <2>2. listener[base[u]] \in Listeners
    BY <2>1 DEF InAdd, Inv, Control, HasBase
  <2>3. said'[listener[base[u]]] = "unknown"
    <3>1. said[listener[base[u]]] = "unknown"
      BY <2>1 DEF Inv, Truth, OneAdder
    <3>2. CASE listener[base[u]] = w
      <4>1. u \in Adding(w)
        BY <2>1, <3>2 DEF InAdd, Adding
      <4> QED BY <1>6, <3>1, <3>2, <4>1
    <3>3. CASE listener[base[u]] # w
      BY <1>6, <2>2, <3>1, <3>3
    <3> QED BY <3>2, <3>3
  <2> QED BY <1>1, <1>3, <1>5, <1>6, <2>1, <2>2, <2>3 DEF Inv, Truth, OneAdder
<1>11. StoredSaid'
  <2> SUFFICES ASSUME NEW k \in Listeners, watchers'[k] # NoBase, stub'[watchers'[k]] \in registered'
               PROVE  \/ said'[k] = "added"
                      \/ \E u \in Threads : pc'[u] = "removing" /\ base'[u] = watchers'[k]
    BY DEF StoredSaid
  <2>1. k # w
    BY <1>1, <1>3, <1>5, <1>6
  <2> QED BY <1>1, <1>2, <1>6, <2>1 DEF Inv, Truth, StoredSaid
<1>12. NoOrphanWatcher'
  <2> SUFFICES ASSUME NEW s \in registered
               PROVE  \/ \E k \in Listeners : watchers'[k] # NoBase /\ stub'[watchers'[k]] = s
                      \/ \E u \in Threads :
                           pc'[u] = "added" /\ ret'[u] = IPC_CALL_SUCCEED /\ stub'[base'[u]] = s
    BY <1>1 DEF NoOrphanWatcher
  <2>1. CASE \E k \in Listeners : watchers[k] # NoBase /\ stub[watchers[k]] = s
    BY <2>1, <1>1, <1>3, <1>5, <1>6
  <2>2. CASE \E u \in Threads : pc[u] = "added" /\ ret[u] = IPC_CALL_SUCCEED /\ stub[base[u]] = s
    <3>1. PICK u \in Threads : pc[u] = "added" /\ ret[u] = IPC_CALL_SUCCEED /\ stub[base[u]] = s
      BY <2>2
    <3> QED BY <3>1, <1>1, <1>2
  <2> QED BY <2>1, <2>2 DEF Inv, Truth, NoOrphanWatcher
<1>13. AddedMeansListening'
  BY <1>1, <1>3, <1>6 DEF AddedMeansListening, ListenerOf, Inv, Truth
<1>14. RemovedMeansSilent'
  <2>1. said'[w] = "removed" => \A s \in registered : ListenerOf(s) # w \/ target[s] = NoBase
    BY <1>3, <1>6, <1>7 DEF RemovedMeansSilent, Inv, Truth
  <2> QED BY <1>1, <1>6, <2>1 DEF RemovedMeansSilent, ListenerOf, Inv, Truth
<1> QED BY <1>8, <1>9, <1>10, <1>11, <1>12, <1>13, <1>14 DEF Truth

(* The IPC call of AddWatcher: what it registers is the stub of the call,  *)
(* which no other base listener has.                                       *)
LEMMA IpcAddTruth ==
  ASSUME Inv, NEW t \in Threads, IpcAdd(t), UNCHANGED watcherVars
  PROVE  Truth'
<1> USE BaseManagerAssumption
<1> DEFINE s == stub[base[t]]
           w == listener[base[t]]
<1>1. /\ pc[t] = "adding" /\ handle' = handle
      /\ \/ /\ handle[t] /\ registered' = registered \cup {s}
            /\ pc'[t] = "added" /\ ret'[t] = IPC_CALL_SUCCEED
         \/ /\ registered' = registered
            /\ pc'[t] = "added" /\ ret'[t] = ERR_CAN_NOT_SEND_REQ
      /\ \A u \in Threads : u # t => pc'[u] = pc[u] /\ ret'[u] = ret[u]
      /\ UNCHANGED <<listener, proxy, stub, target, up, base, said, watchers>>
  BY DEF IpcAdd, Answer, objects, watcherVars, Inv, Control, TypeOK, BaseTypeOK, BaseTypes
<1>2. /\ base[t] \in Bases /\ w \in Listeners /\ s \in Stubs /\ s # NoStub
      /\ target[s] = base[t] /\ said[w] = "unknown"
      /\ \A k \in Listeners : watchers[k] # base[t]
      /\ \A u \in Threads : InAdd(u) /\ base[u] = base[t] => u = t
  BY <1>1 DEF InAdd, Inv, Control, HasBase, Owners, Truth, OneAdder, TypeOK, BaseTypeOK, StubShape
<1>3. \A k \in Listeners : watchers[k] # NoBase => stub[watchers[k]] # s
  BY <1>2, OwnStub DEF Inv, Control, TypeOK, BaseTypeOK
<1>4. \A u \in Threads : u # t /\ pc[u] # "idle" => stub[base[u]] # s
  <2> SUFFICES ASSUME NEW u \in Threads, u # t, pc[u] # "idle" PROVE stub[base[u]] # s
    OBVIOUS
  <2>1. base[u] \in Bases /\ listener[base[u]] \in Listeners
    BY DEF Inv, Control, HasBase
  <2>2. InAdd(u) \/ InRemove(u)
    BY DEF InAdd, InRemove, Inv, Control, TypeOK, BaseTypeOK, BaseTypes
  <2>3. base[u] # base[t]
    BY <1>2, <2>1, <2>2 DEF Inv, Control, Owners
  <2> QED BY <1>2, <2>1, <2>3, OwnStub DEF Inv, Control, TypeOK, BaseTypeOK
<1>5. Alive'
  BY <1>1 DEF Alive, Inv, Truth
<1>6. Handles'
  <2> SUFFICES ASSUME NEW u \in Threads
               PROVE  /\ pc'[u] # "idle" /\ ~handle'[u] => stub'[base'[u]] \notin registered'
                      /\ pc'[u] = "removed" => stub'[base'[u]] = NoStub
                      /\ pc'[u] = "added" /\ ret'[u] = IPC_CALL_SUCCEED /\ handle'[u] =>
                           stub'[base'[u]] \in registered'
                      /\ InRemove(u)' => said'[listener'[base'[u]]] # "added"
    BY DEF Handles
  <2>1. CASE u = t
    BY <2>1, <1>1 DEF InRemove, Inv, Truth, Handles, IPC_CALL_SUCCEED, ERR_CAN_NOT_SEND_REQ
  <2>2. CASE u # t
    BY <2>2, <1>1, <1>4 DEF InRemove, Inv, Truth, Handles
  <2> QED BY <2>1, <2>2
<1>7. OneAdder'
  <2> SUFFICES ASSUME NEW u \in Threads, InAdd(u)'
               PROVE  LET k == listener'[base'[u]] IN
                      /\ said'[k] = "unknown"
                      /\ watchers'[k] # NoBase => stub'[watchers'[k]] \notin registered'
                      /\ \A v \in Threads : InAdd(v)' /\ listener'[base'[v]] = k => v = u
    BY DEF OneAdder
  <2>1. \A v \in Threads : InAdd(v)' => InAdd(v) /\ listener'[base'[v]] = listener[base[v]]
    BY <1>1 DEF InAdd
  <2>2. listener[base[u]] \in Listeners
    BY <2>1 DEF InAdd, Inv, Control, HasBase
  <2> QED BY <1>1, <1>3, <2>1, <2>2 DEF Inv, Truth, OneAdder
<1>8. StoredSaid'
  BY <1>1, <1>3 DEF StoredSaid, Inv, Truth
<1>9. NoOrphanWatcher'
  <2> SUFFICES ASSUME NEW r \in registered'
               PROVE  \/ \E k \in Listeners : watchers'[k] # NoBase /\ stub'[watchers'[k]] = r
                      \/ \E u \in Threads :
                           pc'[u] = "added" /\ ret'[u] = IPC_CALL_SUCCEED /\ stub'[base'[u]] = r
    BY DEF NoOrphanWatcher
  <2>1. CASE r \in registered
    BY <2>1, <1>1 DEF Inv, Truth, NoOrphanWatcher
  <2>2. CASE r \notin registered
    BY <2>2, <1>1
  <2> QED BY <2>1, <2>2
<1>10. AddedMeansListening'
  BY <1>1 DEF AddedMeansListening, ListenerOf, Inv, Truth
<1>11. RemovedMeansSilent'
  BY <1>1, <1>2 DEF RemovedMeansSilent, ListenerOf, Inv, Truth
<1> QED BY <1>5, <1>6, <1>7, <1>8, <1>9, <1>10, <1>11 DEF Truth

(* The IPC call of RemoveWatcher: the stub of the deleted delegate is no   *)
(* longer registered, either because the service removed it or because the *)
(* service died since the handle was looked up.                            *)
LEMMA IpcRemoveTruth ==
  ASSUME "remove" \notin Refuses,
         Inv, NEW t \in Threads, IpcRemove(t), UNCHANGED watcherVars
  PROVE  Truth'
<1> USE BaseManagerAssumption
<1> DEFINE s == stub[base[t]]
           w == listener[base[t]]
<1>1. /\ pc[t] = "removing" /\ pc'[t] = "removed"
      /\ \/ handle[t] /\ registered' = registered \ {s}
         \/ ~handle[t] /\ registered' = registered
      /\ \A u \in Threads : u # t => pc'[u] = pc[u] /\ ret'[u] = ret[u]
      /\ stub' = [stub EXCEPT ![base[t]] = NoStub]
      /\ UNCHANGED <<listener, target, up, base, handle, said, watchers>>
  BY DEF IpcRemove, DeleteProxy, Answer, watcherVars, Inv, Control, TypeOK, BaseTypeOK, BaseTypes
<1>2. /\ base[t] \in Bases /\ w \in Listeners /\ s \in Stubs /\ s # NoStub
      /\ target[s] = base[t] /\ said[w] # "added" /\ mapMutex = t /\ watchers[w] = base[t]
      /\ ~handle[t] => s \notin registered
  BY <1>1 DEF InRemove, Inv, Control, HasBase, Owners, Truth, Handles, TypeOK, BaseTypeOK, StubShape
<1>3. registered' = registered \ {s}
  BY <1>1, <1>2
<1>4. /\ stub'[base[t]] = NoStub /\ NoStub \notin registered
      /\ \A c \in Bases : c # base[t] => stub'[c] = stub[c] /\ stub[c] # s
  <2>1. \A c \in Bases : c # base[t] => stub[c] # s
    BY <1>2, OwnStub DEF Inv, Control, TypeOK, BaseTypeOK
  <2> QED BY <1>1, <1>2, <2>1 DEF Inv, Control, TypeOK, BaseTypeOK, BaseTypes
<1>5. \A u \in Threads : u # t /\ pc[u] # "idle" =>
         InAdd(u) /\ ~InRemove(u) /\ base[u] \in Bases /\ base[u] # base[t]
  BY <1>1, <1>2 DEF InAdd, InRemove, Inv, Control, HasBase, Owners, TypeOK, BaseTypeOK, BaseTypes
<1>6. \A r \in registered' : r \in registered /\ r # s
  BY <1>3
<1>7. Alive'
  BY <1>1, <1>3 DEF Alive, Inv, Truth
<1>8. Handles'
  <2> SUFFICES ASSUME NEW u \in Threads
               PROVE  /\ pc'[u] # "idle" /\ ~handle'[u] => stub'[base'[u]] \notin registered'
                      /\ pc'[u] = "removed" => stub'[base'[u]] = NoStub
                      /\ pc'[u] = "added" /\ ret'[u] = IPC_CALL_SUCCEED /\ handle'[u] =>
                           stub'[base'[u]] \in registered'
                      /\ InRemove(u)' => said'[listener'[base'[u]]] # "added"
    BY DEF Handles
  <2>1. CASE u = t
    BY <2>1, <1>1, <1>2, <1>3, <1>4
  <2>2. CASE u # t
    BY <2>2, <1>1, <1>3, <1>4, <1>5 DEF InRemove, Inv, Truth, Handles
  <2> QED BY <2>1, <2>2
<1>9. OneAdder'
  <2> SUFFICES ASSUME NEW u \in Threads, InAdd(u)'
               PROVE  LET k == listener'[base'[u]] IN
                      /\ said'[k] = "unknown"
                      /\ watchers'[k] # NoBase => stub'[watchers'[k]] \notin registered'
                      /\ \A v \in Threads : InAdd(v)' /\ listener'[base'[v]] = k => v = u
    BY DEF OneAdder
  <2>1. \A v \in Threads : InAdd(v)' => InAdd(v) /\ listener'[base'[v]] = listener[base[v]]
    BY <1>1 DEF InAdd
  <2>2. listener[base[u]] \in Listeners
    BY <2>1 DEF InAdd, Inv, Control, HasBase
  <2>3. \A k \in Listeners : watchers[k] # NoBase => watchers[k] \in Bases
    BY DEF Inv, Control, TypeOK
  <2> QED BY <1>1, <1>3, <1>4, <2>1, <2>2, <2>3 DEF Inv, Truth, OneAdder
<1>10. StoredSaid'
  <2> SUFFICES ASSUME NEW k \in Listeners, watchers'[k] # NoBase, stub'[watchers'[k]] \in registered'
               PROVE  \/ said'[k] = "added"
                      \/ \E u \in Threads : pc'[u] = "removing" /\ base'[u] = watchers'[k]
    BY DEF StoredSaid
  <2>1. watchers[k] \in Bases /\ watchers[k] # base[t] /\ stub[watchers[k]] \in registered
    BY <1>1, <1>3, <1>4 DEF Inv, Control, TypeOK
  <2> QED BY <1>1, <2>1, BaseManagerAssumption DEF Inv, Truth, StoredSaid
<1>11. NoOrphanWatcher'
  <2> SUFFICES ASSUME NEW r \in registered'
               PROVE  \/ \E k \in Listeners : watchers'[k] # NoBase /\ stub'[watchers'[k]] = r
                      \/ \E u \in Threads :
                           pc'[u] = "added" /\ ret'[u] = IPC_CALL_SUCCEED /\ stub'[base'[u]] = r
    BY DEF NoOrphanWatcher
  <2>1. CASE \E k \in Listeners : watchers[k] # NoBase /\ stub[watchers[k]] = r
    BY <2>1, <1>1, <1>4, <1>6 DEF Inv, Control, TypeOK
  <2>2. CASE \E u \in Threads : pc[u] = "added" /\ ret[u] = IPC_CALL_SUCCEED /\ stub[base[u]] = r
    <3>1. PICK u \in Threads : pc[u] = "added" /\ ret[u] = IPC_CALL_SUCCEED /\ stub[base[u]] = r
      BY <2>2
    <3> QED BY <3>1, <1>1, <1>4, <1>5
  <2> QED BY <1>6, <2>1, <2>2 DEF Inv, Truth, NoOrphanWatcher
<1>12. AddedMeansListening'
  <2> SUFFICES ASSUME NEW k \in Listeners, said'[k] = "added"
               PROVE  \E r \in registered' : target'[r] # NoBase /\ ListenerOf(r)' = k
    BY DEF AddedMeansListening
  <2>1. PICK r \in registered : target[r] # NoBase /\ ListenerOf(r) = k
    BY <1>1 DEF AddedMeansListening, Inv, Truth
  <2>2. r # s
    BY <1>1, <1>2, <2>1 DEF ListenerOf
  <2> QED BY <1>1, <1>3, <2>1, <2>2 DEF ListenerOf
<1>13. RemovedMeansSilent'
  BY <1>1, <1>6 DEF RemovedMeansSilent, ListenerOf, Inv, Truth
<1> QED BY <1>7, <1>8, <1>9, <1>10, <1>11, <1>12, <1>13 DEF Truth

(* The service's own steps.                                                *)
LEMMA ServiceTruth ==
  ASSUME Inv, ServiceDies \/ ServiceStarts, UNCHANGED watcherVars
  PROVE  Truth'
<1> USE BaseManagerAssumption
<1>1. CASE ServiceDies
  <2>1. /\ registered' = {} /\ ~up'
        /\ \A t \in Threads : ~handle'[t]
        /\ \A l \in Listeners : said'[l] # "added" /\ (said[l] = "unknown" => said'[l] = "unknown")
        /\ UNCHANGED <<listener, proxy, stub, target, pc, base, ret, watchers>>
    BY <1>1 DEF ServiceDies, objects, watcherVars
  <2>2. Alive' /\ NoOrphanWatcher' /\ StoredSaid' /\ AddedMeansListening' /\ RemovedMeansSilent'
    BY <2>1 DEF Alive, NoOrphanWatcher, StoredSaid, AddedMeansListening, RemovedMeansSilent
  <2>3. Handles' /\ OneAdder'
    BY <2>1 DEF Handles, OneAdder, InAdd, InRemove, Inv, Truth, Control, HasBase
  <2> QED BY <2>2, <2>3 DEF Truth
<1>2. CASE ServiceStarts
  <2>1. /\ up'
        /\ UNCHANGED <<listener, proxy, stub, target, registered, pc, base, handle, ret, said, watchers>>
    BY <1>2 DEF ServiceStarts, objects, call, watcherVars
  <2>2. Alive' /\ Handles' /\ OneAdder' /\ StoredSaid'
    BY <2>1 DEF Alive, Handles, OneAdder, StoredSaid, InAdd, InRemove, Inv, Truth
  <2>3. NoOrphanWatcher' /\ AddedMeansListening' /\ RemovedMeansSilent'
    BY <2>1 DEF NoOrphanWatcher, AddedMeansListening, RemovedMeansSilent, ListenerOf, Inv, Truth
  <2> QED BY <2>2, <2>3 DEF Truth
<1> QED BY <1>1, <1>2

(* Every step keeps the invariant under the two conditions.                *)
LEMMA InvStep ==
  ASSUME ~ReAdds, "remove" \notin Refuses
  PROVE  Inv /\ [Next]_vars => Inv'
<1> SUFFICES ASSUME Inv, [Next]_vars PROVE Inv'
  OBVIOUS
<1>1. Control'
  BY ControlStep DEF Inv
<1>2. CASE Next
  <2>1. Truth'
    BY <1>1, <1>2, AddWatcherTruth, StoreWatcherTruth, RemoveWatcherTruth, RemoveUnknownWatcherTruth,
       FinishRemoveTruth, IpcAddTruth, IpcRemoveTruth, ServiceTruth DEF Next, Ipc, Service
  <2> QED BY <1>1, <2>1 DEF Inv
<1>3. CASE UNCHANGED vars
  <2>1. Truth'
    BY <1>3 DEF vars, baseVars, watcherVars, Inv, Truth, Alive, Handles, OneAdder, StoredSaid, InAdd,
       InRemove, NoOrphanWatcher, AddedMeansListening, RemovedMeansSilent, ListenerOf
  <2> QED BY <1>1, <2>1 DEF Inv
<1> QED BY <1>2, <1>3

(***************************************************************************)
(* No registration gets out of reach of Remove, for every number of        *)
(* threads, watchers, calls and service deaths, if no watcher is added     *)
(* twice and the service does not fail to remove one while it runs.        *)
(***************************************************************************)
THEOREM NoWatcherOrphaned ==
  ASSUME ~ReAdds, "remove" \notin Refuses
  PROVE  Spec => []NoOrphanWatcher
<1>1. Inv => NoOrphanWatcher BY DEF Inv, Truth
<1> QED BY <1>1, InitInv, InvStep, PTL DEF Spec

(***************************************************************************)
(* AddWatcher tells the truth, under the same conditions: after it         *)
(* returned success, and until the next call, the service has the watcher. *)
(***************************************************************************)
THEOREM AdditionsAreTrue ==
  ASSUME ~ReAdds, "remove" \notin Refuses
  PROVE  Spec => []AddedMeansListening
<1>1. Inv => AddedMeansListening BY DEF Inv, Truth
<1> QED BY <1>1, InitInv, InvStep, PTL DEF Spec

(***************************************************************************)
(* RemoveWatcher tells the truth, under the same conditions.               *)
(***************************************************************************)
THEOREM RemovalsAreTrue ==
  ASSUME ~ReAdds, "remove" \notin Refuses
  PROVE  Spec => []RemovedMeansSilent
<1>1. Inv => RemovedMeansSilent BY DEF Inv, Truth
<1> QED BY <1>1, InitInv, InvStep, PTL DEF Spec
=============================================================================
