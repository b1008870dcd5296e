------------------------ MODULE ListenerManagerProofs ------------------------
(***************************************************************************)
(* Proofs about the C++ interface for listening.  The types hold whatever  *)
(* the service does.  That no registration gets out of reach, and that the *)
(* results of AddListener and RemoveListener tell the truth, is proved for *)
(* a service that does not fail to remove a listener while it runs         *)
(* ("remove" \notin Refuses), for any number of threads, listeners, deaths *)
(* and calls.                                                              *)
(***************************************************************************)
EXTENDS ListenerManager, TLAPS

(* What else holds of thread t inside a call.                              *)
InCall(t) ==
  /\ listenerToBaseMap[listener[base[t]]] = base[t]
  /\ said[listener[base[t]]] = "unknown"
  /\ pc[t] = "removed" => stub[base[t]] = NoStub
  /\ pc[t] = "removing" /\ ~handle[t] => stub[base[t]] \notin registered
  /\ pc[t] = "added" /\ ret[t] = IPC_CALL_SUCCEED /\ handle[t] =>
       stub[base[t]] # NoStub /\ stub[base[t]] \in registered

Calls == \A t \in Threads : pc[t] # "idle" => InCall(t)

MapOK ==
  \A l \in Listeners : listenerToBaseMap[l] \in Bases => listener[listenerToBaseMap[l]] = l

Alive ==
  /\ \A t \in Threads : handle[t] => up
  /\ ~up => registered = {}

(* A thread inside a call holds the mutex and has a base listener with a   *)
(* listener, and a stub when it makes an IPC call.                         *)
HasBase ==
  \A t \in Threads : pc[t] # "idle" =>
    /\ listenersMutex = t
    /\ base[t] \in Bases
    /\ listener[base[t]] \in Listeners
    /\ pc[t] \in {"adding", "removing"} => stub[base[t]] \in Stubs

(* What holds whatever the service does; enough for the types.             *)
Control == TypeOK /\ MapOK /\ HasBase

Inv ==
  /\ Control
  /\ Calls
  /\ Alive
  /\ NoOrphan
  /\ AddedMeansListening
  /\ RemovedMeansSilent

-----------------------------------------------------------------------------
(* The initial states are typed, and nobody is registered.                 *)
LEMMA InitInv == Init => Inv
  BY BaseManagerAssumption, ManagerAssumption
  DEF Init, BaseInit, Inv, Control, TypeOK, BaseTypeOK, BaseTypes, StubShape, MapOK, HasBase,
      Calls, Alive, NoOrphan, AddedMeansListening, RemovedMeansSilent, Codes

(* The base manager's half of AddListener keeps the types and the shape.   *)
LEMMA BaseAddTypes ==
  ASSUME TypeOK, NEW t \in Threads, NEW b \in Bases, BaseAdd(t, b)
  PROVE  /\ proxy' \in [Bases -> BOOLEAN]
         /\ stub' \in [Bases -> Stubs \cup {NoStub}]
         /\ target' \in [Stubs -> Bases \cup {NoBase}]
         /\ pc' \in [Threads -> {"idle", "adding", "added", "removing", "removed"}]
         /\ base' \in [Threads -> Bases \cup {NoBase}]
         /\ handle' \in [Threads -> BOOLEAN]
         /\ ret' \in [Threads -> Codes]
         /\ StubShape'
         /\ base'[t] = b
         /\ pc'[t] \in {"adding", "added"}
         /\ pc'[t] = "adding" => stub'[b] \in Stubs
         /\ \A u \in Threads \ {t} : pc'[u] = pc[u]
<1> USE BaseManagerAssumption DEF TypeOK, BaseTypeOK, BaseTypes, Codes, Answer, Request
<1>1. proxy' = [proxy EXCEPT ![b] = TRUE] /\ base' = [base EXCEPT ![t] = b]
  BY DEF BaseAdd
<1>2. CASE ~up
  BY <1>1, <1>2 DEF StubShape, BaseAdd
<1>3. CASE up /\ stub[b] # NoStub
  <2>1. UNCHANGED <<stub, target, ret>> /\ Request(t, "adding")
    BY <1>3 DEF BaseAdd
  <2>2. StubShape'
    BY <1>1, <2>1 DEF StubShape
  <2> QED BY <1>1, <1>3, <2>1, <2>2
<1>4. CASE up /\ stub[b] = NoStub
  <2>1. PICK s \in Stubs : /\ target[s] = NoBase
                           /\ stub' = [stub EXCEPT ![b] = s]
                           /\ target' = [target EXCEPT ![s] = b]
    BY <1>4 DEF BaseAdd
  <2>2. StubShape'
    BY <1>1, <2>1 DEF StubShape
  <2>3. /\ stub' \in [Bases -> Stubs \cup {NoStub}]
        /\ target' \in [Stubs -> Bases \cup {NoBase}]
        /\ stub'[b] \in Stubs
    BY <2>1
  <2>4. /\ pc' = [pc EXCEPT ![t] = "adding"]
        /\ handle' = [handle EXCEPT ![t] = TRUE]
        /\ ret' = ret
    BY <1>4 DEF BaseAdd
  <2> QED BY <1>1, <2>2, <2>3, <2>4
<1> QED BY <1>2, <1>3, <1>4

(* The base manager's half of RemoveListener keeps them too.               *)
LEMMA BaseRemoveTypes ==
  ASSUME TypeOK, NEW t \in Threads, NEW b \in Bases, BaseRemove(t, b), UNCHANGED target
  PROVE  /\ proxy' \in [Bases -> BOOLEAN]
         /\ stub' \in [Bases -> Stubs \cup {NoStub}]
         /\ pc' \in [Threads -> {"idle", "adding", "added", "removing", "removed"}]
         /\ base' \in [Threads -> Bases \cup {NoBase}]
         /\ handle' \in [Threads -> BOOLEAN]
         /\ ret' \in [Threads -> Codes]
         /\ StubShape'
         /\ base'[t] = b
         /\ pc'[t] \in {"removing", "removed"}
         /\ pc'[t] = "removing" => stub'[b] \in Stubs
         /\ \A u \in Threads \ {t} : pc'[u] = pc[u]
<1> USE BaseManagerAssumption DEF TypeOK, BaseTypeOK, BaseTypes, Codes, Answer, Request
<1>1. CASE UNCHANGED <<proxy, stub>>
  <2>1. StubShape'
    BY <1>1 DEF StubShape
  <2>2. CASE proxy[b] /\ stub[b] # NoStub /\ up
    <3>1. Request(t, "removing") /\ UNCHANGED <<proxy, stub, ret>> /\ base' = [base EXCEPT ![t] = b]
      BY <2>2 DEF BaseRemove
    <3> QED BY <2>1, <2>2, <3>1
  <2>3. CASE ~(proxy[b] /\ stub[b] # NoStub /\ up)
    <3>1. \E code \in Codes : Answer(t, "removed", code) /\ UNCHANGED handle /\ base' = [base EXCEPT ![t] = b]
      BY <2>3 DEF BaseRemove
    <3> QED BY <1>1, <2>1, <3>1
  <2> QED BY <2>2, <2>3
<1>2. CASE DeleteProxy(b)
  <2>1. StubShape'
    BY <1>2 DEF DeleteProxy, StubShape
  <2> QED BY <1>2, <2>1 DEF BaseRemove, DeleteProxy
<1> QED BY <1>1, <1>2 DEF BaseRemove

(* Every step keeps the types.                                             *)
LEMMA ControlStep == Control /\ [Next]_vars => Control'
<1> SUFFICES ASSUME Control, [Next]_vars PROVE Control'
  OBVIOUS
<1> USE BaseManagerAssumption, ManagerAssumption DEF Control, TypeOK, BaseTypeOK,
      objects, service, call, managerVars
<1>1. ASSUME NEW t \in Threads, NEW l \in Listeners, AddListener(t, l) PROVE Control'
  <2>1. CASE listenerToBaseMap[l] \in Bases
    <3>1. BaseAdd(t, listenerToBaseMap[l]) /\ UNCHANGED <<listener, listenerToBaseMap>>
      BY <1>1, <2>1 DEF AddListener
    <3>2. TypeOK'
      BY <1>1, <2>1, <3>1, BaseAddTypes DEF AddListener, Enter, BaseTypes
    <3>3. MapOK'
      BY <3>1 DEF MapOK
    <3>4. HasBase'
      BY <1>1, <2>1, <3>1, BaseAddTypes DEF HasBase, MapOK, AddListener, Enter
    <3> QED BY <3>2, <3>3, <3>4
  <2>2. CASE listenerToBaseMap[l] \notin Bases
    <3>1. PICK b \in Bases :
            /\ listener[b] = NoListener
            /\ listener' = [listener EXCEPT ![b] = l]
            /\ listenerToBaseMap' = [listenerToBaseMap EXCEPT ![l] = b]
            /\ BaseAdd(t, b)
      BY <1>1, <2>2 DEF AddListener
    <3>2. TypeOK'
      BY <1>1, <3>1, BaseAddTypes DEF AddListener, Enter, BaseTypes
    <3>3. MapOK'
      BY <3>1 DEF MapOK, BaseTypes
    <3>4. HasBase'
      BY <1>1, <3>1, BaseAddTypes DEF HasBase, BaseTypes, AddListener, Enter
    <3> QED BY <3>2, <3>3, <3>4
  <2> QED BY <2>1, <2>2
<1>2. ASSUME NEW t \in Threads, NEW l \in Listeners, RemoveListener(t, l) PROVE Control'
  <2>1. BaseRemove(t, listenerToBaseMap[l]) /\ UNCHANGED <<listener, target, listenerToBaseMap>>
    BY <1>2 DEF RemoveListener
  <2>2. TypeOK'
    BY <1>2, <2>1, BaseRemoveTypes DEF RemoveListener, Enter, BaseTypes
  <2>3. MapOK'
    BY <2>1 DEF MapOK
  <2>4. HasBase'
    BY <1>2, <2>1, BaseRemoveTypes DEF HasBase, MapOK, RemoveListener, Enter
  <2> QED BY <2>2, <2>3, <2>4
<1>3. ASSUME NEW t \in Threads, NEW l \in Listeners, RemoveUnknownListener(t, l) PROVE Control'
  BY <1>3 DEF RemoveUnknownListener, BaseTypes, StubShape, MapOK, HasBase
<1>4. ASSUME NEW t \in Threads, FinishAdd(t) PROVE Control'
  BY <1>4 DEF FinishAdd, Leave, Codes, BaseTypes, StubShape, MapOK, HasBase
<1>5. ASSUME NEW t \in Threads, FinishRemove(t) PROVE Control'
  BY <1>5 DEF FinishRemove, Leave, Codes, BaseTypes, StubShape, MapOK, HasBase
<1>6. ASSUME NEW t \in Threads, IpcAdd(t), UNCHANGED managerVars PROVE Control'
  <2>1. registered' \subseteq Stubs
    BY <1>6 DEF IpcAdd, BaseTypes, HasBase
  <2> QED BY <1>6, <2>1 DEF IpcAdd, Answer, Codes, BaseTypes, StubShape, MapOK, HasBase
<1>7. ASSUME NEW t \in Threads, IpcRemove(t), UNCHANGED managerVars PROVE Control'
  BY <1>7 DEF IpcRemove, DeleteProxy, Answer, Codes, BaseTypes, StubShape, MapOK, HasBase
<1>8. ASSUME ServiceDies, UNCHANGED managerVars PROVE Control'
  <2>1. said' \in [Listeners -> {"unknown", "added", "removed"}]
    BY <1>8 DEF ServiceDies, BaseTypes
  <2>2. handle' \in [Threads -> BOOLEAN]
    BY <1>8 DEF ServiceDies
  <2>3. /\ up' = FALSE /\ registered' = {} /\ deaths' = deaths + 1
        /\ UNCHANGED <<listener, proxy, stub, target, pc, base, ret>>
        /\ UNCHANGED <<listenerToBaseMap, listenersMutex, calls>>
    BY <1>8 DEF ServiceDies
  <2>4. TypeOK'
    <3>1. registered' \subseteq Stubs /\ deaths' \in Nat
      BY <2>3 DEF BaseTypes
    <3>2. up' \in BOOLEAN
      BY <2>3, Zenon
    <3>3. BaseTypes'
      BY <2>1, <2>2, <2>3, <3>1, <3>2 DEF BaseTypes
    <3>4. StubShape'
      BY <2>3 DEF StubShape
    <3> QED BY <2>3, <3>3, <3>4
  <2> QED BY <2>3, <2>4 DEF MapOK, HasBase
<1>9. ASSUME ServiceStarts, UNCHANGED managerVars PROVE Control'
  BY <1>9 DEF ServiceStarts, BaseTypes, StubShape, MapOK, HasBase
<1>10. CASE UNCHANGED vars
  BY <1>10 DEF vars, baseVars, BaseTypes, StubShape, MapOK, HasBase
<1> QED BY <1>1, <1>2, <1>3, <1>4, <1>5, <1>6, <1>7, <1>8, <1>9, <1>10 DEF Next, Ipc, Service

(* The types, for every number of threads, listeners, objects and calls.   *)
THEOREM TypeCorrect == Spec => []TypeOK
<1>1. Init => Control BY InitInv DEF Inv
<1>2. Control => TypeOK BY DEF Control
<1> QED BY <1>1, <1>2, ControlStep, PTL DEF Spec

-----------------------------------------------------------------------------
(* The invariant without the types.                                        *)
Truth == Calls /\ Alive /\ NoOrphan /\ AddedMeansListening /\ RemovedMeansSilent

(* A registered stub, its base listener and its listener refer to each     *)
(* other.                                                                  *)
LEMMA Registered ==
  ASSUME NoOrphan, NEW s \in registered
  PROVE  /\ target[s] \in Bases
         /\ ListenerOf(s) \in Listeners
         /\ listenerToBaseMap[ListenerOf(s)] = target[s]
         /\ stub[target[s]] = s
  BY DEF NoOrphan, ListenerOf

(* AddListener up to the IPC call: nothing is registered or removed, and   *)
(* objects the service refers to are left alone.                           *)
LEMMA AddListenerTruth ==
  ASSUME Inv, Control', NEW t \in Threads, NEW l \in Listeners, AddListener(t, l)
  PROVE  Truth'
<1> USE BaseManagerAssumption, ManagerAssumption
<1> DEFINE b == base'[t]
<1>1. /\ pc[t] = "idle" /\ listenersMutex = NoThread
      /\ said' = [said EXCEPT ![l] = "unknown"]
      /\ UNCHANGED <<up, registered>>
  BY DEF AddListener, Enter, service
<1>2. /\ b \in Bases /\ listener'[b] = l /\ listenerToBaseMap'[l] = b
      /\ \A c \in Bases : listener[c] # NoListener => listener'[c] = listener[c]
      /\ \A k \in Listeners : listenerToBaseMap[k] \in Bases => listenerToBaseMap'[k] = listenerToBaseMap[k]
      /\ BaseAdd(t, b)
  <2>1. CASE listenerToBaseMap[l] \in Bases
    BY <2>1 DEF AddListener, BaseAdd, Inv, Control, TypeOK, BaseTypeOK, BaseTypes, MapOK
  <2>2. CASE listenerToBaseMap[l] \notin Bases
    BY <2>2 DEF AddListener, BaseAdd, Inv, Control, TypeOK, BaseTypeOK, BaseTypes
  <2> QED BY <2>1, <2>2
<1>3. /\ \A s \in Stubs : target[s] # NoBase => target'[s] = target[s]
      /\ \A c \in Bases : stub[c] # NoStub => stub'[c] = stub[c]
  BY <1>2 DEF BaseAdd, Inv, Control, TypeOK, BaseTypeOK, BaseTypes
<1>4. \A u \in Threads : u # t => pc'[u] = "idle" /\ pc[u] = "idle" /\ handle'[u] = handle[u]
  BY <1>1, <1>2 DEF BaseAdd, Answer, Request, Inv, Control, HasBase, TypeOK, BaseTypeOK, BaseTypes
<1>5. \/ pc'[t] = "adding" /\ up
      \/ pc'[t] = "added" /\ ret'[t] = ERR_SYS_EVENT_SERVICE_NOT_FOUND /\ handle'[t] = handle[t]
  BY <1>2 DEF BaseAdd, Answer, Request, Inv, Control, TypeOK, BaseTypeOK, BaseTypes
<1>6. Calls'
  BY <1>1, <1>2, <1>4, <1>5
  DEF Calls, InCall, Inv, Control, TypeOK, BaseTypeOK, BaseTypes,
      ERR_SYS_EVENT_SERVICE_NOT_FOUND, IPC_CALL_SUCCEED
<1>7. Alive'
  BY <1>1, <1>4, <1>5 DEF Alive, Inv
<1>8. ASSUME NEW s \in registered
      PROVE  /\ s \in Stubs /\ target'[s] = target[s] /\ target[s] # NoBase
             /\ listener'[target[s]] = listener[target[s]]
             /\ listenerToBaseMap'[ListenerOf(s)] = target[s]
             /\ stub'[target[s]] = s
  BY <1>2, <1>3, <1>8, Registered
  DEF Inv, Control, TypeOK, BaseTypeOK, BaseTypes, ListenerOf
<1>9. NoOrphan'
  BY <1>1, <1>8, Registered DEF NoOrphan, ListenerOf, Inv
<1>10. AddedMeansListening'
  BY <1>1, <1>8 DEF AddedMeansListening, ListenerOf, Inv, Control, TypeOK, BaseTypeOK, BaseTypes
<1>11. RemovedMeansSilent'
  BY <1>1, <1>8 DEF RemovedMeansSilent, ListenerOf, Inv, Control, TypeOK, BaseTypeOK, BaseTypes
<1> QED BY <1>6, <1>7, <1>9, <1>10, <1>11 DEF Truth

(* RemoveListener up to the IPC call: a delegate that is deleted on an     *)
(* early return has no registered stub.                                    *)
LEMMA RemoveListenerTruth ==
  ASSUME Inv, Control', NEW t \in Threads, NEW l \in Listeners, RemoveListener(t, l)
  PROVE  Truth'
<1> USE BaseManagerAssumption, ManagerAssumption
<1> DEFINE b == listenerToBaseMap[l]
<1>1. /\ pc[t] = "idle" /\ listenersMutex = NoThread
      /\ said' = [said EXCEPT ![l] = "unknown"]
      /\ UNCHANGED <<listener, target, up, registered, listenerToBaseMap>>
      /\ b \in Bases /\ listener[b] = l
      /\ BaseRemove(t, b)
  BY DEF RemoveListener, Enter, service, Inv, Control, MapOK
<1>2. base'[t] = b
  BY <1>1 DEF BaseRemove, Inv, Control, TypeOK, BaseTypeOK, BaseTypes
<1>3. \A u \in Threads : u # t => pc'[u] = "idle" /\ handle'[u] = handle[u]
  BY <1>1 DEF BaseRemove, Answer, Request, Inv, Control, HasBase, TypeOK, BaseTypeOK, BaseTypes
<1>4. \/ /\ pc'[t] = "removing" /\ up /\ handle'[t] /\ UNCHANGED stub
      \/ /\ pc'[t] = "removed" /\ handle'[t] = handle[t] /\ stub'[b] = NoStub
         /\ \A c \in Bases : c # b => stub'[c] = stub[c]
         /\ stub[b] = NoStub \/ ~up
  <2>1. CASE ~proxy[b]
    BY <1>1, <2>1 DEF BaseRemove, Answer, Inv, Control, TypeOK, BaseTypeOK, BaseTypes, StubShape
  <2>2. CASE proxy[b] /\ (stub[b] = NoStub \/ ~up)
    BY <1>1, <2>2 DEF BaseRemove, Answer, DeleteProxy, Inv, Control, TypeOK, BaseTypeOK, BaseTypes
  <2>3. CASE proxy[b] /\ stub[b] # NoStub /\ up
    BY <1>1, <2>3 DEF BaseRemove, Request, Inv, Control, TypeOK, BaseTypeOK, BaseTypes
  <2> QED BY <2>1, <2>2, <2>3
<1>5. Calls'
  BY <1>1, <1>2, <1>3, <1>4
  DEF Calls, InCall, Inv, Control, TypeOK, BaseTypeOK, BaseTypes
<1>6. Alive'
  BY <1>1, <1>3, <1>4 DEF Alive, Inv
<1>7. \A s \in registered : stub'[target[s]] = s
  <2> SUFFICES ASSUME NEW s \in registered PROVE stub'[target[s]] = s
    OBVIOUS
  <2>1. up
    BY DEF Inv, Alive
  <2>2. s # NoStub
    BY DEF Inv, Control, TypeOK, BaseTypeOK, BaseTypes
  <2> QED BY <1>4, <2>1, <2>2, Registered DEF Inv
<1>8. NoOrphan'
  BY <1>1, <1>7, Registered DEF NoOrphan, ListenerOf, Inv
<1>9. AddedMeansListening'
  BY <1>1 DEF AddedMeansListening, ListenerOf, Inv, Control, TypeOK, BaseTypeOK, BaseTypes
<1>10. RemovedMeansSilent'
  BY <1>1 DEF RemovedMeansSilent, ListenerOf, Inv, Control, TypeOK, BaseTypeOK, BaseTypes
<1> QED BY <1>5, <1>6, <1>8, <1>9, <1>10 DEF Truth

(* RemoveListener of a listener without a base listener says the truth,    *)
(* because a registered stub would have one in the map.                    *)
LEMMA RemoveUnknownListenerTruth ==
  ASSUME Inv, NEW t \in Threads, NEW l \in Listeners, RemoveUnknownListener(t, l)
  PROVE  Truth'
<1> USE BaseManagerAssumption, ManagerAssumption
<1>1. /\ listenersMutex = NoThread
      /\ listenerToBaseMap[l] \notin Bases
      /\ listenerToBaseMap' = [listenerToBaseMap EXCEPT ![l] = NoBase]
      /\ said' = [said EXCEPT ![l] = "removed"]
      /\ UNCHANGED <<listener, proxy, stub, target, up, registered, pc, base, handle, ret, listenersMutex>>
  BY DEF RemoveUnknownListener, objects, service, call
<1>2. \A u \in Threads : pc'[u] = "idle"
  BY <1>1 DEF Inv, Control, HasBase, TypeOK, BaseTypeOK, BaseTypes
<1>3. \A s \in registered : ListenerOf(s) # l
  BY <1>1, Registered DEF Inv
<1>4. Calls' /\ Alive'
  BY <1>1, <1>2 DEF Calls, Alive, Inv
<1>5. NoOrphan'
  BY <1>1, <1>3, Registered DEF NoOrphan, ListenerOf, Inv, Control, TypeOK
<1>6. AddedMeansListening' /\ RemovedMeansSilent'
  BY <1>1, <1>3
  DEF AddedMeansListening, RemovedMeansSilent, ListenerOf, Inv, Control, TypeOK, BaseTypeOK, BaseTypes
<1> QED BY <1>4, <1>5, <1>6 DEF Truth

(* AddListener returns: a success with a live handle is a registration.    *)
LEMMA FinishAddTruth ==
  ASSUME Inv, NEW t \in Threads, FinishAdd(t)
  PROVE  Truth'
<1> USE BaseManagerAssumption, ManagerAssumption
<1> DEFINE l == listener[base[t]]
<1>1. /\ pc[t] = "added"
      /\ said' = IF ret[t] = IPC_CALL_SUCCEED /\ handle[t]
                 THEN [said EXCEPT ![l] = "added"] ELSE said
      /\ UNCHANGED <<listener, proxy, stub, target, up, registered, listenerToBaseMap>>
      /\ pc' = [pc EXCEPT ![t] = "idle"]
      /\ handle' = [handle EXCEPT ![t] = FALSE]
  BY DEF FinishAdd, Leave, objects, service
<1>2. \A u \in Threads : pc'[u] = "idle"
  BY <1>1 DEF Inv, Control, HasBase, TypeOK, BaseTypeOK, BaseTypes
<1>3. l \in Listeners /\ base[t] \in Bases
  BY <1>1 DEF Inv, Control, HasBase
<1>4. ASSUME ret[t] = IPC_CALL_SUCCEED, handle[t]
      PROVE  \E s \in registered : target[s] # NoBase /\ ListenerOf(s) = l
  <2>1. stub[base[t]] \in registered /\ stub[base[t]] # NoStub
    BY <1>1, <1>4 DEF Inv, Calls, InCall
  <2>2. target[stub[base[t]]] = base[t]
    BY <1>3, <2>1 DEF Inv, Control, TypeOK, BaseTypeOK, StubShape
  <2> QED BY <1>3, <2>1, <2>2 DEF ListenerOf
<1>5. Calls' /\ Alive'
  BY <1>1, <1>2 DEF Calls, Alive, Inv, Control, TypeOK, BaseTypeOK, BaseTypes
<1>6. NoOrphan'
  BY <1>1 DEF NoOrphan, Inv
<1>7. AddedMeansListening'
  BY <1>1, <1>3, <1>4
  DEF AddedMeansListening, ListenerOf, Inv, Control, TypeOK, BaseTypeOK, BaseTypes
<1>8. RemovedMeansSilent'
  BY <1>1, <1>3
  DEF RemovedMeansSilent, ListenerOf, Inv, Control, TypeOK, BaseTypeOK, BaseTypes
<1> QED BY <1>5, <1>6, <1>7, <1>8 DEF Truth

(* RemoveListener returns: its delegate is gone, so no registered stub is  *)
(* left for the entry that may be erased.                                  *)
LEMMA FinishRemoveTruth ==
  ASSUME Inv, NEW t \in Threads, FinishRemove(t)
  PROVE  Truth'
<1> USE BaseManagerAssumption, ManagerAssumption
<1> DEFINE l == listener[base[t]]
<1>1. /\ pc[t] = "removed"
      /\ listenerToBaseMap' = IF ret[t] = IPC_CALL_SUCCEED
                              THEN [listenerToBaseMap EXCEPT ![l] = Absent]
                              ELSE listenerToBaseMap
      /\ said' = said \/ said' = [said EXCEPT ![l] = "removed"]
      /\ UNCHANGED <<listener, proxy, stub, target, up, registered>>
      /\ pc' = [pc EXCEPT ![t] = "idle"]
      /\ handle' = [handle EXCEPT ![t] = FALSE]
  BY DEF FinishRemove, Leave, objects, service
<1>2. \A u \in Threads : pc'[u] = "idle"
  BY <1>1 DEF Inv, Control, HasBase, TypeOK, BaseTypeOK, BaseTypes
<1>3. l \in Listeners /\ listenerToBaseMap[l] = base[t] /\ stub[base[t]] = NoStub
  BY <1>1 DEF Inv, Control, HasBase, Calls, InCall
<1>4. \A s \in registered : ListenerOf(s) # l
  BY <1>3, Registered DEF Inv, Control, TypeOK, BaseTypeOK, BaseTypes
<1>5. Calls' /\ Alive'
  BY <1>1, <1>2 DEF Calls, Alive, Inv, Control, TypeOK, BaseTypeOK, BaseTypes
<1>6. NoOrphan'
  BY <1>1, <1>3, <1>4, Registered DEF NoOrphan, ListenerOf, Inv, Control, TypeOK
<1>7. AddedMeansListening' /\ RemovedMeansSilent'
  BY <1>1, <1>3, <1>4
  DEF AddedMeansListening, RemovedMeansSilent, ListenerOf, Inv, Control, TypeOK, BaseTypeOK, BaseTypes
<1> QED BY <1>5, <1>6, <1>7 DEF Truth

(* The IPC call of AddListener: what it registers is the stub of the call. *)
LEMMA IpcAddTruth ==
  ASSUME Inv, NEW t \in Threads, IpcAdd(t), UNCHANGED managerVars
  PROVE  Truth'
<1> USE BaseManagerAssumption, ManagerAssumption
<1> DEFINE s == stub[base[t]]
           l == listener[base[t]]
<1>1. /\ pc[t] = "adding"
      /\ \/ handle[t] /\ registered' = registered \cup {s} /\ Answer(t, "added", IPC_CALL_SUCCEED)
         \/ registered' = registered /\ Answer(t, "added", ERR_CAN_NOT_SEND_REQ)
      /\ UNCHANGED <<listener, proxy, stub, target, up, base, handle, said, listenerToBaseMap>>
  BY DEF IpcAdd, objects, managerVars
<1>2. \A u \in Threads : u # t => pc'[u] = "idle"
  BY <1>1 DEF Answer, Inv, Control, HasBase, TypeOK, BaseTypeOK, BaseTypes
<1>3. /\ base[t] \in Bases /\ l \in Listeners /\ s \in Stubs
      /\ target[s] = base[t] /\ listenerToBaseMap[l] = base[t] /\ said[l] = "unknown"
  BY <1>1 DEF Inv, Control, HasBase, Calls, InCall, TypeOK, BaseTypeOK, StubShape
<1>4. Calls'
  <2>1. InCall(t)'
    BY <1>1, <1>3
    DEF InCall, Answer, Inv, Control, TypeOK, BaseTypeOK, BaseTypes, IPC_CALL_SUCCEED, ERR_CAN_NOT_SEND_REQ
  <2> QED BY <1>2, <2>1 DEF Calls
<1>5. Alive'
  BY <1>1 DEF Alive, Inv
<1>6. NoOrphan'
  BY <1>1, <1>3 DEF NoOrphan, Inv
<1>7. AddedMeansListening'
  BY <1>1 DEF AddedMeansListening, ListenerOf, Inv
<1>8. RemovedMeansSilent'
  BY <1>1, <1>3 DEF RemovedMeansSilent, ListenerOf, Inv
<1> QED BY <1>4, <1>5, <1>6, <1>7, <1>8 DEF Truth

(* The IPC call of RemoveListener: the stub of the deleted delegate is no  *)
(* longer registered, either because the service removed it or because the *)
(* service died since the handle was looked up.                            *)
LEMMA IpcRemoveTruth ==
  ASSUME "remove" \notin Refuses,
         Inv, NEW t \in Threads, IpcRemove(t), UNCHANGED managerVars
  PROVE  Truth'
<1> USE BaseManagerAssumption, ManagerAssumption
<1> DEFINE s == stub[base[t]]
           l == listener[base[t]]
<1>1. /\ pc[t] = "removing"
      /\ \/ handle[t] /\ registered' = registered \ {s}
         \/ ~handle[t] /\ registered' = registered
      /\ pc' = [pc EXCEPT ![t] = "removed"]
      /\ stub' = [stub EXCEPT ![base[t]] = NoStub]
      /\ UNCHANGED <<listener, target, up, base, handle, said, listenerToBaseMap>>
  BY DEF IpcRemove, DeleteProxy, Answer, managerVars
<1>2. \A u \in Threads : u # t => pc'[u] = "idle"
  BY <1>1 DEF Inv, Control, HasBase, TypeOK, BaseTypeOK, BaseTypes
<1>3. /\ base[t] \in Bases /\ l \in Listeners /\ s \in Stubs
      /\ target[s] = base[t] /\ listenerToBaseMap[l] = base[t] /\ said[l] = "unknown"
      /\ ~handle[t] => s \notin registered
  BY <1>1 DEF Inv, Control, HasBase, Calls, InCall, TypeOK, BaseTypeOK, StubShape
<1>4. registered' = registered \ {s}
  BY <1>1, <1>3
<1>5. pc'[t] = "removed" /\ stub'[base[t]] = NoStub
  BY <1>1, <1>3 DEF Inv, Control, TypeOK, BaseTypeOK, BaseTypes
<1>6. Calls'
  <2>1. InCall(t)'
    BY <1>1, <1>3, <1>5 DEF InCall
  <2> QED BY <1>2, <2>1 DEF Calls
<1>7. Alive'
  BY <1>1, <1>4 DEF Alive, Inv
<1>8. \A r \in registered' : r \in registered /\ stub'[target[r]] = r
  <2> SUFFICES ASSUME NEW r \in registered' PROVE r \in registered /\ stub'[target[r]] = r
    OBVIOUS
  <2>1. r \in registered /\ r # s
    BY <1>4
  <2>2. stub[target[r]] = r /\ target[r] \in Bases
    BY <2>1, Registered DEF Inv
  <2>3. target[r] # base[t]
    BY <2>1, <2>2
  <2> QED BY <1>1, <2>1, <2>2, <2>3 DEF Inv, Control, TypeOK, BaseTypeOK, BaseTypes
<1>9. NoOrphan'
  BY <1>1, <1>8, Registered DEF NoOrphan, ListenerOf, Inv
<1>10. AddedMeansListening'
  <2> SUFFICES ASSUME NEW k \in Listeners, said'[k] = "added"
               PROVE  \E r \in registered' : target'[r] # NoBase /\ ListenerOf(r)' = k
    BY DEF AddedMeansListening
  <2>1. PICK r \in registered : target[r] # NoBase /\ ListenerOf(r) = k
    BY <1>1 DEF AddedMeansListening, Inv
  <2>2. r # s
    BY <1>1, <1>3, <2>1 DEF ListenerOf
  <2> QED BY <1>1, <1>4, <2>1, <2>2 DEF ListenerOf
<1>11. RemovedMeansSilent'
  BY <1>1, <1>8 DEF RemovedMeansSilent, ListenerOf, Inv
<1> QED BY <1>6, <1>7, <1>9, <1>10, <1>11 DEF Truth

(* The service's own steps.                                                *)
LEMMA ServiceTruth ==
  ASSUME Inv, ServiceDies \/ ServiceStarts, UNCHANGED managerVars
  PROVE  Truth'
<1> USE BaseManagerAssumption, ManagerAssumption
<1>1. CASE ServiceDies
  <2>1. /\ registered' = {} /\ ~up'
        /\ \A t \in Threads : ~handle'[t]
        /\ \A l \in Listeners : said'[l] # "added" /\ (said[l] = "unknown" => said'[l] = "unknown")
        /\ UNCHANGED <<listener, proxy, stub, target, pc, base, ret, listenerToBaseMap>>
    BY <1>1 DEF ServiceDies, objects, managerVars
  <2>2. Calls'
    BY <2>1 DEF Calls, InCall, Inv, Control, HasBase
  <2>3. Alive' /\ NoOrphan' /\ AddedMeansListening' /\ RemovedMeansSilent'
    BY <2>1 DEF Alive, NoOrphan, AddedMeansListening, RemovedMeansSilent
  <2> QED BY <2>2, <2>3 DEF Truth
<1>2. CASE ServiceStarts
  <2>1. up' /\ UNCHANGED <<listener, proxy, stub, target, registered, pc, base, handle, ret, said, listenerToBaseMap>>
    BY <1>2 DEF ServiceStarts, objects, call, managerVars
  <2>2. Calls' /\ Alive'
    BY <2>1 DEF Calls, InCall, Alive, Inv
  <2>3. NoOrphan' /\ AddedMeansListening' /\ RemovedMeansSilent'
    BY <2>1 DEF NoOrphan, AddedMeansListening, RemovedMeansSilent, ListenerOf, Inv
  <2> QED BY <2>2, <2>3 DEF Truth
<1> QED BY <1>1, <1>2

(* Every step keeps the invariant if the service does not fail to remove.  *)
LEMMA InvStep ==
  ASSUME "remove" \notin Refuses
  PROVE  Inv /\ [Next]_vars => Inv'
<1> SUFFICES ASSUME Inv, [Next]_vars PROVE Inv'
  OBVIOUS
<1>1. Control'
  BY ControlStep DEF Inv
<1>2. CASE Next
  BY <1>1, <1>2, AddListenerTruth, RemoveListenerTruth, RemoveUnknownListenerTruth, FinishAddTruth,
     FinishRemoveTruth, IpcAddTruth, IpcRemoveTruth, ServiceTruth
  DEF Next, Ipc, Service, Inv, Truth
<1>3. CASE UNCHANGED vars
  BY <1>1, <1>3 DEF vars, baseVars, managerVars, Inv, Calls, InCall, Alive, NoOrphan,
     AddedMeansListening, RemovedMeansSilent, ListenerOf
<1> QED BY <1>2, <1>3

(***************************************************************************)
(* No registration gets out of reach, for every number of threads,         *)
(* listeners, calls and service deaths, if the service does not fail to    *)
(* remove a listener while it runs.                                        *)
(***************************************************************************)
THEOREM NoRegistrationOrphaned ==
  ASSUME "remove" \notin Refuses
  PROVE  Spec => []NoOrphan
<1>1. Inv => NoOrphan BY DEF Inv
<1> QED BY <1>1, InitInv, InvStep, PTL DEF Spec

(***************************************************************************)
(* AddListener tells the truth, under the same condition: after it         *)
(* returned success, and until the next call, the service has the          *)
(* listener.                                                               *)
(***************************************************************************)
THEOREM AdditionsAreTrue ==
  ASSUME "remove" \notin Refuses
  PROVE  Spec => []AddedMeansListening
<1>1. Inv => AddedMeansListening BY DEF Inv
<1> QED BY <1>1, InitInv, InvStep, PTL DEF Spec

(***************************************************************************)
(* RemoveListener tells the truth, under the same condition.               *)
(***************************************************************************)
THEOREM RemovalsAreTrue ==
  ASSUME "remove" \notin Refuses
  PROVE  Spec => []RemovedMeansSilent
<1>1. Inv => RemovedMeansSilent BY DEF Inv
<1> QED BY <1>1, InitInv, InvStep, PTL DEF Spec
=============================================================================
