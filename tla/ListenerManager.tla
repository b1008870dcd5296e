--------------------------- MODULE ListenerManager ---------------------------
(***************************************************************************)
(* HiSysEventManager, the C++ interface for listening: it keeps one base   *)
(* listener for each listener in listenerToBaseMap_ and holds              *)
(* listenersMutex_ during the whole of every call, the IPC call included.  *)
(***************************************************************************)
EXTENDS BaseManager

CONSTANTS
  Absent,      (* the map has no entry for the listener                     *)
  MaxCalls     (* bound on the number of calls                              *)

ASSUME ManagerAssumption ==
  /\ Absent \notin Bases \cup {NoBase}
  /\ MaxCalls \in Nat

VARIABLES
  listenerToBaseMap,  (* NoBase: the entry holds a null pointer             *)
  listenersMutex,     (* owner of listenersMutex_                           *)
  calls               (* number of calls made                               *)

managerVars == <<listenerToBaseMap, listenersMutex, calls>>
vars == <<baseVars, managerVars>>

(* A call enters under the mutex.                                          *)
Enter(t, l) ==
  /\ pc[t] = "idle"
  /\ calls < MaxCalls
  /\ listenersMutex = NoThread
  /\ listenersMutex' = t
  /\ calls' = calls + 1
  /\ said' = [said EXCEPT ![l] = "unknown"]

(* Mutant of AddListener: every call makes a new base listener.            *)
AddListenerNewBase(t, l) ==
  /\ Enter(t, l)
  /\ \E b \in Bases :
       /\ listener[b] = NoListener
       /\ listener' = [listener EXCEPT ![b] = l]
       /\ listenerToBaseMap' = [listenerToBaseMap EXCEPT ![l] = b]
       /\ BaseAdd(t, b)
  /\ UNCHANGED service

(* AddListener: the listener's base listener, made on demand, is added.    *)
AddListener(t, l) ==
  /\ Enter(t, l)
  /\ \/ /\ listenerToBaseMap[l] \in Bases
        /\ BaseAdd(t, listenerToBaseMap[l])
        /\ UNCHANGED <<listener, listenerToBaseMap>>
     \/ /\ listenerToBaseMap[l] \notin Bases
        /\ \E b \in Bases :
             /\ listener[b] = NoListener
             /\ listener' = [listener EXCEPT ![b] = l]
             /\ listenerToBaseMap' = [listenerToBaseMap EXCEPT ![l] = b]
             /\ BaseAdd(t, b)
  /\ UNCHANGED service

(* Mutant of FinishAdd: the result of the IPC call is not looked at.       *)
FinishAddAnyway(t) ==
  /\ pc[t] = "added"
  /\ said' = IF handle[t] THEN [said EXCEPT ![listener[base[t]]] = "added"] ELSE said
  /\ listenersMutex' = NoThread
  /\ Leave(t)
  /\ UNCHANGED <<objects, service, listenerToBaseMap, calls>>

(* AddListener returns.  A success says something as long as the service   *)
(* has not died since.                                                     *)
FinishAdd(t) ==
  /\ pc[t] = "added"
  /\ said' = IF ret[t] = IPC_CALL_SUCCEED /\ handle[t]
             THEN [said EXCEPT ![listener[base[t]]] = "added"] ELSE said
  /\ listenersMutex' = NoThread
  /\ Leave(t)
  /\ UNCHANGED <<objects, service, listenerToBaseMap, calls>>

(* RemoveListener of a listener with a base listener, up to the IPC call.  *)
RemoveListener(t, l) ==
  /\ Enter(t, l)
  /\ listenerToBaseMap[l] \in Bases
  /\ BaseRemove(t, listenerToBaseMap[l])
  /\ UNCHANGED <<listener, target, service, listenerToBaseMap>>

(* RemoveListener of a listener that has none: reading the map leaves an   *)
(* entry with a null pointer behind.                                       *)
RemoveUnknownListener(t, l) ==
  /\ pc[t] = "idle"
  /\ calls < MaxCalls
  /\ listenersMutex = NoThread
  /\ listenerToBaseMap[l] \notin Bases
  /\ listenerToBaseMap' = [listenerToBaseMap EXCEPT ![l] = NoBase]
  /\ calls' = calls + 1
  /\ said' = [said EXCEPT ![l] = "removed"]
  /\ UNCHANGED <<objects, service, call, listenersMutex>>

(* RemoveListener returns; the entry is erased after a success only.       *)
FinishRemove(t) ==
  LET l == listener[base[t]] IN
  /\ pc[t] = "removed"
  /\ listenerToBaseMap' = IF ret[t] = IPC_CALL_SUCCEED
                          THEN [listenerToBaseMap EXCEPT ![l] = Absent]
                          ELSE listenerToBaseMap
  /\ said' = IF ret[t] \in {IPC_CALL_SUCCEED, ERR_LISTENER_NOT_EXIST}
             THEN [said EXCEPT ![l] = "removed"] ELSE said
  /\ listenersMutex' = NoThread
  /\ Leave(t)
  /\ UNCHANGED <<objects, service, calls>>

Ipc(t) == (IpcAdd(t) \/ IpcRemove(t)) /\ UNCHANGED managerVars

Service == (ServiceDies \/ ServiceStarts) /\ UNCHANGED managerVars

Init ==
  /\ BaseInit
  /\ listenerToBaseMap = [l \in Listeners |-> Absent]
  /\ listenersMutex = NoThread
  /\ calls = 0

Next ==
  \/ \E t \in Threads :
       \/ \E l \in Listeners :
            AddListener(t, l) \/ RemoveListener(t, l) \/ RemoveUnknownListener(t, l)
       \/ FinishAdd(t)
       \/ FinishRemove(t)
       \/ Ipc(t)
  \/ Service

Spec == Init /\ [][Next]_vars
-----------------------------------------------------------------------------
TypeOK ==
  /\ BaseTypeOK
  /\ listenerToBaseMap \in [Listeners -> Bases \cup {NoBase, Absent}]
  /\ listenersMutex \in Threads \cup {NoThread}
  /\ calls \in Nat

(***************************************************************************)
(* No registration is out of reach: a stub the service knows is the one of *)
(* the delegate of the base listener in the map, so that RemoveListener    *)
(* removes it, a second AddListener only renews it, and no event reaches a *)
(* listener twice.  It holds as long as the service does not fail to       *)
(* remove a listener while it keeps running.                               *)
(***************************************************************************)
NoOrphan ==
  \A s \in registered : \E l \in Listeners, b \in Bases :
    /\ target[s] = b
    /\ listener[b] = l
    /\ listenerToBaseMap[l] = b
    /\ stub[b] = s
=============================================================================
