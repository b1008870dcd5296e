---------------------------- MODULE WatcherManager ----------------------------
(***************************************************************************)
(* The C interface for listening, OH_HiSysEvent_Add_Watcher and            *)
(* OH_HiSysEvent_Remove_Watcher.  A watcher is a pair of function          *)
(* pointers.  Every Add makes a base listener of its own, adds it without  *)
(* a lock, and stores it under g_mapMutex once the service has taken it;   *)
(* Remove holds g_mapMutex during the whole call.                          *)
(***************************************************************************)
EXTENDS BaseManager

CONSTANTS
  ReAdds,      (* the application adds a watcher while it is listening      *)
  MaxCalls     (* bound on the number of calls                              *)

ASSUME WatcherAssumption == ReAdds \in BOOLEAN /\ MaxCalls \in Nat

VARIABLES
  watchers,    (* watcher -> base listener (NoBase: no entry)               *)
  mapMutex,    (* owner of g_mapMutex                                       *)
  calls        (* number of calls made                                      *)

watcherVars == <<watchers, mapMutex, calls>>
vars == <<baseVars, watcherVars>>

(* Threads inside HiSysEventAddWatcher for watcher w.                      *)
Adding(w) ==
  {t \in Threads : pc[t] \in {"adding", "added"} /\ listener[base[t]] = w}

(* Threads inside HiSysEventRemoveWatcher for watcher w.                   *)
Removing(w) ==
  {t \in Threads : pc[t] \in {"removing", "removed"} /\ listener[base[t]] = w}

(* HiSysEventAddWatcher up to the IPC call.                                *)
AddWatcher(t, w) ==
  /\ pc[t] = "idle"
  /\ calls < MaxCalls
  /\ ReAdds \/ (Adding(w) \cup Removing(w) = {} /\ said[w] # "added")
  /\ calls' = calls + 1
  /\ said' = [said EXCEPT ![w] = "unknown"]
  /\ \E b \in Bases :
       /\ listener[b] = NoListener
       /\ listener' = [listener EXCEPT ![b] = w]
       /\ BaseAdd(t, b)
  /\ UNCHANGED <<service, watchers, mapMutex>>

(* Mutant of StoreWatcher: the result of the IPC call is not looked at.    *)
StoreWatcherAnyway(t) ==
  /\ pc[t] = "added"
  /\ mapMutex = NoThread
  /\ watchers' = [watchers EXCEPT ![listener[base[t]]] = base[t]]
  /\ said' = [said EXCEPT ![listener[base[t]]] =
                IF handle[t] THEN "added" ELSE @]
  /\ Leave(t)
  /\ UNCHANGED <<objects, service, mapMutex, calls>>

(* Mutant of StoreWatcher: the watcher is not stored.                      *)
StoreWatcherForgets(t) ==
  /\ pc[t] = "added"
  /\ said' = [said EXCEPT ![listener[base[t]]] =
                IF ret[t] = IPC_CALL_SUCCEED /\ handle[t] THEN "added" ELSE @]
  /\ Leave(t)
  /\ UNCHANGED <<objects, service, watcherVars>>

(* The end of HiSysEventAddWatcher: the watcher the service has taken is   *)
(* stored, over the one stored before if there is one.                     *)
StoreWatcher(t) ==
  LET w == listener[base[t]] IN
  /\ pc[t] = "added"
  /\ \/ /\ ret[t] = IPC_CALL_SUCCEED
        /\ mapMutex = NoThread
        /\ watchers' = [watchers EXCEPT ![w] = base[t]]
        /\ said' = [said EXCEPT ![w] = IF handle[t] THEN "added" ELSE @]
     \/ /\ ret[t] # IPC_CALL_SUCCEED
        /\ UNCHANGED <<watchers, said>>
  /\ Leave(t)
  /\ UNCHANGED <<objects, service, mapMutex, calls>>

(* HiSysEventRemoveWatcher of a watcher that is stored, up to the IPC call. *)
RemoveWatcher(t, w) ==
  /\ pc[t] = "idle"
  /\ calls < MaxCalls
  /\ mapMutex = NoThread
  /\ watchers[w] # NoBase
  /\ calls' = calls + 1
  /\ mapMutex' = t
  /\ said' = [said EXCEPT ![w] = "unknown"]
  /\ BaseRemove(t, watchers[w])
  /\ UNCHANGED <<listener, target, service, watchers>>

(* What a Remove that found nothing to remove says of watcher w: nothing,  *)
(* while another thread is adding it.                                      *)
SaysRemoved(w) == IF Adding(w) = {} THEN "removed" ELSE "unknown"

(* HiSysEventRemoveWatcher of a watcher that is not stored.                *)
RemoveUnknownWatcher(t, w) ==
  /\ pc[t] = "idle"
  /\ calls < MaxCalls
  /\ mapMutex = NoThread
  /\ watchers[w] = NoBase
  /\ calls' = calls + 1
  /\ said' = [said EXCEPT ![w] = SaysRemoved(w)]
  /\ UNCHANGED <<objects, service, call, watchers, mapMutex>>

(* HiSysEventRemoveWatcher returns; the entry is erased after a success.   *)
FinishRemove(t) ==
  LET w == listener[base[t]] IN
  /\ pc[t] = "removed"
  /\ watchers' = IF ret[t] = IPC_CALL_SUCCEED
                 THEN [watchers EXCEPT ![w] = NoBase] ELSE watchers
  /\ said' = IF ret[t] \in {IPC_CALL_SUCCEED, ERR_LISTENER_NOT_EXIST}
             THEN [said EXCEPT ![w] = SaysRemoved(w)] ELSE said
  /\ mapMutex' = NoThread
  /\ Leave(t)
  /\ UNCHANGED <<objects, service, calls>>

Ipc(t) == (IpcAdd(t) \/ IpcRemove(t)) /\ UNCHANGED watcherVars

Service == (ServiceDies \/ ServiceStarts) /\ UNCHANGED watcherVars

Init ==
  /\ BaseInit
  /\ watchers = [w \in Listeners |-> NoBase]
  /\ mapMutex = NoThread
  /\ calls = 0

Next ==
  \/ \E t \in Threads :
       \/ \E w \in Listeners :
            AddWatcher(t, w) \/ RemoveWatcher(t, w) \/ RemoveUnknownWatcher(t, w)
       \/ StoreWatcher(t)
       \/ FinishRemove(t)
       \/ Ipc(t)
  \/ Service

Spec == Init /\ [][Next]_vars
-----------------------------------------------------------------------------
TypeOK ==
  /\ BaseTypeOK
  /\ watchers \in [Listeners -> Bases \cup {NoBase}]
  /\ mapMutex \in Threads \cup {NoThread}
  /\ calls \in Nat

(***************************************************************************)
(* No registration is out of reach: a stub the service knows belongs to a  *)
(* stored watcher, which RemoveWatcher finds, or to a call of AddWatcher   *)
(* that is about to store it.  It holds for an application that adds no    *)
(* watcher twice and a service that does not fail to remove one.           *)
(***************************************************************************)
NoOrphanWatcher ==
  \A s \in registered :
    \/ \E w \in Listeners : watchers[w] # NoBase /\ stub[watchers[w]] = s
    \/ \E t \in Threads : pc[t] = "added" /\ ret[t] = IPC_CALL_SUCCEED /\ stub[base[t]] = s
=============================================================================
