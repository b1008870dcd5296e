----------------------------- MODULE BaseManager -----------------------------
(***************************************************************************)
(* Listening to events, the layers every language binding shares:          *)
(* HiSysEventBaseManager, the HiSysEventDelegate a base listener owns, the  *)
(* HiSysEventListenerProxy (the stub) the delegate registers, and the      *)
(* system event service behind the IPC boundary.                           *)
(*                                                                         *)
(* A call of AddListener or RemoveListener looks up the service, prepares  *)
(* delegate and stub, makes one IPC call and returns its result.  Between  *)
(* the lookup and the IPC call the service may die, or die and come back:  *)
(* the handle that was looked up is then dead.  The modules of the         *)
(* bindings say which base listener a call is made for, under which lock,  *)
(* and what is done with the result.                                       *)
(***************************************************************************)
EXTENDS Integers, FiniteSets

CONSTANTS
  Threads,     (* application threads                                       *)
  Listeners,   (* the application's listeners                               *)
  Bases,       (* HiSysEventBaseListener objects that can be allocated      *)
  Stubs,       (* HiSysEventListenerProxy objects that can be allocated     *)
  Refuses,     (* the IPC calls that may fail although the service runs     *)
  MaxDeaths,   (* bound on the number of times the service dies             *)
  NoThread, NoListener, NoBase, NoStub

IPC_CALL_SUCCEED == 0
ERR_LISTENER_NOT_EXIST == -10
ERR_SYS_EVENT_SERVICE_NOT_FOUND == -11
ERR_CAN_NOT_SEND_REQ == -17  (* stands for every failure of the IPC call    *)

Codes == {IPC_CALL_SUCCEED, ERR_LISTENER_NOT_EXIST, ERR_SYS_EVENT_SERVICE_NOT_FOUND,
          ERR_CAN_NOT_SEND_REQ}

ASSUME BaseManagerAssumption ==
  /\ NoThread \notin Threads
  /\ NoListener \notin Listeners
  /\ NoBase \notin Bases
  /\ NoStub \notin Stubs
  /\ Refuses \subseteq {"add", "remove"}
  /\ MaxDeaths \in Nat

VARIABLES
  listener,    (* base listener -> its listener (NoListener: not allocated) *)
  proxy,       (* base listener -> whether listenerProxy is a delegate      *)
  stub,        (* base listener -> its delegate's spListenerCallBack        *)
  target,      (* stub -> its eventListener (NoBase: not allocated)         *)
  up,          (* the service runs                                          *)
  registered,  (* the stubs the service knows                               *)
  deaths,      (* how often the service died                                *)
  pc,          (* where each thread is                                      *)
  base,        (* the base listener each thread's call is for               *)
  handle,      (* the handle each thread looked up is alive                 *)
  ret,         (* result of each thread's call into the base manager        *)
  said         (* history: what the last finished call told about listening *)

objects == <<listener, proxy, stub, target>>
service == <<up, registered, deaths>>
call == <<pc, base, handle, ret>>
baseVars == <<listener, proxy, stub, target, up, registered, deaths, pc, base, handle, ret, said>>

(* The base manager is done with thread t's call and returns code.         *)
Answer(t, label, code) ==
  /\ pc' = [pc EXCEPT ![t] = label]
  /\ ret' = [ret EXCEPT ![t] = code]

(* The thread has looked the service up and is about to make the IPC call. *)
Request(t, label) ==
  /\ pc' = [pc EXCEPT ![t] = label]
  /\ handle' = [handle EXCEPT ![t] = TRUE]

(* The thread's call is over.                                              *)
Leave(t) ==
  /\ pc' = [pc EXCEPT ![t] = "idle"]
  /\ base' = [base EXCEPT ![t] = NoBase]
  /\ handle' = [handle EXCEPT ![t] = FALSE]
  /\ ret' = [ret EXCEPT ![t] = IPC_CALL_SUCCEED]
-----------------------------------------------------------------------------
(* Mutant of BaseAdd: the delegate makes a new stub for every call.        *)
BaseAddNewStub(t, b) ==
  /\ base' = [base EXCEPT ![t] = b]
  /\ proxy' = [proxy EXCEPT ![b] = TRUE]
  /\ IF ~up
     THEN /\ Answer(t, "added", ERR_SYS_EVENT_SERVICE_NOT_FOUND)
          /\ UNCHANGED <<stub, target, handle>>
     ELSE /\ Request(t, "adding")
          /\ \E s \in Stubs :
               /\ target[s] = NoBase
               /\ stub' = [stub EXCEPT ![b] = s]
               /\ target' = [target EXCEPT ![s] = b]
          /\ UNCHANGED ret

(* AddListener of the base manager and of the delegate for base listener   *)
(* b, up to the IPC call.                                                  *)
BaseAdd(t, b) ==
  /\ base' = [base EXCEPT ![t] = b]
  /\ proxy' = [proxy EXCEPT ![b] = TRUE]
  /\ IF ~up
     THEN /\ Answer(t, "added", ERR_SYS_EVENT_SERVICE_NOT_FOUND)
          /\ UNCHANGED <<stub, target, handle>>
     ELSE /\ Request(t, "adding")
          /\ \/ stub[b] # NoStub /\ UNCHANGED <<stub, target>>
             \/ /\ stub[b] = NoStub
                /\ \E s \in Stubs :
                     /\ target[s] = NoBase
                     /\ stub' = [stub EXCEPT ![b] = s]
                     /\ target' = [target EXCEPT ![s] = b]
          /\ UNCHANGED ret

(* The IPC call of AddListener.                                            *)
IpcAdd(t) ==
  /\ pc[t] = "adding"
  /\ \/ /\ handle[t]
        /\ registered' = registered \cup {stub[base[t]]}
        /\ Answer(t, "added", IPC_CALL_SUCCEED)
     \/ /\ ~handle[t] \/ "add" \in Refuses
        /\ Answer(t, "added", ERR_CAN_NOT_SEND_REQ)
        /\ UNCHANGED registered
  /\ UNCHANGED <<objects, up, deaths, base, handle, said>>

(* delete listener->listenerProxy; listener->listenerProxy = nullptr.      *)
DeleteProxy(b) ==
  /\ proxy' = [proxy EXCEPT ![b] = FALSE]
  /\ stub' = [stub EXCEPT ![b] = NoStub]

(* RemoveListener of the base manager and of the delegate for base         *)
(* listener b, up to the IPC call; the early returns delete the delegate.  *)
BaseRemove(t, b) ==
  /\ base' = [base EXCEPT ![t] = b]
  /\ IF ~proxy[b]
     THEN /\ Answer(t, "removed", ERR_LISTENER_NOT_EXIST)
          /\ UNCHANGED <<proxy, stub, handle>>
     ELSE IF stub[b] = NoStub
     THEN /\ Answer(t, "removed", ERR_LISTENER_NOT_EXIST)
          /\ DeleteProxy(b)
          /\ UNCHANGED handle
     ELSE IF ~up
     THEN /\ Answer(t, "removed", ERR_SYS_EVENT_SERVICE_NOT_FOUND)
          /\ DeleteProxy(b)
          /\ UNCHANGED handle
     ELSE /\ Request(t, "removing")
          /\ UNCHANGED <<proxy, stub, ret>>

(* Mutant of IpcRemove: the pointer of the deleted delegate is kept.       *)
IpcRemoveDangling(t) ==
  /\ pc[t] = "removing"
  /\ proxy' = [proxy EXCEPT ![base[t]] = FALSE]
  /\ \/ /\ handle[t]
        /\ registered' = registered \ {stub[base[t]]}
        /\ Answer(t, "removed", IPC_CALL_SUCCEED)
     \/ /\ ~handle[t] \/ "remove" \in Refuses
        /\ Answer(t, "removed", ERR_CAN_NOT_SEND_REQ)
        /\ UNCHANGED registered
  /\ UNCHANGED <<listener, stub, target, up, deaths, base, handle, said>>

(* The IPC call of RemoveListener.  Whatever it returns, the delegate is   *)
(* deleted, and its stub with it unless the service still refers to it.    *)
IpcRemove(t) ==
  /\ pc[t] = "removing"
  /\ DeleteProxy(base[t])
  /\ \/ /\ handle[t]
        /\ registered' = registered \ {stub[base[t]]}
        /\ Answer(t, "removed", IPC_CALL_SUCCEED)
     \/ /\ ~handle[t] \/ "remove" \in Refuses
        /\ Answer(t, "removed", ERR_CAN_NOT_SEND_REQ)
        /\ UNCHANGED registered
  /\ UNCHANGED <<listener, target, up, deaths, base, handle, said>>
-----------------------------------------------------------------------------
(* The service dies: its registrations and all handles to it are void.     *)
ServiceDies ==
  /\ up
  /\ deaths < MaxDeaths
  /\ up' = FALSE
  /\ registered' = {}
  /\ deaths' = deaths + 1
  /\ handle' = [t \in Threads |-> FALSE]
  /\ said' = [l \in Listeners |-> IF said[l] = "added" THEN "unknown" ELSE said[l]]
  /\ UNCHANGED <<objects, pc, base, ret>>

(* The service is started again and knows nobody.                          *)
ServiceStarts ==
  /\ ~up
  /\ up' = TRUE
  /\ UNCHANGED <<objects, registered, deaths, call, said>>

BaseInit ==
  /\ listener = [b \in Bases |-> NoListener]
  /\ proxy = [b \in Bases |-> FALSE]
  /\ stub = [b \in Bases |-> NoStub]
  /\ target = [s \in Stubs |-> NoBase]
  /\ up = TRUE
  /\ registered = {}
  /\ deaths = 0
  /\ pc = [t \in Threads |-> "idle"]
  /\ base = [t \in Threads |-> NoBase]
  /\ handle = [t \in Threads |-> FALSE]
  /\ ret = [t \in Threads |-> IPC_CALL_SUCCEED]
  /\ said = [l \in Listeners |-> "unknown"]
-----------------------------------------------------------------------------
(* The listener a registered stub calls.                                   *)
ListenerOf(s) == listener[target[s]]

BaseTypes ==
  /\ listener \in [Bases -> Listeners \cup {NoListener}]
  /\ proxy \in [Bases -> BOOLEAN]
  /\ stub \in [Bases -> Stubs \cup {NoStub}]
  /\ target \in [Stubs -> Bases \cup {NoBase}]
  /\ up \in BOOLEAN
  /\ registered \subseteq Stubs
  /\ deaths \in Nat
  /\ pc \in [Threads -> {"idle", "adding", "added", "removing", "removed"}]
  /\ base \in [Threads -> Bases \cup {NoBase}]
  /\ handle \in [Threads -> BOOLEAN]
  /\ ret \in [Threads -> Codes]
  /\ said \in [Listeners -> {"unknown", "added", "removed"}]

(* A base listener refers to a stub through its delegate only, and to one  *)
(* that was made for it.                                                   *)
StubShape == \A b \in Bases : stub[b] # NoStub => proxy[b] /\ target[stub[b]] = b

BaseTypeOK == BaseTypes /\ StubShape

(***************************************************************************)
(* A call that succeeds tells the truth: after AddListener returned        *)
(* IPC_CALL_SUCCEED the service calls the listener, until it is removed or *)
(* the service dies.                                                       *)
(***************************************************************************)
AddedMeansListening ==
  \A l \in Listeners : said[l] = "added" =>
    \E s \in registered : target[s] # NoBase /\ ListenerOf(s) = l

(***************************************************************************)
(* After RemoveListener returned IPC_CALL_SUCCEED, or said that there is   *)
(* no such listener, the service calls the listener no more, until it is   *)
(* added again.                                                            *)
(***************************************************************************)
RemovedMeansSilent ==
  \A l \in Listeners : said[l] = "removed" =>
    \A s \in registered : target[s] # NoBase => ListenerOf(s) # l
=============================================================================
