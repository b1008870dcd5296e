-------------------------- MODULE AniCallbackManager --------------------------
(***************************************************************************)
(* The ArkTS interface: AniCallbackManager and the life of the listener or *)
(* querier that owns it.  In contrast to the JS interface a callback runs  *)
(* on the IPC thread that delivered it, or on the one that is calling at   *)
(* the moment; the thread that comes back from a callback takes the next   *)
(* one from the queue.                                                     *)
(*                                                                         *)
(* The flag inCalling is read under managerMutex and set outside it, and   *)
(* the callback goes through the one context of the owner.  A section      *)
(* under the mutex is one step.                                            *)
(***************************************************************************)
EXTENDS Integers, Sequences

CONSTANTS
  AniThreads,        (* IPC threads                                         *)
  AniScript,         (* the thread of the script, which calls query         *)
  AniDeliveries      (* callbacks delivered                                 *)

ASSUME AniAssumption ==
  /\ AniScript \notin AniThreads /\ AniDeliveries \in Nat \ {0}
  /\ AniThreads \cap {"script", "service", "map"} = {}

VARIABLES
  aniOwner,          (* "listener" or "querier"                             *)
  aniCallbacks,      (* the queue                                           *)
  aniInCalling,      (* std::atomic<bool> inCalling                         *)
  aniReleased,       (* std::atomic<bool> IsReleased                        *)
  aniPc,             (* where each IPC thread is                            *)
  aniArg,            (* the callback it delivers                            *)
  aniCurrent,        (* local of ImmediateRun                               *)
  aniContext,        (* the callback in the context                         *)
  aniHeld,           (* who holds the owner: "script", "service", "map" and *)
                     (* the IPC threads inside its stub                     *)
  aniNext,           (* deliveries so far                                   *)
  aniAdded,          (* history: callbacks put into the queue, in order     *)
  aniRan,            (* history: callbacks called, in order                 *)
  aniRaced           (* history: two threads were past Add at a time        *)

aniVars == <<aniOwner, aniCallbacks, aniInCalling, aniReleased, aniPc, aniArg, aniCurrent, aniContext,
             aniHeld, aniNext, aniAdded, aniRan, aniRaced>>

(* OnComplete is the last delivery of a querier.                           *)
AniFinals == IF aniOwner = "querier" THEN {AniDeliveries} ELSE {}

AniGoto(t, label) == aniPc' = [aniPc EXCEPT ![t] = label]

(* The owner of the manager is destroyed with its last holder; its         *)
(* destructor calls Release.                                               *)
AniHold(held) ==
  /\ aniHeld' = held
  /\ aniReleased' = (aniReleased \/ held = {})
  /\ aniCallbacks' = IF held = {} THEN <<>> ELSE aniCallbacks
-----------------------------------------------------------------------------
(* HiSysEventAni::Query or AddWatcher on the thread of the script: the     *)
(* owner is stored when the service has accepted it, else it is destroyed  *)
(* (by AddWatcher, which then deletes the context a second time: the model *)
(* ends there).                                                            *)
AniRegister ==
  /\ aniHeld = {"script"}
  /\ \/ AniHold({"script", "service"})
     \/ AniHold({})
  /\ UNCHANGED <<aniInCalling, aniPc, aniArg, aniCurrent, aniContext, aniNext, aniAdded, aniRan, aniRaced>>

AniStore ==
  /\ "script" \in aniHeld /\ aniHeld # {"script"}
  /\ AniHold((aniHeld \ {"script"}) \cup {"map"})
  /\ UNCHANGED <<aniInCalling, aniPc, aniArg, aniCurrent, aniContext, aniNext, aniAdded, aniRan, aniRaced>>

(* RemoveWatcher: the listener leaves the service and then the map.  The   *)
(* entry of a querier is erased only by its release function.              *)
AniRemove ==
  /\ aniOwner = "listener"
  /\ "map" \in aniHeld
  /\ AniHold(IF "service" \in aniHeld THEN aniHeld \ {"service"} ELSE aniHeld \ {"map"})
  /\ UNCHANGED <<aniInCalling, aniPc, aniArg, aniCurrent, aniContext, aniNext, aniAdded, aniRan, aniRaced>>

(* The service calls OnEvent, OnServiceDied, OnQuery or OnComplete.        *)
AniDeliver(t) ==
  /\ aniPc[t] = "idle"
  /\ "service" \in aniHeld
  /\ aniNext < AniDeliveries
  /\ aniNext' = aniNext + 1
  /\ aniArg' = [aniArg EXCEPT ![t] = aniNext + 1]
  /\ AniHold(aniHeld \cup {t})
  /\ AniGoto(t, "add")
  /\ UNCHANGED <<aniInCalling, aniCurrent, aniContext, aniAdded, aniRan, aniRaced>>

(* Mutant of AniAdd: every thread goes on to ImmediateRun.                 *)
AniAddAlwaysRuns(t) ==
  /\ aniPc[t] = "add"
  /\ aniCallbacks' = Append(aniCallbacks, aniArg[t])
  /\ aniAdded' = Append(aniAdded, aniArg[t])
  /\ AniGoto(t, "run")
  /\ aniRaced' = (aniRaced \/ (~aniInCalling /\ \E u \in AniThreads : aniPc[u] \notin {"idle", "add", "done"}))
  /\ UNCHANGED <<aniInCalling, aniReleased, aniArg, aniCurrent, aniContext, aniHeld, aniNext, aniRan>>

(* Add under the mutex.                                                    *)
AniAdd(t) ==
  /\ aniPc[t] = "add"
  /\ aniCallbacks' = Append(aniCallbacks, aniArg[t])
  /\ aniAdded' = Append(aniAdded, aniArg[t])
  /\ AniGoto(t, IF aniInCalling THEN "done" ELSE "run")
  /\ aniRaced' = (aniRaced \/ (~aniInCalling /\ \E u \in AniThreads : aniPc[u] \notin {"idle", "add", "done"}))
  /\ UNCHANGED <<aniInCalling, aniReleased, aniArg, aniCurrent, aniContext, aniHeld, aniNext, aniRan>>

(* ImmediateRun up to the mutex: the first time, and behind a callback.    *)
AniImmediateRun(t) ==
  /\ aniPc[t] \in {"run", "again"}
  /\ aniInCalling' = TRUE
  /\ AniGoto(t, IF aniReleased THEN "done" ELSE IF aniPc[t] = "run" THEN "pick" ELSE "pop")
  /\ UNCHANGED <<aniCallbacks, aniReleased, aniArg, aniCurrent, aniContext, aniHeld, aniNext,
                 aniAdded, aniRan, aniRaced>>

AniRest(t) ==
  IF aniPc[t] = "pop" /\ aniCallbacks # <<>> THEN Tail(aniCallbacks) ELSE aniCallbacks

(* ImmediateRun under the mutex.                                           *)
AniPick(t) ==
  /\ aniPc[t] \in {"pick", "pop"}
  /\ aniCallbacks' = AniRest(t)
  /\ IF AniRest(t) = <<>>
     THEN /\ aniInCalling' = FALSE
          /\ AniGoto(t, "done")
          /\ UNCHANGED aniCurrent
     ELSE /\ aniCurrent' = [aniCurrent EXCEPT ![t] = Head(AniRest(t))]
          /\ AniGoto(t, "context")
          /\ UNCHANGED aniInCalling
  /\ UNCHANGED <<aniReleased, aniArg, aniContext, aniHeld, aniNext, aniAdded, aniRan, aniRaced>>

(* RunCallback writes the callback into the context ...                    *)
AniRunCallback(t) ==
  /\ aniPc[t] = "context"
  /\ aniContext' = aniCurrent[t]
  /\ AniGoto(t, "call")
  /\ UNCHANGED <<aniCallbacks, aniInCalling, aniReleased, aniArg, aniCurrent, aniHeld, aniNext,
                 aniAdded, aniRan, aniRaced>>

(* ... and calls what the context holds.                                   *)
AniCall(t) ==
  /\ aniPc[t] = "call"
  /\ aniRan' = Append(aniRan, aniContext)
  /\ AniGoto(t, "release")
  /\ UNCHANGED <<aniCallbacks, aniInCalling, aniReleased, aniArg, aniCurrent, aniContext, aniHeld,
                 aniNext, aniAdded, aniRaced>>

(* The entry CompareAndReturnCacheItem finds for the release function of   *)
(* OnComplete: it passes over the entries of other threads, and the entry  *)
(* is that of the thread of the script.                                    *)
AniFound(t) == "map" \in aniHeld /\ t = AniScript

(* The release function in the context: the next callback, or the end of a *)
(* query, which erases the querier if it is found.                         *)
AniRelease(t) ==
  /\ aniPc[t] = "release"
  /\ AniGoto(t, IF aniContext \in AniFinals THEN "done" ELSE "again")
  /\ AniHold(IF aniContext \in AniFinals /\ AniFound(t) THEN aniHeld \ {"map"} ELSE aniHeld)
  /\ UNCHANGED <<aniInCalling, aniArg, aniCurrent, aniContext, aniNext, aniAdded, aniRan, aniRaced>>

(* The IPC thread leaves the stub, and its locals end.                     *)
AniDone(t) ==
  /\ aniPc[t] = "done"
  /\ AniHold(aniHeld \ {t})
  /\ aniArg' = [aniArg EXCEPT ![t] = 0]
  /\ aniCurrent' = [aniCurrent EXCEPT ![t] = 0]
  /\ AniGoto(t, "idle")
  /\ UNCHANGED <<aniInCalling, aniContext, aniNext, aniAdded, aniRan, aniRaced>>
-----------------------------------------------------------------------------
AniInit ==
  /\ aniOwner \in {"listener", "querier"}
  /\ aniCallbacks = <<>>
  /\ aniInCalling = FALSE
  /\ aniReleased = FALSE
  /\ aniPc = [t \in AniThreads |-> "idle"]
  /\ aniArg = [t \in AniThreads |-> 0]
  /\ aniCurrent = [t \in AniThreads |-> 0]
  /\ aniContext = 0
  /\ aniHeld = {"script"}
  /\ aniNext = 0
  /\ aniAdded = <<>>
  /\ aniRan = <<>>
  /\ aniRaced = FALSE

AniStep(t) ==
  AniAdd(t) \/ AniImmediateRun(t) \/ AniPick(t) \/ AniRunCallback(t) \/ AniCall(t)
  \/ AniRelease(t) \/ AniDone(t)

AniNextStep ==
  /\ \/ AniRegister \/ AniStore \/ AniRemove
     \/ \E t \in AniThreads : AniDeliver(t) \/ AniStep(t)
  /\ UNCHANGED aniOwner

AniSpec == AniInit /\ [][AniNextStep]_aniVars
-----------------------------------------------------------------------------
(***************************************************************************)
(* The script sees the deliveries once each and in order, also those that  *)
(* arrive while another thread is in a callback: the threads hand the      *)
(* queue on to each other.  When no thread is calling any more, nothing is *)
(* left in the queue, unless a query is complete or the owner is gone.     *)
(* What it takes is that no second thread passes Add between the check of  *)
(* inCalling and the assignment behind it.                                 *)
(***************************************************************************)
AniRanInOrder ==
  ~aniRaced =>
    /\ Len(aniRan) <= Len(aniAdded)
    /\ \A i \in 1..Len(aniRan) : aniRan[i] = aniAdded[i]
    /\ \/ aniReleased
       \/ \E i \in 1..Len(aniRan) : aniRan[i] \in AniFinals
       \/ \E t \in AniThreads : aniPc[t] \notin {"idle", "add", "done"}
       \/ aniRan = aniAdded
================================================================================
