------------------------------ MODULE RustWrapper ------------------------------
(***************************************************************************)
(* The life of a watcher or querier of the Rust interface.  Its native     *)
(* struct is allocated in C++ (hisysevent_c_wrapper.cpp) and belongs to    *)
(* two parties: the Rust owner, who gives it up with try_to_recycle, and   *)
(* the C++ listeners that were made for it, which give it up in their      *)
(* destructors.  The first sets the status to NEED_RECYCLE, the second     *)
(* deletes the struct (hisysevent_rust_manager.cpp, hisysevent_rust_-      *)
(* listener.cpp and hisysevent_rust_querier.cpp).                          *)
(*                                                                         *)
(* The machine is that of one struct.  A listener is alive as long as one  *)
(* of its holders has a shared_ptr to it: "service" (which refers to the   *)
(* IPC stub), "delegate" (which the base manager keeps with a watcher, and *)
(* which refers to the stub too), "base" (g_baseWatchers), "map"           *)
(* (g_watchers or g_queriers), and the threads that work with it.  The     *)
(* sections under a mutex are one step each.                               *)
(***************************************************************************)
EXTENDS Integers, FiniteSets

CONSTANTS
  MaxAdds           (* calls of add_watcher or query                        *)

ASSUME RustAssumption == MaxAdds \in Nat

(* The owner's thread and the IPC thread.                                  *)
RThreads == {"owner", "ipc"}
RListeners == 1..MaxAdds

VARIABLES
  rKind,            (* "watcher" or "querier"                               *)
  rStatus,          (* status of the struct                                 *)
  rHolders,         (* who holds each listener                              *)
  rBase,            (* the entry in g_baseWatchers, 0 for none              *)
  rMap,             (* the entry in g_watchers or g_queriers, 0 for none    *)
  rPc,              (* where each thread is                                 *)
  rItem,            (* the listener each thread works with                  *)
  rAdds,            (* listeners made so far                                *)
  rRecycled,        (* try_to_recycle: "no", "missed" or "found" the entry  *)
  rFault            (* history: the struct was used after it was deleted    *)

rVars == <<rKind, rStatus, rHolders, rBase, rMap, rPc, rItem, rAdds, rRecycled, rFault>>

RAlive(holders, n) == holders[n] # {}

RGoto(t, label) == rPc' = [rPc EXCEPT ![t] = label]

(* Somebody reads or writes the struct.                                    *)
RTouch == rFault' = (rFault \/ rStatus = "MEM_FREED")

(* Mutant of RRecycleOnce: whoever comes first deletes the struct.         *)
RRecycleAtOnce(status) == "MEM_FREED"

(* HiSysEventRustListener::RecycleWatcher and the same of the querier.     *)
RRecycleOnce(status) ==
  CASE status = "NORMAL" -> "MEM_NEED_RECYCLE"
    [] status = "MEM_NEED_RECYCLE" -> "MEM_FREED"
    [] status = "MEM_FREED" -> "MEM_FREED"

(* Holders change; a listener that nobody holds any more is destroyed, and *)
(* its destructor recycles the struct.  At most two are destroyed at a     *)
(* time: the entry of a map, and the listener of a local variable.  The    *)
(* step may read the struct before that, for the key of its entry.         *)
RHoldReading(holders, reads) ==
  LET dying == Cardinality({n \in RListeners : RAlive(rHolders, n) /\ ~RAlive(holders, n)})
      first == IF dying = 0 THEN rStatus ELSE RRecycleOnce(rStatus)
  IN  /\ rHolders' = holders
      /\ rStatus' = IF dying < 2 THEN first ELSE RRecycleOnce(first)
      /\ rFault' = (\/ rFault
                    \/ (reads \/ dying > 0) /\ rStatus = "MEM_FREED"
                    \/ dying > 1 /\ first = "MEM_FREED")

RHold(holders) == RHoldReading(holders, FALSE)

Without(n, who) == [rHolders EXCEPT ![n] = @ \ {who}]
-----------------------------------------------------------------------------
(* HiSysEventAddWatcher and HiSysEventQuery: the status is checked and a   *)
(* listener is made.                                                       *)
RAdd ==
  /\ rPc["owner"] = "idle"
  /\ rRecycled = "no"
  /\ rAdds < MaxAdds
  /\ RTouch
  /\ IF rStatus = "NORMAL"
     THEN /\ rAdds' = rAdds + 1
          /\ rHolders' = [rHolders EXCEPT ![rAdds + 1] = {"owner"}]
          /\ rItem' = [rItem EXCEPT !["owner"] = rAdds + 1]
          /\ RGoto("owner", "call")
     ELSE UNCHANGED <<rAdds, rHolders, rItem, rPc>>
  /\ UNCHANGED <<rKind, rStatus, rBase, rMap, rRecycled>>

(* The base manager registers the listener with the service, or not: there *)
(* is no service, or it refuses.  The delegate of a refused watcher refers *)
(* to its stub and is never deleted.                                       *)
RDelegate == IF rKind = "watcher" THEN {"delegate"} ELSE {}

RCall ==
  /\ rPc["owner"] = "call"
  /\ \/ /\ RHold([rHolders EXCEPT ![rItem["owner"]] = @ \cup {"service"} \cup RDelegate])
        /\ RGoto("owner", IF rKind = "watcher" THEN "storeBase" ELSE "store")
     \/ /\ \E left \in {{}, RDelegate} : RHold([rHolders EXCEPT ![rItem["owner"]] = left])
        /\ RGoto("owner", "idle")
  /\ UNCHANGED <<rKind, rBase, rMap, rItem, rAdds, rRecycled>>

(* The new entry, in place of the old one if there is one.                 *)
RReplaced(old, who) ==
  [n \in RListeners |-> IF n = rItem["owner"] THEN rHolders[n] \cup {who}
                        ELSE IF n = old THEN rHolders[n] \ {who} ELSE rHolders[n]]

RStoreBase ==
  /\ rPc["owner"] = "storeBase"
  /\ RHoldReading(RReplaced(rBase, "base"), TRUE)
  /\ rBase' = rItem["owner"]
  /\ RGoto("owner", "store")
  /\ UNCHANGED <<rKind, rMap, rItem, rAdds, rRecycled>>

RStore ==
  /\ rPc["owner"] = "store"
  /\ RHoldReading(RReplaced(rMap, "map"), TRUE)
  /\ rMap' = rItem["owner"]
  /\ RGoto("owner", "added")
  /\ UNCHANGED <<rKind, rBase, rItem, rAdds, rRecycled>>

(* The function returns; its shared_ptr ends.                              *)
RReturn ==
  /\ rPc["owner"] \in {"added", "removed"}
  /\ RHold(Without(rItem["owner"], "owner"))
  /\ RGoto("owner", "idle")
  /\ UNCHANGED <<rKind, rBase, rMap, rItem, rAdds, rRecycled>>

(* HiSysEventRemoveWatcher: the entry in g_baseWatchers is looked up.      *)
RRemove ==
  /\ rKind = "watcher"
  /\ rPc["owner"] = "idle"
  /\ rRecycled = "no"
  /\ RTouch
  /\ IF rStatus = "NORMAL" /\ rBase # 0
     THEN /\ rHolders' = [rHolders EXCEPT ![rBase] = @ \cup {"owner"}]
          /\ rItem' = [rItem EXCEPT !["owner"] = rBase]
          /\ RGoto("owner", "unregister")
     ELSE UNCHANGED <<rHolders, rItem, rPc>>
  /\ UNCHANGED <<rKind, rStatus, rBase, rMap, rAdds, rRecycled>>

(* RemoveListener takes it from the service, or fails; the delegate is     *)
(* deleted in any case, and without one nothing is asked of the service.   *)
RUnregister ==
  /\ rPc["owner"] = "unregister"
  /\ \/ /\ "delegate" \in rHolders[rItem["owner"]]
        /\ RHold([rHolders EXCEPT ![rItem["owner"]] = @ \ {"service", "delegate"}])
        /\ RGoto("owner", "erase")
     \/ /\ RHold(Without(rItem["owner"], "delegate"))
        /\ RGoto("owner", "removed")
  /\ UNCHANGED <<rKind, rBase, rMap, rItem, rAdds, rRecycled>>

RErase ==
  /\ rPc["owner"] = "erase"
  /\ rHolders' = [n \in RListeners |-> rHolders[n] \ {"base"}]
  /\ rBase' = 0
  /\ RGoto("owner", "removed")
  /\ UNCHANGED <<rKind, rStatus, rMap, rItem, rAdds, rRecycled, rFault>>
-----------------------------------------------------------------------------
(* The shared_ptr of HiSysEventRecycleWatcher on a thread.                 *)
RRecycling(t) == IF t = "owner" THEN "owner recycles" ELSE "callback recycles"

(* try_to_recycle, by the owner, or from a callback of a querier.  It is   *)
(* the last use the Rust side makes of the struct.                         *)
RRecycle(t) ==
  /\ rPc[t] = IF t = "owner" THEN "idle" ELSE "callback"
  /\ t = "ipc" => rKind = "querier"
  /\ rRecycled = "no"
  /\ RTouch
  /\ IF rMap = 0
     THEN /\ rRecycled' = "missed"
          /\ UNCHANGED <<rHolders, rItem, rPc>>
     ELSE /\ rRecycled' = "found"
          /\ rHolders' = [rHolders EXCEPT ![rMap] = @ \cup {RRecycling(t)}]
          /\ rItem' = [rItem EXCEPT ![t] = IF t = "owner" THEN rMap ELSE @]
          /\ RGoto(t, "recycle")
  /\ UNCHANGED <<rKind, rStatus, rBase, rMap, rAdds>>

(* RecycleWatcher of the listener that was found.                          *)
RRecycleFound(t) ==
  /\ rPc[t] = "recycle"
  /\ RTouch
  /\ rStatus' = RRecycleOnce(rStatus)
  /\ RGoto(t, "forget")
  /\ UNCHANGED <<rKind, rHolders, rBase, rMap, rItem, rAdds, rRecycled>>

(* Mutant of RForget: the entry stays in the map.                          *)
RForgetKeepsEntry(t) ==
  /\ rPc[t] = "forget"
  /\ RHold([n \in RListeners |-> rHolders[n] \ {RRecycling(t)}])
  /\ RGoto(t, IF t = "owner" THEN "idle" ELSE "callback")
  /\ UNCHANGED <<rKind, rBase, rMap, rItem, rAdds, rRecycled>>

(* The entry is erased, and the function returns.                          *)
RForget(t) ==
  /\ rPc[t] = "forget"
  /\ RHold([n \in RListeners |-> rHolders[n] \ {"map", RRecycling(t)}])
  /\ rMap' = 0
  /\ RGoto(t, IF t = "owner" THEN "idle" ELSE "callback")
  /\ UNCHANGED <<rKind, rBase, rItem, rAdds, rRecycled>>
-----------------------------------------------------------------------------
(* The service calls OnEvent, OnServiceDied, OnQuery or OnComplete, which  *)
(* read the struct for the Rust closure.                                   *)
RCallback(n) ==
  /\ rPc["ipc"] = "idle"
  /\ "service" \in rHolders[n]
  /\ RTouch
  /\ rHolders' = [rHolders EXCEPT ![n] = @ \cup {"ipc"}]
  /\ rItem' = [rItem EXCEPT !["ipc"] = n]
  /\ RGoto("ipc", "callback")
  /\ UNCHANGED <<rKind, rStatus, rBase, rMap, rAdds, rRecycled>>

RCallbackEnds ==
  /\ rPc["ipc"] = "callback"
  /\ RHold(Without(rItem["ipc"], "ipc"))
  /\ RGoto("ipc", "idle")
  /\ UNCHANGED <<rKind, rBase, rMap, rItem, rAdds, rRecycled>>

(* The service lets go of the stub: a query is complete, or it has died.   *)
RServiceDone(n) ==
  /\ "service" \in rHolders[n]
  /\ rPc["ipc"] = "idle"
  /\ RHold(Without(n, "service"))
  /\ UNCHANGED <<rKind, rBase, rMap, rPc, rItem, rAdds, rRecycled>>
-----------------------------------------------------------------------------
RInit ==
  /\ rKind \in {"watcher", "querier"}
  /\ rStatus = "NORMAL"
  /\ rHolders = [n \in RListeners |-> {}]
  /\ rBase = 0
  /\ rMap = 0
  /\ rPc = [t \in RThreads |-> "idle"]
  /\ rItem = [t \in RThreads |-> 0]
  /\ rAdds = 0
  /\ rRecycled = "no"
  /\ rFault = FALSE

RNext ==
  \/ RAdd \/ RCall \/ RStoreBase \/ RStore \/ RReturn
  \/ RRemove \/ RUnregister \/ RErase
  \/ \E t \in RThreads : RRecycle(t) \/ RRecycleFound(t) \/ RForget(t)
  \/ \E n \in RListeners : RCallback(n) \/ RServiceDone(n)
  \/ RCallbackEnds

RSpec == RInit /\ [][RNext]_rVars
-----------------------------------------------------------------------------
(***************************************************************************)
(* The two parties never meet in a struct that is gone: whatever the order *)
(* of recycling, unregistering and callbacks that are still running, no    *)
(* callback, destructor or call uses the struct after it was deleted, and  *)
(* nobody deletes it twice.  It takes that the struct is used for one add  *)
(* or one query: the second listener would count as the second party.      *)
(***************************************************************************)
RustMemorySafe == rAdds <= 1 => ~rFault

(***************************************************************************)
(* Nothing is left behind, and nothing is taken away early: once the owner *)
(* has recycled a struct that was registered, it is deleted exactly when   *)
(* the service, the delegate, g_baseWatchers and the callbacks have let go *)
(* of the listener.                                                        *)
(***************************************************************************)
RustReclaimed ==
  rAdds = 1 /\ rRecycled = "found" /\ (\A t \in RThreads : rPc[t] \notin {"recycle", "forget"})
    => (rStatus = "MEM_FREED")
         = (\A n \in RListeners : rHolders[n] \cap {"service", "delegate", "base", "ipc", "owner"} = {})
================================================================================
