------------------------------ MODULE JsInterface ------------------------------
(***************************************************************************)
(* The JS interface: query, addWatcher and removeWatcher of                *)
(* napi_hisysevent_js.cpp, called on the JS threads of a process (the main *)
(* thread and its workers), with the two maps that keep the C++ queriers   *)
(* and listeners alive.                                                    *)
(*                                                                         *)
(* A querier lives as long as the map or the IPC stub of its query refers  *)
(* to it; its destructor releases its JsCallbackManager, which forgets the *)
(* callbacks that wait.  The callbacks run on the JS thread of the query,  *)
(* between two calls of the script.  What the JsCallbackManager does in    *)
(* between is the module JsCallbackManager; here only OnComplete is        *)
(* followed, from the IPC thread to the script.                            *)
(***************************************************************************)
EXTENDS Integers, FiniteSets

CONSTANTS
  JsThreads,      (* threads that run a JS engine                           *)
  JsObjects,      (* querier and watcher objects of the scripts             *)
  MaxCalls        (* calls of query and addWatcher together                 *)

ASSUME JsAssumption == MaxCalls \in Nat

Ids == 1..MaxCalls

NoThread == "no thread"
NoObject == "no object"

VARIABLES
  jPc,            (* where each JS thread is                                *)
  jItem,          (* the query or watcher it works on                       *)
  qThread,        (* the thread and the object of every query               *)
  qObject,
  qHeld,          (* who holds its querier: "call", "service", "map"        *)
  qState,         (* "none", "accepted" or "refused"                        *)
  qComplete,      (* OnComplete: "none", "queued", "ran" or "lost"          *)
  queries,        (* calls of query so far                                  *)
  wThread,        (* the thread and the object of every watcher             *)
  wObject,
  listeners,      (* watchers in the map                                    *)
  watching,       (* watchers registered with the service                   *)
  proxies,        (* watchers that have a delegate (listenerProxy)          *)
  watchers,       (* calls of addWatcher so far                             *)
  noScope         (* history: ReleaseQuerier had no handle scope            *)

qVars == <<qThread, qObject, qHeld, qState, qComplete, queries, noScope>>
wVars == <<wThread, wObject, listeners, watching, proxies, watchers>>
jVars == <<jPc, jItem, qVars, wVars>>

JGoto(t, label) == jPc' = [jPc EXCEPT ![t] = label]

(* Mutant of CacheItems: the items of other threads are compared too.      *)
CacheItemsOfAll(t, object, items, threadOf, objectOf) ==
  {i \in items : threadOf[i] # t \/ objectOf[i] = object}

(* CompareAndReturnCacheItem: the items it may return.  An item of another *)
(* thread is passed over, because its engine must not be asked.            *)
CacheItems(t, object, items, threadOf, objectOf) ==
  {i \in items : threadOf[i] = t /\ objectOf[i] = object}

InQueriers == {q \in Ids : "map" \in qHeld[q]}

(* Holders change; a querier nobody holds is destroyed, and what waits in  *)
(* its JsCallbackManager is forgotten.                                     *)
JHold(held, complete) ==
  /\ qHeld' = held
  /\ qComplete' = [q \in Ids |-> IF held[q] = {} /\ complete[q] = "queued" THEN "lost" ELSE complete[q]]
-----------------------------------------------------------------------------
(* query with valid arguments: a querier is made.                          *)
Query(t, object) ==
  /\ jPc[t] = "idle"
  /\ queries + watchers < MaxCalls
  /\ queries' = queries + 1
  /\ qThread' = [qThread EXCEPT ![queries + 1] = t]
  /\ qObject' = [qObject EXCEPT ![queries + 1] = object]
  /\ qHeld' = [qHeld EXCEPT ![queries + 1] = {"call"}]
  /\ jItem' = [jItem EXCEPT ![t] = queries + 1]
  /\ JGoto(t, "query")
  /\ UNCHANGED <<qState, qComplete, noScope, wVars>>

(* HiSysEventDelegate::Query: the stub goes to the service, which accepts, *)
(* or the service is not there or refuses; then the script gets an error.  *)
QueryService(t) ==
  /\ jPc[t] = "query"
  /\ \/ /\ qState' = [qState EXCEPT ![jItem[t]] = "accepted"]
        /\ qHeld' = [qHeld EXCEPT ![jItem[t]] = @ \cup {"service"}]
     \/ /\ qState' = [qState EXCEPT ![jItem[t]] = "refused"]
        /\ UNCHANGED qHeld
  /\ JGoto(t, "store")
  /\ UNCHANGED <<jItem, qThread, qObject, qComplete, queries, noScope, wVars>>

(* Mutant of QueryStore: the querier is not kept.                          *)
QueryStoreForgets(t) ==
  /\ jPc[t] = "store"
  /\ JHold([qHeld EXCEPT ![jItem[t]] = @ \ {"call"}], qComplete)
  /\ JGoto(t, "idle")
  /\ UNCHANGED <<jItem, qThread, qObject, qState, queries, noScope, wVars>>

(* The querier is stored, whether the query was accepted or not.           *)
QueryStore(t) ==
  /\ jPc[t] = "store"
  /\ JHold([qHeld EXCEPT ![jItem[t]] = (@ \ {"call"}) \cup {"map"}], qComplete)
  /\ JGoto(t, "idle")
  /\ UNCHANGED <<jItem, qThread, qObject, qState, queries, noScope, wVars>>

(* The service calls OnComplete on an IPC thread; the callback joins the   *)
(* queue of the querier.                                                   *)
OnComplete(q) ==
  /\ "service" \in qHeld[q]
  /\ qComplete[q] = "none"
  /\ qComplete' = [qComplete EXCEPT ![q] = "queued"]
  /\ UNCHANGED <<jPc, jItem, qThread, qObject, qHeld, qState, queries, noScope, wVars>>

(* The service lets go of the stub.                                        *)
ServiceDrops(q) ==
  /\ "service" \in qHeld[q]
  /\ JHold([qHeld EXCEPT ![q] = @ \ {"service"}], qComplete)
  /\ UNCHANGED <<jPc, jItem, qThread, qObject, qState, queries, noScope, wVars>>

(* The JS thread runs OnComplete, and then its release function:           *)
(* ReleaseQuerier erases one entry of the same object, if there is a       *)
(* handle scope and an entry.                                              *)
RunComplete(t, q) ==
  /\ jPc[t] = "idle"
  /\ qThread[q] = t
  /\ qComplete[q] = "queued"
  /\ LET ran == [qComplete EXCEPT ![q] = "ran"]
         found == CacheItems(t, qObject[q], InQueriers, qThread, qObject)
         left == IF found = {} THEN {qHeld} ELSE {[qHeld EXCEPT ![e] = @ \ {"map"}] : e \in found}
     IN  \/ (\E held \in left : JHold(held, ran)) /\ UNCHANGED noScope
         \/ JHold(qHeld, ran) /\ noScope' = TRUE
  /\ UNCHANGED <<jPc, jItem, qThread, qObject, qState, queries, wVars>>
-----------------------------------------------------------------------------
(* addWatcher with valid rules: the listener is registered, or an error is *)
(* thrown.                                                                 *)
AddWatcher(t, object) ==
  /\ jPc[t] = "idle"
  /\ queries + watchers < MaxCalls
  /\ watchers' = watchers + 1
  /\ wThread' = [wThread EXCEPT ![watchers + 1] = t]
  /\ wObject' = [wObject EXCEPT ![watchers + 1] = object]
  /\ jItem' = [jItem EXCEPT ![t] = watchers + 1]
  /\ proxies' = proxies \cup {watchers + 1}
  /\ \/ /\ watching' = watching \cup {watchers + 1}
        /\ JGoto(t, "storeWatcher")
     \/ /\ UNCHANGED <<watching, jPc>>
  /\ UNCHANGED <<qVars, listeners>>

StoreWatcher(t) ==
  /\ jPc[t] = "storeWatcher"
  /\ listeners' = listeners \cup {jItem[t]}
  /\ JGoto(t, "idle")
  /\ UNCHANGED <<jItem, qVars, wThread, wObject, watching, proxies, watchers>>

(* removeWatcher: the iterator of the entry is kept while the map is not   *)
(* locked.                                                                 *)
RemoveWatcher(t, object) ==
  /\ jPc[t] = "idle"
  /\ \E w \in CacheItems(t, object, listeners, wThread, wObject) :
       jItem' = [jItem EXCEPT ![t] = w]
  /\ JGoto(t, "unregister")
  /\ UNCHANGED <<qVars, wVars>>

(* RemoveListener of the base manager, which may fail; the delegate is     *)
(* deleted in any case, and without one it always fails.                   *)
RemoveListener(t) ==
  /\ jPc[t] = "unregister"
  /\ proxies' = proxies \ {jItem[t]}
  /\ \/ /\ jItem[t] \in proxies
        /\ watching' = watching \ {jItem[t]}
        /\ JGoto(t, "erase")
     \/ /\ JGoto(t, "idle")
        /\ UNCHANGED watching
  /\ UNCHANGED <<jItem, qVars, wThread, wObject, listeners, watchers>>

(* The entry of the iterator is erased.                                    *)
EraseWatcher(t) ==
  /\ jPc[t] = "erase"
  /\ listeners' = listeners \ {jItem[t]}
  /\ JGoto(t, "idle")
  /\ UNCHANGED <<jItem, qVars, wThread, wObject, watching, proxies, watchers>>
-----------------------------------------------------------------------------
JInit ==
  /\ jPc = [t \in JsThreads |-> "idle"]
  /\ jItem = [t \in JsThreads |-> 0]
  /\ qThread = [q \in Ids |-> NoThread]
  /\ qObject = [q \in Ids |-> NoObject]
  /\ qHeld = [q \in Ids |-> {}]
  /\ qState = [q \in Ids |-> "none"]
  /\ qComplete = [q \in Ids |-> "none"]
  /\ queries = 0
  /\ wThread = [w \in Ids |-> NoThread]
  /\ wObject = [w \in Ids |-> NoObject]
  /\ listeners = {}
  /\ watching = {}
  /\ proxies = {}
  /\ watchers = 0
  /\ noScope = FALSE

(* What a JS thread goes on to do inside a call.                           *)
JCallStep(t) ==
  QueryService(t) \/ QueryStore(t) \/ StoreWatcher(t) \/ RemoveListener(t) \/ EraseWatcher(t)

JNext ==
  \/ \E t \in JsThreads :
       \/ JCallStep(t)
       \/ \E q \in Ids : RunComplete(t, q)
       \/ \E object \in JsObjects : Query(t, object) \/ AddWatcher(t, object) \/ RemoveWatcher(t, object)
  \/ \E q \in Ids : OnComplete(q) \/ ServiceDrops(q)

JSpec == JInit /\ [][JNext]_jVars
-----------------------------------------------------------------------------
(* A second query of the same thread that uses the same object.            *)
SharesObject(q) ==
  \E p \in Ids \ {q} : qThread[p] = qThread[q] /\ qObject[p] = qObject[q] /\ qState[p] # "none"

(***************************************************************************)
(* A query that was completed is reported: once OnComplete has arrived,    *)
(* the script sees it, also when the service lets go of the stub before    *)
(* the JS thread has come to it, and although the querier is stored only   *)
(* behind the IPC call.  It takes an object that is not used in two        *)
(* queries: ReleaseQuerier erases an entry by its object, and may let the  *)
(* wrong querier go.                                                       *)
(***************************************************************************)
JsQueryCompletes ==
  \A q \in Ids : qComplete[q] = "queued" ~> (qComplete[q] = "ran" \/ SharesObject(q))

(***************************************************************************)
(* The map of the listeners is sound although it is unlocked during the    *)
(* IPC calls: the iterator that removeWatcher keeps still has its entry,   *)
(* whatever the other threads add and remove meanwhile, and a watcher of   *)
(* the map that nobody is removing is registered with the service.         *)
(***************************************************************************)
JsMapsSound ==
  /\ \A t \in JsThreads : jPc[t] \in {"unregister", "erase"} => jItem[t] \in listeners
  /\ \A w \in listeners : w \in watching \/ \E t \in JsThreads : jPc[t] = "erase" /\ jItem[t] = w
================================================================================
