# TLA+ models of hisysevent

hisysevent is the event logging service of the DFX subsystem: applications and
system services write events, which go through a datagram socket to the hiview
daemon, and listen to, query and export the events the daemon keeps, through
the IPC interface of the *system event service*. This directory holds TLA+
models of the client library, the TLC configurations that check them on small
instances, and TLAPS proofs of their main properties.

## 1. The system

| Part | State | Operations | Meets |
|---|---|---|---|
| Event building and writing (`interfaces/native/innerkits/hisysevent/hisysevent.cpp`, `include/hisysevent.h`) | one `EventBase` per call: result code, raw data, parameter count | `Write`: check domain, name, keys and values, encode, send | frequency limit, encoder, transport |
| Frequency limit (`write_controller.cpp`) | one process-wide LRU cache: call site -> count and opening time of the window | `CheckLimitWritingEvent` | called by every `HiSysEventWrite`, from any thread |
| Raw data and encoder (`raw_data.cpp`, `raw_data_encoder.cpp`, `encoded_param.h`) | a growing buffer | append, update, varint and string encoding | event building |
| Transport (`transport.cpp`, `event_socket_factory.cpp`) | one process-wide list of failed events and its mutex | `SendData` | every writer; the daemon's sockets |
| Easy writer (`hisysevent_easy/`) | a fixed buffer per call, the pid kept in a static variable | `HiSysEventEasyWrite` | the daemon's socket |
| Event record (`hisysevent_record.cpp`, `hisysevent_record_c.cpp`, `hisysevent_record_convertor.cpp`) | the parsed JSON of one event | typed getters in C++ and C, conversion to the C struct | listeners, queriers and the interfaces to other languages |
| C++ listener manager (`hisysevent_manager.cpp`) | map listener -> base listener, a mutex held across the IPC call | `AddListener`, `RemoveListener`, `Query`, `Export` | base manager |
| C watcher manager (`hisysevent_manager_c.cpp`) | map of function pointer pairs -> base listener, a mutex | `OH_HiSysEvent_Add_Watcher`, `..._Remove_Watcher`, `..._Query` | base manager |
| Base manager and delegate (`hisysevent_base_manager.cpp`, `adapter/native/idl/src/hisysevent_delegate.cpp`, `hisysevent_listener_proxy.cpp`) | per base listener: a delegate, its callback stub, its death recipient | add, remove, query, export, subscribe | the system event service (external), which calls the stubs back on IPC threads |
| JS callback manager (`js_callback_manager.cpp`) | per listener or querier: a queue, two atomic flags, a mutex, one context | `Add`, `ImmediateRun`, `Release` | IPC threads on one side, the JS thread and its uv loop on the other |
| JS interface (`napi_hisysevent_js.cpp`, `napi_hisysevent_util.cpp`) | a map of listeners and one of queriers, each with a mutex that is released during the IPC call | write, add and remove watcher, query, export, subscribe | JS callback manager, C++ manager |
| ArkTS interface (`hisysevent_ani.cpp`, `hisysevent_ani_util.cpp`, `ani_callback_manager.cpp`) | the same maps; per owner a queue, two flags, a mutex, one context | as above; callbacks run on the IPC threads | C++ manager |
| Command line tool (`frameworks/native/hisysevent_tool.cpp`) | the arguments, a condition variable nobody notifies | parse, listen or query, wait, print | C++ manager |
| Rust interface and C wrapper (`frameworks/native/c_wrapper`, `interfaces/rust`) | per watcher or querier a native struct with a status; two maps that keep listeners alive | write, query, watch, recycle | C++ manager |

What is hard here, and hard to test: writers on many threads share the
frequency counters and the list of failed events; the counters are read and
written back in two critical sections; sends fail at any point and failed
events are sent later by other threads; registrations exist on both sides of an
IPC boundary whose other side dies, restarts and refuses; callbacks cross from
IPC threads to the JS thread through one shared context; the objects behind
them have several owners, of which the last one destroys them; numbers and texts
change their type at every language border. `PROJECT.json` lists
these hazards line by line, with the properties that watch over them.

## 2. The models

### WriteController

`CheckLimitWritingEvent` is three steps, cut where the code releases the mutex
of the cache: read the clock, `Get` (copy the record out), `Put` (decide and
write the record back). The cache is the index `key2Index` and the list
`keyCache` of the code. The hash of event name, function and line is the key
itself; a collision of hashes is two call sites with one key. The clock may be
set back, as `system_clock` may. Ghosts: `log` (one entry for every finished
check), `recency` (the list an unlimited cache would keep) and `undisturbed`.

* `CacheConsistent`: index and list describe the same keys.
* `CacheHoldsMostRecent`: the cache holds the keys that were used last.
* `NoFalseReject`: a write is rejected only if `Threshold` writes of its call
  site were admitted in the window it falls into, whatever was lost, evicted or
  turned back.
* `LimitUnlessDisturbed`: more than `Threshold` writes of a window are admitted
  only after checks overlapped, a counter was evicted or the clock went back.
* `LimitPerWindow`: the limit without that condition. The run `wc_race` shows
  that two threads exceed it.

### Transport and EventOutbox

`SendData` is split at every socket call and at the mutex: the list is drained
under the mutex (`RetrySendFailedData`, `RetryFront`), the own event is tried
`RETRY_TIMES` times without it (`Try`, `OpenSocket`, `SendtoSucceeds`,
`SendtoFails`), and joins the list at last (`AddFailedData`). `socket` fails or
not, `sendto` succeeds, fails for good or fails for now, as the environment
chooses. An event stands for one call of `SendData`.

`EventOutbox` is what the transport promises, without threads and attempts: an
event is accepted or held, the oldest held event gives way, held events are
accepted in order. `ImplementsOutbox` says that the transport implements it
with `held <- retryDataList`, `accepted <- sent`, `discarded <- dropped`.

* `OneFate`, `SentOnce`, `RetriedInOrder`: no event is lost, doubled or
  overtaken by one that failed later, and the result `SendData` returned agrees
  with what becomes of the event.
* `EveryCallReturns`: liveness under weak fairness of each thread inside
  `SendData`. A thread that can run is run by the scheduler, socket calls do
  not block (`SOCK_NONBLOCK`), and the mutex is free again and again; with the
  finite number of events of the run nobody can take it forever.

### BaseManager, ListenerManager, WatcherManager, ServiceDeath

`BaseManager` is shared by the two managers above it: base listeners, their
delegates and stubs, and the service, which knows a set of stubs, dies
(`ServiceDies`) and starts again. A call looks the service up and makes the IPC
call as two steps, so that the service can die between them. `Refuses` names
the operations the running service may fail. `said` is a ghost: what the last
finished call of a listener told its caller.

`ListenerManager` holds `listenersMutex_` during the whole call.
`WatcherManager` adds without a lock and stores afterwards. `ServiceDeath` adds
the death recipients of the stubs.

* `NoOrphan`, `NoOrphanWatcher`: every registration is reachable, so that it
  can be removed and is not doubled.
* `AddedMeansListening`, `RemovedMeansSilent`: results are true of the service.
* `DeathIsReported`: a listener is told that the service died.

### JsCallbackManager

`Add`, `ImmediateRun` and `RunCallback` are cut at the mutex, at the write of
the context and at the submission of the work. Critical sections are single
steps. The uv loop runs works in order on the thread `Loop`. `Release` is the
destructor of the owner; it can run at any moment at which no thread is inside
`Add`, because such a thread holds a reference. A work that is left over then
may run what the context held, or nothing. Ghosts: `added`, `ran`,
`overlapped`, `failed`.

* `RanInOrder`: without overlapping deliveries, what ran is a prefix of what
  was added.
* `NothingAfterFinal`: nothing runs behind `OnComplete`.
* `EveryCallbackRuns`, `QueueAdvances`: no wake-up is lost, so that all that was
  added has run again and again; the queue never gets stuck even if deliveries
  overlap. Both hold until the manager is released or a callback fails.
  Fairness, in `MCBindings`: threads inside `Add` go on and the uv loop runs the
  works it has.

With overlapping deliveries `RanInOrder` does not hold: two threads read
`inCalling` as false and both take the same front, and the second pop removes a
callback that has not run. The repository says nothing about the order or number of
callbacks for concurrent deliveries, so this is a hazard and not a finding.

### EventWriter, RawData, StringFilter, EventReader

`EventWriter` is `HiSysEvent::Write`: the call (mask, null pointers of the C
interface, frequency limit), the constructor of `EventBase`, `WritebaseInfo`,
one step for each parameter (`RefuseParam`, `AppendParam`) and `SendSysEvent`.
The overloads of `InnerWrite` and the functions `Append...Param` differ in the
kind of the value and the checks before it, which is what a parameter of the
model has. An `EventBase` belongs to one call, so calls do not interleave here;
what they share is in `WriteController` and `Transport`, and appears as the
results these may give. `RawData` is the buffer: a sequence of cells, a
capacity, and the calls of `Append` one parameter makes, any of which may run
out of memory when the buffer has to grow (the bytes before it stay).
`StringFilter` works on classes of characters. `EventReader` is a reader of the
format, written from the format and not from the encoder; the daemon's own
reader is not in the repository. Ghosts: `given`, `kept`, `broken`, `sent`.

* `ResultIsTrue`: the comment of `HiSysEventWrite`. 0 means sent and complete,
  a positive code means sent, a negative one means not sent.
* `ReadsBack`: the reader finds domain, name, type and the kept parameters with
  their values, and the block size is the length.
* `WithinLimits`: no malformed name, and no more parameters or items than
  allowed, reaches the daemon.

Two things the code does that the properties leave room for. A parameter whose
encoding runs out of memory leaves its first bytes in the buffer without being
counted, and `Write` still returns 0 (`broken`). And
`ERR_VALUE_LENGTH_TOO_LONG` is returned for a string that is sent in full.

### EventRecord, JsValues, RustConversions, EasyWriter and Conversions

These modules are operators: what one call makes of its arguments. `Conversions`
has one action for each kind of call, which keeps arguments (`call`) and result
(`answer`) for the properties; each property states what the result must say in
terms of the arguments, not how it is computed.

* `EventRecord`: the getters over a JSON value (`GetParamValue`,
  `GetParamValues`, `GetIntValueByKey`, ...), with jsoncpp's rules for types
  and conversions, and the C callbacks that convert, deliver and delete records
  (`OnEventC`, `OnQueryC`). Numbers are counted in halves, so that doubles have
  a fraction; the 64-bit types are `Width` bits wide.
  `RecordReadsTrue`: a getter that succeeds returns the value of the JSON.
  `CRecordsComplete`: a querier gets a batch whole or not at all, and whatever
  was allocated is deleted once, also when a conversion fails half way.
* `CStrings`: what C++ reads when it makes a `std::string` of a `const char*`:
  as far as the first NUL (`CString`), behind the end of the array if there is
  none in it (`ReadFrom`).
* `JsValues`: from a JS or ArkTS object to event parameters and back. The
  parameters of an event are a function from names to values, as the
  `std::unordered_map` of `HiSysEventInfo` has no order to rely on. A number is
  a whole or a half one, or *near*: less than 1e-9 farther from zero than a whole
  one, which `IsFloatingNumber` takes for that one. A double that is cast to an
  integer type that cannot hold it is one of the values the processors give.
  `JsParamsKept`: every usable property becomes the parameter of its name, with
  the same numbers, flags and texts; texts end at their first NUL, the JS
  interface keeps the whole number next to a near one, and the numbers that are
  not kept are named (`Lossy`, `LossyAni`): NaN, bigints beyond 64 bits, and the
  negative numbers of an array whose type another element decided.
  `JsonReachesJs`: the object a script gets says what the JSON says; in ArkTS
  `params` is then the bare value or array of one parameter, since the code sets
  the property itself for each parameter in turn (`AniObject`), and an event
  type outside the enum is null (`ToAniEnum`). `AniParamsByName` is what the
  declaration says instead, and the run `ani_params` shows the difference.
* `RustConversions`: the texts of a query rule, a watch rule and a parameter,
  copied into arrays of a fixed length, joined with bars and split where they
  are several. What is read of them as a C string depends on what the memory
  held (`held`): the structs of the C wrapper are on the stack and not
  initialised. `RustNamesArrive`: the names of a query come one by one and in
  order, each exactly if a NUL happened to lie behind it, and else as the
  beginning of what is read; the texts of a watch rule, whose arrays Rust fills
  with zeros, are exact if they are shorter than their arrays; a text as long as
  its array is read on into the next one, and nothing is promised of it.
  The condition is modelled too (`QueryCondition`), and nothing is promised of
  it: its CString is dropped before the library reads it.
* `EasyWriter`: `HiSysEventEasyWrite` with the sizes of the code: the offsets in
  its buffer of 1120 bytes, the varints, the kept pid, the socket retry. The type
  is an `int` of the caller, of which `CheckEventType` and `InitEventHeader` see
  the low byte (`LowByte`). `EasyEventIntact`: exactly one whole datagram with
  SUCCESS, none otherwise, and a type that `uint8_t` does not keep is sent as its
  low byte.

Limits of these models. A key of a script is shorter than the buffer it is read
into and has no NUL, and the texts of the JSON have none. A number is a multiple of one half, or near: other
fractions behave as the halves do, since the code only asks whether a number is
whole. All arrays of one uninitialised struct find the same bytes `held`, and a
text that no modelled byte ends, ends with them; the freed condition is intact or
replaced by `held`.

### JsInterface

`query`, `addWatcher` and `removeWatcher` on any number of JS threads, cut where
the code releases the mutex of a map for its IPC call, and the life of a querier:
`qHeld` says whether the map `queriers`, the service (through the stub of the
query) and the call itself hold it, and it is destroyed with the last of them.
A watcher is registered with the service (`watching`) and has a delegate
(`proxies`) until it is removed. `OnComplete` arrives on an IPC
thread, `RunComplete` is the JS thread that comes to it between two calls, and
releases the querier.

* `JsMapsSound`: the iterator that `removeWatcher` keeps over the IPC call still
  has its entry, and a watcher of the map is registered with the service.
* `JsQueryCompletes`: a query that was completed is reported to the script,
  although the querier is stored only behind the IPC call. Fairness: a JS thread
  inside a call goes on (weak), and its uv loop runs the works it has (strong,
  because the loop only runs between calls of the script, which may start new
  ones).

### AniCallbackManager

The ArkTS counterpart of `JsCallbackManager`: callbacks run on the IPC thread
that finds `inCalling` false, which hands the queue on to itself afterwards; the
owner is held by the script, the service, the map and the threads inside its
stub. `AniRanInOrder`: deliveries run once each and in order, as long as no second
thread passes `Add` between the check of `inCalling` and the assignment.

### RustWrapper

One native struct of the Rust interface. Its Rust owner gives it up with
`try_to_recycle`, the C++ listener that was made for it in its destructor; the
first of them sets the status, the second deletes the struct. Who keeps the
listener alive is `rHolders`: service, delegate, the two maps, and the threads
that work with it.

* `RustMemorySafe`: no callback, destructor or call meets a struct that is gone.
* `RustReclaimed`: the struct is deleted exactly when both have let go of it.

Both hold while the struct is registered at most once. A second
registration makes a second listener, whose destructor counts as the second
party although the owner has not given the struct up; nothing in the repository
says that a watcher may be added twice.

### ToolClient

The main thread of `hisysevent` (`HandleInput`, `ParseCmdLine`, `DoAction`,
`WaitClient`), the service, and the IPC thread whose `OnComplete` ends the
process. `ToolEnds`: a query that was accepted ends the tool as long as the service
lives, also if it is complete before the main thread waits. Fairness: the main
thread goes on, and the service completes the query it has accepted.

### DomainMask

`isMasked` of `hisysevent.h`, the compile-time search for a domain in the macro
`DOMAIN_MASKS`, over strings of two letters. `MaskedExactly` states its
comment, and is violated.

### MCBindings

`JsCallbackManager`, `JsInterface`, `AniCallbackManager`, `RustWrapper`,
`ToolClient` and `Conversions` share no state. `MCBindings` checks them in one run: the variable
`client` says which of them a behaviour is about, and the others rest.
`MCValues` holds the values the conversions are tried with.

Other things the code does that no property forbids, because no text of the
repository does:

* The ArkTS `write` ignores the answer of the frequency limit: an event that was
  refused is written all the same, with the time stamp 0
  (`hisysevent_ani.cpp:446`). The limit is `WriteController`.
* The release function of `OnComplete` of an ArkTS query looks for an entry of
  the thread it runs on, which is an IPC thread: the querier stays in its map
  (`AniFound`).
* A refused query of the JS interface stays in its map; a refused query
  of the tool lets it wait forever.
* The easy writer takes 257 for the type 1, since it narrows the `int` to
  `uint8_t` before it looks at it (`hisysevent_easy.c:72`); its test tries 5.
* The names and the domain of a Rust query are copied without a terminator into
  a struct on the stack that is not initialised (`hisysevent_c_wrapper.cpp:121`),
  and the condition is freed before it is read (`sys_event_manager.rs:373`).
* A listener of the Rust interface gets a record that was not initialised when
  its conversion failed.
* An `addWatcher` of the ArkTS interface that the service refuses deletes its
  context, which the destructor of the listener deletes again
  (`hisysevent_ani.cpp:609`). The model destroys the owner in that case and
  ends there (`AniRegister`).
* A context of the JS callback manager is deleted with its owner while a work on
  the uv loop still points to it, and `Release` clears the queue without the
  mutex under which `ImmediateRun` looks at it.
* An `AddListener` the service refuses leaves delegate and stub behind a
  reference cycle.

## 3. Runs

| Run | Instance | Shows |
|---|---|---|
| `wc_threads` | 2 threads, 3 keys, capacity 2, threshold 2, period 1 s of 2 ticks, 4 checks, clock up to 6 | the properties of the frequency limit |
| `wc_race` | 2 threads, 1 key | `LimitPerWindow` violated |
| `transport` | 2 threads, 4 events and one too large, list of 2, 2 attempts | the properties of the transport, refinement, liveness |
| `listener_manager` | 2 threads, 2 listeners, 2 deaths, 6 calls, service refuses to add | the listener properties |
| `listener_refused` | as above, service refuses to remove | `RemovedMeansSilent` violated |
| `watcher_manager` | 2 threads, 2 watchers, 1 death, 5 calls | the watcher properties |
| `watcher_twice` | as above, a watcher may be added twice | `RemovedMeansSilent` violated |
| `service_death` | 1 thread, 1 listener | `DeathIsReported` violated |
| `event_writer` | 11 calls, 14 parameters, up to 3 in a call; limits of 2 parameters, items and characters; growth by 5 cells, numbers of 4 bits with 1 and 2 bits in a byte; at most 34 cells are sent | the properties of the write path |
| `bindings` | integers of 5 bits, `int` of 4; 2 IPC threads, 2 callbacks and one final, failures; 2 JS threads, 2 objects, 2 calls; 2 IPC threads and 3 deliveries in ArkTS; a Rust struct registered up to twice; 3 options and 1 batch in the tool | the properties of the callbacks, of the interfaces and of the tool |
| `ani_params` | the conversions of `bindings` alone | `AniParamsByName` violated |
| `domain_mask` | names of 1 or 2 letters of 2, up to 2 masks | `MaskedExactly` violated |

Why the bounds are enough to meet the interesting cases. Three keys in a cache
of two evict, and reorder before they evict; five clock values cover a window
of two seconds, its end and a step back into it; four checks are three writes
of one window and one more. A list of two with four events and two threads is
full while its front is being retried and a third failure arrives. Four base
listeners and stubs are never exhausted by the calls of a run before its
interesting cases. Three callbacks and two threads overlap, queue up behind a
running one and race with the emptying of the queue. Three parameters exceed
a limit of two in every order; a buffer that grows by five cells grows several
times inside one event, and the header is longer than one growth; with one and
two bits in a byte the numbers 15 and -8 of a four bit `uint64_t` take three
bytes; two long parameters behind trace information exceed 34 cells.
Five bits have a value inside and outside each bound of `int64_t`, `uint64_t`,
`int32_t` and of the exact doubles, and arrays of two or three of them meet in
every order; near numbers are on both sides of 0 and next to another one; texts
have a NUL in front of and behind the limits; the easy writer is tried at each of
its limits and one beyond, and with types only a `uint8_t` takes for valid. Names
of a Rust rule are empty, as long as their arrays, longer, and have a bar, over
memory that was zeroed, never was, or is a mixture.
Two JS threads with two calls remove while the other adds, and complete while
the querier is not stored yet; two objects are the same or not. Three deliveries
on two IPC threads come during a callback and behind it. Two registrations of a
Rust struct show what one excludes.
`CHECK_DEADLOCK FALSE` stands in the configurations that bound the number of
calls, events or callbacks, because at the bound the model stops; in
`event_writer` a call can always follow, and deadlock is checked. `domain_mask`
is compiled once, and in `bindings` the tool exits.

Symmetry is used for threads, keys, listeners, base listeners and stubs, in
runs with invariants only; no definition chooses among them.

### Findings

* `wc_race`: the frequency limit can be exceeded by threads that check at the
  same time (`write_controller.cpp:144`); a module test states the limit
  without that exception.
* `listener_refused`: a failed `RemoveListener` destroys the means to remove
  the listener, and the next call says that it was never added
  (`hisysevent_base_manager.cpp:51`).
* `watcher_twice`: a C watcher that is added twice cannot be removed completely
  (`hisysevent_manager_c.cpp:95`).
* `service_death`: the death recipient is never added to the remote object
  (`hisysevent_delegate.cpp:77`), so `OnServiceDied` is never called.
* `ani_params`: the `params` of an ArkTS event are the value of its last
  parameter and not the declared record (`hisysevent_ani_util.cpp:785`).
* `domain_mask`: the domain mask is not split at '|' as its comment says
  (`hisysevent.h:58`): the search goes on behind one character instead of behind
  the bar, and compares only as many characters of the last mask as the domain
  has; a domain that is only the beginning or the end of a masked name is compiled out.

## 4. Proofs

All proofs hold for every value of the constants that satisfies the named
assumptions, for any number of threads.

* `WriteControllerProofs`: `TypeCorrect`, `CacheIsConsistent`,
  `CacheKeepsMostRecent`, `NeverFalselyRejected`, `LimitHoldsUndisturbed`. The
  cache is consistent together with its types (`CacheInv`). It keeps the most
  recent keys because a use moves the key to the front of both lists, and a new
  key either was never used or lies behind a full cache (`MostRecent`).
  `NoFalseReject` needs `RejectInv`: every finished or running
  check has its own number (`Numbered`), so the entries of `log` are distinct,
  and every record, in the cache or copied out of it, is *backed*: at least
  `min(count, Threshold)` admitted entries of the log lie in its window
  (`CountersBacked`). A stale record that is written back is still backed,
  because the log only grows. The other direction, that the limit holds, needs
  `Calm`: while nothing disturbs the checks there is one at a time, it works with
  the record of the cache (`OneAtATime`), every other window of a call site
  ended before that of its counter (`InOldWindows`), and a counter has counted
  every write admitted in its window (`AllCounted`).
* `TransportProofs`: `TypeCorrect`, `EventsHaveOneFate`, `EventsAreSentOnce`,
  `TransportImplementsOutbox`, `RetriesKeepOrder`. The inductive invariant says
  where the event of each call is, at each program counter: a thread that drains
  owns the mutex and its `data` is the front of the list; an event that is still
  in `SendData` is nowhere else; list and `sent` have no duplicates. For the
  order, the list is the end of the history of failures, and all that precedes
  it was sent or dropped (`Order`).
* `ListenerManagerProofs`: `TypeCorrect` unconditionally;
  `NoRegistrationOrphaned`, `AdditionsAreTrue` and `RemovalsAreTrue` under the
  assumption that a running service does not fail to remove (without it
  `listener_refused` is a counterexample). The invariant ties program counters
  to the mutex (`Control`), to the base listener and stub of the call (`Calls`),
  and handles to the running service (`Alive`).
* `WatcherManagerProofs`: `TypeCorrect` unconditionally; `NoWatcherOrphaned`,
  `AdditionsAreTrue` and `RemovalsAreTrue` if moreover no watcher is added twice
  (`~ReAdds`; without it `watcher_twice` is a counterexample). `Add` works
  without the mutex, so the invariant says what it owns instead: its base
  listener is stored nowhere and in no other call (`Owners`), nobody else adds
  the same watcher, and the entry it will overwrite is not registered
  (`OneAdder`). A stored watcher is registered only if `Add` said so and nobody
  is removing it (`StoredSaid`), which is what makes a second registration
  impossible; a failed call has a stub the service does not know (`Handles`).
* `EventWriterProofs`: `ReturnCodeIsTrue`, `TypeCorrect`, `EventIsItsParts`. For
  the return code the invariant adds to `ResultIsTrue` the fields of the event
  (`Shape`) and what holds between the parameters (`Running`): the code is not
  negative, and as long as it is 0 and memory lasts every parameter given so far
  is kept with all its values. Empty data is refused by the transport, so what it
  sends is never empty. `TypeCorrect` and `EventIsItsParts` share `Layout`: the
  bytes are what the encoder makes of the parameters kept so far (`Written`), and
  what was sent is the header, the parameters in order and the length of all of
  it (`SentIsItsParts`), with no byte lost when a step fails and the rest goes
  on. The lemmas below it say that the encoders, which are recursive functions,
  yield bytes, and how folds and `FlattenSeq` grow by one element.
* `EventReaderProofs`: `EventReadsBack`, `EventWithinLimits`, from `Layout` and
  the invariant of `ReturnCodeIsTrue`. Each reader is shown to be the inverse of
  one encoder, wherever its bytes lie in the data and whatever follows them
  (`Holds`): the varint with its tagged first byte and its rest, the signed number
  in the width of `uint64_t`, the escaped text without the characters JSON leaves
  out, the key and the type. Items in a row are read one by one (`InOrder`), as
  each ends where the next begins; values make a parameter, parameters the body.
  The header is read through its padding: a valid name has no zero, so the first
  one ends it. After an encoding that stopped half way, still the header and the
  number of parameters are right, because a partial parameter is not counted.
  That names are well formed follows from the automaton of `StringFilter`, which
  accepts nothing but a letter followed by letters, digits and underscores.
* `BindingsProofs`: `MapsStaySound`, `TypeCorrect`, `CallbacksRunInOrder`,
  `FinalRunsLast`, `StructStaysSafe`, `StructIsReclaimed`, `AniRunsInOrder`.
  The bindings share no state, and each has its own invariant. A JS watcher
  belongs to the thread that added it (`JOwnsItem`), so no other thread erases
  the entry whose iterator a thread keeps, and what is about to be stored is
  registered (`JStoresRegistered`). For the JS callback manager `Inv` says
  that while deliveries do not overlap at most one is in charge of the queue:
  a thread inside `ImmediateRun`, the work on the uv loop, or the JS thread
  behind it (`OneInCharge`); nobody is while `inCalling` is false
  (`NotCalling`). Whoever is in charge is about to run `added[Len(ran) + 1]`,
  and the number of callbacks that left the queue lags behind `ran` by one
  exactly while the JS thread has not removed the front (`AdderInCharge`,
  `WorkInCharge`, `LoopInCharge`). Failures and the destruction of the owner
  may happen anywhere. The status of the Rust struct says how many of the two
  parties have given it up (`RParties`); the rest of `RInv` says who holds the
  listener at each program counter, so that a party that uses the struct has
  not given it up yet. The ArkTS callback manager runs in order because a
  callback is in exactly one place, in the order of the additions: it has run,
  it is in the hands of the event handler's thread, or it is still in the
  queue.
* `ConversionsProofs`: `RecordsReadTrue`, `CRecordsAreComplete`,
  `ObjectsShowTheJson`, `EasyEventsAreIntact`, `RustNamesReachTheLibrary`,
  `ScriptsValuesAreKept`. Every conversion is a call that
  stands alone, so the invariants follow from what the functions return for
  every argument the assumptions allow. `RecordsReadTrue` goes through the
  getters of the record one by one; `CRecordsAreComplete` through the order in which the copy gives up: what
  has been copied when a later copy fails is freed, and the fields that are read
  stay complete. `ObjectsShowTheJson` goes from the items of a JSON value
  (`ItemShows`) to values (`ValueShows`) and members: the JS object has those that
  have a value, and of the ArkTS object the last of them is the value; the double
  nearest to a whole number is at most one whole number away (`NearestIsNear`).
  `EasyEventsAreIntact` shows that the
  easy writer sends an event only when all its parts were written within the
  limit, for any integer as the type. For `RustNamesReachTheLibrary` the loop of `SplitStringToArray` is
  followed over the joined text: behind the first `k` names, `k - 1` of them are
  taken and the slice holds the last (`NamesFound`), because a name has no bar
  (`SliceGrows`) and a slice that is a name is taken (`GoodTaken`); the text of
  as many and as long names as a rule may have fits the array (`TogetherFits`,
  `RuleFits`). What is read of an array begins with the text that was copied
  into it, as long as the text has no NUL (`ReadBegins`), and ends behind it if
  a NUL follows (`StoredRead`), which in a watch rule is one of the zeros of Rust
  (`WatchedRead`). For `ScriptsValuesAreKept` every value makes a parameter that
  holds it (`ValueHeld`, by type: `NumbersHeld`, `BigIntsHeld`, `TextsHeld`,
  `FlagsHeld`, `OneHeld`): a number that `Lossy` does not name lies in the range
  of each cast the code makes of it (`ItemsKept`, `FloatingCases`, `WrapKept`,
  and `DoubleKept` for the doubles a whole array is turned into), and a text is
  cut at its first NUL or at the end of the buffer, behind the limit (`TextKept`).
  There is a parameter for exactly the values that count as written, so the same
  properties are kept; ArkTS can use what counts as written (`UsableWritten`), and
  stops at the first value it cannot use.

The provers cannot instantiate the library's second-order induction theorems.
Where a proof needs induction over data it goes through the least element of a
set of naturals (`LeastNatural`, `SetInduction`), and a recursive function is
shown to exist as the union of its initial segments (`RecursionExists` and the
lemmas before it).

What the proofs assume of the constants beyond their types is true of the code
and evaluated in every run: `RawDataAssumption` relates the powers of two of the
encoder and of the width of `uint64_t` to each other; `WriterAssumption` says
which values a parameter of each type holds, a signed one those of `int64_t`;
`JsonAssumption` that JSON values have one kind each and the fields of it;
`WidthAssumption` that a width is a positive number of bits; `BatchAssumption`
and `EasyAssumption` type the batches and the calls of the easy writer;
`JsValuesAssumption` says which values a script has: a number is a double, the
elements of an array are no arrays, and the text limit is below the buffer
(10 KB of 11 KB in `napi_hisysevent_util.cpp`); `RustNamesAssumption` that a rule
has a name, that the texts have no NUL (`CString::new` refuses them), that what
memory held is at least as long as an array, and that its array is long enough for as many names as it may have
with the bars between them (339 = 10 * 33 + 9 in `sys_event_manager.rs`);
`AniAssumption` that a callback is not the absence of one.

The proof of `RecordsReadTrue` found an error of the model that the runs had not:
`Truncated`, the conversion of a negative double to an integer, rounded down
instead of towards zero, because `-2 * (-h \div 2)` does not mean what it was
written for. It is corrected.

Only model-checked: liveness (`EveryCallReturns`, `EveryCallbackRuns`,
`QueueAdvances`, `JsQueryCompletes`, `ToolEnds`), which the prover does not do
under fairness. Every invariant that a passing run checks is a theorem. The
runs that expect a violation are counterexamples and have nothing to prove.

## 5. What is left

* The flat JSON parser and the JSON decorator of the command line tool, as
  algorithms against a reference definition.
* `Export` and `Subscribe`: the service's answer creates directories and files,
  whose interplay with the caller the repository does not show.

## 6. Not modelled

Parcel marshalling (`sys_event_rule.cpp`, `query_argument.cpp`,
`sys_event_query_rule.cpp`), shared memory transfer (`ash_mem_utils.cpp`), the
choice of the event socket, the parsing of rules and query arguments of the JS
and ArkTS interfaces, logging, and the hash of the call site: they copy or look
up fields and keep no state that steps could disturb. `Export`, `Subscribe` and
`Unsubscribe` pass their arguments on. JSON parsing is the library's. The
output of the tool, with its decorator and flat JSON parser, is formatting. The
hiview daemon and the service are not in the repository; but for `EventReader`
they appear as the environment, with the behaviour the code expects and the
failures it handles. Memory safety of objects that outlive their owners is
modelled in `RustWrapper`, and elsewhere only as far as the flags of the code go
(`Release` in `JsCallbackManager`).

## 7. Running

    tlc -workers 2 -config wc_threads.cfg MCWriteController
    tlapm WriteControllerProofs.tla

Each run of `PROJECT.json` names its module and configuration in the same way.
