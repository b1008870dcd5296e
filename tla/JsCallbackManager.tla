--------------------------- MODULE JsCallbackManager ---------------------------
(***************************************************************************)
(* JsCallbackManager: how the events and query results that arrive on IPC  *)
(* threads reach the JS thread, one callback at a time.  Every listener    *)
(* and every querier owns one manager and one CallbackContext.             *)
(*                                                                         *)
(* Add puts a callback into the queue and, if none is being called, starts *)
(* ImmediateRun, which takes the front of the queue without removing it,   *)
(* writes it into the context and submits a work to the uv loop.  On the   *)
(* JS thread the work calls what the context holds; its release function   *)
(* runs ImmediateRun again, which now removes the front first.             *)
(*                                                                         *)
(* The flag inCalling is read under managerMutex and set outside it.  A    *)
(* section under the mutex is one step here.                               *)
(***************************************************************************)
EXTENDS Integers, Sequences

CONSTANTS
  Adders,       (* IPC threads that deliver events and query results        *)
  Loop,         (* the JS thread                                            *)
  Callbacks,    (* callbacks, one for each call of Add                      *)
  Finals,       (* those with a release function: OnComplete of a querier   *)
  Failures,     (* the loop, memory or the handle scope may be missing      *)
  NoCallback    (* no callback                                              *)

ASSUME CallbackAssumption ==
  /\ Loop \notin Adders
  /\ Finals \subseteq Callbacks
  /\ Failures \in BOOLEAN
  /\ NoCallback \notin Callbacks

Users == Adders \cup {Loop}

VARIABLES
  jsCallbacks,  (* the queue                                                *)
  inCalling,    (* std::atomic<bool> inCalling                              *)
  isReleased,   (* std::atomic<bool> IsReleased; the context is deleted too *)
  pc,           (* where each thread is                                     *)
  arg,          (* the callback each thread adds                            *)
  current,      (* local of ImmediateRun                                    *)
  context,      (* the callback and release function in the context         *)
  works,        (* works submitted to the uv loop                           *)
  added,        (* history: callbacks put into the queue, in order          *)
  ran,          (* history: callbacks called on the JS thread, in order     *)
  overlapped,   (* history: two threads were inside Add at the same time    *)
  failed        (* history: a callback was not called for lack of a loop,   *)
                (* of memory or of a handle scope                           *)

vars == <<jsCallbacks, inCalling, isReleased, pc, arg, current, context, works, added, ran,
          overlapped, failed>>

ghosts == <<overlapped, failed>>

ElementsOf(s) == {s[i] : i \in 1..Len(s)}

Goto(u, label) == pc' = [pc EXCEPT ![u] = label]

(* ImmediateRun returns; its locals end.                                   *)
Return(u) ==
  /\ Goto(u, "idle")
  /\ current' = [current EXCEPT ![u] = NoCallback]
-----------------------------------------------------------------------------
(* Add is called; it returns at once after Release.                        *)
Add(t, c) ==
  /\ pc[t] = "idle"
  /\ c \notin ElementsOf(added)
  /\ \A u \in Adders : arg[u] # c
  /\ ~isReleased
  /\ Goto(t, "emplace")
  /\ arg' = [arg EXCEPT ![t] = c]
  /\ overlapped' = (overlapped \/ \E u \in Adders : pc[u] # "idle")
  /\ UNCHANGED <<jsCallbacks, inCalling, isReleased, current, context, works, added, ran, failed>>

(* Add under the mutex: the callback joins the queue, and the thread goes  *)
(* on to ImmediateRun unless a callback is being called.                   *)
Emplace(t) ==
  /\ pc[t] = "emplace"
  /\ jsCallbacks' = Append(jsCallbacks, arg[t])
  /\ added' = Append(added, arg[t])
  /\ Goto(t, IF inCalling THEN "idle" ELSE "run")
  /\ arg' = [arg EXCEPT ![t] = NoCallback]
  /\ UNCHANGED <<inCalling, isReleased, current, context, works, ran, ghosts>>

(* ImmediateRun up to the mutex.                                           *)
ImmediateRun(u) ==
  /\ pc[u] = "run"
  /\ inCalling' = TRUE
  /\ Goto(u, IF isReleased THEN "idle" ELSE "pick")
  /\ UNCHANGED <<jsCallbacks, isReleased, arg, current, context, works, added, ran, ghosts>>

(* Mutant of Pick: the callback that was called is not removed.            *)
PickKeepsFront(u) ==
  /\ pc[u] = "pick"
  /\ IF isReleased \/ jsCallbacks = <<>>
     THEN /\ inCalling' = FALSE
          /\ Return(u)
     ELSE /\ current' = [current EXCEPT ![u] = Head(jsCallbacks)]
          /\ Goto(u, "context")
          /\ UNCHANGED inCalling
  /\ UNCHANGED <<jsCallbacks, isReleased, arg, context, works, added, ran, ghosts>>

(* What ImmediateRun leaves of the queue: the JS thread comes with needPop. *)
Rest(u) == IF u = Loop /\ jsCallbacks # <<>> THEN Tail(jsCallbacks) ELSE jsCallbacks

(* Mutant of Pick: an empty queue does not end the calling.                *)
PickKeepsCalling(u) ==
  /\ pc[u] = "pick"
  /\ jsCallbacks' = Rest(u)
  /\ IF isReleased \/ Rest(u) = <<>>
     THEN Return(u)
     ELSE /\ current' = [current EXCEPT ![u] = Head(Rest(u))]
          /\ Goto(u, "context")
  /\ UNCHANGED <<inCalling, isReleased, arg, context, works, added, ran, ghosts>>

(* Mutant of Pick: the queue is not checked to be empty.                   *)
PickFromEmpty(u) ==
  /\ pc[u] = "pick"
  /\ jsCallbacks' = Rest(u)
  /\ current' = [current EXCEPT ![u] = IF Rest(u) = <<>> THEN NoCallback ELSE Head(Rest(u))]
  /\ Goto(u, "context")
  /\ UNCHANGED <<inCalling, isReleased, arg, context, works, added, ran, ghosts>>

(* ImmediateRun under the mutex: the callback to call next, if any.        *)
Pick(u) ==
  /\ pc[u] = "pick"
  /\ jsCallbacks' = Rest(u)
  /\ IF isReleased \/ Rest(u) = <<>>
     THEN /\ inCalling' = FALSE
          /\ Return(u)
     ELSE /\ current' = [current EXCEPT ![u] = Head(Rest(u))]
          /\ Goto(u, "context")
          /\ UNCHANGED inCalling
  /\ UNCHANGED <<isReleased, arg, context, works, added, ran, ghosts>>

(* RunCallback writes the callback into the context of the owner, unless   *)
(* the manager is released or there is no uv loop.                         *)
RunCallback(u) ==
  /\ pc[u] = "context"
  /\ \/ /\ isReleased \/ Failures
        /\ failed' = TRUE
        /\ Return(u)
        /\ UNCHANGED context
     \/ /\ ~isReleased
        /\ context' = current[u]
        /\ Goto(u, "submit")
        /\ UNCHANGED <<current, failed>>
  /\ UNCHANGED <<jsCallbacks, inCalling, isReleased, arg, works, added, ran, overlapped>>

(* RunCallback submits a work to the loop, unless memory is out.           *)
QueueWork(u) ==
  /\ pc[u] = "submit"
  /\ \/ works' = works + 1 /\ UNCHANGED failed
     \/ Failures /\ failed' = TRUE /\ UNCHANGED works
  /\ Return(u)
  /\ UNCHANGED <<jsCallbacks, inCalling, isReleased, arg, context, added, ran, overlapped>>

(* The work on the JS thread: it calls what the context holds now.  There  *)
(* may be no handle scope, or no context any more after Release.           *)
Work ==
  /\ pc[Loop] = "idle"
  /\ works > 0
  /\ works' = works - 1
  /\ \/ /\ ran' = Append(ran, context)
        /\ Goto(Loop, "release")
        /\ UNCHANGED failed
     \/ /\ Failures \/ isReleased
        /\ failed' = TRUE
        /\ UNCHANGED <<ran, pc>>
  /\ UNCHANGED <<jsCallbacks, inCalling, isReleased, arg, current, context, added, overlapped>>

(* Release, from the destructor of the owner.                              *)
ReleaseManager ==
  /\ isReleased' = TRUE
  /\ jsCallbacks' = <<>>

(* Mutant of CallRelease: the next callback is called in any case.         *)
CallReleaseRunsNext ==
  /\ pc[Loop] = "release"
  /\ Goto(Loop, "run")
  /\ UNCHANGED <<jsCallbacks, inCalling, isReleased, arg, current, context, works, added, ran, ghosts>>

(* The release function of the callback that was called: it runs the next  *)
(* one, or, after OnComplete, lets go of the querier, which is destroyed   *)
(* unless somebody else still refers to it.                                *)
CallRelease ==
  /\ pc[Loop] = "release"
  /\ \/ /\ context \notin Finals
        /\ Goto(Loop, "run")
        /\ UNCHANGED <<isReleased, jsCallbacks>>
     \/ /\ context \in Finals
        /\ Goto(Loop, "idle")
        /\ \/ ReleaseManager /\ \A t \in Adders : pc[t] = "idle"
           \/ UNCHANGED <<isReleased, jsCallbacks>>
  /\ UNCHANGED <<inCalling, arg, current, context, works, added, ran, ghosts>>

(* The owner is destroyed, by the thread that drops the last reference; a  *)
(* thread inside Add holds one.                                            *)
Release ==
  /\ ~isReleased
  /\ \A t \in Adders : pc[t] = "idle"
  /\ ReleaseManager
  /\ UNCHANGED <<inCalling, pc, arg, current, context, works, added, ran, ghosts>>
-----------------------------------------------------------------------------
Init ==
  /\ jsCallbacks = <<>>
  /\ inCalling = FALSE
  /\ isReleased = FALSE
  /\ pc = [u \in Users |-> "idle"]
  /\ arg = [t \in Adders |-> NoCallback]
  /\ current = [u \in Users |-> NoCallback]
  /\ context = NoCallback
  /\ works = 0
  /\ added = <<>>
  /\ ran = <<>>
  /\ overlapped = FALSE
  /\ failed = FALSE

Running(u) == ImmediateRun(u) \/ Pick(u) \/ RunCallback(u) \/ QueueWork(u)

AdderStep(t) == Emplace(t) \/ Running(t)

LoopStep == Work \/ CallRelease \/ Running(Loop)

Next ==
  \/ \E t \in Adders : AdderStep(t) \/ \E c \in Callbacks : Add(t, c)
  \/ LoopStep
  \/ Release

Spec == Init /\ [][Next]_vars
-----------------------------------------------------------------------------
TypeOK ==
  /\ jsCallbacks \in Seq(Callbacks)
  /\ inCalling \in BOOLEAN
  /\ isReleased \in BOOLEAN
  /\ pc \in [Users -> {"idle", "emplace", "run", "pick", "context", "submit", "release"}]
  /\ arg \in [Adders -> Callbacks \cup {NoCallback}]
  /\ current \in [Users -> Callbacks \cup {NoCallback}]
  /\ \A u \in Users : pc[u] \in {"context", "submit"} => current[u] \in Callbacks
  /\ context \in Callbacks \cup {NoCallback}
  /\ works \in Nat
  /\ added \in Seq(Callbacks)
  /\ ran \in Seq(Callbacks)
  /\ overlapped \in BOOLEAN
  /\ failed \in BOOLEAN

(***************************************************************************)
(* As long as the IPC threads deliver one after the other, the JS thread   *)
(* sees every event at most once, in the order of delivery and without a   *)
(* gap: what it ran is the beginning of what was added.  Neither the flag  *)
(* that is set outside the mutex, nor the context that every callback      *)
(* overwrites, nor a work that is left over when the owner is destroyed,   *)
(* breaks that.                                                            *)
(***************************************************************************)
RanInOrder ==
  ~overlapped =>
    /\ Len(ran) <= Len(added)
    /\ \A i \in 1..Len(ran) : ran[i] = added[i]

(***************************************************************************)
(* OnComplete is the last callback of a querier that runs: its release     *)
(* function destroys the querier, so the queue must not go on behind it.   *)
(***************************************************************************)
NothingAfterFinal ==
  ~overlapped => \A i \in 1..Len(ran) : ran[i] \in Finals => i = Len(ran)

(* The manager has come to its end.                                        *)
Ended == isReleased \/ failed \/ \E i \in 1..Len(ran) : ran[i] \in Finals

(***************************************************************************)
(* No wake-up is lost: a callback that is added while the JS thread finds  *)
(* the queue empty is called in the end, as long as the manager lives and  *)
(* deliveries do not overlap.                                              *)
(***************************************************************************)
EveryCallbackRuns == []<>(ElementsOf(added) \subseteq ElementsOf(ran) \/ Ended \/ overlapped)

(***************************************************************************)
(* Whatever number of threads deliver at the same time, the queue never    *)
(* gets stuck: every callback leaves it as long as the manager lives.      *)
(***************************************************************************)
QueueAdvances == []<>(jsCallbacks = <<>> \/ Ended)
================================================================================
