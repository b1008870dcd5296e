------------------------------ MODULE Transport ------------------------------
(***************************************************************************)
(* Transport, the process-wide singleton that hands encoded events to the  *)
(* datagram sockets of the hiview daemon.  SendData first tries to get rid *)
(* of the events that failed earlier, while it holds the mutex, then makes *)
(* up to RETRY_TIMES attempts for its own event without the mutex, and at  *)
(* last puts the event on the list of failed events.                       *)
(*                                                                         *)
(* Every attempt is a new socket; sendto is repeated only for the errors   *)
(* EAGAIN, EWOULDBLOCK and EINTR.  The daemon and the kernel are the       *)
(* environment: a call may succeed, fail for good or fail for now.         *)
(***************************************************************************)
EXTENDS Integers, Sequences, FiniteSets

CONSTANTS
  Threads,            (* threads that write events                          *)
  Events,             (* encoded events, one for each call of SendData      *)
  Length,             (* GetDataLength of each event                        *)
  MAX_DATA_SIZE,
  RETRY_QUEUE_SIZE,
  RETRY_TIMES,
  NoEvent,            (* no event                                           *)
  NoThread            (* nobody holds the mutex                             *)

SUCCESS == 0
ERR_DOES_NOT_INIT == -3
ERR_OVER_SIZE == -4
ERR_SEND_FAIL == -5
ERR_EMPTY_EVENT == -8
NotReturned == 99    (* SendData has not returned for the event             *)

SendCodes == {SUCCESS, ERR_DOES_NOT_INIT, ERR_SEND_FAIL}
ResultCodes == SendCodes \cup {ERR_OVER_SIZE, ERR_EMPTY_EVENT, NotReturned}

ASSUME TransportAssumption ==
  /\ Length \in [Events -> Nat]
  /\ MAX_DATA_SIZE \in Nat
  /\ RETRY_QUEUE_SIZE \in Nat \ {0}
  /\ RETRY_TIMES \in Nat \ {0}
  /\ NoEvent \notin Events
  /\ NoThread \notin Threads

VARIABLES
  pc,             (* where each thread is inside SendData                   *)
  event,          (* the rawData argument of each thread's SendData         *)
  data,           (* the rawData argument of SendToHiSysEventDataSource     *)
  tryTimes,       (* attempts SendData has left                             *)
  retryTimes,     (* sendto calls SendToHiSysEventDataSource has left       *)
  retCode,        (* result of the last attempt of each thread              *)
  mutex,          (* owner of mutex_                                        *)
  retryDataList,  (* retryDataList_                                         *)
  result,         (* history: what SendData returned for each event         *)
  sent,           (* history: events a socket took, in order                *)
  failed,         (* history: events AddFailedData put on the list          *)
  dropped         (* history: events AddFailedData took off a full list     *)

locals == <<event, data, tryTimes, retryTimes, retCode>>
history == <<result, sent, failed, dropped>>
vars == <<pc, event, data, tryTimes, retryTimes, retCode, mutex, retryDataList,
          result, sent, failed, dropped>>

Goto(t, label) == pc' = [pc EXCEPT ![t] = label]

(* The locals of SendToHiSysEventDataSource end with the attempt.          *)
EndAttempt(t) ==
  /\ data' = [data EXCEPT ![t] = NoEvent]
  /\ retryTimes' = [retryTimes EXCEPT ![t] = 0]

(* SendData returns code for the event of thread t; its locals end.        *)
Return(t, code) ==
  /\ Goto(t, "idle")
  /\ result' = [result EXCEPT ![event[t]] = code]
  /\ event' = [event EXCEPT ![t] = NoEvent]
  /\ tryTimes' = [tryTimes EXCEPT ![t] = 0]
  /\ retCode' = [retCode EXCEPT ![t] = SUCCESS]
-----------------------------------------------------------------------------
(* SendData is called; a call that fails the two checks returns at once.   *)
SendData(t, e) ==
  /\ pc[t] = "idle"
  /\ result[e] = NotReturned
  /\ \A u \in Threads : event[u] # e
  /\ IF Length[e] = 0 \/ Length[e] > MAX_DATA_SIZE
     THEN /\ result' = [result EXCEPT ![e] =
                          IF Length[e] = 0 THEN ERR_EMPTY_EVENT ELSE ERR_OVER_SIZE]
          /\ UNCHANGED <<pc, event>>
     ELSE /\ Goto(t, "lock")
          /\ event' = [event EXCEPT ![t] = e]
          /\ UNCHANGED result
  /\ UNCHANGED <<data, tryTimes, retryTimes, retCode, mutex, retryDataList, sent, failed, dropped>>

(* RetrySendFailedData takes the mutex.                                    *)
RetrySendFailedData(t) ==
  /\ pc[t] = "lock"
  /\ mutex = NoThread
  /\ mutex' = t
  /\ Goto(t, "drain")
  /\ UNCHANGED <<locals, retryDataList, history>>

(* RetrySendFailedData is left, the mutex with it; SendData goes on with   *)
(* its own event.                                                          *)
LeaveRetry(t) ==
  /\ mutex' = NoThread
  /\ Goto(t, "try")
  /\ tryTimes' = [tryTimes EXCEPT ![t] = RETRY_TIMES]
  /\ retCode' = [retCode EXCEPT ![t] = SUCCESS]

(* One round of its loop: the oldest failed event is tried again.          *)
RetryFront(t) ==
  /\ pc[t] = "drain"
  /\ IF retryDataList = <<>>
     THEN /\ LeaveRetry(t)
          /\ UNCHANGED data
     ELSE /\ data' = [data EXCEPT ![t] = Head(retryDataList)]
          /\ Goto(t, "socket")
          /\ UNCHANGED <<mutex, tryTimes, retCode>>
  /\ UNCHANGED <<event, retryTimes, retryDataList, history>>

(* Mutant of Try: the attempts are not counted.                            *)
TryForever(t) ==
  /\ pc[t] = "try"
  /\ data' = [data EXCEPT ![t] = event[t]]
  /\ Goto(t, "socket")
  /\ UNCHANGED <<event, tryTimes, retryTimes, retCode, mutex, retryDataList, history>>

(* One round of the loop of SendData: another attempt, or none is left.    *)
Try(t) ==
  /\ pc[t] = "try"
  /\ IF tryTimes[t] > 0
     THEN /\ tryTimes' = [tryTimes EXCEPT ![t] = @ - 1]
          /\ data' = [data EXCEPT ![t] = event[t]]
          /\ Goto(t, "socket")
     ELSE /\ Goto(t, "addFailed")
          /\ UNCHANGED <<tryTimes, data>>
  /\ UNCHANGED <<event, retryTimes, retCode, mutex, retryDataList, history>>

(* SendToHiSysEventDataSource fails with code, and its caller goes on.     *)
AttemptFails(t, code) ==
  /\ EndAttempt(t)
  /\ IF mutex = t
     THEN LeaveRetry(t)
     ELSE /\ retCode' = [retCode EXCEPT ![t] = code]
          /\ Goto(t, "try")
          /\ UNCHANGED <<mutex, tryTimes>>
  /\ UNCHANGED <<event, retryDataList, history>>

(* SendToHiSysEventDataSource: socket, and the options set on it.          *)
OpenSocket(t) ==
  /\ pc[t] = "socket"
  /\ \/ /\ retryTimes' = [retryTimes EXCEPT ![t] = RETRY_TIMES]
        /\ Goto(t, "sendto")
        /\ UNCHANGED <<event, data, tryTimes, retCode, mutex, retryDataList, history>>
     \/ AttemptFails(t, ERR_DOES_NOT_INIT)

(* Mutant of SendtoSucceeds: a retried event stays on the list.            *)
SendtoSucceedsKeepsFront(t) ==
  /\ pc[t] = "sendto"
  /\ sent' = Append(sent, data[t])
  /\ EndAttempt(t)
  /\ IF mutex = t
     THEN /\ Goto(t, "drain")
          /\ UNCHANGED <<event, tryTimes, retCode, result>>
     ELSE Return(t, SUCCESS)
  /\ UNCHANGED <<mutex, retryDataList, failed, dropped>>

(* sendto succeeds: a retried event leaves the list, an own event is done. *)
SendtoSucceeds(t) ==
  /\ pc[t] = "sendto"
  /\ sent' = Append(sent, data[t])
  /\ EndAttempt(t)
  /\ IF mutex = t
     THEN /\ retryDataList' = Tail(retryDataList)
          /\ Goto(t, "drain")
          /\ UNCHANGED <<event, tryTimes, retCode, result>>
     ELSE /\ Return(t, SUCCESS)
          /\ UNCHANGED retryDataList
  /\ UNCHANGED <<mutex, failed, dropped>>

(* sendto fails: an error that may pass is retried on the same socket, any *)
(* other error, or the last failure, ends the attempt.                     *)
SendtoFails(t) ==
  /\ pc[t] = "sendto"
  /\ \/ /\ retryTimes[t] > 1
        /\ retryTimes' = [retryTimes EXCEPT ![t] = @ - 1]
        /\ UNCHANGED <<pc, event, data, tryTimes, retCode, mutex, retryDataList, history>>
     \/ AttemptFails(t, ERR_SEND_FAIL)

(* What every variant of AddFailedData does around the list.               *)
FailedDataAdded(t) ==
  /\ pc[t] = "addFailed"
  /\ failed' = Append(failed, event[t])
  /\ Return(t, retCode[t])
  /\ UNCHANGED <<data, retryTimes, mutex, sent>>

(* Mutant of AddFailedData: the list may grow one beyond its limit.        *)
AddFailedDataOneMore(t) ==
  /\ FailedDataAdded(t)
  /\ mutex = NoThread
  /\ IF Len(retryDataList) > RETRY_QUEUE_SIZE
     THEN /\ retryDataList' = Append(Tail(retryDataList), event[t])
          /\ dropped' = dropped \cup {Head(retryDataList)}
     ELSE /\ retryDataList' = Append(retryDataList, event[t])
          /\ UNCHANGED dropped

(* Mutant of AddFailedData: it does not take the mutex.                    *)
AddFailedDataUnlocked(t) ==
  /\ FailedDataAdded(t)
  /\ IF Len(retryDataList) >= RETRY_QUEUE_SIZE
     THEN /\ retryDataList' = Append(Tail(retryDataList), event[t])
          /\ dropped' = dropped \cup {Head(retryDataList)}
     ELSE /\ retryDataList' = Append(retryDataList, event[t])
          /\ UNCHANGED dropped

(* Mutant of AddFailedData: a failed event goes to the front of the list.  *)
AddFailedDataInFront(t) ==
  /\ FailedDataAdded(t)
  /\ mutex = NoThread
  /\ IF Len(retryDataList) >= RETRY_QUEUE_SIZE
     THEN /\ retryDataList' = <<event[t]>> \o Tail(retryDataList)
          /\ dropped' = dropped \cup {Head(retryDataList)}
     ELSE /\ retryDataList' = <<event[t]>> \o retryDataList
          /\ UNCHANGED dropped

(* Mutant of AddFailedData: a full list turns the new event away.          *)
AddFailedDataDropsNew(t) ==
  /\ FailedDataAdded(t)
  /\ mutex = NoThread
  /\ IF Len(retryDataList) >= RETRY_QUEUE_SIZE
     THEN /\ dropped' = dropped \cup {event[t]}
          /\ UNCHANGED retryDataList
     ELSE /\ retryDataList' = Append(retryDataList, event[t])
          /\ UNCHANGED dropped

(* AddFailedData: the event joins the list, the oldest leaves a full one.  *)
AddFailedData(t) ==
  /\ pc[t] = "addFailed"
  /\ mutex = NoThread
  /\ IF Len(retryDataList) >= RETRY_QUEUE_SIZE
     THEN /\ retryDataList' = Append(Tail(retryDataList), event[t])
          /\ dropped' = dropped \cup {Head(retryDataList)}
     ELSE /\ retryDataList' = Append(retryDataList, event[t])
          /\ UNCHANGED dropped
  /\ failed' = Append(failed, event[t])
  /\ Return(t, retCode[t])
  /\ UNCHANGED <<data, retryTimes, mutex, sent>>
-----------------------------------------------------------------------------
Init ==
  /\ pc = [t \in Threads |-> "idle"]
  /\ event = [t \in Threads |-> NoEvent]
  /\ data = [t \in Threads |-> NoEvent]
  /\ tryTimes = [t \in Threads |-> 0]
  /\ retryTimes = [t \in Threads |-> 0]
  /\ retCode = [t \in Threads |-> SUCCESS]
  /\ mutex = NoThread
  /\ retryDataList = <<>>
  /\ result = [e \in Events |-> NotReturned]
  /\ sent = <<>>
  /\ failed = <<>>
  /\ dropped = {}

(* The steps of a call of SendData that has begun.                         *)
Step(t) ==
  \/ RetrySendFailedData(t)
  \/ RetryFront(t)
  \/ Try(t)
  \/ OpenSocket(t)
  \/ SendtoSucceeds(t)
  \/ SendtoFails(t)
  \/ AddFailedData(t)

Next == \E t \in Threads : Step(t) \/ \E e \in Events : SendData(t, e)

Spec == Init /\ [][Next]_vars

(* A thread inside SendData keeps running when it can.                     *)
FairSpec == Spec /\ \A t \in Threads : WF_vars(Step(t))
-----------------------------------------------------------------------------
ElementsOf(s) == {s[i] : i \in 1..Len(s)}

Distinct(s) == \A i, j \in 1..Len(s) : s[i] = s[j] => i = j

Labels == {"idle", "lock", "drain", "try", "socket", "sendto", "addFailed"}

TypeOK ==
  /\ pc \in [Threads -> Labels]
  /\ event \in [Threads -> Events \cup {NoEvent}]
  /\ data \in [Threads -> Events \cup {NoEvent}]
  /\ tryTimes \in [Threads -> 0..RETRY_TIMES]
  /\ retryTimes \in [Threads -> 0..RETRY_TIMES]
  /\ retCode \in [Threads -> SendCodes]
  /\ mutex \in Threads \cup {NoThread}
  /\ retryDataList \in Seq(Events)
  /\ Len(retryDataList) <= RETRY_QUEUE_SIZE
  /\ result \in [Events -> ResultCodes]
  /\ sent \in Seq(Events)
  /\ failed \in Seq(Events)
  /\ dropped \subseteq Events

(* Where an event may be once SendData has returned code for it.           *)
Fate(code, waiting, arrived, gone) ==
  /\ code = SUCCESS => arrived /\ ~waiting /\ ~gone
  /\ code \in {ERR_DOES_NOT_INIT, ERR_SEND_FAIL} =>
       /\ waiting \/ arrived \/ gone
       /\ ~(waiting /\ arrived) /\ ~(waiting /\ gone) /\ ~(arrived /\ gone)
  /\ code \in {ERR_EMPTY_EVENT, ERR_OVER_SIZE, NotReturned} =>
       ~waiting /\ ~arrived /\ ~gone

(***************************************************************************)
(* No event is lost or duplicated, whatever threads and attempts do: after *)
(* SUCCESS the socket has it and nobody will send it again; after a failed *)
(* send it is waiting, or was sent by a later call, or gave way to a newer *)
(* event, exactly one of the three; a refused event is nowhere.            *)
(***************************************************************************)
OneFate ==
  \A e \in Events :
    Fate(result[e], e \in ElementsOf(retryDataList), e \in ElementsOf(sent), e \in dropped)

(* No event reaches the daemon's socket twice.                             *)
SentOnce == Distinct(sent)

(***************************************************************************)
(* Failed events are sent again in the order in which they failed: when an *)
(* event that failed later has been sent, each one that failed before it   *)
(* was sent before it or was dropped.                                      *)
(***************************************************************************)
RetriedInOrder ==
  \A i, j \in 1..Len(failed) : i < j =>
    \A n \in 1..Len(sent) : sent[n] = failed[j] =>
      \/ failed[i] \in dropped
      \/ \E m \in 1..(n - 1) : sent[m] = failed[i]

(* The transport is an implementation of the outbox.                       *)
Outbox == INSTANCE EventOutbox WITH
  MaxHeld <- RETRY_QUEUE_SIZE, held <- retryDataList, accepted <- sent, discarded <- dropped

(***************************************************************************)
(* Every behaviour of the transport is one of the outbox: threads that     *)
(* race in SendData never make the list, the socket and the discarded      *)
(* events change in a way the outbox does not allow.                       *)
(***************************************************************************)
ImplementsOutbox == Outbox!OutboxSpec

(***************************************************************************)
(* Every call of SendData returns: the bounded attempts of all threads     *)
(* come to an end and nobody waits for the mutex forever.                  *)
(***************************************************************************)
EveryCallReturns == \A t \in Threads : pc[t] # "idle" ~> pc[t] = "idle"
=============================================================================
