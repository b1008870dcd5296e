--------------------------- MODULE TransportProofs ---------------------------
(***************************************************************************)
(* Proofs about the transport for any number of threads and events, any    *)
(* list size and any number of attempts: types and the bound of the list,  *)
(* one fate for each event, and the implementation of the outbox.          *)
(***************************************************************************)
EXTENDS Transport, TLAPS

(* What the queue operations of std::list do to the elements.              *)
LEMMA AppendElements ==
  ASSUME NEW S, NEW s \in Seq(S), NEW e \in S
  PROVE  /\ Append(s, e) \in Seq(S)
         /\ Len(Append(s, e)) = Len(s) + 1
         /\ ElementsOf(Append(s, e)) = ElementsOf(s) \cup {e}
         /\ Distinct(s) /\ e \notin ElementsOf(s) => Distinct(Append(s, e))
<1> DEFINE a == Append(s, e)
<1>1. /\ a \in Seq(S) /\ Len(a) = Len(s) + 1 /\ Len(s) \in Nat
      /\ \A i \in 1..Len(s) : a[i] = s[i]
      /\ a[Len(s) + 1] = e
  OBVIOUS
<1>2. ElementsOf(a) = ElementsOf(s) \cup {e}
  <2> HIDE DEF a
  <2>1. ASSUME NEW i \in 1..Len(a) PROVE a[i] \in ElementsOf(s) \cup {e}
    <3>1. i \in 1..Len(s) \/ i = Len(s) + 1
      BY <1>1
    <3> QED BY <1>1, <3>1 DEF ElementsOf
  <2>2. ASSUME NEW i \in 1..Len(s) PROVE s[i] \in ElementsOf(a)
    <3>1. i \in 1..Len(a)
      BY <1>1
    <3> QED BY <1>1, <3>1 DEF ElementsOf
  <2>3. e \in ElementsOf(a)
    <3>1. Len(s) + 1 \in 1..Len(a)
      BY <1>1
    <3> QED BY <1>1, <3>1 DEF ElementsOf
  <2> QED BY <2>1, <2>2, <2>3 DEF ElementsOf
<1>3. ASSUME Distinct(s), e \notin ElementsOf(s) PROVE Distinct(a)
  <2> HIDE DEF a
  <2> SUFFICES ASSUME NEW i \in 1..Len(a), NEW j \in 1..Len(a), a[i] = a[j] PROVE i = j
    BY DEF Distinct
  <2>1. (i \in 1..Len(s) \/ i = Len(s) + 1) /\ (j \in 1..Len(s) \/ j = Len(s) + 1)
    BY <1>1
  <2> QED BY <1>1, <1>3, <2>1 DEF Distinct, ElementsOf
<1> QED BY <1>1, <1>2, <1>3

LEMMA TailElements ==
  ASSUME NEW S, NEW s \in Seq(S), s # <<>>
  PROVE  /\ Tail(s) \in Seq(S)
         /\ Len(Tail(s)) = Len(s) - 1
         /\ Head(s) \in S
         /\ Head(s) \in ElementsOf(s)
         /\ Distinct(s) => Distinct(Tail(s)) /\ ElementsOf(Tail(s)) = ElementsOf(s) \ {Head(s)}
<1> DEFINE u == Tail(s)
<1>1. /\ u \in Seq(S) /\ Len(u) = Len(s) - 1 /\ Len(s) \in Nat \ {0}
      /\ \A i \in 1..Len(u) : u[i] = s[i + 1]
      /\ Head(s) = s[1]
  OBVIOUS
<1>2. Head(s) \in ElementsOf(s) /\ Head(s) \in S
  BY <1>1 DEF ElementsOf
<1>3. ASSUME Distinct(s) PROVE Distinct(u) /\ ElementsOf(u) = ElementsOf(s) \ {Head(s)}
  <2> HIDE DEF u
  <2>1. ASSUME NEW i \in 1..Len(u), NEW j \in 1..Len(u), u[i] = u[j] PROVE i = j
    <3>1. i + 1 \in 1..Len(s) /\ j + 1 \in 1..Len(s)
      BY <1>1
    <3>2. i + 1 = j + 1
      BY <1>1, <1>3, <2>1, <3>1 DEF Distinct
    <3> QED BY <3>2
  <2>2. ASSUME NEW i \in 1..Len(u) PROVE u[i] \in ElementsOf(s) \ {Head(s)}
    <3>1. i + 1 \in 1..Len(s) /\ i + 1 # 1 /\ 1 \in 1..Len(s)
      BY <1>1
    <3>2. s[i + 1] # s[1]
      BY <1>3, <3>1 DEF Distinct
    <3> QED BY <1>1, <3>1, <3>2 DEF ElementsOf
  <2>3. ASSUME NEW i \in 1..Len(s), s[i] # Head(s) PROVE s[i] \in ElementsOf(u)
    <3>1. i # 1
      BY <2>3, <1>1
    <3>2. i - 1 \in 1..Len(u) /\ (i - 1) + 1 = i
      BY <1>1, <3>1
    <3>3. u[i - 1] = s[i]
      BY <1>1, <3>2
    <3> QED BY <3>2, <3>3 DEF ElementsOf
  <2> QED BY <2>1, <2>2, <2>3 DEF ElementsOf, Distinct
<1> QED BY <1>1, <1>2, <1>3
-----------------------------------------------------------------------------
(* The thread that drains the list owns the mutex.                         *)
Ownership ==
  \A t \in Threads :
    /\ mutex = t => pc[t] \in {"drain", "socket", "sendto"}
    /\ pc[t] = "drain" => mutex = t

(* What is being sent: the front of the list under the mutex, or the       *)
(* thread's own event without it.                                          *)
Sending ==
  \A t \in Threads : pc[t] \in {"socket", "sendto"} =>
    IF mutex = t THEN retryDataList # <<>> /\ data[t] = Head(retryDataList)
                 ELSE data[t] = event[t]

(* A running call has an event of its own that no call returned for.       *)
Calls ==
  \A t \in Threads :
    /\ pc[t] = "idle" <=> event[t] = NoEvent
    /\ pc[t] # "idle" => result[event[t]] = NotReturned
    /\ \A u \in Threads : event[t] = event[u] /\ event[t] # NoEvent => t = u

(* A call that gives up has a failed attempt behind it.                    *)
GaveUp ==
  \A t \in Threads :
    /\ pc[t] = "try" /\ tryTimes[t] = 0 => retCode[t] # SUCCESS
    /\ pc[t] = "addFailed" => retCode[t] # SUCCESS


Control == TypeOK /\ Ownership /\ Sending /\ Calls /\ GaveUp
Fates == OneFate /\ SentOnce /\ Distinct(retryDataList)

LEMMA FatesSame ==
  ASSUME Fates, UNCHANGED <<retryDataList, sent, dropped, result>>
  PROVE  Fates'
BY DEF Fates, OneFate, SentOnce, Distinct, ElementsOf

LEMMA FateInvInit == Init => Control /\ Fates
<1> SUFFICES ASSUME Init PROVE Control /\ Fates
  OBVIOUS
<1> USE TransportAssumption
<1>1. TypeOK
  BY DEF Init, TypeOK, Labels, SendCodes, ResultCodes
<1>2. Ownership /\ Sending /\ Calls /\ GaveUp
  BY DEF Init, Ownership, Sending, Calls, GaveUp
<1>3. Fates
  BY DEF Init, Fates, OneFate, Fate, SentOnce, Distinct, ElementsOf, NotReturned, SUCCESS,
         ERR_DOES_NOT_INIT, ERR_SEND_FAIL
<1> QED BY <1>1, <1>2, <1>3 DEF Control

LEMMA SendDataKeeps ==
  ASSUME Control, Fates, NEW t \in Threads, NEW e \in Events, SendData(t, e)
  PROVE  Control' /\ Fates'
<1> USE TransportAssumption
<1>1. CASE Length[e] = 0 \/ Length[e] > MAX_DATA_SIZE
  <2>1. PICK c \in {ERR_EMPTY_EVENT, ERR_OVER_SIZE} : result' = [result EXCEPT ![e] = c]
    BY <1>1 DEF SendData
  <2>2. /\ UNCHANGED <<pc, event, data, tryTimes, retryTimes, retCode, mutex, retryDataList,
                       sent, failed, dropped>>
        /\ \A u \in Threads : event[u] # e
        /\ result[e] = NotReturned
    BY <1>1 DEF SendData
  <2>3. Control'
    BY <2>1, <2>2 DEF Control, TypeOK, Ownership, Sending, Calls, GaveUp, ResultCodes
  <2>4. ElementsOf(retryDataList') = ElementsOf(retryDataList) /\ ElementsOf(sent') = ElementsOf(sent)
    BY <2>2 DEF ElementsOf
  <2>5. \A x \in Events : x # e => result'[x] = result[x]
    BY <2>1 DEF Control, TypeOK
  <2>6. result'[e] \in {ERR_EMPTY_EVENT, ERR_OVER_SIZE}
    BY <2>1 DEF Control, TypeOK
  <2>7. OneFate'
    BY <2>2, <2>4, <2>5, <2>6 DEF Fates, OneFate, Fate, NotReturned, SUCCESS, ERR_DOES_NOT_INIT,
       ERR_SEND_FAIL, ERR_EMPTY_EVENT, ERR_OVER_SIZE
  <2> QED BY <2>2, <2>3, <2>7 DEF Fates, SentOnce, Distinct
<1>2. CASE ~(Length[e] = 0 \/ Length[e] > MAX_DATA_SIZE)
  <2>1. /\ pc' = [pc EXCEPT ![t] = "lock"]
        /\ event' = [event EXCEPT ![t] = e]
        /\ pc[t] = "idle"
        /\ \A u \in Threads : event[u] # e
        /\ result[e] = NotReturned
        /\ UNCHANGED <<data, tryTimes, retryTimes, retCode, mutex, retryDataList, result,
                       sent, failed, dropped>>
    BY <1>2 DEF SendData, Goto
  <2>2. TypeOK'
    BY <2>1 DEF Control, TypeOK, Labels
  <2>3. Ownership' /\ Sending' /\ GaveUp'
    BY <2>1 DEF Control, TypeOK, Ownership, Sending, GaveUp
  <2>4. Calls'
    BY <2>1 DEF Control, TypeOK, Calls
  <2> QED BY <2>1, <2>2, <2>3, <2>4, FatesSame DEF Control
<1> QED BY <1>1, <1>2

(* The steps that only move a thread along.                                *)
LEMMA RetrySendFailedDataKeeps ==
  ASSUME Control, NEW t \in Threads, RetrySendFailedData(t)
  PROVE  Control'
<1> USE TransportAssumption DEF RetrySendFailedData, Goto, Control, locals, history
<1>1. TypeOK'
  BY DEF TypeOK, Labels
<1>2. Ownership' /\ Sending' /\ Calls' /\ GaveUp'
  BY DEF TypeOK, Ownership, Sending, Calls, GaveUp
<1> QED BY <1>1, <1>2

LEMMA LeaveRetryKeeps ==
  ASSUME Control, NEW t \in Threads, mutex = t, LeaveRetry(t),
         data' \in [Threads -> Events \cup {NoEvent}],
         \A u \in Threads \ {t} : data'[u] = data[u],
         retryTimes' \in [Threads -> 0..RETRY_TIMES],
         UNCHANGED <<event, retryDataList, history>>
  PROVE  Control'
<1> USE TransportAssumption
<1>1. /\ pc' = [pc EXCEPT ![t] = "try"]
      /\ tryTimes' = [tryTimes EXCEPT ![t] = RETRY_TIMES]
      /\ retCode' = [retCode EXCEPT ![t] = SUCCESS]
      /\ mutex' = NoThread
      /\ UNCHANGED <<event, retryDataList, result, sent, failed, dropped>>
  BY DEF LeaveRetry, Goto, history
<1>2. TypeOK'
  BY <1>1 DEF Control, TypeOK, Labels, SendCodes
<1>3. Ownership'
  BY <1>1 DEF Control, TypeOK, Ownership
<1>4. Sending'
  BY <1>1 DEF Control, TypeOK, Sending
<1>5. Calls'
  <2>1. pc[t] # "idle" /\ \A u \in Threads : pc'[u] = "idle" <=> pc[u] = "idle"
    BY <1>1 DEF Control, Ownership, TypeOK
  <2> QED BY <1>1, <2>1 DEF Control, Calls
<1>6. GaveUp'
  BY <1>1 DEF Control, TypeOK, GaveUp
<1> QED BY <1>2, <1>3, <1>4, <1>5, <1>6 DEF Control

LEMMA RetryFrontKeeps ==
  ASSUME Control, NEW t \in Threads, RetryFront(t)
  PROVE  Control'
<1>1. pc[t] = "drain" /\ mutex = t
  BY DEF RetryFront, Control, Ownership
<1>2. CASE retryDataList = <<>>
  BY <1>1, <1>2, LeaveRetryKeeps DEF RetryFront, Control, TypeOK
<1>3. CASE retryDataList # <<>>
  <2>1. /\ data' = [data EXCEPT ![t] = Head(retryDataList)]
        /\ pc' = [pc EXCEPT ![t] = "socket"]
        /\ UNCHANGED <<mutex, tryTimes, retCode, event, retryTimes, retryDataList, result, sent,
                       failed, dropped>>
    BY <1>3 DEF RetryFront, Goto, history
  <2>2. Head(retryDataList) \in Events
    BY <1>3, TailElements DEF Control, TypeOK
  <2>3. TypeOK'
    BY <2>1, <2>2 DEF Control, TypeOK, Labels
  <2>4. Ownership' /\ GaveUp'
    BY <1>1, <2>1 DEF Control, TypeOK, Ownership, GaveUp
  <2>5. Sending'
    BY <1>1, <1>3, <2>1 DEF Control, TypeOK, Sending
  <2>6. Calls'
    <3>1. \A u \in Threads : pc'[u] = "idle" <=> pc[u] = "idle"
      BY <1>1, <2>1 DEF Control, TypeOK
    <3> QED BY <2>1, <3>1 DEF Control, Calls
  <2> QED BY <2>3, <2>4, <2>5, <2>6 DEF Control
<1> QED BY <1>2, <1>3

LEMMA TryKeeps ==
  ASSUME Control, NEW t \in Threads, Try(t)
  PROVE  Control'
<1> USE TransportAssumption
<1>1. /\ pc[t] = "try" /\ mutex # t
      /\ UNCHANGED <<event, retryTimes, retCode, mutex, retryDataList, result, sent, failed, dropped>>
  BY DEF Try, Control, Ownership, history
<1>2. CASE tryTimes[t] > 0
  <2>1. /\ tryTimes' = [tryTimes EXCEPT ![t] = @ - 1]
        /\ data' = [data EXCEPT ![t] = event[t]]
        /\ pc' = [pc EXCEPT ![t] = "socket"]
    BY <1>2 DEF Try, Goto
  <2>2. tryTimes[t] - 1 \in 0..RETRY_TIMES
    BY <1>2 DEF Control, TypeOK
  <2>3. TypeOK'
    BY <1>1, <2>1, <2>2 DEF Control, TypeOK, Labels
  <2>4. Ownership' /\ GaveUp'
    BY <1>1, <2>1 DEF Control, TypeOK, Ownership, GaveUp
  <2>5. Sending'
    BY <1>1, <2>1 DEF Control, TypeOK, Sending
  <2>6. Calls'
    <3>1. \A u \in Threads : pc'[u] = "idle" <=> pc[u] = "idle"
      BY <1>1, <2>1 DEF Control, TypeOK
    <3> QED BY <1>1, <3>1 DEF Control, Calls
  <2> QED BY <2>3, <2>4, <2>5, <2>6 DEF Control
<1>3. CASE ~(tryTimes[t] > 0)
  <2>1. UNCHANGED <<tryTimes, data>> /\ pc' = [pc EXCEPT ![t] = "addFailed"]
    BY <1>3 DEF Try, Goto
  <2>2. tryTimes[t] = 0
    BY <1>3 DEF Control, TypeOK
  <2>3. TypeOK'
    BY <1>1, <2>1 DEF Control, TypeOK, Labels
  <2>4. Ownership' /\ GaveUp'
    BY <1>1, <2>1, <2>2 DEF Control, TypeOK, Ownership, GaveUp
  <2>5. Sending'
    BY <1>1, <2>1 DEF Control, TypeOK, Sending
  <2>6. Calls'
    <3>1. \A u \in Threads : pc'[u] = "idle" <=> pc[u] = "idle"
      BY <1>1, <2>1 DEF Control, TypeOK
    <3> QED BY <1>1, <3>1 DEF Control, Calls
  <2> QED BY <2>3, <2>4, <2>5, <2>6 DEF Control
<1> QED BY <1>2, <1>3

LEMMA AttemptFailsKeeps ==
  ASSUME Control, NEW t \in Threads, pc[t] \in {"socket", "sendto"},
         NEW code \in {ERR_DOES_NOT_INIT, ERR_SEND_FAIL}, AttemptFails(t, code)
  PROVE  Control'
<1> USE TransportAssumption
<1>1. /\ data' = [data EXCEPT ![t] = NoEvent]
      /\ retryTimes' = [retryTimes EXCEPT ![t] = 0]
      /\ UNCHANGED <<event, retryDataList, history>>
  BY DEF AttemptFails, EndAttempt
<1>2. /\ data' \in [Threads -> Events \cup {NoEvent}]
      /\ \A u \in Threads \ {t} : data'[u] = data[u]
      /\ retryTimes' \in [Threads -> 0..RETRY_TIMES]
  BY <1>1 DEF Control, TypeOK
<1>3. CASE mutex = t
  BY <1>1, <1>2, <1>3, LeaveRetryKeeps DEF AttemptFails
<1>4. CASE mutex # t
  <2>1. /\ retCode' = [retCode EXCEPT ![t] = code]
        /\ pc' = [pc EXCEPT ![t] = "try"]
        /\ UNCHANGED <<mutex, tryTimes, event, retryDataList, result, sent, failed, dropped>>
    BY <1>1, <1>4 DEF AttemptFails, Goto, history
  <2>2. code \in SendCodes /\ code # SUCCESS
    BY DEF SendCodes, SUCCESS, ERR_DOES_NOT_INIT, ERR_SEND_FAIL
  <2>3. TypeOK'
    BY <1>2, <2>1, <2>2 DEF Control, TypeOK, Labels
  <2>4. Ownership' /\ GaveUp'
    BY <1>4, <2>1, <2>2 DEF Control, TypeOK, Ownership, GaveUp
  <2>5. Sending'
    BY <1>1, <2>1 DEF Control, TypeOK, Sending
  <2>6. Calls'
    <3>1. \A u \in Threads : pc'[u] = "idle" <=> pc[u] = "idle"
      BY <2>1 DEF Control, TypeOK
    <3> QED BY <2>1, <3>1 DEF Control, Calls
  <2> QED BY <2>3, <2>4, <2>5, <2>6 DEF Control
<1> QED BY <1>3, <1>4

LEMMA OpenSocketKeeps ==
  ASSUME Control, NEW t \in Threads, OpenSocket(t)
  PROVE  Control' /\ UNCHANGED <<retryDataList, sent, dropped, result>>
<1> USE TransportAssumption
<1>1. pc[t] = "socket"
  BY DEF OpenSocket
<1>2. CASE AttemptFails(t, ERR_DOES_NOT_INIT)
  BY <1>1, <1>2, AttemptFailsKeeps DEF AttemptFails, history
<1>3. CASE ~AttemptFails(t, ERR_DOES_NOT_INIT)
  <2>1. /\ retryTimes' = [retryTimes EXCEPT ![t] = RETRY_TIMES]
        /\ pc' = [pc EXCEPT ![t] = "sendto"]
        /\ UNCHANGED <<event, data, tryTimes, retCode, mutex, retryDataList, result, sent, failed,
                       dropped>>
    BY <1>3 DEF OpenSocket, Goto, history
  <2>2. TypeOK'
    BY <2>1 DEF Control, TypeOK, Labels
  <2>3. Ownership' /\ GaveUp'
    BY <1>1, <2>1 DEF Control, TypeOK, Ownership, GaveUp
  <2>4. Sending'
    BY <1>1, <2>1 DEF Control, TypeOK, Sending
  <2>5. Calls'
    <3>1. \A u \in Threads : pc'[u] = "idle" <=> pc[u] = "idle"
      BY <1>1, <2>1 DEF Control, TypeOK
    <3> QED BY <2>1, <3>1 DEF Control, Calls
  <2> QED BY <2>1, <2>2, <2>3, <2>4, <2>5 DEF Control
<1> QED BY <1>2, <1>3

LEMMA SendtoFailsKeeps ==
  ASSUME Control, NEW t \in Threads, SendtoFails(t)
  PROVE  Control' /\ UNCHANGED <<retryDataList, sent, dropped, result>>
<1> USE TransportAssumption
<1>1. pc[t] = "sendto"
  BY DEF SendtoFails
<1>2. CASE AttemptFails(t, ERR_SEND_FAIL)
  BY <1>1, <1>2, AttemptFailsKeeps DEF AttemptFails, history
<1>3. CASE ~AttemptFails(t, ERR_SEND_FAIL)
  <2>1. /\ retryTimes' = [retryTimes EXCEPT ![t] = @ - 1]
        /\ retryTimes[t] > 1
        /\ UNCHANGED <<pc, event, data, tryTimes, retCode, mutex, retryDataList, result, sent,
                       failed, dropped>>
    BY <1>3 DEF SendtoFails, history
  <2>2. retryTimes[t] - 1 \in 0..RETRY_TIMES
    BY <2>1 DEF Control, TypeOK
  <2>3. TypeOK'
    BY <2>1, <2>2 DEF Control, TypeOK
  <2> QED BY <2>1, <2>3 DEF Control, Ownership, Sending, Calls, GaveUp
<1> QED BY <1>2, <1>3

(* What waits on the list has failed.                                      *)
LEMMA WaitingHasFailed ==
  ASSUME Control, Fates, NEW e \in ElementsOf(retryDataList)
  PROVE  /\ e \in Events
         /\ result[e] \in {ERR_DOES_NOT_INIT, ERR_SEND_FAIL}
         /\ e \notin ElementsOf(sent) /\ e \notin dropped
<1>1. e \in Events
  BY DEF Control, TypeOK, ElementsOf
<1>2. result[e] \in {SUCCESS, ERR_DOES_NOT_INIT, ERR_SEND_FAIL, ERR_OVER_SIZE, ERR_EMPTY_EVENT,
                     NotReturned}
  BY <1>1 DEF Control, TypeOK, ResultCodes, SendCodes
<1>3. Fate(result[e], TRUE, e \in ElementsOf(sent), e \in dropped)
  BY <1>1 DEF Fates, OneFate
<1> QED BY <1>1, <1>2, <1>3 DEF Fate

(* A retried event moves from the front of the list to the socket.         *)
LEMMA RetrySucceeds ==
  ASSUME Control, Fates, NEW t \in Threads, SendtoSucceeds(t), mutex = t
  PROVE  /\ Control' /\ Fates'
         /\ retryDataList # <<>>
         /\ sent' = Append(sent, Head(retryDataList))
         /\ retryDataList' = Tail(retryDataList)
         /\ UNCHANGED dropped
<1> USE TransportAssumption
<1> DEFINE h == Head(retryDataList)
<1>1. /\ pc[t] = "sendto"
      /\ sent' = Append(sent, data[t])
      /\ data' = [data EXCEPT ![t] = NoEvent]
      /\ retryTimes' = [retryTimes EXCEPT ![t] = 0]
      /\ retryDataList' = Tail(retryDataList)
      /\ pc' = [pc EXCEPT ![t] = "drain"]
      /\ UNCHANGED <<event, tryTimes, retCode, result, mutex, failed, dropped>>
  BY DEF SendtoSucceeds, EndAttempt, Goto
<1>2. retryDataList # <<>> /\ data[t] = h
  BY <1>1 DEF Control, Sending
<1>3. /\ Tail(retryDataList) \in Seq(Events)
      /\ Len(Tail(retryDataList)) = Len(retryDataList) - 1
      /\ h \in Events /\ h \in ElementsOf(retryDataList)
      /\ Distinct(Tail(retryDataList))
      /\ ElementsOf(Tail(retryDataList)) = ElementsOf(retryDataList) \ {h}
  BY <1>2, TailElements DEF Control, TypeOK, Fates
<1>4. result[h] \in {ERR_DOES_NOT_INIT, ERR_SEND_FAIL}
  BY <1>3, WaitingHasFailed
<1>5. h \notin ElementsOf(sent)
  BY <1>3, WaitingHasFailed
<1>6. /\ sent' \in Seq(Events) /\ ElementsOf(sent') = ElementsOf(sent) \cup {h} /\ Distinct(sent')
  BY <1>1, <1>2, <1>3, <1>5, AppendElements DEF Control, TypeOK, Fates, SentOnce
<1>7. ElementsOf(retryDataList') = ElementsOf(retryDataList) \ {h} /\ Distinct(retryDataList')
  BY <1>1, <1>3
<1>8. TypeOK'
  <2>1. Len(retryDataList') <= RETRY_QUEUE_SIZE
    BY <1>1, <1>3 DEF Control, TypeOK
  <2> QED BY <1>1, <1>3, <1>6, <2>1 DEF Control, TypeOK, Labels
<1>9. Ownership' /\ GaveUp'
  BY <1>1 DEF Control, TypeOK, Ownership, GaveUp
<1>10. Sending'
  BY <1>1 DEF Control, TypeOK, Sending
<1>11. Calls'
  <2>1. \A u \in Threads : pc'[u] = "idle" <=> pc[u] = "idle"
    BY <1>1 DEF Control, TypeOK
  <2> QED BY <1>1, <2>1 DEF Control, Calls
<1>12. OneFate'
  <2> SUFFICES ASSUME NEW e \in Events
               PROVE  Fate(result'[e], e \in ElementsOf(retryDataList'), e \in ElementsOf(sent'), e \in dropped')
    BY DEF OneFate
  <2>1. CASE e = h
    BY <2>1, <1>1, <1>3, <1>4, <1>6, <1>7 DEF Fates, OneFate, Fate, NotReturned, SUCCESS,
       ERR_DOES_NOT_INIT, ERR_SEND_FAIL, ERR_EMPTY_EVENT, ERR_OVER_SIZE
  <2>2. CASE e # h
    BY <2>2, <1>1, <1>6, <1>7 DEF Fates, OneFate, Fate
  <2> QED BY <2>1, <2>2
<1> QED BY <1>1, <1>2, <1>6, <1>7, <1>8, <1>9, <1>10, <1>11, <1>12 DEF Control, Fates, SentOnce

(* An event of a running call is not yet anywhere.                         *)
LEMMA RunningIsFresh ==
  ASSUME Control, Fates, NEW t \in Threads, pc[t] # "idle"
  PROVE  /\ event[t] \in Events
         /\ result[event[t]] = NotReturned
         /\ event[t] \notin ElementsOf(retryDataList)
         /\ event[t] \notin ElementsOf(sent)
         /\ event[t] \notin dropped
<1>1. event[t] \in Events /\ result[event[t]] = NotReturned
  BY DEF Control, TypeOK, Calls
<1> QED BY <1>1 DEF Fates, OneFate, Fate

(* The return of a call frees its thread and settles its event.            *)
LEMMA ReturnControl ==
  ASSUME Control, NEW t \in Threads, pc[t] # "idle", mutex # t, UNCHANGED mutex,
         NEW code \in SendCodes, Return(t, code),
         data' \in [Threads -> Events \cup {NoEvent}],
         \A u \in Threads \ {t} : data'[u] = data[u],
         retryTimes' \in [Threads -> 0..RETRY_TIMES],
         \A u \in Threads : mutex = u => retryDataList' = retryDataList
  PROVE  /\ Ownership' /\ Sending' /\ Calls' /\ GaveUp'
         /\ pc' \in [Threads -> Labels]
         /\ event' \in [Threads -> Events \cup {NoEvent}]
         /\ tryTimes' \in [Threads -> 0..RETRY_TIMES]
         /\ retCode' \in [Threads -> SendCodes]
         /\ result' \in [Events -> ResultCodes]
         /\ result'[event[t]] = code
         /\ \A e \in Events : e # event[t] => result'[e] = result[e]
<1> USE TransportAssumption
<1>1. /\ pc' = [pc EXCEPT ![t] = "idle"]
      /\ result' = [result EXCEPT ![event[t]] = code]
      /\ event' = [event EXCEPT ![t] = NoEvent]
      /\ tryTimes' = [tryTimes EXCEPT ![t] = 0]
      /\ retCode' = [retCode EXCEPT ![t] = SUCCESS]
  BY DEF Return, Goto
<1>2. event[t] \in Events /\ event[t] # NoEvent
  BY DEF Control, TypeOK, Calls
<1>3. /\ pc' \in [Threads -> Labels]
      /\ event' \in [Threads -> Events \cup {NoEvent}]
      /\ tryTimes' \in [Threads -> 0..RETRY_TIMES]
      /\ retCode' \in [Threads -> SendCodes]
      /\ result' \in [Events -> ResultCodes]
  BY <1>1, <1>2 DEF Control, TypeOK, Labels, SendCodes, ResultCodes
<1>4. /\ result'[event[t]] = code
      /\ \A e \in Events : e # event[t] => result'[e] = result[e]
  BY <1>1, <1>2 DEF Control, TypeOK
<1>5. Ownership' /\ GaveUp'
  BY <1>1 DEF Control, TypeOK, Ownership, GaveUp
<1>6. Sending'
  BY <1>1 DEF Control, TypeOK, Sending
<1>7. Calls'
  BY <1>1, <1>2, <1>4 DEF Control, TypeOK, Calls
<1> QED BY <1>3, <1>4, <1>5, <1>6, <1>7

(* An own event is taken by the socket and its call returns.               *)
LEMMA OwnSucceeds ==
  ASSUME Control, Fates, NEW t \in Threads, SendtoSucceeds(t), mutex # t
  PROVE  /\ Control' /\ Fates'
         /\ event[t] \in Events
         /\ event[t] \notin ElementsOf(retryDataList) \cup ElementsOf(sent) \cup dropped
         /\ sent' = Append(sent, event[t])
         /\ UNCHANGED <<retryDataList, dropped>>
<1> USE TransportAssumption
<1> DEFINE h == event[t]
<1>1. /\ pc[t] = "sendto"
      /\ sent' = Append(sent, data[t])
      /\ data' = [data EXCEPT ![t] = NoEvent]
      /\ retryTimes' = [retryTimes EXCEPT ![t] = 0]
      /\ Return(t, SUCCESS)
      /\ UNCHANGED <<retryDataList, mutex, failed, dropped>>
  BY DEF SendtoSucceeds, EndAttempt
<1>2. data[t] = h
  BY <1>1 DEF Control, Sending
<1>3. /\ h \in Events /\ result[h] = NotReturned
      /\ h \notin ElementsOf(retryDataList) /\ h \notin ElementsOf(sent) /\ h \notin dropped
  BY <1>1, RunningIsFresh
<1>4. /\ data' \in [Threads -> Events \cup {NoEvent}]
      /\ \A u \in Threads \ {t} : data'[u] = data[u]
      /\ retryTimes' \in [Threads -> 0..RETRY_TIMES]
  BY <1>1 DEF Control, TypeOK
<1>5. /\ Ownership' /\ Sending' /\ Calls' /\ GaveUp'
      /\ pc' \in [Threads -> Labels]
      /\ event' \in [Threads -> Events \cup {NoEvent}]
      /\ tryTimes' \in [Threads -> 0..RETRY_TIMES]
      /\ retCode' \in [Threads -> SendCodes]
      /\ result' \in [Events -> ResultCodes]
      /\ result'[h] = SUCCESS
      /\ \A e \in Events : e # h => result'[e] = result[e]
  <2>1. SUCCESS \in SendCodes
    BY DEF SendCodes
  <2> QED BY <1>1, <1>4, <2>1, ReturnControl
<1>6. /\ sent' \in Seq(Events) /\ ElementsOf(sent') = ElementsOf(sent) \cup {h} /\ Distinct(sent')
  BY <1>1, <1>2, <1>3, AppendElements DEF Control, TypeOK, Fates, SentOnce
<1>7. TypeOK'
  BY <1>1, <1>4, <1>5, <1>6 DEF Control, TypeOK
<1>8. ElementsOf(retryDataList') = ElementsOf(retryDataList) /\ Distinct(retryDataList')
  BY <1>1 DEF Fates
<1>9. OneFate'
  <2> SUFFICES ASSUME NEW e \in Events
               PROVE  Fate(result'[e], e \in ElementsOf(retryDataList'), e \in ElementsOf(sent'), e \in dropped')
    BY DEF OneFate
  <2>1. CASE e = h
    BY <2>1, <1>1, <1>3, <1>5, <1>6, <1>8 DEF Fate, NotReturned, SUCCESS, ERR_DOES_NOT_INIT,
       ERR_SEND_FAIL, ERR_EMPTY_EVENT, ERR_OVER_SIZE
  <2>2. CASE e # h
    BY <2>2, <1>1, <1>5, <1>6, <1>8 DEF Fates, OneFate, Fate
  <2> QED BY <2>1, <2>2
<1> QED BY <1>1, <1>2, <1>3, <1>5, <1>6, <1>7, <1>8, <1>9 DEF Control, Fates, SentOnce

(* A failed event joins the list and its call returns.                     *)
LEMMA AddFailedDataKeeps ==
  ASSUME Control, Fates, NEW t \in Threads, AddFailedData(t)
  PROVE  /\ Control' /\ Fates'
         /\ event[t] \in Events
         /\ event[t] \notin ElementsOf(retryDataList) \cup ElementsOf(sent) \cup dropped
<1> USE TransportAssumption
<1> DEFINE h == event[t]
           full == Len(retryDataList) >= RETRY_QUEUE_SIZE
           kept == IF full THEN Tail(retryDataList) ELSE retryDataList
           lost == IF full THEN {Head(retryDataList)} ELSE {}
<1>1. /\ pc[t] = "addFailed" /\ mutex = NoThread
      /\ retryDataList' = Append(kept, h)
      /\ dropped' = dropped \cup lost
      /\ failed' = Append(failed, h)
      /\ Return(t, retCode[t])
      /\ UNCHANGED <<data, retryTimes, mutex, sent>>
  BY DEF AddFailedData
<1>2. retCode[t] \in {ERR_DOES_NOT_INIT, ERR_SEND_FAIL} /\ retCode[t] \in SendCodes
  BY <1>1 DEF Control, TypeOK, GaveUp, SendCodes
<1>3. /\ h \in Events /\ result[h] = NotReturned
      /\ h \notin ElementsOf(retryDataList) /\ h \notin ElementsOf(sent) /\ h \notin dropped
  BY <1>1, RunningIsFresh
<1>4. /\ Ownership' /\ Sending' /\ Calls' /\ GaveUp'
      /\ pc' \in [Threads -> Labels]
      /\ event' \in [Threads -> Events \cup {NoEvent}]
      /\ tryTimes' \in [Threads -> 0..RETRY_TIMES]
      /\ retCode' \in [Threads -> SendCodes]
      /\ result' \in [Events -> ResultCodes]
      /\ result'[h] = retCode[t]
      /\ \A e \in Events : e # h => result'[e] = result[e]
  <2>1. /\ data' \in [Threads -> Events \cup {NoEvent}]
        /\ \A u \in Threads \ {t} : data'[u] = data[u]
        /\ retryTimes' \in [Threads -> 0..RETRY_TIMES]
        /\ mutex # t /\ pc[t] # "idle"
        /\ \A u \in Threads : mutex = u => retryDataList' = retryDataList
    BY <1>1 DEF Control, TypeOK
  <2>2. Return(t, retCode[t]) /\ UNCHANGED mutex
    BY <1>1
  <2> QED BY <1>2, <2>1, <2>2, ReturnControl
<1>5. /\ kept \in Seq(Events) /\ Len(kept) < RETRY_QUEUE_SIZE /\ Distinct(kept)
      /\ lost \subseteq Events /\ lost \subseteq ElementsOf(retryDataList)
      /\ ElementsOf(kept) = ElementsOf(retryDataList) \ lost
  <2>1. CASE full
    <3>1. retryDataList # <<>>
      BY <2>1 DEF Control, TypeOK
    <3> QED BY <2>1, <3>1, TailElements DEF Control, TypeOK, Fates
  <2>2. CASE ~full
    <3>1. kept = retryDataList /\ lost = {}
      BY <2>2
    <3>2. Len(retryDataList) < RETRY_QUEUE_SIZE
      BY <2>2 DEF Control, TypeOK
    <3> HIDE DEF kept, lost
    <3> QED BY <3>1, <3>2 DEF Control, TypeOK, Fates
  <2> QED BY <2>1, <2>2
<1> HIDE DEF kept, lost
<1>6. /\ retryDataList' \in Seq(Events) /\ Len(retryDataList') = Len(kept) + 1
      /\ ElementsOf(retryDataList') = ElementsOf(kept) \cup {h}
      /\ Distinct(retryDataList')
  BY <1>1, <1>3, <1>5, AppendElements
<1>7. TypeOK'
  <2>1. Len(retryDataList') <= RETRY_QUEUE_SIZE
    BY <1>5, <1>6
  <2>2. failed' \in Seq(Events) /\ dropped' \subseteq Events /\ sent' \in Seq(Events)
    BY <1>1, <1>3, <1>5 DEF Control, TypeOK
  <2> QED BY <1>1, <1>4, <1>6, <2>1, <2>2 DEF Control, TypeOK
<1>8. ElementsOf(sent') = ElementsOf(sent) /\ Distinct(sent')
  BY <1>1 DEF Fates, SentOnce
<1>9. \A e \in lost : result[e] \in {ERR_DOES_NOT_INIT, ERR_SEND_FAIL} /\ e # h
  BY <1>3, <1>5, WaitingHasFailed
<1>10. OneFate'
  <2> SUFFICES ASSUME NEW e \in Events
               PROVE  Fate(result'[e], e \in ElementsOf(retryDataList'), e \in ElementsOf(sent'), e \in dropped')
    BY DEF OneFate
  <2>1. CASE e = h
    BY <2>1, <1>1, <1>2, <1>3, <1>4, <1>5, <1>6, <1>8, <1>9 DEF Fates, OneFate, Fate, NotReturned,
       SUCCESS, ERR_DOES_NOT_INIT, ERR_SEND_FAIL, ERR_EMPTY_EVENT, ERR_OVER_SIZE
  <2>2. CASE e \in lost
    BY <2>2, <1>1, <1>4, <1>5, <1>6, <1>8, <1>9 DEF Fates, OneFate, Fate, NotReturned,
       SUCCESS, ERR_DOES_NOT_INIT, ERR_SEND_FAIL, ERR_EMPTY_EVENT, ERR_OVER_SIZE
  <2>3. CASE e # h /\ e \notin lost
    BY <2>3, <1>1, <1>4, <1>5, <1>6, <1>8 DEF Fates, OneFate, Fate
  <2> QED BY <2>1, <2>2, <2>3
<1> QED BY <1>3, <1>4, <1>6, <1>7, <1>8, <1>10 DEF Control, Fates, SentOnce

-----------------------------------------------------------------------------
(* What a step does to the three places an event can be in.                *)
LEMMA StepKeeps ==
  ASSUME Control, Fates, [Next]_vars
  PROVE  /\ Control' /\ Fates'
         /\ [Outbox!OutboxNext]_(Outbox!outboxVars)
<1> USE DEF Outbox!OutboxNext, Outbox!outboxVars
<1>1. ASSUME UNCHANGED <<retryDataList, sent, dropped>>
      PROVE  [Outbox!OutboxNext]_(Outbox!outboxVars)
  BY <1>1
<1>2. ASSUME NEW t \in Threads, NEW e \in Events, SendData(t, e)
      PROVE  Control' /\ Fates' /\ [Outbox!OutboxNext]_(Outbox!outboxVars)
  BY <1>1, <1>2, SendDataKeeps DEF SendData
<1>3. ASSUME NEW t \in Threads, RetrySendFailedData(t)
      PROVE  Control' /\ Fates' /\ [Outbox!OutboxNext]_(Outbox!outboxVars)
  <2>1. UNCHANGED <<retryDataList, sent, dropped, result>>
    BY <1>3 DEF RetrySendFailedData, history
  <2> QED BY <1>1, <1>3, <2>1, RetrySendFailedDataKeeps, FatesSame
<1>4. ASSUME NEW t \in Threads, RetryFront(t)
      PROVE  Control' /\ Fates' /\ [Outbox!OutboxNext]_(Outbox!outboxVars)
  <2>1. UNCHANGED <<retryDataList, sent, dropped, result>>
    BY <1>4 DEF RetryFront, history
  <2> QED BY <1>1, <1>4, <2>1, RetryFrontKeeps, FatesSame
<1>5. ASSUME NEW t \in Threads, Try(t)
      PROVE  Control' /\ Fates' /\ [Outbox!OutboxNext]_(Outbox!outboxVars)
  <2>1. UNCHANGED <<retryDataList, sent, dropped, result>>
    BY <1>5 DEF Try, history
  <2> QED BY <1>1, <1>5, <2>1, TryKeeps, FatesSame
<1>6. ASSUME NEW t \in Threads, OpenSocket(t)
      PROVE  Control' /\ Fates' /\ [Outbox!OutboxNext]_(Outbox!outboxVars)
  BY <1>1, <1>6, OpenSocketKeeps, FatesSame
<1>7. ASSUME NEW t \in Threads, SendtoFails(t)
      PROVE  Control' /\ Fates' /\ [Outbox!OutboxNext]_(Outbox!outboxVars)
  BY <1>1, <1>7, SendtoFailsKeeps, FatesSame
<1>8. ASSUME NEW t \in Threads, SendtoSucceeds(t)
      PROVE  Control' /\ Fates' /\ [Outbox!OutboxNext]_(Outbox!outboxVars)
  <2>1. CASE mutex = t
    <3>1. Outbox!AcceptHeld
      BY <1>8, <2>1, RetrySucceeds DEF Outbox!AcceptHeld
    <3> QED BY <1>8, <2>1, <3>1, RetrySucceeds
  <2>2. CASE mutex # t
    <3>1. event[t] \in Events /\ Outbox!Accept(event[t])
      BY <1>8, <2>2, OwnSucceeds
      DEF Outbox!Accept, Outbox!Known, Outbox!ElementsOf, ElementsOf
    <3> QED BY <1>8, <2>2, <3>1, OwnSucceeds
  <2> QED BY <2>1, <2>2
<1>9. ASSUME NEW t \in Threads, AddFailedData(t)
      PROVE  Control' /\ Fates' /\ [Outbox!OutboxNext]_(Outbox!outboxVars)
  <2>1. event[t] \in Events /\ Outbox!Hold(event[t])
    BY <1>9, AddFailedDataKeeps
    DEF AddFailedData, Outbox!Hold, Outbox!Known, Outbox!ElementsOf, ElementsOf
  <2> QED BY <1>9, <2>1, AddFailedDataKeeps
<1>10. CASE UNCHANGED vars
  <2>1. Control'
    BY <1>10 DEF vars, Control, TypeOK, Ownership, Sending, Calls, GaveUp
  <2>2. UNCHANGED <<retryDataList, sent, dropped, result>>
    BY <1>10 DEF vars
  <2> QED BY <1>1, <2>1, <2>2, FatesSame
<1> QED
  BY <1>2, <1>3, <1>4, <1>5, <1>6, <1>7, <1>8, <1>9, <1>10 DEF Next, Step

(* Type correctness; with it, the list of failed events never grows beyond *)
(* RETRY_QUEUE_SIZE.                                                       *)
THEOREM TypeCorrect == Spec => []TypeOK
<1>1. Control /\ Fates => TypeOK
  BY DEF Control
<1>2. Control /\ Fates /\ [Next]_vars => (Control /\ Fates)'
  BY StepKeeps
<1> QED BY <1>1, <1>2, FateInvInit, PTL DEF Spec

(* Every event has exactly the fate SendData reported or left open: none   *)
(* is lost by the racing threads.                                          *)
THEOREM EventsHaveOneFate == Spec => []OneFate
<1>1. Control /\ Fates => OneFate
  BY DEF Fates
<1>2. Control /\ Fates /\ [Next]_vars => (Control /\ Fates)'
  BY StepKeeps
<1> QED BY <1>1, <1>2, FateInvInit, PTL DEF Spec

(* No event is sent twice, whatever threads fail and retry.                *)
THEOREM EventsAreSentOnce == Spec => []SentOnce
<1>1. Control /\ Fates => SentOnce
  BY DEF Fates
<1>2. Control /\ Fates /\ [Next]_vars => (Control /\ Fates)'
  BY StepKeeps
<1> QED BY <1>1, <1>2, FateInvInit, PTL DEF Spec

(* The transport implements the outbox: initial states map to initial      *)
(* states, every step to a step of the outbox or a stutter.                *)
THEOREM TransportImplementsOutbox == Spec => ImplementsOutbox
<1>1. Init => Outbox!OutboxInit
  BY DEF Init, Outbox!OutboxInit
<1>2. Control /\ Fates /\ [Next]_vars =>
        (Control /\ Fates)' /\ [Outbox!OutboxNext]_(Outbox!outboxVars)
  BY StepKeeps
<1> QED BY <1>1, <1>2, FateInvInit, PTL DEF Spec, ImplementsOutbox, Outbox!OutboxSpec
-----------------------------------------------------------------------------
(* The list of failed events is the end of the history of the failed ones, *)
(* and what is in front of it was sent or dropped.                         *)
Gone == Len(failed) - Len(retryDataList)

Trailing ==
  /\ Gone >= 0
  /\ \A k \in 1..Len(retryDataList) : retryDataList[k] = failed[Gone + k]
  /\ \A k \in 1..Gone : failed[k] \in dropped \/ failed[k] \in ElementsOf(sent)

FailedOnce == Distinct(failed) /\ \A k \in 1..Len(failed) : result[failed[k]] # NotReturned

Order == Trailing /\ FailedOnce /\ RetriedInOrder

LEMMA OrderInit == Init => Order
BY DEF Init, Order, Gone, Trailing, FailedOnce, RetriedInOrder, Distinct, ElementsOf

LEMMA OrderSame ==
  ASSUME Order, UNCHANGED <<retryDataList, sent, dropped, failed, result>>
  PROVE  Order'
<1>1. Trailing'
  BY DEF Order, Gone, Trailing, ElementsOf
<1>2. FailedOnce'
  BY DEF Order, FailedOnce, Distinct
<1>3. RetriedInOrder'
  BY DEF Order, RetriedInOrder
<1> QED BY <1>1, <1>2, <1>3 DEF Order

(* A refused event is in no history.                                       *)
LEMMA SendDataOrder ==
  ASSUME Control, Order, NEW t \in Threads, NEW e \in Events, SendData(t, e)
  PROVE  Order'
<1> USE TransportAssumption
<1>1. UNCHANGED <<retryDataList, sent, dropped, failed>>
  BY DEF SendData
<1>2. ASSUME NEW x \in Events, result[x] # NotReturned PROVE result'[x] # NotReturned
  BY <1>2 DEF SendData, Control, TypeOK, ERR_EMPTY_EVENT, ERR_OVER_SIZE, NotReturned
<1>3. \A k \in 1..Len(failed) : failed[k] \in Events
  BY DEF Control, TypeOK
<1>4. FailedOnce'
  BY <1>1, <1>2, <1>3 DEF Order, FailedOnce, Distinct
<1> QED BY <1>1, <1>4 DEF Order, Gone, Trailing, RetriedInOrder, ElementsOf

(* An event of a running call has not failed yet.                          *)
LEMMA RunningHasNotFailed ==
  ASSUME Control, Fates, Order, NEW t \in Threads, pc[t] # "idle"
  PROVE  \A k \in 1..Len(failed) : failed[k] # event[t]
BY RunningIsFresh DEF Order, FailedOnce

(* The own event of a call is sent at once.                                *)
LEMMA OwnSucceedsOrder ==
  ASSUME Control, Fates, Order, NEW t \in Threads, SendtoSucceeds(t), mutex # t
  PROVE  Order'
<1>1. /\ pc[t] = "sendto" /\ Return(t, SUCCESS) /\ UNCHANGED <<retryDataList, dropped, failed>>
      /\ sent' = Append(sent, event[t]) /\ event[t] \in Events
  BY OwnSucceeds DEF SendtoSucceeds
<1>2. \A k \in 1..Len(failed) : failed[k] # event[t] /\ failed[k] \in Events
  <2>1. \A k \in 1..Len(failed) : failed[k] \in Events
    BY DEF Control, TypeOK
  <2>2. pc[t] # "idle"
    BY <1>1
  <2> QED BY <2>1, <2>2, RunningHasNotFailed
<1>3. /\ Len(sent') = Len(sent) + 1 /\ Len(sent) \in Nat
      /\ sent'[Len(sent) + 1] = event[t]
      /\ \A n \in 1..Len(sent) : sent'[n] = sent[n]
  BY <1>1 DEF Control, TypeOK
<1>4. ElementsOf(sent') = ElementsOf(sent) \cup {event[t]}
  BY <1>1, AppendElements DEF Control, TypeOK
<1>5. Trailing'
  BY <1>1, <1>4 DEF Order, Trailing, Gone
<1>6. FailedOnce'
  BY <1>1, <1>2 DEF Order, FailedOnce, Distinct, Return, Control, TypeOK
<1>7. RetriedInOrder'
  <2> SUFFICES ASSUME NEW i \in 1..Len(failed), NEW j \in 1..Len(failed), i < j,
                      NEW n \in 1..Len(sent'), sent'[n] = failed[j]
               PROVE  failed[i] \in dropped \/ \E m \in 1..(n - 1) : sent'[m] = failed[i]
    BY <1>1 DEF RetriedInOrder
  <2>1. n \in 1..Len(sent) /\ sent[n] = failed[j]
    BY <1>2, <1>3
  <2>2. failed[i] \in dropped \/ \E m \in 1..(n - 1) : sent[m] = failed[i]
    BY <2>1 DEF Order, RetriedInOrder
  <2> QED BY <1>3, <2>1, <2>2
<1> QED BY <1>5, <1>6, <1>7 DEF Order

(* The oldest failed event is sent: every one that failed before it is     *)
(* gone already.                                                           *)
LEMMA RetrySucceedsOrder ==
  ASSUME Control, Fates, Order, NEW t \in Threads, SendtoSucceeds(t), mutex = t
  PROVE  Order'
<1> DEFINE h == Head(retryDataList)
<1>1. /\ retryDataList # <<>> /\ retryDataList' = Tail(retryDataList)
      /\ sent' = Append(sent, h) /\ UNCHANGED <<dropped, failed, result>>
  BY RetrySucceeds DEF SendtoSucceeds, Control, Sending
<1>2. /\ Len(sent') = Len(sent) + 1 /\ Len(sent) \in Nat
      /\ sent'[Len(sent) + 1] = h
      /\ \A n \in 1..Len(sent) : sent'[n] = sent[n]
  BY <1>1, TailElements DEF Control, TypeOK
<1>3. ElementsOf(sent') = ElementsOf(sent) \cup {h}
  BY <1>1, TailElements, AppendElements DEF Control, TypeOK
<1>4. /\ Len(retryDataList) \in Nat \ {0} /\ h = retryDataList[1]
      /\ Len(retryDataList') = Len(retryDataList) - 1
      /\ \A k \in 1..Len(retryDataList') : retryDataList'[k] = retryDataList[k + 1]
      /\ Len(failed) \in Nat
  BY <1>1 DEF Control, TypeOK
<1>5. /\ Gone \in Nat /\ Gone' = Gone + 1 /\ Gone < Len(failed) /\ h = failed[Gone + 1]
  BY <1>1, <1>4 DEF Order, Trailing, Gone
<1>6. Trailing'
  <2>1. Gone' >= 0
    BY <1>5
  <2>2. ASSUME NEW k \in 1..Len(retryDataList') PROVE retryDataList'[k] = failed'[Gone' + k]
    <3>1. k + 1 \in 1..Len(retryDataList) /\ Gone + (k + 1) = Gone' + k
      BY <1>4, <1>5
    <3>2. retryDataList[k + 1] = failed[Gone + (k + 1)]
      BY <3>1 DEF Order, Trailing
    <3> QED BY <1>1, <1>4, <3>1, <3>2
  <2>3. ASSUME NEW k \in 1..Gone' PROVE failed'[k] \in dropped' \/ failed'[k] \in ElementsOf(sent')
    <3>1. k \in 1..Gone \/ k = Gone + 1
      BY <1>5
    <3> QED BY <1>1, <1>3, <1>5, <3>1 DEF Order, Trailing
  <2> QED BY <2>1, <2>2, <2>3 DEF Trailing
<1>7. FailedOnce'
  BY <1>1 DEF Order, FailedOnce, Distinct
<1>8. RetriedInOrder'
  <2> SUFFICES ASSUME NEW i \in 1..Len(failed), NEW j \in 1..Len(failed), i < j,
                      NEW n \in 1..Len(sent'), sent'[n] = failed[j]
               PROVE  failed[i] \in dropped \/ \E m \in 1..(n - 1) : sent'[m] = failed[i]
    BY <1>1 DEF RetriedInOrder
  <2>1. CASE n \in 1..Len(sent)
    <3>1. failed[i] \in dropped \/ \E m \in 1..(n - 1) : sent[m] = failed[i]
      BY <1>2, <2>1 DEF Order, RetriedInOrder
    <3> QED BY <1>2, <2>1, <3>1
  <2>2. CASE n = Len(sent) + 1
    <3>1. Gone + 1 \in 1..Len(failed) /\ failed[j] = failed[Gone + 1]
      BY <1>2, <1>4, <1>5, <2>2
    <3>2. j = Gone + 1
      BY <3>1 DEF Order, FailedOnce, Distinct
    <3>3. i \in 1..Gone
      BY <1>5, <3>2
    <3>4. failed[i] \in dropped \/ \E m \in 1..Len(sent) : sent[m] = failed[i]
      BY <3>3 DEF Order, Trailing, ElementsOf
    <3> QED BY <1>2, <2>2, <3>4
  <2> QED BY <1>2, <2>1, <2>2
<1> QED BY <1>6, <1>7, <1>8 DEF Order

(* An event fails; it joins both ends.                                     *)
LEMMA AddFailedDataOrder ==
  ASSUME Control, Fates, Order, NEW t \in Threads, AddFailedData(t)
  PROVE  Order'
<1> DEFINE h == event[t]
           full == Len(retryDataList) >= RETRY_QUEUE_SIZE
           kept == IF full THEN Tail(retryDataList) ELSE retryDataList
           lost == IF full THEN {Head(retryDataList)} ELSE {}
<1>1. /\ pc[t] = "addFailed" /\ retryDataList' = Append(kept, h) /\ dropped' = dropped \cup lost
      /\ failed' = Append(failed, h) /\ Return(t, retCode[t]) /\ UNCHANGED sent
  BY DEF AddFailedData
<1>2. /\ h \in Events /\ h \notin ElementsOf(sent)
      /\ \A k \in 1..Len(failed) : failed[k] # h /\ failed[k] \in Events
  <2>1. \A k \in 1..Len(failed) : failed[k] \in Events
    BY DEF Control, TypeOK
  <2>2. pc[t] # "idle"
    BY <1>1
  <2> QED BY <2>1, <2>2, RunningIsFresh, RunningHasNotFailed
<1>3. /\ Len(failed) \in Nat /\ Len(failed') = Len(failed) + 1 /\ failed'[Len(failed) + 1] = h
      /\ \A k \in 1..Len(failed) : failed'[k] = failed[k]
  BY <1>1, <1>2 DEF Control, TypeOK
<1>4. /\ Len(retryDataList) \in Nat /\ (full => Len(retryDataList) > 0)
  BY TransportAssumption DEF Control, TypeOK
<1>5. /\ Gone \in Nat /\ Gone <= Len(failed)
      /\ \A k \in 1..Len(retryDataList) : retryDataList[k] = failed[Gone + k]
      /\ \A k \in 1..Gone : failed[k] \in dropped \/ failed[k] \in ElementsOf(sent)
  BY <1>3, <1>4 DEF Order, Trailing, Gone
<1> DEFINE gone == IF full THEN Gone + 1 ELSE Gone
<1>6. /\ kept \in Seq(Events) /\ Len(kept) = Len(failed) - gone /\ gone \in Nat /\ Len(kept) \in Nat
      /\ \A k \in 1..Len(kept) : kept[k] = failed[gone + k]
      /\ \A k \in 1..gone : failed[k] \in dropped' \/ failed[k] \in ElementsOf(sent)
  <2>1. CASE full
    <3>1. /\ retryDataList # <<>> /\ retryDataList \in Seq(Events)
      BY <1>4, <2>1 DEF Control, TypeOK
    <3>2. /\ kept \in Seq(Events) /\ Len(kept) = Len(retryDataList) - 1
          /\ \A k \in 1..Len(kept) : kept[k] = retryDataList[k + 1]
          /\ lost = {retryDataList[1]}
      BY <2>1, <3>1
    <3> HIDE DEF kept, lost
    <3>3. gone = Gone + 1 /\ Gone = Len(failed) - Len(retryDataList)
      BY <2>1 DEF Gone
    <3>4. ASSUME NEW k \in 1..Len(kept) PROVE kept[k] = failed[gone + k]
      <4>1. k + 1 \in 1..Len(retryDataList) /\ Gone + (k + 1) = gone + k
        BY <1>4, <1>5, <3>2, <3>3
      <4> QED BY <1>5, <3>2, <4>1
    <3>5. retryDataList[1] = failed[Gone + 1]
      BY <1>4, <1>5, <2>1
    <3>6. ASSUME NEW k \in 1..gone PROVE failed[k] \in dropped' \/ failed[k] \in ElementsOf(sent)
      <4>1. k \in 1..Gone \/ k = Gone + 1
        BY <1>5, <3>3
      <4> QED BY <1>1, <1>5, <3>2, <3>5, <4>1
    <3>7. Len(kept) = Len(failed) - gone /\ gone \in Nat /\ Len(kept) \in Nat
      BY <1>3, <1>4, <1>5, <2>1, <3>2, <3>3
    <3> QED BY <3>2, <3>4, <3>6, <3>7
  <2>2. CASE ~full
    <3>1. kept = retryDataList /\ gone = Gone /\ Gone = Len(failed) - Len(retryDataList)
      BY <2>2 DEF Gone
    <3>2. retryDataList \in Seq(Events)
      BY DEF Control, TypeOK
    <3> HIDE DEF kept, gone
    <3> QED BY <1>1, <1>3, <1>4, <1>5, <3>1, <3>2
  <2> QED BY <2>1, <2>2
<1> HIDE DEF kept, lost, gone
<1>7. /\ Len(retryDataList') = Len(kept) + 1
      /\ retryDataList'[Len(kept) + 1] = h
      /\ \A k \in 1..Len(kept) : retryDataList'[k] = kept[k]
  BY <1>1, <1>2, <1>6
<1>8. Gone' = gone
  BY <1>3, <1>6, <1>7 DEF Gone
<1>9. Trailing'
  <2>1. Gone' >= 0
    BY <1>6, <1>8
  <2>2. ASSUME NEW k \in 1..Len(retryDataList') PROVE retryDataList'[k] = failed'[Gone' + k]
    <3>1. CASE k \in 1..Len(kept)
      <4>1. gone + k \in 1..Len(failed)
        BY <1>3, <1>6, <3>1
      <4> QED BY <1>3, <1>6, <1>7, <1>8, <3>1, <4>1
    <3>2. CASE k = Len(kept) + 1
      <4>1. gone + k = Len(failed) + 1
        BY <1>3, <1>6, <3>2
      <4> QED BY <1>3, <1>7, <1>8, <3>2, <4>1
    <3> QED BY <1>6, <1>7, <3>1, <3>2
  <2>3. ASSUME NEW k \in 1..Gone' PROVE failed'[k] \in dropped' \/ failed'[k] \in ElementsOf(sent')
    <3>1. k \in 1..gone /\ k \in 1..Len(failed)
      BY <1>3, <1>6, <1>8
    <3>2. ElementsOf(sent') = ElementsOf(sent)
      BY <1>1 DEF ElementsOf
    <3> QED BY <1>3, <1>6, <3>1, <3>2
  <2> QED BY <2>1, <2>2, <2>3 DEF Trailing
<1>10. FailedOnce'
  <2>1. Distinct(failed')
    <3> SUFFICES ASSUME NEW i \in 1..Len(failed'), NEW j \in 1..Len(failed'), failed'[i] = failed'[j]
                 PROVE  i = j
      BY DEF Distinct
    <3>1. (i \in 1..Len(failed) \/ i = Len(failed) + 1) /\ (j \in 1..Len(failed) \/ j = Len(failed) + 1)
      BY <1>3
    <3> QED BY <1>2, <1>3, <3>1 DEF Order, FailedOnce, Distinct
  <2>2. /\ result'[h] # NotReturned
        /\ \A e \in Events : e # h => result'[e] = result[e]
    <3>1. result' = [result EXCEPT ![h] = retCode[t]] /\ result \in [Events -> ResultCodes]
      BY <1>1 DEF Return, Control, TypeOK
    <3>2. retCode[t] \in SendCodes
      BY DEF Control, TypeOK
    <3>3. retCode[t] # NotReturned
      BY <3>2 DEF SendCodes, SUCCESS, ERR_DOES_NOT_INIT, ERR_SEND_FAIL, NotReturned
    <3> QED BY <1>2, <3>1, <3>3
  <2>3. ASSUME NEW k \in 1..Len(failed') PROVE result'[failed'[k]] # NotReturned
    <3>1. k \in 1..Len(failed) \/ k = Len(failed) + 1
      BY <1>3
    <3> QED BY <1>2, <1>3, <2>2, <3>1 DEF Order, FailedOnce
  <2> QED BY <2>1, <2>3 DEF FailedOnce
<1>11. RetriedInOrder'
  <2> SUFFICES ASSUME NEW i \in 1..Len(failed'), NEW j \in 1..Len(failed'), i < j,
                      NEW n \in 1..Len(sent'), sent'[n] = failed'[j]
               PROVE  failed'[i] \in dropped' \/ \E m \in 1..(n - 1) : sent'[m] = failed'[i]
    BY DEF RetriedInOrder
  <2>1. n \in 1..Len(sent) /\ sent[n] = failed'[j]
    BY <1>1
  <2>2. j # Len(failed) + 1
    BY <1>2, <1>3, <2>1 DEF ElementsOf
  <2>3. i \in 1..Len(failed) /\ j \in 1..Len(failed)
    BY <1>3, <2>2
  <2>4. failed[i] \in dropped \/ \E m \in 1..(n - 1) : sent[m] = failed[i]
    BY <1>3, <2>1, <2>3 DEF Order, RetriedInOrder
  <2> QED BY <1>1, <1>3, <2>3, <2>4
<1> QED BY <1>9, <1>10, <1>11 DEF Order

LEMMA StepKeepsOrder ==
  ASSUME Control, Fates, Order, [Next]_vars
  PROVE  Order'
<1>1. ASSUME NEW t \in Threads,
             RetrySendFailedData(t) \/ RetryFront(t) \/ Try(t) \/ OpenSocket(t) \/ SendtoFails(t)
      PROVE  Order'
  <2>1. UNCHANGED <<retryDataList, history>>
    BY <1>1 DEF RetrySendFailedData, RetryFront, Try, OpenSocket, SendtoFails, AttemptFails
  <2> QED BY <2>1, OrderSame DEF history
<1>2. CASE UNCHANGED vars
  BY <1>2, OrderSame DEF vars
<1> QED
  BY <1>1, <1>2, SendDataOrder, OwnSucceedsOrder, RetrySucceedsOrder, AddFailedDataOrder
  DEF Next, Step

(* Failed events are sent in the order in which they failed, however many  *)
(* threads send and retry: the list is the end of the history of failures, *)
(* and only its front is sent or dropped.                                  *)
THEOREM RetriesKeepOrder == Spec => []RetriedInOrder
<1>1. Control /\ Fates /\ Order => RetriedInOrder
  BY DEF Order
<1>2. Control /\ Fates /\ Order /\ [Next]_vars => (Control /\ Fates /\ Order)'
  BY StepKeeps, StepKeepsOrder
<1> QED BY <1>1, <1>2, FateInvInit, OrderInit, PTL DEF Spec
=============================================================================
