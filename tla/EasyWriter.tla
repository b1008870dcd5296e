------------------------------ MODULE EasyWriter ------------------------------
(***************************************************************************)
(* HiSysEventEasyWrite, the writer in C for processes that start before    *)
(* the C++ library can be used: an event with one string parameter, built  *)
(* in a buffer of a fixed size and sent as one datagram.                   *)
(*                                                                         *)
(* All numbers are those of the code.  A text is its length, NoText is     *)
(* NULL.  The buffer is the list of what is put into it, with the bytes of *)
(* the varints.                                                            *)
(***************************************************************************)
EXTENDS Integers, Sequences, FiniteSets

EVENT_BUFF_LEN == 1120
MAX_DOMAIN_LENGTH == 16
MAX_EVENT_NAME_LENGTH == 32
DATA_MAX_LEN == 1024
RETRY_TIMES == 3

(* sizeof(struct HiSysEventEasyHeader), packed.                            *)
HEADER_SIZE == (MAX_DOMAIN_LENGTH + 1) + (MAX_EVENT_NAME_LENGTH + 1) + 8 + 1 + 4 + 4 + 4 + 8 + 1

KEY_LENGTH == 4              (* "DATA" *)
STR_PARAM_VALUE_TYPE == 12
NoText == -1
INVALID_PID == 0

(* Mutant of EncodeUnsignedVarint: the bound of the first byte is off by   *)
(* one, so that it announces no second byte.                               *)
EncodeUnsignedVarintBound(val) ==
  IF val <= 32 THEN <<64 + (val % 32)>>
  ELSE <<64 + 32 + (val % 32), val \div 32>>

(* EncodeUnsignedVarint with the tag of a length: 5 bits in the first byte *)
(* and 7 in each of the others.                                            *)
EncodeUnsignedVarint(val) ==
  LET rest[n \in Nat] ==
        IF n = 0 THEN <<>>
        ELSE <<(IF n < 128 THEN 0 ELSE 128) + (n % 128)>> \o rest[n \div 128]
  IN  <<64 + (IF val < 32 THEN 0 ELSE 32) + (val % 32)>> \o rest[val \div 32]

(* MemoryCopy of a name into the array of the header.                      *)
Fits(text, array) == text <= array

(* What is appended to the buffer, with its size in bytes, and the error   *)
(* if there is no room for it.                                             *)
Piece(size, err) == [size |-> size, err |-> err]

Pieces(dataBytes, data) ==
  <<Piece(4, "none"),
    Piece(HEADER_SIZE, "ERR_MEM_OPT_FAILED"),
    Piece(4, "ERR_EVENT_BUF_INVALID"),
    Piece(Len(EncodeUnsignedVarint(KEY_LENGTH)), "ERR_ENCODE_STR_FAILED"),
    Piece(KEY_LENGTH, "ERR_ENCODE_STR_FAILED"),
    Piece(1, "ERR_ENCODE_VALUE_TYPE_FAILED"),
    Piece(Len(dataBytes), "ERR_ENCODE_STR_FAILED"),
    Piece(data, "ERR_ENCODE_STR_FAILED")>>

(* Where each piece begins, and in the end the length used.                *)
Offsets(pieces) ==
  LET at[n \in 0..Len(pieces)] == IF n = 0 THEN 0 ELSE at[n - 1] + pieces[n].size
  IN  at

(* The pieces that find no room.                                           *)
Overflowing(pieces) == {n \in 1..Len(pieces) : Offsets(pieces)[n] > EVENT_BUFF_LEN}

FirstOf(ns) == CHOOSE n \in ns : \A m \in ns : n <= m

(* The type is an int of the caller, CheckEventType and InitEventHeader    *)
(* get its low byte.                                                       *)
LowByte(type) == type % 256

(* HiSysEventEasyWrite up to the socket: the error, or the event.          *)
CheckArgs(domain, name, type, data) ==
  IF domain = NoText \/ domain > MAX_DOMAIN_LENGTH THEN "ERR_DOMAIN_INVALID"
  ELSE IF name = NoText \/ name > MAX_EVENT_NAME_LENGTH THEN "ERR_NAME_INVALID"
  ELSE IF LowByte(type) \notin 1..4 THEN "ERR_TYPE_INVALID"
  ELSE IF ~Fits(domain, MAX_DOMAIN_LENGTH + 1) \/ ~Fits(name, MAX_EVENT_NAME_LENGTH + 1)
  THEN "ERR_MEM_OPT_FAILED"
  ELSE "none"

(* AppendHeader to AppendStringParam: data is checked before it is encoded. *)
BuildError(data) ==
  IF data = NoText \/ data > DATA_MAX_LEN THEN "ERR_PARAM_VALUE_INVALID"
  ELSE LET pieces == Pieces(EncodeUnsignedVarint(data), data)
       IN  IF Overflowing(pieces) = {} THEN "none" ELSE pieces[FirstOf(Overflowing(pieces))].err

(* InitEventHeader: the pid is read from /proc once and then kept; if it   *)
(* cannot be read, getpid() is used and nothing is kept.                   *)
HeaderPid(gPid, procPid, getpid) ==
  IF gPid # INVALID_PID THEN [pid |-> gPid, gPid |-> gPid]
  ELSE [pid |-> IF procPid # INVALID_PID THEN procPid ELSE getpid, gPid |-> procPid]

(* The event in the buffer: two bits hold the type.                        *)
EasyEvent(domain, name, type, data, pid) ==
  [blockSize |-> EVENT_BUFF_LEN, domain |-> domain, name |-> name, type |-> (LowByte(type) - 1) % 4,
   pid |-> pid, paramCount |-> 1, valueType |-> STR_PARAM_VALUE_TYPE,
   keyBytes |-> EncodeUnsignedVarint(KEY_LENGTH), dataBytes |-> EncodeUnsignedVarint(data),
   data |-> data, used |-> Offsets(Pieces(EncodeUnsignedVarint(data), data))[8]]

(* The loop of Write stops when a datagram is sent, when the error is not  *)
(* one that may pass, or after RETRY_TIMES attempts.                       *)
RetryErrors == {"EAGAIN", "EINTR"}

Attempts(sends) ==
  FirstOf({n \in 1..RETRY_TIMES : sends[n] \notin RetryErrors} \cup {RETRY_TIMES})

(* Write: socket says how far the set-up of the socket gets.               *)
WriteSocket(socket, sends) ==
  IF socket = "no socket" THEN [ret |-> "ERR_INIT_SOCKET_FAILED", sent |-> 0]
  ELSE IF socket = "no option" THEN [ret |-> "ERR_SET_SOCKET_OPT_FAILED", sent |-> 0]
  ELSE [ret |-> IF sends[Attempts(sends)] = "sent" THEN "SUCCESS" ELSE sends[Attempts(sends)],
        sent |-> Cardinality({n \in 1..Attempts(sends) : sends[n] = "sent"})]

(* HiSysEventEasyWrite: the code, the datagrams that leave the process and *)
(* the pid that is kept.                                                   *)
HiSysEventEasyWrite(a) ==
  LET Failed(err, gPid) == [ret |-> err, datagrams |-> <<>>, gPid |-> gPid]
      head == HeaderPid(a.gPid, a.procPid, a.getpid)
      out == WriteSocket(a.socket, a.sends)
  IN  IF CheckArgs(a.domain, a.name, a.type, a.data) # "none"
      THEN Failed(CheckArgs(a.domain, a.name, a.type, a.data), a.gPid)
      ELSE IF BuildError(a.data) # "none" THEN Failed(BuildError(a.data), head.gPid)
      ELSE [ret |-> out.ret, gPid |-> head.gPid,
            datagrams |-> [i \in 1..out.sent |-> EasyEvent(a.domain, a.name, a.type, a.data, head.pid)]]
================================================================================
