------------------------------ MODULE EventWriter ------------------------------
(***************************************************************************)
(* HiSysEvent::Write, from the call to the return code: the checks of      *)
(* domain and name, the base information, one step for each parameter,     *)
(* and the hand-over to the transport.  Two interfaces lead here: the C++  *)
(* templates, and HiSysEvent_Write of the C interface, whose parameters    *)
(* may hold null pointers and unknown types.                               *)
(*                                                                         *)
(* All of it works on an EventBase local to the call, so one call at a     *)
(* time says everything.  The frequency limit and the transport answer as  *)
(* WriteController and Transport say; memory may run out while the event   *)
(* is encoded.                                                             *)
(***************************************************************************)
EXTENDS RawData, StringFilter

CONSTANTS
  Calls,                  (* calls of Write: interface, domain, name, type  *)
  Params,                 (* parameters                                     *)
  MaxGiven,               (* parameters of one call                         *)
  Masked,                 (* domains in DOMAIN_MASKS                        *)
  Failures,               (* allocations may fail                           *)
  MAX_DOMAIN_LENGTH, MAX_EVENT_NAME_LENGTH, MAX_PARAM_NAME_LENGTH,
  MAX_ARRAY_SIZE, MAX_PARAM_NUMBER, MAX_STRING_LENGTH, MAX_DATA_SIZE

NoText == <<0>>           (* a null pointer: no text has the character 0    *)
NaN == 99                 (* a number that is not finite                    *)

SUCCESS == 0
ERR_DOMAIN_NAME_INVALID == -1
ERR_EVENT_NAME_INVALID == -2
ERR_DOES_NOT_INIT == -3
ERR_OVER_SIZE == -4
ERR_SEND_FAIL == -5
ERR_WRITE_IN_HIGH_FREQ == -6
ERR_DOMAIN_MASKED == -7
ERR_EMPTY_EVENT == -8
ERR_RAW_DATA_WROTE_EXCEPTION == -9
ERR_KEY_NAME_INVALID == 1
ERR_VALUE_LENGTH_TOO_LONG == 2
ERR_KEY_NUMBER_TOO_MUCH == 3
ERR_ARRAY_TOO_MUCH == 4
ERR_VALUE_INVALID == 5
NotReturned == 99

Kinds == {"signed", "unsigned", "float", "string", "invalid"}

(* The values of a parameter; a text is a sequence of characters.          *)
Values(kind) ==
  CASE kind = "unsigned" -> Nat [] kind = "string" -> Seq(Nat) [] OTHER -> Int

(* What int64_t and the narrower signed types hold.                        *)
IsInt64(val) == val >= -(2^(Width - 1)) /\ val < 2^(Width - 1)

ASSUME WriterAssumption ==
  /\ \A c \in Calls : /\ c.api \in {"cpp", "c"} /\ c.type \in 1..4
                      /\ c.domain \in Seq(Nat) /\ c.name \in Seq(Nat)
  /\ \A p \in Params : /\ p.kind \in Kinds /\ p.isArray \in BOOLEAN /\ p.null \in BOOLEAN
                       /\ p.key \in Seq(Nat) /\ p.vals \in Seq(Values(p.kind))
                       /\ p.isArray \/ Len(p.vals) = 1
                       /\ p.kind = "signed" => \A i \in 1..Len(p.vals) : IsInt64(p.vals[i])
  /\ Failures \in BOOLEAN
  /\ {MaxGiven, MAX_DOMAIN_LENGTH, MAX_EVENT_NAME_LENGTH, MAX_PARAM_NAME_LENGTH,
      MAX_ARRAY_SIZE, MAX_PARAM_NUMBER, MAX_STRING_LENGTH, MAX_DATA_SIZE} \subseteq Nat

VARIABLES
  pc,          (* where the call is                                         *)
  call,        (* its arguments, the parameters left out                    *)
  event,       (* its EventBase                                             *)
  result,      (* what Write returned                                       *)
  sent,        (* history: what the transport sent in this call, or <<>>    *)
  given,       (* history: the parameters of the call so far                *)
  kept,        (* history: those that are part of the event                 *)
  broken       (* history: the encoding of one stopped half way             *)

vars == <<pc, call, event, result, sent, given, kept, broken>>

NewEvent == [retCode |-> SUCCESS, paramCnt |-> 0, paramCntWroteOffset |-> 0,
             rawData |-> [data |-> <<>>, capacity |-> 0]]

Return(code) ==
  /\ pc' = "idle"
  /\ result' = code
-----------------------------------------------------------------------------
(* HiSysEvent_Write of the C interface returns for a null pointer.         *)
HiSysEvent_Write(c) ==
  \/ c.domain = NoText /\ Return(ERR_DOMAIN_NAME_INVALID)
  \/ c.domain # NoText /\ c.name = NoText /\ Return(ERR_EVENT_NAME_INVALID)

(* Write is called.  The template for a masked domain does nothing, the C  *)
(* interface looks for null pointers, and the frequency limit may refuse.  *)
Write(c) ==
  /\ pc = "idle"
  /\ call' = c
  /\ event' = NewEvent
  /\ sent' = <<>> /\ given' = <<>> /\ kept' = <<>> /\ broken' = FALSE
  /\ \/ c.api = "cpp" /\ c.domain \in Masked /\ Return(ERR_DOMAIN_MASKED)
     \/ c.api = "c" /\ HiSysEvent_Write(c)
     \/ /\ c.api = "cpp" => c.domain \notin Masked
        /\ c.api = "c" => c.domain # NoText /\ c.name # NoText
        /\ \/ Return(ERR_WRITE_IN_HIGH_FREQ)
           \/ pc' = "construct" /\ result' = NotReturned

(* The constructor of EventBase.                                           *)
EventBase ==
  /\ pc = "construct"
  /\ \/ /\ ~IsValidName(call.domain, MAX_DOMAIN_LENGTH)
        /\ Return(ERR_DOMAIN_NAME_INVALID)
     \/ /\ IsValidName(call.domain, MAX_DOMAIN_LENGTH)
        /\ ~IsValidName(call.name, MAX_EVENT_NAME_LENGTH)
        /\ Return(ERR_EVENT_NAME_INVALID)
     \/ /\ IsValidName(call.domain, MAX_DOMAIN_LENGTH)
        /\ IsValidName(call.name, MAX_EVENT_NAME_LENGTH)
        /\ pc' = "base"
        /\ UNCHANGED result
  /\ UNCHANGED <<call, event, sent, given, kept, broken>>

(* A text in an array of the header, filled up with zeros.                 *)
Padded(text, size) == [i \in 1..size |-> IF i <= Len(text) THEN text[i] ELSE 0]

(* HiSysEventHeader: two bits for the type, one for the trace.             *)
Header(trace) ==
  Padded(call.domain, MAX_DOMAIN_LENGTH + 1) \o Padded(call.name, MAX_EVENT_NAME_LENGTH + 1)
    \o <<((call.type - 1) % 4) + (IF trace THEN 4 ELSE 0)>>

(* WritebaseInfo: block size, header, trace info if a trace is open, and   *)
(* the place of the parameter count.  Any failed allocation ends the call. *)
WritebaseInfo(trace) ==
  LET before == <<<<0>>, Header(trace)>> \o (IF trace THEN <<<<1, 2, 3, 4>>>> ELSE <<>>)
      base   == AppendAll(NewRawData, before \o <<<<0>>>>, 0)
  IN  /\ pc = "base"
      /\ \/ /\ base.ok
            /\ event' = [event EXCEPT !.rawData = base.raw,
                                      !.paramCntWroteOffset = Len(FlattenSeq(before))]
            /\ pc' = "params"
            /\ UNCHANGED result
         \/ /\ Failures \/ ~base.ok
            /\ event' = [event EXCEPT !.retCode = ERR_RAW_DATA_WROTE_EXCEPTION]
            /\ Return(ERR_RAW_DATA_WROTE_EXCEPTION)
      /\ UNCHANGED <<call, sent, given, kept, broken>>
-----------------------------------------------------------------------------
(* What the Append functions of the C interface refuse before they look at *)
(* the key: unknown types, null strings and arrays, arrays with null items. *)
IsInvalid(p) == p.kind = "invalid" \/ p.null

(* Mutant of Refusal: one parameter too many.                              *)
RefusalOffByOne(p) ==
  CASE IsInvalid(p)                                 -> ERR_VALUE_INVALID
    [] ~IsValidName(p.key, MAX_PARAM_NAME_LENGTH)   -> ERR_KEY_NAME_INVALID
    [] event.paramCnt > MAX_PARAM_NUMBER            -> ERR_KEY_NUMBER_TOO_MUCH
    [] OTHER                                        -> SUCCESS

(* The code for a parameter that is left out: CheckParamValidity, behind   *)
(* the checks of the C interface.                                          *)
Refusal(p) ==
  CASE IsInvalid(p)                                 -> ERR_VALUE_INVALID
    [] ~IsValidName(p.key, MAX_PARAM_NAME_LENGTH)   -> ERR_KEY_NAME_INVALID
    [] event.paramCnt >= MAX_PARAM_NUMBER           -> ERR_KEY_NUMBER_TOO_MUCH
    [] OTHER                                        -> SUCCESS

(* CheckValue for every item, CheckArraySize for an array that is not      *)
(* empty; the last warning counts.                                         *)
Warning(p) ==
  CASE p.kind = "string" /\ \E i \in 1..Len(p.vals) : Len(p.vals[i]) > MAX_STRING_LENGTH
         -> ERR_VALUE_LENGTH_TOO_LONG
    [] p.isArray /\ Len(p.vals) > MAX_ARRAY_SIZE -> ERR_ARRAY_TOO_MUCH
    [] OTHER -> SUCCESS

ValueType(kind) ==
  CASE kind = "signed" -> INT64 [] kind = "unsigned" -> UINT64
    [] kind = "float" -> FLOAT [] kind = "string" -> STRING_TYPE

ValueChunks(kind, val) ==
  CASE kind = "signed"   -> VarintChunks(VARINT, ZigZag(val))
    [] kind = "unsigned" -> VarintChunks(VARINT, val)
    [] kind = "float"    -> FloatChunks(IF val = NaN THEN 0 ELSE val)
    [] kind = "string"   -> StringChunks(EscapeToRaw(val))

(* The values an array parameter keeps: its constructor stops at           *)
(* MAX_ARRAY_SIZE.                                                         *)
KeptValues(p) == IF p.isArray /\ Len(p.vals) > MAX_ARRAY_SIZE
                 THEN SubSeq(p.vals, 1, MAX_ARRAY_SIZE) ELSE p.vals

(* Encode: the key, the type of the value, the value or the values.  An    *)
(* empty array is an array of bool, whatever the type of the parameter.    *)
ParamChunks(p) ==
  LET vals == KeptValues(p)
      kind == IF vals = <<>> THEN "signed" ELSE p.kind
  IN  StringChunks(p.key) \o TypeChunks(p.isArray, ValueType(kind))
        \o (IF p.isArray THEN VarintChunks(LENGTH_DELIMITED, Len(vals)) ELSE <<>>)
        \o FlattenSeq([i \in 1..Len(vals) |-> ValueChunks(kind, vals[i])])

Takes(p) ==
  /\ pc = "params"
  /\ Len(given) < MaxGiven
  /\ p.kind = "invalid" \/ p.null => call.api = "c"
  /\ given' = Append(given, p)
  /\ UNCHANGED <<pc, call, result, sent>>

(* A parameter is left out; the next one has its turn.                     *)
RefuseParam(p) ==
  /\ Takes(p)
  /\ Refusal(p) # SUCCESS
  /\ event' = [event EXCEPT !.retCode = Refusal(p)]
  /\ UNCHANGED <<kept, broken>>

(* The calls of Append after which memory may be out, 0 for none.          *)
Stops(chunks) == IF Failures THEN 0..Len(chunks) ELSE {0}

(* The parameter is in the event, or its encoding stopped half way.        *)
Encoded(p, encoded) ==
  /\ kept' = IF encoded.ok THEN Append(kept, p) ELSE kept
  /\ broken' = (broken \/ ~encoded.ok)

(* Mutant of AppendParam: a parameter without a warning clears the code.   *)
AppendParamClears(p) ==
  /\ Takes(p)
  /\ Refusal(p) = SUCCESS
  /\ \E stop \in Stops(ParamChunks(p)) :
       LET encoded == AppendAll(event.rawData, ParamChunks(p), stop)
       IN  /\ event' = [event EXCEPT !.retCode = Warning(p), !.rawData = encoded.raw,
                                     !.paramCnt = IF encoded.ok THEN @ + 1 ELSE @]
           /\ Encoded(p, encoded)

(* A parameter is encoded into the event, and counted if that succeeds.    *)
AppendParam(p) ==
  /\ Takes(p)
  /\ Refusal(p) = SUCCESS
  /\ \E stop \in Stops(ParamChunks(p)) :
       LET encoded == AppendAll(event.rawData, ParamChunks(p), stop)
       IN  /\ event' = [event EXCEPT !.retCode = IF Warning(p) # SUCCESS THEN Warning(p) ELSE @,
                                     !.rawData = encoded.raw,
                                     !.paramCnt = IF encoded.ok THEN @ + 1 ELSE @]
           /\ Encoded(p, encoded)
-----------------------------------------------------------------------------
(* GetEventRawData writes block size and parameter count into the data.    *)
GetEventRawData ==
  LET sized == Update(event.rawData, <<Len(event.rawData.data)>>, 0)
  IN  Update(sized, <<event.paramCnt>>, event.paramCntWroteOffset)

(* What SendData of the transport may answer.                              *)
SendCodes(data) ==
  CASE Len(data) = 0             -> {ERR_EMPTY_EVENT}
    [] Len(data) > MAX_DATA_SIZE -> {ERR_OVER_SIZE}
    [] OTHER                     -> {SUCCESS, ERR_DOES_NOT_INIT, ERR_SEND_FAIL}

(* SendSysEvent, behind the last parameter: an error of the transport      *)
(* replaces the code, success leaves it.  Parameters cause warnings only,  *)
(* so the check for an error in between never ends the call.               *)
SendSysEvent(r) ==
  /\ pc = "params"
  /\ r \in SendCodes(GetEventRawData.data)
  /\ event' = [event EXCEPT !.rawData = GetEventRawData,
                            !.retCode = IF r # SUCCESS THEN r ELSE @]
  /\ sent' = IF r = SUCCESS THEN GetEventRawData.data ELSE <<>>
  /\ Return(IF r # SUCCESS THEN r ELSE event.retCode)
  /\ UNCHANGED <<call, given, kept, broken>>
-----------------------------------------------------------------------------
Init ==
  /\ pc = "idle"
  /\ call \in Calls
  /\ event = NewEvent
  /\ result = NotReturned
  /\ sent = <<>> /\ given = <<>> /\ kept = <<>> /\ broken = FALSE

Next ==
  \/ \E c \in Calls : Write(c)
  \/ EventBase
  \/ \E trace \in BOOLEAN : WritebaseInfo(trace)
  \/ \E p \in Params : RefuseParam(p) \/ AppendParam(p)
  \/ \E r \in {SUCCESS, ERR_DOES_NOT_INIT, ERR_OVER_SIZE, ERR_SEND_FAIL} : SendSysEvent(r)

Spec == Init /\ [][Next]_vars
-----------------------------------------------------------------------------
(* The variables keep their types; an event never counts more than         *)
(* MAX_PARAM_NUMBER parameters, and its data fits into its buffer.         *)
TypeOK ==
  /\ pc \in {"idle", "construct", "base", "params"}
  /\ call \in Calls
  /\ event.retCode \in -9..5
  /\ event.paramCnt \in 0..MAX_PARAM_NUMBER
  /\ event.paramCntWroteOffset \in Nat
  /\ Len(event.rawData.data) <= event.rawData.capacity
  /\ result \in -9..5 \cup {NotReturned}
  /\ given \in Seq(Params) /\ Len(given) <= MaxGiven
  /\ kept \in Seq(Params)
  /\ broken \in BOOLEAN

(***************************************************************************)
(* The comment of HiSysEventWrite: "0 means success, greater than 0 also   *)
(* means success but with some data ignored, less than 0 means failure".   *)
(* After 0 the transport has the event and, unless memory ran out, every   *)
(* parameter with all its values; after a warning it has the event; after  *)
(* an error the event did not get out before the call returned (Transport  *)
(* says what becomes of an event that it could not send).                  *)
(***************************************************************************)
ResultIsTrue ==
  pc = "idle" /\ result # NotReturned =>
    /\ result >= 0 <=> sent # <<>>
    /\ result = SUCCESS /\ ~broken =>
         kept = given /\ \A i \in 1..Len(kept) : KeptValues(kept[i]) = kept[i].vals
================================================================================
