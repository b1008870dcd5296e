------------------------------ MODULE EventRecord ------------------------------
(***************************************************************************)
(* What a listener or a querier reads out of an event: HiSysEventRecord    *)
(* over a parsed JSON text, the C getters, and the conversion of a record  *)
(* to the C struct that the C callbacks get.                               *)
(*                                                                         *)
(* The values are jsoncpp's.  Numbers are counted in halves, so that reals *)
(* have a fraction; int64_t and uint64_t are Width bits wide and int is    *)
(* IntWidth bits wide.  A text is the sequence of its characters: a        *)
(* hexadecimal digit is its value, every other character is OtherChar.     *)
(***************************************************************************)
EXTENDS Integers, Sequences, FiniteSets

CONSTANTS
  Width,         (* bits of int64_t and uint64_t                            *)
  IntWidth,      (* bits of int                                             *)
  MaxCString     (* longest text a C getter returns (8 KB in the code)      *)

MinInt64 == -(2^(Width - 1))
MaxInt64 == 2^(Width - 1) - 1
MaxUInt64 == 2^Width - 1

OtherChar == 16

Json(type, val) == [type |-> type, val |-> val]

IntegerTypes == {"int", "uint"}

(* The number a JSON number stands for, in halves.                         *)
Halves(j) == IF j.type \in IntegerTypes THEN 2 * j.val ELSE j.val

IsWhole(halves) == halves % 2 = 0

IsNumeric(j) == j.type \in {"int", "uint", "real"}

(* Json::Value::isInt64 and isUInt64.                                      *)
IsInt64(j) ==
  IsNumeric(j) /\ IsWhole(Halves(j)) /\ Halves(j) >= 2 * MinInt64 /\ Halves(j) <= 2 * MaxInt64

IsUInt64(j) ==
  IsNumeric(j) /\ IsWhole(Halves(j)) /\ Halves(j) >= 0 /\ Halves(j) <= 2 * MaxUInt64

(* Mutant of IsUInt64ValueType: every number counts as unsigned.           *)
IsAnyNumber(j) == IsNumeric(j) \/ j.type \in {"null", "bool"}

IsInt64ValueType(j) == IsInt64(j) \/ j.type \in {"null", "bool"}
IsUInt64ValueType(j) == IsUInt64(j) \/ j.type \in {"null", "bool"}
IsDoubleValueType(j) == IsNumeric(j) \/ j.type \in {"null", "bool"}
IsStringValueType(j) == j.type \in {"null", "bool", "int", "uint", "real", "string"}

(* The filter of the getter of a kind, for a scalar or the first element.  *)
HasType(kind, j) ==
  CASE kind = "int64" -> IsInt64ValueType(j)
    [] kind = "uint64" -> IsUInt64ValueType(j)
    [] kind = "double" -> IsDoubleValueType(j)
    [] kind = "string" -> IsStringValueType(j)

Throws == [throws |-> TRUE, value |-> 0]
Value(v) == [throws |-> FALSE, value |-> v]

(* null and bool as a number, in halves.                                   *)
AsPlainNumber(j) == IF j.type = "bool" /\ j.val THEN 2 ELSE 0

(* C++ conversion of a real to an integer drops the fraction.              *)
Truncated(halves) == IF halves >= 0 THEN 2 * (halves \div 2) ELSE -(2 * ((-halves) \div 2))

(* A text: that of a JSON string, or of the number or flag j.              *)
Text(chars) == [of |-> "chars", chars |-> chars]
Formatted(j) == [of |-> "value", json |-> j]

(* Json::Value::asInt64, asUInt64, asDouble and asString: they throw for   *)
(* what does not convert.                                                  *)
As(kind, j) ==
  CASE kind = "string" /\ j.type = "null" -> Value(Text(<<>>))
    [] kind = "string" /\ j.type = "string" -> Value(Text(j.val))
    [] kind = "string" /\ (IsNumeric(j) \/ j.type = "bool") -> Value(Formatted(j))
    [] kind # "string" /\ j.type \in {"null", "bool"} -> Value(AsPlainNumber(j))
    [] kind = "double" /\ IsNumeric(j) -> Value(Halves(j))
    [] kind = "int64" /\ IsNumeric(j) ->
         IF Truncated(Halves(j)) \in 2 * MinInt64..2 * MaxInt64 THEN Value(Truncated(Halves(j)))
                                                               ELSE Throws
    [] kind = "uint64" /\ IsNumeric(j) ->
         IF Truncated(Halves(j)) \in 0..2 * MaxUInt64 THEN Value(Truncated(Halves(j))) ELSE Throws
    [] OTHER -> Throws

(* HiSysEventValue::AsInt64 and AsUInt64 answer 0 where jsoncpp throws.    *)
AsGuarded(kind, j) ==
  IF \/ kind = "int64" /\ IsNumeric(j) /\ As(kind, j).throws
     \/ kind = "uint64" /\ IsNumeric(j) /\ As(kind, j).throws
  THEN Value(0)
  ELSE As(kind, j)
-----------------------------------------------------------------------------
(* A record: the text was parsed or not; the root is an object, or not.    *)
Record(parsed, root) == [parsed |-> parsed, root |-> root]

Members(record) ==
  IF record.parsed /\ record.root.type = "object" THEN DOMAIN record.root.val ELSE {}

Answer(ret, out) == [ret |-> ret, out |-> out]

(* A scalar that passed the filter, assigned to the caller's variable.     *)
AssignScalar(kind, j) ==
  LET got == AsGuarded(kind, j)
  IN  IF got.throws THEN Answer("throws", <<>>) ELSE Answer("ok", <<got.value>>)

(* An array whose first element passed the filter: the elements are        *)
(* converted one after the other, without the guards.                      *)
AssignArray(kind, elements) ==
  LET got == [i \in 1..Len(elements) |-> As(kind, elements[i])]
  IN  IF \E i \in 1..Len(got) : got[i].throws
      THEN Answer("throws", <<>>)
      ELSE Answer("ok", [i \in 1..Len(got) |-> got[i].value])

(* Mutant of GetParamValue: the first element of an array is not checked.  *)
GetParamValueUnfiltered(record, param, kind, isArray) ==
  IF ~record.parsed THEN Answer("ERR_INIT_FAILED", <<>>)
  ELSE IF param \notin Members(record) THEN Answer("ERR_KEY_NOT_EXIST", <<>>)
  ELSE LET j == record.root.val[param]
       IN  IF isArray
           THEN IF j.type # "array" THEN Answer("ERR_TYPE_NOT_MATCH", <<>>)
                                    ELSE AssignArray(kind, j.val)
           ELSE IF ~HasType(kind, j) THEN Answer("ERR_TYPE_NOT_MATCH", <<>>)
                                     ELSE AssignScalar(kind, j)

(* HiSysEventRecord::GetParamValue of a kind, scalar or vector.            *)
GetParamValue(record, param, kind, isArray) ==
  IF ~record.parsed THEN Answer("ERR_INIT_FAILED", <<>>)
  ELSE IF param \notin Members(record) THEN Answer("ERR_KEY_NOT_EXIST", <<>>)
  ELSE LET j == record.root.val[param]
       IN  IF isArray
           THEN IF j.type # "array" \/ (j.val # <<>> /\ ~HasType(kind, Head(j.val)))
                THEN Answer("ERR_TYPE_NOT_MATCH", <<>>)
                ELSE AssignArray(kind, j.val)
           ELSE IF ~HasType(kind, j) THEN Answer("ERR_TYPE_NOT_MATCH", <<>>)
                                     ELSE AssignScalar(kind, j)

(* The getters of the base fields: 0 or the empty text when the field is   *)
(* missing or of another type.                                             *)
ValueByKey(record, field, kind) ==
  LET got == GetParamValue(record, field, kind, FALSE)
  IN  IF got.ret = "ok" THEN got.out[1] ELSE IF kind = "string" THEN Text(<<>>) ELSE 0

(* static_cast<int> of an int64_t, in halves (GetEventType, GetTraceFlag). *)
GetIntValueByKey(record, field) ==
  LET whole == ValueByKey(record, field, "int64") \div 2
      low == whole % 2^IntWidth
  IN  2 * (IF low >= 2^(IntWidth - 1) THEN low - 2^IntWidth ELSE low)

(* The hexadecimal digits at the beginning of a text, as a number; the     *)
(* stream stops at the largest value.                                      *)
HexNumber(chars) ==
  LET ends == {n \in 0..Len(chars) : \A i \in 1..n : chars[i] # OtherChar}
      digits == CHOOSE n \in ends : \A m \in ends : m <= n
      num[n \in 0..digits] == IF n = 0 THEN 0 ELSE 16 * num[n - 1] + chars[n]
  IN  IF num[digits] > MaxUInt64 THEN MaxUInt64 ELSE num[digits]

(* The hexadecimal reading of what jsoncpp formats: "false" begins with    *)
(* two digits, a number is one decimal digit with a sign the stream takes. *)
FormattedHex(j) ==
  LET whole == Truncated(Halves(j)) \div 2
  IN  CASE j.type = "bool" -> IF j.val THEN 0 ELSE HexNumber(<<15, 10>>)
        [] IsNumeric(j) ->
             IF whole > MaxUInt64 \/ -whole > MaxUInt64 THEN MaxUInt64 ELSE whole % 2^Width

(* GetTraceId: the trace id is stored as hexadecimal text.                 *)
GetTraceId(record) ==
  LET text == ValueByKey(record, "traceid_", "string")
  IN  IF text.of = "chars" THEN HexNumber(text.chars) ELSE FormattedHex(text.json)
-----------------------------------------------------------------------------
(* The C getters.  The caller's length and pointer are left alone for an   *)
(* empty array; a text longer than MaxCString fails; memory may be out,    *)
(* which a string array does not report.                                   *)
CAnswer(ret, len, data) == [ret |-> ret, len |-> len, data |-> data]

Untouched == -1
NoData == <<>>

TooLong(text) == text.of = "chars" /\ Len(text.chars) > MaxCString

(* StringUtil::ConvertCStringVec, with or without memory.                  *)
ConvertCStringVec(texts, memory) ==
  IF texts = <<>> THEN CAnswer("ok", Untouched, NoData)
  ELSE IF ~memory THEN CAnswer("ok", Len(texts), NoData)
  ELSE IF \E i \in 1..Len(texts) : TooLong(texts[i]) THEN CAnswer("failed", Len(texts), NoData)
  ELSE CAnswer("ok", Len(texts), texts)

(* Mutant of GetParamValues: the length is set behind the return for an    *)
(* empty array only, not for the others.                                   *)
GetParamValuesNoLength(record, param, kind, memory) ==
  LET got == GetParamValue(record, param, kind, TRUE)
  IN  IF got.ret # "ok" THEN CAnswer(got.ret, Untouched, NoData)
      ELSE IF kind = "string" THEN ConvertCStringVec(got.out, memory)
      ELSE IF got.out = <<>> \/ ~memory THEN CAnswer("ok", Untouched, NoData)
      ELSE CAnswer("ok", Untouched, got.out)

(* OH_HiSysEvent_GetParam...Values.                                        *)
GetParamValues(record, param, kind, memory) ==
  LET got == GetParamValue(record, param, kind, TRUE)
  IN  IF got.ret # "ok" THEN CAnswer(got.ret, Untouched, NoData)
      ELSE IF kind = "string" THEN ConvertCStringVec(got.out, memory)
      ELSE IF got.out = <<>> THEN CAnswer("ok", Untouched, NoData)
      ELSE IF ~memory THEN CAnswer("ERR_NULL", Len(got.out), NoData)
      ELSE CAnswer("ok", Len(got.out), got.out)

(* OH_HiSysEvent_GetParam...Value; without memory only a text fails.       *)
GetParamScalar(record, param, kind, memory) ==
  LET got == GetParamValue(record, param, kind, FALSE)
  IN  IF got.ret # "ok" THEN CAnswer(got.ret, Untouched, NoData)
      ELSE IF kind = "string" /\ (~memory \/ TooLong(got.out[1]))
      THEN CAnswer("failed", Untouched, NoData)
      ELSE CAnswer("ok", 1, got.out)
-----------------------------------------------------------------------------
(* The fields of the C struct in the order ConvertRecord fills them.  The  *)
(* text fields fail when the text is too long, the last three also when    *)
(* memory is out.                                                          *)
CFields == <<"domain", "eventName", "type", "tz", "ids", "level", "tag", "jsonStr">>

PointerFields == {"level", "tag", "jsonStr"}

(* ConvertRecord: the fields filled before the first that fails.           *)
ConvertRecord(bad) ==
  LET good == {n \in 0..Len(CFields) : \A i \in 1..n : CFields[i] \notin bad}
  IN  CHOOSE n \in good : \A m \in good : m <= n

Filled(n) == {CFields[i] : i \in 1..n}

Converted(bad) == ConvertRecord(bad) = Len(CFields)

(* DeleteRecords of the first n of the batch: the pointers they hold.      *)
Deleted(batch, n) == {p \in (1..n) \X PointerFields : p[2] \in Filled(ConvertRecord(batch[p[1]]))}

(* HiSysEventListenerC::OnEvent: the record is delivered as far as it was  *)
(* converted, then its pointers are deleted.                               *)
OnEventC(bad) ==
  [delivered |-> <<Filled(ConvertRecord(bad))>>,
   allocated |-> Deleted(<<bad>>, 1), deleted |-> Deleted(<<bad>>, 1)]

(* The records OnQuery converts, up to the first that fails.               *)
Attempted(batch) ==
  LET tried == {n \in 1..Len(batch) : \A i \in 1..(n - 1) : Converted(batch[i])}
  IN  CHOOSE n \in tried : \A m \in tried : m <= n

(* Mutant of OnQueryC: the record that failed is not deleted.              *)
OnQueryCLeaks(batch) ==
  LET n == Attempted(batch)
  IN  IF Converted(batch[n])
      THEN [delivered |-> [i \in 1..n |-> Filled(ConvertRecord(batch[i]))],
            allocated |-> Deleted(batch, n), deleted |-> Deleted(batch, n)]
      ELSE [delivered |-> <<>>, allocated |-> Deleted(batch, n), deleted |-> Deleted(batch, n - 1)]

(* HiSysEventQueryCallbackC::OnQuery for a batch that is not empty.        *)
OnQueryC(batch) ==
  LET n == Attempted(batch)
  IN  [delivered |-> IF Converted(batch[n])
                     THEN [i \in 1..n |-> Filled(ConvertRecord(batch[i]))]
                     ELSE <<>>,
       allocated |-> Deleted(batch, n), deleted |-> Deleted(batch, n)]
================================================================================
