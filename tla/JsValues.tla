------------------------------- MODULE JsValues -------------------------------
(***************************************************************************)
(* Values on their way between a script and an event.  From a JS or ArkTS  *)
(* object to the parameters of an event that is written, and from the JSON *)
(* of an event to the object a watcher or querier gets.  The JS interface  *)
(* is napi_hisysevent_util.cpp, the ArkTS one hisysevent_ani.cpp with its  *)
(* util.                                                                   *)
(*                                                                         *)
(* Numbers are in halves as in EventRecord; a half stands for any fraction *)
(* IsFloatingNumber sees.  A double holds every whole and half number up   *)
(* to DoubleExact and every second whole number beyond.  A double that is  *)
(* less than 1e-9 farther from zero than a whole number is of the type     *)
(* "near": val is the whole number, neg its sign.                          *)
(*                                                                         *)
(* Where the C++ code casts a double to an integer type that cannot hold   *)
(* it, the result is one of those the processors give: an operator returns *)
(* the set of the possible results.                                        *)
(***************************************************************************)
EXTENDS EventRecord, CStrings

CONSTANTS
  DoubleExact,             (* 2^53                                          *)
  JS_STR_PARM_LEN_LIMIT,   (* longest string parameter of the JS interface  *)
  BUF_SIZE,                (* buffer a JS string is read into               *)
  BadKeys                  (* names CheckKeyTypeString refuses              *)

Js(type, val) == [type |-> type, val |-> val]

NaN == Js("nan", 0)
Near(val, neg) == [type |-> "near", val |-> val, neg |-> neg]

(* What napi_number stands for.                                            *)
NumberTypes == {"number", "near", "nan"}

(* js < 0 of a number.                                                     *)
IsNegative(js) == CASE js.type = "near" -> js.neg [] js.type = "number" -> js.val < 0 [] OTHER -> FALSE

Abs(n) == IF n < 0 THEN -n ELSE n

(* The double nearest to a number; of two, the one with an even mantissa.  *)
NearestDouble(halves) ==
  IF Abs(halves) <= 2 * DoubleExact THEN halves
  ELSE LET low == 4 * (Abs(halves) \div 4)
           rest == Abs(halves) - low
           up == rest = 3 \/ (rest = 2 /\ low % 8 # 0)
           size == IF up THEN low + 4 ELSE low
       IN  IF halves < 0 THEN -size ELSE size

(* static_cast between int64_t and uint64_t keeps the bits.                *)
WrapI64(halves) ==
  LET bits == (halves \div 2) % 2^Width
  IN  2 * (IF bits > MaxInt64 THEN bits - 2^Width ELSE bits)

WrapU64(halves) == 2 * ((halves \div 2) % 2^Width)

(* static_cast<uint64_t> of a whole double: a negative one is undefined,   *)
(* and becomes 0 or wraps.                                                 *)
DoubleToU64(halves) == IF halves < 0 THEN {0, WrapU64(halves)} ELSE {halves}

(* IsFloatingNumber casts to int64_t and back: undefined outside its       *)
(* range, where only 2^63 can come back unchanged.  A distance of 1e-9 is  *)
(* none.                                                                   *)
IsFloatingNumber(js) ==
  IF js.type \in {"nan", "near"} THEN {FALSE}
  ELSE IF ~IsWhole(js.val) THEN {TRUE}
  ELSE IF js.val \in 2 * MinInt64..2 * MaxInt64 THEN {FALSE}
  ELSE IF js.val = 2 * (MaxInt64 + 1) THEN {TRUE, FALSE}
  ELSE {TRUE}

Param(kind, vals) == [kind |-> kind, vals |-> vals]
-----------------------------------------------------------------------------
(* The JS interface.                                                       *)

(* ParseStringValue reads into a buffer, as much as fits, and out of it as *)
(* a C string.                                                             *)
ParseStringValue(chars) ==
  CString(IF Len(chars) > BUF_SIZE - 2 THEN SubSeq(chars, 1, BUF_SIZE - 2) ELSE chars)

(* A number: a double, a negative or an unsigned integer.  NaN is not      *)
(* floating and not negative, and its cast is undefined.                   *)
AddNumber(js) ==
  IF js.type = "nan" THEN {Param("u64", <<v>>) : v \in {0, 2 * (MaxInt64 + 1)}}
  ELSE {Param(IF f THEN "double" ELSE IF IsNegative(js) THEN "i64" ELSE "u64", <<js.val>>) :
          f \in IsFloatingNumber(js)}

FitsU64(whole) == whole >= 0 /\ whole <= MaxUInt64

(* A bigint, read as uint64_t if that is lossless, else as int64_t.        *)
AddBigInt(js) ==
  IF FitsU64(js.val) THEN Param("u64", <<2 * js.val>>)
  ELSE Param("i64", <<WrapI64(2 * js.val)>>)

(* The elements of a sequence that are in a set, in their order.           *)
Keep(seq, set) ==
  FlattenSeq([i \in 1..Len(seq) |-> IF seq[i] \in set THEN <<seq[i]>> ELSE <<>>])

ElementsOfType(elements, types) ==
  Keep(elements, {js \in Range(elements) : js.type \in types})

(* The items of a number array before the final conversion: floats says    *)
(* which are floating.  A negative number behind a floating one is cast to *)
(* uint64_t.                                                               *)
NumberItems(nums, floats) ==
  {items \in [1..Len(nums) -> UNION {DoubleToU64(nums[i].val) \cup {nums[i].val, 2 * (MaxInt64 + 1), 0} :
                                       i \in 1..Len(nums)}] :
     \A i \in 1..Len(nums) :
       IF nums[i].type = "nan" THEN items[i] \in {0, 2 * (MaxInt64 + 1)}
       ELSE IF floats[i] \/ (IsNegative(nums[i]) /\ \A j \in 1..(i - 1) : ~floats[j])
       THEN items[i] = nums[i].val
       ELSE items[i] \in DoubleToU64(nums[i].val)}

(* Mutant of ArrayOf: integers are put into an unsigned array.             *)
ArrayOfUnsigned(nums, floats, items) ==
  IF \E i \in 1..Len(nums) : floats[i]
  THEN Param("double array", items)
  ELSE Param("u64 array", [i \in 1..Len(items) |-> WrapU64(items[i])])

(* AppendParamsToEventInfo: one type for the whole array.                  *)
ArrayOf(nums, floats, items) ==
  IF \E i \in 1..Len(nums) : floats[i]
  THEN Param("double array", [i \in 1..Len(items) |-> NearestDouble(items[i])])
  ELSE IF \E i \in 1..Len(nums) : IsNegative(nums[i])
  THEN Param("i64 array", [i \in 1..Len(items) |-> WrapI64(items[i])])
  ELSE Param("u64 array", items)

AppendNumberArrayData(nums) ==
  UNION {{ArrayOf(nums, floats, items) : items \in NumberItems(nums, floats)} :
           floats \in {f \in [1..Len(nums) -> BOOLEAN] :
                         \A i \in 1..Len(nums) : f[i] \in IsFloatingNumber(nums[i])}}

AppendBigIntArrayData(nums) ==
  IF \E i \in 1..Len(nums) : ~FitsU64(nums[i].val)
  THEN Param("i64 array", [i \in 1..Len(nums) |-> WrapI64(2 * nums[i].val)])
  ELSE Param("u64 array", [i \in 1..Len(nums) |-> 2 * nums[i].val])

Vals(elements) == [i \in 1..Len(elements) |-> elements[i].val]

(* AddArrayParamToEventInfo: the first element decides; elements of        *)
(* another type are left out.                                              *)
AddArrayParam(elements) ==
  IF elements = <<>> THEN {}
  ELSE LET type == Head(elements).type
       IN  CASE type = "boolean" -> {Param("bool array", Vals(ElementsOfType(elements, {type})))}
             [] type \in NumberTypes -> AppendNumberArrayData(ElementsOfType(elements, NumberTypes))
             [] type = "bigint" -> {AppendBigIntArrayData(ElementsOfType(elements, {type}))}
             [] type = "string" ->
                  LET texts == ElementsOfType(elements, {type})
                  IN  {Param("string array", [i \in 1..Len(texts) |-> ParseStringValue(texts[i].val)])}
             [] OTHER -> {}

(* AddParamToEventInfo: the possible parameters of a value, none if it is  *)
(* of a type that is not written.                                          *)
AddParamToEventInfo(js) ==
  CASE js.type = "array" -> AddArrayParam(js.val)
    [] js.type = "boolean" -> {Param("bool", <<js.val>>)}
    [] js.type \in NumberTypes -> AddNumber(js)
    [] js.type = "string" -> {Param("string", <<ParseStringValue(js.val)>>)}
    [] js.type = "bigint" -> {AddBigInt(js)}
    [] OTHER -> {}

(* HasStrParamLenOverLimit of one parameter.                               *)
OverLimit(param) ==
  /\ param.kind \in {"string", "string array"}
  /\ \E i \in 1..Len(param.vals) : Len(param.vals[i]) > JS_STR_PARM_LEN_LIMIT

(* The possible event infos of the params object, a function from its keys *)
(* to their values: HiSysEventInfo::params is an unordered_map, whose      *)
(* order nothing may depend on.  A key is shorter than the buffer it is    *)
(* read into.  The promise is rejected, after the event was written, if a  *)
(* string is over the limit.                                               *)
JsEventInfo(props) ==
  LET kept == {k \in DOMAIN props \ BadKeys : AddParamToEventInfo(props[k]) # {}}
      ways == {w \in [kept -> UNION {AddParamToEventInfo(props[k]) : k \in kept}] :
                 \A k \in kept : w[k] \in AddParamToEventInfo(props[k])}
  IN  {[params |-> w, rejected |-> \E k \in kept : OverLimit(w[k])] : w \in ways}
-----------------------------------------------------------------------------
(* The ArkTS interface: the values are of the classes boolean, int, double *)
(* (NumberTypes), string and bigint; a bigint is cut to int64_t, a string  *)
(* ends at its first NUL, and a double stays what it is.                   *)
AniKinds == NumberTypes \cup {"boolean", "int", "string", "bigint"}

AniValue(js) ==
  CASE js.type = "int" -> 2 * js.val
    [] js.type = "bigint" -> WrapI64(2 * js.val)
    [] js.type = "string" -> CString(js.val)
    [] js.type \in {"near", "nan"} -> js
    [] OTHER -> js.val

AniKindOf ==
  [t \in AniKinds |-> CASE t = "boolean" -> "bool"
                        [] t \in NumberTypes \cup {"int"} -> "double"
                        [] t = "string" -> "string"
                        [] t = "bigint" -> "i64"]

(* AddParamsToEventInfo: whether a value is usable, and its parameter.     *)
AniUsable(js) ==
  IF js.type = "array" THEN js.val # <<>> /\ Head(js.val).type \in AniKinds
                       ELSE js.type \in AniKinds

(* GetBooleans, GetDoubles, GetStrings, GetIntsToDoubles and GetBigints.   *)
AniElements(elements) == [i \in 1..Len(elements) |-> AniValue(elements[i])]

AniParam(js) ==
  IF js.type = "array" THEN Param(AniKindOf[Head(js.val).type] \o " array", AniElements(js.val))
                       ELSE Param(AniKindOf[js.type], <<AniValue(js)>>)

(* ParseRecord puts the properties into a map; ParseParamsInSysEventInfo   *)
(* goes through it in the order of the names, up to the first value that   *)
(* is not usable.                                                          *)
AniEventInfo(props, names) ==
  LET parsed == DOMAIN props \ BadKeys
      reached == {i \in 1..Len(names) :
                    \A h \in 1..i : names[h] \in parsed => AniUsable(props[names[h]])}
  IN  [params |-> [k \in parsed \cap {names[i] : i \in reached} |-> AniParam(props[k])],
       rejected |-> FALSE]
-----------------------------------------------------------------------------
(* From JSON to the object of a script.                                    *)
BaseKeys == {"domain_", "name_", "type_"}

FitsInt(halves) == halves \in -(2^IntWidth)..(2^IntWidth - 2)
FitsUInt(halves) == halves \in 0..(2 * (2^IntWidth - 1))

(* Mutant of CreateJsItem: every whole number is read as a uint32_t.       *)
CreateJsItemNarrow(j) ==
  CASE j.type = "bool" -> {Js("boolean", j.val)}
    [] j.type = "string" -> {Js("string", j.val)}
    [] IsNumeric(j) /\ IsWhole(Halves(j)) -> {Js("number", 2 * ((Halves(j) \div 2) % 2^IntWidth))}
    [] IsNumeric(j) /\ ~IsWhole(Halves(j)) -> {Js("number", Halves(j))}
    [] OTHER -> {}

(* CreateParamItemTypeValue: {} for a type that has no value in the        *)
(* script.                                                                 *)
CreateJsItem(j) ==
  CASE j.type = "bool" -> {Js("boolean", j.val)}
    [] j.type = "string" -> {Js("string", j.val)}
    [] IsNumeric(j) ->
         IF IsWhole(Halves(j)) /\ (FitsInt(Halves(j)) \/ FitsUInt(Halves(j)))
         THEN {Js("number", Halves(j))}
         ELSE IF \/ IsInt64(j) /\ j.type # "uint"
                 \/ IsUInt64(j) /\ j.type # "int"
         THEN {Js("bigint", Halves(j) \div 2)}
         ELSE {Js("number", Halves(j))}
    [] OTHER -> {}

(* In ArkTS every number becomes a double.                                 *)
CreateAniDouble(j) == Js("number", NearestDouble(Halves(j)))

CreateAniItem(j) == IF IsNumeric(j) THEN {CreateAniDouble(j)} ELSE CreateJsItem(j)

(* What an array of the script shows for an item of a JSON array: an item  *)
(* without a value stays undefined.                                        *)
ArrayItem(items) == IF items = {} THEN Js("undefined", 0) ELSE CHOOSE js \in items : TRUE

(* AppendParamsInfo: an array keeps its length.                            *)
JsOfJson(j) ==
  IF j.type # "array" THEN CreateJsItem(j)
  ELSE {Js("array", [i \in 1..Len(j.val) |-> ArrayItem(CreateJsItem(j.val[i]))])}

AniOfJson(j) ==
  IF j.type # "array" THEN CreateAniItem(j)
  ELSE {Js("array", [i \in 1..Len(j.val) |-> ArrayItem(CreateAniItem(j.val[i]))])}

(* AppendBaseInfo: domain_ and name_ if they are strings, type_ if it fits *)
(* an int.                                                                 *)
BaseInfo(members) ==
  {k \in BaseKeys \cap DOMAIN members :
     IF k = "type_" THEN IsNumeric(members[k]) /\ IsWhole(Halves(members[k])) /\ FitsInt(Halves(members[k]))
                    ELSE members[k].type = "string"}

(* ToAniEnum: the item of the enum EventType, null for a type it lacks.    *)
ToAniEnum(halves) == IF halves \in {2, 4, 6, 8} THEN Js("enum", halves) ELSE Js("null", 0)

BaseValue(k, j, ani) ==
  IF k # "type_" THEN Js("string", j.val)
  ELSE IF ani THEN ToAniEnum(Halves(j))
  ELSE Js("number", Halves(j))

Base(members, ani) == [k \in BaseInfo(members) |-> BaseValue(k, members[k], ani)]

(* CreateHiSysEventInfoJsObject of the JS interface: params is an object   *)
(* with every other member that has a value.                               *)
JsObject(members) ==
  LET shown == {k \in DOMAIN members \ BaseKeys : JsOfJson(members[k]) # {}}
  IN  [base |-> Base(members, FALSE),
       params |-> Js("object", [k \in shown |-> CHOOSE js \in JsOfJson(members[k]) : TRUE])]

(* The ArkTS one sets the property "params" itself to the value of every   *)
(* member that has one, in the order of the names: the last stays.         *)
AniObject(members, names) ==
  LET shown == {i \in 1..Len(names) :
                  /\ names[i] \in DOMAIN members \ BaseKeys
                  /\ AniOfJson(members[names[i]]) # {}}
      last == CHOOSE i \in shown : \A h \in shown : h <= i
  IN  [base |-> Base(members, TRUE),
       params |-> IF shown = {} THEN Js("undefined", 0)
                  ELSE CHOOSE js \in AniOfJson(members[names[last]]) : TRUE]
================================================================================
