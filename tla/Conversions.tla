------------------------------ MODULE Conversions ------------------------------
(***************************************************************************)
(* The conversions of the client interfaces, one call at a time: what a    *)
(* caller passes in and what comes out, checked against what the value     *)
(* means.  Every action is one function of an interface; call keeps its    *)
(* arguments and answer its result.                                        *)
(***************************************************************************)
EXTENDS JsValues, EasyWriter, RustConversions

CONSTANTS
  JsonValues,    (* what a parameter of an event may hold                   *)
  JsonScalars,   (* those that are not arrays                               *)
  JsValuesIn,    (* values a script may write                               *)
  JsPairs,       (* values of events with two parameters                    *)
  Batches,       (* query results: for every event the fields that fail     *)
  EasyCalls,     (* arguments of HiSysEventEasyWrite                        *)
  RustNames,     (* lists of event names of a Rust query rule               *)
  Fills          (* what uninitialised or freed memory may hold             *)

(* The types of a JSON value.                                              *)
JsonKinds == {"null", "bool", "int", "uint", "real", "string", "array", "object"}

(* A value as jsoncpp parses it: the elements of an array are again values *)
(* of JsonValues.                                                          *)
Typed(j) ==
  /\ j.type \in JsonKinds
  /\ IsNumeric(j) => j.val \in Int
  /\ j.type = "bool" => j.val \in BOOLEAN
  /\ j.type = "string" => j.val \in Seq(0..OtherChar)
  /\ j.type = "array" => j.val \in Seq(JsonValues)

ASSUME JsonAssumption ==
  /\ \A j \in JsonValues : Typed(j)
  /\ JsonScalars \subseteq JsonValues /\ \A j \in JsonScalars : j.type # "array"
  /\ DoubleExact \in Nat

(* The powers of two of the integer types, which have at least four bits   *)
(* and one: what is used of them, since the provers know nothing of ^.     *)
ASSUME WidthAssumption ==
  /\ {2^Width, 2^(Width - 1), 2^IntWidth, 2^(IntWidth - 1)} \subseteq Nat
  /\ 2^Width = 2 * 2^(Width - 1) /\ 2^(Width - 1) >= 8
  /\ 2^IntWidth = 2 * 2^(IntWidth - 1) /\ 2^(IntWidth - 1) > 0

(* The fields of the C struct, any of which may fail to be read.           *)
AllFields == {CFields[i] : i \in 1..Len(CFields)}

ASSUME BatchAssumption ==
  \A batch \in Batches : batch \in Seq(SUBSET AllFields) /\ batch # <<>>

(* Texts are NULL or have a length; sendto() sends or sets errno.          *)
ASSUME EasyAssumption ==
  \A a \in EasyCalls :
    /\ {a.domain, a.name, a.data} \subseteq Nat \cup {NoText} /\ a.type \in Int
    /\ a.socket \in {"ok", "no socket", "no option"}
    /\ a.sends \in [1..RETRY_TIMES -> STRING \ {"SUCCESS"}]

(* What a script may write: numbers are doubles, the elements of an array  *)
(* no arrays.                                                              *)
JsTypes == NumberTypes \cup {"boolean", "bigint", "string", "int", "undefined", "object"}

JsTyped(js) ==
  /\ js.type \in JsTypes \cup {"array"}
  /\ js.type = "number" => js.val \in Int /\ (Abs(js.val) <= 2 * DoubleExact \/ js.val % 4 = 0)
  /\ js.type = "near" =>
       /\ js.val \in 2 * MinInt64..2 * MaxInt64 /\ IsWhole(js.val) /\ Abs(js.val) <= 2 * DoubleExact
       /\ js.neg \in BOOLEAN
       /\ js.val < 0 => js.neg
       /\ js.val > 0 => ~js.neg
  /\ js.type \in {"bigint", "int"} => js.val \in Int
  /\ js.type = "boolean" => js.val \in BOOLEAN
  /\ js.type = "string" => js.val \in Seq(Nat)

ASSUME JsValuesAssumption ==
  /\ \A js \in JsValuesIn \cup JsPairs :
       /\ JsTyped(js)
       /\ js.type = "array" => js.val \in Seq({e \in Range(js.val) : JsTyped(e) /\ e.type # "array"})
  /\ JS_STR_PARM_LEN_LIMIT \in Nat /\ BUF_SIZE \in Nat /\ JS_STR_PARM_LEN_LIMIT < BUF_SIZE - 2

(* A rule has event names, without a NUL, since CString::new panics on     *)
(* one; the array of a rule holds as many and as long names as it may      *)
(* have, with the bars between them (339 = 10 * 33 + 9).  Memory is known  *)
(* as far as the longest array reaches.                                    *)
ArrayLengths ==
  {MAX_LENGTH_OF_EVENT_NAME, MAX_LENGTH_OF_EVENT_DOMAIN, MAX_LENGTH_OF_EVENT_TAG,
   MAX_LENGTH_OF_PARAM_NAME}

ASSUME RustNamesAssumption ==
  /\ RustNames \subseteq Seq(Seq(Nat \ {NUL})) \ {<<>>}
  /\ NUL \in Nat /\ BAR \in Nat \ {NUL}
  /\ ArrayLengths \cup {MAX_EVENT_LIST_LEN, MAX_NUMBER_OF_EVENT_LIST} \subseteq Nat \ {0}
  /\ MAX_EVENT_LIST_LEN >= MAX_NUMBER_OF_EVENT_LIST * (MAX_LENGTH_OF_EVENT_NAME + 1) - 1
  /\ \A held \in Fills : held \in Seq(Nat) /\ \A n \in ArrayLengths : Len(held) >= n

VARIABLES
  call,          (* the call and its arguments                              *)
  answer         (* its result                                              *)

cvars == <<call, answer>>

Idle == [api |-> "none"]

Kinds == {"int64", "uint64", "double", "string"}

Root(name, j) == Json("object", [n \in {name} |-> j])

(* A record that holds j, and the two that hold nothing.                   *)
RecordOf(j) == Record(TRUE, Root("p", j))
NoRecords == {Record(FALSE, Json("null", 0)), Record(TRUE, Json("array", <<>>))}

Called(c) == call' = c
-----------------------------------------------------------------------------
(* HiSysEventRecord::GetParamValue and the C getters over it.              *)
ReadParam ==
  \E record \in {RecordOf(j) : j \in JsonValues} \cup NoRecords, kind \in Kinds, isArray \in BOOLEAN :
    /\ Called([api |-> "param", record |-> record, kind |-> kind, isArray |-> isArray])
    /\ answer' = GetParamValue(record, "p", kind, isArray)

ReadParamC ==
  \E j \in JsonValues, kind \in Kinds, isArray, memory \in BOOLEAN :
    /\ Called([api |-> "c", record |-> RecordOf(j), kind |-> kind, isArray |-> isArray, memory |-> memory])
    /\ answer' = IF isArray THEN GetParamValues(RecordOf(j), "p", kind, memory)
                            ELSE GetParamScalar(RecordOf(j), "p", kind, memory)

(* The getters of the base fields.                                         *)
ReadBase ==
  \E j \in JsonScalars, field \in {"type_", "time_", "domain_", "traceid_"} :
    LET record == Record(TRUE, Root(field, j))
    IN  /\ Called([api |-> "base", field |-> field, json |-> j])
        /\ answer' = CASE field = "type_" -> [got |-> GetIntValueByKey(record, field)]
                       [] field = "time_" -> [got |-> ValueByKey(record, field, "uint64")]
                       [] field = "domain_" -> [got |-> ValueByKey(record, field, "string")]
                       [] field = "traceid_" -> [got |-> GetTraceId(record)]

(* The C callbacks.                                                        *)
DeliverC ==
  \E batch \in Batches, query \in BOOLEAN :
    /\ query \/ Len(batch) = 1
    /\ Called([api |-> "deliver", batch |-> batch, query |-> query])
    /\ answer' = IF query THEN OnQueryC(batch) ELSE OnEventC(batch[1])

(* write of the JS and of the ArkTS interface: one or two properties, with *)
(* a valid and an invalid name.                                            *)
Props ==
  {[n \in {"a"} |-> v] : v \in JsValuesIn}
    \cup {[n \in {k, "b"} |-> IF n = "b" THEN w ELSE v] :
            k \in {"a"} \cup BadKeys, v \in JsPairs, w \in JsPairs}

(* The names in the order of a std::map.                                   *)
PropNames == <<"a", "b">>

WriteJs ==
  \E props \in Props :
    /\ Called([api |-> "js", props |-> props])
    /\ answer' \in JsEventInfo(props)

(* An ArkTS array has elements of one class.                               *)
Family(type) == IF type \in NumberTypes THEN "number" ELSE type

SameClass(v) ==
  v.type = "array" => \A i \in 1..Len(v.val) : Family(v.val[i].type) = Family(v.val[1].type)

WriteAni ==
  \E props \in Props :
    /\ \A k \in DOMAIN props : SameClass(props[k])
    /\ Called([api |-> "ani", props |-> props])
    /\ answer' = AniEventInfo(props, PropNames)

(* The object a watcher or a querier gets.                                 *)
ParamNames == <<"domain_", "name_", "p", "q", "type_">>

Shown ==
  {[p |-> j, domain_ |-> Json("string", <<16>>), type_ |-> Json("int", 1)] : j \in JsonValues}
    \cup {[p |-> i, q |-> j, type_ |-> i, name_ |-> j] : i \in JsonScalars, j \in JsonScalars}

ShowJs ==
  \E members \in Shown :
    /\ Called([api |-> "show", members |-> members, ani |-> FALSE])
    /\ answer' = JsObject(members)

ShowAni ==
  \E members \in Shown :
    /\ Called([api |-> "show", members |-> members, ani |-> TRUE])
    /\ answer' = AniObject(members, ParamNames)

WriteEasy ==
  \E a \in EasyCalls :
    /\ Called([api |-> "easy", args |-> a])
    /\ answer' = HiSysEventEasyWrite(a)

(* query, add_watcher and write of the Rust interface.  The first name     *)
(* stands for the other texts too: domain, condition, tag and parameter.   *)
QueryRust ==
  \E names \in RustNames, held \in Fills :
    LET text == names[1]
    IN  /\ Called([api |-> "rust", names |-> names, held |-> held])
        /\ \E condition \in QueryCondition(text, held) :
             answer' = [list |-> QueryEventList(text, names, held),
                        domain |-> QueryDomain(text, names, held),
                        taken |-> RuleAccepted(text, names, held),
                        condition |-> condition,
                        watched |-> WatchTexts(text, text, text, held),
                        param |-> WrittenParamName(text, held)]
-----------------------------------------------------------------------------
ConversionsInit == call = Idle /\ answer = Idle

(* One call, and its answer.                                               *)
ConversionsNext ==
  /\ answer = Idle
  /\ \/ ReadParam \/ ReadParamC \/ ReadBase \/ DeliverC
     \/ WriteJs \/ WriteAni \/ ShowJs \/ ShowAni
     \/ WriteEasy \/ QueryRust

ConversionsSpec == ConversionsInit /\ [][ConversionsNext]_cvars
-----------------------------------------------------------------------------
(* What a JSON value is, without the getters.                              *)
IsNumber(j) == j.type \in {"null", "bool", "int", "uint", "real"}
NumberOf(j) == IF j.type \in {"null", "bool"} THEN AsPlainNumber(j) ELSE Halves(j)

Representable(kind, j) ==
  CASE kind = "double" -> IsNumber(j)
    [] kind = "string" -> IsNumber(j) \/ j.type = "string"
    [] kind = "int64" ->
         IsNumber(j) /\ IsWhole(NumberOf(j)) /\ NumberOf(j) \in 2 * MinInt64..2 * MaxInt64
    [] kind = "uint64" ->
         IsNumber(j) /\ IsWhole(NumberOf(j)) /\ NumberOf(j) \in 0..2 * MaxUInt64

SameText(text, j) ==
  CASE j.type = "null" -> text = Text(<<>>)
    [] j.type = "string" -> text = Text(j.val)
    [] OTHER -> text.json = j

(* got is what j says, or that without the fraction.                       *)
ReadsAs(kind, got, j) ==
  IF kind = "string" THEN SameText(got, j)
  ELSE got = NumberOf(j) \/ (kind # "double" /\ ~IsWhole(NumberOf(j)) /\ Abs(got - NumberOf(j)) = 1)

(* The elements of the value, for a getter of arrays or of scalars.        *)
Elements(j, isArray) == IF isArray THEN j.val ELSE <<j>>

HasShape(j, isArray) == (j.type = "array") = isArray

(* GetParamValue: ret and out for the value j.                             *)
ParamTrue(j, kind, isArray, ret, out) ==
  /\ ret = "ok" =>
       /\ HasShape(j, isArray)
       /\ Len(out) = Len(Elements(j, isArray))
       /\ \A i \in 1..Len(out) : ReadsAs(kind, out[i], Elements(j, isArray)[i])
       /\ out # <<>> => Representable(kind, Elements(j, isArray)[1])
  /\ HasShape(j, isArray) /\ (\A i \in 1..Len(Elements(j, isArray)) :
                                Representable(kind, Elements(j, isArray)[i])) => ret = "ok"
  /\ ret = "throws" =>
       /\ isArray
       /\ Representable(kind, Elements(j, isArray)[1])
       /\ \E i \in 1..Len(Elements(j, isArray)) : ~Representable(kind, Elements(j, isArray)[i])

(* The C getter: what the C++ one gives, except for an empty array, which  *)
(* leaves the caller's variables alone, and for want of memory, which a    *)
(* string array does not report.                                           *)
CParamTrue(j, kind, isArray, memory, got) ==
  LET n == Len(Elements(j, isArray))
  IN  IF got.ret # "ok" THEN got.data = NoData
      ELSE /\ HasShape(j, isArray)
           /\ n = 0 => got.len = Untouched /\ got.data = NoData
           /\ n > 0 =>
                /\ got.len = n
                /\ IF ~memory /\ isArray THEN kind = "string" /\ got.data = NoData
                   ELSE /\ memory \/ kind # "string"
                        /\ \A i \in 1..n : ReadsAs(kind, got.data[i], Elements(j, isArray)[i])

BaseTrue(field, j, got) ==
  CASE field = "type_" -> Representable("int64", j) /\ FitsInt(NumberOf(j)) => got = NumberOf(j)
    [] field = "time_" -> got = IF Representable("uint64", j) THEN NumberOf(j) ELSE 0
    [] field = "domain_" -> IF Representable("string", j) THEN SameText(got, j) ELSE got = Text(<<>>)
    [] field = "traceid_" ->
         /\ got \in 0..MaxUInt64
         /\ j.type = "string" /\ Len(j.val) = 1 /\ j.val # <<OtherChar>> => got = j.val[1]

(***************************************************************************)
(* What HiSysEventRecord and the C getters answer with ok is what the JSON *)
(* of the event says: the same number, flag or text, for arrays element by *)
(* element.  Only behind the first element of an array may a fraction be   *)
(* dropped, and only there may a conversion throw; every value the type    *)
(* can hold is read.                                                       *)
(***************************************************************************)
RecordReadsTrue ==
  /\ call.api = "param" =>
       IF Members(call.record) = {} THEN answer.ret \in {"ERR_INIT_FAILED", "ERR_KEY_NOT_EXIST"}
       ELSE ParamTrue(call.record.root.val["p"], call.kind, call.isArray, answer.ret, answer.out)
  /\ call.api = "c" /\ answer.ret # "throws" =>
       CParamTrue(call.record.root.val["p"], call.kind, call.isArray, call.memory, answer)
  /\ call.api = "base" => BaseTrue(call.field, call.json, answer.got)

(***************************************************************************)
(* The C callbacks leave nothing behind: what was allocated for a record   *)
(* is deleted, once the conversion failed as well as when it succeeded.  A *)
(* querier gets a batch whole or not at all; a listener gets the event as  *)
(* far as it could be converted, because OnEvent does not look at the      *)
(* result.                                                                 *)
(***************************************************************************)
CRecordsComplete ==
  call.api = "deliver" =>
    /\ answer.allocated = answer.deleted
    /\ call.query =>
         IF \A i \in 1..Len(call.batch) : call.batch[i] = {}
         THEN answer.delivered = [i \in 1..Len(call.batch) |-> AllFields]
         ELSE answer.delivered = <<>>
    /\ ~call.query => (answer.delivered = <<AllFields>>) = (call.batch[1] = {})
-----------------------------------------------------------------------------
(* The number of a value of a script, in halves.                           *)
ScriptNumber(js) == IF js.type = "bigint" \/ js.type = "int" THEN 2 * js.val ELSE js.val

ScriptTypes == NumberTypes \cup {"boolean", "bigint", "string"}

(* The elements of a value that are written: those of the type of the      *)
(* first one.                                                              *)
Written(v) ==
  IF v.type = "array" THEN Keep(v.val, {e \in Range(v.val) : Family(e.type) = Family(v.val[1].type)})
                      ELSE <<v>>

IsWritten(v, types) ==
  IF v.type = "array" THEN v.val # <<>> /\ v.val[1].type \in types ELSE v.type \in types

(* Numbers the JS interface does not keep: NaN, a bigint outside both      *)
(* 64-bit types, a negative number in an array behind a fraction, and a    *)
(* negative number in an array with one beyond INT64_MAX.                  *)
Lossy(es) ==
  LET n(i) == ScriptNumber(es[i])
      Big(i) == n(i) > 2 * MaxInt64
      Below(i) == n(i) < 0 \/ IsNegative(es[i])
  IN  \/ \E i \in 1..Len(es) : es[i].type = "nan"
      \/ \E i \in 1..Len(es) : es[i].type = "bigint" /\ n(i) \notin 2 * MinInt64..2 * MaxUInt64
      \/ \E i, k \in 1..Len(es) : es[1].type # "string" /\ es[1].type # "boolean" /\ Below(i) /\ Big(k)
      \/ \E i, k \in 1..Len(es) :
           /\ i < k
           /\ es[i].type = "number" /\ (~IsWhole(n(i)) \/ n(i) \notin 2 * MinInt64..2 * MaxInt64)
           /\ n(k) < 0

(* The ArkTS interface cuts a bigint to int64_t and keeps every double.    *)
LossyAni(es) ==
  \E i \in 1..Len(es) :
    es[i].type = "bigint" /\ ScriptNumber(es[i]) \notin 2 * MinInt64..2 * MaxInt64

(* got is the text as far as its first NUL.                                *)
UpToNul(got, text) ==
  /\ Len(got) <= Len(text)
  /\ \A i \in 1..Len(got) : got[i] = text[i] /\ text[i] # NUL
  /\ Len(got) < Len(text) => text[Len(got) + 1] = NUL

(* val is the element; of a number that is next to a whole one, the JS     *)
(* interface keeps that one.                                               *)
SameElement(es, i, val, ani) ==
  IF es[i].type = "boolean" THEN val = es[i].val
  ELSE IF es[i].type = "string" THEN UpToNul(val, es[i].val)
  ELSE IF ani /\ es[i].type \in {"near", "nan"} THEN val = es[i]
  ELSE val = ScriptNumber(es[i])

HasLongText(v) ==
  \E i \in 1..Len(Written(v)) :
    /\ Written(v)[i].type = "string"
    /\ Len(Written(v)[i].val) > JS_STR_PARM_LEN_LIMIT
    /\ \A h \in 1..(JS_STR_PARM_LEN_LIMIT + 1) : Written(v)[i].val[h] # NUL

(***************************************************************************)
(* A value a script writes arrives in the event: every property with a     *)
(* valid name and a usable value becomes the parameter of its name, with   *)
(* the same numbers, flags and texts up to their first NUL, or the promise *)
(* is rejected because a text is too long.  The numbers that are not kept  *)
(* are those of Lossy, and of a number less than 1e-9 beyond a whole one   *)
(* the JS interface keeps the whole one.  The ArkTS interface stops        *)
(* without a word at the first value it cannot use; what lies before it in *)
(* the order of the names arrives.                                         *)
(***************************************************************************)
JsParamsKept ==
  call.api \in {"js", "ani"} =>
    LET types == IF call.api = "js" THEN ScriptTypes ELSE AniKinds
        named == DOMAIN call.props \ BadKeys
        kept == {k \in named : IsWritten(call.props[k], types)}
        Loses(es) == IF call.api = "js" THEN Lossy(es) ELSE LossyAni(es)
    IN  /\ DOMAIN answer.params \subseteq kept
        /\ call.api = "js" => kept \subseteq DOMAIN answer.params
        /\ \A i \in 1..Len(PropNames) :
             PropNames[i] \in kept /\ (\A h \in 1..i : PropNames[h] \in named => PropNames[h] \in kept)
               => PropNames[i] \in DOMAIN answer.params
        /\ answer.rejected = (call.api = "js" /\ \E k \in kept : HasLongText(call.props[k]))
        /\ \A k \in DOMAIN answer.params :
             LET es == Written(call.props[k])
                 vals == answer.params[k].vals
             IN  /\ Len(vals) = Len(es)
                 /\ ~answer.rejected /\ ~Loses(es)
                      => \A i \in 1..Len(es) : SameElement(es, i, vals[i], call.api = "ani")

(* A value in the object of a script says the same as the JSON.            *)
ShowsItem(js, j, ani) ==
  CASE j.type = "bool" -> js.type = "boolean" /\ js.val = j.val
    [] j.type = "string" -> js.type = "string" /\ js.val = j.val
    [] IsNumeric(j) -> /\ js.type \in {"number", "bigint"}
                       /\ \/ ScriptNumber(js) = Halves(j)
                          \/ ani /\ Abs(Halves(j)) > 2 * DoubleExact /\ Abs(ScriptNumber(js) - Halves(j)) <= 2
    [] OTHER -> js.type = "undefined"

ShowsValue(js, j, ani) ==
  IF j.type = "array"
  THEN /\ js.type = "array"
       /\ Len(js.val) = Len(j.val)
       /\ \A i \in 1..Len(j.val) : ShowsItem(js.val[i], j.val[i], ani)
  ELSE ShowsItem(js, j, ani)

(* The members that are parameters and have a value a script can hold.     *)
ParamsWithValue(members) == {k \in DOMAIN members \ BaseKeys : members[k].type \notin {"null", "object"}}

(* The base fields that have the type they should.                         *)
GoodBase(k, j) ==
  IF k = "type_" THEN IsNumeric(j) /\ IsWhole(NumberOf(j)) /\ FitsInt(NumberOf(j))
                 ELSE j.type = "string"

(* A base field says the same as the JSON; the enum of ArkTS has no item   *)
(* for a type outside 1..4.                                                *)
ShowsBase(js, k, j, ani) ==
  IF k # "type_" THEN js = Js("string", j.val)
  ELSE IF ~ani THEN js = Js("number", NumberOf(j))
  ELSE IF NumberOf(j) \div 2 \in 1..4 THEN js = Js("enum", NumberOf(j))
  ELSE js.type = "null"

(***************************************************************************)
(* The object a script gets for an event shows the JSON of the event.  In  *)
(* the JS interface params has every parameter that has a value under its  *)
(* name, with the same number, flag or text, and arrays of the same        *)
(* length; no number is cut to 32 bits.  In the ArkTS interface params is  *)
(* not the record its declaration promises (AniParamsByName): what it      *)
(* shows is at least the value of one parameter, of numbers the nearest    *)
(* double.  The base fields are those of the event; an event type outside  *)
(* the enum is null in ArkTS.                                              *)
(***************************************************************************)
JsonReachesJs ==
  call.api = "show" =>
    LET valued == ParamsWithValue(call.members)
        params == answer.params
    IN  /\ ~call.ani =>
             /\ params.type = "object" /\ DOMAIN params.val = valued
             /\ \A k \in valued : ShowsValue(params.val[k], call.members[k], FALSE)
        /\ call.ani =>
             IF valued = {} THEN params.type = "undefined"
             ELSE \E k \in valued : ShowsValue(params, call.members[k], TRUE)
        /\ \A k \in BaseKeys \cap DOMAIN call.members :
             /\ k \in DOMAIN answer.base <=> GoodBase(k, call.members[k])
             /\ k \in DOMAIN answer.base =>
                  ShowsBase(answer.base[k], k, call.members[k], call.ani)

(***************************************************************************)
(* The params of an ArkTS event are a record of the parameters by their    *)
(* names, as SysEventInfo declares them.  The code does not do it: it sets *)
(* the property params itself to the value of each parameter in turn.      *)
(***************************************************************************)
AniParamsByName ==
  call.api = "show" /\ call.ani /\ ParamsWithValue(call.members) # {} =>
    /\ answer.params.type = "object"
    /\ DOMAIN answer.params.val = ParamsWithValue(call.members)
-----------------------------------------------------------------------------
(* The length a reader finds in the bytes of a varint, and how many bytes  *)
(* it reads: a byte says whether another one follows.                      *)
ReadLength(bytes) ==
  IF (bytes[1] \div 32) % 2 = 0 THEN [val |-> bytes[1] % 32, bytes |-> 1]
  ELSE [val |-> (bytes[1] % 32) + 32 * (bytes[2] % 128), bytes |-> 2]

(* The answer r to the arguments a, as EasyEventIntact wants it.           *)
EasyIntact(a, r) ==
  LET sound == a.domain \in 0..16 /\ a.name \in 0..32 /\ a.data \in 0..1024
      valid == sound /\ a.type \in 1..4
  IN  /\ (r.ret = "SUCCESS") = (r.datagrams # <<>>)
      /\ Len(r.datagrams) <= 1
      /\ valid /\ a.socket = "ok" /\ (\A i \in 1..3 : a.sends[i] = "sent") => r.ret = "SUCCESS"
      /\ valid /\ a.socket = "ok" /\ a.sends[1] \in RetryErrors /\ a.sends[2] = "sent"
           => r.ret = "SUCCESS"
      /\ \A i \in 1..Len(r.datagrams) :
           LET e == r.datagrams[i]
           IN  /\ sound
               /\ e.domain = a.domain /\ e.name = a.name /\ e.data = a.data
               /\ e.type + 1 \in 1..4 /\ e.type + 1 = a.type % 256
               /\ e.used <= e.blockSize
               /\ ReadLength(e.dataBytes) = [val |-> a.data, bytes |-> Len(e.dataBytes)]
               /\ ReadLength(e.keyBytes) = [val |-> 4, bytes |-> 1]
               /\ a.gPid \in {INVALID_PID, a.getpid} /\ a.procPid \in {INVALID_PID, a.getpid}
                    => e.pid = a.getpid

(***************************************************************************)
(* An event of the easy writer arrives whole or not at all.  SUCCESS means *)
(* that exactly one datagram left the process, any other code that none    *)
(* did; the datagram fits the buffer to its last byte, its length fields   *)
(* read back, and it carries the names and pid of the caller, and of the   *)
(* type what uint8_t keeps: a type beyond it is not refused but cut.       *)
(* Valid arguments are never refused for want of room.  The pid is that of *)
(* the process unless it was forked after its first event.                 *)
(***************************************************************************)
EasyEventIntact == call.api = "easy" => EasyIntact(call.args, answer)

(* The names a Rust caller may pass: within the limits of the arrays, with *)
(* the terminator.                                                         *)
GoodName(name) ==
  /\ name # <<>> /\ Len(name) < MAX_LENGTH_OF_EVENT_NAME
  /\ \A i \in 1..Len(name) : name[i] # BAR

GoodRule == Len(call.names) <= MAX_NUMBER_OF_EVENT_LIST /\ \A i \in 1..Len(call.names) : GoodName(call.names[i])

Begins(text, whole) == Len(text) <= Len(whole) /\ SubSeq(whole, 1, Len(text)) = text

(* got is a text that was copied into an uninitialised array of len bytes: *)
(* the text, and if the memory did not happen to hold a NUL right behind   *)
(* it, something more.                                                     *)
Copied(text, got, len) ==
  Len(text) < len => Begins(text, got) /\ (call.held[Len(text) + 1] = NUL => got = text)

(***************************************************************************)
(* The names of a Rust query rule reach the library each in its own entry  *)
(* and in order: joining them with bars in Rust and splitting them in C++  *)
(* loses none, as long as they are not empty, hold no bar and are as many  *)
(* and as long as the arrays allow.  Nothing terminates them there: they   *)
(* are exact if the memory held a NUL at the right place, and otherwise    *)
(* only begin with what was passed.  The texts of a watch rule arrive      *)
(* exactly if they are shorter than their arrays.  Of the condition        *)
(* nothing is promised: its memory is freed before it is read.             *)
(***************************************************************************)
RustNamesArrive ==
  call.api = "rust" =>
    LET text == call.names[1]
        watched == answer.watched
    IN  /\ GoodRule =>
             /\ ~answer.list.overflow
             /\ answer.taken
             /\ Len(answer.list.entries) = Len(call.names)
             /\ \A i \in 1..Len(call.names) :
                  Copied(call.names[i], answer.list.entries[i], MAX_LENGTH_OF_EVENT_NAME)
        /\ Copied(text, answer.domain, MAX_LENGTH_OF_EVENT_DOMAIN)
        /\ Copied(text, answer.param, MAX_LENGTH_OF_PARAM_NAME)
        /\ Len(text) < MAX_LENGTH_OF_EVENT_DOMAIN => watched.domain = text
        /\ Len(text) < MAX_LENGTH_OF_EVENT_NAME => watched.name = text
        /\ Len(text) < MAX_LENGTH_OF_EVENT_TAG => watched.tag = text
================================================================================
