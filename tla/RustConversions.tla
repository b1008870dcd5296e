---------------------------- MODULE RustConversions ----------------------------
(***************************************************************************)
(* How the names of a query rule, of a watch rule and of a parameter get   *)
(* from Rust to the C++ library: sys_event_manager.rs and sys_event.rs put *)
(* them into byte arrays of a fixed size, hisysevent_c_wrapper.cpp takes   *)
(* some of the arrays apart into structs of its own, and the library reads *)
(* C strings out of the structs.                                           *)
(*                                                                         *)
(* A struct is the list of its arrays.  The arrays of Rust are zeros       *)
(* before a text is copied in; the structs of the wrapper lie on the stack *)
(* and are not initialised, and it writes no terminator.  held is what the *)
(* memory held, from the first byte of an array on.                        *)
(***************************************************************************)
EXTENDS CStrings

CONSTANTS
  MAX_LENGTH_OF_EVENT_NAME,   (* bytes of one event name                    *)
  MAX_LENGTH_OF_EVENT_DOMAIN, (* bytes of a domain                          *)
  MAX_LENGTH_OF_EVENT_TAG,    (* bytes of a tag                             *)
  MAX_LENGTH_OF_PARAM_NAME,   (* bytes of a parameter name                  *)
  MAX_EVENT_LIST_LEN,         (* bytes of all event names with their bars   *)
  MAX_NUMBER_OF_EVENT_LIST,   (* event names of one rule                    *)
  BAR                         (* the character '|'                          *)

Cut(text, len) == IF Len(text) > len THEN SubSeq(text, 1, len) ELSE text

(* An array of len bytes into which as much of the text is copied as fits. *)
InArray(text, len, held) == [i \in 1..len |-> IF i <= Len(text) THEN text[i] ELSE held[i]]

(* trans_slice_to_array into an array of zeros.                            *)
trans_slice_to_array(src, len) == InArray(src, len, [i \in 1..len |-> NUL])

(* event_list.join("|")                                                    *)
JoinedNames(names) ==
  FlattenSeq([i \in 1..Len(names) |-> IF i = 1 THEN names[1] ELSE <<BAR>> \o names[i]])

(* A slice that is empty or too long is skipped.                           *)
WithSlice(found) ==
  IF found.slice = <<>> \/ Len(found.slice) > MAX_LENGTH_OF_EVENT_NAME THEN found.taken
  ELSE Append(found.taken, found.slice)

(* The next character ends the slice or belongs to it.                     *)
Scanned(found, char) ==
  IF char = BAR THEN [taken |-> WithSlice(found), slice |-> <<>>]
  ELSE [taken |-> found.taken, slice |-> Append(found.slice, char)]

(* What was found in the first n characters: the slices that were taken,   *)
(* and what follows the last bar.                                          *)
Slices(src) ==
  LET found[n \in 0..Len(src)] ==
        IF n = 0 THEN [taken |-> <<>>, slice |-> <<>>] ELSE Scanned(found[n - 1], src[n])
  IN  found[Len(src)]

(* Mutant of SplitStringToArray: what lies behind the last bar is lost.    *)
SplitWithoutLast(src, destSize) == Cut(Slices(src).taken, destSize)

(* SplitStringToArray: the slices one behind the other, as many as the     *)
(* caller announced.                                                       *)
SplitStringToArray(src, destSize) == Cut(WithSlice(Slices(src)), destSize)

(* query in Rust: how many names the rule announces, and what its array    *)
(* holds of them up to the first zero; a name holds none.                  *)
ListSize(names) == IF Len(names) <= MAX_EVENT_LIST_LEN THEN Len(names) ELSE MAX_EVENT_LIST_LEN
EventList(names) == Cut(JoinedNames(names), MAX_EVENT_LIST_LEN)

(* ConvertQueryRuleWrapper: the struct HiSysEventQueryRule, and what lies  *)
(* behind its arrays.  An entry that gets no name holds what it held.      *)
QueryRule(domain, names, held) ==
  LET parts == SplitStringToArray(EventList(names), ListSize(names))
      Entry(i) == InArray(IF i <= Len(parts) THEN parts[i] ELSE <<>>, MAX_LENGTH_OF_EVENT_NAME, held)
  IN  <<InArray(domain, MAX_LENGTH_OF_EVENT_DOMAIN, held)>>
        \o [i \in 1..MAX_NUMBER_OF_EVENT_LIST |-> Entry(i)] \o <<held>>

(* HiSysEventQuery reads the domain and as many names as were announced.   *)
(* With more than the struct has entries for, wrapper and library work     *)
(* behind its end.                                                         *)
QueryDomain(domain, names, held) == ReadFrom(QueryRule(domain, names, held), 1)

QueryEventList(domain, names, held) ==
  [entries |-> [i \in 1..ListSize(names) |->
                  IF i > MAX_NUMBER_OF_EVENT_LIST THEN <<>>
                  ELSE ReadFrom(QueryRule(domain, names, held), i + 1)],
   overflow |-> ListSize(names) > MAX_NUMBER_OF_EVENT_LIST]

(* It takes the rule if there are a domain and event names.                *)
RuleAccepted(domain, names, held) == QueryDomain(domain, names, held) # <<>> /\ Len(names) # 0

(* The condition crosses as the pointer of a CString that is dropped at    *)
(* the end of the loop body: the library reads freed memory, the text if   *)
(* it is still there, or what the memory holds by then.                    *)
QueryCondition(condition, held) == {condition, CString(held)}

(* add_watcher hands over the struct of Rust; what lies behind its arrays  *)
(* is not a text.                                                          *)
WatchRule(domain, name, tag, held) ==
  <<trans_slice_to_array(domain, MAX_LENGTH_OF_EVENT_DOMAIN),
    trans_slice_to_array(name, MAX_LENGTH_OF_EVENT_NAME),
    trans_slice_to_array(tag, MAX_LENGTH_OF_EVENT_TAG), held>>

(* HiSysEventAddWatcher reads its three texts.                             *)
WatchTexts(domain, name, tag, held) ==
  LET rule == WatchRule(domain, name, tag, held)
  IN  [domain |-> ReadFrom(rule, 1), name |-> ReadFrom(rule, 2), tag |-> ReadFrom(rule, 3)]

(* write in Rust, ConvertParamWrapper and HiSysEvent_Write: the name of a  *)
(* parameter; what lies behind its array in HiSysEventParam is not a text. *)
WrittenParamName(name, held) ==
  ReadFrom(<<InArray(name, MAX_LENGTH_OF_PARAM_NAME, held), held>>, 1)
================================================================================
