------------------------------ MODULE EventReader ------------------------------
(***************************************************************************)
(* How the hiview daemon reads an event, and what it must find in it.  The *)
(* daemon is not part of the repository: the reader is the inverse of the  *)
(* format that RawDataEncoder and EncodedParam document, written without   *)
(* a look at how they produce it.  Reading never fails; beyond the end of  *)
(* the data it sees zeros.                                                 *)
(***************************************************************************)
EXTENDS EventWriter

At(d, i) == IF i \in 1..Len(d) THEN d[i] ELSE 0

(* n cells from place i                                                    *)
Cells(d, i, n) == [j \in 1..n |-> At(d, i + j - 1)]

(* What is read, and the place behind it.                                  *)
Item(val, next) == [val |-> val, next |-> next]

(* The low bits of a number, and the rest of it.                           *)
Joined(low, unit, rest) == Item(low + unit * rest.val, rest.next)

(* The bytes of a number from place i on, up to the first that announces   *)
(* no other one; from[n] begins n cells before the end of the data.        *)
ReadRest(d, i) ==
  LET unit == 2^NON_TAG_BYTE_OFFSET
      cell(n) == At(d, Len(d) + 1 - n)
      from[n \in Nat] ==
        IF n = 0 \/ cell(n) < unit THEN Item(cell(n) % unit, Len(d) + 2 - n)
        ELSE Joined(cell(n) % unit, unit, from[n - 1])
  IN  IF i > Len(d) THEN Item(0, i + 1) ELSE from[Len(d) + 1 - i]

ReadVarint(d, i) ==
  IF (At(d, i) \div 2^TAG_BYTE_OFFSET) % 2 = 0
  THEN Item(At(d, i) % 2^TAG_BYTE_OFFSET, i + 1)
  ELSE Joined(At(d, i) % 2^TAG_BYTE_OFFSET, 2^TAG_BYTE_OFFSET, ReadRest(d, i + 1))

(* The characters an escaped text stands for; from[n] those of its last n. *)
Unescape(text) ==
  LET char(n) == At(text, Len(text) + 1 - n)
      from[n \in Nat] ==
        IF n = 0 THEN <<>>
        ELSE IF char(n) = Backslash /\ n > 1
        THEN <<IF char(n - 1) = LetterN THEN NewLine ELSE char(n - 1)>> \o from[n - 2]
        ELSE <<char(n)>> \o from[n - 1]
  IN  from[Len(text)]

(* The value that starts with the number v: the value itself or its size.  *)
ReadValue(type, d, v) ==
  CASE type = INT64       -> Item(IF v.val % 2 = 0 THEN v.val \div 2 ELSE -((v.val + 1) \div 2), v.next)
    [] type = FLOAT       -> Item(At(d, v.next), v.next + v.val)
    [] type = STRING_TYPE -> Item(Unescape(Cells(d, v.next, v.val)), v.next + v.val)
    [] OTHER              -> v

(* What was read so far, with one more item behind it.                     *)
Add(read, item) == Item(Append(read.val, item.val), item.next)

(* n values from place start on.                                           *)
ReadValues(n, type, d, start) ==
  LET Longer(read) == Add(read, ReadValue(type, d, ReadVarint(d, read.next)))
      first[k \in Nat] == IF k = 0 THEN Item(<<>>, start) ELSE Longer(first[k - 1])
  IN  first[n]

ReadArray(type, d, count) == ReadValues(count.val, type, d, count.next)

ReadKey(d, size) == Item(Cells(d, size.next, size.val), size.next + size.val)

(* The parameter behind its key: the byte with the type, the values.       *)
ReadTyped(d, key) ==
  LET isArray == At(d, key.next) % 2 = 1
      type    == At(d, key.next) \div 2
      Typed(read) == Item([key |-> key.val, isArray |-> isArray, type |-> type, vals |-> read.val],
                          read.next)
  IN  Typed(IF isArray THEN ReadArray(type, d, ReadVarint(d, key.next + 1))
                       ELSE ReadValues(1, type, d, key.next + 1))

(* n parameters from place start on.                                       *)
ReadParams(n, d, start) ==
  LET Longer(read) == Add(read, ReadTyped(d, ReadKey(d, ReadVarint(d, read.next))))
      first[k \in Nat] == IF k = 0 THEN Item(<<>>, start) ELSE Longer(first[k - 1])
  IN  first[n]

(* A text of the header, up to the first zero.                             *)
ReadText(d, i, size) ==
  Cells(d, i, CHOOSE n \in 0..size : /\ n = size \/ At(d, i + n) = 0
                                     /\ \A k \in 0..(n - 1) : At(d, i + k) # 0)

ReadEvent(d) ==
  LET name  == MAX_DOMAIN_LENGTH + 3
      flags == name + MAX_EVENT_NAME_LENGTH + 1
      count == flags + 1 + (IF At(d, flags) \div 4 = 1 THEN 4 ELSE 0)
      Whole(body) == [size   |-> At(d, 1),
                      end    |-> body.next - 1,
                      domain |-> ReadText(d, 2, MAX_DOMAIN_LENGTH + 1),
                      name   |-> ReadText(d, name, MAX_EVENT_NAME_LENGTH + 1),
                      type   |-> (At(d, flags) % 4) + 1,
                      params |-> body.val]
  IN  Whole(ReadParams(At(d, count), d, count + 1))
-----------------------------------------------------------------------------
Printable(text) ==
  FlattenSeq([i \in 1..Len(text) |-> IF text[i] = Control THEN <<>> ELSE <<text[i]>>])

(* The value the reader finds for a value that was written: characters     *)
(* that JSON does not know are left out, numbers that are not finite are 0. *)
Readable(kind, val) ==
  CASE kind = "string" -> Printable(val)
    [] kind = "float"  -> IF val = NaN THEN 0 ELSE val
    [] OTHER           -> val

Expected(p) ==
  LET n == IF Len(p.vals) > MAX_ARRAY_SIZE /\ p.isArray THEN MAX_ARRAY_SIZE ELSE Len(p.vals)
  IN  [key |-> p.key, isArray |-> p.isArray,
       type |-> IF n = 0 THEN INT64 ELSE ValueType(p.kind),
       vals |-> [i \in 1..n |-> Readable(p.kind, p.vals[i])]]

(***************************************************************************)
(* The daemon reads back what the caller wrote: domain, name and type, and *)
(* every parameter that was kept, in order, with its values.  The block    *)
(* size is the length of the data, and the parameters end there.  Growth   *)
(* of the buffer, the two fields that are filled in at the end and values  *)
(* at the limits of their width do not disturb that.                       *)
(***************************************************************************)
ReadsBack ==
  sent # <<>> /\ ~broken =>
    ReadEvent(sent) = [size |-> Len(sent), end |-> Len(sent), domain |-> call.domain,
                       name |-> call.name, type |-> call.type,
                       params |-> [i \in 1..Len(kept) |-> Expected(kept[i])]]

(* A letter, then letters, digits and underscores, at most size of them.   *)
IsName(text, size) ==
  /\ Len(text) \in 1..size
  /\ text[1] \in {Letter, LetterN}
  /\ \A i \in 1..Len(text) : text[i] \in {Letter, LetterN, Digit, Underscore}

(***************************************************************************)
(* The daemon never sees a malformed domain, event name or key, and never  *)
(* more parameters or array items than the limits, whichever interface the *)
(* event came through, even after a parameter was only encoded in part.    *)
(***************************************************************************)
WithinLimits ==
  sent # <<>> => \E e \in {ReadEvent(sent)} :
    /\ IsName(e.domain, MAX_DOMAIN_LENGTH)
    /\ IsName(e.name, MAX_EVENT_NAME_LENGTH)
    /\ Len(e.params) <= MAX_PARAM_NUMBER
    /\ ~broken => \A i \in 1..Len(e.params) :
         /\ IsName(e.params[i].key, MAX_PARAM_NAME_LENGTH)
         /\ e.params[i].isArray => Len(e.params[i].vals) <= MAX_ARRAY_SIZE
================================================================================
