-------------------------------- MODULE RawData --------------------------------
(***************************************************************************)
(* The growing buffer of an event and the encoder that fills it: names and *)
(* strings with their lengths, numbers as varints whose first byte carries *)
(* the encode type.                                                        *)
(*                                                                         *)
(* A cell of the buffer stands for one byte, or for one field of a fixed   *)
(* size: the int32 block size and parameter count and a floating number    *)
(* are one cell each.  The widths of the code are constants, so that every *)
(* number of a small width can be tried.                                   *)
(***************************************************************************)
EXTENDS Integers, Sequences, SequencesExt

CONSTANTS
  EXPAND_BUF_SIZE,      (* smallest growth of the buffer                    *)
  TAG_BYTE_OFFSET,      (* bits of a number in the first byte               *)
  NON_TAG_BYTE_OFFSET,  (* bits of a number in every other byte             *)
  Width                 (* bits of uint64_t                                 *)

ASSUME RawDataAssumption ==
  /\ EXPAND_BUF_SIZE \in Nat \ {0}
  /\ TAG_BYTE_OFFSET \in Nat \ {0}
  /\ NON_TAG_BYTE_OFFSET \in Nat \ {0}
  /\ Width \in Nat \ {0}
  /\ {2^TAG_BYTE_OFFSET, 2^NON_TAG_BYTE_OFFSET, 2^Width} \subseteq Nat \ {0, 1}
  /\ 2^(TAG_BYTE_OFFSET + 1) = 2 * 2^TAG_BYTE_OFFSET
  /\ 2^(Width - 1) \in Nat /\ 2^Width = 2 * 2^(Width - 1)

(* EncodeType and ValueType                                                *)
VARINT == 0
LENGTH_DELIMITED == 1
INT64 == 8
UINT64 == 9
FLOAT == 10
STRING_TYPE == 12

NewRawData == [data |-> <<>>, capacity |-> EXPAND_BUF_SIZE]

(* The capacity Update makes room with.                                    *)
Expanded(raw, len, pos) ==
  IF pos + len > raw.capacity
  THEN raw.capacity + (IF len > EXPAND_BUF_SIZE THEN len ELSE EXPAND_BUF_SIZE)
  ELSE raw.capacity

(* Update can write: the place is inside the data, and memcpy_s finds room. *)
CanUpdate(raw, chunk, pos) ==
  /\ pos <= Len(raw.data)
  /\ pos + Len(chunk) <= Expanded(raw, Len(chunk), pos)

Update(raw, chunk, pos) ==
  [data     |-> SubSeq(raw.data, 1, pos) \o chunk
                \o SubSeq(raw.data, pos + Len(chunk) + 1, Len(raw.data)),
   capacity |-> Expanded(raw, Len(chunk), pos)]

(***************************************************************************)
(* The calls of Append that encode something, in order, up to the first    *)
(* one that fails; what the earlier ones wrote stays.  The allocation of   *)
(* call number stop fails, if it has one.                                  *)
(***************************************************************************)
AppendAll(raw, chunks, stop) ==
  FoldLeftDomain(
    LAMBDA r, i :
      LET pos  == Len(r.raw.data)
          grow == pos + Len(chunks[i]) > r.raw.capacity
      IN  IF r.ok /\ CanUpdate(r.raw, chunks[i], pos) /\ ~(grow /\ i = stop)
          THEN [ok |-> TRUE, raw |-> Update(r.raw, chunks[i], pos)]
          ELSE [r EXCEPT !.ok = FALSE],
    [ok |-> TRUE, raw |-> raw], chunks)
-----------------------------------------------------------------------------
(* The bytes of a number behind the first one, low bits first.             *)
NonTagBytes[val \in Nat] ==
  IF val = 0
  THEN <<>>
  ELSE <<(val % 2^NON_TAG_BYTE_OFFSET)
           + (IF val < 2^NON_TAG_BYTE_OFFSET THEN 0 ELSE 2^NON_TAG_BYTE_OFFSET)>>
       \o NonTagBytes[val \div 2^NON_TAG_BYTE_OFFSET]

(* Mutant of UnsignedVarint: the bound of the first byte is off by one.    *)
UnsignedVarintBound(type, val) ==
  <<type * 2^(TAG_BYTE_OFFSET + 1)
      + (IF val <= 2^TAG_BYTE_OFFSET THEN 0 ELSE 2^TAG_BYTE_OFFSET)
      + (val % 2^TAG_BYTE_OFFSET)>>
  \o NonTagBytes[val \div 2^TAG_BYTE_OFFSET]

(* The bytes UnsignedVarintEncoded appends.                                *)
UnsignedVarint(type, val) ==
  <<type * 2^(TAG_BYTE_OFFSET + 1)
      + (IF val < 2^TAG_BYTE_OFFSET THEN 0 ELSE 2^TAG_BYTE_OFFSET)
      + (val % 2^TAG_BYTE_OFFSET)>>
  \o NonTagBytes[val \div 2^TAG_BYTE_OFFSET]

(* SignedVarintEncoded: shift left in uint64_t, then invert if negative.   *)
ZigZag(val) ==
  LET shifted == (2 * val) % 2^Width
  IN  IF val >= 0 THEN shifted ELSE 2^Width - 1 - shifted

(* Every byte of a varint is appended by itself.                           *)
VarintChunks(type, val) ==
  LET bytes == UnsignedVarint(type, val) IN [i \in 1..Len(bytes) |-> <<bytes[i]>>]

(* StringValueEncoded                                                      *)
StringChunks(text) == Append(VarintChunks(LENGTH_DELIMITED, Len(text)), text)

(* FloatingNumberEncoded: the size of the type, then the number.           *)
FloatChunks(val) == Append(VarintChunks(LENGTH_DELIMITED, 1), <<val>>)

(* ValueTypeEncoded: the bits of ParamValueType.                           *)
TypeChunks(isArray, valueType) == <<<<(IF isArray THEN 1 ELSE 0) + 2 * valueType>>>>
================================================================================
