-------------------------------- MODULE CStrings --------------------------------
(***************************************************************************)
(* A text in memory that is read as a C string: std::string(const char* )  *)
(* ends at the first NUL, wherever that is.                                *)
(***************************************************************************)
EXTENDS Integers, Sequences, SequencesExt

CONSTANT NUL       (* the character '\0'                                    *)

(* What lies before the first NUL, everything if there is none.            *)
CString(bytes) ==
  LET texts == {n \in 0..Len(bytes) : \A i \in 1..n : bytes[i] # NUL}
      length == CHOOSE n \in texts : \A m \in texts : m <= n
  IN  SubSeq(bytes, 1, length)

(* A C string that begins in the j-th of several arrays that lie one       *)
(* behind the other: without a NUL in it the reading goes on in the next.  *)
ReadFrom(arrays, j) ==
  CString(arrays[j] \o FlattenSeq(SubSeq(arrays, j + 1, Len(arrays))))
================================================================================
