------------------------------ MODULE StringFilter ------------------------------
(***************************************************************************)
(* StringFilter: the check of names and the escaping of string values.     *)
(* A character is a number that stands for its class in the two tables of  *)
(* the code; 0 is the terminator.                                          *)
(***************************************************************************)
EXTENDS Integers, Sequences, SequencesExt

Letter == 1
LetterN == 2        (* the letter n                                        *)
Digit == 3
Underscore == 4
Blank == 5          (* printable, neither a name's character nor escaped   *)
Quote == 6
Backslash == 7
NewLine == 8
Control == 9        (* a control character that JSON does not know         *)
HighByte == 10      (* outside CHAR_RANGE                                  *)
Chars == Letter..HighByte

(* States of the automaton                                                 *)
STATE_BEGIN == 0
STATE_RUN == 1
STATE_STOP == -1

(* Mutant of statTab: a name may start with a digit.                       *)
StatTabDigits(state, c) ==
  IF c \in {Letter, LetterN, Digit} \/ (state = STATE_RUN /\ c = Underscore)
  THEN STATE_RUN ELSE STATE_STOP

statTab(state, c) ==
  IF \/ c \in {Letter, LetterN}
     \/ state = STATE_RUN /\ c \in {Digit, Underscore}
  THEN STATE_RUN ELSE STATE_STOP

IsValidName(text, maxSize) ==
  /\ text # <<>>
  /\ Len(text) <= maxSize
  /\ FoldLeft(LAMBDA state, c :
                IF state = STATE_STOP \/ c = HighByte THEN STATE_STOP ELSE statTab(state, c),
              STATE_BEGIN, text) # STATE_STOP

(* The entries of charTab with more than one character.                    *)
charTab == [c \in {Quote, Backslash, NewLine} |->
              <<Backslash, IF c = NewLine THEN LetterN ELSE c>>]

EscapeToRaw(text) ==
  FlattenSeq([i \in 1..Len(text) |->
                CASE text[i] \in DOMAIN charTab -> charTab[text[i]]
                  [] text[i] = Control          -> <<>>
                  [] OTHER                      -> <<text[i]>>])
================================================================================
