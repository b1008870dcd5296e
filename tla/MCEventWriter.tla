----------------------------- MODULE MCEventWriter -----------------------------
(***************************************************************************)
(* Calls with good and bad names through both interfaces, and parameters   *)
(* of every kind, at and beyond the limits, with values at the ends of a   *)
(* four bit wide uint64_t.                                                 *)
(***************************************************************************)
EXTENDS EventReader

Call(api, domain, name, type) == [api |-> api, domain |-> domain, name |-> name, type |-> type]

Good == <<Letter, Digit>>

MCCalls ==
  {Call("cpp", Good, <<LetterN, Underscore>>, 4), Call("c", Good, <<Letter>>, 1),
   Call("cpp", <<Letter>>, Good, 2), Call("c", <<Letter>>, <<Letter, Letter, Letter>>, 2),
   Call("cpp", <<Digit, Letter>>, Good, 1), Call("cpp", <<Letter, Letter, Letter>>, Good, 1),
   Call("c", NoText, Good, 1), Call("c", Good, NoText, 1), Call("c", <<>>, Good, 1),
   Call("cpp", Good, <<Letter, HighByte>>, 3), Call("cpp", Good, <<Underscore>>, 3)}

MCMasked == {<<Letter>>}

Param(key, kind, isArray, vals, null) ==
  [key |-> key, kind |-> kind, isArray |-> isArray, vals |-> vals, null |-> null]

Scalar(kind, val) == Param(<<Letter>>, kind, FALSE, <<val>>, FALSE)
Array(kind, vals) == Param(<<Letter, Underscore>>, kind, TRUE, vals, FALSE)

MCParams ==
  {Scalar("unsigned", 15), Scalar("signed", -8), Scalar("float", NaN),
   Scalar("string", <<Quote, Control, NewLine>>), Scalar("string", <<Backslash, LetterN>>),
   Scalar("string", <<Blank, HighByte, Letter, Digit>>),
   Array("unsigned", <<>>), Array("signed", <<-1, 7>>), Array("float", <<3, NaN, 5>>),
   Array("string", <<<<Quote>>, <<Letter, Letter, Letter, Letter>>>>),
   Param(<<Digit>>, "unsigned", FALSE, <<1>>, FALSE),
   Param(<<Letter, Letter, Letter>>, "unsigned", FALSE, <<1>>, FALSE),
   Param(<<Letter>>, "invalid", FALSE, <<0>>, FALSE),
   Param(<<Letter>>, "string", FALSE, <<<<>>>>, TRUE)}
================================================================================
