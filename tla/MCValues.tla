------------------------------- MODULE MCValues -------------------------------
(***************************************************************************)
(* The values the conversions are tried with: 5-bit integers for the       *)
(* 64-bit ones, with a value on either side of every bound.                *)
(***************************************************************************)
EXTENDS Conversions

MCJsonScalars ==
  {Json("null", 0), Json("bool", TRUE), Json("bool", FALSE)}
    \cup {Json("int", n) : n \in {-16, -9, -8, -1, 0, 4, 7, 8, 15}}
    \cup {Json("uint", n) : n \in {16, 31}}
    \cup {Json("real", n) : n \in {-40, -1, 1, 4, 32, 64}}
    \cup {Json("string", s) : s \in {<<>>, <<10>>, <<16>>, <<1, 2, 3>>}}

(* What a parameter of a daemon's JSON may also be, and arrays.            *)
MCJsonValues ==
  MCJsonScalars \cup {Json("object", 0), Json("array", <<>>)}
    \cup {Json("array", <<a>>) : a \in MCJsonScalars}
    \cup {Json("array", <<a, b>>) : a, b \in MCJsonScalars}

(* Doubles: halves up to 16, whole even numbers beyond.                    *)
Nears == {Near(0, TRUE), Near(0, FALSE), Near(-4, TRUE)}
Numbers == {Js("number", n) : n \in {-40, -32, -2, 0, 1, 14, 32, 64}} \cup Nears \cup {NaN}
BigInts == {Js("bigint", n) : n \in {-17, -16, -1, 0, 15, 16, 31, 32}}
Texts == {Js("string", s) : s \in {<<>>, <<1, 2>>, <<1, 2, 3>>, <<1, NUL, 3>>, <<1, 2, 3, NUL, 5>>}}
Ints == {Js("int", n) : n \in {-4, 3}}
Others == {Js("undefined", 0), Js("object", 0)}

Scalars == Numbers \cup BigInts \cup Texts \cup Ints \cup {Js("boolean", TRUE)} \cup Others

MCJsValuesIn ==
  Scalars \cup {Js("array", <<>>)} \cup {Js("array", <<a>>) : a \in Scalars}
    \cup {Js("array", <<a, b>>) : a, b \in Scalars \ Ints}
    \cup {Js("array", <<a, b, c>>) : a, b, c \in {Js("number", n) : n \in {-2, 1, 14, 32}}}

MCJsPairs ==
  {Js("number", 1), Near(-4, TRUE), Js("bigint", -1), Js("string", <<1, 2, 3>>), Js("string", <<1, NUL>>),
   Js("undefined", 0), Js("array", <<>>), Js("array", <<Js("string", <<1, 2, 3>>)>>)}

BadFields == {{}, {"domain"}, {"level"}, {"tag"}, {"jsonStr"}}

MCBatches == UNION {[1..n -> BadFields] : n \in 1..3}

EasyArgs(domain, name, type, data, gPid, procPid, socket, sends) ==
  [domain |-> domain, name |-> name, type |-> type, data |-> data,
   gPid |-> gPid, procPid |-> procPid, getpid |-> 7, socket |-> socket, sends |-> sends]

Sends == {"sent", "EAGAIN", "EINTR", "ECONNREFUSED"}

(* Every text at its limits, types that only uint8_t makes valid, and every *)
(* outcome of the socket.                                                  *)
MCEasyCalls ==
  {EasyArgs(d, n, t, x, 0, 7, "ok", <<"sent", "sent", "sent">>) :
     d \in {NoText, 0, 16, 17}, n \in {NoText, 1, 32, 33}, t \in {0, 1, 4, 5, 256, 257},
     x \in {NoText, 0, 31, 32, 33, 1023, 1024, 1025}}
    \cup {EasyArgs(16, 32, 4, 1024, g, p, s, sends) :
            g \in {0, 7, 8}, p \in {0, 7}, s \in {"ok", "no socket", "no option"},
            sends \in [1..3 -> Sends]}

(* Names up to the length of their arrays and beyond; one has a bar.       *)
NamesIn == {<<>>, <<1>>, <<2, 1>>, <<2, BAR>>, <<1, 2, 1>>, <<1, 2, 1, 2>>}

MCRustNames == UNION {[1..n -> NamesIn] : n \in 1..3}

(* Memory that was zeroed, that never was, and a mixture.                  *)
MCFills == {<<NUL, NUL, NUL, NUL>>, <<3, 3, 3, 3>>, <<3, NUL, 3, NUL>>}
================================================================================
