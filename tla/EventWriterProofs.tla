--------------------------- MODULE EventWriterProofs ---------------------------
(***************************************************************************)
(* What is proved of Write, for all limits, all calls and all parameters:  *)
(* its types, the truth of its return code, and that an event that is sent *)
(* is its parts, one behind the other: the size, the header, the trace     *)
(* info, the number of parameters and the parameters that were kept.       *)
(*                                                                         *)
(* FlattenSeq, NonTagBytes and the fold of AppendAll are defined by        *)
(* recursion: the first sections show that these functions exist, with     *)
(* induction over sets of numbers, and what each call adds to the data.    *)
(***************************************************************************)
EXTENDS EventWriter, WellFoundedInduction, SequenceTheorems, TLAPS

(***************************************************************************)
(* Induction over data: a set of natural numbers that holds 0 and with     *)
(* every number the next one holds all of them.                            *)
(***************************************************************************)
LEMMA LeastNatural ==
  ASSUME NEW S \in SUBSET Nat, S # {}
  PROVE  \E n \in S : \A m \in S : n <= m
<1> DEFINE R == {p \in Nat \X Nat : p[1] < p[2]}
<1>1. IsWellFoundedOn(R, Nat)
  BY NatLessThanWellFounded DEF OpToRel
<1>2. \A m, n \in Nat : m < n => <<m, n>> \in R
  OBVIOUS
<1> HIDE DEF R
<1>3. PICK n \in S : \A m \in S : ~(<<m, n>> \in R)
  BY <1>1, WFMin
<1>4. ASSUME NEW m \in S PROVE n <= m
  <2>1. m \in Nat /\ n \in Nat
    OBVIOUS
  <2>2. ~(m < n)
    BY <1>2, <1>3, <2>1
  <2> QED BY <2>1, <2>2
<1> QED BY <1>4

(* Induction: a set with 0 and with the successor of each of its numbers.  *)
LEMMA SetInduction ==
  ASSUME NEW S \in SUBSET Nat, 0 \in S, \A n \in S : n + 1 \in S
  PROVE  S = Nat
<1> SUFFICES ASSUME S # Nat PROVE FALSE
  OBVIOUS
<1>1. PICK n \in Nat \ S : \A m \in Nat \ S : n <= m
  BY LeastNatural
<1>2. n # 0 /\ n - 1 \in Nat
  BY <1>1
<1>3. n - 1 \in S
  BY <1>1, <1>2
<1> QED BY <1>1, <1>2, <1>3

(* A value for every number, given that of 0 and how that of a number is made from that of a smaller one. *)
ValueAt(b, prev, step, f, n) == IF n = 0 THEN b ELSE step[<<n, f[prev[n]]>>]

(* f is such a function up to n.                                           *)
MadeUpTo(b, prev, step, f, n) == \A i \in 0..n : f[i] = ValueAt(b, prev, step, f, i)

(* The values lie in V, and a number is made from a smaller one.           *)
Recursion(V, b, prev, step) ==
  /\ b \in V
  /\ prev \in [Nat \ {0} -> Nat] /\ \A n \in Nat \ {0} : prev[n] < n
  /\ step \in [(Nat \ {0}) \X V -> V]

(* There is such a function up to every number.                            *)
LEMMA RecursionUpTo ==
  ASSUME NEW V, NEW b, NEW prev, NEW step, Recursion(V, b, prev, step), NEW n \in Nat
  PROVE  \E f \in [0..n -> V] : MadeUpTo(b, prev, step, f, n)
<1> USE DEF Recursion
<1> DEFINE K == {k \in Nat : \E f \in [0..k -> V] : MadeUpTo(b, prev, step, f, k)}
<1>1. 0 \in K
  <2> DEFINE f == [i \in 0..0 |-> b]
  <2>1. f \in [0..0 -> V] /\ MadeUpTo(b, prev, step, f, 0)
    BY DEF ValueAt, MadeUpTo
  <2> HIDE DEF f
  <2> QED BY <2>1
<1>2. ASSUME NEW k \in K PROVE k + 1 \in K
  <2>1. PICK g \in [0..k -> V] : MadeUpTo(b, prev, step, g, k)
    OBVIOUS
  <2>0. k \in Nat
    OBVIOUS
  <2> HIDE DEF K
  <2> DEFINE h == [i \in 0..(k + 1) |-> ValueAt(b, prev, step, g, i)]
  <2>2. ASSUME NEW i \in 0..(k + 1) PROVE h[i] \in V /\ h[i] = ValueAt(b, prev, step, h, i)
    <3>1. CASE i = 0
      BY <3>1 DEF ValueAt
    <3>2. CASE i # 0
      <4>1. i \in Nat \ {0} /\ prev[i] \in 0..k /\ prev[i] \in 0..(k + 1)
        BY <2>0, <3>2
      <4>2. g[prev[i]] \in V
        BY <4>1
      <4>3. h[prev[i]] = g[prev[i]]
        BY <2>1, <4>1 DEF MadeUpTo
      <4>4. h[i] = step[<<i, g[prev[i]]>>]
        BY <3>2 DEF ValueAt
      <4> HIDE DEF h
      <4> QED BY <3>2, <4>1, <4>2, <4>3, <4>4 DEF ValueAt
    <3> QED BY <3>1, <3>2
  <2>3. h \in [0..(k + 1) -> V]
    BY <2>2
  <2> HIDE DEF h
  <2>4. MadeUpTo(b, prev, step, h, k + 1)
    BY <2>2 DEF MadeUpTo
  <2>5. \E f \in [0..(k + 1) -> V] : MadeUpTo(b, prev, step, f, k + 1)
    BY <2>3, <2>4
  <2> QED BY <2>0, <2>5 DEF K
<1> HIDE DEF K
<1>3. K \in SUBSET Nat
  BY DEF K
<1>4. n \in K
  BY <1>1, <1>2, <1>3, SetInduction
<1> QED BY <1>4 DEF K

(* Two such functions agree as far as both go.                             *)
LEMMA RecursionAgrees ==
  ASSUME NEW V, NEW b, NEW prev, NEW step, Recursion(V, b, prev, step), NEW n \in Nat, NEW m \in Nat,
         NEW f, MadeUpTo(b, prev, step, f, n), NEW g, MadeUpTo(b, prev, step, g, m),
         NEW k \in Nat, k <= n, k <= m
  PROVE  f[k] = g[k]
<1> USE DEF Recursion
<1> DEFINE S == {i \in Nat : i <= n /\ i <= m /\ f[i] # g[i]}
<1> SUFFICES ASSUME S # {} PROVE FALSE
  OBVIOUS
<1>1. PICK i \in S : \A j \in S : i <= j
  <2> HIDE DEF S
  <2>1. S \in SUBSET Nat
    BY DEF S
  <2> QED BY <2>1, LeastNatural
<1>2. f[i] = ValueAt(b, prev, step, f, i) /\ g[i] = ValueAt(b, prev, step, g, i)
  BY DEF MadeUpTo
<1>3. CASE i = 0
  BY <1>2, <1>3 DEF ValueAt
<1>4. CASE i # 0
  <2>1. prev[i] \in Nat /\ prev[i] < i
    BY <1>4
  <2>2. f[prev[i]] = g[prev[i]]
    BY <1>1, <2>1
  <2> QED BY <1>2, <1>4, <2>2 DEF ValueAt
<1> QED BY <1>3, <1>4

(* There is such a function on all numbers: the recursive definition means *)
(* something.                                                              *)
LEMMA RecursionExists ==
  ASSUME NEW V, NEW b, NEW prev, NEW step, Recursion(V, b, prev, step)
  PROVE  \E f \in [Nat -> V] : \A n \in Nat : f[n] = ValueAt(b, prev, step, f, n)
<1> DEFINE G(n) == CHOOSE g \in [0..n -> V] : MadeUpTo(b, prev, step, g, n)
           f == [n \in Nat |-> G(n)[n]]
<1>1. ASSUME NEW n \in Nat PROVE G(n) \in [0..n -> V] /\ MadeUpTo(b, prev, step, G(n), n)
  <2>1. \E g \in [0..n -> V] : MadeUpTo(b, prev, step, g, n)
    BY RecursionUpTo
  <2> QED BY <2>1
<1> HIDE DEF G
<1>2. f \in [Nat -> V]
  BY <1>1
<1>3. ASSUME NEW n \in Nat PROVE f[n] = ValueAt(b, prev, step, f, n)
  <2>1. f[n] = ValueAt(b, prev, step, G(n), n)
    BY <1>1 DEF MadeUpTo
  <2>2. CASE n = 0
    BY <2>1, <2>2 DEF ValueAt
  <2>3. CASE n # 0
    <3>1. prev[n] \in Nat /\ prev[n] <= n
      BY <2>3 DEF Recursion
    <3> DEFINE u == prev[n]
    <3> HIDE DEF u
    <3>2. u \in Nat /\ u <= n /\ u <= u
      BY <3>1 DEF u
    <3>3. MadeUpTo(b, prev, step, G(n), n) /\ MadeUpTo(b, prev, step, G(u), u)
      BY <1>1, <3>2
    <3>4. G(n)[u] = G(u)[u]
      <4>1. \A h, g : MadeUpTo(b, prev, step, h, n) /\ MadeUpTo(b, prev, step, g, u) => h[u] = g[u]
        BY <3>2, RecursionAgrees
      <4> QED BY <3>3, <4>1
    <3>5. f[u] = G(u)[u]
      BY <3>2
    <3> HIDE DEF f
    <3> QED BY <2>1, <2>3, <3>4, <3>5 DEF ValueAt, u
  <2> QED BY <2>2, <2>3
<1> HIDE DEF f
<1> QED BY <1>2, <1>3
-----------------------------------------------------------------------------
(* FlattenSeq, which is defined by recursion over the places of seqs.      *)
FlatBody(g, i, seqs) == IF i = 1 THEN seqs[i] ELSE g[i - 1] \o seqs[i]

(* The recursive function of FlattenSeq exists.                            *)
LEMMA FlattenExists ==
  ASSUME NEW seqs, NEW n \in Nat
  PROVE  \E g : g = [i \in 1..n |-> FlatBody(g, i, seqs)]
<1> DEFINE K == {k \in Nat : \E g : g = [i \in 1..k |-> FlatBody(g, i, seqs)]}
<1>1. 0 \in K
  <2>1. [i \in 1..0 |-> 0] = [i \in 1..0 |-> FlatBody([j \in 1..0 |-> 0], i, seqs)]
    OBVIOUS
  <2> QED BY <2>1
<1>2. ASSUME NEW k \in K PROVE k + 1 \in K
  <2>1. PICK g : g = [i \in 1..k |-> FlatBody(g, i, seqs)]
    OBVIOUS
  <2> DEFINE h == [i \in 1..(k + 1) |-> FlatBody(g, i, seqs)]
  <2>2. ASSUME NEW i \in 1..(k + 1) PROVE h[i] = FlatBody(h, i, seqs)
    <3>1. i # 1 => i - 1 \in 1..k /\ i - 1 \in 1..(k + 1)
      OBVIOUS
    <3>2. i # 1 => g[i - 1] = h[i - 1]
      BY <2>1, <3>1
    <3> QED BY <3>2 DEF FlatBody
  <2>3. h = [i \in 1..(k + 1) |-> FlatBody(h, i, seqs)]
    BY <2>2
  <2>4. \E e : e = [i \in 1..(k + 1) |-> FlatBody(e, i, seqs)]
    <3> HIDE DEF h
    <3> QED BY <2>3
  <2> QED BY <2>4
<1> HIDE DEF K
<1>3. K = Nat
  <2>1. K \in SUBSET Nat
    BY DEF K
  <2> QED BY <1>1, <1>2, <2>1, SetInduction
<1> QED BY <1>3 DEF K

(* FlattenSeq is the last value of that function.                          *)
LEMMA FlattenUnfold ==
  ASSUME NEW seqs, Len(seqs) \in Nat, Len(seqs) # 0
  PROVE  \E g : /\ g = [i \in 1..Len(seqs) |-> FlatBody(g, i, seqs)]
                /\ FlattenSeq(seqs) = g[Len(seqs)]
<1> DEFINE f == CHOOSE g : g = [i \in 1..Len(seqs) |-> FlatBody(g, i, seqs)]
<1>1. FlattenSeq(seqs) = f[Len(seqs)]
  BY DEF FlattenSeq, FlatBody
<1>2. f = [i \in 1..Len(seqs) |-> FlatBody(f, i, seqs)]
  BY FlattenExists
<1> QED BY <1>1, <1>2

(* FlattenSeq of sequences over S is a sequence over S.                    *)
LEMMA FlattenType ==
  ASSUME NEW S, NEW seqs \in Seq(Seq(S))
  PROVE  FlattenSeq(seqs) \in Seq(S)
<1>1. CASE Len(seqs) = 0
  BY <1>1 DEF FlattenSeq
<1>2. CASE Len(seqs) # 0
  <2>1. PICK g : /\ g = [i \in 1..Len(seqs) |-> FlatBody(g, i, seqs)]
                 /\ FlattenSeq(seqs) = g[Len(seqs)]
    BY <1>2, FlattenUnfold
  <2> DEFINE K == {k \in Nat : k + 1 \in 1..Len(seqs) => g[k + 1] \in Seq(S)}
  <2>2. 0 \in K
    BY <1>2, <2>1 DEF FlatBody
  <2>3. ASSUME NEW k \in K PROVE k + 1 \in K
    <3> SUFFICES ASSUME k + 2 \in 1..Len(seqs) PROVE g[k + 2] \in Seq(S)
      OBVIOUS
    <3>1. g[k + 1] \in Seq(S) /\ seqs[k + 2] \in Seq(S)
      OBVIOUS
    <3>2. g[k + 2] = g[k + 1] \o seqs[k + 2]
      <4>1. k + 2 # 1 /\ (k + 2) - 1 = k + 1
        OBVIOUS
      <4>2. g[k + 2] = FlatBody(g, k + 2, seqs)
        BY <2>1
      <4> QED BY <4>1, <4>2 DEF FlatBody
    <3> QED BY <3>1, <3>2
  <2>4. K = Nat
    <3> HIDE DEF K
    <3>1. K \in SUBSET Nat
      BY DEF K
    <3> QED BY <2>2, <2>3, <3>1, SetInduction
  <2>5. Len(seqs) \in Nat \ {0}
    BY <1>2
  <2>6. Len(seqs) - 1 \in K /\ (Len(seqs) - 1) + 1 = Len(seqs)
    <3> HIDE DEF K
    <3> QED BY <2>4, <2>5
  <2>7. g[(Len(seqs) - 1) + 1] \in Seq(S)
    BY <2>5, <2>6
  <2> QED BY <2>1, <2>6, <2>7
<1> QED BY <1>1, <1>2
-----------------------------------------------------------------------------
(***************************************************************************)
(* The bytes of a number.                                                  *)
(***************************************************************************)
(* The byte NonTagBytes puts first, and one step of its recursion.         *)
LowBits(val) ==
  <<(val % 2^NON_TAG_BYTE_OFFSET)
      + (IF val < 2^NON_TAG_BYTE_OFFSET THEN 0 ELSE 2^NON_TAG_BYTE_OFFSET)>>

BytesBody(g, val) ==
  IF val = 0 THEN <<>> ELSE LowBits(val) \o g[val \div 2^NON_TAG_BYTE_OFFSET]

(* The recursion of NonTagBytes goes down.                                 *)
LEMMA HighBitsSmaller ==
  ASSUME NEW val \in Nat, val # 0
  PROVE  val \div 2^NON_TAG_BYTE_OFFSET \in Nat /\ val \div 2^NON_TAG_BYTE_OFFSET < val
<1> DEFINE b == 2^NON_TAG_BYTE_OFFSET
<1>1. b \in Nat \ {0, 1}
  BY RawDataAssumption
<1> HIDE DEF b
<1>2. val \div b \in Nat /\ val \div b < val
  BY <1>1
<1> QED BY <1>2 DEF b

(* NonTagBytes exists.                                                     *)
LEMMA BytesExist == \E g : g = [val \in Nat |-> BytesBody(g, val)]
<1> DEFINE prev == [val \in Nat \ {0} |-> val \div 2^NON_TAG_BYTE_OFFSET]
           step == [p \in (Nat \ {0}) \X Seq(Int) |-> LowBits(p[1]) \o p[2]]
<1>1. \A val \in Nat \ {0} : LowBits(val) \in Seq(Int)
  BY RawDataAssumption DEF LowBits
<1>2. Recursion(Seq(Int), <<>>, prev, step)
  <2>1. prev \in [Nat \ {0} -> Nat] /\ \A val \in Nat \ {0} : prev[val] < val
    BY HighBitsSmaller
  <2>2. \A p \in (Nat \ {0}) \X Seq(Int) : LowBits(p[1]) \o p[2] \in Seq(Int)
    BY <1>1
  <2>3. step \in [(Nat \ {0}) \X Seq(Int) -> Seq(Int)]
    BY <2>2
  <2> HIDE DEF prev, step
  <2> QED BY <2>1, <2>3 DEF Recursion
<1>3. PICK g \in [Nat -> Seq(Int)] : \A val \in Nat : g[val] = ValueAt(<<>>, prev, step, g, val)
  <2> HIDE DEF prev, step
  <2> QED BY <1>2, RecursionExists
<1>4. ASSUME NEW val \in Nat PROVE g[val] = BytesBody(g, val)
  <2>1. CASE val = 0
    BY <1>3, <2>1 DEF ValueAt, BytesBody
  <2>2. CASE val # 0
    <3>1. prev[val] = val \div 2^NON_TAG_BYTE_OFFSET /\ prev[val] \in Nat
      BY <2>2, HighBitsSmaller
    <3>2. g[val] = step[<<val, g[prev[val]]>>]
      <4> HIDE DEF prev, step
      <4> QED BY <1>3, <2>2 DEF ValueAt
    <3>3. <<val, g[prev[val]]>> \in (Nat \ {0}) \X Seq(Int)
      BY <2>2, <3>1
    <3>4. g[val] = LowBits(val) \o g[prev[val]]
      BY <3>2, <3>3
    <3> QED BY <2>2, <3>1, <3>4 DEF BytesBody
  <2> QED BY <2>1, <2>2
<1> QED BY <1>4

(* NonTagBytes is what its definition says.                                *)
LEMMA BytesUnfold == NonTagBytes = [val \in Nat |-> BytesBody(NonTagBytes, val)]
<1>1. NonTagBytes = CHOOSE g : g = [val \in Nat |-> BytesBody(g, val)]
  BY DEF NonTagBytes, BytesBody, LowBits
<1> QED BY <1>1, BytesExist

(* It is a sequence of cells.                                              *)
LEMMA BytesType == ASSUME NEW val \in Nat PROVE NonTagBytes[val] \in Seq(Int)
<1> DEFINE S == {v \in Nat : NonTagBytes[v] \notin Seq(Int)}
<1> SUFFICES ASSUME S # {} PROVE FALSE
  OBVIOUS
<1>1. PICK v \in S : \A u \in S : v <= u
  <2> HIDE DEF S
  <2>1. S \in SUBSET Nat
    BY DEF S
  <2> QED BY <2>1, LeastNatural
<1>5. v \in Nat /\ NonTagBytes[v] \notin Seq(Int)
  OBVIOUS
<1> HIDE DEF S
<1>2. NonTagBytes[v] = BytesBody(NonTagBytes, v)
  BY <1>5, BytesUnfold
<1>3. CASE v = 0
  <2>1. NonTagBytes[v] = <<>>
    BY <1>2, <1>3 DEF BytesBody
  <2> QED BY <1>5, <2>1
<1>4. CASE v # 0
  <2> DEFINE u == v \div 2^NON_TAG_BYTE_OFFSET
  <2>1. u \in Nat /\ u < v
    BY <1>4, <1>5, HighBitsSmaller
  <2> HIDE DEF u
  <2>2. NonTagBytes[u] \in Seq(Int)
    BY <1>1, <2>1 DEF S
  <2>3. LowBits(v) \in Seq(Int)
    BY <1>5, RawDataAssumption DEF LowBits
  <2>4. NonTagBytes[v] = LowBits(v) \o NonTagBytes[u]
    BY <1>2, <1>4 DEF BytesBody, u
  <2> QED BY <1>5, <2>2, <2>3, <2>4
<1> QED BY <1>3, <1>4
-----------------------------------------------------------------------------
(***************************************************************************)
(* The calls of Append: AppendAll is a fold over the places of the chunks. *)
(***************************************************************************)
(* One call of Append in AppendAll, and one step of its fold.              *)
AppendStep(r, i, chunks, stop) ==
  LET pos  == Len(r.raw.data)
      grow == pos + Len(chunks[i]) > r.raw.capacity
  IN  IF r.ok /\ CanUpdate(r.raw, chunks[i], pos) /\ ~(grow /\ i = stop)
      THEN [ok |-> TRUE, raw |-> Update(r.raw, chunks[i], pos)]
      ELSE [r EXCEPT !.ok = FALSE]

AppendBody(g, s, raw, chunks, stop) ==
  IF s = {} THEN [ok |-> TRUE, raw |-> raw]
  ELSE AppendStep(g[s \ {Max(s)}], [i \in DOMAIN chunks |-> i][Max(s)], chunks, stop)

(* The largest of some places.                                             *)
LEMMA LastOfSome ==
  ASSUME NEW n \in Nat, NEW s \in SUBSET (1..n), s # {}
  PROVE  Max(s) \in s /\ \A i \in s : i <= Max(s)
<1> DEFINE T == {m \in Nat : n - m \in s}
<1>1. T # {}
  <2>1. PICK i \in s : TRUE
    OBVIOUS
  <2>2. n - i \in Nat /\ n - (n - i) = i
    BY <2>1
  <2> QED BY <2>1, <2>2
<1>2. PICK m \in T : \A u \in T : m <= u
  <2> HIDE DEF T
  <2>1. T \in SUBSET Nat
    BY DEF T
  <2> QED BY <1>1, <2>1, LeastNatural
<1>3. ASSUME NEW i \in s PROVE n - m >= i
  <2>1. n - i \in Nat /\ n - (n - i) = i
    OBVIOUS
  <2>2. n - i \in T
    BY <2>1
  <2> QED BY <1>2, <2>1, <2>2, SMTT(30)
<1>4. n - m \in s
  OBVIOUS
<1>5. \E x \in s : \A i \in s : x >= i
  BY <1>3, <1>4
<1>6. Max(s) \in s /\ \A i \in s : Max(s) >= i
  BY <1>5 DEF Max
<1> QED BY <1>6

AppendIter(g, places, raw, chunks, stop) ==
  g = [s \in SUBSET places |-> AppendBody(g, s, raw, chunks, stop)]

(* The recursive function of the fold exists.                              *)
LEMMA AppendIterates ==
  ASSUME NEW raw, NEW chunks, NEW stop, NEW n \in Nat
  PROVE  \E g : AppendIter(g, 1..n, raw, chunks, stop)
<1> DEFINE B(g, s) == AppendBody(g, s, raw, chunks, stop)
           K == {k \in Nat : \E g : g = [s \in SUBSET (1..k) |-> B(g, s)]}
<1>1. 0 \in K
  <2> DEFINE g0 == [s \in SUBSET (1..0) |-> [ok |-> TRUE, raw |-> raw]]
  <2>1. ASSUME NEW s \in SUBSET (1..0) PROVE B(g0, s) = [ok |-> TRUE, raw |-> raw]
    <3>1. s = {}
      OBVIOUS
    <3> QED BY <3>1 DEF AppendBody
  <2>2. g0 = [s \in SUBSET (1..0) |-> B(g0, s)]
    <3> HIDE DEF B
    <3> QED BY <2>1
  <2>3. \E g : g = [s \in SUBSET (1..0) |-> B(g, s)]
    <3> HIDE DEF g0
    <3> QED BY <2>2
  <2> QED BY <2>3
<1>2. ASSUME NEW k \in K PROVE k + 1 \in K
  <2>1. PICK g : g = [s \in SUBSET (1..k) |-> B(g, s)]
    OBVIOUS
  <2> DEFINE h == [s \in SUBSET (1..(k + 1)) |-> B(g, s)]
  <2>2. ASSUME NEW s \in SUBSET (1..(k + 1)) PROVE B(g, s) = B(h, s)
    <3>1. CASE s = {}
      BY <3>1 DEF AppendBody
    <3>2. CASE s # {}
      <4> DEFINE t == s \ {Max(s)}
      <4>1. t \in SUBSET (1..k) /\ t \in SUBSET (1..(k + 1))
        <5>1. k \in Nat /\ k + 1 \in Nat
          OBVIOUS
        <5>2. Max(s) \in s /\ \A i \in s : i <= Max(s)
          BY <3>2, <5>1, LastOfSome
        <5>3. ASSUME NEW i \in t PROVE i \in 1..k
          <6>1. i \in 1..(k + 1) /\ Max(s) \in 1..(k + 1) /\ i <= Max(s) /\ i # Max(s)
            BY <5>2
          <6> QED BY <5>1, <6>1
        <5> QED BY <5>3
      <4> HIDE DEF t
      <4>2. g[t] = h[t]
        <5>1. g[t] = B(g, t)
          BY <2>1, <4>1
        <5>2. h[t] = B(g, t)
          BY <4>1
        <5> QED BY <5>1, <5>2
      <4> HIDE DEF h
      <4> QED BY <3>2, <4>2 DEF AppendBody, t
    <3> QED BY <3>1, <3>2
  <2>3. h = [s \in SUBSET (1..(k + 1)) |-> B(h, s)]
    <3> HIDE DEF B
    <3> QED BY <2>2
  <2>4. \E e : e = [s \in SUBSET (1..(k + 1)) |-> B(e, s)]
    <3> HIDE DEF h
    <3> QED BY <2>3
  <2> QED BY <2>4
<1> HIDE DEF K
<1>3. K = Nat
  <2>1. K \in SUBSET Nat
    BY DEF K
  <2> QED BY <1>1, <1>2, <2>1, SetInduction
<1> QED BY <1>3 DEF K, AppendIter

(* AppendAll makes its calls one after the other.                          *)
LEMMA AppendAllRuns ==
  ASSUME NEW raw, NEW S, NEW chunks \in Seq(S), NEW stop
  PROVE  \E w : /\ w[0] = [ok |-> TRUE, raw |-> raw]
                /\ \A i \in 1..Len(chunks) : w[i] = AppendStep(w[i - 1], i, chunks, stop)
                /\ AppendAll(raw, chunks, stop) = w[Len(chunks)]
<1> DEFINE n == Len(chunks)
           D == DOMAIN [i \in DOMAIN chunks |-> i]
           iter == CHOOSE g : AppendIter(g, D, raw, chunks, stop)
           w == [i \in 0..n |-> iter[1..i]]
<1>1. AppendAll(raw, chunks, stop) = iter[D]
  BY DEF AppendAll, FoldLeftDomain, FoldLeft, MapThenFoldSet, AppendIter, AppendBody, AppendStep
<1>2. D = 1..n /\ n \in Nat
  OBVIOUS
<1>3. iter = [s \in SUBSET (1..n) |-> AppendBody(iter, s, raw, chunks, stop)]
  <2> HIDE DEF D, n
  <2>1. \E g : AppendIter(g, D, raw, chunks, stop)
    BY <1>2, AppendIterates
  <2>2. AppendIter(iter, D, raw, chunks, stop)
    BY <2>1
  <2> QED BY <1>2, <2>2 DEF AppendIter
<1>4. DOMAIN chunks = 1..n
  OBVIOUS
<1> HIDE DEF iter, D, n
<1>5. w[0] = [ok |-> TRUE, raw |-> raw]
  <2>1. 1..0 = {} /\ {} \in SUBSET (1..n)
    OBVIOUS
  <2>2. iter[{}] = AppendBody(iter, {}, raw, chunks, stop)
    BY <1>3, <2>1
  <2>3. w[0] = iter[{}]
    BY <1>2, <2>1
  <2> QED BY <2>2, <2>3 DEF AppendBody
<1>6. ASSUME NEW i \in 1..n PROVE w[i] = AppendStep(w[i - 1], i, chunks, stop)
  <2>1. 1..i # {} /\ 1..i \in SUBSET (1..n) /\ i \in 0..n /\ i - 1 \in 0..n /\ i \in Nat
    BY <1>2
  <2>2. Max(1..i) = i
    <3>1. Max(1..i) \in 1..i /\ \A j \in 1..i : j <= Max(1..i)
      BY <2>1, LastOfSome
    <3>2. i \in 1..i
      BY <2>1
    <3> QED BY <2>1, <3>1, <3>2
  <2>3. 1..i \ {i} = 1..(i - 1)
    BY <2>1
  <2>4. iter[1..i] = AppendBody(iter, 1..i, raw, chunks, stop)
    BY <1>3, <2>1
  <2>5. iter[1..i] = AppendStep(iter[1..(i - 1)], i, chunks, stop)
    BY <1>4, <2>1, <2>2, <2>3, <2>4 DEF AppendBody
  <2> QED BY <2>1, <2>5
<1>7. AppendAll(raw, chunks, stop) = w[n]
  BY <1>1, <1>2
<1> HIDE DEF w
<1> QED BY <1>5, <1>6, <1>7 DEF n
-----------------------------------------------------------------------------
(* A RawData: cells, and room for them.                                    *)
RawOk(raw) ==
  /\ raw = [data |-> raw.data, capacity |-> raw.capacity]
  /\ raw.data \in Seq(Int)
  /\ raw.capacity \in Nat
  /\ Len(raw.data) <= raw.capacity

(* Cells behind cells.                                                     *)
LEMMA JoinedCells ==
  ASSUME NEW s \in Seq(Int), NEW t \in Seq(Int)
  PROVE  s \o t \in Seq(Int) /\ Len(s \o t) = Len(s) + Len(t)
OBVIOUS

(* Cells behind cells behind cells.                                        *)
LEMMA JoinedAnyhow ==
  ASSUME NEW s \in Seq(Int), NEW t \in Seq(Int), NEW u \in Seq(Int)
  PROVE  (s \o t) \o u = s \o (t \o u)
BY ConcatAssociative, SMTT(30)

(* The buffer grows enough for what Update writes.                         *)
LEMMA ExpandedFits ==
  ASSUME NEW raw, RawOk(raw), NEW len \in Nat, NEW pos \in 0..Len(raw.data)
  PROVE  /\ Expanded(raw, len, pos) \in Nat
         /\ pos + len <= Expanded(raw, len, pos)
         /\ Len(raw.data) <= Expanded(raw, len, pos)
<1>1. EXPAND_BUF_SIZE \in Nat \ {0}
  BY RawDataAssumption
<1> QED BY <1>1 DEF RawOk, Expanded

(* Update works anywhere in the data, and keeps a RawData one.             *)
LEMMA UpdateLength ==
  ASSUME NEW raw, RawOk(raw), NEW chunk \in Seq(Int), NEW pos \in 0..Len(raw.data)
  PROVE  /\ CanUpdate(raw, chunk, pos)
         /\ RawOk(Update(raw, chunk, pos))
         /\ pos + Len(chunk) <= Len(raw.data) => Len(Update(raw, chunk, pos).data) = Len(raw.data)
<1> DEFINE d == raw.data
           new == SubSeq(d, 1, pos) \o chunk \o SubSeq(d, pos + Len(chunk) + 1, Len(d))
           cap == Expanded(raw, Len(chunk), pos)
<1>1. d \in Seq(Int) /\ Len(chunk) \in Nat /\ Len(d) \in Nat /\ pos \in Nat /\ pos <= Len(d)
  BY DEF RawOk
<1>2. cap \in Nat /\ pos + Len(chunk) <= cap /\ Len(d) <= cap
  BY <1>1, ExpandedFits
<1>3. Update(raw, chunk, pos) = [data |-> new, capacity |-> cap]
  BY DEF Update
<1> HIDE DEF d, cap
<1>4. SubSeq(d, 1, pos) \in Seq(Int) /\ Len(SubSeq(d, 1, pos)) = pos
  BY <1>1
<1>5. SubSeq(d, pos + Len(chunk) + 1, Len(d)) \in Seq(Int)
  BY <1>1
<1>6. Len(SubSeq(d, pos + Len(chunk) + 1, Len(d)))
        = IF pos + Len(chunk) <= Len(d) THEN Len(d) - (pos + Len(chunk)) ELSE 0
  BY <1>1
<1>7. new \in Seq(Int) /\ Len(new) = IF pos + Len(chunk) <= Len(d) THEN Len(d) ELSE pos + Len(chunk)
  <2> HIDE DEF new
  <2> DEFINE a == SubSeq(d, 1, pos)
             z == SubSeq(d, pos + Len(chunk) + 1, Len(d))
  <2>1. a \in Seq(Int) /\ Len(a) = pos /\ z \in Seq(Int)
        /\ Len(z) = IF pos + Len(chunk) <= Len(d) THEN Len(d) - (pos + Len(chunk)) ELSE 0
    BY <1>4, <1>5, <1>6
  <2> HIDE DEF a, z
  <2>2. a \o chunk \in Seq(Int) /\ Len(a \o chunk) = Len(a) + Len(chunk)
    BY <2>1, JoinedCells, Zenon
  <2> DEFINE e == a \o chunk
  <2>3. e \in Seq(Int) /\ Len(e) = pos + Len(chunk)
    BY <2>1, <2>2
  <2> HIDE DEF e
  <2>4. e \o z \in Seq(Int) /\ Len(e \o z) = Len(e) + Len(z)
    BY <2>1, <2>3, JoinedCells, Zenon
  <2>5. new = e \o z
    BY DEF new, e, a, z
  <2>6. Len(new) = IF pos + Len(chunk) <= Len(d) THEN Len(d) ELSE pos + Len(chunk)
    <3>1. Len(new) = (pos + Len(chunk)) + Len(z)
      BY <2>3, <2>4, <2>5
    <3>2. pos \in Nat /\ Len(chunk) \in Nat /\ Len(d) \in Nat
      BY <1>1
    <3> HIDE DEF new
    <3>3. Len(z) = IF pos + Len(chunk) <= Len(d) THEN Len(d) - (pos + Len(chunk)) ELSE 0
      BY <2>1
    <3>4. CASE pos + Len(chunk) <= Len(d)
      BY <3>1, <3>2, <3>3, <3>4
    <3>5. CASE ~(pos + Len(chunk) <= Len(d))
      BY <3>1, <3>2, <3>3, <3>5
    <3> QED BY <3>4, <3>5
  <2> QED BY <2>4, <2>5, <2>6
<1> HIDE DEF new
<1>8. RawOk(Update(raw, chunk, pos))
  BY <1>1, <1>2, <1>3, <1>7 DEF RawOk
<1> QED BY <1>1, <1>2, <1>3, <1>7, <1>8 DEF CanUpdate, cap, d

(* At the end of the data Update appends.                                  *)
LEMMA UpdateAtEnd ==
  ASSUME NEW raw, RawOk(raw), NEW chunk \in Seq(Int)
  PROVE  /\ CanUpdate(raw, chunk, Len(raw.data))
         /\ RawOk(Update(raw, chunk, Len(raw.data)))
         /\ Update(raw, chunk, Len(raw.data)).data = raw.data \o chunk
<1>1. raw.data \in Seq(Int) /\ Len(raw.data) \in Nat /\ Len(raw.data) \in 0..Len(raw.data)
  BY DEF RawOk
<1>2. CanUpdate(raw, chunk, Len(raw.data)) /\ RawOk(Update(raw, chunk, Len(raw.data)))
  BY <1>1, UpdateLength
<1>3. Update(raw, chunk, Len(raw.data)).data = raw.data \o chunk
  <2> DEFINE d == raw.data
  <2>1. d \in Seq(Int)
    BY <1>1
  <2>2. Update(raw, chunk, Len(raw.data)).data
          = SubSeq(d, 1, Len(d)) \o chunk \o SubSeq(d, Len(d) + Len(chunk) + 1, Len(d))
    BY DEF Update
  <2> HIDE DEF d
  <2>3. SubSeq(d, 1, Len(d)) = d
    BY <2>1
  <2>4. SubSeq(d, Len(d) + Len(chunk) + 1, Len(d)) = <<>>
    BY <2>1
  <2>5. d \o chunk \o <<>> = d \o chunk
    BY <2>1
  <2> QED BY <2>2, <2>3, <2>4, <2>5 DEF d
<1> QED BY <1>2, <1>3

(* The result of one call of Append.                                       *)
AppendOk(r) == r = [ok |-> r.ok, raw |-> r.raw] /\ RawOk(r.raw)

Appended(r, s, chunk, stop) ==
  /\ AppendOk(s)
  /\ s.ok => r.ok /\ s.raw.data = r.raw.data \o chunk
  /\ r.ok /\ stop = 0 => s.ok
  /\ s.raw.data = r.raw.data \/ s.raw.data = r.raw.data \o chunk

(* A call appends its chunk or nothing, and only memory can stop it.       *)
LEMMA AppendStepOk ==
  ASSUME NEW r, AppendOk(r), NEW chunks \in Seq(Seq(Int)), NEW i \in 1..Len(chunks), NEW stop,
         NEW s, s = AppendStep(r, i, chunks, stop)
  PROVE  Appended(r, s, chunks[i], stop)
<1> DEFINE c == chunks[i]
           pos == Len(r.raw.data)
           grow == pos + Len(c) > r.raw.capacity
           new == Update(r.raw, c, pos)
<1>1. c \in Seq(Int) /\ RawOk(r.raw)
  BY DEF AppendOk
<1>2. CanUpdate(r.raw, c, pos) /\ RawOk(new) /\ new.data = r.raw.data \o c
  BY <1>1, UpdateAtEnd
<1>3. s = IF r.ok /\ CanUpdate(r.raw, c, pos) /\ ~(grow /\ i = stop)
          THEN [ok |-> TRUE, raw |-> new] ELSE [r EXCEPT !.ok = FALSE]
  BY DEF AppendStep
<1>4. stop = 0 => i # stop
  OBVIOUS
<1> HIDE DEF c, pos, grow, new
<1>5. CASE r.ok /\ ~(grow /\ i = stop)
  <2>1. s = [ok |-> TRUE, raw |-> new]
    BY <1>2, <1>3, <1>5
  <2>2. s.ok /\ s.raw = new /\ s = [ok |-> s.ok, raw |-> s.raw]
    BY <2>1
  <2>3. AppendOk(s)
    BY <1>2, <2>2 DEF AppendOk
  <2>4. s.raw.data = r.raw.data \o chunks[i]
    BY <1>2, <2>2 DEF c
  <2> QED BY <1>5, <2>2, <2>3, <2>4 DEF Appended
<1>6. CASE ~(r.ok /\ ~(grow /\ i = stop))
  <2>1. s = [r EXCEPT !.ok = FALSE]
    BY <1>3, <1>6
  <2>2. ~s.ok /\ s.raw = r.raw /\ s = [ok |-> s.ok, raw |-> s.raw]
    BY <2>1 DEF AppendOk
  <2>3. ~(r.ok /\ stop = 0)
    BY <1>4, <1>6
  <2> QED BY <1>1, <2>2, <2>3 DEF AppendOk, Appended
<1> QED BY <1>5, <1>6

Wrote(raw, chunks, stop, r) ==
  /\ RawOk(r.raw)
  /\ r.ok /\ chunks # <<>> => r.raw.data = raw.data \o FlattenSeq(chunks)
  /\ stop = 0 => r.ok
  /\ \E ext \in Seq(Int) : r.raw.data = raw.data \o ext

(* AppendAll appends all chunks if it succeeds and some cells if not, and it *)
(* succeeds unless memory runs out.                                        *)
LEMMA AppendAllWrites ==
  ASSUME NEW raw, RawOk(raw), NEW chunks \in Seq(Seq(Int)), NEW stop,
         NEW r, r = AppendAll(raw, chunks, stop)
  PROVE  Wrote(raw, chunks, stop, r)
<1> DEFINE n == Len(chunks)
<1>1. n \in Nat
  OBVIOUS
<1>2. PICK w : /\ w[0] = [ok |-> TRUE, raw |-> raw]
               /\ \A i \in 1..n : w[i] = AppendStep(w[i - 1], i, chunks, stop)
               /\ AppendAll(raw, chunks, stop) = w[n]
  BY AppendAllRuns
<1>3. PICK g : n # 0 => /\ g = [i \in 1..n |-> FlatBody(g, i, chunks)]
                        /\ FlattenSeq(chunks) = g[n]
  <2>1. CASE n = 0
    BY <2>1
  <2>2. CASE n # 0
    BY <1>1, <2>2, FlattenUnfold
  <2> QED BY <2>1, <2>2
<1> DEFINE P(k) == /\ AppendOk(w[k])
                   /\ w[k].ok => w[k].raw.data = IF k = 0 THEN raw.data ELSE raw.data \o g[k]
                   /\ stop = 0 => w[k].ok
                   /\ k # 0 => g[k] \in Seq(Int)
                   /\ \E ext \in Seq(Int) : w[k].raw.data = raw.data \o ext
           K == {k \in Nat : k <= n => P(k)}
<1>4. P(0)
  <2>1. raw.data = raw.data \o <<>> /\ <<>> \in Seq(Int)
    BY DEF RawOk
  <2>2. w[0].ok /\ w[0].raw = raw /\ w[0] = [ok |-> w[0].ok, raw |-> w[0].raw]
    BY <1>2
  <2>3. \E ext \in Seq(Int) : w[0].raw.data = raw.data \o ext
    BY <2>1, <2>2
  <2> QED BY <2>2, <2>3 DEF AppendOk
<1>5. ASSUME NEW k \in Nat, P(k), k + 1 <= n PROVE P(k + 1)
  <2>1. k + 1 # 0 /\ k <= n /\ k + 1 \in 1..n /\ (k + 1) - 1 = k /\ chunks[k + 1] \in Seq(Int)
    BY <1>1, <1>5
  <2>2. /\ AppendOk(w[k])
        /\ w[k].ok => w[k].raw.data = IF k = 0 THEN raw.data ELSE raw.data \o g[k]
        /\ stop = 0 => w[k].ok
        /\ k # 0 => g[k] \in Seq(Int)
    BY <1>5
  <2>3. w[k + 1] = AppendStep(w[k], k + 1, chunks, stop)
    BY <1>2, <2>1
  <2>4. /\ AppendOk(w[k + 1])
        /\ w[k + 1].ok => w[k].ok /\ w[k + 1].raw.data = w[k].raw.data \o chunks[k + 1]
        /\ w[k].ok /\ stop = 0 => w[k + 1].ok
        /\ w[k + 1].raw.data = w[k].raw.data \/ w[k + 1].raw.data = w[k].raw.data \o chunks[k + 1]
    <3>1. AppendOk(w[k]) /\ k + 1 \in 1..Len(chunks)
      BY <2>1, <2>2
    <3>2. Appended(w[k], w[k + 1], chunks[k + 1], stop)
      BY <2>3, <3>1, AppendStepOk
    <3> QED BY <3>2 DEF Appended
  <2>5. g[k + 1] = IF k = 0 THEN chunks[k + 1] ELSE g[k] \o chunks[k + 1]
    <3>1. g[k + 1] = FlatBody(g, k + 1, chunks)
      BY <1>1, <1>3, <2>1
    <3> QED BY <2>1, <3>1 DEF FlatBody
  <2>6. raw.data \in Seq(Int)
    BY DEF RawOk
  <2>7. g[k + 1] \in Seq(Int)
    BY <2>1, <2>2, <2>5
  <2>8. ASSUME w[k + 1].ok PROVE w[k + 1].raw.data = raw.data \o g[k + 1]
    <3>1. CASE k = 0
      BY <2>2, <2>4, <2>5, <2>8, <3>1
    <3>2. CASE k # 0
      <4>1. w[k + 1].raw.data = (raw.data \o g[k]) \o chunks[k + 1]
        BY <2>2, <2>4, <2>8, <3>2
      <4>2. (raw.data \o g[k]) \o chunks[k + 1] = raw.data \o (g[k] \o chunks[k + 1])
        <5>1. raw.data \in Seq(Int) /\ g[k] \in Seq(Int) /\ chunks[k + 1] \in Seq(Int)
          BY <2>1, <2>2, <2>6, <3>2
        <5> QED BY <5>1, JoinedAnyhow, Zenon
      <4> QED BY <2>5, <3>2, <4>1, <4>2
    <3> QED BY <3>1, <3>2
  <2>9. \E ext \in Seq(Int) : w[k + 1].raw.data = raw.data \o ext
    <3>1. PICK ext \in Seq(Int) : w[k].raw.data = raw.data \o ext
      BY <1>5
    <3>2. CASE w[k + 1].raw.data = w[k].raw.data
      BY <3>1, <3>2
    <3>3. CASE w[k + 1].raw.data = w[k].raw.data \o chunks[k + 1]
      <4>1. ext \o chunks[k + 1] \in Seq(Int)
        BY <2>1, JoinedCells
      <4>2. (raw.data \o ext) \o chunks[k + 1] = raw.data \o (ext \o chunks[k + 1])
        BY <2>1, <2>6, JoinedAnyhow, Zenon
      <4>3. w[k + 1].raw.data = raw.data \o (ext \o chunks[k + 1])
        BY <3>1, <3>3, <4>2
      <4> QED BY <4>1, <4>3
    <3> QED BY <2>4, <3>2, <3>3
  <2> QED BY <2>1, <2>2, <2>4, <2>7, <2>8, <2>9
<1> HIDE DEF P
<1>6. K = Nat
  <2>1. 0 \in K
    BY <1>4
  <2>2. ASSUME NEW k \in K PROVE k + 1 \in K
    BY <1>1, <1>5
  <2> HIDE DEF K
  <2>3. K \in SUBSET Nat
    BY DEF K
  <2> QED BY <2>1, <2>2, <2>3, SetInduction
<1>7. P(n)
  BY <1>1, <1>6
<1>8. chunks # <<>> => n # 0
  OBVIOUS
<1>9. /\ AppendOk(w[n])
      /\ w[n].ok /\ n # 0 => w[n].raw.data = raw.data \o g[n]
      /\ stop = 0 => w[n].ok
      /\ \E ext \in Seq(Int) : w[n].raw.data = raw.data \o ext
  BY <1>7 DEF P
<1> HIDE DEF n, K
<1> QED BY <1>2, <1>3, <1>8, <1>9 DEF AppendOk, Wrote
-----------------------------------------------------------------------------
(***************************************************************************)
(* The chunks of a parameter are sequences of cells.                       *)
(***************************************************************************)
(* A sequence behind a sequence.                                           *)
LEMMA JoinedSeqs ==
  ASSUME NEW S, NEW s \in Seq(S), NEW t \in Seq(S)
  PROVE  s \o t \in Seq(S)
OBVIOUS

(* A number of cells, each a call of Append of its own.                    *)
LEMMA VarintTyped ==
  ASSUME NEW type \in Int, NEW val \in Nat
  PROVE  VarintChunks(type, val) \in Seq(Seq(Int)) /\ VarintChunks(type, val) # <<>>
<1> DEFINE first == type * 2^(TAG_BYTE_OFFSET + 1)
                      + (IF val < 2^TAG_BYTE_OFFSET THEN 0 ELSE 2^TAG_BYTE_OFFSET)
                      + (val % 2^TAG_BYTE_OFFSET)
           rest == NonTagBytes[val \div 2^TAG_BYTE_OFFSET]
           bytes == UnsignedVarint(type, val)
<1>1. first \in Int
  BY RawDataAssumption
<1>2. rest \in Seq(Int)
  <2>1. val \div 2^TAG_BYTE_OFFSET \in Nat
    BY RawDataAssumption
  <2> QED BY <2>1, BytesType
<1>3. bytes = <<first>> \o rest
  BY DEF UnsignedVarint
<1>4. VarintChunks(type, val) = [i \in 1..Len(bytes) |-> <<bytes[i]>>]
  BY DEF VarintChunks
<1> HIDE DEF first, rest, bytes
<1>5. bytes \in Seq(Int) /\ Len(bytes) \in Nat /\ Len(bytes) # 0
  BY <1>1, <1>2, <1>3
<1>6. ASSUME NEW i \in 1..Len(bytes) PROVE <<bytes[i]>> \in Seq(Int)
  BY <1>5
<1>7. VarintChunks(type, val) \in Seq(Seq(Int)) /\ Len(VarintChunks(type, val)) = Len(bytes)
  BY <1>4, <1>5, <1>6
<1> QED BY <1>5, <1>7

(* A sequence with one more item.                                          *)
LEMMA AppendedSeq ==
  ASSUME NEW S, NEW s \in Seq(S), NEW e \in S
  PROVE  Append(s, e) \in Seq(S) /\ Append(s, e) # <<>>
<1>1. Append(s, e) \in Seq(S) /\ Len(Append(s, e)) = Len(s) + 1 /\ Len(s) \in Nat
  OBVIOUS
<1>2. Len(Append(s, e)) # 0
  BY <1>1
<1> QED BY <1>1, <1>2

(* So are a string,                                                        *)
LEMMA StringTyped ==
  ASSUME NEW text \in Seq(Int)
  PROVE  StringChunks(text) \in Seq(Seq(Int)) /\ StringChunks(text) # <<>>
<1>1. Len(text) \in Nat /\ LENGTH_DELIMITED \in Int
  BY DEF LENGTH_DELIMITED
<1>2. VarintChunks(LENGTH_DELIMITED, Len(text)) \in Seq(Seq(Int))
  BY <1>1, VarintTyped
<1> QED BY <1>2, AppendedSeq, Zenon DEF StringChunks

(* a floating number,                                                      *)
LEMMA FloatTyped ==
  ASSUME NEW val \in Int
  PROVE  FloatChunks(val) \in Seq(Seq(Int)) /\ FloatChunks(val) # <<>>
<1>1. 1 \in Nat /\ LENGTH_DELIMITED \in Int /\ <<val>> \in Seq(Int)
  BY DEF LENGTH_DELIMITED
<1>2. VarintChunks(LENGTH_DELIMITED, 1) \in Seq(Seq(Int))
  BY <1>1, VarintTyped
<1> QED BY <1>1, <1>2, AppendedSeq, Zenon DEF FloatChunks

(* the number a signed number is written as,                               *)
LEMMA ZigZagTyped ==
  ASSUME NEW val \in Int
  PROVE  ZigZag(val) \in Nat
<1> DEFINE m == 2^Width
           shifted == (2 * val) % m
<1>1. m \in Nat \ {0}
  BY RawDataAssumption
<1> HIDE DEF m
<1>2. shifted \in 0..(m - 1)
  BY <1>1
<1>3. ZigZag(val) = IF val >= 0 THEN shifted ELSE m - 1 - shifted
  BY DEF ZigZag, m
<1> HIDE DEF shifted
<1> QED BY <1>1, <1>2, <1>3

(* the characters of an escaped text,                                      *)
LEMMA EscapedTyped ==
  ASSUME NEW text \in Seq(Nat)
  PROVE  EscapeToRaw(text) \in Seq(Int)
<1> DEFINE E(i) == CASE text[i] \in DOMAIN charTab -> charTab[text[i]]
                     [] text[i] = Control          -> <<>>
                     [] OTHER                      -> <<text[i]>>
<1>1. ASSUME NEW i \in 1..Len(text) PROVE E(i) \in Seq(Int)
  <2>1. text[i] \in Int
    OBVIOUS
  <2>2. CASE text[i] \in DOMAIN charTab
    BY <2>2 DEF charTab, Quote, Backslash, NewLine, LetterN
  <2>3. CASE text[i] \notin DOMAIN charTab
    BY <2>1, <2>3 
  <2> QED BY <2>2, <2>3
<1> DEFINE parts == [i \in 1..Len(text) |-> E(i)]
<1>2. parts \in Seq(Seq(Int))
  <2> HIDE DEF E
  <2> QED BY <1>1
<1>3. EscapeToRaw(text) = FlattenSeq(parts)
  BY DEF EscapeToRaw
<1> HIDE DEF parts
<1> QED BY <1>2, <1>3, FlattenType

(* a value of any kind,                                                    *)
LEMMA ValueTyped ==
  ASSUME NEW kind \in Kinds \ {"invalid"}, NEW val \in Values(kind)
  PROVE  ValueChunks(kind, val) \in Seq(Seq(Int)) /\ ValueChunks(kind, val) # <<>>
<1>1. CASE kind = "signed"
  <2>1. ValueChunks(kind, val) = VarintChunks(VARINT, ZigZag(val)) /\ val \in Int /\ VARINT \in Int
    BY <1>1 DEF ValueChunks, Values, VARINT
  <2> QED BY <2>1, ZigZagTyped, VarintTyped
<1>2. CASE kind = "unsigned"
  <2>1. ValueChunks(kind, val) = VarintChunks(VARINT, val) /\ val \in Nat /\ VARINT \in Int
    BY <1>2 DEF ValueChunks, Values, VARINT
  <2> QED BY <2>1, VarintTyped
<1>3. CASE kind = "float"
  <2>1. /\ ValueChunks(kind, val) = FloatChunks(IF val = NaN THEN 0 ELSE val)
        /\ (IF val = NaN THEN 0 ELSE val) \in Int
    BY <1>3 DEF ValueChunks, Values
  <2> QED BY <2>1, FloatTyped
<1>4. CASE kind = "string"
  <2>1. ValueChunks(kind, val) = StringChunks(EscapeToRaw(val)) /\ val \in Seq(Nat)
    BY <1>4 DEF ValueChunks, Values
  <2> QED BY <2>1, EscapedTyped, StringTyped
<1> QED BY <1>1, <1>2, <1>3, <1>4 DEF Kinds

(* the values that are kept,                                               *)
LEMMA KeptTyped ==
  ASSUME NEW p \in Params
  PROVE  KeptValues(p) \in Seq(Values(p.kind)) /\ Len(KeptValues(p)) <= Len(p.vals)
<1> DEFINE V == Values(p.kind)
           v == p.vals
<1>1. v \in Seq(V) /\ MAX_ARRAY_SIZE \in Nat
  BY WriterAssumption
<1> HIDE DEF V, v
<1>2. CASE p.isArray /\ Len(p.vals) > MAX_ARRAY_SIZE
  <2>1. KeptValues(p) = SubSeq(v, 1, MAX_ARRAY_SIZE) /\ Len(v) > MAX_ARRAY_SIZE
    BY <1>2 DEF KeptValues, v
  <2>2. SubSeq(v, 1, MAX_ARRAY_SIZE) \in Seq(V) /\ Len(SubSeq(v, 1, MAX_ARRAY_SIZE)) = MAX_ARRAY_SIZE
    BY <1>1, <2>1
  <2> QED BY <1>1, <2>1, <2>2 DEF V, v
<1>3. CASE ~(p.isArray /\ Len(p.vals) > MAX_ARRAY_SIZE)
  <2>1. KeptValues(p) = v
    BY <1>3 DEF KeptValues, v
  <2>2. Len(v) <= Len(v)
    BY <1>1
  <2> QED BY <1>1, <2>1, <2>2 DEF V, v
<1> QED BY <1>2, <1>3

(* and a parameter that is not refused.                                    *)
LEMMA ParamTyped ==
  ASSUME NEW p \in Params, ~IsInvalid(p)
  PROVE  ParamChunks(p) \in Seq(Seq(Int)) /\ ParamChunks(p) # <<>>
<1> DEFINE vals == KeptValues(p)
           kind == IF vals = <<>> THEN "signed" ELSE p.kind
           a == StringChunks(p.key)
           b == TypeChunks(p.isArray, ValueType(kind))
           c == IF p.isArray THEN VarintChunks(LENGTH_DELIMITED, Len(vals)) ELSE <<>>
           parts == [i \in 1..Len(vals) |-> ValueChunks(kind, vals[i])]
<1>1. ParamChunks(p) = a \o b \o c \o FlattenSeq(parts)
  BY DEF ParamChunks
<1>2. p.kind \in Kinds \ {"invalid"} /\ p.key \in Seq(Int)
  <2>1. p.kind \in Kinds /\ p.kind # "invalid" /\ p.key \in Seq(Nat)
    BY WriterAssumption DEF IsInvalid
  <2> QED BY <2>1
<1>3. vals \in Seq(Values(p.kind)) /\ Len(vals) \in Nat
  <2>1. vals \in Seq(Values(p.kind))
    BY KeptTyped
  <2> HIDE DEF vals
  <2> QED BY <2>1
<1> HIDE DEF vals
<1>4. kind \in Kinds \ {"invalid"}
  BY <1>2 DEF Kinds
<1>5. ASSUME NEW i \in 1..Len(vals) PROVE vals[i] \in Values(kind)
  <2>1. vals # <<>>
    BY <1>3
  <2>2. kind = p.kind
    BY <2>1
  <2> HIDE DEF kind
  <2> QED BY <1>3, <2>2
<1> HIDE DEF kind
<1>6. a \in Seq(Seq(Int)) /\ a # <<>>
  BY <1>2, StringTyped
<1>7. b \in Seq(Seq(Int))
  <2>1. ValueType(kind) \in Int
    BY <1>4 DEF ValueType, Kinds, INT64, UINT64, FLOAT, STRING_TYPE
  <2> QED BY <2>1 DEF TypeChunks
<1>8. c \in Seq(Seq(Int))
  <2>1. VarintChunks(LENGTH_DELIMITED, Len(vals)) \in Seq(Seq(Int))
    BY <1>3, VarintTyped DEF LENGTH_DELIMITED
  <2>2. <<>> \in Seq(Seq(Int))
    OBVIOUS
  <2> QED BY <2>1, <2>2
<1>9. FlattenSeq(parts) \in Seq(Seq(Int))
  <2>1. ASSUME NEW i \in 1..Len(vals) PROVE ValueChunks(kind, vals[i]) \in Seq(Seq(Int))
    BY <1>4, <1>5, ValueTyped
  <2>2. parts \in Seq(Seq(Seq(Int)))
    BY <1>3, <2>1
  <2> HIDE DEF parts
  <2> QED BY <2>2, FlattenType
<1> DEFINE z == FlattenSeq(parts)
<1> HIDE DEF a, b, c, parts, z
<1>10. a \o b \in Seq(Seq(Int)) /\ a \o b # <<>>
  BY <1>6, <1>7
<1>11. a \o b \o c \in Seq(Seq(Int)) /\ a \o b \o c # <<>>
  <2> DEFINE e == a \o b
  <2> HIDE DEF e
  <2>1. e \in Seq(Seq(Int)) /\ e # <<>>
    BY <1>10 DEF e
  <2>2. e \o c \in Seq(Seq(Int)) /\ e \o c # <<>>
    BY <1>8, <2>1
  <2> QED BY <2>2 DEF e
<1>12. a \o b \o c \o z \in Seq(Seq(Int)) /\ a \o b \o c \o z # <<>>
  <2> DEFINE e == a \o b \o c
  <2> HIDE DEF e
  <2>1. e \in Seq(Seq(Int)) /\ e # <<>> /\ z \in Seq(Seq(Int))
    BY <1>9, <1>11 DEF e, z
  <2>2. e \o z \in Seq(Seq(Int)) /\ e \o z # <<>>
    BY <2>1
  <2> QED BY <2>2 DEF e
<1> QED BY <1>1, <1>12 DEF z
-----------------------------------------------------------------------------
(***************************************************************************)
(* Sequences of sequences, and what Update does in the middle of the data. *)
(***************************************************************************)
(* Nothing, flat.                                                          *)
LEMMA FlattenEmpty == FlattenSeq(<<>>) = <<>>
BY DEF FlattenSeq

(* One more sequence, flat.                                                *)
LEMMA FlattenAppend ==
  ASSUME NEW S, NEW s \in Seq(Seq(S)), NEW c \in Seq(S)
  PROVE  FlattenSeq(Append(s, c)) = FlattenSeq(s) \o c
<1> DEFINE n == Len(s)
           t == Append(s, c)
<1>1. n \in Nat /\ t \in Seq(Seq(S)) /\ Len(t) = n + 1 /\ t[n + 1] = c
      /\ \A i \in 1..n : t[i] = s[i]
  OBVIOUS
<1> HIDE DEF t
<1>2. PICK h : h = [i \in 1..Len(t) |-> FlatBody(h, i, t)] /\ FlattenSeq(t) = h[Len(t)]
  BY <1>1, FlattenUnfold
<1>3. CASE n = 0
  <2>1. s = <<>> /\ FlattenSeq(s) = <<>>
    BY <1>3, FlattenEmpty
  <2>2. h[1] = t[1]
    BY <1>1, <1>2, <1>3 DEF FlatBody
  <2>3. <<>> \o c = c
    OBVIOUS
  <2> QED BY <1>1, <1>2, <1>3, <2>1, <2>2, <2>3 DEF t
<1>4. CASE n # 0
  <2>1. PICK g : g = [i \in 1..n |-> FlatBody(g, i, s)] /\ FlattenSeq(s) = g[n]
    BY <1>1, <1>4, FlattenUnfold
  <2> DEFINE D == {i \in Nat : i \in 1..n /\ g[i] # h[i]}
  <2>2. D = {}
    <3> SUFFICES ASSUME D # {} PROVE FALSE
      OBVIOUS
    <3>1. PICK i \in D : \A j \in D : i <= j
      <4> HIDE DEF D
      <4>1. D \in SUBSET Nat
        BY DEF D
      <4> QED BY <4>1, LeastNatural
    <3>2. i \in 1..n /\ i \in Nat /\ g[i] # h[i]
      OBVIOUS
    <3> HIDE DEF D
    <3>3. g[i] = FlatBody(g, i, s) /\ h[i] = FlatBody(h, i, t)
      <4>1. i \in 1..Len(t)
        BY <1>1, <3>2
      <4> QED BY <1>2, <2>1, <3>2, <4>1
    <3>4. t[i] = s[i]
      BY <1>1, <3>2
    <3>5. CASE i = 1
      BY <3>2, <3>3, <3>4, <3>5 DEF FlatBody
    <3>6. CASE i # 1
      <4>1. i - 1 \in 1..n /\ i - 1 \in Nat /\ ~(i <= i - 1)
        BY <1>1, <3>2, <3>6
      <4>2. g[i - 1] = h[i - 1]
        BY <3>1, <4>1 DEF D
      <4> QED BY <3>2, <3>3, <3>4, <3>6, <4>2 DEF FlatBody
    <3> QED BY <3>5, <3>6
  <2>3. g[n] = h[n]
    <3>1. n \in 1..n
      BY <1>1, <1>4
    <3> QED BY <1>1, <2>2, <3>1
  <2>4. h[n + 1] = h[n] \o t[n + 1]
    <3>1. n + 1 # 1 /\ (n + 1) - 1 = n /\ n + 1 \in 1..Len(t)
      BY <1>1, <1>4
    <3>2. h[n + 1] = FlatBody(h, n + 1, t)
      BY <1>2, <3>1
    <3> QED BY <3>1, <3>2 DEF FlatBody
  <2> QED BY <1>1, <1>2, <2>1, <2>3, <2>4 DEF t
<1> QED BY <1>3, <1>4

(* Two parts are flat one by one.                                          *)
LEMMA FlattenConcat ==
  ASSUME NEW S, NEW s \in Seq(Seq(S)), NEW t \in Seq(Seq(S))
  PROVE  FlattenSeq(s \o t) = FlattenSeq(s) \o FlattenSeq(t)
<1> DEFINE n == Len(t)
           F(k) == SubSeq(t, 1, k)
           K == {k \in Nat : k <= n => FlattenSeq(s \o F(k)) = FlattenSeq(s) \o FlattenSeq(F(k))}
<1>1. n \in Nat
  OBVIOUS
<1>2. 0 \in K
  <2>1. F(0) = <<>> /\ s \o <<>> = s
    OBVIOUS
  <2>2. FlattenSeq(s) \in Seq(S)
    BY FlattenType
  <2>3. FlattenSeq(s) \o <<>> = FlattenSeq(s)
    BY <2>2
  <2> QED BY <2>1, <2>3, FlattenEmpty
<1>3. ASSUME NEW k \in K PROVE k + 1 \in K
  <2> SUFFICES ASSUME k + 1 <= n
               PROVE  FlattenSeq(s \o F(k + 1)) = FlattenSeq(s) \o FlattenSeq(F(k + 1))
    OBVIOUS
  <2>1. k \in Nat /\ k <= n /\ k + 1 \in 1..n
    BY <1>1
  <2> DEFINE f == F(k)
             e == t[k + 1]
  <2>2. f \in Seq(Seq(S)) /\ e \in Seq(S) /\ F(k + 1) = Append(f, e)
    BY <1>1, <2>1
  <2>3. FlattenSeq(s \o f) = FlattenSeq(s) \o FlattenSeq(f)
    BY <2>1
  <2> HIDE DEF f, e, F, K
  <2>4. s \o Append(f, e) = Append(s \o f, e) /\ s \o f \in Seq(Seq(S))
    BY <2>2
  <2>5. FlattenSeq(Append(s \o f, e)) = FlattenSeq(s \o f) \o e
    BY <2>2, <2>4, FlattenAppend
  <2>6. FlattenSeq(Append(f, e)) = FlattenSeq(f) \o e
    BY <2>2, FlattenAppend
  <2> DEFINE a == FlattenSeq(s)
             b == FlattenSeq(f)
  <2>7. a \in Seq(S) /\ b \in Seq(S)
    BY <2>2, FlattenType
  <2> HIDE DEF a, b
  <2>8. (a \o b) \o e = a \o (b \o e)
    BY <2>2, <2>7, ConcatAssociative, SMTT(30)
  <2> QED BY <2>2, <2>3, <2>4, <2>5, <2>6, <2>8 DEF a, b
<1>4. K = Nat
  <2> HIDE DEF K
  <2>1. K \in SUBSET Nat
    BY DEF K
  <2> QED BY <1>2, <1>3, <2>1, SetInduction
<1>5. F(n) = t
  OBVIOUS
<1>6. n \in K
  BY <1>1, <1>4
<1>7. FlattenSeq(s \o F(n)) = FlattenSeq(s) \o FlattenSeq(F(n))
  BY <1>1, <1>6
<1> HIDE DEF F, n
<1> QED BY <1>5, <1>7

(* What is in front of z and behind a.                                     *)
LEMMA FrontOf ==
  ASSUME NEW a \in Seq(Int), NEW z \in Seq(Int)
  PROVE  SubSeq(a \o z, 1, Len(a)) = a
<1> DEFINE y == SubSeq(a \o z, 1, Len(a))
<1>1. y \in Seq(Int) /\ Len(y) = Len(a)
  OBVIOUS
<1>2. ASSUME NEW i \in 1..Len(a) PROVE y[i] = a[i]
  OBVIOUS
<1> HIDE DEF y
<1>3. y = a
  BY <1>1, <1>2, SeqEqual
<1> QED BY <1>3 DEF y

(* What follows a prefix.                                                  *)
LEMMA BackOf ==
  ASSUME NEW a \in Seq(Int), NEW z \in Seq(Int)
  PROVE  SubSeq(a \o z, Len(a) + 1, Len(a \o z)) = z
<1> DEFINE y == SubSeq(a \o z, Len(a) + 1, Len(a \o z))
<1>1. y \in Seq(Int) /\ Len(y) = Len(z)
  OBVIOUS
<1>2. ASSUME NEW i \in 1..Len(z) PROVE y[i] = z[i]
  <2>1. y[i] = (a \o z)[Len(a) + i]
    BY <1>1
  <2>2. (a \o z)[Len(a) + i] = z[i]
    OBVIOUS
  <2> QED BY <2>1, <2>2
<1> HIDE DEF y
<1>3. y = z
  BY <1>1, <1>2, SeqEqual
<1> QED BY <1>3 DEF y

(* The bytes behind a are replaced by as many others.                      *)
Replaced(raw, a, chunk, z) ==
  /\ RawOk(Update(raw, chunk, Len(a)))
  /\ Update(raw, chunk, Len(a)).data = (a \o chunk) \o z

(* In the middle Update replaces cells, and leaves the others.             *)
LEMMA UpdateInside ==
  ASSUME NEW raw, RawOk(raw), NEW a \in Seq(Int), NEW c \in Seq(Int), NEW z \in Seq(Int),
         raw.data = (a \o c) \o z, NEW chunk \in Seq(Int), Len(chunk) = Len(c)
  PROVE  Replaced(raw, a, chunk, z)
<1> DEFINE d == raw.data
           e == a \o c
           f == c \o z
<1>1. /\ d \in Seq(Int) /\ d = e \o z /\ e \in Seq(Int) /\ Len(e) = Len(a) + Len(c)
      /\ f \in Seq(Int) /\ d = a \o f
  <2>1. d \in Seq(Int) /\ d = e \o z
    BY DEF RawOk
  <2>2. e \in Seq(Int) /\ Len(e) = Len(a) + Len(c) /\ f \in Seq(Int)
    BY JoinedCells
  <2>3. d = a \o f
    BY JoinedAnyhow, Zenon
  <2> QED BY <2>1, <2>2, <2>3
<1> HIDE DEF d, e, f
<1>2. Len(a) \in 0..Len(d)
  <2>1. Len(d) = Len(a) + Len(f) /\ Len(a) \in Nat /\ Len(f) \in Nat
    BY <1>1, JoinedCells
  <2> QED BY <2>1
<1>3. RawOk(Update(raw, chunk, Len(a)))
  BY <1>2, UpdateLength DEF d
<1>4. SubSeq(d, 1, Len(a)) = a
  BY <1>1, FrontOf
<1>5. SubSeq(d, Len(a) + Len(chunk) + 1, Len(d)) = z
  <2>1. SubSeq(e \o z, Len(e) + 1, Len(e \o z)) = z
    BY <1>1, BackOf
  <2> QED BY <1>1, <2>1
<1>6. Update(raw, chunk, Len(a)).data
        = SubSeq(d, 1, Len(a)) \o chunk \o SubSeq(d, Len(a) + Len(chunk) + 1, Len(d))
  BY DEF Update, d
<1> QED BY <1>3, <1>4, <1>5, <1>6 DEF Replaced
(* The cells of an event, and the two cells that are filled in at the end.  *)
Cells2(size, h, count, body) == (<<size>> \o h) \o (<<count>> \o body)
Fill(raw, size, count, pos) == Update(Update(raw, <<size>>, 0), <<count>>, pos)

InFourParts(a, h, c, body) ==
  /\ (a \o h) \o (c \o body) = a \o (h \o (c \o body))
  /\ (a \o h) \o (c \o body) = ((a \o h) \o c) \o body
  /\ h \o (c \o body) \in Seq(Int)
  /\ a \o h \in Seq(Int)
  /\ Len(a \o h) = Len(a) + Len(h)
  /\ Len((a \o h) \o (c \o body)) = Len(a) + Len(h) + Len(c) + Len(body)

(* Four parts of cells in any order of concatenation.                      *)
LEMMA FourParts ==
  ASSUME NEW a \in Seq(Int), NEW h \in Seq(Int), NEW c \in Seq(Int), NEW body \in Seq(Int)
  PROVE  InFourParts(a, h, c, body)
<1> DEFINE ah == a \o h
           cb == c \o body
<1>1. ah \in Seq(Int) /\ cb \in Seq(Int) /\ Len(ah) = Len(a) + Len(h) /\ Len(cb) = Len(c) + Len(body)
  BY JoinedCells
<1>2. (a \o h) \o cb = a \o (h \o cb)
  <2>1. cb \in Seq(Int)
    BY <1>1
  <2> HIDE DEF ah, cb
  <2> QED BY <2>1, JoinedAnyhow, ZenonT(60)
<1> HIDE DEF ah
<1>3. (ah \o c) \o body = ah \o (c \o body)
  <2>1. ah \in Seq(Int)
    BY <1>1
  <2> QED BY <2>1, JoinedAnyhow, Zenon
<1> HIDE DEF cb
<1>4. h \o cb \in Seq(Int) /\ Len(ah \o cb) = Len(ah) + Len(cb)
  BY <1>1, JoinedCells
<1>5. Len(a) \in Nat /\ Len(h) \in Nat /\ Len(c) \in Nat /\ Len(body) \in Nat
  OBVIOUS
<1>6. Len(ah \o cb) = Len(a) + Len(h) + Len(c) + Len(body)
  BY <1>1, <1>4, <1>5
<1> QED BY <1>1, <1>2, <1>3, <1>4, <1>6 DEF ah, cb, InFourParts

(* One cell, and none.                                                     *)
LEMMA OneCell ==
  ASSUME NEW n \in Int
  PROVE  /\ <<n>> \in Seq(Int) /\ <<>> \in Seq(Int)
         /\ Len(<<n>>) = 1 /\ Len(<<>>) = 0
         /\ <<>> \o <<n>> = <<n>>
OBVIOUS

(* GetEventRawData replaces the two cells that were kept free, and nothing else. *)
LEMMA FilledIn ==
  ASSUME NEW raw, RawOk(raw), NEW h \in Seq(Int), NEW body \in Seq(Int),
         raw.data = Cells2(0, h, 0, body), NEW size \in Int, NEW count \in Int,
         NEW pos, pos = Len(<< 0 >> \o h)
  PROVE  /\ RawOk(Fill(raw, size, count, pos))
         /\ Fill(raw, size, count, pos).data = Cells2(size, h, count, body)
         /\ Len(Cells2(size, h, count, body)) = Len(raw.data)
         /\ 0 < pos /\ pos < Len(raw.data)
<1> DEFINE zero == <<0>>
           e == <<>>
           l == <<size>>
           c == <<count>>
           z == h \o (zero \o body)
           y == l \o h
           sized == Update(raw, l, 0)
<1>1. zero \in Seq(Int) /\ l \in Seq(Int) /\ c \in Seq(Int) /\ e \in Seq(Int)
  BY OneCell
<1>2. Len(zero) = 1 /\ Len(l) = 1 /\ Len(c) = 1 /\ Len(e) = 0 /\ e \o zero = zero /\ e \o l = l
  BY OneCell
<1>3. raw.data = (zero \o h) \o (zero \o body) /\ Fill(raw, size, count, pos) = Update(sized, c, pos)
      /\ Cells2(size, h, count, body) = (l \o h) \o (c \o body) /\ pos = Len(zero \o h)
  BY DEF Cells2, Fill
<1> HIDE DEF zero, l, c, e
<1>0. InFourParts(zero, h, zero, body) /\ InFourParts(l, h, zero, body) /\ InFourParts(l, h, c, body)
  BY <1>1, FourParts
<1>4. /\ raw.data = zero \o z
      /\ l \o z = (y \o zero) \o body
      /\ z \in Seq(Int) /\ y \in Seq(Int)
  BY <1>0, <1>3, Zenon DEF InFourParts
<1>5. /\ y \o (c \o body) = (y \o c) \o body
      /\ Len(y) = Len(l) + Len(h) /\ Len(zero \o h) = Len(zero) + Len(h)
      /\ Len((zero \o h) \o (zero \o body)) = Len(zero) + Len(h) + Len(zero) + Len(body)
      /\ Len((l \o h) \o (c \o body)) = Len(l) + Len(h) + Len(c) + Len(body)
  BY <1>0, Zenon DEF InFourParts
<1> HIDE DEF z, sized
<1>6. RawOk(sized) /\ sized.data = (e \o l) \o z
  <2>1. raw.data = (e \o zero) \o z /\ Len(l) = Len(zero)
    BY <1>2, <1>4
  <2>2. Replaced(raw, e, l, z)
    BY <1>1, <1>4, <2>1, UpdateInside
  <2> QED BY <1>2, <2>2 DEF sized, Replaced
<1> HIDE DEF y
<1>7. RawOk(Update(sized, c, Len(y))) /\ Update(sized, c, Len(y)).data = (y \o c) \o body
  <2>1. sized.data = (y \o zero) \o body /\ Len(c) = Len(zero)
    BY <1>2, <1>4, <1>6
  <2>2. Replaced(sized, y, c, body)
    BY <1>1, <1>4, <1>6, <2>1, UpdateInside
  <2> QED BY <2>2 DEF Replaced
<1>8. pos = Len(y) /\ Len(h) \in Nat /\ Len(body) \in Nat
  BY <1>2, <1>3, <1>5
<1>9. Fill(raw, size, count, pos).data = Cells2(size, h, count, body)
  BY <1>3, <1>5, <1>7, <1>8 DEF y
<1>10. Len(Cells2(size, h, count, body)) = Len(raw.data) /\ 0 < pos /\ pos < Len(raw.data)
  BY <1>2, <1>3, <1>5, <1>8
<1> QED BY <1>3, <1>7, <1>8, <1>9, <1>10
-----------------------------------------------------------------------------
(***************************************************************************)
(* The return code.  What the encoder computes does not matter for it, only *)
(* whether it succeeded.                                                   *)
(***************************************************************************)
Fields == {"retCode", "paramCnt", "paramCntWroteOffset", "rawData"}

(* The event is a record, and the histories are sequences of parameters.   *)
Shape ==
  /\ event = [f \in Fields |-> event[f]]
  /\ given \in Seq(Params)
  /\ kept \in Seq(Params)
  /\ broken \in BOOLEAN

(* Nothing is missing so far.                                              *)
Complete ==
  /\ kept = given
  /\ \A i \in 1..Len(kept) : KeptValues(kept[i]) = kept[i].vals

(***************************************************************************)
(* Before the call returns: the transport has nothing yet, no error is     *)
(* noted, and as long as no warning is either, nothing is missing.         *)
(***************************************************************************)
Running ==
  pc # "idle" =>
    /\ sent = <<>>
    /\ event.retCode \in 0..5
    /\ event.retCode = SUCCESS /\ ~broken => Complete

Inv == Shape /\ Running /\ ResultIsTrue

(* A new event: the initial values of HiSysEvent::EventBase.               *)
LEMMA NewEventShape == NewEvent = [f \in Fields |-> NewEvent[f]] /\ NewEvent.retCode = SUCCESS
BY DEF NewEvent, Fields

(* A parameter without a warning keeps all its values.                     *)
LEMMA NoWarningNoCut ==
  ASSUME NEW p, Warning(p) = SUCCESS
  PROVE  KeptValues(p) = p.vals
<1>1. ~(p.isArray /\ Len(p.vals) > MAX_ARRAY_SIZE)
  BY DEF Warning, SUCCESS, ERR_VALUE_LENGTH_TOO_LONG, ERR_ARRAY_TOO_MUCH
<1> QED BY <1>1 DEF KeptValues

(* The codes of a parameter that is kept in part.                          *)
LEMMA WarningRange == ASSUME NEW p PROVE Warning(p) \in {0, 2, 4}
BY DEF Warning, SUCCESS, ERR_VALUE_LENGTH_TOO_LONG, ERR_ARRAY_TOO_MUCH

(* The codes of a parameter that is refused.                               *)
LEMMA RefusalRange == ASSUME NEW p PROVE Refusal(p) \in {0, 1, 3, 5}
BY DEF Refusal, SUCCESS, ERR_KEY_NAME_INVALID, ERR_KEY_NUMBER_TOO_MUCH, ERR_VALUE_INVALID

(* A code of 0 stays only if the parameter is kept whole.                  *)
LEMMA CompleteAppend ==
  ASSUME NEW p \in Params, kept \in Seq(Params), Complete, KeptValues(p) = p.vals,
         kept' = Append(kept, p), given' = Append(given, p)
  PROVE  Complete'
<1>1. kept' = given'
  BY DEF Complete
<1>2. /\ Len(kept') = Len(kept) + 1 /\ Len(kept) \in Nat
      /\ \A i \in 1..Len(kept') : kept'[i] = IF i <= Len(kept) THEN kept[i] ELSE p
  OBVIOUS
<1>3. ASSUME NEW i \in 1..Len(kept') PROVE KeptValues(kept'[i]) = kept'[i].vals
  <2>1. CASE i <= Len(kept)
    BY <1>2, <2>1 DEF Complete
  <2>2. CASE i > Len(kept)
    BY <1>2, <2>2
  <2> QED BY <1>2, <2>1, <2>2
<1> QED BY <1>1, <1>3 DEF Complete, KeptValues

(* The invariant holds before the first call.                              *)
LEMMA InvInit == Init => Inv
<1> SUFFICES ASSUME Init PROVE Inv
  OBVIOUS
<1>1. Shape
  <2>1. broken \in BOOLEAN
    BY Zenon DEF Init
  <2> QED BY <2>1, NewEventShape DEF Init, Shape
<1>2. Running /\ ResultIsTrue
  BY DEF Init, Running, ResultIsTrue
<1> QED BY <1>1, <1>2 DEF Inv

(* Every step of a call keeps the invariant.                               *)
LEMMA InvStep == Inv /\ [Next]_vars => Inv'
<1> SUFFICES ASSUME Inv, [Next]_vars PROVE Inv'
  OBVIOUS
<1>1. ASSUME NEW c \in Calls, Write(c) PROVE Inv'
  <2>1. /\ event' = NewEvent /\ sent' = <<>> /\ given' = <<>> /\ kept' = <<>>
        /\ (pc' = "idle" /\ result' \in {-7, -1, -2, -6}) \/ (pc' = "construct" /\ result' = NotReturned)
    BY <1>1 DEF Write, HiSysEvent_Write, Return, ERR_DOMAIN_MASKED, ERR_DOMAIN_NAME_INVALID, ERR_EVENT_NAME_INVALID,
                ERR_WRITE_IN_HIGH_FREQ
  <2>2. broken' \in BOOLEAN
    BY <1>1, Zenon DEF Write
  <2>3. Shape'
    BY <2>1, <2>2, NewEventShape DEF Shape
  <2>4. Complete'
    BY <2>1 DEF Complete
  <2>5. Running'
    BY <2>1, <2>4, NewEventShape DEF Running, SUCCESS
  <2>6. ResultIsTrue'
    BY <2>1 DEF ResultIsTrue, SUCCESS, NotReturned
  <2> QED BY <2>3, <2>5, <2>6 DEF Inv
<1>2. CASE EventBase
  <2>1. /\ UNCHANGED <<event, sent, given, kept, broken>> /\ pc = "construct"
        /\ (pc' = "idle" /\ result' \in {-1, -2}) \/ pc' = "base"
    BY <1>2 DEF EventBase, Return, ERR_DOMAIN_NAME_INVALID, ERR_EVENT_NAME_INVALID
  <2> QED BY <2>1 DEF Inv, Shape, Running, Complete, ResultIsTrue, SUCCESS, KeptValues
<1>3. ASSUME NEW trace \in BOOLEAN, WritebaseInfo(trace) PROVE Inv'
  <2>1. /\ UNCHANGED <<sent, given, kept, broken>> /\ pc = "base"
        /\ \/ pc' = "params" /\ \E raw, offset : event' = [event EXCEPT !.rawData = raw,
                                                              !.paramCntWroteOffset = offset]
           \/ pc' = "idle" /\ result' = -9 /\ event' = [event EXCEPT !.retCode = -9]
    BY <1>3 DEF WritebaseInfo, Return, ERR_RAW_DATA_WROTE_EXCEPTION
  <2>2. Shape'
    BY <2>1 DEF Inv, Shape, Fields
  <2>3. sent' = <<>> /\ (event.retCode = SUCCESS /\ ~broken => Complete')
    BY <2>1 DEF Inv, Running, Complete, KeptValues
  <2>4. pc' = "params" => event'.retCode = event.retCode
    BY <2>1 DEF Inv, Shape, Fields
  <2>5. Running'
    <3>1. event.retCode \in 0..5
      BY <2>1 DEF Inv, Running
    <3>2. pc' = "params" \/ pc' = "idle"
      BY <2>1
    <3> QED BY <2>1, <2>3, <2>4, <3>1, <3>2 DEF Running
  <2>6. ResultIsTrue'
    <3>1. pc' = "params" \/ result' = -9
      BY <2>1
    <3> QED BY <2>3, <3>1 DEF ResultIsTrue, SUCCESS
  <2> QED BY <2>2, <2>5, <2>6 DEF Inv
<1>4. ASSUME NEW p \in Params, RefuseParam(p) PROVE Inv'
  <2>1. /\ UNCHANGED <<pc, sent, kept, broken>> /\ pc = "params" /\ given' = Append(given, p)
        /\ Refusal(p) # 0 /\ event' = [event EXCEPT !.retCode = Refusal(p)]
    BY <1>4 DEF RefuseParam, Takes, SUCCESS
  <2>2. Shape' /\ event'.retCode = Refusal(p)
    <3>1. event' = [f \in Fields |-> event'[f]] /\ event'.retCode = Refusal(p)
      BY <2>1 DEF Inv, Shape, Fields
    <3>2. given' \in Seq(Params) /\ kept' \in Seq(Params)
      BY <2>1 DEF Inv, Shape
    <3>3. broken' \in BOOLEAN
      BY <2>1 DEF Inv, Shape
    <3> QED BY <3>1, <3>2, <3>3 DEF Shape
  <2>3. Running' /\ ResultIsTrue'
    BY <2>1, <2>2, RefusalRange DEF Inv, Running, ResultIsTrue, SUCCESS
  <2> QED BY <2>2, <2>3 DEF Inv
<1>5. ASSUME NEW p \in Params, AppendParam(p) PROVE Inv'
  <2>1. UNCHANGED <<pc, sent>> /\ pc = "params" /\ given' = Append(given, p)
    BY <1>5 DEF AppendParam, Takes
  <2>2. PICK encoded :
          /\ event' = [event EXCEPT !.retCode = IF Warning(p) # SUCCESS THEN Warning(p) ELSE @,
                                    !.rawData = encoded.raw,
                                    !.paramCnt = IF encoded.ok THEN @ + 1 ELSE @]
          /\ Encoded(p, encoded)
    BY <1>5, Zenon DEF AppendParam
  <2>3. event'.retCode = (IF Warning(p) # SUCCESS THEN Warning(p) ELSE event.retCode)
        /\ event' = [f \in Fields |-> event'[f]]
    BY <2>2 DEF Inv, Shape, Fields
  <2>4. broken' \in BOOLEAN /\ (~broken' => ~broken /\ kept' = Append(kept, p))
    BY <2>2, Zenon DEF Encoded
  <2>5. kept' = Append(kept, p) \/ kept' = kept
    BY <2>2 DEF Encoded
  <2>6. Shape'
    <3>1. given \in Seq(Params) /\ kept \in Seq(Params)
      BY DEF Inv, Shape
    <3>2. given' \in Seq(Params)
      BY <2>1, <3>1
    <3>3. kept' \in Seq(Params)
      <4>1. CASE kept' = Append(kept, p)
        BY <3>1, <4>1
      <4>2. CASE kept' = kept
        BY <3>1, <4>2
      <4> QED BY <2>5, <4>1, <4>2
    <3> QED BY <2>3, <2>4, <3>2, <3>3 DEF Shape
  <2>7. ASSUME event'.retCode = SUCCESS, ~broken' PROVE Complete'
    <3>1. Warning(p) = SUCCESS /\ event.retCode = SUCCESS
      BY <2>3, <2>7
    <3>2. KeptValues(p) = p.vals
      BY <3>1, NoWarningNoCut
    <3>3. Complete /\ kept \in Seq(Params)
      BY <2>1, <2>4, <2>7, <3>1 DEF Inv, Running, Shape
    <3> QED BY <2>1, <2>4, <2>7, <3>2, <3>3, CompleteAppend
  <2>8. event'.retCode \in 0..5
    BY <2>1, <2>3, WarningRange DEF Inv, Running
  <2>9. Running' /\ ResultIsTrue'
    BY <2>1, <2>7, <2>8 DEF Inv, Running, ResultIsTrue
  <2> QED BY <2>6, <2>9 DEF Inv
<1>6. ASSUME NEW r, SendSysEvent(r) PROVE Inv'
  <2> DEFINE d == GetEventRawData.data
  <2>1. /\ pc = "params" /\ pc' = "idle" /\ r \in SendCodes(d)
        /\ event' = [event EXCEPT !.rawData = GetEventRawData,
                                  !.retCode = IF r # SUCCESS THEN r ELSE @]
        /\ sent' = IF r = SUCCESS THEN d ELSE <<>>
        /\ result' = IF r # SUCCESS THEN r ELSE event.retCode
        /\ UNCHANGED <<given, kept, broken>>
    BY <1>6 DEF SendSysEvent, Return
  <2>2. r \in {-8, -4, -3, -5} \/ (r = 0 /\ Len(d) # 0)
    BY <2>1 DEF SendCodes, SUCCESS, ERR_EMPTY_EVENT, ERR_OVER_SIZE, ERR_DOES_NOT_INIT, ERR_SEND_FAIL
  <2>3. Shape'
    BY <2>1 DEF Inv, Shape, Fields
  <2>4. CASE r = 0
    <3>1. sent' # <<>>
      BY <2>1, <2>2, <2>4 DEF SUCCESS
    <3>2. result' \in 0..5 /\ (result' = SUCCESS /\ ~broken => Complete)
      BY <2>1, <2>4 DEF Inv, Running, SUCCESS
    <3> QED BY <2>1, <2>3, <3>1, <3>2 DEF Inv, Running, ResultIsTrue, Complete, KeptValues
  <2>5. CASE r # 0
    BY <2>1, <2>2, <2>3, <2>5 DEF Inv, Running, ResultIsTrue, SUCCESS
  <2> QED BY <2>4, <2>5
<1>7. CASE UNCHANGED vars
  BY <1>7 DEF Inv, Shape, Running, Complete, ResultIsTrue, KeptValues, vars
<1> QED BY <1>1, <1>2, <1>3, <1>4, <1>5, <1>6, <1>7 DEF Next

(***************************************************************************)
(* What Write returns is true of the event, for every call and parameter:  *)
(* the comment of HiSysEventWrite holds unless memory runs out.            *)
(***************************************************************************)
THEOREM ReturnCodeIsTrue == Spec => []ResultIsTrue
<1>1. Inv => ResultIsTrue
  BY DEF Inv
<1> QED BY <1>1, InvInit, InvStep, PTL DEF Spec
-----------------------------------------------------------------------------
(***************************************************************************)
(* The layout of an event.                                                 *)
(***************************************************************************)
(* The cells of the trace info, of everything before the parameter count,  *)
(* and of the parameters.                                                  *)
TraceInfo(trace) == IF trace THEN <<1, 2, 3, 4>> ELSE <<>>
HeaderAndTrace(trace) == Header(trace) \o TraceInfo(trace)
Body(params) == FlattenSeq([i \in 1..Len(params) |-> FlattenSeq(ParamChunks(params[i]))])
Laid(size, trace, count, body) == Cells2(size, HeaderAndTrace(trace), count, body)

Acceptable == {p \in Params : ~IsInvalid(p) /\ IsValidName(p.key, MAX_PARAM_NAME_LENGTH)}

ValidNames ==
  /\ IsValidName(call.domain, MAX_DOMAIN_LENGTH)
  /\ IsValidName(call.name, MAX_EVENT_NAME_LENGTH)

EventTypes ==
  /\ pc \in {"idle", "construct", "base", "params"}
  /\ call \in Calls
  /\ event.retCode \in -9..5
  /\ event.paramCnt \in 0..MAX_PARAM_NUMBER
  /\ event.paramCntWroteOffset \in Nat
  /\ RawOk(event.rawData)
  /\ result \in -9..5 \cup {NotReturned}
  /\ Len(given) <= MaxGiven
  /\ kept \in Seq(Acceptable)

Written ==
  /\ pc \in {"construct", "base"} => kept = <<>>
  /\ pc \in {"base", "params"} => ValidNames
  /\ pc # "idle" => event.paramCnt = Len(kept)
  /\ pc = "params" =>
       \E trace \in BOOLEAN, body \in Seq(Int) :
         /\ event.rawData.data = Laid(0, trace, 0, body)
         /\ event.paramCntWroteOffset = Len(<<0>> \o HeaderAndTrace(trace))
         /\ ~broken => body = Body(kept)

SentIsItsParts ==
  sent # <<>> =>
    /\ ValidNames
    /\ Len(sent) <= MAX_DATA_SIZE
    /\ Len(kept) <= MAX_PARAM_NUMBER
    /\ \E trace \in BOOLEAN, body \in Seq(Int) :
         /\ sent = Laid(Len(sent), trace, Len(kept), body)
         /\ ~broken => body = Body(kept)

Layout == EventTypes /\ Written /\ SentIsItsParts

(* A padded text has only cells,                                           *)
LEMMA PaddedTyped ==
  ASSUME NEW text \in Seq(Nat), NEW size \in Nat
  PROVE  Padded(text, size) \in Seq(Int)
<1>1. ASSUME NEW i \in 1..size PROVE (IF i <= Len(text) THEN text[i] ELSE 0) \in Int
  OBVIOUS
<1> QED BY <1>1 DEF Padded

(* and so has the header.                                                  *)
LEMMA HeaderTyped ==
  ASSUME call \in Calls, NEW trace
  PROVE  HeaderAndTrace(trace) \in Seq(Int) /\ Header(trace) \in Seq(Int) /\ TraceInfo(trace) \in Seq(Int)
<1>1. /\ call.domain \in Seq(Nat) /\ call.name \in Seq(Nat) /\ call.type \in Int
      /\ MAX_DOMAIN_LENGTH + 1 \in Nat /\ MAX_EVENT_NAME_LENGTH + 1 \in Nat
  <2>1. call.domain \in Seq(Nat) /\ call.name \in Seq(Nat) /\ call.type \in 1..4
    BY WriterAssumption, Zenon
  <2>2. MAX_DOMAIN_LENGTH \in Nat /\ MAX_EVENT_NAME_LENGTH \in Nat
    BY WriterAssumption
  <2> QED BY <2>1, <2>2
<1> DEFINE a == Padded(call.domain, MAX_DOMAIN_LENGTH + 1)
           b == Padded(call.name, MAX_EVENT_NAME_LENGTH + 1)
           c == <<((call.type - 1) % 4) + (IF trace THEN 4 ELSE 0)>>
           t == TraceInfo(trace)
<1>2. a \in Seq(Int) /\ b \in Seq(Int)
  BY <1>1, PaddedTyped
<1>3. c \in Seq(Int) /\ t \in Seq(Int)
  BY <1>1 DEF TraceInfo
<1>4. Header(trace) = a \o b \o c
  BY DEF Header
<1> HIDE DEF a, b, c
<1>5. a \o b \in Seq(Int)
  BY <1>2, JoinedCells
<1>6. Header(trace) \in Seq(Int)
  BY <1>3, <1>4, <1>5, JoinedCells
<1>7. Header(trace) \o t \in Seq(Int)
  BY <1>3, <1>6, JoinedCells
<1> QED BY <1>3, <1>6, <1>7 DEF HeaderAndTrace

(* No parameters, no cells.                                                *)
LEMMA BodyOfNone == Body(<<>>) = <<>>
<1>1. [i \in 1..Len(<<>>) |-> FlattenSeq(ParamChunks(<<>>[i]))] = <<>>
  OBVIOUS
<1> QED BY <1>1, FlattenEmpty DEF Body

(* The cells of a parameter,                                               *)
LEMMA BytesTyped ==
  ASSUME NEW p \in Acceptable
  PROVE  FlattenSeq(ParamChunks(p)) \in Seq(Int)
<1>1. ParamChunks(p) \in Seq(Seq(Int))
  BY ParamTyped DEF Acceptable
<1> QED BY <1>1, FlattenType

(* of several,                                                             *)
LEMMA BodyTyped ==
  ASSUME NEW params \in Seq(Acceptable)
  PROVE  Body(params) \in Seq(Int)
<1>1. ASSUME NEW i \in 1..Len(params) PROVE FlattenSeq(ParamChunks(params[i])) \in Seq(Int)
  BY BytesTyped
<1>2. [i \in 1..Len(params) |-> FlattenSeq(ParamChunks(params[i]))] \in Seq(Seq(Int))
  BY <1>1
<1> QED BY <1>2, FlattenType DEF Body

(* and of one more.                                                        *)
LEMMA BodyAppend ==
  ASSUME NEW params \in Seq(Acceptable), NEW p \in Acceptable
  PROVE  Body(Append(params, p)) = Body(params) \o FlattenSeq(ParamChunks(p))
<1> DEFINE B(q) == FlattenSeq(ParamChunks(q))
           s == [i \in 1..Len(params) |-> B(params[i])]
           t == [i \in 1..Len(Append(params, p)) |-> B(Append(params, p)[i])]
<1>1. ASSUME NEW q \in Acceptable PROVE B(q) \in Seq(Int)
  BY BytesTyped
<1> HIDE DEF B
<1>2. s \in Seq(Seq(Int)) /\ B(p) \in Seq(Int)
  BY <1>1
<1>3. t = Append(s, B(p))
  <2>1. t \in Seq(Seq(Int)) /\ Len(t) = Len(params) + 1
    BY <1>1
  <2>2. Append(s, B(p)) \in Seq(Seq(Int)) /\ Len(Append(s, B(p))) = Len(params) + 1
    BY <1>2
  <2>3. ASSUME NEW i \in 1..(Len(params) + 1) PROVE t[i] = Append(s, B(p))[i]
    OBVIOUS
  <2> HIDE DEF t, s
  <2> DEFINE u == Append(s, B(p))
  <2>4. u \in Seq(Seq(Int)) /\ Len(u) = Len(params) + 1
    BY <2>2
  <2>5. \A i \in 1..Len(t) : t[i] = u[i]
    BY <2>1, <2>3
  <2> HIDE DEF u
  <2>6. t = u
    BY <2>1, <2>4, <2>5, SeqEqual
  <2> QED BY <2>6 DEF u
<1>4. FlattenSeq(Append(s, B(p))) = FlattenSeq(s) \o B(p)
  BY <1>2, FlattenAppend
<1> QED BY <1>3, <1>4 DEF Body, B
(* A new event is empty.                                                   *)
LEMMA NewEventTyped ==
  /\ NewEvent = [f \in Fields |-> NewEvent[f]]
  /\ NewEvent.retCode \in -9..5 /\ NewEvent.paramCnt = 0 /\ NewEvent.paramCntWroteOffset = 0
  /\ RawOk(NewEvent.rawData)
<1>1. NewEvent.rawData = [data |-> <<>>, capacity |-> 0] /\ NewEvent.retCode = 0
      /\ NewEvent.paramCnt = 0 /\ NewEvent.paramCntWroteOffset = 0
  BY DEF NewEvent, SUCCESS
<1>2. RawOk([data |-> <<>>, capacity |-> 0])
  BY DEF RawOk
<1> QED BY <1>1, <1>2, NewEventShape

(* The header depends on the arguments of the call only.                   *)
LEMMA SameCall ==
  ASSUME UNCHANGED call
  PROVE  /\ ValidNames' = ValidNames
         /\ \A size, trace, count, body : Laid(size, trace, count, body)' = Laid(size, trace, count, body)
         /\ \A trace : HeaderAndTrace(trace)' = HeaderAndTrace(trace)
BY DEF ValidNames, Laid, HeaderAndTrace, Header

(* The layout holds at first, and every action keeps it.                   *)
LEMMA LayoutInit == Init => Layout
<1> SUFFICES ASSUME Init PROVE Layout
  OBVIOUS
<1>1. /\ pc = "idle" /\ call \in Calls /\ event = NewEvent /\ result = NotReturned
      /\ sent = <<>> /\ given = <<>> /\ kept = <<>>
  BY DEF Init
<1>2. EventTypes
  <2>1. Len(<<>>) <= MaxGiven /\ <<>> \in Seq(Acceptable) /\ 0 \in 0..MAX_PARAM_NUMBER
    BY WriterAssumption
  <2>2. pc \in {"idle", "construct", "base", "params"}
    BY <1>1
  <2> QED BY <1>1, <2>1, <2>2, NewEventTyped DEF EventTypes
<1> QED BY <1>1, <1>2 DEF Layout, Written, SentIsItsParts

(* Write with its checks lays out nothing yet.                             *)
LEMMA LayoutWrite ==
  ASSUME NEW c \in Calls, Write(c)
  PROVE  Layout'
<1>1. /\ call' = c /\ event' = NewEvent /\ sent' = <<>> /\ given' = <<>> /\ kept' = <<>>
      /\ (pc' = "idle" /\ result' \in -9..5) \/ (pc' = "construct" /\ result' = NotReturned)
  BY DEF Write, HiSysEvent_Write, Return, ERR_DOMAIN_MASKED, ERR_DOMAIN_NAME_INVALID, ERR_EVENT_NAME_INVALID,
         ERR_WRITE_IN_HIGH_FREQ
<1>2. EventTypes'
  <2>1. Len(<<>>) <= MaxGiven /\ <<>> \in Seq(Acceptable) /\ 0 \in 0..MAX_PARAM_NUMBER
    BY WriterAssumption
  <2>2. pc' \in {"idle", "construct", "base", "params"} /\ result' \in -9..5 \cup {NotReturned}
    BY <1>1
  <2>3. Acceptable' = Acceptable
    BY DEF Acceptable, IsInvalid
  <2> QED BY <1>1, <2>1, <2>2, <2>3, NewEventTyped DEF EventTypes
<1>3. Written'
  <2>1. event'.paramCnt = 0 /\ Len(kept') = 0
    BY <1>1, NewEventTyped
  <2> QED BY <1>1, <2>1 DEF Written
<1> QED BY <1>1, <1>2, <1>3 DEF Layout, SentIsItsParts

(* EventBase checks the names again and does not touch the raw data.       *)
LEMMA LayoutEventBase ==
  ASSUME Layout, EventBase
  PROVE  Layout'
<1>1. /\ UNCHANGED <<call, event, sent, given, kept, broken>> /\ pc = "construct"
      /\ \/ pc' = "idle" /\ result' \in -9..5
         \/ pc' = "base" /\ result' = result /\ ValidNames
  BY DEF EventBase, Return, ERR_DOMAIN_NAME_INVALID, ERR_EVENT_NAME_INVALID, ValidNames
<1>2. EventTypes'
  <2>1. pc' \in {"idle", "construct", "base", "params"} /\ result' \in -9..5 \cup {NotReturned}
    BY <1>1 DEF Layout, EventTypes
  <2> QED BY <1>1, <2>1 DEF Layout, EventTypes
<1>3. Written'
  BY <1>1, SameCall DEF Layout, Written
<1>4. SentIsItsParts'
  BY <1>1, SameCall DEF Layout, SentIsItsParts
<1> QED BY <1>2, <1>3, <1>4 DEF Layout

(* A parameter that is refused leaves the cells as they are.               *)
LEMMA LayoutRefuse ==
  ASSUME Layout, Inv, NEW p \in Params, RefuseParam(p)
  PROVE  Layout'
<1>1. /\ UNCHANGED <<pc, call, result, sent, kept, broken>> /\ pc = "params" /\ given' = Append(given, p)
      /\ Len(given) < MaxGiven /\ event' = [event EXCEPT !.retCode = Refusal(p)]
  BY DEF RefuseParam, Takes
<1>2. /\ event'.retCode = Refusal(p) /\ event'.paramCnt = event.paramCnt /\ event'.rawData = event.rawData
      /\ event'.paramCntWroteOffset = event.paramCntWroteOffset
  BY <1>1 DEF Inv, Shape, Fields
<1>3. Len(given') <= MaxGiven
  <2>1. given \in Seq(Params) /\ MaxGiven \in Nat
    BY WriterAssumption DEF Inv, Shape
  <2> QED BY <1>1, <2>1
<1>4. Refusal(p) \in -9..5
  BY RefusalRange
<1>5. EventTypes'
  BY <1>1, <1>2, <1>3, <1>4 DEF Layout, EventTypes
<1>6. Written' /\ SentIsItsParts'
  BY <1>1, <1>2, SameCall DEF Layout, Written, SentIsItsParts
<1> QED BY <1>5, <1>6 DEF Layout

(* The chunks WritebaseInfo lists, as appended sequences.                  *)
LEMMA AsAppends ==
  ASSUME NEW S, NEW a \in S, NEW b \in S, NEW c \in S
  PROVE  /\ <<a, b>> \o <<>> = Append(Append(<<>>, a), b)
         /\ <<a, b>> \o <<c>> = Append(Append(Append(<<>>, a), b), c)
<1>1. Append(<<>>, a) = <<a>>
  OBVIOUS
<1>2. Append(<<a>>, b) = <<a, b>> /\ <<a, b>> \in Seq(S)
  <2>1. <<a>> \in Seq(S) /\ Len(<<a>>) = 1 /\ <<a>>[1] = a
    OBVIOUS
  <2> DEFINE u == <<a>>
             s == Append(u, b)
             t == <<a, b>>
  <2> HIDE DEF u
  <2>2. s \in Seq(S) /\ Len(s) = 2 /\ s[1] = a /\ s[2] = b
    BY <2>1 DEF u
  <2>3. t \in Seq(S) /\ Len(t) = 2 /\ t[1] = a /\ t[2] = b
    OBVIOUS
  <2> HIDE DEF s, t
  <2>4. \A i \in 1..Len(s) : s[i] = t[i]
    BY <2>2, <2>3
  <2>5. s = t
    BY <2>2, <2>3, <2>4, SeqEqual
  <2> QED BY <2>3, <2>5 DEF s, t, u
<1>3. Append(<<a, b>>, c) = <<a, b>> \o <<c>>
  OBVIOUS
<1>4. <<a, b>> \o <<>> = <<a, b>>
  BY <1>2
<1> QED BY <1>1, <1>2, <1>3, <1>4

(* Two and three chunks, flat.                                             *)
LEMMA FlattenFew ==
  ASSUME NEW a \in Seq(Int), NEW b \in Seq(Int), NEW c \in Seq(Int)
  PROVE  /\ Append(Append(<<>>, a), b) \in Seq(Seq(Int))
         /\ FlattenSeq(Append(Append(<<>>, a), b)) = a \o b
         /\ FlattenSeq(Append(Append(Append(<<>>, a), b), c)) = (a \o b) \o c
<1>1. <<>> \in Seq(Seq(Int)) /\ <<>> \o a = a
  OBVIOUS
<1>2. FlattenSeq(Append(<<>>, a)) = a
  BY <1>1, FlattenAppend, FlattenEmpty
<1>3. Append(<<>>, a) \in Seq(Seq(Int))
  BY <1>1, AppendedSeq
<1> DEFINE s == Append(<<>>, a)
<1> HIDE DEF s
<1>4. Append(s, b) \in Seq(Seq(Int)) /\ FlattenSeq(Append(s, b)) = a \o b
  BY <1>2, <1>3, AppendedSeq, FlattenAppend DEF s
<1> DEFINE u == Append(s, b)
<1> HIDE DEF u
<1>5. FlattenSeq(Append(u, c)) = (a \o b) \o c
  <2>1. u \in Seq(Seq(Int)) /\ FlattenSeq(u) = a \o b
    BY <1>4 DEF u
  <2>2. FlattenSeq(Append(u, c)) = FlattenSeq(u) \o c
    BY <2>1, FlattenAppend
  <2> QED BY <2>1, <2>2
<1> QED BY <1>4, <1>5 DEF s, u
(* What WritebaseInfo writes: the size, the header, the trace info, the count. *)
LEMMA OpenTyped ==
  ASSUME call \in Calls, NEW trace \in BOOLEAN, NEW before,
         before = <<<< 0 >>, Header(trace)>> \o (IF trace THEN <<<<1, 2, 3, 4>>>> ELSE <<>>)
  PROVE  /\ before \o <<<< 0 >>>> \in Seq(Seq(Int)) /\ before \o <<<< 0 >>>> # <<>>
         /\ FlattenSeq(before) = << 0 >> \o HeaderAndTrace(trace)
         /\ FlattenSeq(before \o <<<< 0 >>>>) = (<< 0 >> \o HeaderAndTrace(trace)) \o << 0 >>
<1> DEFINE zero == << 0 >>
           h == Header(trace)
           t == <<1, 2, 3, 4>>
           f == Append(Append(<<>>, zero), h)
<1>1. zero \in Seq(Int) /\ h \in Seq(Int) /\ t \in Seq(Int) /\ TraceInfo(trace) \in Seq(Int)
  BY HeaderTyped
<1> HIDE DEF h
<1>2. /\ <<zero, h>> \o <<>> = f
      /\ <<zero, h>> \o <<t>> = Append(f, t)
  BY <1>1, AsAppends
<1>3. /\ before = <<zero, h>> \o (IF trace THEN <<t>> ELSE <<>>)
      /\ TraceInfo(trace) = IF trace THEN t ELSE <<>>
  BY DEF TraceInfo, h
<1> HIDE DEF zero, t
<1>4. /\ f \in Seq(Seq(Int)) /\ FlattenSeq(f) = zero \o h
      /\ FlattenSeq(Append(f, t)) = (zero \o h) \o t
  BY <1>1, FlattenFew
<1> HIDE DEF f
<1>5. before \in Seq(Seq(Int)) /\ FlattenSeq(before) = zero \o (h \o TraceInfo(trace))
  <2>1. CASE trace
    <3>1. before = Append(f, t) /\ TraceInfo(trace) = t
      BY <1>2, <1>3, <2>1
    <3>2. (zero \o h) \o t = zero \o (h \o t)
      BY <1>1, JoinedAnyhow
    <3>3. Append(f, t) \in Seq(Seq(Int))
      BY <1>1, <1>4, AppendedSeq
    <3> QED BY <1>4, <3>1, <3>2, <3>3
  <2>2. CASE ~trace
    <3>1. before = f /\ TraceInfo(trace) = <<>>
      BY <1>2, <1>3, <2>2
    <3>2. h \o <<>> = h
      BY <1>1
    <3> QED BY <1>4, <3>1, <3>2
  <2> QED BY <2>1, <2>2
<1>6. before \o <<zero>> = Append(before, zero)
  BY <1>1, <1>5
<1>7. FlattenSeq(Append(before, zero)) = FlattenSeq(before) \o zero
  BY <1>1, <1>5, FlattenAppend
<1>8. Append(before, zero) \in Seq(Seq(Int)) /\ Append(before, zero) # <<>>
  BY <1>1, <1>5, AppendedSeq
<1> QED BY <1>5, <1>6, <1>7, <1>8 DEF HeaderAndTrace, h, zero

(* WritebaseInfo: block size, header, trace and the place of the count.    *)
LEMMA LayoutBase ==
  ASSUME Layout, Inv, NEW trace \in BOOLEAN, WritebaseInfo(trace)
  PROVE  Layout'
<1> DEFINE before == <<<<0>>, Header(trace)>> \o (IF trace THEN <<<<1, 2, 3, 4>>>> ELSE <<>>)
           base == AppendAll(NewRawData, before \o <<<<0>>>>, 0)
           offset == Len(FlattenSeq(before))
           h == HeaderAndTrace(trace)
<1>1. /\ UNCHANGED <<call, sent, given, kept, broken>> /\ pc = "base"
      /\ \/ /\ base.ok
            /\ event' = [event EXCEPT !.rawData = base.raw, !.paramCntWroteOffset = offset]
            /\ pc' = "params" /\ result' = result
         \/ event' = [event EXCEPT !.retCode = -9] /\ pc' = "idle" /\ result' = -9
  BY DEF WritebaseInfo, Return, ERR_RAW_DATA_WROTE_EXCEPTION
<1>2. call \in Calls /\ kept = <<>> /\ ValidNames /\ event.paramCnt = Len(kept)
  BY <1>1 DEF Layout, EventTypes, Written
<1>3. /\ before \o <<<<0>>>> \in Seq(Seq(Int)) /\ before \o <<<<0>>>> # <<>>
      /\ FlattenSeq(before) = <<0>> \o h
      /\ FlattenSeq(before \o <<<<0>>>>) = (<<0>> \o h) \o <<0>>
  BY <1>2, OpenTyped
<1>4. RawOk(NewRawData) /\ NewRawData.data = <<>>
  BY RawDataAssumption DEF RawOk, NewRawData
<1> HIDE DEF before, base
<1>5. RawOk(base.raw) /\ base.ok /\ base.raw.data = NewRawData.data \o FlattenSeq(before \o <<<<0>>>>)
  <2>1. Wrote(NewRawData, before \o <<<<0>>>>, 0, base)
    BY <1>3, <1>4, AppendAllWrites DEF base
  <2> QED BY <1>3, <2>1 DEF Wrote
<1>6. h \in Seq(Int)
  BY <1>2, HeaderTyped
<1> HIDE DEF h
<1>7. base.raw.data = Cells2(0, h, 0, <<>>)
  <2>1. <<0>> \o h \in Seq(Int) /\ (<<0>> \o h) \o <<0>> \in Seq(Int) /\ <<0>> \o <<>> = <<0>>
    BY <1>6
  <2>2. <<>> \o ((<<0>> \o h) \o <<0>>) = (<<0>> \o h) \o <<0>>
    BY <2>1
  <2> QED BY <1>3, <1>4, <1>5, <2>1, <2>2 DEF Cells2
<1>8. offset = Len(<<0>> \o h) /\ offset \in Nat
  BY <1>3, <1>6
<1> HIDE DEF offset
<1>9. CASE pc' = "params"
  <2>1. /\ event' = [event EXCEPT !.rawData = base.raw, !.paramCntWroteOffset = offset] /\ result' = result
    BY <1>1, <1>9
  <2>2. /\ event'.retCode = event.retCode /\ event'.paramCnt = event.paramCnt
        /\ event'.rawData = base.raw /\ event'.paramCntWroteOffset = offset
    BY <2>1 DEF Inv, Shape, Fields
  <2>3. EventTypes'
    BY <1>1, <1>5, <1>8, <1>9, <2>1, <2>2 DEF Layout, EventTypes
  <2>4. Written'
    <3>1. Laid(0, trace, 0, <<>>)' = Cells2(0, h, 0, <<>>) /\ HeaderAndTrace(trace)' = h
      BY <1>1, SameCall DEF Laid, h
    <3>2. event'.rawData.data = Laid(0, trace, 0, <<>>)'
      BY <1>7, <2>2, <3>1
    <3>3. event'.paramCntWroteOffset = Len(<<0>> \o HeaderAndTrace(trace)')
      BY <1>8, <2>2, <3>1
    <3>4. <<>> \in Seq(Int) /\ <<>> = Body(kept')
      BY <1>1, <1>2, BodyOfNone
    <3>5. ValidNames' /\ event'.paramCnt = Len(kept')
      BY <1>1, <1>2, <2>2, SameCall
    <3> QED BY <1>1, <1>2, <1>9, <3>2, <3>3, <3>4, <3>5 DEF Written
  <2>5. SentIsItsParts'
    BY <1>1, SameCall DEF Layout, SentIsItsParts
  <2> QED BY <2>3, <2>4, <2>5 DEF Layout
<1>10. CASE pc' = "idle"
  <2>1. event' = [event EXCEPT !.retCode = -9] /\ result' = -9
    BY <1>1, <1>10
  <2>2. /\ event'.retCode = -9 /\ event'.paramCnt = event.paramCnt
        /\ event'.rawData = event.rawData /\ event'.paramCntWroteOffset = event.paramCntWroteOffset
    BY <2>1 DEF Inv, Shape, Fields
  <2>3. EventTypes'
    BY <1>1, <1>10, <2>1, <2>2 DEF Layout, EventTypes
  <2>4. Written' /\ SentIsItsParts'
    BY <1>1, <1>10, SameCall DEF Layout, Written, SentIsItsParts
  <2> QED BY <2>3, <2>4 DEF Layout
<1> QED BY <1>1, <1>9, <1>10
(* An event is a sequence of cells.                                        *)
LEMMA LaidTyped ==
  ASSUME call \in Calls, NEW trace, NEW body \in Seq(Int), NEW size \in Int, NEW count \in Int
  PROVE  Laid(size, trace, count, body) \in Seq(Int)
<1> DEFINE h == HeaderAndTrace(trace)
           a == <<size>> \o h
           b == <<count>> \o body
<1>1. h \in Seq(Int)
  BY HeaderTyped
<1> HIDE DEF h
<1>2. a \in Seq(Int) /\ b \in Seq(Int)
  BY <1>1, JoinedCells, OneCell
<1> HIDE DEF a, b
<1>3. a \o b \in Seq(Int)
  BY <1>2, JoinedCells
<1> QED BY <1>3 DEF Laid, Cells2, a, b, h

(* More cells behind the parameters.                                       *)
LEMMA LaidMore ==
  ASSUME call \in Calls, NEW trace, NEW body \in Seq(Int), NEW more \in Seq(Int)
  PROVE  Laid(0, trace, 0, body) \o more = Laid(0, trace, 0, body \o more)
<1> DEFINE h == HeaderAndTrace(trace)
           a == <<0>> \o h
           z == <<0>>
           b == z \o body
           m == body \o more
<1>1. h \in Seq(Int) /\ z \in Seq(Int)
  BY HeaderTyped, OneCell
<1> HIDE DEF h, z
<1>2. a \in Seq(Int) /\ b \in Seq(Int) /\ m \in Seq(Int)
  BY <1>1, JoinedCells, OneCell
<1>3. b \o more = z \o m
  BY <1>1, JoinedAnyhow
<1> HIDE DEF a, b, m
<1>4. (a \o b) \o more = a \o (b \o more)
  BY <1>2, JoinedAnyhow, SMTT(30)
<1>5. (a \o b) \o more = a \o (z \o m)
  BY <1>3, <1>4
<1> QED BY <1>5 DEF Laid, Cells2, a, b, m, h, z

(* AppendParam: the cells of the parameter follow what was there.          *)
LEMMA LayoutAppend ==
  ASSUME Layout, Inv, NEW p \in Params, AppendParam(p)
  PROVE  Layout'
<1>1. /\ UNCHANGED <<pc, call, result, sent>> /\ pc = "params" /\ given' = Append(given, p)
      /\ Len(given) < MaxGiven /\ Refusal(p) = SUCCESS
  BY DEF AppendParam, Takes
<1>2. PICK stop, encoded :
        /\ encoded = AppendAll(event.rawData, ParamChunks(p), stop)
        /\ event' = [event EXCEPT !.retCode = IF Warning(p) # SUCCESS THEN Warning(p) ELSE @,
                                  !.rawData = encoded.raw,
                                  !.paramCnt = IF encoded.ok THEN @ + 1 ELSE @]
        /\ Encoded(p, encoded)
  BY Zenon DEF AppendParam
<1>3. /\ event'.retCode = (IF Warning(p) # SUCCESS THEN Warning(p) ELSE event.retCode)
      /\ event'.rawData = encoded.raw
      /\ event'.paramCnt = (IF encoded.ok THEN event.paramCnt + 1 ELSE event.paramCnt)
      /\ event'.paramCntWroteOffset = event.paramCntWroteOffset
  BY <1>2 DEF Inv, Shape, Fields
<1>4. p \in Acceptable /\ event.paramCnt < MAX_PARAM_NUMBER /\ MAX_PARAM_NUMBER \in Nat
  <2>1. ~IsInvalid(p) /\ IsValidName(p.key, MAX_PARAM_NAME_LENGTH) /\ ~(event.paramCnt >= MAX_PARAM_NUMBER)
    BY <1>1 DEF Refusal, SUCCESS, ERR_VALUE_INVALID, ERR_KEY_NAME_INVALID, ERR_KEY_NUMBER_TOO_MUCH
  <2>2. event.paramCnt \in Nat /\ MAX_PARAM_NUMBER \in Nat
    BY WriterAssumption DEF Layout, EventTypes
  <2> QED BY <2>1, <2>2 DEF Acceptable
<1>5. ParamChunks(p) \in Seq(Seq(Int)) /\ ParamChunks(p) # <<>> /\ RawOk(event.rawData)
  BY <1>4, ParamTyped DEF Acceptable, Layout, EventTypes
<1>6. Wrote(event.rawData, ParamChunks(p), stop, encoded)
  BY <1>2, <1>5, AppendAllWrites
<1>7. kept' = IF encoded.ok THEN Append(kept, p) ELSE kept
  BY <1>2, Zenon DEF Encoded
<1>8. ~broken' => ~broken /\ encoded.ok
  BY <1>2, Zenon DEF Encoded
<1>9. kept \in Seq(Acceptable) /\ kept' \in Seq(Acceptable)
      /\ Len(kept') = IF encoded.ok THEN Len(kept) + 1 ELSE Len(kept)
  <2>1. kept \in Seq(Acceptable)
    BY DEF Layout, EventTypes
  <2>2. Append(kept, p) \in Seq(Acceptable) /\ Len(Append(kept, p)) = Len(kept) + 1
    BY <1>4, <2>1
  <2> QED BY <1>7, <2>1, <2>2
<1>10. EventTypes'
  <2>1. Len(given') <= MaxGiven
    <3>1. given \in Seq(Params) /\ MaxGiven \in Nat
      BY WriterAssumption DEF Inv, Shape
    <3> QED BY <1>1, <3>1
  <2>2. event'.retCode \in -9..5
    BY <1>3, WarningRange DEF Layout, EventTypes
  <2>3. event'.paramCnt \in 0..MAX_PARAM_NUMBER
    <3>1. event.paramCnt \in Nat
      BY DEF Layout, EventTypes
    <3> QED BY <1>3, <1>4, <3>1
  <2>4. RawOk(event'.rawData)
    BY <1>3, <1>6 DEF Wrote
  <2>5. Acceptable' = Acceptable
    BY DEF Acceptable, IsInvalid
  <2> QED BY <1>1, <1>3, <1>9, <2>1, <2>2, <2>3, <2>4, <2>5 DEF Layout, EventTypes
<1>11. Written'
  <2>1. call \in Calls
    BY DEF Layout, EventTypes
  <2>2. PICK trace \in BOOLEAN, body \in Seq(Int) :
          /\ event.rawData.data = Laid(0, trace, 0, body)
          /\ event.paramCntWroteOffset = Len(<<0>> \o HeaderAndTrace(trace))
          /\ ~broken => body = Body(kept)
    BY <1>1 DEF Layout, Written
  <2>3. PICK more \in Seq(Int) :
          /\ encoded.raw.data = event.rawData.data \o more
          /\ encoded.ok => more = FlattenSeq(ParamChunks(p))
    <3>1. CASE encoded.ok
      <4>1. FlattenSeq(ParamChunks(p)) \in Seq(Int)
        BY <1>4, BytesTyped
      <4> QED BY <1>5, <1>6, <3>1, <4>1 DEF Wrote
    <3>2. CASE ~encoded.ok
      BY <1>6, <3>2 DEF Wrote
    <3> QED BY <3>1, <3>2
  <2>4. event'.rawData.data = Laid(0, trace, 0, body \o more)
    <3>1. Laid(0, trace, 0, body) \o more = Laid(0, trace, 0, body \o more)
      BY <2>1, LaidMore
    <3> QED BY <1>3, <2>2, <2>3, <3>1
  <2>5. body \o more \in Seq(Int)
    BY JoinedCells
  <2>6. ~broken' => body \o more = Body(kept')
    <3> SUFFICES ASSUME ~broken' PROVE body \o more = Body(kept')
      OBVIOUS
    <3>1. encoded.ok /\ body = Body(kept) /\ kept' = Append(kept, p)
      BY <1>7, <1>8, <2>2
    <3>2. Body(Append(kept, p)) = Body(kept) \o FlattenSeq(ParamChunks(p))
      BY <1>4, <1>9, BodyAppend
    <3> QED BY <2>3, <3>1, <3>2
  <2> DEFINE now == body \o more
  <2>7. now \in Seq(Int) /\ event'.rawData.data = Laid(0, trace, 0, now)' /\ (~broken' => now = Body(kept'))
        /\ event'.paramCntWroteOffset = Len(<<0>> \o HeaderAndTrace(trace)')
    BY <1>1, <1>3, <2>2, <2>4, <2>5, <2>6, SameCall
  <2> HIDE DEF now
  <2>8. ValidNames' /\ event'.paramCnt = Len(kept')
    <3>1. ValidNames /\ event.paramCnt = Len(kept)
      BY <1>1 DEF Layout, Written
    <3> QED BY <1>1, <1>3, <1>9, <3>1, SameCall
  <2> QED BY <1>1, <2>7, <2>8 DEF Written
<1>12. SentIsItsParts'
  <2>1. sent' = <<>>
    BY <1>1 DEF Inv, Running
  <2> QED BY <2>1 DEF SentIsItsParts
<1> QED BY <1>10, <1>11, <1>12 DEF Layout

(* SendSysEvent updates block size and parameter count in place.           *)
LEMMA LayoutSend ==
  ASSUME Layout, Inv, NEW r, SendSysEvent(r)
  PROVE  Layout'
<1> DEFINE done == GetEventRawData
<1>1. /\ pc = "params" /\ pc' = "idle" /\ r \in SendCodes(done.data)
      /\ event' = [event EXCEPT !.rawData = done, !.retCode = IF r # SUCCESS THEN r ELSE @]
      /\ sent' = IF r = SUCCESS THEN done.data ELSE <<>>
      /\ result' = IF r # SUCCESS THEN r ELSE event.retCode
      /\ UNCHANGED <<call, given, kept, broken>>
  BY DEF SendSysEvent, Return
<1>2. /\ event'.retCode = (IF r # SUCCESS THEN r ELSE event.retCode)
      /\ event'.rawData = done /\ event'.paramCnt = event.paramCnt
      /\ event'.paramCntWroteOffset = event.paramCntWroteOffset
  BY <1>1 DEF Inv, Shape, Fields
<1>3. r \in -9..5 /\ (r = SUCCESS => Len(done.data) <= MAX_DATA_SIZE \/ ~(Len(done.data) > MAX_DATA_SIZE))
  BY <1>1 DEF SendCodes, SUCCESS, ERR_EMPTY_EVENT, ERR_OVER_SIZE, ERR_DOES_NOT_INIT, ERR_SEND_FAIL
<1>4. PICK trace \in BOOLEAN, body \in Seq(Int) :
        /\ event.rawData.data = Laid(0, trace, 0, body)
        /\ event.paramCntWroteOffset = Len(<<0>> \o HeaderAndTrace(trace))
        /\ ~broken => body = Body(kept)
  BY <1>1 DEF Layout, Written
<1> DEFINE h == HeaderAndTrace(trace)
           size == Len(event.rawData.data)
<1>5. h \in Seq(Int) /\ RawOk(event.rawData) /\ size \in Int /\ size \in Nat /\ event.paramCnt \in Int
  <2>1. call \in Calls /\ RawOk(event.rawData) /\ event.paramCnt \in Nat
    BY DEF Layout, EventTypes
  <2> QED BY <2>1, HeaderTyped DEF RawOk
<1>6. done = Fill(event.rawData, size, event.paramCnt, event.paramCntWroteOffset)
  BY DEF GetEventRawData, Fill
<1>7. event.rawData.data = Cells2(0, h, 0, body) /\ event.paramCntWroteOffset = Len(<<0>> \o h)
  BY <1>4 DEF Laid
<1> HIDE DEF done, h, size
<1>8. /\ RawOk(done)
      /\ done.data = Cells2(size, h, event.paramCnt, body)
      /\ Len(Cells2(size, h, event.paramCnt, body)) = Len(event.rawData.data)
  BY <1>5, <1>6, <1>7, FilledIn
<1>9. Len(done.data) = size
  BY <1>8 DEF size
<1>10. EventTypes'
  <2>1. event'.retCode \in -9..5 /\ result' \in -9..5 \cup {NotReturned}
    BY <1>1, <1>2, <1>3 DEF Layout, EventTypes
  <2> QED BY <1>1, <1>2, <1>8, <2>1 DEF Layout, EventTypes
<1>11. Written'
  BY <1>1 DEF Written
<1>12. SentIsItsParts'
  <2> SUFFICES ASSUME sent' # <<>> PROVE /\ ValidNames' /\ Len(sent') <= MAX_DATA_SIZE
                                         /\ Len(kept') <= MAX_PARAM_NUMBER
                                         /\ \E t \in BOOLEAN, b \in Seq(Int) :
                                              /\ sent' = Cells2(Len(sent'), HeaderAndTrace(t)', Len(kept'), b)
                                              /\ ~broken' => b = Body(kept')
    BY DEF SentIsItsParts, Laid
  <2>1. sent' = done.data /\ r = SUCCESS
    BY <1>1
  <2>2. ValidNames' /\ event.paramCnt = Len(kept')
    BY <1>1, SameCall DEF Layout, Written
  <2>3. Len(sent') = size
    BY <1>9, <2>1
  <2>4. Len(sent') <= MAX_DATA_SIZE
    BY <1>3, <1>5, <1>9, <2>1, <2>3, WriterAssumption
  <2>5. Len(kept') <= MAX_PARAM_NUMBER
    BY <2>2 DEF Layout, EventTypes
  <2>6. HeaderAndTrace(trace)' = h
    BY <1>1, SameCall DEF h
  <2>7. sent' = Cells2(Len(sent'), HeaderAndTrace(trace)', Len(kept'), body)
    BY <1>8, <2>1, <2>2, <2>3, <2>6
  <2>8. ~broken' => body = Body(kept')
    BY <1>1, <1>4
  <2> QED BY <2>2, <2>4, <2>5, <2>7, <2>8
<1> QED BY <1>10, <1>11, <1>12 DEF Layout

(* Every step of a call keeps the layout.                                  *)
LEMMA LayoutStep == Layout /\ Inv /\ [Next]_vars => Layout'
<1> SUFFICES ASSUME Layout, Inv, [Next]_vars PROVE Layout'
  OBVIOUS
<1>1. CASE UNCHANGED vars
  <2>1. UNCHANGED <<pc, call, event, result, sent, given, kept, broken>>
    BY <1>1 DEF vars
  <2>2. EventTypes' /\ Written' /\ SentIsItsParts'
    BY <2>1, SameCall DEF Layout, EventTypes, Written, SentIsItsParts
  <2> QED BY <2>2 DEF Layout
<1> QED BY <1>1, LayoutWrite, LayoutEventBase, LayoutBase, LayoutRefuse, LayoutAppend, LayoutSend DEF Next

(***************************************************************************)
(* The event, its raw data and the call keep their types through           *)
(* HiSysEvent::Write, for every call and every failure of memory: the      *)
(* length of RawData never exceeds the allocated capacity, whatever Append *)
(* grows it to.                                                            *)
(***************************************************************************)
THEOREM TypeCorrect == Spec => []TypeOK
<1>1. Layout /\ Inv => TypeOK
  <2> SUFFICES ASSUME Layout, Inv PROVE TypeOK
    OBVIOUS
  <2>1. broken \in BOOLEAN /\ given \in Seq(Params)
    BY DEF Inv, Shape
  <2>2. kept \in Seq(Params)
    BY DEF Inv, Shape
  <2>3. Len(event.rawData.data) <= event.rawData.capacity
    BY DEF Layout, EventTypes, RawOk
  <2> QED BY <2>1, <2>2, <2>3, Zenon DEF TypeOK, Layout, EventTypes
<1> QED BY <1>1, InvInit, InvStep, LayoutInit, LayoutStep, PTL DEF Spec

(***************************************************************************)
(* What HiSysEvent::GetEventRawData hands to the transport is block size,  *)
(* header, trace, parameter count and the accepted parameters, cell by     *)
(* cell and in the order in which Write was given them.                    *)
(***************************************************************************)
THEOREM EventIsItsParts == Spec => []SentIsItsParts
<1>1. Layout => SentIsItsParts
  BY DEF Layout
<1> QED BY <1>1, InvInit, InvStep, LayoutInit, LayoutStep, PTL DEF Spec
================================================================================
