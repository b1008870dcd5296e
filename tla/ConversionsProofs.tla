--------------------------- MODULE ConversionsProofs ---------------------------
(***************************************************************************)
(* The properties of Conversions, for every width of the integer           *)
(* types, every value of an event and all arguments of the calls.  The     *)
(* calls do not depend on each other: a call is made in the first step,    *)
(* and each action establishes the property that speaks of its answer.     *)
(* What there is to prove is what the functions return.                    *)
(***************************************************************************)
EXTENDS Conversions, WellFoundedInduction, FiniteSetTheorems, SequenceTheorems, TLAPS

(* A set of numbers has a least one.                                       *)
LEMMA LeastNatural ==
  ASSUME NEW S \in SUBSET Nat, S # {}
  PROVE  \E n \in S : \A m \in S : n <= m
<1> DEFINE R == {p \in Nat \X Nat : p[1] < p[2]}
<1>1. IsWellFoundedOn(R, Nat)
  BY NatLessThanWellFounded DEF OpToRel
<1>2. \A m, n \in Nat : m < n => <<m, n>> \in R
  OBVIOUS
<1> HIDE DEF R
<1>3. PICK n \in S : \A m \in S : ~(<<m, n>> \in R)
  BY <1>1, WFMin
<1>4. ASSUME NEW m \in S PROVE n <= m
  <2>1. m \in Nat /\ n \in Nat
    OBVIOUS
  <2>2. ~(m < n)
    BY <1>2, <1>3, <2>1
  <2> QED BY <2>1, <2>2
<1> QED BY <1>4

(* A set of numbers with a bound has a greatest one.                       *)
LEMMA GreatestNatural ==
  ASSUME NEW N \in Nat, NEW S \in SUBSET (0..N), S # {}
  PROVE  \E n \in S : \A m \in S : m <= n
<1> DEFINE B == {k \in Nat : \A m \in S : m <= k}
<1>1. B # {} /\ B \in SUBSET Nat
  <2>1. N \in B
    OBVIOUS
  <2> QED BY <2>1
<1>2. PICK n \in B : \A k \in B : n <= k
  BY <1>1, LeastNatural
<1>3. n \in Nat /\ \A m \in S : m <= n
  OBVIOUS
<1>4. n \in S
  <2> SUFFICES ASSUME n \notin S PROVE FALSE
    OBVIOUS
  <2>1. \A m \in S : m \in Nat /\ m <= n - 1
    <3> SUFFICES ASSUME NEW m \in S PROVE m \in Nat /\ m <= n - 1
      OBVIOUS
    <3>1. m # n /\ m \in Nat /\ m <= n /\ n \in Nat
      BY <1>3
    <3> HIDE DEF B
    <3> QED BY <3>1
  <2>2. PICK m \in S : TRUE
    OBVIOUS
  <2>3. n - 1 \in Nat
    BY <1>3, <2>1
  <2>4. n - 1 \in B
    BY <2>1, <2>3
  <2> QED BY <1>2, <1>3, <2>4
<1> QED BY <1>3, <1>4

(* ConvertRecord fills the fields up to the first that fails.              *)
LEMMA ConvertUpTo ==
  ASSUME NEW bad
  PROVE  /\ ConvertRecord(bad) \in 0..8
         /\ \A i \in 1..ConvertRecord(bad) : CFields[i] \notin bad
         /\ ConvertRecord(bad) < 8 => CFields[ConvertRecord(bad) + 1] \in bad
<1> DEFINE good == {n \in 0..8 : \A i \in 1..n : CFields[i] \notin bad}
           n == CHOOSE n \in good : \A m \in good : m <= n
<1>1. Len(CFields) = 8
  BY DEF CFields
<1>2. ConvertRecord(bad) = n
  BY <1>1 DEF ConvertRecord
<1>3. good # {} /\ good \in SUBSET (0..8)
  <2>1. 0 \in good
    OBVIOUS
  <2> QED BY <2>1
<1>4. \E k \in good : \A m \in good : m <= k
  <2> HIDE DEF good
  <2> QED BY <1>3, GreatestNatural
<1>5. n \in good /\ \A m \in good : m <= n
  <2> HIDE DEF good
  <2> QED BY <1>4
<1>6. n \in 0..8 /\ \A i \in 1..n : CFields[i] \notin bad
  <2> HIDE DEF n
  <2> QED BY <1>5
<1>7. ASSUME n < 8 PROVE CFields[n + 1] \in bad
  <2> HIDE DEF n
  <2> SUFFICES ASSUME CFields[n + 1] \notin bad PROVE FALSE
    OBVIOUS
  <2>1. n + 1 \in 0..8
    BY <1>6, <1>7
  <2>2. ASSUME NEW i \in 1..(n + 1) PROVE CFields[i] \notin bad
    <3>1. i \in 1..n \/ i = n + 1
      BY <1>6
    <3> QED BY <1>6, <3>1
  <2>3. n + 1 \in good
    BY <2>1, <2>2
  <2> HIDE DEF good
  <2> QED BY <1>5, <1>6, <2>3
<1> QED BY <1>2, <1>6, <1>7


(* ConvertRecord fills every field of the struct exactly if none fails.    *)
LEMMA ConvertedWhole ==
  ASSUME NEW bad \in SUBSET AllFields
  PROVE  /\ Converted(bad) <=> bad = {}
         /\ Converted(bad) => Filled(ConvertRecord(bad)) = AllFields
         /\ ~Converted(bad) => Filled(ConvertRecord(bad)) # AllFields
<1> DEFINE n == ConvertRecord(bad)
<1>0. Len(CFields) = 8
  BY DEF CFields
<1>1. n \in 0..8 /\ (\A i \in 1..n : CFields[i] \notin bad) /\ (n < 8 => CFields[n + 1] \in bad)
  BY ConvertUpTo
<1> HIDE DEF n
<1>2. n = 8 => bad = {}
  BY <1>0, <1>1 DEF AllFields
<1>3. n # 8 => bad # {}
  BY <1>1
<1>4. n = 8 => Filled(n) = AllFields
  BY <1>0 DEF Filled, AllFields
<1>5. n # 8 => Filled(n) # AllFields
  <2> SUFFICES ASSUME n # 8 PROVE Filled(n) # AllFields
    OBVIOUS
  <2>1. CFields[8] \in AllFields
    BY <1>0 DEF AllFields
  <2>2. CFields[8] \notin Filled(n)
    <3> SUFFICES ASSUME NEW i \in 1..n, CFields[8] = CFields[i] PROVE FALSE
      BY DEF Filled
    <3>1. i \in 1..7
      BY <1>1
    <3> QED BY <3>1 DEF CFields
  <2> QED BY <2>1, <2>2
<1> QED BY <1>0, <1>2, <1>3, <1>4, <1>5 DEF n, Converted

(* OnQuery converts records up to the first that fails.                    *)
LEMMA AttemptedUpTo ==
  ASSUME NEW batch \in Seq(SUBSET AllFields), batch # <<>>
  PROVE  /\ Attempted(batch) \in 1..Len(batch)
         /\ \A i \in 1..(Attempted(batch) - 1) : Converted(batch[i])
         /\ Attempted(batch) < Len(batch) => ~Converted(batch[Attempted(batch)])
<1> DEFINE tried == {n \in 1..Len(batch) : \A i \in 1..(n - 1) : Converted(batch[i])}
           n == CHOOSE n \in tried : \A m \in tried : m <= n
<1>1. Len(batch) \in Nat /\ Len(batch) >= 1
  OBVIOUS
<1>2. Attempted(batch) = n
  BY DEF Attempted
<1>3. tried # {} /\ tried \in SUBSET (0..Len(batch))
  <2>1. 1 \in tried
    BY <1>1
  <2> QED BY <2>1
<1>4. \E k \in tried : \A m \in tried : m <= k
  <2> HIDE DEF tried
  <2> QED BY <1>1, <1>3, GreatestNatural
<1>5. n \in tried /\ \A m \in tried : m <= n
  <2> HIDE DEF tried
  <2> QED BY <1>4
<1>6. n \in 1..Len(batch) /\ \A i \in 1..(n - 1) : Converted(batch[i])
  <2> HIDE DEF n
  <2> QED BY <1>5
<1>7. ASSUME n < Len(batch), Converted(batch[n]) PROVE FALSE
  <2> HIDE DEF n
  <2>1. n + 1 \in 1..Len(batch)
    BY <1>6, <1>7
  <2>2. ASSUME NEW i \in 1..((n + 1) - 1) PROVE Converted(batch[i])
    <3>1. i \in 1..(n - 1) \/ i = n
      BY <1>6
    <3> QED BY <1>6, <1>7, <3>1
  <2>3. n + 1 \in tried
    BY <2>1, <2>2
  <2> HIDE DEF tried
  <2> QED BY <1>5, <1>6, <2>3
<1> QED BY <1>2, <1>6, <1>7


(* What the C callbacks hand over, and that nothing stays allocated: the   *)
(* steps of OnQuery and OnEvent in hisysevent_c.cpp.                       *)
LEMMA DeliverComplete == DeliverC => CRecordsComplete'
<1> SUFFICES ASSUME DeliverC PROVE CRecordsComplete'
  OBVIOUS
<1>1. PICK batch \in Batches, query \in BOOLEAN :
        /\ query \/ Len(batch) = 1
        /\ call' = [api |-> "deliver", batch |-> batch, query |-> query]
        /\ answer' = IF query THEN OnQueryC(batch) ELSE OnEventC(batch[1])
  BY DEF DeliverC, Called
<1>2. batch \in Seq(SUBSET AllFields) /\ batch # <<>> /\ Len(batch) \in Nat
  BY BatchAssumption
<1>3. CASE query
  <2> DEFINE n == Attempted(batch)
  <2>1. /\ n \in 1..Len(batch)
        /\ \A i \in 1..(n - 1) : Converted(batch[i])
        /\ n < Len(batch) => ~Converted(batch[n])
    BY <1>2, AttemptedUpTo
  <2>2. answer' = [delivered |-> IF Converted(batch[n])
                                 THEN [i \in 1..n |-> Filled(ConvertRecord(batch[i]))]
                                 ELSE <<>>,
                   allocated |-> Deleted(batch, n), deleted |-> Deleted(batch, n)]
    BY <1>1, <1>3 DEF OnQueryC
  <2> HIDE DEF n
  <2>3. \A i \in 1..Len(batch) : batch[i] \in SUBSET AllFields
    BY <1>2
  <2>4. CASE \A i \in 1..Len(batch) : batch[i] = {}
    <3>1. \A i \in 1..Len(batch) : Converted(batch[i]) /\ Filled(ConvertRecord(batch[i])) = AllFields
      BY <2>3, <2>4, ConvertedWhole
    <3>2. n = Len(batch) /\ Converted(batch[n])
      BY <1>2, <2>1, <3>1
    <3>3. answer'.delivered = [i \in 1..Len(batch) |-> AllFields]
      BY <2>2, <3>1, <3>2
    <3> QED BY <1>1, <1>3, <2>2, <2>4, <3>3 DEF CRecordsComplete, AllFields
  <2>5. CASE ~\A i \in 1..Len(batch) : batch[i] = {}
    <3>1. PICK k \in 1..Len(batch) : batch[k] # {}
      BY <2>5
    <3>2. ~Converted(batch[k])
      BY <2>3, <3>1, ConvertedWhole
    <3>3. ~Converted(batch[n])
      <4> SUFFICES ASSUME Converted(batch[n]) PROVE FALSE
        OBVIOUS
      <4>1. n = Len(batch)
        BY <1>2, <2>1
      <4>2. k \in 1..(n - 1) \/ k = n
        BY <1>2, <4>1
      <4> QED BY <2>1, <3>2, <4>2
    <3>4. answer'.delivered = <<>>
      BY <2>2, <3>3
    <3> QED BY <1>1, <1>3, <2>2, <2>5, <3>4 DEF CRecordsComplete
  <2> QED BY <2>4, <2>5
<1>4. CASE ~query
  <2>1. batch[1] \in SUBSET AllFields
    BY <1>1, <1>2, <1>4
  <2>2. /\ answer'.delivered = <<Filled(ConvertRecord(batch[1]))>>
        /\ answer'.allocated = answer'.deleted
    BY <1>1, <1>4 DEF OnEventC
  <2>3. Filled(ConvertRecord(batch[1])) = AllFields <=> batch[1] = {}
    BY <2>1, ConvertedWhole
  <2>4. call'.api = "deliver" /\ call'.batch = batch /\ call'.query = FALSE
    BY <1>1, <1>4
  <2>5. (answer'.delivered = <<AllFields>>) = (batch[1] = {})
    <3>1. answer'.delivered = <<AllFields>> <=> batch[1] = {}
      BY <2>2, <2>3
    <3> QED BY <3>1
  <2> QED BY <2>2, <2>4, <2>5 DEF CRecordsComplete, AllFields
<1> QED BY <1>3, <1>4
-----------------------------------------------------------------------------
(* Induction: a set with 0 and with the successor of each of its numbers.  *)
LEMMA SetInduction ==
  ASSUME NEW S \in SUBSET Nat, 0 \in S, \A n \in S : n + 1 \in S
  PROVE  S = Nat
<1> SUFFICES ASSUME S # Nat PROVE FALSE
  OBVIOUS
<1>1. PICK n \in Nat \ S : \A m \in Nat \ S : n <= m
  BY LeastNatural
<1>2. n # 0 /\ n - 1 \in Nat
  BY <1>1
<1>3. n - 1 \in S
  BY <1>1, <1>2
<1> QED BY <1>1, <1>2, <1>3

(* A value for every number, given that of 0 and how that of a number is made from that of a smaller one. *)
ValueAt(b, prev, step, f, n) == IF n = 0 THEN b ELSE step[<<n, f[prev[n]]>>]

(* f is such a function up to n.                                           *)
MadeUpTo(b, prev, step, f, n) == \A i \in 0..n : f[i] = ValueAt(b, prev, step, f, i)

(* The values lie in V, and a number is made from a smaller one.           *)
Recursion(V, b, prev, step) ==
  /\ b \in V
  /\ prev \in [Nat \ {0} -> Nat] /\ \A n \in Nat \ {0} : prev[n] < n
  /\ step \in [(Nat \ {0}) \X V -> V]

(* There is such a function up to every number.                            *)
LEMMA RecursionUpTo ==
  ASSUME NEW V, NEW b, NEW prev, NEW step, Recursion(V, b, prev, step), NEW n \in Nat
  PROVE  \E f \in [0..n -> V] : MadeUpTo(b, prev, step, f, n)
<1> USE DEF Recursion
<1> DEFINE K == {k \in Nat : \E f \in [0..k -> V] : MadeUpTo(b, prev, step, f, k)}
<1>1. 0 \in K
  <2> DEFINE f == [i \in 0..0 |-> b]
  <2>1. f \in [0..0 -> V] /\ MadeUpTo(b, prev, step, f, 0)
    BY DEF ValueAt, MadeUpTo
  <2> HIDE DEF f
  <2> QED BY <2>1
<1>2. ASSUME NEW k \in K PROVE k + 1 \in K
  <2>1. PICK g \in [0..k -> V] : MadeUpTo(b, prev, step, g, k)
    OBVIOUS
  <2>0. k \in Nat
    OBVIOUS
  <2> HIDE DEF K
  <2> DEFINE h == [i \in 0..(k + 1) |-> ValueAt(b, prev, step, g, i)]
  <2>2. ASSUME NEW i \in 0..(k + 1) PROVE h[i] \in V /\ h[i] = ValueAt(b, prev, step, h, i)
    <3>1. CASE i = 0
      BY <3>1 DEF ValueAt
    <3>2. CASE i # 0
      <4>1. i \in Nat \ {0} /\ prev[i] \in 0..k /\ prev[i] \in 0..(k + 1)
        BY <2>0, <3>2
      <4>2. g[prev[i]] \in V
        BY <4>1
      <4>3. h[prev[i]] = g[prev[i]]
        BY <2>1, <4>1 DEF MadeUpTo
      <4>4. h[i] = step[<<i, g[prev[i]]>>]
        BY <3>2 DEF ValueAt
      <4> HIDE DEF h
      <4> QED BY <3>2, <4>1, <4>2, <4>3, <4>4 DEF ValueAt
    <3> QED BY <3>1, <3>2
  <2>3. h \in [0..(k + 1) -> V]
    BY <2>2
  <2> HIDE DEF h
  <2>4. MadeUpTo(b, prev, step, h, k + 1)
    BY <2>2 DEF MadeUpTo
  <2>5. \E f \in [0..(k + 1) -> V] : MadeUpTo(b, prev, step, f, k + 1)
    BY <2>3, <2>4
  <2> QED BY <2>0, <2>5 DEF K
<1> HIDE DEF K
<1>3. K \in SUBSET Nat
  BY DEF K
<1>4. n \in K
  BY <1>1, <1>2, <1>3, SetInduction
<1> QED BY <1>4 DEF K

(* Two such functions agree as far as both go.                             *)
LEMMA RecursionAgrees ==
  ASSUME NEW V, NEW b, NEW prev, NEW step, Recursion(V, b, prev, step), NEW n \in Nat, NEW m \in Nat,
         NEW f, MadeUpTo(b, prev, step, f, n), NEW g, MadeUpTo(b, prev, step, g, m),
         NEW k \in Nat, k <= n, k <= m
  PROVE  f[k] = g[k]
<1> USE DEF Recursion
<1> DEFINE S == {i \in Nat : i <= n /\ i <= m /\ f[i] # g[i]}
<1> SUFFICES ASSUME S # {} PROVE FALSE
  OBVIOUS
<1>1. PICK i \in S : \A j \in S : i <= j
  <2> HIDE DEF S
  <2>1. S \in SUBSET Nat
    BY DEF S
  <2> QED BY <2>1, LeastNatural
<1>2. f[i] = ValueAt(b, prev, step, f, i) /\ g[i] = ValueAt(b, prev, step, g, i)
  BY DEF MadeUpTo
<1>3. CASE i = 0
  BY <1>2, <1>3 DEF ValueAt
<1>4. CASE i # 0
  <2>1. prev[i] \in Nat /\ prev[i] < i
    BY <1>4
  <2>2. f[prev[i]] = g[prev[i]]
    BY <1>1, <2>1
  <2> QED BY <1>2, <1>4, <2>2 DEF ValueAt
<1> QED BY <1>3, <1>4

(* There is such a function on all numbers: the recursive definition means *)
(* something.                                                              *)
LEMMA RecursionExists ==
  ASSUME NEW V, NEW b, NEW prev, NEW step, Recursion(V, b, prev, step)
  PROVE  \E f \in [Nat -> V] : \A n \in Nat : f[n] = ValueAt(b, prev, step, f, n)
<1> DEFINE G(n) == CHOOSE g \in [0..n -> V] : MadeUpTo(b, prev, step, g, n)
           f == [n \in Nat |-> G(n)[n]]
<1>1. ASSUME NEW n \in Nat PROVE G(n) \in [0..n -> V] /\ MadeUpTo(b, prev, step, G(n), n)
  <2>1. \E g \in [0..n -> V] : MadeUpTo(b, prev, step, g, n)
    BY RecursionUpTo
  <2> QED BY <2>1
<1> HIDE DEF G
<1>2. f \in [Nat -> V]
  BY <1>1
<1>3. ASSUME NEW n \in Nat PROVE f[n] = ValueAt(b, prev, step, f, n)
  <2>1. f[n] = ValueAt(b, prev, step, G(n), n)
    BY <1>1 DEF MadeUpTo
  <2>2. CASE n = 0
    BY <2>1, <2>2 DEF ValueAt
  <2>3. CASE n # 0
    <3>1. prev[n] \in Nat /\ prev[n] <= n
      BY <2>3 DEF Recursion
    <3> DEFINE u == prev[n]
    <3> HIDE DEF u
    <3>2. u \in Nat /\ u <= n /\ u <= u
      BY <3>1 DEF u
    <3>3. MadeUpTo(b, prev, step, G(n), n) /\ MadeUpTo(b, prev, step, G(u), u)
      BY <1>1, <3>2
    <3>4. G(n)[u] = G(u)[u]
      <4>1. \A h, g : MadeUpTo(b, prev, step, h, n) /\ MadeUpTo(b, prev, step, g, u) => h[u] = g[u]
        BY <3>2, RecursionAgrees
      <4> QED BY <3>3, <4>1
    <3>5. f[u] = G(u)[u]
      BY <3>2
    <3> HIDE DEF f
    <3> QED BY <2>1, <2>3, <3>4, <3>5 DEF ValueAt, u
  <2> QED BY <2>2, <2>3
<1> HIDE DEF f
<1> QED BY <1>2, <1>3
-----------------------------------------------------------------------------
(* FlattenSeq, which is defined by recursion over the places of seqs.      *)
FlatBody(g, i, seqs) == IF i = 1 THEN seqs[i] ELSE g[i - 1] \o seqs[i]

(* The recursive function of FlattenSeq exists.                            *)
LEMMA FlattenExists ==
  ASSUME NEW seqs, NEW n \in Nat
  PROVE  \E g : g = [i \in 1..n |-> FlatBody(g, i, seqs)]
<1> DEFINE K == {k \in Nat : \E g : g = [i \in 1..k |-> FlatBody(g, i, seqs)]}
<1>1. 0 \in K
  <2>1. [i \in 1..0 |-> 0] = [i \in 1..0 |-> FlatBody([j \in 1..0 |-> 0], i, seqs)]
    OBVIOUS
  <2> QED BY <2>1
<1>2. ASSUME NEW k \in K PROVE k + 1 \in K
  <2>1. PICK g : g = [i \in 1..k |-> FlatBody(g, i, seqs)]
    OBVIOUS
  <2> DEFINE h == [i \in 1..(k + 1) |-> FlatBody(g, i, seqs)]
  <2>2. ASSUME NEW i \in 1..(k + 1) PROVE h[i] = FlatBody(h, i, seqs)
    <3>1. i # 1 => i - 1 \in 1..k /\ i - 1 \in 1..(k + 1)
      OBVIOUS
    <3>2. i # 1 => g[i - 1] = h[i - 1]
      BY <2>1, <3>1
    <3> QED BY <3>2 DEF FlatBody
  <2>3. h = [i \in 1..(k + 1) |-> FlatBody(h, i, seqs)]
    BY <2>2
  <2>4. \E e : e = [i \in 1..(k + 1) |-> FlatBody(e, i, seqs)]
    <3> HIDE DEF h
    <3> QED BY <2>3
  <2> QED BY <2>4
<1> HIDE DEF K
<1>3. K = Nat
  <2>1. K \in SUBSET Nat
    BY DEF K
  <2> QED BY <1>1, <1>2, <2>1, SetInduction
<1> QED BY <1>3 DEF K

(* FlattenSeq is the last value of that function.                          *)
LEMMA FlattenUnfold ==
  ASSUME NEW seqs, Len(seqs) \in Nat, Len(seqs) # 0
  PROVE  \E g : /\ g = [i \in 1..Len(seqs) |-> FlatBody(g, i, seqs)]
                /\ FlattenSeq(seqs) = g[Len(seqs)]
<1> DEFINE f == CHOOSE g : g = [i \in 1..Len(seqs) |-> FlatBody(g, i, seqs)]
<1>1. FlattenSeq(seqs) = f[Len(seqs)]
  BY DEF FlattenSeq, FlatBody
<1>2. f = [i \in 1..Len(seqs) |-> FlatBody(f, i, seqs)]
  BY FlattenExists
<1> QED BY <1>1, <1>2

(* FlattenSeq of sequences over S is a sequence over S.                    *)
LEMMA FlattenType ==
  ASSUME NEW S, NEW seqs \in Seq(Seq(S))
  PROVE  FlattenSeq(seqs) \in Seq(S)
<1>1. CASE Len(seqs) = 0
  BY <1>1 DEF FlattenSeq
<1>2. CASE Len(seqs) # 0
  <2>1. PICK g : /\ g = [i \in 1..Len(seqs) |-> FlatBody(g, i, seqs)]
                 /\ FlattenSeq(seqs) = g[Len(seqs)]
    BY <1>2, FlattenUnfold
  <2> DEFINE K == {k \in Nat : k + 1 \in 1..Len(seqs) => g[k + 1] \in Seq(S)}
  <2>2. 0 \in K
    BY <1>2, <2>1 DEF FlatBody
  <2>3. ASSUME NEW k \in K PROVE k + 1 \in K
    <3> SUFFICES ASSUME k + 2 \in 1..Len(seqs) PROVE g[k + 2] \in Seq(S)
      OBVIOUS
    <3>1. g[k + 1] \in Seq(S) /\ seqs[k + 2] \in Seq(S)
      OBVIOUS
    <3>2. g[k + 2] = g[k + 1] \o seqs[k + 2]
      <4>1. k + 2 # 1 /\ (k + 2) - 1 = k + 1
        OBVIOUS
      <4>2. g[k + 2] = FlatBody(g, k + 2, seqs)
        BY <2>1
      <4> QED BY <4>1, <4>2 DEF FlatBody
    <3> QED BY <3>1, <3>2
  <2>4. K = Nat
    <3> HIDE DEF K
    <3>1. K \in SUBSET Nat
      BY DEF K
    <3> QED BY <2>2, <2>3, <3>1, SetInduction
  <2>5. Len(seqs) \in Nat \ {0}
    BY <1>2
  <2>6. Len(seqs) - 1 \in K /\ (Len(seqs) - 1) + 1 = Len(seqs)
    <3> HIDE DEF K
    <3> QED BY <2>4, <2>5
  <2>7. g[(Len(seqs) - 1) + 1] \in Seq(S)
    BY <2>5, <2>6
  <2> QED BY <2>1, <2>6, <2>7
<1> QED BY <1>1, <1>2
(* Nothing, flat.                                                          *)
LEMMA FlattenEmpty == FlattenSeq(<<>>) = <<>>
BY DEF FlattenSeq

(* One more sequence, flat.                                                *)
LEMMA FlattenAppend ==
  ASSUME NEW S, NEW s \in Seq(Seq(S)), NEW c \in Seq(S)
  PROVE  FlattenSeq(Append(s, c)) = FlattenSeq(s) \o c
<1> DEFINE n == Len(s)
           t == Append(s, c)
<1>1. n \in Nat /\ t \in Seq(Seq(S)) /\ Len(t) = n + 1 /\ t[n + 1] = c
      /\ \A i \in 1..n : t[i] = s[i]
  OBVIOUS
<1> HIDE DEF t
<1>2. PICK h : h = [i \in 1..Len(t) |-> FlatBody(h, i, t)] /\ FlattenSeq(t) = h[Len(t)]
  BY <1>1, FlattenUnfold
<1>3. CASE n = 0
  <2>1. s = <<>> /\ FlattenSeq(s) = <<>>
    BY <1>3, FlattenEmpty
  <2>2. h[1] = t[1]
    BY <1>1, <1>2, <1>3 DEF FlatBody
  <2>3. <<>> \o c = c
    OBVIOUS
  <2> QED BY <1>1, <1>2, <1>3, <2>1, <2>2, <2>3 DEF t
<1>4. CASE n # 0
  <2>1. PICK g : g = [i \in 1..n |-> FlatBody(g, i, s)] /\ FlattenSeq(s) = g[n]
    BY <1>1, <1>4, FlattenUnfold
  <2> DEFINE D == {i \in Nat : i \in 1..n /\ g[i] # h[i]}
  <2>2. D = {}
    <3> SUFFICES ASSUME D # {} PROVE FALSE
      OBVIOUS
    <3>1. PICK i \in D : \A j \in D : i <= j
      <4> HIDE DEF D
      <4>1. D \in SUBSET Nat
        BY DEF D
      <4> QED BY <4>1, LeastNatural
    <3>2. i \in 1..n /\ i \in Nat /\ g[i] # h[i]
      OBVIOUS
    <3> HIDE DEF D
    <3>3. g[i] = FlatBody(g, i, s) /\ h[i] = FlatBody(h, i, t)
      <4>1. i \in 1..Len(t)
        BY <1>1, <3>2
      <4> QED BY <1>2, <2>1, <3>2, <4>1
    <3>4. t[i] = s[i]
      BY <1>1, <3>2
    <3>5. CASE i = 1
      BY <3>2, <3>3, <3>4, <3>5 DEF FlatBody
    <3>6. CASE i # 1
      <4>1. i - 1 \in 1..n /\ i - 1 \in Nat /\ ~(i <= i - 1)
        BY <1>1, <3>2, <3>6
      <4>2. g[i - 1] = h[i - 1]
        BY <3>1, <4>1 DEF D
      <4> QED BY <3>2, <3>3, <3>4, <3>6, <4>2 DEF FlatBody
    <3> QED BY <3>5, <3>6
  <2>3. g[n] = h[n]
    <3>1. n \in 1..n
      BY <1>1, <1>4
    <3> QED BY <1>1, <2>2, <3>1
  <2>4. h[n + 1] = h[n] \o t[n + 1]
    <3>1. n + 1 # 1 /\ (n + 1) - 1 = n /\ n + 1 \in 1..Len(t)
      BY <1>1, <1>4
    <3>2. h[n + 1] = FlatBody(h, n + 1, t)
      BY <1>2, <3>1
    <3> QED BY <3>1, <3>2 DEF FlatBody
  <2> QED BY <1>1, <1>2, <2>1, <2>3, <2>4 DEF t
<1> QED BY <1>3, <1>4

(* Two parts are flat one by one.                                          *)
LEMMA FlattenConcat ==
  ASSUME NEW S, NEW s \in Seq(Seq(S)), NEW t \in Seq(Seq(S))
  PROVE  FlattenSeq(s \o t) = FlattenSeq(s) \o FlattenSeq(t)
<1> DEFINE n == Len(t)
           F(k) == SubSeq(t, 1, k)
           K == {k \in Nat : k <= n => FlattenSeq(s \o F(k)) = FlattenSeq(s) \o FlattenSeq(F(k))}
<1>1. n \in Nat
  OBVIOUS
<1>2. 0 \in K
  <2>1. F(0) = <<>> /\ s \o <<>> = s
    OBVIOUS
  <2>2. FlattenSeq(s) \in Seq(S)
    BY FlattenType
  <2>3. FlattenSeq(s) \o <<>> = FlattenSeq(s)
    BY <2>2
  <2> QED BY <2>1, <2>3, FlattenEmpty
<1>3. ASSUME NEW k \in K PROVE k + 1 \in K
  <2> SUFFICES ASSUME k + 1 <= n
               PROVE  FlattenSeq(s \o F(k + 1)) = FlattenSeq(s) \o FlattenSeq(F(k + 1))
    OBVIOUS
  <2>1. k \in Nat /\ k <= n /\ k + 1 \in 1..n
    BY <1>1
  <2> DEFINE f == F(k)
             e == t[k + 1]
  <2>2. f \in Seq(Seq(S)) /\ e \in Seq(S) /\ F(k + 1) = Append(f, e)
    BY <1>1, <2>1
  <2>3. FlattenSeq(s \o f) = FlattenSeq(s) \o FlattenSeq(f)
    BY <2>1
  <2> HIDE DEF f, e, F, K
  <2>4. s \o Append(f, e) = Append(s \o f, e) /\ s \o f \in Seq(Seq(S))
    BY <2>2
  <2>5. FlattenSeq(Append(s \o f, e)) = FlattenSeq(s \o f) \o e
    BY <2>2, <2>4, FlattenAppend
  <2>6. FlattenSeq(Append(f, e)) = FlattenSeq(f) \o e
    BY <2>2, FlattenAppend
  <2> DEFINE a == FlattenSeq(s)
             b == FlattenSeq(f)
  <2>7. a \in Seq(S) /\ b \in Seq(S)
    BY <2>2, FlattenType
  <2> HIDE DEF a, b
  <2>8. (a \o b) \o e = a \o (b \o e)
    BY <2>2, <2>7, ConcatAssociative, SMTT(30)
  <2> QED BY <2>2, <2>3, <2>4, <2>5, <2>6, <2>8 DEF a, b
<1>4. K = Nat
  <2> HIDE DEF K
  <2>1. K \in SUBSET Nat
    BY DEF K
  <2> QED BY <1>2, <1>3, <2>1, SetInduction
<1>5. F(n) = t
  OBVIOUS
<1>6. n \in K
  BY <1>1, <1>4
<1>7. FlattenSeq(s \o F(n)) = FlattenSeq(s) \o FlattenSeq(F(n))
  BY <1>1, <1>6
<1> HIDE DEF F, n
<1> QED BY <1>5, <1>7
-----------------------------------------------------------------------------
(* EncodeUnsignedVarint behind its first byte.                             *)
RestStep(n, more) == <<(IF n < 128 THEN 0 ELSE 128) + (n % 128)>> \o more
RestBody(g, n) == IF n = 0 THEN <<>> ELSE <<(IF n < 128 THEN 0 ELSE 128) + (n % 128)>> \o g[n \div 128]

(* The varint behind its first byte is defined.                            *)
LEMMA RestExists == \E g : g = [n \in Nat |-> RestBody(g, n)]
<1> DEFINE prev == [n \in Nat \ {0} |-> n \div 128]
           step == [p \in (Nat \ {0}) \X Seq(Int) |-> RestStep(p[1], p[2])]
<1>1. \A n \in Nat \ {0} : n \div 128 \in Nat /\ n \div 128 < n
  OBVIOUS
<1>2. \A p \in (Nat \ {0}) \X Seq(Int) : RestStep(p[1], p[2]) \in Seq(Int)
  <2> SUFFICES ASSUME NEW p \in (Nat \ {0}) \X Seq(Int) PROVE RestStep(p[1], p[2]) \in Seq(Int)
    OBVIOUS
  <2>1. p[1] \in Nat /\ p[2] \in Seq(Int)
    OBVIOUS
  <2>2. <<(IF p[1] < 128 THEN 0 ELSE 128) + (p[1] % 128)>> \in Seq(Int)
    BY <2>1
  <2> QED BY <2>1, <2>2 DEF RestStep
<1>3. Recursion(Seq(Int), <<>>, prev, step)
  <2>1. prev \in [Nat \ {0} -> Nat] /\ \A n \in Nat \ {0} : prev[n] < n
    BY <1>1
  <2>2. step \in [(Nat \ {0}) \X Seq(Int) -> Seq(Int)]
    BY <1>2
  <2> HIDE DEF prev, step
  <2> QED BY <2>1, <2>2 DEF Recursion
<1>4. PICK g \in [Nat -> Seq(Int)] : \A n \in Nat : g[n] = ValueAt(<<>>, prev, step, g, n)
  <2> HIDE DEF prev, step
  <2> QED BY <1>3, RecursionExists
<1>5. ASSUME NEW n \in Nat PROVE g[n] = RestBody(g, n)
  <2>1. CASE n = 0
    BY <1>4, <2>1 DEF ValueAt, RestBody
  <2>2. CASE n # 0
    <3>1. prev[n] = n \div 128 /\ n \div 128 \in Nat
      BY <1>1, <2>2
    <3>2. g[n \div 128] \in Seq(Int)
      BY <3>1
    <3>3. <<n, g[n \div 128]>> \in (Nat \ {0}) \X Seq(Int)
      BY <2>2, <3>2
    <3>4. step[<<n, g[n \div 128]>>] = RestStep(n, g[n \div 128])
      BY <3>3
    <3>5. g[n] = step[<<n, g[prev[n]]>>]
      <4> HIDE DEF prev, step
      <4> QED BY <1>4, <2>2 DEF ValueAt
    <3>6. g[n] = RestStep(n, g[n \div 128])
      <4> HIDE DEF step
      <4> QED BY <3>1, <3>4, <3>5
    <3> QED BY <2>2, <3>6 DEF RestBody, RestStep
  <2> QED BY <2>1, <2>2
<1>6. g = [n \in Nat |-> RestBody(g, n)]
  BY <1>5
<1> QED BY <1>6

(* A byte and a byte make two bytes.                                       *)
LEMMA TwoCells ==
  ASSUME NEW x \in Int, NEW y \in Int
  PROVE  <<x>> \o <<y>> = <<x, y>>
<1> DEFINE s == <<x>> \o <<y>>
           t == <<x, y>>
<1>1. s \in Seq(Int) /\ Len(s) = 2
  OBVIOUS
<1>2. t \in Seq(Int) /\ Len(t) = 2 /\ t[1] = x /\ t[2] = y
  OBVIOUS
<1>3. s[1] = x /\ s[2] = y
  OBVIOUS
<1> HIDE DEF s, t
<1>4. \A i \in 1..Len(s) : s[i] = t[i]
  <2> SUFFICES ASSUME NEW i \in 1..2 PROVE s[i] = t[i]
    BY <1>1
  <2>1. i = 1 \/ i = 2
    OBVIOUS
  <2> QED BY <1>2, <1>3, <2>1
<1>5. s = t
  BY <1>1, <1>2, <1>4, SeqEqual
<1> QED BY <1>5 DEF s, t

(* EncodeUnsignedVarint of a length up to 1024: one byte or two.           *)
LEMMA EasyVarint ==
  ASSUME NEW val \in 0..1024
  PROVE  /\ val < 32 => EncodeUnsignedVarint(val) = <<64 + val>>
         /\ val >= 32 => EncodeUnsignedVarint(val) = <<96 + (val % 32), val \div 32>>
<1> DEFINE rest == CHOOSE g : g = [n \in Nat |-> RestBody(g, n)]
<1>1. EncodeUnsignedVarint(val) = <<64 + (IF val < 32 THEN 0 ELSE 32) + (val % 32)>> \o rest[val \div 32]
  BY ZenonT(60) DEF EncodeUnsignedVarint, RestBody
<1>2. rest = [n \in Nat |-> RestBody(rest, n)]
  BY RestExists
<1> HIDE DEF rest
<1>3. rest[0] = <<>>
  BY <1>2 DEF RestBody
<1>4. ASSUME NEW v \in 1..32 PROVE rest[v] = <<v>>
  <2>1. v \div 128 = 0 /\ v % 128 = v /\ v < 128 /\ v # 0 /\ v \in Nat
    OBVIOUS
  <2>2. rest[v] = <<(IF v < 128 THEN 0 ELSE 128) + (v % 128)>> \o rest[v \div 128]
    BY <1>2, <2>1, ZenonT(60) DEF RestBody
  <2>4. (IF v < 128 THEN 0 ELSE 128) + (v % 128) = v
    BY <2>1
  <2>3. rest[v] = <<v>> \o <<>>
    BY <1>3, <2>1, <2>2, <2>4, ZenonT(60)
  <2> QED BY <2>3
<1>5. CASE val < 32
  <2>1. val \div 32 = 0 /\ val % 32 = val
    BY <1>5
  <2>3. 64 + (IF val < 32 THEN 0 ELSE 32) + (val % 32) = 64 + val
    BY <1>5, <2>1
  <2>2. EncodeUnsignedVarint(val) = <<64 + val>> \o <<>>
    BY <1>1, <1>3, <2>1, <2>3, ZenonT(60)
  <2> QED BY <1>5, <2>2
<1>6. CASE val >= 32
  <2>1. val \div 32 \in 1..32 /\ val % 32 \in 0..31
    BY <1>6
  <2>3. 64 + (IF val < 32 THEN 0 ELSE 32) + (val % 32) = 96 + (val % 32)
    BY <1>6, <2>1
  <2>4. rest[val \div 32] = <<val \div 32>>
    BY <1>4, <2>1, ZenonT(60)
  <2>2. EncodeUnsignedVarint(val) = <<96 + (val % 32)>> \o <<val \div 32>>
    BY <1>1, <2>3, <2>4, ZenonT(60)
  <2> DEFINE x == 96 + (val % 32)
             y == val \div 32
  <2>6. x \in Int /\ y \in Int
    BY <2>1
  <2> HIDE DEF x, y
  <2>5. <<x>> \o <<y>> = <<x, y>>
    BY <2>6, TwoCells
  <2> QED BY <1>6, <2>2, <2>5 DEF x, y
<1> QED BY <1>5, <1>6

(* Its length, and what a reader finds.                                    *)
LEMMA EasyVarintRead ==
  ASSUME NEW val \in 0..1024
  PROVE  /\ Len(EncodeUnsignedVarint(val)) \in 1..2
         /\ val < 32 => Len(EncodeUnsignedVarint(val)) = 1
         /\ ReadLength(EncodeUnsignedVarint(val)) = [val |-> val, bytes |-> Len(EncodeUnsignedVarint(val))]
<1>1. CASE val < 32
  <2> DEFINE b == EncodeUnsignedVarint(val)
  <2>1. b = <<64 + val>>
    BY <1>1, EasyVarint, ZenonT(60)
  <2> HIDE DEF b
  <2>2. Len(b) = 1 /\ b[1] = 64 + val
    BY <2>1
  <2>3. (b[1] \div 32) % 2 = 0 /\ b[1] % 32 = val
    BY <1>1, <2>2
  <2> QED BY <1>1, <2>2, <2>3 DEF ReadLength, b
<1>2. CASE val >= 32
  <2> DEFINE b == EncodeUnsignedVarint(val)
  <2>1. b = <<96 + (val % 32), val \div 32>>
    BY <1>2, EasyVarint, ZenonT(60)
  <2> HIDE DEF b
  <2>2. Len(b) = 2 /\ b[1] = 96 + (val % 32) /\ b[2] = val \div 32
    BY <2>1
  <2>3. (b[1] \div 32) % 2 # 0 /\ (b[1] % 32) + 32 * (b[2] % 128) = val
    BY <1>2, <2>2
  <2> QED BY <1>2, <2>2, <2>3 DEF ReadLength, b
<1> QED BY <1>1, <1>2

(* An offset from the one before it.                                       *)
OffsetBody(pieces, at, n) == IF n = 0 THEN 0 ELSE at[n - 1] + pieces[n].size

(* AppendHeader to AppendStringParam: valid data always finds room.        *)
LEMMA PiecesFit ==
  ASSUME NEW data \in 0..1024
  PROVE  /\ Overflowing(Pieces(EncodeUnsignedVarint(data), data)) = {}
         /\ Offsets(Pieces(EncodeUnsignedVarint(data), data))[8] <= EVENT_BUFF_LEN
<1> DEFINE pieces == Pieces(EncodeUnsignedVarint(data), data)
           k == Len(EncodeUnsignedVarint(data))
           sum == [n \in 0..8 |-> IF n = 0 THEN 0 ELSE IF n = 1 THEN 4 ELSE IF n = 2 THEN 84
                     ELSE IF n = 3 THEN 88 ELSE IF n = 4 THEN 89 ELSE IF n = 5 THEN 93
                     ELSE IF n = 6 THEN 94 ELSE IF n = 7 THEN 94 + k ELSE 94 + k + data]
<1>1. k \in 1..2 /\ Len(EncodeUnsignedVarint(KEY_LENGTH)) = 1
  <2>1. 4 \in 0..1024 /\ 4 < 32
    OBVIOUS
  <2>2. Len(EncodeUnsignedVarint(4)) = 1
    BY <2>1, EasyVarintRead, ZenonT(60)
  <2>3. k \in 1..2
    BY EasyVarintRead, ZenonT(60)
  <2> QED BY <2>2, <2>3 DEF KEY_LENGTH
<1> HIDE DEF k
<1>11. HEADER_SIZE = 80
  BY DEF HEADER_SIZE, MAX_DOMAIN_LENGTH, MAX_EVENT_NAME_LENGTH
<1>2. /\ Len(pieces) = 8
      /\ pieces[1].size = 4 /\ pieces[2].size = 80 /\ pieces[3].size = 4 /\ pieces[4].size = 1
      /\ pieces[5].size = 4 /\ pieces[6].size = 1 /\ pieces[7].size = k /\ pieces[8].size = data
  <2> DEFINE l == Len(EncodeUnsignedVarint(KEY_LENGTH))
             h == HEADER_SIZE
  <2>1. pieces = <<Piece(4, "none"), Piece(h, "ERR_MEM_OPT_FAILED"), Piece(4, "ERR_EVENT_BUF_INVALID"),
                   Piece(l, "ERR_ENCODE_STR_FAILED"), Piece(KEY_LENGTH, "ERR_ENCODE_STR_FAILED"),
                   Piece(1, "ERR_ENCODE_VALUE_TYPE_FAILED"), Piece(k, "ERR_ENCODE_STR_FAILED"),
                   Piece(data, "ERR_ENCODE_STR_FAILED")>>
    BY DEF Pieces, k
  <2>2. l = 1 /\ h = 80 /\ KEY_LENGTH = 4
    BY <1>1, <1>11 DEF KEY_LENGTH
  <2> HIDE DEF pieces, l, h
  <2> QED BY <2>1, <2>2 DEF Piece
<1> HIDE DEF pieces
<1>3. \A n \in 0..8 : sum[n] = OffsetBody(pieces, sum, n)
  <2> SUFFICES ASSUME NEW n \in 0..8 PROVE sum[n] = OffsetBody(pieces, sum, n)
    OBVIOUS
  <2>1. n = 0 \/ n = 1 \/ n = 2 \/ n = 3 \/ n = 4 \/ n = 5 \/ n = 6 \/ n = 7 \/ n = 8
    OBVIOUS
  <2> QED BY <1>1, <1>2, <2>1 DEF OffsetBody
<1>4. sum = [n \in 0..8 |-> OffsetBody(pieces, sum, n)]
  BY <1>3
<1> HIDE DEF sum
<1>5. Offsets(pieces) = CHOOSE at : at = [n \in 0..8 |-> OffsetBody(pieces, at, n)]
  BY <1>2 DEF Offsets, OffsetBody
<1>6. Offsets(pieces) = [n \in 0..8 |-> OffsetBody(pieces, Offsets(pieces), n)]
  BY <1>4, <1>5
<1>7. /\ Offsets(pieces)[0] = 0
      /\ \A n \in 1..8 : Offsets(pieces)[n] = Offsets(pieces)[n - 1] + pieces[n].size
  BY <1>6 DEF OffsetBody
<1>8. /\ Offsets(pieces)[1] = 4 /\ Offsets(pieces)[2] = 84 /\ Offsets(pieces)[3] = 88
      /\ Offsets(pieces)[4] = 89 /\ Offsets(pieces)[5] = 93 /\ Offsets(pieces)[6] = 94
      /\ Offsets(pieces)[7] = 94 + k /\ Offsets(pieces)[8] = 94 + k + data
  <2>1. Offsets(pieces)[1] = 4
    BY <1>2, <1>7
  <2>2. Offsets(pieces)[2] = 84
    BY <1>2, <1>7, <2>1
  <2>3. Offsets(pieces)[3] = 88
    BY <1>2, <1>7, <2>2
  <2>4. Offsets(pieces)[4] = 89
    BY <1>2, <1>7, <2>3
  <2>5. Offsets(pieces)[5] = 93
    BY <1>2, <1>7, <2>4
  <2>6. Offsets(pieces)[6] = 94
    BY <1>2, <1>7, <2>5
  <2>7. Offsets(pieces)[7] = 94 + k
    BY <1>2, <1>7, <2>6
  <2>8. Offsets(pieces)[8] = 94 + k + data
    BY <1>2, <1>7, <2>7
  <2> QED BY <2>1, <2>2, <2>3, <2>4, <2>5, <2>6, <2>7, <2>8
<1>9. \A n \in 1..8 : Offsets(pieces)[n] <= EVENT_BUFF_LEN
  <2> SUFFICES ASSUME NEW n \in 1..8 PROVE Offsets(pieces)[n] <= EVENT_BUFF_LEN
    OBVIOUS
  <2>1. n = 1 \/ n = 2 \/ n = 3 \/ n = 4 \/ n = 5 \/ n = 6 \/ n = 7 \/ n = 8
    OBVIOUS
  <2> QED BY <1>1, <1>8, <2>1 DEF EVENT_BUFF_LEN
<1>10. Overflowing(pieces) = {}
  <2> SUFFICES ASSUME NEW n \in 1..8, Offsets(pieces)[n] > EVENT_BUFF_LEN PROVE FALSE
    BY <1>2 DEF Overflowing
  <2> QED BY <1>1, <1>8, <1>9 DEF EVENT_BUFF_LEN
<1> QED BY <1>9, <1>10 DEF pieces
-----------------------------------------------------------------------------
(* The attempts end at the first that is not to be repeated.               *)
LEMMA AttemptsUpTo ==
  ASSUME NEW sends
  PROVE  /\ Attempts(sends) \in 1..3
         /\ \A i \in 1..(Attempts(sends) - 1) : sends[i] \in RetryErrors
         /\ Attempts(sends) < 3 => sends[Attempts(sends)] \notin RetryErrors
         /\ sends[1] \notin RetryErrors => Attempts(sends) = 1
         /\ sends[2] \notin RetryErrors => Attempts(sends) <= 2
<1> DEFINE S == {n \in 1..3 : sends[n] \notin RetryErrors} \cup {3}
           n == CHOOSE n \in S : \A m \in S : n <= m
<1>1. Attempts(sends) = n
  BY DEF Attempts, FirstOf, RETRY_TIMES
<1>2. S \in SUBSET Nat /\ S # {} /\ S \in SUBSET (1..3)
  OBVIOUS
<1>3. \E k \in S : \A m \in S : k <= m
  <2> HIDE DEF S
  <2> QED BY <1>2, LeastNatural
<1>4. n \in S /\ \A m \in S : n <= m
  <2> HIDE DEF S
  <2> QED BY <1>3
<1>5. n \in 1..3
  BY <1>2, <1>4
<1>6. ASSUME NEW i \in 1..(n - 1) PROVE sends[i] \in RetryErrors
  <2> HIDE DEF n
  <2> SUFFICES ASSUME sends[i] \notin RetryErrors PROVE FALSE
    OBVIOUS
  <2>1. i \in 1..3 /\ i < n
    BY <1>5
  <2>2. i \in S
    BY <2>1
  <2> HIDE DEF S
  <2> QED BY <1>4, <1>5, <2>1, <2>2
<1>7. \A i \in 1..3 : sends[i] \notin RetryErrors => n <= i
  <2> HIDE DEF n
  <2> SUFFICES ASSUME NEW i \in 1..3, sends[i] \notin RetryErrors PROVE n <= i
    OBVIOUS
  <2>1. i \in S
    OBVIOUS
  <2> HIDE DEF S
  <2> QED BY <1>4, <2>1
<1>8. n < 3 => sends[n] \notin RetryErrors
  <2> HIDE DEF n
  <2> QED BY <1>4
<1> HIDE DEF n
<1> QED BY <1>1, <1>5, <1>6, <1>7, <1>8

(* Of the attempts of Write at most the last one sent the event.           *)
LEMMA OnlyLastSent ==
  ASSUME NEW sends
  PROVE  LET n == Attempts(sends)
             gone == Cardinality({i \in 1..n : sends[i] = "sent"})
         IN  /\ sends[n] = "sent" => gone = 1
             /\ sends[n] # "sent" => gone = 0
<1> DEFINE n == Attempts(sends)
           Gone(k) == {i \in 1..k : sends[i] = "sent"}
<1>1. n \in 1..3 /\ \A i \in 1..(n - 1) : sends[i] \in RetryErrors
  BY AttemptsUpTo
<1> HIDE DEF n
<1>2. \A i \in 1..(n - 1) : sends[i] # "sent"
  BY <1>1 DEF RetryErrors
<1>3. sends[n] = "sent" => Gone(n) = {n}
  BY <1>1, <1>2
<1>4. sends[n] # "sent" => Gone(n) = {}
  <2> SUFFICES ASSUME sends[n] # "sent", NEW i \in 1..n, sends[i] = "sent" PROVE FALSE
    OBVIOUS
  <2>1. i \in 1..(n - 1) \/ i = n
    BY <1>1
  <2> QED BY <1>2, <2>1
<1>5. Cardinality({n}) = 1 /\ Cardinality({}) = 0
  BY FS_EmptySet, FS_Singleton
<1> QED BY <1>3, <1>4, <1>5 DEF n

(* SUCCESS means that one datagram left, any other code that none did.     *)
LEMMA OneDatagram ==
  ASSUME NEW socket, NEW sends \in [1..3 -> STRING \ {"SUCCESS"}]
  PROVE  LET out == WriteSocket(socket, sends)
             last == sends[Attempts(sends)]
         IN  /\ out.ret = "SUCCESS" => out.sent = 1
             /\ out.ret # "SUCCESS" => out.sent = 0
             /\ socket = "ok" /\ last = "sent" => out.ret = "SUCCESS"
<1> DEFINE n == Attempts(sends)
           gone == Cardinality({i \in 1..n : sends[i] = "sent"})
<1>1. n \in 1..3
  BY AttemptsUpTo
<1>2. sends[n] # "SUCCESS"
  BY <1>1
<1>3. /\ sends[n] = "sent" => gone = 1
      /\ sends[n] # "sent" => gone = 0
  BY OnlyLastSent
<1>4. CASE socket = "no socket"
  BY <1>4 DEF WriteSocket
<1>5. CASE socket = "no option"
  BY <1>5 DEF WriteSocket
<1>6. CASE socket # "no socket" /\ socket # "no option"
  <2>1. WriteSocket(socket, sends) = [ret |-> IF sends[n] = "sent" THEN "SUCCESS" ELSE sends[n], sent |-> gone]
    BY <1>6, ZenonT(60) DEF WriteSocket
  <2> HIDE DEF n, gone
  <2>2. CASE sends[n] = "sent"
    <3>1. WriteSocket(socket, sends) = [ret |-> "SUCCESS", sent |-> 1]
      BY <1>3, <2>1, <2>2
    <3> QED BY <3>1
  <2>3. CASE sends[n] # "sent"
    <3>1. WriteSocket(socket, sends) = [ret |-> sends[n], sent |-> 0]
      BY <1>3, <2>1, <2>3
    <3> QED BY <1>2, <2>3, <3>1 DEF n
  <2> QED BY <2>2, <2>3
<1> QED BY <1>4, <1>5, <1>6

(* A length, or the -1 of NULL.                                            *)
LEMMA TextLength ==
  ASSUME NEW d \in Nat \cup {NoText}
  PROVE  d \in Int /\ (d = -1 \/ d >= 0)
BY DEF NoText

(* The step of HiSysEventEasyWrite, from the check of its arguments to the *)
(* attempts of Write.                                                      *)
LEMMA EasyComplete == WriteEasy => EasyEventIntact'
<1> SUFFICES ASSUME WriteEasy PROVE EasyEventIntact'
  OBVIOUS
<1>1. PICK a \in EasyCalls : call' = [api |-> "easy", args |-> a] /\ answer' = HiSysEventEasyWrite(a)
  BY DEF WriteEasy, Called
<1>2. /\ a.domain \in Nat \cup {NoText} /\ a.name \in Nat \cup {NoText} /\ a.data \in Nat \cup {NoText}
      /\ a.type \in Int
      /\ a.socket \in {"ok", "no socket", "no option"}
      /\ a.sends \in [1..RETRY_TIMES -> STRING \ {"SUCCESS"}]
  BY EasyAssumption
<1> DEFINE valid == /\ a.domain \in 0..16 /\ a.name \in 0..32 /\ LowByte(a.type) \in 1..4
                    /\ a.data \in 0..1024
           out == WriteSocket(a.socket, a.sends)
           head == HeaderPid(a.gPid, a.procPid, a.getpid)
           e == EasyEvent(a.domain, a.name, a.type, a.data, head.pid)
<1>8. LowByte(a.type) \in Int /\ (a.type \in 1..4 => LowByte(a.type) = a.type)
  <2>1. \A n \in Int : n % 256 \in Int /\ (n \in 1..4 => n % 256 = n)
    OBVIOUS
  <2>2. a.type \in Int
    BY <1>2, Zenon
  <2> QED BY <2>1, <2>2, Zenon DEF LowByte
<1>3. /\ out.ret = "SUCCESS" => out.sent = 1
      /\ out.ret # "SUCCESS" => out.sent = 0
      /\ a.socket = "ok" /\ a.sends[Attempts(a.sends)] = "sent" => out.ret = "SUCCESS"
  BY <1>2, OneDatagram DEF RETRY_TIMES
<1>4. (CheckArgs(a.domain, a.name, a.type, a.data) = "none") = (a.domain \in 0..16 /\ a.name \in 0..32 /\ LowByte(a.type) \in 1..4)
  <2>1. /\ a.domain \in Int /\ (a.domain = -1 \/ a.domain >= 0)
        /\ a.name \in Int /\ (a.name = -1 \/ a.name >= 0)
    BY <1>2, TextLength, ZenonT(60)
  <2> DEFINE good == a.domain \in 0..16 /\ a.name \in 0..32 /\ LowByte(a.type) \in 1..4
  <2>2. good => CheckArgs(a.domain, a.name, a.type, a.data) = "none"
    BY <2>1 DEF CheckArgs, Fits, NoText, MAX_DOMAIN_LENGTH, MAX_EVENT_NAME_LENGTH
  <2>3. CASE ~good
    <3>1. \/ a.domain = -1 \/ a.domain > 16 \/ a.name = -1 \/ a.name > 32 \/ LowByte(a.type) \notin 1..4
      BY <2>1, <2>3
    <3> QED BY <2>3, <3>1 DEF CheckArgs, Fits, NoText, MAX_DOMAIN_LENGTH, MAX_EVENT_NAME_LENGTH
  <2> QED BY <2>2, <2>3
<1>5. /\ a.data \in 0..1024 => BuildError(a.data) = "none"
      /\ a.data \notin 0..1024 => BuildError(a.data) = "ERR_PARAM_VALUE_INVALID"
  <2> DEFINE d == a.data
             pieces == Pieces(EncodeUnsignedVarint(d), d)
  <2>1. BuildError(d) = IF d = -1 \/ d > 1024 THEN "ERR_PARAM_VALUE_INVALID"
                        ELSE IF Overflowing(pieces) = {} THEN "none"
                        ELSE pieces[FirstOf(Overflowing(pieces))].err
    BY ZenonT(60) DEF BuildError, NoText, DATA_MAX_LEN
  <2>2. d \in 0..1024 => Overflowing(pieces) = {}
    BY PiecesFit, ZenonT(60)
  <2>3. d \in Int /\ (d = -1 \/ d >= 0)
    BY <1>2, TextLength, ZenonT(60)
  <2> HIDE DEF d, pieces
  <2>4. d \in 0..1024 => BuildError(d) = "none"
    <3> SUFFICES ASSUME d \in 0..1024 PROVE BuildError(d) = "none"
      OBVIOUS
    <3>1. ~(d = -1 \/ d > 1024)
      BY <2>3
    <3> QED BY <2>1, <2>2, <3>1, ZenonT(60)
  <2>5. d \notin 0..1024 => BuildError(d) = "ERR_PARAM_VALUE_INVALID"
    <3> SUFFICES ASSUME d \notin 0..1024 PROVE BuildError(d) = "ERR_PARAM_VALUE_INVALID"
      OBVIOUS
    <3>1. d = -1 \/ d > 1024
      BY <2>3
    <3> QED BY <2>1, <3>1, ZenonT(60)
  <2> QED BY <2>4, <2>5 DEF d
<1>6. CASE ~valid
  <2>1. \/ CheckArgs(a.domain, a.name, a.type, a.data) # "none"
        \/ BuildError(a.data) # "none"
    BY <1>4, <1>5, <1>6
  <2>2. answer'.datagrams = <<>> /\ answer'.ret # "SUCCESS"
    <3>1. CASE CheckArgs(a.domain, a.name, a.type, a.data) # "none"
      BY <1>1, <3>1 DEF HiSysEventEasyWrite, CheckArgs
    <3>2. CASE CheckArgs(a.domain, a.name, a.type, a.data) = "none"
      <4>1. answer'.datagrams = <<>> /\ answer'.ret = BuildError(a.data)
        BY <1>1, <2>1, <3>2 DEF HiSysEventEasyWrite
      <4>2. BuildError(a.data) = "ERR_PARAM_VALUE_INVALID"
        BY <1>4, <1>5, <1>6, <3>2
      <4> QED BY <4>1, <4>2
    <3> QED BY <3>1, <3>2
  <2>3. ~(a.domain \in 0..16 /\ a.name \in 0..32 /\ a.data \in 0..1024 /\ a.type \in 1..4)
    BY <1>6, <1>8
  <2> QED BY <1>1, <2>2, <2>3 DEF EasyEventIntact, EasyIntact
<1>7. CASE valid
  <2>1. answer' = [ret |-> out.ret, gPid |-> head.gPid, datagrams |-> [i \in 1..out.sent |-> e]]
    BY <1>1, <1>4, <1>5, <1>7 DEF HiSysEventEasyWrite
  <2>2. a.socket = "ok" /\ (\A i \in 1..3 : a.sends[i] = "sent") => out.ret = "SUCCESS"
    <3>1. Attempts(a.sends) \in 1..3
      BY AttemptsUpTo
    <3> QED BY <1>3, <3>1
  <2>3. a.socket = "ok" /\ a.sends[1] \in RetryErrors /\ a.sends[2] = "sent" => out.ret = "SUCCESS"
    <3> SUFFICES ASSUME a.socket = "ok", a.sends[1] \in RetryErrors, a.sends[2] = "sent"
                 PROVE  a.sends[Attempts(a.sends)] = "sent"
      BY <1>3
    <3>1. "sent" \notin RetryErrors
      BY DEF RetryErrors
    <3>2. Attempts(a.sends) \in 1..3 /\ Attempts(a.sends) <= 2
      BY <3>1, AttemptsUpTo
    <3>3. Attempts(a.sends) # 1
      BY AttemptsUpTo
    <3> QED BY <3>2, <3>3
  <2>4. /\ e.domain = a.domain /\ e.name = a.name /\ e.data = a.data
        /\ e.type + 1 \in 1..4 /\ e.type + 1 = a.type % 256
        /\ e.used <= e.blockSize
        /\ ReadLength(e.dataBytes) = [val |-> a.data, bytes |-> Len(e.dataBytes)]
        /\ ReadLength(e.keyBytes) = [val |-> 4, bytes |-> 1]
        /\ a.gPid \in {INVALID_PID, a.getpid} /\ a.procPid \in {INVALID_PID, a.getpid}
             => e.pid = a.getpid
    <3>1. e.domain = a.domain /\ e.name = a.name /\ e.data = a.data /\ e.type = (LowByte(a.type) - 1) % 4
          /\ e.dataBytes = EncodeUnsignedVarint(a.data) /\ e.keyBytes = EncodeUnsignedVarint(4)
          /\ e.pid = head.pid /\ e.blockSize = EVENT_BUFF_LEN
          /\ e.used = Offsets(Pieces(EncodeUnsignedVarint(a.data), a.data))[8]
      BY DEF EasyEvent, KEY_LENGTH
    <3>2. /\ ((LowByte(a.type) - 1) % 4) + 1 = a.type % 256
          /\ ((LowByte(a.type) - 1) % 4) + 1 \in 1..4
      BY <1>7, <1>8 DEF LowByte
    <3>3. e.used <= e.blockSize
      BY <1>7, <3>1, PiecesFit, ZenonT(60)
    <3>4. ReadLength(e.dataBytes) = [val |-> a.data, bytes |-> Len(e.dataBytes)]
      BY <1>7, <3>1, EasyVarintRead, ZenonT(60)
    <3>5. ReadLength(e.keyBytes) = [val |-> 4, bytes |-> 1]
      <4>1. 4 \in 0..1024 /\ 4 < 32
        OBVIOUS
      <4> QED BY <3>1, <4>1, EasyVarintRead, ZenonT(60)
    <3>6. a.gPid \in {INVALID_PID, a.getpid} /\ a.procPid \in {INVALID_PID, a.getpid}
            => head.pid = a.getpid
      BY DEF HeaderPid
    <3> QED BY <3>1, <3>2, <3>3, <3>4, <3>5, <3>6
  <2> HIDE DEF e, out, head
  <2>5. CASE out.ret = "SUCCESS"
    <3>1. answer'.ret = "SUCCESS" /\ answer'.datagrams = <<e>>
      BY <1>3, <2>1, <2>5
    <3> QED BY <1>1, <1>7, <2>4, <3>1 DEF EasyEventIntact, EasyIntact
  <2>6. CASE out.ret # "SUCCESS"
    <3>1. answer'.ret # "SUCCESS" /\ answer'.datagrams = <<>>
      BY <1>3, <2>1, <2>6
    <3> QED BY <1>1, <1>7, <2>2, <2>3, <2>6, <3>1 DEF EasyEventIntact, EasyIntact
  <2> QED BY <2>5, <2>6
<1> QED BY <1>6, <1>7
-----------------------------------------------------------------------------
(* A value that CreateHiSysEventInfoJsObject and its ArkTS counterpart     *)
(* show.                                                                   *)
Valued(j) == j.type \notin {"null", "object"}

(* A number of JSON in halves.                                             *)
LEMMA HalvesAreInt == ASSUME NEW j, Typed(j), IsNumeric(j) PROVE Halves(j) \in Int
<1>1. j.val \in Int
  BY DEF Typed
<1> QED BY <1>1 DEF Halves

(* The double nearest to a number is the number or at most one whole away  *)
(* from it, beyond DoubleExact.                                            *)
LEMMA NearestIsNear ==
  ASSUME NEW n \in Int, NEW e \in Nat, e = DoubleExact
  PROVE  /\ NearestDouble(n) \in Int
         /\ NearestDouble(n) = n \/ (Abs(n) > 2 * e /\ Abs(NearestDouble(n) - n) <= 2)
<1> DEFINE a == Abs(n)
           low == 4 * (a \div 4)
           rest == a - low
           up == rest = 3 \/ (rest = 2 /\ low % 8 # 0)
           size == IF up THEN low + 4 ELSE low
<1>1. a \in Nat /\ (n >= 0 => a = n) /\ (n < 0 => a = -n)
  BY DEF Abs
<1>2. NearestDouble(n) = IF a <= 2 * e THEN n ELSE IF n < 0 THEN -size ELSE size
  BY DEF NearestDouble
<1>3. low \in Nat /\ rest \in 0..3
  BY <1>1
<1>4. size \in Nat /\ size - a <= 2 /\ a - size <= 2
  <2> HIDE DEF a, low
  <2> QED BY <1>1, <1>3
<1> HIDE DEF a, size
<1>5. CASE a <= 2 * e
  BY <1>2, <1>5
<1>6. CASE ~(a <= 2 * e) /\ n >= 0
  <2>1. NearestDouble(n) = size
    BY <1>2, <1>6
  <2>2. Abs(size - n) <= 2
    BY <1>1, <1>4, <1>6 DEF Abs
  <2> QED BY <1>1, <1>4, <1>6, <2>1, <2>2 DEF a
<1>7. CASE ~(a <= 2 * e) /\ n < 0
  <2>1. NearestDouble(n) = -size
    BY <1>2, <1>7
  <2>2. Abs((-size) - n) <= 2
    BY <1>1, <1>4, <1>7 DEF Abs
  <2> QED BY <1>1, <1>4, <1>7, <2>1, <2>2 DEF a
<1> QED BY <1>5, <1>6, <1>7

(* The item of the script is what the JSON says.                           *)
LEMMA JsItemShows ==
  ASSUME NEW j, Typed(j), j.type # "array", Valued(j)
  PROVE  \E js : CreateJsItem(j) = {js} /\ ShowsItem(js, j, FALSE) /\ ShowsItem(js, j, TRUE)
<1>1. CASE j.type = "bool"
  <2> DEFINE js == Js("boolean", j.val)
  <2>1. CreateJsItem(j) = {js}
    BY <1>1 DEF CreateJsItem, IsNumeric
  <2>2. ShowsItem(js, j, FALSE) /\ ShowsItem(js, j, TRUE)
    BY <1>1 DEF ShowsItem, Js, IsNumeric
  <2> QED BY <2>1, <2>2
<1>2. CASE j.type = "string"
  <2> DEFINE js == Js("string", j.val)
  <2>1. CreateJsItem(j) = {js}
    BY <1>2 DEF CreateJsItem, IsNumeric
  <2>2. ShowsItem(js, j, FALSE) /\ ShowsItem(js, j, TRUE)
    BY <1>2 DEF ShowsItem, Js, IsNumeric
  <2> QED BY <2>1, <2>2
<1>3. CASE IsNumeric(j)
  <2> DEFINE h == Halves(j)
  <2>1. h \in Int
    BY <1>3, HalvesAreInt
  <2>2. j.type # "bool" /\ j.type # "string"
    BY <1>3 DEF IsNumeric
  <2>3. CreateJsItem(j) = {Js("number", h)} \/ (CreateJsItem(j) = {Js("bigint", h \div 2)} /\ IsWhole(h))
    <3>1. IsInt64(j) \/ IsUInt64(j) => IsWhole(h)
      BY DEF IsInt64, IsUInt64
    <3> QED BY <1>3, <2>2, <3>1 DEF CreateJsItem
  <2> HIDE DEF h
  <2>4. CASE CreateJsItem(j) = {Js("number", h)}
    <3> DEFINE js == Js("number", h)
    <3>1. ScriptNumber(js) = h /\ js.type = "number"
      BY DEF ScriptNumber, Js
    <3>2. ShowsItem(js, j, FALSE) /\ ShowsItem(js, j, TRUE)
      BY <1>3, <2>2, <3>1 DEF ShowsItem, h
    <3> QED BY <2>4, <3>2
  <2>5. CASE CreateJsItem(j) = {Js("bigint", h \div 2)} /\ IsWhole(h)
    <3> DEFINE js == Js("bigint", h \div 2)
    <3>1. js.type = "bigint" /\ ScriptNumber(js) = 2 * (h \div 2)
      BY DEF ScriptNumber, Js
    <3>2. 2 * (h \div 2) = h
      BY <2>1, <2>5 DEF IsWhole
    <3>3. ShowsItem(js, j, FALSE) /\ ShowsItem(js, j, TRUE)
      BY <1>3, <2>2, <3>1, <3>2 DEF ShowsItem, h
    <3> QED BY <2>5, <3>3
  <2> QED BY <2>3, <2>4, <2>5
<1> QED BY <1>1, <1>2, <1>3 DEF Typed, JsonKinds, Valued, IsNumeric

(* The same for the ArkTS interface, which makes a double of every number. *)
LEMMA AniItemShows ==
  ASSUME NEW j, Typed(j), j.type # "array", Valued(j)
  PROVE  \E js : CreateAniItem(j) = {js} /\ ShowsItem(js, j, TRUE)
<1>1. CASE ~IsNumeric(j)
  BY <1>1, JsItemShows DEF CreateAniItem
<1>2. CASE IsNumeric(j)
  <2> DEFINE h == Halves(j)
             js == Js("number", NearestDouble(h))
  <2>1. h \in Int
    BY <1>2, HalvesAreInt
  <2>2. j.type # "bool" /\ j.type # "string"
    BY <1>2 DEF IsNumeric
  <2>3. CreateAniItem(j) = {js}
    BY <1>2 DEF CreateAniItem, CreateAniDouble
  <2>4. ScriptNumber(js) = NearestDouble(h) /\ js.type = "number"
    BY DEF ScriptNumber, Js
  <2>5. NearestDouble(h) = h \/ (Abs(h) > 2 * DoubleExact /\ Abs(NearestDouble(h) - h) <= 2)
    BY <2>1, JsonAssumption, NearestIsNear
  <2> HIDE DEF js
  <2>6. ShowsItem(js, j, TRUE)
    BY <1>2, <2>2, <2>4, <2>5 DEF ShowsItem
  <2> QED BY <2>3, <2>6
<1> QED BY <1>1, <1>2

(* An item without a value is undefined.                                   *)
LEMMA ItemUndefined ==
  ASSUME NEW j, j.type = "array" \/ ~Valued(j), NEW ani
  PROVE  /\ CreateJsItem(j) = {} /\ CreateAniItem(j) = {}
         /\ ShowsItem(Js("undefined", 0), j, ani)
<1>1. j.type \notin {"bool", "string", "int", "uint", "real"}
  BY DEF Valued
<1> QED BY <1>1 DEF CreateJsItem, CreateAniItem, ShowsItem, IsNumeric, Js

(* CreateJsItem and JsOfJson, or their ArkTS counterparts.                 *)
ItemsOf(j, ani) == IF ani THEN CreateAniItem(j) ELSE CreateJsItem(j)
OfJson(j, ani) == IF ani THEN AniOfJson(j) ELSE JsOfJson(j)

(* An element of an array shows what the JSON says.                        *)
LEMMA ItemShows ==
  ASSUME NEW j, Typed(j), NEW ani \in BOOLEAN
  PROVE  ShowsItem(ArrayItem(ItemsOf(j, ani)), j, ani)
<1>1. CASE j.type = "array" \/ ~Valued(j)
  <2>1. ItemsOf(j, ani) = {}
    BY <1>1, ItemUndefined DEF ItemsOf
  <2>2. ArrayItem(ItemsOf(j, ani)) = Js("undefined", 0)
    BY <2>1 DEF ArrayItem
  <2> QED BY <1>1, <2>2, ItemUndefined
<1>2. CASE j.type # "array" /\ Valued(j)
  <2>1. PICK js : ItemsOf(j, ani) = {js} /\ ShowsItem(js, j, ani)
    <3>1. CASE ani
      BY <1>2, <3>1, AniItemShows, Zenon DEF ItemsOf
    <3>2. CASE ~ani
      BY <1>2, <3>2, JsItemShows, Zenon DEF ItemsOf
    <3> QED BY <3>1, <3>2
  <2>2. ArrayItem(ItemsOf(j, ani)) = js
    BY <2>1 DEF ArrayItem
  <2> QED BY <2>1, <2>2
<1> QED BY <1>1, <1>2

(* So does a parameter, which is shown exactly if it has a value.          *)
LEMMA ValueShows ==
  ASSUME NEW j \in JsonValues, NEW ani \in BOOLEAN
  PROVE  /\ OfJson(j, ani) # {} <=> Valued(j)
         /\ Valued(j) => ShowsValue(CHOOSE js \in OfJson(j, ani) : TRUE, j, ani)
<1>1. Typed(j)
  BY JsonAssumption
<1>2. CASE j.type = "array"
  <2> DEFINE items == [i \in 1..Len(j.val) |-> ArrayItem(ItemsOf(j.val[i], ani))]
  <2>1. OfJson(j, ani) = {Js("array", items)}
    BY <1>2 DEF OfJson, ItemsOf, AniOfJson, JsOfJson
  <2>2. j.val \in Seq(JsonValues) /\ Len(j.val) \in Nat
    BY <1>1, <1>2 DEF Typed
  <2>3. Len(items) = Len(j.val)
    BY <2>2
  <2>4. \A i \in 1..Len(j.val) : ShowsItem(items[i], j.val[i], ani)
    BY <2>2, JsonAssumption, ItemShows
  <2> HIDE DEF items
  <2>5. (CHOOSE js \in OfJson(j, ani) : TRUE) = Js("array", items)
    BY <2>1
  <2>6. ShowsValue(Js("array", items), j, ani)
    BY <1>2, <2>3, <2>4 DEF ShowsValue, Js
  <2> QED BY <1>2, <2>1, <2>5, <2>6 DEF Valued
<1>3. CASE j.type # "array" /\ Valued(j)
  <2>1. PICK js : OfJson(j, ani) = {js} /\ ShowsItem(js, j, ani)
    <3>1. CASE ani
      BY <1>1, <1>3, <3>1, AniItemShows, Zenon DEF OfJson, AniOfJson
    <3>2. CASE ~ani
      BY <1>1, <1>3, <3>2, JsItemShows, Zenon DEF OfJson, JsOfJson
    <3> QED BY <3>1, <3>2
  <2>2. (CHOOSE x \in OfJson(j, ani) : TRUE) = js
    BY <2>1
  <2> QED BY <1>3, <2>1, <2>2 DEF ShowsValue
<1>4. CASE j.type # "array" /\ ~Valued(j)
  BY <1>4, ItemUndefined DEF OfJson, AniOfJson, JsOfJson
<1> QED BY <1>2, <1>3, <1>4
-----------------------------------------------------------------------------
(* The members of an event that is shown.                                  *)
LEMMA ShownMembers ==
  ASSUME NEW members \in Shown
  PROVE  /\ DOMAIN members \ BaseKeys \subseteq {"p", "q"} /\ "p" \in DOMAIN members
         /\ \A k \in DOMAIN members \ BaseKeys : members[k] \in JsonValues
<1>1. CASE \E j \in JsonValues : members = [p |-> j, domain_ |-> Json("string", <<16>>), type_ |-> Json("int", 1)]
  BY <1>1 DEF BaseKeys
<1>2. CASE \E i, j \in JsonScalars : members = [p |-> i, q |-> j, type_ |-> i, name_ |-> j]
  BY <1>2, JsonAssumption DEF BaseKeys
<1> QED BY <1>1, <1>2 DEF Shown

(* The base fields of the object.                                          *)
LEMMA BaseShown ==
  ASSUME NEW members, NEW ani \in BOOLEAN,
         \A k \in DOMAIN members : IsNumeric(members[k]) => Halves(members[k]) \in Int
  PROVE  \A k \in BaseKeys \cap DOMAIN members :
           /\ k \in DOMAIN Base(members, ani) <=> GoodBase(k, members[k])
           /\ k \in DOMAIN Base(members, ani) => ShowsBase(Base(members, ani)[k], k, members[k], ani)
<1>1. \A j : IsNumeric(j) => NumberOf(j) = Halves(j)
  BY DEF IsNumeric, NumberOf
<1> SUFFICES ASSUME NEW k \in BaseKeys \cap DOMAIN members
             PROVE  /\ k \in DOMAIN Base(members, ani) <=> GoodBase(k, members[k])
                    /\ k \in DOMAIN Base(members, ani)
                         => ShowsBase(Base(members, ani)[k], k, members[k], ani)
  OBVIOUS
<1>2. DOMAIN Base(members, ani) = BaseInfo(members)
  BY DEF Base
<1>3. k \in BaseInfo(members) <=> GoodBase(k, members[k])
  BY <1>1 DEF BaseInfo, GoodBase
<1>4. ASSUME k \in BaseInfo(members)
      PROVE  ShowsBase(Base(members, ani)[k], k, members[k], ani)
  <2>1. Base(members, ani)[k] = BaseValue(k, members[k], ani)
    BY <1>4 DEF Base
  <2>2. CASE k # "type_"
    BY <2>1, <2>2 DEF BaseValue, ShowsBase
  <2>3. CASE k = "type_" /\ ~ani
    <3>1. NumberOf(members[k]) = Halves(members[k])
      BY <1>1, <1>3, <1>4, <2>3 DEF GoodBase
    <3> QED BY <2>1, <2>3, <3>1 DEF BaseValue, ShowsBase
  <2>4. CASE k = "type_" /\ ani
    <3> DEFINE n == NumberOf(members[k])
    <3>1. n = Halves(members[k]) /\ n \in Int /\ IsWhole(n)
      BY <1>1, <1>3, <1>4, <2>4 DEF GoodBase
    <3>2. Base(members, ani)[k] = ToAniEnum(n)
      BY <2>1, <2>4, <3>1 DEF BaseValue
    <3> HIDE DEF n
    <3>3. n \in {2, 4, 6, 8} <=> n \div 2 \in 1..4
      BY <3>1 DEF IsWhole
    <3>4. IF n \div 2 \in 1..4 THEN ToAniEnum(n) = Js("enum", n) ELSE ToAniEnum(n).type = "null"
      BY <3>3 DEF ToAniEnum, Js
    <3> QED BY <2>4, <3>2, <3>4 DEF ShowsBase, n
  <2> QED BY <2>2, <2>3, <2>4
<1> QED BY <1>2, <1>3, <1>4

(* The numbers among the members.                                          *)
LEMMA MemberNumbers ==
  ASSUME NEW members \in Shown
  PROVE  \A k \in DOMAIN members : IsNumeric(members[k]) => Halves(members[k]) \in Int
<1>1. \A j \in JsonValues : IsNumeric(j) => Halves(j) \in Int
  BY JsonAssumption, HalvesAreInt
<1>2. Halves(Json("int", 1)) \in Int /\ ~IsNumeric(Json("string", <<16>>))
  BY DEF Halves, Json, IsNumeric
<1>3. CASE \E j \in JsonValues : members = [p |-> j, domain_ |-> Json("string", <<16>>), type_ |-> Json("int", 1)]
  BY <1>1, <1>2, <1>3
<1>4. CASE \E i, j \in JsonScalars : members = [p |-> i, q |-> j, type_ |-> i, name_ |-> j]
  BY <1>1, <1>4, JsonAssumption
<1> QED BY <1>3, <1>4 DEF Shown

(* The step of CreateHiSysEventInfoJsObject.                               *)
LEMMA ShowJsTrue == ShowJs => JsonReachesJs'
<1> SUFFICES ASSUME ShowJs PROVE JsonReachesJs'
  OBVIOUS
<1>1. PICK members \in Shown :
        call' = [api |-> "show", members |-> members, ani |-> FALSE] /\ answer' = JsObject(members)
  BY DEF ShowJs, Called
<1> DEFINE valued == ParamsWithValue(members)
           show == [k \in valued |-> CHOOSE js \in JsOfJson(members[k]) : TRUE]
<1>2. \A k \in DOMAIN members \ BaseKeys : members[k] \in JsonValues
  BY ShownMembers
<1>3. \A j : OfJson(j, FALSE) = JsOfJson(j)
  BY DEF OfJson
<1>4. \A k \in DOMAIN members \ BaseKeys : JsOfJson(members[k]) # {} <=> k \in valued
  BY <1>2, <1>3, ValueShows DEF ParamsWithValue, Valued
<1>5. answer'.base = Base(members, FALSE) /\ answer'.params = Js("object", show)
  <2>1. {k \in DOMAIN members \ BaseKeys : JsOfJson(members[k]) # {}} = valued
    BY <1>4 DEF ParamsWithValue
  <2> HIDE DEF valued
  <2> QED BY <1>1, <2>1 DEF JsObject
<1>6. \A k \in valued : ShowsValue(show[k], members[k], FALSE)
  <2> SUFFICES ASSUME NEW k \in valued PROVE ShowsValue(show[k], members[k], FALSE)
    OBVIOUS
  <2>1. ShowsValue(CHOOSE js \in OfJson(members[k], FALSE) : TRUE, members[k], FALSE)
    BY <1>2, ValueShows DEF ParamsWithValue, Valued
  <2>2. show[k] = CHOOSE js \in OfJson(members[k], FALSE) : TRUE
    BY <1>3
  <2> QED BY <2>1, <2>2
<1>7. \A k \in BaseKeys \cap DOMAIN members :
        /\ k \in DOMAIN answer'.base <=> GoodBase(k, members[k])
        /\ k \in DOMAIN answer'.base => ShowsBase(answer'.base[k], k, members[k], FALSE)
  BY <1>5, BaseShown, MemberNumbers
<1>8. DOMAIN show = valued
  OBVIOUS
<1> HIDE DEF show, valued
<1>9. answer'.params.type = "object" /\ answer'.params.val = show
  BY <1>5 DEF Js
<1> QED BY <1>1, <1>6, <1>7, <1>8, <1>9 DEF JsonReachesJs, valued

(* The step of its ArkTS counterpart: one of the parameters.               *)
LEMMA ShowAniTrue == ShowAni => JsonReachesJs'
<1> SUFFICES ASSUME ShowAni PROVE JsonReachesJs'
  OBVIOUS
<1>1. PICK members \in Shown :
        call' = [api |-> "show", members |-> members, ani |-> TRUE] /\ answer' = AniObject(members, ParamNames)
  BY DEF ShowAni, Called
<1> DEFINE valued == ParamsWithValue(members)
           shown == {i \in 1..Len(ParamNames) :
                       /\ ParamNames[i] \in DOMAIN members \ BaseKeys
                       /\ AniOfJson(members[ParamNames[i]]) # {}}
           last == CHOOSE i \in shown : \A h \in shown : h <= i
           params == IF shown = {} THEN Js("undefined", 0)
                     ELSE CHOOSE js \in AniOfJson(members[ParamNames[last]]) : TRUE
<1>2. /\ \A k \in DOMAIN members \ BaseKeys : members[k] \in JsonValues
      /\ DOMAIN members \ BaseKeys \subseteq {"p", "q"}
  BY ShownMembers
<1>3. \A j : OfJson(j, TRUE) = AniOfJson(j)
  BY DEF OfJson
<1>4. \A k \in DOMAIN members \ BaseKeys : AniOfJson(members[k]) # {} <=> k \in valued
  BY <1>2, <1>3, ValueShows DEF ParamsWithValue, Valued
<1>5. answer'.base = Base(members, TRUE) /\ answer'.params = params
  BY <1>1, Zenon DEF AniObject
<1>6. valued \subseteq DOMAIN members \ BaseKeys
  BY DEF ParamsWithValue
<1>7. \A i \in 1..Len(ParamNames) : i \in shown <=> ParamNames[i] \in valued
  BY <1>4, <1>6
<1>8. Len(ParamNames) = 5 /\ ParamNames[3] = "p" /\ ParamNames[4] = "q"
  BY DEF ParamNames
<1>9. ASSUME valued = {} PROVE answer'.params.type = "undefined"
  <2>1. shown = {}
    BY <1>7, <1>9
  <2>2. answer'.params = Js("undefined", 0)
    BY <1>5, <2>1
  <2> HIDE DEF valued, shown
  <2> QED BY <2>2 DEF Js
<1>10. ASSUME valued # {} PROVE \E k \in valued : ShowsValue(answer'.params, members[k], TRUE)
  <2>1. shown # {}
    <3>1. 3 \in 1..Len(ParamNames) /\ 4 \in 1..Len(ParamNames)
      BY <1>8
    <3>2. "p" \in valued \/ "q" \in valued
      BY <1>2, <1>6, <1>10
    <3> HIDE DEF valued, shown
    <3> QED BY <1>7, <1>8, <3>1, <3>2
  <2>2. shown \subseteq 1..5 /\ shown \in SUBSET Nat
    BY <1>8
  <2>3. last \in shown
    <3> HIDE DEF shown
    <3>1. \E i \in shown : \A h \in shown : h <= i
      BY <2>1, <2>2, GreatestNatural
    <3> QED BY <3>1
  <2> DEFINE k == ParamNames[last]
  <2>4. k \in valued
    BY <1>7, <2>3
  <2>5. answer'.params = CHOOSE js \in OfJson(members[k], TRUE) : TRUE
    <3>1. params = CHOOSE js \in AniOfJson(members[k]) : TRUE
      BY <2>1, Zenon
    <3>2. AniOfJson(members[k]) = OfJson(members[k], TRUE)
      BY <1>3
    <3> HIDE DEF params, k, shown, last
    <3> QED BY <1>5, <3>1, <3>2
  <2> HIDE DEF k, shown, last, params
  <2>6. ShowsValue(CHOOSE js \in OfJson(members[k], TRUE) : TRUE, members[k], TRUE)
    BY <1>2, <2>4, ValueShows DEF ParamsWithValue, Valued
  <2> QED BY <2>4, <2>5, <2>6
<1>11. \A k \in BaseKeys \cap DOMAIN members :
         /\ k \in DOMAIN answer'.base <=> GoodBase(k, members[k])
         /\ k \in DOMAIN answer'.base => ShowsBase(answer'.base[k], k, members[k], TRUE)
  BY <1>5, BaseShown, MemberNumbers
<1> HIDE DEF valued, shown, last, params
<1>12. IF valued = {} THEN answer'.params.type = "undefined"
       ELSE \E k \in valued : ShowsValue(answer'.params, members[k], TRUE)
  BY <1>9, <1>10
<1> QED BY <1>1, <1>11, <1>12 DEF JsonReachesJs, valued
-----------------------------------------------------------------------------
(* The bounds of the 64-bit types.                                         *)
LEMMA Bounds ==
  /\ MinInt64 \in Int /\ MaxInt64 \in Int /\ MaxUInt64 \in Int
  /\ MinInt64 <= -8 /\ MaxInt64 >= 7 /\ MaxUInt64 >= 15
  /\ MaxUInt64 + 1 = 2^Width /\ 2^Width \in Nat
<1> DEFINE p == 2^(Width - 1)
           q == 2^Width
<1>1. p \in Nat /\ q \in Nat /\ q = 2 * p /\ p >= 8
  BY WidthAssumption
<1>2. MinInt64 = -p /\ MaxInt64 = p - 1 /\ MaxUInt64 = q - 1
  BY DEF MinInt64, MaxInt64, MaxUInt64
<1> HIDE DEF p, q
<1>3. /\ MinInt64 \in Int /\ MaxInt64 \in Int /\ MaxUInt64 \in Int
      /\ MinInt64 <= -8 /\ MaxInt64 >= 7 /\ MaxUInt64 >= 15
      /\ MaxUInt64 + 1 = q /\ q \in Nat
  BY <1>1, <1>2
<1> QED BY <1>3 DEF q

(* The number that a JSON number, flag or null stands for.                 *)
LEMMA NumberIsInt ==
  ASSUME NEW j, Typed(j), IsNumber(j)
  PROVE  /\ NumberOf(j) \in Int
         /\ j.type \in {"null", "bool"} => NumberOf(j) \in {0, 2} /\ NumberOf(j) = AsPlainNumber(j)
         /\ j.type \notin {"null", "bool"} => IsNumeric(j) /\ NumberOf(j) = Halves(j)
<1>1. CASE j.type \in {"null", "bool"}
  <2>1. NumberOf(j) = AsPlainNumber(j)
    BY <1>1 DEF NumberOf
  <2>2. AsPlainNumber(j) \in {0, 2}
    BY DEF AsPlainNumber
  <2> QED BY <1>1, <2>1, <2>2
<1>2. CASE j.type \notin {"null", "bool"}
  <2>1. IsNumeric(j)
    BY <1>2 DEF IsNumber, IsNumeric
  <2> QED BY <1>2, <2>1, HalvesAreInt DEF NumberOf
<1> QED BY <1>1, <1>2

(* The filter of a getter lets pass what its type can hold.                *)
LEMMA FilterIsRepresentable ==
  ASSUME NEW j, Typed(j), NEW kind \in Kinds
  PROVE  HasType(kind, j) <=> Representable(kind, j)
<1> USE DEF Kinds
<1>1. IsNumber(j) <=> IsNumeric(j) \/ j.type \in {"null", "bool"}
  BY DEF IsNumber, IsNumeric
<1>2. CASE kind = "double"
  BY <1>1, <1>2 DEF HasType, Representable, IsDoubleValueType
<1>3. CASE kind = "string"
  BY <1>3 DEF HasType, Representable, IsStringValueType, IsNumber
<1>4. CASE kind = "int64"
  <2>1. HasType(kind, j) <=> IsInt64(j) \/ j.type \in {"null", "bool"}
    BY <1>4 DEF HasType, IsInt64ValueType
  <2>2. Representable(kind, j) <=> IsNumber(j) /\ IsWhole(NumberOf(j)) /\ NumberOf(j) \in 2 * MinInt64..2 * MaxInt64
    BY <1>4 DEF Representable
  <2>3. CASE j.type \in {"null", "bool"}
    <3>1. NumberOf(j) \in {0, 2}
      BY <1>1, <2>3, NumberIsInt
    <3>2. IsWhole(NumberOf(j)) /\ NumberOf(j) \in 2 * MinInt64..2 * MaxInt64
      BY <3>1, Bounds DEF IsWhole
    <3> QED BY <1>1, <2>1, <2>2, <2>3, <3>2
  <2>4. CASE j.type \notin {"null", "bool"}
    <3>1. IsInt64(j) <=> IsNumeric(j) /\ IsWhole(Halves(j)) /\ Halves(j) >= 2 * MinInt64 /\ Halves(j) <= 2 * MaxInt64
      BY DEF IsInt64
    <3>2. IsNumeric(j) => NumberOf(j) = Halves(j) /\ NumberOf(j) \in Int
      BY <1>1, <2>4, NumberIsInt
    <3> QED BY <1>1, <2>1, <2>2, <2>4, <3>1, <3>2, Bounds
  <2> QED BY <2>3, <2>4
<1>5. CASE kind = "uint64"
  <2>1. HasType(kind, j) <=> IsUInt64(j) \/ j.type \in {"null", "bool"}
    BY <1>5 DEF HasType, IsUInt64ValueType
  <2>2. Representable(kind, j) <=> IsNumber(j) /\ IsWhole(NumberOf(j)) /\ NumberOf(j) \in 0..2 * MaxUInt64
    BY <1>5 DEF Representable
  <2>3. CASE j.type \in {"null", "bool"}
    <3>1. NumberOf(j) \in {0, 2}
      BY <1>1, <2>3, NumberIsInt
    <3>2. IsWhole(NumberOf(j)) /\ NumberOf(j) \in 0..2 * MaxUInt64
      BY <3>1, Bounds DEF IsWhole
    <3> QED BY <1>1, <2>1, <2>2, <2>3, <3>2
  <2>4. CASE j.type \notin {"null", "bool"}
    <3>1. IsUInt64(j) <=> IsNumeric(j) /\ IsWhole(Halves(j)) /\ Halves(j) >= 0 /\ Halves(j) <= 2 * MaxUInt64
      BY DEF IsUInt64
    <3>2. IsNumeric(j) => NumberOf(j) = Halves(j) /\ NumberOf(j) \in Int
      BY <1>1, <2>4, NumberIsInt
    <3> QED BY <1>1, <2>1, <2>2, <2>4, <3>1, <3>2, Bounds
  <2> QED BY <2>3, <2>4
<1> QED BY <1>2, <1>3, <1>4, <1>5

(* A cast of a real to an integer drops at most half.                      *)
LEMMA TruncatedNear ==
  ASSUME NEW h \in Int
  PROVE  /\ Truncated(h) \in Int
         /\ IsWhole(h) => Truncated(h) = h
         /\ ~IsWhole(h) => Abs(Truncated(h) - h) = 1
<1>1. CASE h >= 0
  <2>1. Truncated(h) = 2 * (h \div 2)
    BY <1>1 DEF Truncated
  <2> QED BY <1>1, <2>1 DEF IsWhole, Abs
<1>2. CASE h < 0
  <2> DEFINE g == -h
  <2>1. Truncated(h) = -(2 * (g \div 2))
    BY <1>2 DEF Truncated
  <2>2. g \in Nat /\ h = -g
    BY <1>2
  <2>3. (h % 2 = 0) <=> (g % 2 = 0)
    BY <2>2
  <2> HIDE DEF g
  <2>4. 2 * (g \div 2) = g - (g % 2) /\ g % 2 \in {0, 1} /\ g \div 2 \in Int
    BY <2>2
  <2> QED BY <2>1, <2>2, <2>3, <2>4 DEF IsWhole, Abs
<1> QED BY <1>1, <1>2

(* What a conversion gives reads as the JSON, and it throws only for what  *)
(* the type cannot hold.                                                   *)
LEMMA ConversionTrue ==
  ASSUME NEW j, Typed(j), NEW kind \in Kinds
  PROVE  /\ As(kind, j).throws \in BOOLEAN
         /\ ~As(kind, j).throws => ReadsAs(kind, As(kind, j).value, j)
         /\ Representable(kind, j) => ~As(kind, j).throws
<1> USE DEF Kinds
<1>1. CASE kind = "string"
  <2>1. CASE j.type = "null"
    BY <1>1, <2>1 DEF As, ReadsAs, SameText, Value, IsNumeric
  <2>2. CASE j.type = "string"
    BY <1>1, <2>2 DEF As, ReadsAs, SameText, Value, IsNumeric
  <2>3. CASE IsNumeric(j) \/ j.type = "bool"
    <3>1. j.type # "null" /\ j.type # "string"
      BY <2>3 DEF IsNumeric
    <3>2. As(kind, j) = Value(Formatted(j))
      BY <1>1, <2>3, <3>1 DEF As
    <3>3. As(kind, j).throws = FALSE /\ As(kind, j).value = Formatted(j)
      BY <3>2 DEF Value
    <3>4. SameText(Formatted(j), j)
      BY <3>1 DEF SameText, Formatted
    <3> QED BY <1>1, <3>3, <3>4 DEF ReadsAs
  <2>4. CASE j.type \notin {"null", "string", "bool"} /\ ~IsNumeric(j)
    <3>1. As(kind, j) = Throws
      BY <1>1, <2>4 DEF As
    <3>2. ~Representable(kind, j)
      BY <1>1, <2>4 DEF Representable, IsNumber, IsNumeric
    <3> QED BY <3>1, <3>2 DEF Throws
  <2> QED BY <2>1, <2>2, <2>3, <2>4
<1>2. CASE kind # "string" /\ j.type \in {"null", "bool"}
  <2>1. ~IsNumeric(j) /\ IsNumber(j)
    BY <1>2 DEF IsNumeric, IsNumber
  <2>2. As(kind, j) = Value(AsPlainNumber(j))
    BY <1>2, <2>1 DEF As
  <2>3. NumberOf(j) = AsPlainNumber(j)
    BY <1>2 DEF NumberOf
  <2> QED BY <1>2, <2>2, <2>3 DEF Value, ReadsAs
<1>3. CASE kind # "string" /\ IsNumeric(j)
  <2> DEFINE h == Halves(j)
             t == Truncated(h)
  <2>1. j.type \notin {"null", "bool"} /\ IsNumber(j) /\ NumberOf(j) = h /\ h \in Int
    BY <1>3, HalvesAreInt DEF IsNumeric, IsNumber, NumberOf
  <2>2. /\ t \in Int
        /\ IsWhole(h) => t = h
        /\ ~IsWhole(h) => Abs(t - h) = 1
    BY <2>1, TruncatedNear
  <2>3. CASE kind = "double"
    <3>1. As(kind, j) = Value(h)
      BY <1>3, <2>1, <2>3 DEF As
    <3>2. As(kind, j).throws = FALSE /\ As(kind, j).value = h
      BY <3>1 DEF Value
    <3>3. ReadsAs(kind, h, j)
      BY <2>1, <2>3 DEF ReadsAs
    <3> QED BY <3>2, <3>3
  <2> HIDE DEF t
  <2>6. kind # "double" => ReadsAs(kind, t, j)
    BY <1>3, <2>1, <2>2 DEF ReadsAs
  <2>4. CASE kind = "int64"
    <3>1. As(kind, j) = IF t \in 2 * MinInt64..2 * MaxInt64 THEN Value(t) ELSE Throws
      BY <1>3, <2>1, <2>4 DEF As, t
    <3>2. Representable(kind, j) => t \in 2 * MinInt64..2 * MaxInt64
      BY <2>1, <2>2, <2>4 DEF Representable
    <3>3. CASE t \in 2 * MinInt64..2 * MaxInt64
      <4>1. As(kind, j) = Value(t)
        BY <3>1, <3>3, Zenon
      <4>2. As(kind, j).throws = FALSE /\ As(kind, j).value = t
        BY <4>1 DEF Value
      <4>3. ReadsAs(kind, t, j)
        BY <2>4, <2>6
      <4> QED BY <4>2, <4>3
    <3>4. CASE t \notin 2 * MinInt64..2 * MaxInt64
      <4>1. As(kind, j) = Throws
        BY <3>1, <3>4, Zenon
      <4> QED BY <3>2, <3>4, <4>1 DEF Throws
    <3> QED BY <3>3, <3>4
  <2>5. CASE kind = "uint64"
    <3>1. As(kind, j) = IF t \in 0..2 * MaxUInt64 THEN Value(t) ELSE Throws
      BY <1>3, <2>1, <2>5 DEF As, t
    <3>2. Representable(kind, j) => t \in 0..2 * MaxUInt64
      BY <2>1, <2>2, <2>5 DEF Representable
    <3>3. CASE t \in 0..2 * MaxUInt64
      <4>1. As(kind, j) = Value(t)
        BY <3>1, <3>3, Zenon
      <4>2. As(kind, j).throws = FALSE /\ As(kind, j).value = t
        BY <4>1 DEF Value
      <4>3. ReadsAs(kind, t, j)
        BY <2>5, <2>6
      <4> QED BY <4>2, <4>3
    <3>4. CASE t \notin 0..2 * MaxUInt64
      <4>1. As(kind, j) = Throws
        BY <3>1, <3>4, Zenon
      <4> QED BY <3>2, <3>4, <4>1 DEF Throws
    <3> QED BY <3>3, <3>4
  <2> QED BY <1>3, <2>3, <2>4, <2>5
<1>4. CASE kind # "string" /\ j.type \notin {"null", "bool"} /\ ~IsNumeric(j)
  <2>1. As(kind, j) = Throws
    BY <1>4 DEF As
  <2>2. ~Representable(kind, j)
    BY <1>4 DEF Representable, IsNumber, IsNumeric
  <2> QED BY <2>1, <2>2 DEF Throws
<1> QED BY <1>1, <1>2, <1>3, <1>4
-----------------------------------------------------------------------------
(* An array is nothing a scalar getter can give.                           *)
LEMMA NumberNotArray ==
  ASSUME NEW j, NEW kind \in Kinds, Representable(kind, j)
  PROVE  j.type # "array"
BY DEF Kinds, Representable, IsNumber

(* GetParamValue of a value, with a scalar or an array getter.             *)
LEMMA ParamRead ==
  ASSUME NEW j \in JsonValues, NEW kind \in Kinds, NEW isArray \in BOOLEAN
  PROVE  LET got == GetParamValue(RecordOf(j), "p", kind, isArray)
         IN  ParamTrue(j, kind, isArray, got.ret, got.out)
<1> DEFINE got == GetParamValue(RecordOf(j), "p", kind, isArray)
<1> SUFFICES ParamTrue(j, kind, isArray, got.ret, got.out)
  OBVIOUS
<1>1. Typed(j)
  BY JsonAssumption
<1>2. /\ RecordOf(j).parsed = TRUE /\ Members(RecordOf(j)) = {"p"}
      /\ RecordOf(j).root.val["p"] = j
  BY DEF RecordOf, Record, Root, Json, Members
<1>3. CASE isArray
  <2> DEFINE es == j.val
  <2>0. Elements(j, isArray) = es /\ (HasShape(j, isArray) <=> j.type = "array")
    BY <1>3 DEF Elements, HasShape
  <2>1. got = IF j.type # "array" \/ (es # <<>> /\ ~HasType(kind, Head(es)))
              THEN Answer("ERR_TYPE_NOT_MATCH", <<>>) ELSE AssignArray(kind, es)
    BY <1>2, <1>3 DEF GetParamValue
  <2> HIDE DEF got
  <2>2. CASE j.type # "array"
    <3>1. got.ret = "ERR_TYPE_NOT_MATCH"
      BY <2>1, <2>2 DEF Answer
    <3> QED BY <2>0, <2>2, <3>1 DEF ParamTrue
  <2>3. CASE j.type = "array"
    <3>1. es \in Seq(JsonValues) /\ Len(es) \in Nat
      BY <1>1, <2>3 DEF Typed
    <3>2. \A i \in 1..Len(es) : Typed(es[i])
      BY <3>1, JsonAssumption
    <3>3. es # <<>> => 1 \in 1..Len(es) /\ Head(es) = es[1]
      BY <3>1
    <3> HIDE DEF es
    <3>4. CASE es # <<>> /\ ~HasType(kind, Head(es))
      <4>1. got.ret = "ERR_TYPE_NOT_MATCH"
        BY <2>1, <3>4 DEF Answer
      <4>2. ~Representable(kind, es[1])
        BY <3>2, <3>3, <3>4, FilterIsRepresentable
      <4> QED BY <2>0, <2>3, <3>3, <3>4, <4>1, <4>2 DEF ParamTrue
    <3>5. CASE es = <<>> \/ HasType(kind, Head(es))
      <4> DEFINE conv == [i \in 1..Len(es) |-> As(kind, es[i])]
      <4>1. got = AssignArray(kind, es)
        BY <2>1, <2>3, <3>5
      <4>2. Len(conv) = Len(es) /\ \A i \in 1..Len(es) : conv[i] = As(kind, es[i])
        BY <3>1
      <4>3. /\ \A i \in 1..Len(es) : ~As(kind, es[i]).throws => ReadsAs(kind, As(kind, es[i]).value, es[i])
            /\ \A i \in 1..Len(es) : Representable(kind, es[i]) => ~As(kind, es[i]).throws
        BY <3>2, ConversionTrue
      <4>4. es # <<>> => Representable(kind, es[1])
        BY <3>2, <3>3, <3>5, FilterIsRepresentable
      <4>5. CASE \E i \in 1..Len(es) : As(kind, es[i]).throws
        <5>1. got.ret = "throws" /\ got.out = <<>>
          <6> HIDE DEF conv
          <6>1. \E i \in 1..Len(conv) : conv[i].throws
            BY <4>2, <4>5
          <6>2. got = Answer("throws", <<>>)
            BY <4>1, <6>1 DEF AssignArray, conv
          <6> QED BY <6>2 DEF Answer
        <5>2. \E i \in 1..Len(es) : ~Representable(kind, es[i])
          BY <4>3, <4>5
        <5>3. es # <<>>
          BY <4>5
        <5> QED BY <1>3, <2>0, <2>3, <4>4, <5>1, <5>2, <5>3 DEF ParamTrue
      <4>6. CASE ~\E i \in 1..Len(es) : As(kind, es[i]).throws
        <5> DEFINE out == [i \in 1..Len(es) |-> As(kind, es[i]).value]
        <5>1. got.ret = "ok" /\ got.out = out
          <6>1. got = Answer("ok", [i \in 1..Len(conv) |-> conv[i].value])
            <7> HIDE DEF conv
            <7>1. ~\E i \in 1..Len(conv) : conv[i].throws
              BY <4>2, <4>6
            <7> QED BY <4>1, <7>1 DEF AssignArray, conv
          <6>2. [i \in 1..Len(conv) |-> conv[i].value] = out
            <7> HIDE DEF conv
            <7> QED BY <4>2
          <6> HIDE DEF conv, out
          <6> QED BY <6>1, <6>2 DEF Answer
        <5>2. Len(out) = Len(es) /\ \A i \in 1..Len(es) : out[i] = As(kind, es[i]).value
          BY <3>1
        <5>3. out # <<>> => es # <<>>
          BY <5>2, <3>1
        <5> HIDE DEF out
        <5>4. \A i \in 1..Len(out) : ReadsAs(kind, out[i], es[i])
          BY <4>3, <4>6, <5>2
        <5> QED BY <2>0, <2>3, <4>4, <5>1, <5>2, <5>3, <5>4 DEF ParamTrue
      <4> QED BY <4>5, <4>6
    <3> QED BY <3>4, <3>5
  <2> QED BY <2>2, <2>3
<1>4. CASE ~isArray
  <2>0. Elements(j, isArray) = <<j>> /\ (HasShape(j, isArray) <=> j.type # "array")
    BY <1>4 DEF Elements, HasShape
  <2>1. got = IF ~HasType(kind, j) THEN Answer("ERR_TYPE_NOT_MATCH", <<>>) ELSE AssignScalar(kind, j)
    BY <1>2, <1>4 DEF GetParamValue
  <2> HIDE DEF got
  <2>2. CASE ~HasType(kind, j)
    <3>1. got.ret = "ERR_TYPE_NOT_MATCH"
      BY <2>1, <2>2 DEF Answer
    <3>2. ~Representable(kind, j)
      BY <1>1, <2>2, FilterIsRepresentable
    <3>3. 1 \in 1..Len(<<j>>) /\ <<j>>[1] = j
      OBVIOUS
    <3> QED BY <2>0, <3>1, <3>2, <3>3 DEF ParamTrue
  <2>3. CASE HasType(kind, j)
    <3>1. Representable(kind, j)
      BY <1>1, <2>3, FilterIsRepresentable
    <3>2. ~As(kind, j).throws /\ ReadsAs(kind, As(kind, j).value, j)
      BY <1>1, <3>1, ConversionTrue
    <3>3. AsGuarded(kind, j) = As(kind, j)
      BY <3>2 DEF AsGuarded
    <3>4. got.ret = "ok" /\ got.out = <<As(kind, j).value>>
      BY <2>1, <2>3, <3>2, <3>3 DEF AssignScalar, Answer
    <3>5. j.type # "array"
      BY <3>1, NumberNotArray
    <3> DEFINE v == As(kind, j).value
    <3> HIDE DEF v
    <3>6. /\ Len(<<v>>) = Len(<<j>>) /\ <<j>>[1] = j
          /\ \A i \in 1..Len(<<v>>) : i = 1 /\ <<v>>[i] = v /\ <<j>>[i] = j
      OBVIOUS
    <3>7. \A i \in 1..Len(<<v>>) : ReadsAs(kind, <<v>>[i], <<j>>[i])
      BY <3>2, <3>6 DEF v
    <3> QED BY <2>0, <3>1, <3>4, <3>5, <3>6, <3>7 DEF ParamTrue, v
  <2> QED BY <2>2, <2>3
<1> QED BY <1>3, <1>4

(* A record that holds nothing.                                            *)
LEMMA NothingRead ==
  ASSUME NEW record \in NoRecords, NEW kind, NEW isArray
  PROVE  /\ Members(record) = {}
         /\ GetParamValue(record, "p", kind, isArray).ret \in {"ERR_INIT_FAILED", "ERR_KEY_NOT_EXIST"}
<1>1. Members(record) = {}
  BY DEF NoRecords, Members, Record, Json
<1> QED BY <1>1 DEF GetParamValue, Answer

(* The step of HiSysEventRecord::GetParamValue.                            *)
LEMMA ParamStep == ReadParam => RecordReadsTrue'
<1> SUFFICES ASSUME ReadParam PROVE RecordReadsTrue'
  OBVIOUS
<1>1. PICK record \in {RecordOf(j) : j \in JsonValues} \cup NoRecords, kind \in Kinds, isArray \in BOOLEAN :
        /\ call' = [api |-> "param", record |-> record, kind |-> kind, isArray |-> isArray]
        /\ answer' = GetParamValue(record, "p", kind, isArray)
  BY DEF ReadParam, Called
<1>2. CASE record \in NoRecords
  BY <1>1, <1>2, NothingRead DEF RecordReadsTrue
<1>3. CASE record \notin NoRecords
  <2>1. PICK j \in JsonValues : record = RecordOf(j)
    BY <1>3
  <2>2. Members(record) = {"p"} /\ record.root.val["p"] = j
    BY <2>1 DEF RecordOf, Record, Root, Json, Members
  <2>3. ParamTrue(j, kind, isArray, answer'.ret, answer'.out)
    BY <1>1, <2>1, ParamRead
  <2>4. /\ call'.api = "param" /\ call'.record = record /\ call'.kind = kind /\ call'.isArray = isArray
    BY <1>1
  <2> QED BY <2>2, <2>3, <2>4 DEF RecordReadsTrue
<1> QED BY <1>2, <1>3
-----------------------------------------------------------------------------
(* Whether a C getter succeeds or not, its result fits that of the C++ one. *)
LEMMA CFailed ==
  ASSUME NEW j, NEW kind, NEW isArray, NEW memory, NEW ret, ret # "ok", NEW len
  PROVE  CParamTrue(j, kind, isArray, memory, CAnswer(ret, len, NoData))
BY DEF CParamTrue, CAnswer

(* What makes the result of a C getter that succeeds true.                 *)
CData(j, kind, isArray, memory, got) ==
  IF ~memory /\ isArray THEN kind = "string" /\ got.data = NoData
  ELSE /\ memory \/ kind # "string"
       /\ \A i \in 1..Len(Elements(j, isArray)) : ReadsAs(kind, got.data[i], Elements(j, isArray)[i])

(* The length and the data of a C getter that succeeded.                   *)
CLen(j, kind, isArray, memory, got) ==
  LET n == Len(Elements(j, isArray))
  IN  /\ n = 0 => got.len = Untouched /\ got.data = NoData
      /\ n > 0 => got.len = n /\ CData(j, kind, isArray, memory, got)

(* What is to be shown of a C getter that succeeded.                       *)
LEMMA CSucceeded ==
  ASSUME NEW j, NEW kind, NEW isArray, NEW memory, NEW got, got.ret = "ok", HasShape(j, isArray),
         CLen(j, kind, isArray, memory, got)
  PROVE  CParamTrue(j, kind, isArray, memory, got)
BY Zenon DEF CParamTrue, CData, CLen

(* The values a getter gives are a sequence.                               *)
LEMMA MadeSeq ==
  ASSUME NEW n \in Nat, NEW f
  PROVE  LET s == [i \in 1..n |-> f[i]] IN Len(s) = n /\ (s = <<>> <=> n = 0)
<1> DEFINE s == [i \in 1..n |-> f[i]]
<1>1. Len(s) = n
  OBVIOUS
<1>2. n = 0 => s = <<>>
  OBVIOUS
<1> HIDE DEF s
<1>3. s = <<>> => Len(s) = 0
  OBVIOUS
<1> QED BY <1>1, <1>2, <1>3 DEF s

(* The C getters find an array empty exactly if it has no elements.        *)
LEMMA OutIsSeq ==
  ASSUME NEW j \in JsonValues, NEW kind \in Kinds
  PROVE  LET out == GetParamValue(RecordOf(j), "p", kind, TRUE).out
         IN  out = <<>> <=> Len(out) = 0
<1> DEFINE got == GetParamValue(RecordOf(j), "p", kind, TRUE)
           es == j.val
           conv == [i \in 1..Len(es) |-> As(kind, es[i])]
           given == [i \in 1..Len(es) |-> conv[i].value]
<1>1. /\ RecordOf(j).parsed = TRUE /\ Members(RecordOf(j)) = {"p"}
      /\ RecordOf(j).root.val["p"] = j
  BY DEF RecordOf, Record, Root, Json, Members
<1>2. got.out = <<>> \/ (j.type = "array" /\ got = AssignArray(kind, es))
  BY <1>1 DEF GetParamValue, Answer
<1>3. CASE got.out = <<>>
  <2>1. Len(<<>>) = 0
    OBVIOUS
  <2> HIDE DEF got
  <2>2. got.out = <<>> /\ Len(got.out) = 0
    BY <1>3, <2>1
  <2> QED BY <2>2 DEF got
<1>4. CASE got.out # <<>>
  <2>1. es \in Seq(JsonValues) /\ Len(es) \in Nat
    <3>1. j.type = "array"
      BY <1>2, <1>4
    <3> QED BY <3>1, JsonAssumption DEF Typed
  <2>2. Len(conv) = Len(es)
    BY <2>1
  <2>3. got.out = [i \in 1..Len(conv) |-> conv[i].value]
    <3>1. AssignArray(kind, es) = IF \E i \in 1..Len(conv) : conv[i].throws THEN Answer("throws", <<>>)
                                  ELSE Answer("ok", [i \in 1..Len(conv) |-> conv[i].value])
      BY DEF AssignArray
    <3> HIDE DEF conv, got, es
    <3>2. Answer("throws", <<>>).out = <<>>
      BY DEF Answer
    <3>3. got = Answer("ok", [i \in 1..Len(conv) |-> conv[i].value])
      BY <1>2, <1>4, <3>1, <3>2, Zenon
    <3> QED BY <3>3 DEF Answer
  <2> HIDE DEF got, es
  <2>4. [i \in 1..Len(conv) |-> conv[i].value] = given
    <3> HIDE DEF conv
    <3> QED BY <2>2
  <2> DEFINE v == [i \in 1..Len(es) |-> conv[i].value]
  <2>5. given = [i \in 1..Len(es) |-> v[i]]
    OBVIOUS
  <2> HIDE DEF conv, given, v
  <2>6. Len(given) = Len(es) /\ (given = <<>> <=> Len(es) = 0)
    BY <2>1, <2>5, MadeSeq
  <2>7. got.out = given
    BY <2>3, <2>4
  <2>8. got.out = <<>> <=> Len(got.out) = 0
    BY <2>6, <2>7
  <2> QED BY <2>8 DEF got
<1> QED BY <1>3, <1>4

(* An array getter of C.                                                   *)
LEMMA CValuesRead ==
  ASSUME NEW j \in JsonValues, NEW kind \in Kinds, NEW memory \in BOOLEAN
  PROVE  CParamTrue(j, kind, TRUE, memory, GetParamValues(RecordOf(j), "p", kind, memory))
<1> DEFINE got == GetParamValue(RecordOf(j), "p", kind, TRUE)
           answered == GetParamValues(RecordOf(j), "p", kind, memory)
           n == Len(j.val)
<1>1. ParamTrue(j, kind, TRUE, got.ret, got.out)
  BY ParamRead
<1>2. answered = IF got.ret # "ok" THEN CAnswer(got.ret, Untouched, NoData)
                 ELSE IF kind = "string" THEN ConvertCStringVec(got.out, memory)
                 ELSE IF got.out = <<>> THEN CAnswer("ok", Untouched, NoData)
                 ELSE IF ~memory THEN CAnswer("ERR_NULL", Len(got.out), NoData)
                 ELSE CAnswer("ok", Len(got.out), got.out)
  BY DEF GetParamValues
<1> HIDE DEF answered
<1> SUFFICES CParamTrue(j, kind, TRUE, memory, answered)
  BY DEF answered
<1>3. Elements(j, TRUE) = j.val
  BY DEF Elements
<1>4. CASE got.ret # "ok"
  BY <1>2, <1>4, CFailed
<1>5. CASE got.ret = "ok"
  <2> DEFINE out == got.out
  <2>1. /\ HasShape(j, TRUE)
        /\ Len(out) = n
        /\ \A i \in 1..n : ReadsAs(kind, out[i], j.val[i])
    BY <1>1, <1>3, <1>5 DEF ParamTrue
  <2>0. n \in Nat /\ (out = <<>> <=> n = 0)
    <3>1. j.val \in Seq(JsonValues)
      BY <2>1, JsonAssumption DEF HasShape, Typed
    <3>2. out = <<>> <=> Len(out) = 0
      BY OutIsSeq, Zenon
    <3>3. Len(j.val) \in Nat
      BY <3>1
    <3> HIDE DEF out
    <3> QED BY <2>1, <3>2, <3>3
  <2> HIDE DEF out, got, n
  <2>2. CASE out = <<>>
    <3>1. answered = CAnswer("ok", Untouched, NoData)
      BY <1>2, <1>5, <2>2 DEF ConvertCStringVec, out
    <3>2. answered.ret = "ok" /\ answered.len = Untouched /\ answered.data = NoData
      BY <3>1 DEF CAnswer
    <3>3. Len(Elements(j, TRUE)) = n /\ n = 0
      BY <1>3, <2>0, <2>2 DEF n
    <3>4. CLen(j, kind, TRUE, memory, answered)
      <4>2. \A x : x = 0 => ~(x > 0)
        OBVIOUS
      <4>1. ~(Len(Elements(j, TRUE)) > 0)
        BY <3>3, <4>2, Zenon
      <4> QED BY <3>2, <4>1, Zenon DEF CLen
    <3> QED BY <2>1, <3>2, <3>4, CSucceeded
  <2>3. CASE out # <<>> /\ ~memory
    <3>1. \/ answered = CAnswer("ok", n, NoData) /\ kind = "string"
          \/ answered = CAnswer("ERR_NULL", n, NoData)
      BY <1>2, <1>5, <2>1, <2>3 DEF ConvertCStringVec, out
    <3>2. CASE answered = CAnswer("ok", n, NoData) /\ kind = "string"
      BY <1>3, <2>0, <2>1, <2>3, <3>2 DEF CParamTrue, CAnswer, n
    <3> QED BY <3>1, <3>2, CFailed
  <2>4. CASE out # <<>> /\ memory
    <3>1. \/ answered = CAnswer("ok", n, out)
          \/ answered = CAnswer("failed", n, NoData)
      BY <1>2, <1>5, <2>1, <2>4 DEF ConvertCStringVec, out
    <3>2. CASE answered = CAnswer("ok", n, out)
      BY <1>3, <2>0, <2>1, <2>4, <3>2 DEF CParamTrue, CAnswer, n
    <3> QED BY <3>1, <3>2, CFailed
  <2> QED BY <2>2, <2>3, <2>4
<1> QED BY <1>4, <1>5

(* A scalar getter of C.                                                   *)
LEMMA CScalarRead ==
  ASSUME NEW j \in JsonValues, NEW kind \in Kinds, NEW memory \in BOOLEAN
  PROVE  CParamTrue(j, kind, FALSE, memory, GetParamScalar(RecordOf(j), "p", kind, memory))
<1> DEFINE got == GetParamValue(RecordOf(j), "p", kind, FALSE)
           answered == GetParamScalar(RecordOf(j), "p", kind, memory)
           out == got.out
<1>1. ParamTrue(j, kind, FALSE, got.ret, got.out)
  BY ParamRead
<1>2. answered = IF got.ret # "ok" THEN CAnswer(got.ret, Untouched, NoData)
                 ELSE IF kind = "string" /\ (~memory \/ TooLong(got.out[1]))
                 THEN CAnswer("failed", Untouched, NoData)
                 ELSE CAnswer("ok", 1, got.out)
  BY DEF GetParamScalar
<1>3. Elements(j, FALSE) = <<j>> /\ Len(<<j>>) = 1
  BY DEF Elements
<1> HIDE DEF answered, got, out
<1> SUFFICES CParamTrue(j, kind, FALSE, memory, answered)
  BY DEF answered
<1>4. CASE got.ret # "ok"
  BY <1>2, <1>4, CFailed
<1>5. CASE got.ret = "ok"
  <2>1. /\ HasShape(j, FALSE)
        /\ Len(out) = 1
        /\ \A i \in 1..1 : ReadsAs(kind, out[i], <<j>>[i])
    BY <1>1, <1>3, <1>5 DEF ParamTrue, out
  <2>2. \/ answered = CAnswer("failed", Untouched, NoData)
        \/ answered = CAnswer("ok", 1, out) /\ (memory \/ kind # "string")
    BY <1>2, <1>5 DEF out
  <2>3. CASE answered = CAnswer("ok", 1, out) /\ (memory \/ kind # "string")
    <3>1. answered.ret = "ok" /\ answered.len = 1 /\ answered.data = out
      BY <2>3 DEF CAnswer
    <3>2. Len(Elements(j, FALSE)) = 1 /\ \A i \in 1..1 : ReadsAs(kind, out[i], Elements(j, FALSE)[i])
      BY <1>3, <2>1
    <3>3. CData(j, kind, FALSE, memory, answered)
      BY <2>3, <3>1, <3>2 DEF CData
    <3>4. CLen(j, kind, FALSE, memory, answered)
      <4>1. Len(Elements(j, FALSE)) # 0 /\ answered.len = Len(Elements(j, FALSE))
        <5>1. 1 # 0
          OBVIOUS
        <5> QED BY <3>1, <3>2, <5>1, Zenon
      <4> QED BY <3>3, <4>1, Zenon DEF CLen
    <3> QED BY <2>1, <3>1, <3>4, CSucceeded
  <2> QED BY <2>2, <2>3, CFailed
<1> QED BY <1>4, <1>5

(* The step of the C getters of hisysevent_record_c.cpp.                   *)
LEMMA ParamCStep == ReadParamC => RecordReadsTrue'
<1> SUFFICES ASSUME ReadParamC PROVE RecordReadsTrue'
  OBVIOUS
<1>1. PICK j \in JsonValues, kind \in Kinds, isArray \in BOOLEAN, memory \in BOOLEAN :
        /\ call' = [api |-> "c", record |-> RecordOf(j), kind |-> kind, isArray |-> isArray, memory |-> memory]
        /\ answer' = IF isArray THEN GetParamValues(RecordOf(j), "p", kind, memory)
                                ELSE GetParamScalar(RecordOf(j), "p", kind, memory)
  BY DEF ReadParamC, Called
<1>2. CParamTrue(j, kind, isArray, memory, answer')
  <2>1. CASE isArray
    BY <1>1, <2>1, CValuesRead
  <2>2. CASE ~isArray
    BY <1>1, <2>2, CScalarRead
  <2> QED BY <2>1, <2>2
<1>3. RecordOf(j).root.val["p"] = j
  BY DEF RecordOf, Record, Root, Json
<1>4. /\ call'.api = "c" /\ call'.record = RecordOf(j) /\ call'.kind = kind /\ call'.isArray = isArray
      /\ call'.memory = memory
  BY <1>1
<1> QED BY <1>2, <1>3, <1>4 DEF RecordReadsTrue

-----------------------------------------------------------------------------
(* The number of n digits from that of one less.                           *)
DigitsBody(chars, g, n) == IF n = 0 THEN 0 ELSE 16 * g[n - 1] + chars[n]

(* The digits at the beginning of a text: how many, and their number.      *)
LEMMA HexTyped ==
  ASSUME NEW chars \in Seq(0..OtherChar)
  PROVE  /\ HexNumber(chars) \in 0..MaxUInt64
         /\ Len(chars) = 1 /\ chars[1] # OtherChar => HexNumber(chars) = chars[1]
<1> DEFINE ends == {n \in 0..Len(chars) : \A i \in 1..n : chars[i] # OtherChar}
           d == CHOOSE n \in ends : \A m \in ends : m <= n
           num == CHOOSE g : g = [n \in 0..d |-> DigitsBody(chars, g, n)]
<1>0. Len(chars) \in Nat
  OBVIOUS
<1>1. HexNumber(chars) = IF num[d] > MaxUInt64 THEN MaxUInt64 ELSE num[d]
  BY Zenon DEF HexNumber, DigitsBody
<1>2. ends # {} /\ ends \in SUBSET (0..Len(chars))
  <2>1. 0 \in ends
    OBVIOUS
  <2> QED BY <2>1
<1>3. \E n \in ends : \A m \in ends : m <= n
  <2> HIDE DEF ends
  <2> QED BY <1>0, <1>2, GreatestNatural
<1>4. d \in ends /\ \A m \in ends : m <= d
  <2> HIDE DEF ends
  <2> QED BY <1>3
<1>5. d \in 0..Len(chars)
  BY <1>2, <1>4
<1> HIDE DEF d
<1>6. \E g \in [0..d -> Nat] : g = [n \in 0..d |-> DigitsBody(chars, g, n)]
  <2> DEFINE prev == [n \in Nat \ {0} |-> n - 1]
             step == [p \in (Nat \ {0}) \X Nat |-> 16 * p[2] + (IF p[1] <= d THEN chars[p[1]] ELSE 0)]
  <2>1. \A n \in 1..d : chars[n] \in Nat
    BY <1>5 DEF OtherChar
  <2>2. Recursion(Nat, 0, prev, step)
    <3>1. prev \in [Nat \ {0} -> Nat] /\ \A n \in Nat \ {0} : prev[n] < n
      OBVIOUS
    <3>2. step \in [(Nat \ {0}) \X Nat -> Nat]
      <4> SUFFICES ASSUME NEW p \in (Nat \ {0}) \X Nat
                   PROVE  16 * p[2] + (IF p[1] <= d THEN chars[p[1]] ELSE 0) \in Nat
        OBVIOUS
      <4>1. p[1] \in Nat \ {0} /\ p[2] \in Nat
        OBVIOUS
      <4>2. p[1] <= d => p[1] \in 1..d
        BY <1>5, <4>1
      <4> QED BY <2>1, <4>1, <4>2
    <3> HIDE DEF prev, step
    <3> QED BY <3>1, <3>2 DEF Recursion
  <2>3. PICK f \in [Nat -> Nat] : \A n \in Nat : f[n] = ValueAt(0, prev, step, f, n)
    <3> HIDE DEF prev, step
    <3> QED BY <2>2, RecursionExists, SMTT(30)
  <2> DEFINE g == [n \in 0..d |-> f[n]]
  <2>4. ASSUME NEW n \in 0..d PROVE g[n] = DigitsBody(chars, g, n)
    <3>1. CASE n = 0
      BY <2>3, <3>1 DEF ValueAt, DigitsBody
    <3>2. CASE n # 0
      <4>1. n - 1 \in 0..d /\ n \in Nat \ {0} /\ n <= d /\ prev[n] = n - 1
        BY <1>5, <3>2
      <4>2. f[n] = step[<<n, f[n - 1]>>]
        <5> HIDE DEF prev, step
        <5> QED BY <2>3, <3>2, <4>1 DEF ValueAt
      <4>3. <<n, f[n - 1]>> \in (Nat \ {0}) \X Nat
        <5>1. n - 1 \in Nat
          BY <1>5, <4>1
        <5>2. f[n - 1] \in Nat
          BY <5>1
        <5> QED BY <4>1, <5>2
      <4>4. step[<<n, f[n - 1]>>] = 16 * f[n - 1] + chars[n]
        BY <4>1, <4>3
      <4> HIDE DEF step
      <4> QED BY <3>2, <4>1, <4>2, <4>4 DEF DigitsBody
    <3> QED BY <3>1, <3>2
  <2>5. g \in [0..d -> Nat] /\ g = [n \in 0..d |-> DigitsBody(chars, g, n)]
    BY <1>5, <2>4, SMTT(30)
  <2> HIDE DEF g
  <2> QED BY <2>5
<1>7. num = [n \in 0..d |-> DigitsBody(chars, num, n)]
  BY <1>6
<1> HIDE DEF num
<1>8. \A n \in 0..d : num[n] \in Nat
  <2> DEFINE K == {n \in Nat : n <= d => num[n] \in Nat}
  <2>1. 0 \in K
    BY <1>5, <1>7 DEF DigitsBody
  <2>2. ASSUME NEW n \in K PROVE n + 1 \in K
    <3> SUFFICES ASSUME n + 1 <= d PROVE num[n + 1] \in Nat
      OBVIOUS
    <3>1. n \in Nat /\ num[n] \in Nat /\ n + 1 \in 0..d /\ n + 1 \in 1..Len(chars)
      <4>1. n \in Nat /\ n <= d
        BY <1>5
      <4>2. num[n] \in Nat
        BY <4>1
      <4> QED BY <1>5, <4>1, <4>2
    <3>2. num[n + 1] = 16 * num[n] + chars[n + 1]
      <4>1. (n + 1) - 1 = n /\ n + 1 # 0
        BY <3>1
      <4> QED BY <1>7, <3>1, <4>1 DEF DigitsBody
    <3>3. chars[n + 1] \in 0..16
      BY <3>1, SMTT(30) DEF OtherChar
    <3>4. \A x \in Nat, c \in 0..16 : 16 * x + c \in Nat
      OBVIOUS
    <3>5. 16 * num[n] + chars[n + 1] \in Nat
      BY <3>1, <3>3, <3>4, Zenon
    <3> QED BY <3>2, <3>5, Zenon
  <2> HIDE DEF K
  <2>3. K = Nat
    <3>1. K \in SUBSET Nat
      BY DEF K
    <3> QED BY <2>1, <2>2, <3>1, SetInduction
  <2> QED BY <1>5, <2>3 DEF K
<1>9. HexNumber(chars) \in 0..MaxUInt64
  BY <1>1, <1>5, <1>8, Bounds
<1>10. ASSUME Len(chars) = 1, chars[1] # OtherChar PROVE HexNumber(chars) = chars[1]
  <2>1. 1 \in ends
    BY <1>10
  <2>2. d = 1
    <3> HIDE DEF ends
    <3> QED BY <1>4, <1>5, <1>10, <2>1
  <2>3. num[0] = 0 /\ num[1] = 16 * num[0] + chars[1]
    BY <1>7, <2>2 DEF DigitsBody
  <2>4. chars[1] \in 0..15
    <3>1. chars[1] \in 0..16
      <4>1. 1 \in 1..Len(chars)
        BY <1>10
      <4>2. \A i \in 1..Len(chars) : chars[i] \in 0..16
        BY DEF OtherChar
      <4> QED BY <4>1, <4>2
    <3> QED BY <1>10, <3>1 DEF OtherChar
  <2> QED BY <1>1, <2>2, <2>3, <2>4, Bounds, SMTT(30)
<1> QED BY <1>9, <1>10
-----------------------------------------------------------------------------
(* A base field: what the type can hold, or nothing.                       *)
LEMMA FieldRead ==
  ASSUME NEW j, Typed(j), NEW kind \in Kinds, NEW field
  PROVE  LET record == Record(TRUE, Root(field, j))
         IN  /\ Representable(kind, j) => /\ ValueByKey(record, field, kind) = As(kind, j).value
                                          /\ ReadsAs(kind, As(kind, j).value, j)
             /\ ~Representable(kind, j) =>
                  ValueByKey(record, field, kind) = IF kind = "string" THEN Text(<<>>) ELSE 0
<1> DEFINE record == Record(TRUE, Root(field, j))
           got == GetParamValue(record, field, kind, FALSE)
           v == ValueByKey(record, field, kind)
<1> SUFFICES /\ Representable(kind, j) => v = As(kind, j).value /\ ReadsAs(kind, As(kind, j).value, j)
             /\ ~Representable(kind, j) => v = IF kind = "string" THEN Text(<<>>) ELSE 0
  OBVIOUS
<1>1. record.parsed = TRUE /\ Members(record) = {field} /\ record.root.val[field] = j
  BY DEF Record, Root, Json, Members
<1>2. got = IF ~HasType(kind, j) THEN Answer("ERR_TYPE_NOT_MATCH", <<>>) ELSE AssignScalar(kind, j)
  BY <1>1 DEF GetParamValue
<1>3. v = IF got.ret = "ok" THEN got.out[1] ELSE IF kind = "string" THEN Text(<<>>) ELSE 0
  BY DEF ValueByKey
<1>4. HasType(kind, j) <=> Representable(kind, j)
  BY FilterIsRepresentable
<1> HIDE DEF got, v
<1>5. CASE ~Representable(kind, j)
  <2>1. got.ret = "ERR_TYPE_NOT_MATCH"
    BY <1>2, <1>4, <1>5 DEF Answer
  <2> QED BY <1>3, <1>5, <2>1
<1>6. CASE Representable(kind, j)
  <2>1. ~As(kind, j).throws /\ ReadsAs(kind, As(kind, j).value, j)
    BY <1>6, ConversionTrue
  <2>2. AsGuarded(kind, j) = As(kind, j)
    BY <2>1 DEF AsGuarded
  <2>3. got.ret = "ok" /\ got.out = <<As(kind, j).value>>
    BY <1>2, <1>4, <1>6, <2>1, <2>2 DEF AssignScalar, Answer
  <2> QED BY <1>3, <1>6, <2>1, <2>3
<1> QED BY <1>5, <1>6

(* A whole number is read exactly.                                         *)
LEMMA WholeRead ==
  ASSUME NEW j, Typed(j), NEW kind \in {"int64", "uint64"}, Representable(kind, j), NEW got,
         ReadsAs(kind, got, j)
  PROVE  got = NumberOf(j) /\ IsNumber(j) /\ IsWhole(NumberOf(j))
BY DEF Representable, ReadsAs

(* The type of an event, which is cut to an int.                           *)
LEMMA TypeRead ==
  ASSUME NEW j, Typed(j), Representable("int64", j), FitsInt(NumberOf(j)), NEW field
  PROVE  GetIntValueByKey(Record(TRUE, Root(field, j)), field) = NumberOf(j)
<1> DEFINE record == Record(TRUE, Root(field, j))
           h == NumberOf(j)
           v == ValueByKey(record, field, "int64")
           p == 2^IntWidth
           q == 2^(IntWidth - 1)
           low == (v \div 2) % p
           r == GetIntValueByKey(record, field)
<1> SUFFICES r = h
  OBVIOUS
<1>1. v = h /\ IsNumber(j) /\ IsWhole(h)
  BY FieldRead, WholeRead DEF Kinds
<1>2. r = 2 * (IF low >= q THEN low - p ELSE low)
  BY DEF GetIntValueByKey
<1>3. p \in Nat /\ q \in Nat /\ p = 2 * q /\ q > 0
  BY WidthAssumption
<1>4. h \in Int /\ h \in -p..p - 2
  BY <1>1, NumberIsInt DEF FitsInt
<1> HIDE DEF p, q, h, v, r
<1>5. h % 2 = 0
  BY <1>1 DEF IsWhole
<1>6. PICK w \in Int : h = 2 * w /\ h \div 2 = w
  BY <1>4, <1>5
<1>7. w >= -q /\ w <= q - 1
  BY <1>3, <1>4, <1>6
<1>8. CASE w >= 0
  <2>1. w % p = w
    BY <1>3, <1>7, <1>8
  <2>2. low = w
    BY <1>1, <1>6, <2>1
  <2> QED BY <1>2, <1>3, <1>6, <1>7, <2>2
<1>9. CASE w < 0
  <2>1. w % p = w + p
    <3>1. w + p \in 0..p - 1 /\ w = p * (-1) + (w + p)
      BY <1>3, <1>7, <1>9
    <3> QED BY <1>3, <1>7, <1>9, <3>1
  <2>2. low = w + p
    BY <1>1, <1>6, <2>1
  <2> QED BY <1>2, <1>3, <1>6, <1>7, <1>9, <2>2
<1> QED BY <1>8, <1>9
-----------------------------------------------------------------------------
(* The hexadecimal reading of a flag or a number.                          *)
LEMMA FormattedTyped ==
  ASSUME NEW j, Typed(j), IsNumeric(j) \/ j.type = "bool"
  PROVE  FormattedHex(j) \in 0..MaxUInt64
<1> DEFINE whole == Truncated(Halves(j)) \div 2
           r == FormattedHex(j)
<1> SUFFICES r \in 0..MaxUInt64
  OBVIOUS
<1>1. CASE j.type = "bool"
  <2>1. ~IsNumeric(j)
    BY <1>1 DEF IsNumeric
  <2>2. r = IF j.val THEN 0 ELSE HexNumber(<<15, 10>>)
    BY <1>1, <2>1 DEF FormattedHex
  <2>3. HexNumber(<<15, 10>>) \in 0..MaxUInt64
    <3>1. <<15, 10>> \in Seq(0..OtherChar)
      BY DEF OtherChar
    <3> QED BY <3>1, HexTyped
  <2> QED BY <2>2, <2>3, Bounds
<1>2. CASE IsNumeric(j)
  <2>1. j.type # "bool"
    BY <1>2 DEF IsNumeric
  <2>2. r = IF whole > MaxUInt64 \/ -whole > MaxUInt64 THEN MaxUInt64 ELSE whole % 2^Width
    BY <1>2, <2>1 DEF FormattedHex
  <2>3. whole \in Int
    <3>1. Truncated(Halves(j)) \in Int
      BY <1>2, HalvesAreInt, TruncatedNear
    <3> QED BY <3>1
  <2> DEFINE p == 2^Width
  <2>4. p \in Nat /\ MaxUInt64 = p - 1 /\ p > 0
    BY Bounds
  <2> HIDE DEF whole, r, p
  <2>5. whole % p \in 0..p - 1
    BY <2>3, <2>4
  <2> QED BY <2>2, <2>4, <2>5 DEF p
<1> QED BY <1>1, <1>2

(* The trace id.                                                           *)
LEMMA TraceRead ==
  ASSUME NEW j, Typed(j), NEW got, got = GetTraceId(Record(TRUE, Root("traceid_", j)))
  PROVE  /\ got \in 0..MaxUInt64
         /\ j.type = "string" /\ Len(j.val) = 1 /\ j.val # <<OtherChar>> => got = j.val[1]
<1> DEFINE text == ValueByKey(Record(TRUE, Root("traceid_", j)), "traceid_", "string")
<1>1. got = IF text.of = "chars" THEN HexNumber(text.chars) ELSE FormattedHex(text.json)
  BY DEF GetTraceId
<1>2. /\ Representable("string", j) => text = As("string", j).value
      /\ ~Representable("string", j) => text = Text(<<>>)
  BY FieldRead DEF Kinds
<1> HIDE DEF text
<1>3. <<>> \in Seq(0..OtherChar) /\ HexNumber(<<>>) \in 0..MaxUInt64
  <2>1. <<>> \in Seq(0..OtherChar)
    OBVIOUS
  <2> QED BY <2>1, HexTyped
<1>4. CASE j.type = "string"
  <2>1. j.val \in Seq(0..OtherChar)
    BY <1>4 DEF Typed
  <2>2. text = Text(j.val)
    BY <1>2, <1>4 DEF Representable, As, Value, IsNumeric
  <2>3. got = HexNumber(j.val)
    BY <1>1, <2>2 DEF Text
  <2>4. Len(j.val) = 1 /\ j.val # <<OtherChar>> => j.val[1] # OtherChar
    <3> SUFFICES ASSUME Len(j.val) = 1, j.val[1] = OtherChar PROVE j.val = <<OtherChar>>
      OBVIOUS
    <3>1. <<OtherChar>> \in Seq(0..OtherChar) /\ Len(<<OtherChar>>) = 1 /\ <<OtherChar>>[1] = OtherChar
      BY DEF OtherChar
    <3>2. \A i \in 1..Len(j.val) : j.val[i] = <<OtherChar>>[i]
      BY <3>1
    <3> QED BY <2>1, <3>1, <3>2, SeqEqual
  <2> QED BY <2>1, <2>3, <2>4, HexTyped
<1>5. CASE j.type # "string" /\ (IsNumeric(j) \/ j.type = "bool")
  <2>1. j.type # "null" /\ Representable("string", j)
    BY <1>5 DEF IsNumeric, Representable, IsNumber
  <2>2. text = Formatted(j)
    BY <1>2, <1>5, <2>1 DEF As, Value
  <2>3. got = FormattedHex(j)
    BY <1>1, <2>2 DEF Formatted
  <2> QED BY <1>5, <2>3, FormattedTyped
<1>6. CASE j.type # "string" /\ ~(IsNumeric(j) \/ j.type = "bool")
  <2>1. text = Text(<<>>)
    BY <1>2, <1>6 DEF As, Value, Representable, IsNumber, IsNumeric
  <2>2. got = HexNumber(<<>>)
    BY <1>1, <2>1 DEF Text
  <2> QED BY <1>3, <1>6, <2>2
<1> QED BY <1>4, <1>5, <1>6

(* The step of the getters of the base fields.                             *)
LEMMA BaseStep == ReadBase => RecordReadsTrue'
<1> SUFFICES ASSUME ReadBase PROVE RecordReadsTrue'
  OBVIOUS
<1>1. PICK j \in JsonScalars, field \in {"type_", "time_", "domain_", "traceid_"} :
        LET record == Record(TRUE, Root(field, j))
        IN  /\ call' = [api |-> "base", field |-> field, json |-> j]
            /\ answer' = CASE field = "type_" -> [got |-> GetIntValueByKey(record, field)]
                           [] field = "time_" -> [got |-> ValueByKey(record, field, "uint64")]
                           [] field = "domain_" -> [got |-> ValueByKey(record, field, "string")]
                           [] field = "traceid_" -> [got |-> GetTraceId(record)]
  BY DEF ReadBase, Called
<1> DEFINE record == Record(TRUE, Root(field, j))
           got == answer'.got
<1>2. Typed(j)
  BY JsonAssumption
<1>3. BaseTrue(field, j, got)
  <2>1. CASE field = "type_"
    <3>1. got = GetIntValueByKey(record, field)
      BY <1>1, <2>1
    <3> HIDE DEF got
    <3>2. Representable("int64", j) /\ FitsInt(NumberOf(j)) => got = NumberOf(j)
      BY <1>2, <3>1, TypeRead
    <3> QED BY <2>1, <3>2 DEF BaseTrue
  <2>2. CASE field = "time_"
    <3>1. got = ValueByKey(record, field, "uint64")
      BY <1>1, <2>2
    <3>2. /\ Representable("uint64", j) => ReadsAs("uint64", got, j)
          /\ ~Representable("uint64", j) => got = 0
      <4> HIDE DEF got
      <4> QED BY <1>2, <3>1, FieldRead DEF Kinds
    <3>3. got = IF Representable("uint64", j) THEN NumberOf(j) ELSE 0
      <4> HIDE DEF got
      <4> QED BY <1>2, <3>2, WholeRead
    <3> QED BY <2>2, <3>3 DEF BaseTrue
  <2>3. CASE field = "domain_"
    <3>1. got = ValueByKey(record, field, "string")
      BY <1>1, <2>3
    <3>2. /\ Representable("string", j) => ReadsAs("string", got, j)
          /\ ~Representable("string", j) => got = Text(<<>>)
      <4> HIDE DEF got
      <4> QED BY <1>2, <3>1, FieldRead DEF Kinds
    <3>3. Representable("string", j) => SameText(got, j)
      BY <3>2 DEF ReadsAs
    <3> QED BY <2>3, <3>2, <3>3 DEF BaseTrue
  <2>4. CASE field = "traceid_"
    <3>1. got = GetTraceId(record)
      BY <1>1, <2>4
    <3> HIDE DEF got
    <3>2. /\ got \in 0..MaxUInt64
          /\ j.type = "string" /\ Len(j.val) = 1 /\ j.val # <<OtherChar>> => got = j.val[1]
      BY <1>2, <2>4, <3>1, TraceRead
    <3> QED BY <2>4, <3>2 DEF BaseTrue
  <2> QED BY <2>1, <2>2, <2>3, <2>4
<1>4. call'.api = "base" /\ call'.field = field /\ call'.json = j
  BY <1>1
<1> QED BY <1>3, <1>4 DEF RecordReadsTrue

-----------------------------------------------------------------------------
(* The lengths of the arrays.                                              *)
LEMMA LengthsTyped ==
  /\ MAX_LENGTH_OF_EVENT_NAME \in Nat \ {0} /\ MAX_LENGTH_OF_EVENT_DOMAIN \in Nat \ {0}
  /\ MAX_LENGTH_OF_EVENT_TAG \in Nat \ {0} /\ MAX_LENGTH_OF_PARAM_NAME \in Nat \ {0}
  /\ MAX_EVENT_LIST_LEN \in Nat \ {0} /\ MAX_NUMBER_OF_EVENT_LIST \in Nat \ {0}
BY RustNamesAssumption DEF ArrayLengths

(* SplitStringToArray is defined by recursion over the characters.         *)
SliceBody(g, src, n) ==
  IF n = 0 THEN [taken |-> <<>>, slice |-> <<>>] ELSE Scanned(g[n - 1], src[n])

(* g is the recursive function of Slices.                                  *)
Splits(g, src) == g = [i \in 0..Len(src) |-> SliceBody(g, src, i)]

(* The recursive function of Slices exists.                                *)
LEMMA SlicesExist ==
  ASSUME NEW src, NEW n \in Nat
  PROVE  \E g : g = [i \in 0..n |-> SliceBody(g, src, i)]
<1> DEFINE K == {k \in Nat : \E g : g = [i \in 0..k |-> SliceBody(g, src, i)]}
<1>1. 0 \in K
  <2> DEFINE h == [i \in 0..0 |-> [taken |-> <<>>, slice |-> <<>>]]
  <2>1. h = [i \in 0..0 |-> SliceBody(h, src, i)]
    BY DEF SliceBody
  <2> HIDE DEF h
  <2> QED BY <2>1
<1>2. ASSUME NEW k \in K PROVE k + 1 \in K
  <2>1. PICK g : g = [i \in 0..k |-> SliceBody(g, src, i)]
    OBVIOUS
  <2> DEFINE h == [i \in 0..(k + 1) |-> SliceBody(g, src, i)]
  <2>2. ASSUME NEW i \in 0..(k + 1) PROVE h[i] = SliceBody(h, src, i)
    <3>1. i # 0 => i - 1 \in 0..k /\ i - 1 \in 0..(k + 1)
      OBVIOUS
    <3>2. i # 0 => g[i - 1] = h[i - 1]
      BY <2>1, <3>1
    <3> QED BY <3>2 DEF SliceBody
  <2>3. h = [i \in 0..(k + 1) |-> SliceBody(h, src, i)]
    BY <2>2
  <2>4. \E e : e = [i \in 0..(k + 1) |-> SliceBody(e, src, i)]
    <3> HIDE DEF h
    <3> QED BY <2>3
  <2> QED BY <2>4
<1> HIDE DEF K
<1>3. K = Nat
  <2>1. K \in SUBSET Nat
    BY DEF K
  <2> QED BY <1>1, <1>2, <2>1, SetInduction
<1> QED BY <1>3 DEF K

(* Slices is the last value of that function.                              *)
LEMMA SlicesUnfold ==
  ASSUME NEW src \in Seq(Nat)
  PROVE  \E g : /\ Splits(g, src)
                /\ Slices(src) = g[Len(src)]
<1> DEFINE f == CHOOSE g : g = [i \in 0..Len(src) |-> SliceBody(g, src, i)]
<1>1. Slices(src) = f[Len(src)]
  BY DEF Slices, SliceBody
<1>2. Len(src) \in Nat
  OBVIOUS
<1>3. f = [i \in 0..Len(src) |-> SliceBody(f, src, i)]
  BY <1>2, SlicesExist
<1> QED BY <1>1, <1>3 DEF Splits

(* The first elements and one more.                                        *)
LEMMA OneMore ==
  ASSUME NEW S, NEW s \in Seq(S), NEW m \in Nat, m + 1 <= Len(s)
  PROVE  SubSeq(s, 1, m + 1) = Append(SubSeq(s, 1, m), s[m + 1]) /\ SubSeq(s, 1, m) \in Seq(S) /\ s[m + 1] \in S
<1>1. m + 1 \in 1..Len(s) /\ m <= Len(s)
  OBVIOUS
<1> DEFINE f == SubSeq(s, 1, m)
           e == s[m + 1]
<1>2. f \in Seq(S) /\ e \in S /\ SubSeq(s, 1, m + 1) = Append(f, e)
  BY <1>1
<1> QED BY <1>2

(* Behind p characters of src comes s, which has no bar.                   *)
Follows(src, p, s) ==
  p + Len(s) <= Len(src) /\ \A j \in 1..Len(s) : src[p + j] = s[j] /\ s[j] # BAR

(* What was found in p characters.                                         *)
Found(g, p, taken, slice) == g[p] = [taken |-> taken, slice |-> slice]

(* A text without a bar becomes the slice.                                 *)
LEMMA SliceGrows ==
  ASSUME NEW src \in Seq(Nat), NEW g, Splits(g, src), NEW p \in Nat, NEW s \in Seq(Nat), Follows(src, p, s),
         NEW t, Found(g, p, t, <<>>)
  PROVE  Found(g, p + Len(s), t, s)
<1>0. /\ p + Len(s) <= Len(src) /\ g[p] = [taken |-> t, slice |-> <<>>]
      /\ \A j \in 1..Len(s) : src[p + j] = s[j] /\ s[j] # BAR
  BY DEF Follows, Found
<1> DEFINE K == {m \in Nat : m <= Len(s) => g[p + m] = [taken |-> t, slice |-> SubSeq(s, 1, m)]}
<1>1. 0 \in K
  <2>1. SubSeq(s, 1, 0) = <<>> /\ p + 0 = p
    OBVIOUS
  <2> QED BY <1>0, <2>1
<1>2. ASSUME NEW m \in K PROVE m + 1 \in K
  <2> SUFFICES ASSUME m + 1 <= Len(s)
               PROVE  g[p + (m + 1)] = [taken |-> t, slice |-> SubSeq(s, 1, m + 1)]
    OBVIOUS
  <2>1. m \in Nat /\ m <= Len(s) /\ m + 1 \in 1..Len(s) /\ Len(s) \in Nat /\ Len(src) \in Nat
    OBVIOUS
  <2>2. g[p + m] = [taken |-> t, slice |-> SubSeq(s, 1, m)]
    BY <2>1
  <2> HIDE DEF K
  <2> DEFINE n == p + (m + 1)
             c == src[n]
  <2>3. n \in 0..Len(src) /\ n # 0 /\ n - 1 = p + m
    BY <1>0, <2>1
  <2>4. g[n] = SliceBody(g, src, n)
    BY <2>3 DEF Splits
  <2>5. c = s[m + 1] /\ c # BAR
    BY <1>0, <2>1
  <2> HIDE DEF n, c
  <2>6. g[n] = Scanned(g[p + m], c)
    BY <2>3, <2>4 DEF SliceBody, c
  <2>7. g[n] = [taken |-> t, slice |-> Append(SubSeq(s, 1, m), c)]
    <3> DEFINE u == SubSeq(s, 1, m)
               found == [taken |-> t, slice |-> u]
    <3> HIDE DEF u
    <3>1. found.taken = t /\ found.slice = u
      OBVIOUS
    <3> HIDE DEF found
    <3>2. g[n] = [taken |-> t, slice |-> Append(u, c)]
      BY <2>2, <2>5, <2>6, <3>1, Zenon DEF Scanned, found, u
    <3> QED BY <3>2 DEF u
  <2>8. Append(SubSeq(s, 1, m), c) = SubSeq(s, 1, m + 1)
    BY <2>1, <2>5, OneMore
  <2> QED BY <2>7, <2>8 DEF n
<1>3. Len(s) \in K
  <2>1. Len(s) \in Nat
    OBVIOUS
  <2> HIDE DEF K
  <2>2. K \in SUBSET Nat
    BY DEF K
  <2> QED BY <1>1, <1>2, <2>1, <2>2, SetInduction
<1>4. SubSeq(s, 1, Len(s)) = s
  OBVIOUS
<1> QED BY <1>3, <1>4 DEF Found

(* The pieces that are joined: a name, with a bar in front but for the     *)
(* first.                                                                  *)
NamePiece(names, i) == IF i = 1 THEN names[1] ELSE <<BAR>> \o names[i]
NamePieces(names, k) == [i \in 1..k |-> NamePiece(names, i)]
Together(names, k) == FlattenSeq(NamePieces(names, k))

(* The pieces are texts, the text of k of them begins that of all, and the *)
(* next piece follows.                                                     *)
LEMMA TogetherGrows ==
  ASSUME NEW names \in Seq(Seq(Nat)), NEW k \in 1..Len(names)
  PROVE  /\ Together(names, k) \in Seq(Nat)
         /\ Together(names, 1) = names[1]
         /\ k + 1 <= Len(names) => Together(names, k + 1) = Together(names, k) \o (<<BAR>> \o names[k + 1])
         /\ \E rest \in Seq(Nat) : JoinedNames(names) = Together(names, k) \o rest
<1> DEFINE n == Len(names)
<1>1. n \in Nat /\ k \in Nat /\ k <= n
  OBVIOUS
<1>2. \A i \in 1..n : NamePiece(names, i) \in Seq(Nat)
  BY RustNamesAssumption DEF NamePiece
<1>3. ASSUME NEW m \in 0..n PROVE NamePieces(names, m) \in Seq(Seq(Nat)) /\ Len(NamePieces(names, m)) = m
  BY <1>2 DEF NamePieces
<1>4. Together(names, k) \in Seq(Nat)
  BY <1>1, <1>3, FlattenType DEF Together
<1>5. ASSUME NEW m \in 0..n, m + 1 <= n
      PROVE  Together(names, m + 1) = Together(names, m) \o NamePiece(names, m + 1)
  <2>1. NamePieces(names, m) \in Seq(Seq(Nat)) /\ NamePiece(names, m + 1) \in Seq(Nat)
    BY <1>2, <1>3, <1>5
  <2>2. NamePieces(names, m + 1) = Append(NamePieces(names, m), NamePiece(names, m + 1))
    BY <1>5 DEF NamePieces
  <2> QED BY <2>1, <2>2, FlattenAppend DEF Together
<1>6. Together(names, 1) = names[1]
  <2>1. 1 \in 1..n /\ names[1] \in Seq(Nat) /\ <<>> \o names[1] = names[1]
    BY <1>1
  <2>2. NamePieces(names, 0) = <<>>
    BY DEF NamePieces
  <2>3. Together(names, 0) = <<>>
    BY <2>2, FlattenEmpty DEF Together
  <2>4. Together(names, 0 + 1) = Together(names, 0) \o NamePiece(names, 0 + 1)
    <3>1. 0 \in 0..n /\ 0 + 1 <= n
      BY <1>1
    <3> QED BY <1>5, <3>1, Zenon
  <2>5. 0 + 1 = 1 /\ NamePiece(names, 1) = names[1]
    BY DEF NamePiece
  <2> QED BY <2>1, <2>3, <2>4, <2>5
<1>7. k + 1 <= n => Together(names, k + 1) = Together(names, k) \o (<<BAR>> \o names[k + 1])
  <2> SUFFICES ASSUME k + 1 <= n
               PROVE  Together(names, k + 1) = Together(names, k) \o (<<BAR>> \o names[k + 1])
    OBVIOUS
  <2>1. k \in 0..n /\ k + 1 # 1
    BY <1>1
  <2>2. NamePiece(names, k + 1) = <<BAR>> \o names[k + 1]
    BY <2>1 DEF NamePiece
  <2>3. Together(names, k + 1) = Together(names, k) \o NamePiece(names, k + 1)
    BY <1>5, <2>1, Zenon
  <2> QED BY <2>2, <2>3, Zenon
<1>8. \E rest \in Seq(Nat) : JoinedNames(names) = Together(names, k) \o rest
  <2>1. JoinedNames(names) = FlattenSeq(NamePieces(names, n))
    BY DEF JoinedNames, NamePieces, NamePiece
  <2> DEFINE all == NamePieces(names, n)
             a == NamePieces(names, k)
             b == SubSeq(all, k + 1, n)
  <2>2. all \in Seq(Seq(Nat)) /\ Len(all) = n /\ a \in Seq(Seq(Nat)) /\ Len(a) = k
    <3>1. k \in 0..n /\ n \in 0..n
      BY <1>1
    <3> QED BY <1>3, <3>1, Zenon
  <2>3. \A i \in 1..k : a[i] = all[i]
    BY <1>1 DEF NamePieces
  <2> HIDE DEF all, a, n
  <2>4. a = SubSeq(all, 1, k)
    <3>1. SubSeq(all, 1, k) \in Seq(Seq(Nat)) /\ Len(SubSeq(all, 1, k)) = k
          /\ \A i \in 1..k : SubSeq(all, 1, k)[i] = all[i]
      BY <1>1, <2>2, SMTT(30)
    <3> QED BY <2>2, <2>3, <3>1, SeqEqual, Zenon
  <2>5. b \in Seq(Seq(Nat))
    BY <1>1, <2>2
  <2>6. all = a \o b
    <3>1. SubSeq(all, 1, n) = all
      BY <2>2, SubSeqFull, Zenon
    <3>2. 1 \in 1..(Len(all) + 1) /\ k \in (1 - 1)..Len(all) /\ n \in k..Len(all)
      BY <1>1, <2>2
    <3>3. SubSeq(all, 1, k) \o SubSeq(all, k + 1, n) = SubSeq(all, 1, n)
      BY <2>2, <3>2, ConcatAdjacentSubSeq, Zenon
    <3> QED BY <2>4, <3>1, <3>3
  <2> HIDE DEF b
  <2>7. FlattenSeq(a \o b) = FlattenSeq(a) \o FlattenSeq(b) /\ FlattenSeq(b) \in Seq(Nat)
    BY <2>2, <2>5, FlattenConcat, FlattenType
  <2> QED BY <2>1, <2>6, <2>7 DEF Together, a, all
<1> QED BY <1>4, <1>6, <1>7, <1>8

(* What the array of a rule holds: the text of the first k names is no     *)
(* longer than k entries with bars between them.                           *)
LEMMA TogetherFits ==
  ASSUME NEW names \in Seq(Seq(Nat)), \A i \in 1..Len(names) : GoodName(names[i]), NEW k \in 1..Len(names)
  PROVE  Len(Together(names, k)) <= k * (MAX_LENGTH_OF_EVENT_NAME + 1) - 1
<1> DEFINE c == MAX_LENGTH_OF_EVENT_NAME + 1
           K == {m \in Nat : m + 1 <= Len(names) => Len(Together(names, m + 1)) <= (m + 1) * c - 1}
<1>1. c \in Nat /\ \A i \in 1..Len(names) : names[i] \in Seq(Nat) /\ Len(names[i]) \in Nat /\ Len(names[i]) + 1 <= c
  <2>1. MAX_LENGTH_OF_EVENT_NAME \in Nat
    BY LengthsTyped
  <2>2. c \in Nat
    BY <2>1
  <2>3. ASSUME NEW i \in 1..Len(names)
        PROVE  names[i] \in Seq(Nat) /\ Len(names[i]) \in Nat /\ Len(names[i]) + 1 <= c
    <3>1. names[i] \in Seq(Nat) /\ Len(names[i]) <= MAX_LENGTH_OF_EVENT_NAME
      BY <2>1 DEF GoodName
    <3>2. Len(names[i]) \in Nat
      BY <3>1
    <3> QED BY <2>1, <3>1, <3>2
  <2> QED BY <2>2, <2>3
<1> HIDE DEF c
<1>2. 0 \in K
  <2>1. ASSUME 1 <= Len(names) PROVE Len(Together(names, 1)) <= c - 1
    <3>1. 1 \in 1..Len(names)
      BY <2>1
    <3>2. Together(names, 1) = names[1]
      BY <3>1, TogetherGrows
    <3> QED BY <1>1, <3>1, <3>2
  <2>2. 0 + 1 = 1 /\ 1 * c = c
    BY <1>1
  <2> QED BY <2>1, <2>2
<1>3. ASSUME NEW m \in K PROVE m + 1 \in K
  <2> SUFFICES ASSUME (m + 1) + 1 <= Len(names)
               PROVE  Len(Together(names, (m + 1) + 1)) <= ((m + 1) + 1) * c - 1
    OBVIOUS
  <2>1. m \in Nat /\ m + 1 \in 1..Len(names) /\ (m + 1) + 1 \in 1..Len(names) /\ m + 1 <= Len(names)
    OBVIOUS
  <2>2. Len(Together(names, m + 1)) <= (m + 1) * c - 1
    BY <2>1
  <2> HIDE DEF K
  <2> DEFINE t == Together(names, m + 1)
             next == names[(m + 1) + 1]
  <2>3. t \in Seq(Nat) /\ Together(names, (m + 1) + 1) = t \o (<<BAR>> \o next)
    BY <2>1, TogetherGrows
  <2>4. next \in Seq(Nat) /\ Len(next) \in Nat /\ Len(next) + 1 <= c
    BY <1>1, <2>1
  <2> HIDE DEF t, next
  <2>5. Len(t \o (<<BAR>> \o next)) = Len(t) + (1 + Len(next)) /\ Len(t) \in Nat
    BY <2>3, <2>4, RustNamesAssumption
  <2>6. ((m + 1) + 1) * c = (m + 1) * c + c
    BY <1>1, <2>1
  <2> DEFINE x == (m + 1) * c
  <2>7. x \in Nat
    BY <1>1, <2>1
  <2>8. Len(t) <= x - 1 /\ ((m + 1) + 1) * c = x + c
    BY <2>2, <2>6 DEF t
  <2> HIDE DEF x
  <2> QED BY <1>1, <2>3, <2>4, <2>5, <2>7, <2>8
<1>4. k - 1 \in K
  <2>1. K \in SUBSET Nat /\ k - 1 \in Nat
    OBVIOUS
  <2> HIDE DEF K
  <2> QED BY <1>2, <1>3, <2>1, SetInduction
<1>5. (k - 1) + 1 = k /\ k <= Len(names)
  OBVIOUS
<1>6. Len(Together(names, (k - 1) + 1)) <= ((k - 1) + 1) * c - 1
  <2>1. (k - 1) + 1 <= Len(names)
    BY <1>5
  <2> QED BY <1>4, <2>1
<1> QED BY <1>5, <1>6 DEF c

(* A slice that is a good name is taken.                                   *)
LEMMA GoodTaken ==
  ASSUME NEW t, NEW name \in Seq(Nat), GoodName(name)
  PROVE  /\ WithSlice([taken |-> t, slice |-> name]) = Append(t, name)
         /\ Scanned([taken |-> t, slice |-> name], BAR) = [taken |-> Append(t, name), slice |-> <<>>]
<1> DEFINE found == [taken |-> t, slice |-> name]
<1>1. found.taken = t /\ found.slice = name
  OBVIOUS
<1>2. name # <<>> /\ ~(Len(name) > MAX_LENGTH_OF_EVENT_NAME)
  <2>1. Len(name) \in Nat /\ MAX_LENGTH_OF_EVENT_NAME \in Nat
    BY LengthsTyped
  <2> QED BY <2>1 DEF GoodName
<1> HIDE DEF found
<1>3. WithSlice(found) = Append(t, name)
  BY <1>1, <1>2, Zenon DEF WithSlice
<1>4. Scanned(found, BAR) = [taken |-> Append(t, name), slice |-> <<>>]
  BY <1>3, Zenon DEF Scanned
<1> QED BY <1>3, <1>4 DEF found

(* Of two texts, where the second one is.                                  *)
LEMMA Behind ==
  ASSUME NEW S, NEW a \in Seq(S), NEW b \in Seq(S)
  PROVE  /\ a \o b \in Seq(S) /\ Len(a \o b) = Len(a) + Len(b)
         /\ \A i \in 1..Len(a) : (a \o b)[i] = a[i]
         /\ \A i \in 1..Len(b) : (a \o b)[Len(a) + i] = b[i]
<1>1. Len(a) \in Nat /\ Len(b) \in Nat
  OBVIOUS
<1>2. ASSUME NEW i \in 1..Len(b) PROVE (a \o b)[Len(a) + i] = b[i]
  <2>1. Len(a) + i \in 1..(Len(a) + Len(b)) /\ ~(Len(a) + i <= Len(a)) /\ (Len(a) + i) - Len(a) = i
    BY <1>1
  <2> QED BY <2>1
<1> QED BY <1>1, <1>2

(* Where the parts of a text are: behind a, the bar, s and the rest.       *)
LEMMA BarAndName ==
  ASSUME NEW a \in Seq(Nat), NEW bar \in Nat, NEW s \in Seq(Nat), NEW rest \in Seq(Nat),
         NEW src, src = (a \o (<<bar>> \o s)) \o rest
  PROVE  /\ src \in Seq(Nat) /\ (Len(a) + 1) + Len(s) <= Len(src)
         /\ src[Len(a) + 1] = bar
         /\ \A j \in 1..Len(s) : src[(Len(a) + 1) + j] = s[j]
         /\ Len(a \o (<<bar>> \o s)) = (Len(a) + 1) + Len(s)
<1> DEFINE b == <<bar>> \o s
           ab == a \o b
<1>1. <<bar>> \in Seq(Nat) /\ Len(<<bar>>) = 1 /\ <<bar>>[1] = bar
  OBVIOUS
<1>2. /\ b \in Seq(Nat) /\ Len(b) = 1 + Len(s) /\ b[1] = bar
      /\ \A j \in 1..Len(s) : b[1 + j] = s[j]
  BY <1>1
<1>3. Len(a) \in Nat /\ Len(s) \in Nat /\ Len(rest) \in Nat
  OBVIOUS
<1> HIDE DEF b
<1>4. /\ ab \in Seq(Nat) /\ Len(ab) = Len(a) + Len(b)
      /\ \A i \in 1..Len(b) : ab[Len(a) + i] = b[i]
  <2>1. b \in Seq(Nat) /\ a \in Seq(Nat)
    BY <1>2
  <2>2. /\ a \o b \in Seq(Nat) /\ Len(a \o b) = Len(a) + Len(b)
        /\ \A i \in 1..Len(b) : (a \o b)[Len(a) + i] = b[i]
    BY <2>1, Behind
  <2> QED BY <2>2 DEF ab
<1> HIDE DEF ab
<1>5. /\ src \in Seq(Nat) /\ Len(src) = Len(ab) + Len(rest)
      /\ \A i \in 1..Len(ab) : src[i] = ab[i]
  <2>1. src = ab \o rest
    BY DEF ab, b
  <2>2. ab \in Seq(Nat) /\ rest \in Seq(Nat)
    BY <1>4
  <2>3. /\ ab \o rest \in Seq(Nat) /\ Len(ab \o rest) = Len(ab) + Len(rest)
        /\ \A i \in 1..Len(ab) : (ab \o rest)[i] = ab[i]
    BY <2>2, Behind
  <2> QED BY <2>1, <2>3
<1>6. ASSUME NEW j \in 1..Len(s) PROVE src[(Len(a) + 1) + j] = s[j]
  <2>1. 1 + j \in 1..Len(b) /\ (Len(a) + 1) + j = Len(a) + (1 + j) /\ Len(a) + (1 + j) \in 1..Len(ab)
    BY <1>2, <1>3, <1>4
  <2> QED BY <1>2, <1>4, <1>5, <2>1
<1>7. src[Len(a) + 1] = bar
  <2>1. 1 \in 1..Len(b) /\ Len(a) + 1 \in 1..Len(ab)
    BY <1>2, <1>3, <1>4
  <2> QED BY <1>2, <1>4, <1>5, <2>1
<1>8. Len(ab) = (Len(a) + 1) + Len(s) /\ (Len(a) + 1) + Len(s) <= Len(src)
  BY <1>2, <1>3, <1>4, <1>5
<1> QED BY <1>5, <1>6, <1>7, <1>8 DEF ab, b

(* Behind the text of k names, k - 1 of them are taken and the last one is *)
(* the slice.                                                              *)
LEMMA NamesFound ==
  ASSUME NEW names \in Seq(Seq(Nat)), \A i \in 1..Len(names) : GoodName(names[i]), NEW k \in 1..Len(names),
         NEW src, src = JoinedNames(names), NEW g, Splits(g, src)
  PROVE  Found(g, Len(Together(names, k)), SubSeq(names, 1, k - 1), names[k])
<1> DEFINE n == Len(names)
           T(m) == Together(names, m + 1)
           K == {m \in Nat : m + 1 <= n => Found(g, Len(T(m)), SubSeq(names, 1, m), names[m + 1])}
<1>1. BAR \in Nat /\ n \in Nat
  BY RustNamesAssumption
<1>2. 0 \in K
  <2> SUFFICES ASSUME 0 + 1 <= n
               PROVE  Found(g, Len(T(0)), SubSeq(names, 1, 0), names[1])
    OBVIOUS
  <2>1. 1 \in 1..n
    OBVIOUS
  <2> DEFINE s == names[1]
  <2>2. s \in Seq(Nat) /\ GoodName(s) /\ T(0) = s
    BY <2>1, TogetherGrows
  <2>3. PICK rest \in Seq(Nat) : src = s \o rest
    BY <2>1, <2>2, TogetherGrows
  <2> HIDE DEF s, T, K
  <2>4. /\ src \in Seq(Nat) /\ 0 + Len(s) <= Len(src) /\ 0 \in 0..Len(src)
        /\ \A j \in 1..Len(s) : src[0 + j] = s[j]
    BY <2>2, <2>3
  <2>5. Found(g, 0, <<>>, <<>>)
    BY <2>4 DEF SliceBody, Splits, Found
  <2>6. Follows(src, 0, s)
    BY <2>2, <2>4, Zenon DEF GoodName, Follows
  <2>7. Found(g, 0 + Len(s), <<>>, s)
    BY <2>2, <2>4, <2>5, <2>6, SliceGrows
  <2>8. 0 + Len(s) = Len(s) /\ SubSeq(names, 1, 0) = <<>>
    BY <2>2
  <2> QED BY <2>2, <2>7, <2>8 DEF s
<1>3. ASSUME NEW m \in K PROVE m + 1 \in K
  <2> SUFFICES ASSUME (m + 1) + 1 <= n
               PROVE  Found(g, Len(T(m + 1)), SubSeq(names, 1, m + 1), names[(m + 1) + 1])
    OBVIOUS
  <2>1. m \in Nat /\ m + 1 \in 1..n /\ (m + 1) + 1 \in 1..n /\ m + 1 <= n
    BY <1>1
  <2> DEFINE a == T(m)
             s == names[(m + 1) + 1]
             t == SubSeq(names, 1, m)
             last == names[m + 1]
  <2>2. Found(g, Len(a), t, last)
    BY <2>1
  <2> HIDE DEF K
  <2>3. a \in Seq(Nat) /\ T(m + 1) = a \o (<<BAR>> \o s)
    BY <2>1, TogetherGrows
  <2>4. PICK rest \in Seq(Nat) : src = T(m + 1) \o rest
    BY <2>1, TogetherGrows
  <2>5. s \in Seq(Nat) /\ GoodName(s) /\ last \in Seq(Nat) /\ GoodName(last)
    BY <2>1
  <2> HIDE DEF a, s, t, last, T, n
  <2>6. /\ src \in Seq(Nat) /\ (Len(a) + 1) + Len(s) <= Len(src)
        /\ src[Len(a) + 1] = BAR
        /\ \A j \in 1..Len(s) : src[(Len(a) + 1) + j] = s[j]
        /\ Len(a \o (<<BAR>> \o s)) = (Len(a) + 1) + Len(s)
    <3>1. src = (a \o (<<BAR>> \o s)) \o rest
      BY <2>3, <2>4
    <3>2. a \in Seq(Nat) /\ BAR \in Nat /\ s \in Seq(Nat) /\ rest \in Seq(Nat)
      BY <1>1, <2>3, <2>5
    <3>3. \A x : x = (a \o (<<BAR>> \o s)) \o rest =>
            /\ x \in Seq(Nat) /\ (Len(a) + 1) + Len(s) <= Len(x)
            /\ x[Len(a) + 1] = BAR
            /\ \A j \in 1..Len(s) : x[(Len(a) + 1) + j] = s[j]
            /\ Len(a \o (<<BAR>> \o s)) = (Len(a) + 1) + Len(s)
      BY <3>2, BarAndName
    <3> QED BY <3>1, <3>3, Zenon
  <2> DEFINE p == Len(a) + 1
  <2>7. p \in Nat /\ p \in 0..Len(src) /\ p # 0 /\ p - 1 = Len(a)
    BY <2>3, <2>5, <2>6, SMTT(30)
  <2>8. Found(g, p, Append(t, last), <<>>)
    <3>1. g[p] = SliceBody(g, src, p)
      BY <2>7 DEF Splits
    <3>2. g[p] = Scanned(g[Len(a)], BAR)
      BY <2>6, <2>7, <3>1 DEF SliceBody
    <3> QED BY <2>2, <2>5, <3>2, GoodTaken DEF Found
  <2>9. Follows(src, p, s)
    BY <2>5, <2>6, Zenon DEF GoodName, Follows
  <2> HIDE DEF p
  <2>10. Found(g, p + Len(s), Append(t, last), s)
    BY <2>5, <2>6, <2>7, <2>8, <2>9, SliceGrows
  <2>11. Append(t, last) = SubSeq(names, 1, m + 1)
    BY <2>1, OneMore DEF t, last, n
  <2>12. Len(T(m + 1)) = p + Len(s)
    BY <2>3, <2>6 DEF p
  <2> QED BY <2>10, <2>11, <2>12 DEF s
<1>4. k - 1 \in K
  <2>1. K \in SUBSET Nat /\ k - 1 \in Nat
    OBVIOUS
  <2> HIDE DEF K
  <2> QED BY <1>2, <1>3, <2>1, SetInduction
<1>5. (k - 1) + 1 = k /\ k <= n
  OBVIOUS
<1> QED BY <1>4, <1>5

(* Splitting the text of joined names gives the names.                     *)
LEMMA SplitJoined ==
  ASSUME NEW names \in Seq(Seq(Nat)), names # <<>>, \A i \in 1..Len(names) : GoodName(names[i])
  PROVE  SplitStringToArray(JoinedNames(names), Len(names)) = names
<1> DEFINE n == Len(names)
           src == JoinedNames(names)
<1>1. n \in 1..n /\ n \in Nat
  OBVIOUS
<1>2. src = Together(names, n)
  BY DEF JoinedNames, Together, NamePieces, NamePiece
<1>3. src \in Seq(Nat)
  BY <1>1, <1>2, TogetherGrows
<1>4. PICK g : Splits(g, src) /\ Slices(src) = g[Len(src)]
  <2> HIDE DEF src
  <2> QED BY <1>3, SlicesUnfold
<1>5. Slices(src) = [taken |-> SubSeq(names, 1, n - 1), slice |-> names[n]]
  <2>1. Found(g, Len(Together(names, n)), SubSeq(names, 1, n - 1), names[n])
    <3>1. n \in 1..Len(names) /\ Splits(g, JoinedNames(names))
      BY <1>1, <1>4
    <3> HIDE DEF n
    <3> QED BY <3>1, NamesFound
  <2> QED BY <1>2, <1>4, <2>1 DEF Found
<1> HIDE DEF src
<1>6. names[n] \in Seq(Nat) /\ GoodName(names[n])
  BY <1>1
<1>7. WithSlice(Slices(src)) = Append(SubSeq(names, 1, n - 1), names[n])
  BY <1>5, <1>6, GoodTaken
<1>8. Append(SubSeq(names, 1, n - 1), names[n]) = names
  <2>1. n - 1 \in Nat /\ (n - 1) + 1 = n /\ n <= Len(names)
    BY <1>1
  <2>2. SubSeq(names, 1, (n - 1) + 1) = Append(SubSeq(names, 1, n - 1), names[(n - 1) + 1])
    BY <2>1, OneMore
  <2> QED BY <2>1, <2>2, SubSeqFull
<1>9. Cut(names, n) = names
  BY <1>1 DEF Cut
<1> QED BY <1>7, <1>8, <1>9 DEF SplitStringToArray, src

(* A text that is cut is no longer than the array and begins as before; a  *)
(* text that fits stays.                                                   *)
LEMMA CutFits ==
  ASSUME NEW text \in Seq(Nat), NEW len \in Nat
  PROVE  /\ Cut(text, len) \in Seq(Nat) /\ Len(Cut(text, len)) <= len
         /\ Len(text) <= len => Cut(text, len) = text
         /\ text # <<>> /\ len # 0 => Cut(text, len) # <<>>
<1>1. Len(text) \in Nat
  OBVIOUS
<1>2. CASE Len(text) <= len
  <2>1. Cut(text, len) = text
    BY <1>1, <1>2 DEF Cut
  <2> QED BY <1>2, <2>1
<1>3. CASE Len(text) > len
  <2>1. Cut(text, len) = SubSeq(text, 1, len)
    BY <1>3 DEF Cut
  <2>2. SubSeq(text, 1, len) \in Seq(Nat) /\ Len(SubSeq(text, 1, len)) = len
    BY <1>1, <1>3
  <2>3. len # 0 => SubSeq(text, 1, len) # <<>>
    BY <2>2
  <2> QED BY <1>1, <1>3, <2>1, <2>2, <2>3
<1> QED BY <1>1, <1>2, <1>3

(* The text of the names of a rule is not cut, nor is the number of names. *)
LEMMA RuleFits ==
  ASSUME NEW names \in Seq(Seq(Nat)), names # <<>>, \A i \in 1..Len(names) : GoodName(names[i]),
         Len(names) <= MAX_NUMBER_OF_EVENT_LIST
  PROVE  EventList(names) = JoinedNames(names) /\ ListSize(names) = Len(names)
<1> DEFINE n == Len(names)
           c == MAX_LENGTH_OF_EVENT_NAME + 1
           most == MAX_NUMBER_OF_EVENT_LIST
           text == JoinedNames(names)
<1>1. n \in 1..n /\ n \in Nat /\ n <= most
  OBVIOUS
<1>2. MAX_EVENT_LIST_LEN \in Nat /\ c \in Nat /\ c >= 2 /\ most \in Nat /\ MAX_EVENT_LIST_LEN >= most * c - 1
  BY RustNamesAssumption, LengthsTyped
<1>3. text = Together(names, n)
  BY DEF JoinedNames, Together, NamePieces, NamePiece
<1>4. text \in Seq(Nat)
  BY <1>1, <1>3, TogetherGrows
<1>5. Len(text) <= n * c - 1
  <2>1. Len(Together(names, n)) <= n * (MAX_LENGTH_OF_EVENT_NAME + 1) - 1
    BY <1>1, TogetherFits
  <2> QED BY <1>3, <2>1
<1> HIDE DEF n, c, most, text
<1>6. n * c <= most * c
  <2>1. PICK d \in Nat : most = n + d
    <3>1. most - n \in Nat /\ most = n + (most - n)
      BY <1>1, <1>2
    <3> QED BY <3>1
  <2>2. (n + d) * c = n * c + d * c /\ d * c >= 0
    BY <1>1, <1>2, <2>1
  <2>3. n * c \in Int /\ d * c \in Int
    BY <1>1, <1>2, <2>1
  <2> QED BY <2>1, <2>2, <2>3
<1>7. n <= n * c - 1
  <2>1. PICK d \in Nat : c = 2 + d
    <3>1. c - 2 \in Nat /\ c = 2 + (c - 2)
      BY <1>2
    <3> QED BY <3>1
  <2> DEFINE x == n * d
  <2>2. n * (2 + d) = 2 * n + x /\ x \in Nat
    BY <1>1, <2>1
  <2> HIDE DEF x
  <2>3. n >= 1 /\ n <= 2 * n + x - 1
    BY <1>1, <2>2
  <2>4. n * c = 2 * n + x
    <3>1. n * c = n * (2 + d)
      BY <2>1
    <3> QED BY <2>2, <3>1
  <2> DEFINE y == n * c
  <2> HIDE DEF y
  <2>5. n <= y - 1
    <3>1. y = 2 * n + x
      BY <2>4 DEF y
    <3> QED BY <1>1, <2>2, <2>3, <3>1
  <2> QED BY <2>5 DEF y
<1>8. n * c \in Int /\ most * c \in Int /\ Len(text) \in Nat
  BY <1>1, <1>2, <1>4
<1> DEFINE x == n * c
           y == most * c
<1>9. Len(text) <= MAX_EVENT_LIST_LEN /\ n <= MAX_EVENT_LIST_LEN
  <2>1. x \in Int /\ y \in Int /\ x <= y /\ n <= x - 1 /\ Len(text) <= x - 1 /\ MAX_EVENT_LIST_LEN >= y - 1
    BY <1>2, <1>5, <1>6, <1>7, <1>8
  <2> HIDE DEF x, y
  <2> QED BY <1>1, <1>2, <1>8, <2>1
<1>10. Cut(text, MAX_EVENT_LIST_LEN) = text
  BY <1>2, <1>4, <1>9, CutFits
<1> QED BY <1>9, <1>10 DEF EventList, ListSize, n, text

-----------------------------------------------------------------------------
(* A C string ends at the first NUL.                                       *)
LEMMA CStringEnds ==
  ASSUME NEW S, NEW bytes \in Seq(S)
  PROVE  \E n \in 0..Len(bytes) :
           /\ CString(bytes) = SubSeq(bytes, 1, n)
           /\ \A i \in 1..n : bytes[i] # NUL
           /\ n < Len(bytes) => bytes[n + 1] = NUL
<1> DEFINE texts == {n \in 0..Len(bytes) : \A i \in 1..n : bytes[i] # NUL}
           length == CHOOSE n \in texts : \A m \in texts : m <= n
<1>1. Len(bytes) \in Nat /\ texts \in SUBSET (0..Len(bytes)) /\ 0 \in texts
  OBVIOUS
<1>2. length \in texts /\ \A m \in texts : m <= length
  <2> HIDE DEF texts
  <2>1. \E n \in texts : \A m \in texts : m <= n
    BY <1>1, GreatestNatural
  <2> QED BY <2>1
<1>3. CString(bytes) = SubSeq(bytes, 1, length)
  BY DEF CString
<1> HIDE DEF length
<1>4. length \in 0..Len(bytes) /\ \A i \in 1..length : bytes[i] # NUL
  BY <1>2
<1>5. ASSUME length < Len(bytes), bytes[length + 1] # NUL PROVE FALSE
  <2>1. \A i \in 1..(length + 1) : i \in 1..length \/ i = length + 1
    BY <1>4
  <2>2. length + 1 \in 0..Len(bytes)
    BY <1>1, <1>4, <1>5
  <2>3. length + 1 \in texts
    BY <1>4, <1>5, <2>1, <2>2
  <2> HIDE DEF texts
  <2> QED BY <1>2, <1>4, <2>3
<1> QED BY <1>3, <1>4, <1>5

(* The first elements of a sequence.                                       *)
LEMMA FirstElements ==
  ASSUME NEW S, NEW s \in Seq(S), NEW n \in 0..Len(s)
  PROVE  /\ SubSeq(s, 1, n) \in Seq(S) /\ Len(SubSeq(s, 1, n)) = n
         /\ \A i \in 1..n : SubSeq(s, 1, n)[i] = s[i]
OBVIOUS

(* A text in memory: what is read begins with it, and is the text if a NUL *)
(* follows.                                                                *)
LEMMA CStringBegins ==
  ASSUME NEW S, NEW text \in Seq(S), NEW bytes \in Seq(S), Len(text) <= Len(bytes),
         \A i \in 1..Len(text) : bytes[i] = text[i] /\ text[i] # NUL
  PROVE  /\ Begins(text, CString(bytes))
         /\ Len(text) < Len(bytes) /\ bytes[Len(text) + 1] = NUL => CString(bytes) = text
<1> DEFINE k == Len(text)
<1>1. k \in Nat /\ Len(bytes) \in Nat
  OBVIOUS
<1>2. PICK n \in 0..Len(bytes) : /\ CString(bytes) = SubSeq(bytes, 1, n)
                                 /\ \A i \in 1..n : bytes[i] # NUL
                                 /\ n < Len(bytes) => bytes[n + 1] = NUL
  BY CStringEnds
<1> HIDE DEF k
<1>3. k <= n
  <2> SUFFICES ASSUME n < k PROVE FALSE
    BY <1>1, <1>2
  <2>1. n < Len(bytes) /\ n + 1 \in 1..k
    BY <1>1 DEF k
  <2> QED BY <1>2, <2>1 DEF k
<1> DEFINE got == SubSeq(bytes, 1, n)
<1>4. got \in Seq(S) /\ Len(got) = n /\ \A i \in 1..n : got[i] = bytes[i]
  BY FirstElements
<1> HIDE DEF got
<1>5. SubSeq(got, 1, k) = text
  <2> DEFINE sub == SubSeq(got, 1, k)
  <2>1. sub \in Seq(S) /\ Len(sub) = k /\ \A i \in 1..k : sub[i] = got[i]
    <3>1. k \in 0..Len(got)
      BY <1>1, <1>3, <1>4
    <3> QED BY <1>4, <3>1, FirstElements
  <2> HIDE DEF sub
  <2>2. \A i \in 1..k : sub[i] = text[i]
    <3>1. \A i \in 1..k : i \in 1..n
      BY <1>1, <1>3
    <3> QED BY <1>4, <2>1, <3>1 DEF k
  <2>3. sub = text
    BY <2>1, <2>2, SeqEqual, Zenon DEF k
  <2> QED BY <2>3 DEF sub
<1>6. Begins(text, CString(bytes))
  BY <1>2, <1>3, <1>4, <1>5 DEF Begins, got, k
<1>7. ASSUME k < Len(bytes), bytes[k + 1] = NUL PROVE CString(bytes) = text
  <2>1. n = k
    <3> SUFFICES ASSUME n # k PROVE FALSE
      OBVIOUS
    <3>1. k + 1 \in 1..n
      BY <1>1, <1>3
    <3> QED BY <1>2, <1>7, <3>1
  <2>2. SubSeq(got, 1, k) = got
    <3>1. got \in Seq(S) /\ Len(got) = k
      BY <1>4, <2>1
    <3> QED BY <3>1, SubSeqFull
  <2> QED BY <1>2, <1>5, <2>2 DEF got
<1> QED BY <1>6, <1>7 DEF k

(* The same for a text in one of several arrays.                           *)
LEMMA ReadBegins ==
  ASSUME NEW S, NEW arrays \in Seq(Seq(S)), NEW j \in 1..Len(arrays), NEW text \in Seq(S),
         Len(text) <= Len(arrays[j]),
         \A i \in 1..Len(text) : arrays[j][i] = text[i] /\ text[i] # NUL
  PROVE  /\ Begins(text, ReadFrom(arrays, j))
         /\ Len(text) < Len(arrays[j]) /\ arrays[j][Len(text) + 1] = NUL => ReadFrom(arrays, j) = text
<1> DEFINE rest == SubSeq(arrays, j + 1, Len(arrays))
           behind == FlattenSeq(rest)
           bytes == arrays[j] \o behind
<1>1. arrays[j] \in Seq(S) /\ Len(text) \in Nat /\ Len(arrays[j]) \in Nat
  OBVIOUS
<1>2. behind \in Seq(S)
  <2>1. rest \in Seq(Seq(S))
    OBVIOUS
  <2> HIDE DEF rest
  <2> QED BY <2>1, FlattenType
<1>3. ReadFrom(arrays, j) = CString(bytes)
  BY DEF ReadFrom
<1> HIDE DEF behind
<1>4. /\ bytes \in Seq(S) /\ Len(bytes) = Len(arrays[j]) + Len(behind) /\ Len(behind) \in Nat
      /\ \A i \in 1..Len(arrays[j]) : bytes[i] = arrays[j][i]
  BY <1>1, <1>2, Behind
<1> HIDE DEF bytes
<1>5. Len(text) <= Len(bytes) /\ \A i \in 1..Len(text) : bytes[i] = text[i] /\ text[i] # NUL
  BY <1>1, <1>4
<1>6. /\ Begins(text, CString(bytes))
      /\ Len(text) < Len(bytes) /\ bytes[Len(text) + 1] = NUL => CString(bytes) = text
  BY <1>4, <1>5, CStringBegins
<1>7. Len(text) < Len(arrays[j]) => Len(text) < Len(bytes) /\ bytes[Len(text) + 1] = arrays[j][Len(text) + 1]
  BY <1>1, <1>4
<1> QED BY <1>3, <1>6, <1>7

(* The bytes of an array.                                                  *)
LEMMA ArrayTyped ==
  ASSUME NEW text \in Seq(Nat), NEW len \in Nat, NEW held \in Seq(Nat), len <= Len(held)
  PROVE  /\ InArray(text, len, held) \in Seq(Nat) /\ Len(InArray(text, len, held)) = len
         /\ \A i \in 1..len : InArray(text, len, held)[i] = IF i <= Len(text) THEN text[i] ELSE held[i]
<1>1. \A i \in 1..len : (IF i <= Len(text) THEN text[i] ELSE held[i]) \in Nat
  OBVIOUS
<1> QED BY <1>1 DEF InArray

(* A text that a C string can hold.                                        *)
NoNul(text) == \A k \in 1..Len(text) : text[k] # NUL

(* A text that was copied into an array and leaves room for a terminator.  *)
Stored(text, array) ==
  /\ NoNul(text) /\ Len(text) < Len(array)
  /\ \A i \in 1..Len(text) : array[i] = text[i]

LEMMA ArrayStores ==
  ASSUME NEW text \in Seq(Nat), NoNul(text), NEW len \in Nat, Len(text) < len,
         NEW held \in Seq(Nat), len <= Len(held)
  PROVE  /\ Stored(text, InArray(text, len, held))
         /\ InArray(text, len, held)[Len(text) + 1] = held[Len(text) + 1]
<1> DEFINE array == InArray(text, len, held)
<1>1. /\ Len(array) = len
      /\ \A i \in 1..len : array[i] = IF i <= Len(text) THEN text[i] ELSE held[i]
  BY ArrayTyped
<1>2. Len(text) \in Nat
  OBVIOUS
<1> HIDE DEF array
<1>3. \A i \in 1..Len(text) : array[i] = text[i]
  BY <1>1, <1>2
<1>4. array[Len(text) + 1] = held[Len(text) + 1]
  <2>1. Len(text) + 1 \in 1..len /\ ~(Len(text) + 1 <= Len(text))
    BY <1>2
  <2> QED BY <1>1, <2>1
<1> QED BY <1>1, <1>3, <1>4 DEF Stored, array

(* It is read as far as it goes, and further on only without a NUL.        *)
LEMMA StoredRead ==
  ASSUME NEW S, NEW arrays \in Seq(Seq(S)), NEW j \in 1..Len(arrays), NEW text \in Seq(S),
         Stored(text, arrays[j])
  PROVE  /\ Begins(text, ReadFrom(arrays, j))
         /\ arrays[j][Len(text) + 1] = NUL => ReadFrom(arrays, j) = text
<1>1. Len(text) \in Nat /\ arrays[j] \in Seq(S)
  OBVIOUS
<1>2. /\ Len(text) < Len(arrays[j])
      /\ \A i \in 1..Len(text) : arrays[j][i] = text[i] /\ text[i] # NUL
  BY DEF Stored, NoNul
<1>3. Len(text) <= Len(arrays[j])
  BY <1>1, <1>2
<1>4. /\ Begins(text, ReadFrom(arrays, j))
      /\ Len(text) < Len(arrays[j]) /\ arrays[j][Len(text) + 1] = NUL => ReadFrom(arrays, j) = text
  BY <1>2, <1>3, ReadBegins
<1> QED BY <1>2, <1>4

(* The arrays of a query rule.                                             *)
LEMMA RuleArrays ==
  ASSUME NEW domain \in Seq(Nat), NEW names, NEW held \in Seq(Nat),
         MAX_LENGTH_OF_EVENT_DOMAIN <= Len(held)
  PROVE  LET rule == QueryRule(domain, names, held)
             parts == SplitStringToArray(EventList(names), ListSize(names))
         IN  \E S : /\ Nat \subseteq S /\ rule \in Seq(Seq(S)) /\ Len(rule) = MAX_NUMBER_OF_EVENT_LIST + 2
                    /\ rule[1] = InArray(domain, MAX_LENGTH_OF_EVENT_DOMAIN, held)
                    /\ \A i \in 1..MAX_NUMBER_OF_EVENT_LIST :
                         rule[i + 1] = InArray(IF i <= Len(parts) THEN parts[i] ELSE <<>>,
                                               MAX_LENGTH_OF_EVENT_NAME, held)
<1> DEFINE parts == SplitStringToArray(EventList(names), ListSize(names))
           most == MAX_NUMBER_OF_EVENT_LIST
           len == MAX_LENGTH_OF_EVENT_NAME
           entry(i) == InArray(IF i <= Len(parts) THEN parts[i] ELSE <<>>, len, held)
           S == Nat \cup {entry(i)[k] : i \in 1..most, k \in 1..len}
           first == InArray(domain, MAX_LENGTH_OF_EVENT_DOMAIN, held)
           entries == [i \in 1..most |-> entry(i)]
<1>1. most \in Nat /\ len \in Nat /\ MAX_LENGTH_OF_EVENT_DOMAIN \in Nat
  BY RustNamesAssumption DEF ArrayLengths
<1>2. QueryRule(domain, names, held) = <<first>> \o entries \o <<held>>
  BY DEF QueryRule
<1>3. first \in Seq(S) /\ held \in Seq(S)
  <2>1. first \in Seq(Nat)
    BY <1>1, ArrayTyped
  <2>2. Nat \subseteq S
    OBVIOUS
  <2> HIDE DEF S, first
  <2> QED BY <2>1, <2>2
<1>4. \A i \in 1..most : entry(i) \in Seq(S)
  <2> SUFFICES ASSUME NEW i \in 1..most PROVE entry(i) \in Seq(S)
    OBVIOUS
  <2>1. \A k \in 1..len : entry(i)[k] \in S
    OBVIOUS
  <2>2. entry(i) = [k \in 1..len |-> entry(i)[k]]
    BY DEF InArray
  <2> HIDE DEF S, entry
  <2>3. entry(i) \in [1..len -> S]
    BY <2>1, <2>2
  <2>4. \A f \in [1..len -> S] : f \in Seq(S)
    BY <1>1
  <2> QED BY <2>3, <2>4
<1> HIDE DEF S, first
<1>5. entries \in Seq(Seq(S)) /\ Len(entries) = most /\ \A i \in 1..most : entries[i] = entry(i)
  <2>1. entries \in [1..most -> Seq(S)]
    BY <1>4
  <2> QED BY <1>1, <2>1
<1> HIDE DEF entries
<1> DEFINE rule == <<first>> \o entries \o <<held>>
<1>6. /\ rule \in Seq(Seq(S)) /\ Len(rule) = most + 2 /\ rule[1] = first
      /\ \A i \in 1..most : rule[i + 1] = entries[i]
  BY <1>1, <1>3, <1>5
<1> HIDE DEF rule
<1>7. \A i \in 1..most : rule[i + 1] = entry(i)
  BY <1>5, <1>6
<1>8. Nat \subseteq S
  BY DEF S
<1> QED BY <1>2, <1>6, <1>7, <1>8 DEF rule, first

(* How much of the memory is known.                                        *)
LEMMA FillsReach ==
  ASSUME NEW held \in Fills
  PROVE  /\ held \in Seq(Nat)
         /\ MAX_LENGTH_OF_EVENT_NAME \in Nat \ {0} /\ MAX_LENGTH_OF_EVENT_NAME <= Len(held)
         /\ MAX_LENGTH_OF_EVENT_DOMAIN \in Nat \ {0} /\ MAX_LENGTH_OF_EVENT_DOMAIN <= Len(held)
         /\ MAX_LENGTH_OF_EVENT_TAG \in Nat \ {0} /\ MAX_LENGTH_OF_EVENT_TAG <= Len(held)
         /\ MAX_LENGTH_OF_PARAM_NAME \in Nat \ {0} /\ MAX_LENGTH_OF_PARAM_NAME <= Len(held)
<1>1. held \in Seq(Nat) /\ \A n \in ArrayLengths : n \in Nat \ {0} /\ Len(held) >= n
  BY RustNamesAssumption
<1> QED BY <1>1 DEF ArrayLengths

(* What HiSysEventQuery reads of the names of a rule.                      *)
LEMMA EntriesCopied ==
  ASSUME NEW domain \in Seq(Nat), NEW names \in Seq(Seq(Nat)), names # <<>>,
         \A i \in 1..Len(names) : GoodName(names[i]) /\ NoNul(names[i]),
         Len(names) <= MAX_NUMBER_OF_EVENT_LIST, NEW held \in Fills,
         NEW list, list = QueryEventList(domain, names, held)
  PROVE  /\ ~list.overflow /\ Len(list.entries) = Len(names)
         /\ \A i \in 1..Len(names) :
              /\ Begins(names[i], list.entries[i])
              /\ held[Len(names[i]) + 1] = NUL => list.entries[i] = names[i]
<1> DEFINE n == Len(names)
           parts == SplitStringToArray(EventList(names), ListSize(names))
           rule == QueryRule(domain, names, held)
           entries == [i \in 1..ListSize(names) |->
                         IF i > MAX_NUMBER_OF_EVENT_LIST THEN <<>> ELSE ReadFrom(rule, i + 1)]
<1>1. list.entries = entries /\ list.overflow = (ListSize(names) > MAX_NUMBER_OF_EVENT_LIST)
  BY DEF QueryEventList
<1>2. ListSize(names) = n /\ n \in Nat /\ MAX_NUMBER_OF_EVENT_LIST \in Nat /\ n <= MAX_NUMBER_OF_EVENT_LIST
  BY RuleFits, LengthsTyped
<1>3. parts = names
  <2>1. parts = SplitStringToArray(JoinedNames(names), n)
    BY RuleFits
  <2> HIDE DEF parts
  <2> QED BY <2>1, SplitJoined
<1>4. PICK S : /\ Nat \subseteq S /\ rule \in Seq(Seq(S)) /\ Len(rule) = MAX_NUMBER_OF_EVENT_LIST + 2
               /\ \A i \in 1..MAX_NUMBER_OF_EVENT_LIST :
                    rule[i + 1] = InArray(IF i <= Len(parts) THEN parts[i] ELSE <<>>,
                                          MAX_LENGTH_OF_EVENT_NAME, held)
  BY RuleArrays, FillsReach
<1> HIDE DEF parts, rule, n
<1>5. ASSUME NEW i \in 1..n
      PROVE  /\ Begins(names[i], entries[i])
             /\ held[Len(names[i]) + 1] = NUL => entries[i] = names[i]
  <2>1. i \in 1..MAX_NUMBER_OF_EVENT_LIST /\ i + 1 \in 1..Len(rule)
    <3>1. i \in Nat /\ i >= 1 /\ i <= MAX_NUMBER_OF_EVENT_LIST
      BY <1>2
    <3>2. Len(rule) = MAX_NUMBER_OF_EVENT_LIST + 2
      BY <1>4
    <3> QED BY <1>2, <3>1, <3>2
  <2>2. entries[i] = ReadFrom(rule, i + 1)
    BY <1>2, <2>1
  <2>3. rule[i + 1] = InArray(names[i], MAX_LENGTH_OF_EVENT_NAME, held)
    <3>1. i <= Len(parts) /\ parts[i] = names[i]
      BY <1>2, <1>3 DEF n
    <3> QED BY <1>4, <2>1, <3>1
  <2>4. names[i] \in Seq(Nat) /\ Len(names[i]) < MAX_LENGTH_OF_EVENT_NAME
    <3> HIDE DEF entries
    <3>1. i \in 1..Len(names)
      BY DEF n
    <3>2. names[i] \in Seq(Nat)
      BY <3>1
    <3>3. GoodName(names[i])
      BY <3>1, Zenon
    <3> QED BY <3>2, <3>3 DEF GoodName
  <2>5. NoNul(names[i])
    BY DEF n
  <2>6. /\ held \in Seq(Nat) /\ MAX_LENGTH_OF_EVENT_NAME \in Nat
        /\ MAX_LENGTH_OF_EVENT_NAME <= Len(held)
    BY FillsReach
  <2> HIDE DEF entries
  <2>7. /\ Begins(names[i], ReadFrom(rule, i + 1))
        /\ held[Len(names[i]) + 1] = NUL => ReadFrom(rule, i + 1) = names[i]
    <3> DEFINE array == InArray(names[i], MAX_LENGTH_OF_EVENT_NAME, held)
    <3>1. Stored(names[i], array) /\ array[Len(names[i]) + 1] = held[Len(names[i]) + 1]
      BY <2>4, <2>5, <2>6, ArrayStores
    <3> HIDE DEF array
    <3>2. rule[i + 1] = array
      BY <2>3 DEF array
    <3>3. names[i] \in Seq(S) /\ Stored(names[i], rule[i + 1])
      BY <1>4, <2>4, <3>1, <3>2
    <3> QED BY <1>4, <2>1, <3>1, <3>2, <3>3, StoredRead
  <2> QED BY <2>2, <2>7
<1>6. Len(entries) = n
  BY <1>2
<1>7. ~list.overflow
  <2>1. ~(ListSize(names) > MAX_NUMBER_OF_EVENT_LIST)
    BY <1>2
  <2> QED BY <1>1, <2>1, Zenon
<1> HIDE DEF entries
<1> QED BY <1>1, <1>5, <1>6, <1>7 DEF n

(* What it reads as the domain.                                            *)
LEMMA DomainCopied ==
  ASSUME NEW domain \in Seq(Nat), NoNul(domain), NEW names, NEW held \in Fills
  PROVE  /\ Len(domain) < MAX_LENGTH_OF_EVENT_DOMAIN =>
              /\ Begins(domain, QueryDomain(domain, names, held))
              /\ held[Len(domain) + 1] = NUL => QueryDomain(domain, names, held) = domain
         /\ domain # <<>> => QueryDomain(domain, names, held) # <<>>
<1> DEFINE rule == QueryRule(domain, names, held)
           len == MAX_LENGTH_OF_EVENT_DOMAIN
<1>1. held \in Seq(Nat) /\ len \in Nat \ {0} /\ len <= Len(held)
  BY FillsReach
<1>2. PICK S : /\ Nat \subseteq S /\ rule \in Seq(Seq(S)) /\ Len(rule) = MAX_NUMBER_OF_EVENT_LIST + 2
               /\ rule[1] = InArray(domain, len, held)
  BY <1>1, RuleArrays
<1>3. QueryDomain(domain, names, held) = ReadFrom(rule, 1)
  BY DEF QueryDomain
<1> HIDE DEF rule, len
<1>4. 1 \in 1..Len(rule)
  <2>1. MAX_NUMBER_OF_EVENT_LIST \in Nat
    BY RustNamesAssumption
  <2> QED BY <1>2, <2>1
<1>5. Len(domain) < len =>
        /\ Begins(domain, ReadFrom(rule, 1))
        /\ held[Len(domain) + 1] = NUL => ReadFrom(rule, 1) = domain
  <2> SUFFICES ASSUME Len(domain) < len
               PROVE  /\ Begins(domain, ReadFrom(rule, 1))
                      /\ held[Len(domain) + 1] = NUL => ReadFrom(rule, 1) = domain
    OBVIOUS
  <2>1. Stored(domain, rule[1]) /\ rule[1][Len(domain) + 1] = held[Len(domain) + 1]
    BY <1>1, <1>2, ArrayStores
  <2>2. domain \in Seq(S)
    BY <1>2
  <2> QED BY <1>2, <1>4, <2>1, <2>2, StoredRead
<1>6. ASSUME domain # <<>> PROVE ReadFrom(rule, 1) # <<>>
  <2> DEFINE first == <<domain[1]>>
  <2>1. 1 \in 1..Len(domain) /\ domain[1] \in Nat
    BY <1>6
  <2>2. first \in Seq(S) /\ Len(first) = 1 /\ first[1] = domain[1]
    BY <1>2, <2>1
  <2>3. Len(rule[1]) = len /\ rule[1][1] = domain[1]
    <3> DEFINE array == InArray(domain, len, held)
    <3>1. /\ Len(array) = len
          /\ \A i \in 1..len : array[i] = IF i <= Len(domain) THEN domain[i] ELSE held[i]
      BY <1>1, ArrayTyped
    <3> HIDE DEF array
    <3>2. 1 \in 1..len /\ 1 <= Len(domain)
      BY <1>1, <2>1
    <3>3. array[1] = domain[1]
      BY <3>1, <3>2
    <3>4. rule[1] = array
      BY <1>2 DEF array
    <3> QED BY <3>1, <3>3, <3>4
  <2> HIDE DEF first
  <2>4. \A i \in 1..Len(first) : rule[1][i] = first[i] /\ first[i] # NUL
    <3>1. \A i \in 1..Len(first) : i = 1
      BY <2>2
    <3> QED BY <2>1, <2>2, <2>3, <3>1 DEF NoNul
  <2>5. Begins(first, ReadFrom(rule, 1))
    <3>1. Len(first) <= Len(rule[1])
      BY <1>1, <2>2, <2>3
    <3> QED BY <1>2, <1>4, <2>2, <2>4, <3>1, ReadBegins
  <2>6. Len(<<>>) = 0
    OBVIOUS
  <2> QED BY <2>2, <2>5, <2>6 DEF Begins
<1> QED BY <1>3, <1>5, <1>6 DEF len

(* What is read as the name of a parameter.                                *)
LEMMA ParamNameCopied ==
  ASSUME NEW name \in Seq(Nat), NoNul(name), NEW held \in Fills,
         Len(name) < MAX_LENGTH_OF_PARAM_NAME
  PROVE  /\ Begins(name, WrittenParamName(name, held))
         /\ held[Len(name) + 1] = NUL => WrittenParamName(name, held) = name
<1> DEFINE len == MAX_LENGTH_OF_PARAM_NAME
           arrays == <<InArray(name, len, held), held>>
<1>1. held \in Seq(Nat) /\ len \in Nat /\ len <= Len(held) /\ Len(name) < len
  BY FillsReach
<1>2. arrays \in Seq(Seq(Nat)) /\ Len(arrays) = 2 /\ arrays[1] = InArray(name, len, held)
  <2>1. InArray(name, len, held) \in Seq(Nat)
    BY <1>1, ArrayTyped
  <2> QED BY <1>1, <2>1
<1>3. WrittenParamName(name, held) = ReadFrom(arrays, 1)
  BY DEF WrittenParamName
<1> HIDE DEF arrays
<1>4. 1 \in 1..Len(arrays)
  BY <1>2
<1>5. /\ Begins(name, ReadFrom(arrays, 1))
      /\ held[Len(name) + 1] = NUL => ReadFrom(arrays, 1) = name
  <2> HIDE DEF len
  <2>1. Stored(name, arrays[1]) /\ arrays[1][Len(name) + 1] = held[Len(name) + 1]
    BY <1>1, <1>2, ArrayStores
  <2> QED BY <1>2, <1>4, <2>1, StoredRead
<1> QED BY <1>3, <1>5

(* The arrays of a watch rule are zeros behind their texts.                *)
LEMMA WatchArrays ==
  ASSUME NEW text \in Seq(Nat), NEW held \in Fills, NEW rule, rule = WatchRule(text, text, text, held)
  PROVE  /\ rule \in Seq(Seq(Nat)) /\ Len(rule) = 4
         /\ rule[1] = trans_slice_to_array(text, MAX_LENGTH_OF_EVENT_DOMAIN)
         /\ rule[2] = trans_slice_to_array(text, MAX_LENGTH_OF_EVENT_NAME)
         /\ rule[3] = trans_slice_to_array(text, MAX_LENGTH_OF_EVENT_TAG)
<1>1. \A len \in Nat : trans_slice_to_array(text, len) \in Seq(Nat)
  <2> SUFFICES ASSUME NEW len \in Nat PROVE trans_slice_to_array(text, len) \in Seq(Nat)
    OBVIOUS
  <2> DEFINE zeros == [i \in 1..len |-> NUL]
  <2>1. zeros \in Seq(Nat) /\ Len(zeros) = len
    BY RustNamesAssumption
  <2> HIDE DEF zeros
  <2>2. InArray(text, len, zeros) \in Seq(Nat)
    BY <2>1, ArrayTyped
  <2> QED BY <2>2 DEF trans_slice_to_array, zeros
<1> QED BY <1>1, FillsReach DEF WatchRule

(* A text that is shorter than its array of zeros is read as it is.        *)
LEMMA WatchedRead ==
  ASSUME NEW text \in Seq(Nat), NoNul(text), NEW len \in Nat, Len(text) < len,
         NEW rule \in Seq(Seq(Nat)), NEW j \in 1..Len(rule), rule[j] = trans_slice_to_array(text, len)
  PROVE  ReadFrom(rule, j) = text
<1> DEFINE zeros == [i \in 1..len |-> NUL]
<1>1. zeros \in Seq(Nat) /\ Len(zeros) = len
  BY RustNamesAssumption
<1>2. zeros[Len(text) + 1] = NUL
  <2>1. Len(text) + 1 \in 1..len
    OBVIOUS
  <2> QED BY <2>1
<1>3. rule[j] = InArray(text, len, zeros)
  BY DEF trans_slice_to_array
<1> HIDE DEF zeros
<1>4. Stored(text, rule[j]) /\ rule[j][Len(text) + 1] = NUL
  <2> DEFINE array == InArray(text, len, zeros)
  <2>1. Len(text) < len /\ len <= Len(zeros)
    BY <1>1
  <2>2. Stored(text, array) /\ array[Len(text) + 1] = zeros[Len(text) + 1]
    BY <1>1, <2>1, ArrayStores
  <2> HIDE DEF array
  <2>3. rule[j] = array
    BY <1>3 DEF array
  <2> QED BY <1>2, <2>2, <2>3
<1> QED BY <1>4, StoredRead

(* The step of the Rust interface.                                         *)
LEMMA RustStep == QueryRust => RustNamesArrive'
<1> SUFFICES ASSUME QueryRust PROVE RustNamesArrive'
  OBVIOUS
<1>1. PICK names \in RustNames, held \in Fills :
        /\ call' = [api |-> "rust", names |-> names, held |-> held]
        /\ \E condition \in QueryCondition(names[1], held) :
             answer' = [list |-> QueryEventList(names[1], names, held),
                        domain |-> QueryDomain(names[1], names, held),
                        taken |-> RuleAccepted(names[1], names, held),
                        condition |-> condition,
                        watched |-> WatchTexts(names[1], names[1], names[1], held),
                        param |-> WrittenParamName(names[1], held)]
  BY DEF QueryRust, Called
<1> DEFINE text == names[1]
<1>2. names \in Seq(Seq(Nat \ {NUL})) /\ names # <<>>
  BY RustNamesAssumption
<1>3. names \in Seq(Seq(Nat)) /\ \A i \in 1..Len(names) : NoNul(names[i])
  <2>1. \A i \in 1..Len(names) : names[i] \in Seq(Nat \ {NUL})
    BY <1>2
  <2>2. \A i \in 1..Len(names) : names[i] \in Seq(Nat) /\ NoNul(names[i])
    BY <2>1 DEF NoNul
  <2> QED BY <1>2, <2>2
<1>4. text \in Seq(Nat) /\ NoNul(text)
  <2>1. 1 \in 1..Len(names)
    BY <1>2
  <2> QED BY <1>3, <2>1
<1>5. /\ answer'.list = QueryEventList(text, names, held)
      /\ answer'.domain = QueryDomain(text, names, held)
      /\ answer'.taken = RuleAccepted(text, names, held)
      /\ answer'.watched = WatchTexts(text, text, text, held)
      /\ answer'.param = WrittenParamName(text, held)
  BY <1>1
<1>6. call'.api = "rust" /\ call'.names = names /\ call'.held = held
  BY <1>1
<1> HIDE DEF text
<1>7. ASSUME GoodRule'
      PROVE  /\ ~answer'.list.overflow /\ answer'.taken
             /\ Len(answer'.list.entries) = Len(names)
             /\ \A i \in 1..Len(names) :
                  /\ Begins(names[i], answer'.list.entries[i])
                  /\ held[Len(names[i]) + 1] = NUL => answer'.list.entries[i] = names[i]
  <2>1. Len(names) <= MAX_NUMBER_OF_EVENT_LIST /\ \A i \in 1..Len(names) : GoodName(names[i])
    BY <1>6, <1>7 DEF GoodRule
  <2>2. text # <<>> /\ Len(names) # 0
    <3>1. 1 \in 1..Len(names)
      BY <1>2
    <3> QED BY <2>1, <3>1 DEF GoodName, text
  <2>3. answer'.taken
    BY <1>4, <1>5, <2>2, DomainCopied DEF RuleAccepted
  <2>4. \A i \in 1..Len(names) : GoodName(names[i]) /\ NoNul(names[i])
    BY <1>3, <2>1
  <2>5. /\ ~answer'.list.overflow /\ Len(answer'.list.entries) = Len(names)
        /\ \A i \in 1..Len(names) :
             /\ Begins(names[i], answer'.list.entries[i])
             /\ held[Len(names[i]) + 1] = NUL => answer'.list.entries[i] = names[i]
    <3>1. names # <<>> /\ names \in Seq(Seq(Nat)) /\ text \in Seq(Nat)
      BY <1>2, <1>3, <1>4
    <3> DEFINE list == QueryEventList(text, names, held)
    <3> HIDE DEF list
    <3>2. /\ ~list.overflow /\ Len(list.entries) = Len(names)
          /\ \A i \in 1..Len(names) :
               /\ Begins(names[i], list.entries[i])
               /\ held[Len(names[i]) + 1] = NUL => list.entries[i] = names[i]
      BY <2>1, <2>4, <3>1, EntriesCopied DEF list
    <3> QED BY <1>5, <3>2 DEF list
  <2> QED BY <2>3, <2>5
<1>8. /\ Len(text) < MAX_LENGTH_OF_EVENT_DOMAIN =>
           Begins(text, answer'.domain) /\ (held[Len(text) + 1] = NUL => answer'.domain = text)
      /\ Len(text) < MAX_LENGTH_OF_PARAM_NAME =>
           Begins(text, answer'.param) /\ (held[Len(text) + 1] = NUL => answer'.param = text)
  BY <1>4, <1>5, DomainCopied, ParamNameCopied
<1>9. /\ Len(text) < MAX_LENGTH_OF_EVENT_DOMAIN => answer'.watched.domain = text
      /\ Len(text) < MAX_LENGTH_OF_EVENT_NAME => answer'.watched.name = text
      /\ Len(text) < MAX_LENGTH_OF_EVENT_TAG => answer'.watched.tag = text
  <2> DEFINE rule == WatchRule(text, text, text, held)
  <2>1. /\ rule \in Seq(Seq(Nat)) /\ Len(rule) = 4
        /\ rule[1] = trans_slice_to_array(text, MAX_LENGTH_OF_EVENT_DOMAIN)
        /\ rule[2] = trans_slice_to_array(text, MAX_LENGTH_OF_EVENT_NAME)
        /\ rule[3] = trans_slice_to_array(text, MAX_LENGTH_OF_EVENT_TAG)
    BY <1>4, WatchArrays
  <2>2. /\ answer'.watched.domain = ReadFrom(rule, 1) /\ answer'.watched.name = ReadFrom(rule, 2)
        /\ answer'.watched.tag = ReadFrom(rule, 3)
    BY <1>5 DEF WatchTexts
  <2> HIDE DEF rule
  <2>3. 1 \in 1..Len(rule) /\ 2 \in 1..Len(rule) /\ 3 \in 1..Len(rule)
    BY <2>1
  <2>4. Len(text) < MAX_LENGTH_OF_EVENT_DOMAIN => ReadFrom(rule, 1) = text
    BY <1>4, <2>1, <2>3, FillsReach, WatchedRead
  <2>5. Len(text) < MAX_LENGTH_OF_EVENT_NAME => ReadFrom(rule, 2) = text
    BY <1>4, <2>1, <2>3, FillsReach, WatchedRead
  <2>6. Len(text) < MAX_LENGTH_OF_EVENT_TAG => ReadFrom(rule, 3) = text
    BY <1>4, <2>1, <2>3, FillsReach, WatchedRead
  <2> QED BY <2>2, <2>4, <2>5, <2>6
<1> QED BY <1>6, <1>7, <1>8, <1>9 DEF RustNamesArrive, Copied, text

-----------------------------------------------------------------------------
(* Keep puts together a part for every element.                            *)
KeptPart(e, set) == IF e \in set THEN <<e>> ELSE <<>>
KeptParts(seq, set) == [i \in 1..Len(seq) |-> KeptPart(seq[i], set)]

(* The part of an element.                                                 *)
LEMMA KeptPartTyped ==
  ASSUME NEW T, NEW A, NEW e, e \in A => e \in T
  PROVE  KeptPart(e, A) \in Seq(T)
<1>1. CASE e \in A
  <2>1. KeptPart(e, A) = <<e>> /\ <<e>> \in Seq(T)
    BY <1>1 DEF KeptPart
  <2> QED BY <2>1
<1>2. CASE e \notin A
  <2>1. KeptPart(e, A) = <<>> /\ <<>> \in Seq(T)
    BY <1>2 DEF KeptPart
  <2> QED BY <2>1
<1> QED BY <1>1, <1>2

(* What is kept is the parts one behind the other.                         *)
LEMMA KeepParts ==
  ASSUME NEW S, NEW s \in Seq(S), NEW A
  PROVE  Keep(s, A) = FlattenSeq(KeptParts(s, A)) /\ KeptParts(s, A) \in Seq(Seq(S \cap A))
<1>1. Keep(s, A) = FlattenSeq(KeptParts(s, A))
  BY DEF Keep, KeptParts, KeptPart
<1>2. ASSUME NEW i \in 1..Len(s) PROVE KeptPart(s[i], A) \in Seq(S \cap A)
  <2>1. s[i] \in S /\ (s[i] \in A => s[i] \in S \cap A)
    OBVIOUS
  <2> QED BY <2>1, KeptPartTyped
<1>3. KeptParts(s, A) \in Seq(Seq(S \cap A))
  BY <1>2 DEF KeptParts
<1> QED BY <1>1, <1>3

(* What is kept is of the sequence and of the set.                         *)
LEMMA KeepTyped ==
  ASSUME NEW S, NEW s \in Seq(S), NEW A
  PROVE  Keep(s, A) \in Seq(S \cap A) /\ Keep(s, A) \in Seq(S)
<1>1. Keep(s, A) \in Seq(S \cap A)
  <2> DEFINE T == S \cap A
             parts == KeptParts(s, A)
  <2>1. Keep(s, A) = FlattenSeq(parts) /\ parts \in Seq(Seq(T))
    BY KeepParts
  <2> HIDE DEF T, parts
  <2>2. FlattenSeq(parts) \in Seq(T)
    BY <2>1, FlattenType
  <2> QED BY <2>1, <2>2 DEF T
<1>2. S \cap A \subseteq S
  OBVIOUS
<1> DEFINE k == Keep(s, A)
<1> HIDE DEF k
<1>3. k \in Seq(S \cap A) => k \in Seq(S)
  OBVIOUS
<1> QED BY <1>1, <1>3 DEF k

(* One more element.                                                       *)
LEMMA KeepAppend ==
  ASSUME NEW S, NEW s \in Seq(S), NEW e \in S, NEW A
  PROVE  Keep(Append(s, e), A) = IF e \in A THEN Append(Keep(s, A), e) ELSE Keep(s, A)
<1> DEFINE T == S \cap A
           parts == KeptParts(s, A)
           c == KeptPart(e, A)
<1>1. Keep(s, A) = FlattenSeq(parts) /\ parts \in Seq(Seq(T))
  BY KeepParts
<1>2. Append(s, e) \in Seq(S)
  OBVIOUS
<1>3. Keep(Append(s, e), A) = FlattenSeq(KeptParts(Append(s, e), A))
  BY <1>2, KeepParts
<1>4. KeptParts(Append(s, e), A) = Append(parts, c)
  BY DEF KeptParts
<1>5. c \in Seq(T)
  <2>1. e \in A => e \in T
    OBVIOUS
  <2> HIDE DEF T
  <2> QED BY <2>1, KeptPartTyped
<1>6. Keep(s, A) \in Seq(S)
  BY KeepTyped
<1> HIDE DEF parts, c, T
<1>7. Keep(Append(s, e), A) = Keep(s, A) \o c
  BY <1>1, <1>3, <1>4, <1>5, FlattenAppend
<1> DEFINE k == Keep(s, A)
<1>8. e \in A => c = <<e>>
  BY DEF c, KeptPart
<1>9. e \notin A => c = <<>>
  BY DEF c, KeptPart
<1> HIDE DEF k
<1>10. k \in Seq(S) /\ k \o <<e>> = Append(k, e) /\ k \o <<>> = k
  BY <1>6 DEF k
<1> QED BY <1>7, <1>8, <1>9, <1>10 DEF k

(* Of nothing, nothing is kept.                                            *)
LEMMA KeepEmpty ==
  ASSUME NEW A
  PROVE  Keep(<<>>, A) = <<>>
<1>1. KeptParts(<<>>, A) = <<>>
  BY DEF KeptParts
<1>2. Keep(<<>>, A) = FlattenSeq(KeptParts(<<>>, A))
  BY DEF Keep, KeptParts, KeptPart
<1> QED BY <1>1, <1>2, FlattenEmpty

(* If all elements are in the set, the sequence is kept whole.             *)
LEMMA KeepAll ==
  ASSUME NEW S, NEW s \in Seq(S), NEW A, \A i \in 1..Len(s) : s[i] \in A
  PROVE  Keep(s, A) = s
<1> DEFINE F(k) == SubSeq(s, 1, k)
           K == {k \in Nat : k <= Len(s) => Keep(F(k), A) = F(k)}
<1>1. 0 \in K
  <2>1. F(0) = <<>>
    OBVIOUS
  <2> QED BY <2>1, KeepEmpty
<1>2. ASSUME NEW k \in K PROVE k + 1 \in K
  <2> SUFFICES ASSUME k + 1 <= Len(s) PROVE Keep(F(k + 1), A) = F(k + 1)
    OBVIOUS
  <2>1. k \in Nat /\ k <= Len(s) /\ k + 1 \in 1..Len(s)
    OBVIOUS
  <2>2. Keep(F(k), A) = F(k)
    BY <2>1
  <2> HIDE DEF K
  <2>3. F(k + 1) = Append(F(k), s[k + 1]) /\ F(k) \in Seq(S) /\ s[k + 1] \in S
    BY <2>1, OneMore
  <2>4. s[k + 1] \in A
    BY <2>1
  <2> HIDE DEF F
  <2>5. Keep(Append(F(k), s[k + 1]), A) = Append(Keep(F(k), A), s[k + 1])
    BY <2>3, <2>4, KeepAppend
  <2> QED BY <2>2, <2>3, <2>5
<1>3. Len(s) \in K
  <2>1. Len(s) \in Nat /\ K \in SUBSET Nat
    OBVIOUS
  <2> HIDE DEF K
  <2> QED BY <1>1, <1>2, <2>1, SetInduction
<1>4. F(Len(s)) = s /\ Len(s) <= Len(s)
  OBVIOUS
<1> HIDE DEF F
<1> QED BY <1>3, <1>4

(* A number of int64_t keeps its value when it is cast to it.              *)
LEMMA WrapKept ==
  ASSUME NEW h \in Int, IsWhole(h), h \in 2 * MinInt64..2 * MaxInt64
  PROVE  WrapI64(h) = h
<1> DEFINE p == 2^Width
           q == 2^(Width - 1)
           bits == (h \div 2) % p
           r == WrapI64(h)
<1> SUFFICES r = h
  OBVIOUS
<1>1. r = 2 * (IF bits > MaxInt64 THEN bits - p ELSE bits)
  BY DEF WrapI64
<1>2. p \in Nat /\ q \in Nat /\ p = 2 * q /\ q > 0 /\ MinInt64 = -q /\ MaxInt64 = q - 1
  BY WidthAssumption DEF MinInt64, MaxInt64
<1> HIDE DEF p, q, r
<1>3. h % 2 = 0
  BY DEF IsWhole
<1>4. PICK w \in Int : h = 2 * w /\ h \div 2 = w
  BY <1>3
<1>5. w >= -q /\ w <= q - 1
  BY <1>2, <1>4
<1>6. CASE w >= 0
  <2>1. w % p = w
    BY <1>2, <1>5, <1>6
  <2>2. bits = w
    BY <1>4, <2>1
  <2> HIDE DEF bits
  <2> QED BY <1>1, <1>2, <1>4, <1>5, <2>2
<1>7. CASE w < 0
  <2>1. w % p = w + p
    <3>1. w + p \in 0..p - 1 /\ w = p * (-1) + (w + p)
      BY <1>2, <1>5, <1>7
    <3> QED BY <1>2, <1>5, <1>7, <3>1
  <2>2. bits = w + p
    BY <1>4, <2>1
  <2> HIDE DEF bits
  <2> QED BY <1>1, <1>2, <1>4, <1>5, <1>7, <2>2
<1> QED BY <1>6, <1>7

(* A double is the double nearest to it.                                   *)
LEMMA DoubleKept ==
  ASSUME NEW h \in Int, Abs(h) <= 2 * DoubleExact \/ h % 4 = 0
  PROVE  NearestDouble(h) = h
<1>1. CASE Abs(h) <= 2 * DoubleExact
  BY <1>1 DEF NearestDouble
<1>2. CASE ~(Abs(h) <= 2 * DoubleExact)
  <2>1. h % 4 = 0
    BY <1>2
  <2>2. Abs(h) \in Nat /\ Abs(h) % 4 = 0 /\ (h < 0 => -Abs(h) = h) /\ (~(h < 0) => Abs(h) = h)
    BY <2>1 DEF Abs
  <2> DEFINE low == 4 * (Abs(h) \div 4)
             rest == Abs(h) - low
             up == rest = 3 \/ (rest = 2 /\ low % 8 # 0)
             size == IF up THEN low + 4 ELSE low
  <2>3. NearestDouble(h) = IF h < 0 THEN -size ELSE size
    BY <1>2 DEF NearestDouble
  <2>4. low = Abs(h)
    BY <2>2
  <2> HIDE DEF low
  <2>5. rest = 0
    BY <2>2, <2>4
  <2> HIDE DEF rest
  <2>6. size = low
    BY <2>5
  <2> QED BY <2>2, <2>3, <2>4, <2>6
<1> QED BY <1>1, <1>2

(* A number of a script: NaN, a double, or one next to a whole number.     *)
JsNumber(e) ==
  \/ e.type = "nan"
  \/ e.type = "number" /\ e.val \in Int /\ (Abs(e.val) <= 2 * DoubleExact \/ e.val % 4 = 0)
  \/ /\ e.type = "near" /\ e.val \in Int /\ IsWhole(e.val) /\ e.val \in 2 * MinInt64..2 * MaxInt64
     /\ Abs(e.val) <= 2 * DoubleExact /\ e.neg \in BOOLEAN /\ (e.val < 0 => e.neg)

(* What IsFloatingNumber can say.                                          *)
LEMMA FloatingCases ==
  ASSUME NEW e, JsNumber(e)
  PROVE  /\ IsFloatingNumber(e) # {} /\ IsFloatingNumber(e) \subseteq BOOLEAN
         /\ TRUE \in IsFloatingNumber(e) =>
              e.type = "number" /\ (~IsWhole(e.val) \/ e.val \notin 2 * MinInt64..2 * MaxInt64)
         /\ FALSE \in IsFloatingNumber(e) /\ e.type # "nan" =>
              IsWhole(e.val) /\ e.val \in 2 * MinInt64..2 * (MaxInt64 + 1)
<1> DEFINE h == e.val
<1>1. MinInt64 \in Int /\ MaxInt64 \in Int /\ MinInt64 <= -8 /\ MaxInt64 >= 7
  BY Bounds
<1>2. CASE e.type \in {"nan", "near"}
  <2>1. IsFloatingNumber(e) = {FALSE}
    BY <1>2 DEF IsFloatingNumber
  <2>2. e.type # "nan" => IsWhole(h) /\ h \in 2 * MinInt64..2 * (MaxInt64 + 1)
    <3>1. e.type # "nan" => IsWhole(h) /\ h \in 2 * MinInt64..2 * MaxInt64
      BY <1>2 DEF JsNumber
    <3> QED BY <1>1, <3>1
  <2> QED BY <2>1, <2>2
<1>3. CASE e.type \notin {"nan", "near"}
  <2>1. e.type = "number" /\ h \in Int
    BY <1>3 DEF JsNumber
  <2>2. CASE ~IsWhole(h)
    <3>1. IsFloatingNumber(e) = {TRUE}
      BY <1>3, <2>2 DEF IsFloatingNumber
    <3> QED BY <2>1, <2>2, <3>1
  <2>3. CASE IsWhole(h) /\ h \in 2 * MinInt64..2 * MaxInt64
    <3>1. IsFloatingNumber(e) = {FALSE}
      BY <1>3, <2>3 DEF IsFloatingNumber
    <3>2. h \in 2 * MinInt64..2 * (MaxInt64 + 1)
      BY <1>1, <2>3
    <3> QED BY <2>3, <3>1, <3>2
  <2>4. CASE IsWhole(h) /\ h \notin 2 * MinInt64..2 * MaxInt64 /\ h = 2 * (MaxInt64 + 1)
    <3>1. IsFloatingNumber(e) = {TRUE, FALSE}
      BY <1>3, <2>4 DEF IsFloatingNumber
    <3>2. h \in 2 * MinInt64..2 * (MaxInt64 + 1)
      BY <1>1, <2>4
    <3> QED BY <2>1, <2>4, <3>1, <3>2
  <2>5. CASE IsWhole(h) /\ h \notin 2 * MinInt64..2 * MaxInt64 /\ h # 2 * (MaxInt64 + 1)
    <3>1. IsFloatingNumber(e) = {TRUE}
      BY <1>3, <2>5 DEF IsFloatingNumber
    <3> QED BY <2>1, <2>5, <3>1
  <2> QED BY <2>2, <2>3, <2>4, <2>5
<1> QED BY <1>2, <1>3

(* A number of an array that loses none.                                   *)
LEMMA NumberOfArray ==
  ASSUME NEW nums, NEW i \in 1..Len(nums), JsNumber(nums[i]), ~Lossy(nums)
  PROVE  /\ nums[i].type \in {"number", "near"} /\ nums[i].val \in Int
         /\ ScriptNumber(nums[i]) = nums[i].val
         /\ nums[i].val < 0 => IsNegative(nums[i])
<1>1. nums[i].type # "nan"
  BY DEF Lossy
<1>2. nums[i].type \in {"number", "near"} /\ nums[i].val \in Int
  BY <1>1 DEF JsNumber
<1>3. ScriptNumber(nums[i]) = nums[i].val
  BY <1>2 DEF ScriptNumber
<1>4. CASE nums[i].type = "number"
  <2>1. IsNegative(nums[i]) = (nums[i].val < 0)
    BY <1>4 DEF IsNegative
  <2> QED BY <1>2, <1>3, <2>1
<1>5. CASE nums[i].type = "near"
  <2>1. IsNegative(nums[i]) = nums[i].neg /\ (nums[i].val < 0 => nums[i].neg)
    BY <1>5 DEF IsNegative, JsNumber
  <2> QED BY <1>2, <1>3, <2>1
<1> QED BY <1>2, <1>4, <1>5

(* Two of its numbers.                                                     *)
LEMMA NumbersOfArray ==
  ASSUME NEW nums, Len(nums) \in Nat, \A i \in 1..Len(nums) : JsNumber(nums[i]), ~Lossy(nums),
         NEW i \in 1..Len(nums), NEW k \in 1..Len(nums)
  PROVE  /\ IsNegative(nums[i]) => ~(nums[k].val > 2 * MaxInt64)
         /\ i < k /\ nums[i].type = "number"
              /\ (~IsWhole(nums[i].val) \/ nums[i].val \notin 2 * MinInt64..2 * MaxInt64)
            => ~(nums[k].val < 0)
<1>1. nums[1].type # "string" /\ nums[1].type # "boolean"
  <2>1. 1 \in 1..Len(nums)
    OBVIOUS
  <2>2. nums[1].type \in {"number", "near"}
    BY <2>1, NumberOfArray
  <2> QED BY <2>2
<1>2. ScriptNumber(nums[i]) = nums[i].val /\ ScriptNumber(nums[k]) = nums[k].val
  BY NumberOfArray
<1>3. ~(IsNegative(nums[i]) /\ ScriptNumber(nums[k]) > 2 * MaxInt64)
  BY <1>1 DEF Lossy
<1>4. ~(/\ i < k /\ nums[i].type = "number"
        /\ ~IsWhole(ScriptNumber(nums[i])) \/ ScriptNumber(nums[i]) \notin 2 * MinInt64..2 * MaxInt64
        /\ ScriptNumber(nums[k]) < 0)
  BY DEF Lossy
<1> QED BY <1>2, <1>3, <1>4

(* The floating numbers of an array as AppendNumberArrayData sees them.    *)
Floats(nums) ==
  {f \in [1..Len(nums) -> BOOLEAN] : \A i \in 1..Len(nums) : f[i] \in IsFloatingNumber(nums[i])}

(* The items of an array that loses none are its numbers.                  *)
LEMMA ItemsKept ==
  ASSUME NEW nums, Len(nums) \in Nat, \A i \in 1..Len(nums) : JsNumber(nums[i]), ~Lossy(nums),
         NEW floats \in Floats(nums), NEW items \in NumberItems(nums, floats), NEW i \in 1..Len(nums)
  PROVE  items[i] = nums[i].val
<1>1. nums[i].type # "nan" /\ (nums[i].val < 0 => IsNegative(nums[i]))
  <2>1. nums[i].type \in {"number", "near"} /\ (nums[i].val < 0 => IsNegative(nums[i]))
    BY NumberOfArray
  <2> QED BY <2>1
<1>2. IF floats[i] \/ (IsNegative(nums[i]) /\ \A j \in 1..(i - 1) : ~floats[j])
      THEN items[i] = nums[i].val
      ELSE items[i] \in DoubleToU64(nums[i].val)
  BY <1>1 DEF NumberItems
<1>3. CASE floats[i] \/ (IsNegative(nums[i]) /\ \A j \in 1..(i - 1) : ~floats[j])
  BY <1>2, <1>3, Zenon
<1>4. CASE ~(floats[i] \/ (IsNegative(nums[i]) /\ \A j \in 1..(i - 1) : ~floats[j]))
  <2>1. items[i] \in DoubleToU64(nums[i].val)
    BY <1>2, <1>4, Zenon
  <2>2. ASSUME nums[i].val < 0 PROVE FALSE
    <3>1. PICK j \in 1..(i - 1) : floats[j]
      BY <1>1, <1>4, <2>2, Zenon
    <3>2. j \in 1..Len(nums) /\ j < i
      OBVIOUS
    <3>4. floats[j] \in IsFloatingNumber(nums[j]) /\ floats[j] \in BOOLEAN
      BY <3>2 DEF Floats
    <3>5. TRUE \in IsFloatingNumber(nums[j])
      <4>1. floats[j] = TRUE
        BY <3>1, <3>4
      <4> QED BY <3>4, <4>1, Zenon
    <3>6. nums[j].type = "number" /\ (~IsWhole(nums[j].val) \/ nums[j].val \notin 2 * MinInt64..2 * MaxInt64)
      BY <3>2, <3>5, FloatingCases
    <3>7. j < i /\ nums[j].type = "number" /\ (~IsWhole(nums[j].val) \/ nums[j].val \notin 2 * MinInt64..2 * MaxInt64) => ~(nums[i].val < 0)
      BY <3>2, NumbersOfArray
    <3> QED BY <2>2, <3>2, <3>6, <3>7
  <2> QED BY <2>1, <2>2 DEF DoubleToU64
<1> QED BY <1>3, <1>4

(* An array of numbers.                                                    *)
LEMMA NumberArray ==
  ASSUME NEW nums, Len(nums) \in Nat, \A i \in 1..Len(nums) : JsNumber(nums[i]),
         NEW param \in AppendNumberArrayData(nums)
  PROVE  /\ Len(param.vals) = Len(nums) /\ ~OverLimit(param)
         /\ ~Lossy(nums) => \A i \in 1..Len(nums) : SameElement(nums, i, param.vals[i], FALSE)
<1> DEFINE n == Len(nums)
<1> DEFINE Ways(f) == {ArrayOf(nums, f, items) : items \in NumberItems(nums, f)}
<1>0. PICK floats \in Floats(nums) : param \in Ways(floats)
  <2>1. AppendNumberArrayData(nums) = UNION {Ways(f) : f \in Floats(nums)}
    BY DEF AppendNumberArrayData, Floats
  <2> HIDE DEF Ways
  <2> QED BY <2>1
<1>1. PICK items \in NumberItems(nums, floats) : param = ArrayOf(nums, floats, items)
  BY <1>0
<1> HIDE DEF Ways
<1>2. n \in Nat /\ Len(items) = n
  BY DEF NumberItems
<1> DEFINE doubles == [i \in 1..n |-> NearestDouble(items[i])]
           signed == [i \in 1..n |-> WrapI64(items[i])]
<1>3. \/ (\E i \in 1..n : floats[i]) /\ param = Param("double array", doubles)
      \/ (\A i \in 1..n : ~floats[i]) /\ (\E i \in 1..n : IsNegative(nums[i])) /\ param = Param("i64 array", signed)
      \/ param = Param("u64 array", items)
  BY <1>1, <1>2 DEF ArrayOf
<1>4. /\ param.kind \in {"double array", "i64 array", "u64 array"}
      /\ \/ param.vals = doubles
         \/ (\A i \in 1..n : ~floats[i]) /\ (\E i \in 1..n : IsNegative(nums[i])) /\ param.vals = signed
         \/ param.vals = items
  <2>1. \A kind, vals : Param(kind, vals).kind = kind /\ Param(kind, vals).vals = vals
    BY DEF Param
  <2> HIDE DEF doubles, signed
  <2>2. CASE (\E i \in 1..n : floats[i]) /\ param = Param("double array", doubles)
    BY <2>1, <2>2
  <2>3. CASE (\A i \in 1..n : ~floats[i]) /\ (\E i \in 1..n : IsNegative(nums[i])) /\ param = Param("i64 array", signed)
    BY <2>1, <2>3
  <2>4. CASE param = Param("u64 array", items)
    BY <2>1, <2>4
  <2> QED BY <1>3, <2>2, <2>3, <2>4
<1>5. Len(doubles) = n /\ Len(signed) = n
  BY <1>2
<1>6. ~OverLimit(param)
  BY <1>4 DEF OverLimit
<1>7. ASSUME ~Lossy(nums), NEW i \in 1..n PROVE SameElement(nums, i, param.vals[i], FALSE)
  <2>1. items[i] = nums[i].val
    BY <1>7, ItemsKept
  <2>2. nums[i].type \in {"number", "near"} /\ nums[i].val \in Int /\ ScriptNumber(nums[i]) = nums[i].val
    BY <1>7, NumberOfArray
  <2>3. CASE param.vals = doubles
    <3>1. Abs(nums[i].val) <= 2 * DoubleExact \/ nums[i].val % 4 = 0
      BY <2>2 DEF JsNumber
    <3>2. NearestDouble(nums[i].val) = nums[i].val
      BY <2>2, <3>1, DoubleKept
    <3>3. param.vals[i] = NearestDouble(items[i])
      BY <2>3
    <3> QED BY <2>1, <2>2, <3>2, <3>3 DEF SameElement
  <2>4. CASE (\A k \in 1..n : ~floats[k]) /\ (\E k \in 1..n : IsNegative(nums[k])) /\ param.vals = signed
    <3>1. PICK k \in 1..n : IsNegative(nums[k])
      BY <2>4
    <3>2. ~(nums[i].val > 2 * MaxInt64)
      BY <1>7, <3>1, NumbersOfArray
    <3>3. floats[i] \in IsFloatingNumber(nums[i]) /\ floats[i] \in BOOLEAN
      BY DEF Floats
    <3>4. FALSE \in IsFloatingNumber(nums[i])
      <4>1. floats[i] = FALSE
        BY <2>4, <3>3
      <4> QED BY <3>3, <4>1, Zenon
    <3>5. IsWhole(nums[i].val) /\ nums[i].val \in 2 * MinInt64..2 * MaxInt64
      <4>1. IsWhole(nums[i].val) /\ nums[i].val \in 2 * MinInt64..2 * (MaxInt64 + 1)
        BY <2>2, <3>4, FloatingCases
      <4> QED BY <2>2, <3>2, <4>1, Bounds
    <3>6. WrapI64(nums[i].val) = nums[i].val
      BY <2>2, <3>5, WrapKept
    <3>7. param.vals[i] = WrapI64(items[i])
      BY <2>4
    <3> QED BY <2>1, <2>2, <3>6, <3>7 DEF SameElement
  <2>5. CASE param.vals = items
    BY <2>1, <2>2, <2>5 DEF SameElement
  <2> QED BY <1>4, <2>3, <2>4, <2>5
<1>8. Len(param.vals) = n
  <2> HIDE DEF doubles, signed
  <2> QED BY <1>2, <1>4, <1>5
<1> QED BY <1>6, <1>7, <1>8

(* There is always a parameter for an array of numbers.                    *)
LEMMA NumberArrayAdded ==
  ASSUME NEW nums, Len(nums) \in Nat, \A i \in 1..Len(nums) : JsNumber(nums[i])
  PROVE  AppendNumberArrayData(nums) # {}
<1> DEFINE n == Len(nums)
           May(i) == IsFloatingNumber(nums[i])
           floats == [i \in 1..n |-> CHOOSE f \in May(i) : TRUE]
<1>1. ASSUME NEW i \in 1..n PROVE May(i) # {} /\ May(i) \subseteq BOOLEAN
  BY FloatingCases
<1> HIDE DEF May
<1>2. \A i \in 1..n : floats[i] \in May(i)
  BY <1>1
<1>3. floats \in Floats(nums)
  <2>1. floats \in [1..n -> BOOLEAN]
    BY <1>1
  <2> HIDE DEF floats
  <2> QED BY <1>2, <2>1 DEF Floats, May
<1> HIDE DEF floats
<1> DEFINE Of(i) == DoubleToU64(nums[i].val) \cup {nums[i].val, 2 * (MaxInt64 + 1), 0}
           all == UNION {Of(i) : i \in 1..n}
           straight(i) == floats[i] \/ (IsNegative(nums[i]) /\ \A j \in 1..(i - 1) : ~floats[j])
           item(i) == IF nums[i].type = "nan" THEN 0
                      ELSE IF straight(i) THEN nums[i].val
                      ELSE IF nums[i].val < 0 THEN 0 ELSE nums[i].val
           items == [i \in 1..n |-> item(i)]
<1>4. ASSUME NEW i \in 1..n PROVE item(i) \in all
  <2>1. item(i) \in Of(i)
    OBVIOUS
  <2> HIDE DEF item, Of
  <2> QED BY <2>1
<1>5. ASSUME NEW i \in 1..n
      PROVE  IF nums[i].type = "nan" THEN item(i) \in {0, 2 * (MaxInt64 + 1)}
             ELSE IF straight(i) THEN item(i) = nums[i].val
             ELSE item(i) \in DoubleToU64(nums[i].val)
  <2> HIDE DEF straight
  <2> QED BY DEF DoubleToU64
<1>6. items \in NumberItems(nums, floats)
  <2>1. items \in [1..n -> all] /\ \A i \in 1..n : items[i] = item(i)
    <3> HIDE DEF item, all
    <3> QED BY <1>4
  <2>2. \A i \in 1..n : IF nums[i].type = "nan" THEN items[i] \in {0, 2 * (MaxInt64 + 1)}
                         ELSE IF straight(i) THEN items[i] = nums[i].val
                         ELSE items[i] \in DoubleToU64(nums[i].val)
    <3> HIDE DEF items, item, straight
    <3> QED BY <1>5, <2>1
  <2> HIDE DEF items
  <2> QED BY <2>1, <2>2 DEF NumberItems
<1> HIDE DEF items
<1>7. ArrayOf(nums, floats, items) \in AppendNumberArrayData(nums)
  <2> DEFINE Ways(f) == {ArrayOf(nums, f, its) : its \in NumberItems(nums, f)}
  <2>1. AppendNumberArrayData(nums) = UNION {Ways(f) : f \in Floats(nums)}
    BY DEF AppendNumberArrayData, Floats
  <2>2. ArrayOf(nums, floats, items) \in Ways(floats)
    BY <1>6
  <2> HIDE DEF Ways
  <2> QED BY <1>3, <2>1, <2>2
<1> QED BY <1>7

(* A parameter holds what the values say that were to be written.          *)
LongText(text) ==
  /\ Len(text) > JS_STR_PARM_LEN_LIMIT
  /\ \A h \in 1..(JS_STR_PARM_LEN_LIMIT + 1) : text[h] # NUL

LongTexts(es) == \E i \in 1..Len(es) : es[i].type = "string" /\ LongText(es[i].val)

HoldsJs(param, es) ==
  /\ Len(param.vals) = Len(es)
  /\ OverLimit(param) <=> LongTexts(es)
  /\ ~LongTexts(es) /\ ~Lossy(es) => \A i \in 1..Len(es) : SameElement(es, i, param.vals[i], FALSE)

(* AppendNumberArrayData keeps the numbers that are not lost.              *)
LEMMA NumbersHeld ==
  ASSUME NEW nums, Len(nums) \in Nat, \A i \in 1..Len(nums) : JsNumber(nums[i]),
         NEW param \in AppendNumberArrayData(nums)
  PROVE  HoldsJs(param, nums)
<1>1. /\ Len(param.vals) = Len(nums) /\ ~OverLimit(param)
      /\ ~Lossy(nums) => \A i \in 1..Len(nums) : SameElement(nums, i, param.vals[i], FALSE)
  BY NumberArray
<1>2. ~LongTexts(nums)
  BY DEF LongTexts, JsNumber
<1> QED BY <1>1, <1>2, Zenon DEF HoldsJs

(* A bigint that is not lost.                                              *)
LEMMA BigIntKept ==
  ASSUME NEW b \in Int, 2 * b \in 2 * MinInt64..2 * MaxInt64
  PROVE  WrapI64(2 * b) = 2 * b
<1>1. IsWhole(2 * b) /\ 2 * b \in Int
  BY DEF IsWhole
<1> QED BY <1>1, WrapKept

(* A bigint that is neither lost nor an unsigned number is negative.       *)
LEMMA NotUnsigned ==
  ASSUME NEW b \in Int, 2 * b \in 2 * MinInt64..2 * MaxUInt64, ~FitsU64(b)
  PROVE  2 * b < 0 /\ 2 * b \in 2 * MinInt64..2 * MaxInt64
<1>1. MinInt64 \in Int /\ MaxInt64 \in Int /\ MaxUInt64 \in Int /\ MaxInt64 >= 7
  BY Bounds
<1> QED BY <1>1 DEF FitsU64

(* An array of bigints.                                                    *)
LEMMA BigIntsHeld ==
  ASSUME NEW es, Len(es) \in Nat, \A i \in 1..Len(es) : es[i].type = "bigint" /\ es[i].val \in Int,
         NEW param, param = AppendBigIntArrayData(es)
  PROVE  HoldsJs(param, es)
<1> DEFINE n == Len(es)
           signed == [i \in 1..n |-> WrapI64(2 * es[i].val)]
           unsigned == [i \in 1..n |-> 2 * es[i].val]
<1>1. \/ (\E i \in 1..n : ~FitsU64(es[i].val)) /\ param = Param("i64 array", signed)
      \/ param = Param("u64 array", unsigned)
  BY DEF AppendBigIntArrayData
<1>2. /\ param.kind \in {"i64 array", "u64 array"}
      /\ \/ (\E i \in 1..n : ~FitsU64(es[i].val)) /\ param.vals = signed
         \/ param.vals = unsigned
  <2> HIDE DEF signed, unsigned
  <2>1. /\ Param("i64 array", signed).kind = "i64 array" /\ Param("i64 array", signed).vals = signed
        /\ Param("u64 array", unsigned).kind = "u64 array" /\ Param("u64 array", unsigned).vals = unsigned
    BY DEF Param
  <2>2. CASE (\E i \in 1..n : ~FitsU64(es[i].val)) /\ param = Param("i64 array", signed)
    BY <2>1, <2>2
  <2>3. CASE param = Param("u64 array", unsigned)
    BY <2>1, <2>3
  <2> QED BY <1>1, <2>2, <2>3
<1>3. ~OverLimit(param)
  BY <1>2 DEF OverLimit
<1>4. Len(signed) = n /\ Len(unsigned) = n
  OBVIOUS
<1>5. Len(param.vals) = n
  <2> HIDE DEF signed, unsigned
  <2> QED BY <1>2, <1>4
<1>6. ~LongTexts(es)
  BY DEF LongTexts
<1>7. ASSUME ~Lossy(es), NEW i \in 1..n PROVE SameElement(es, i, param.vals[i], FALSE)
  <2>1. \A k \in 1..n : ScriptNumber(es[k]) = 2 * es[k].val /\ es[k].val \in Int /\ es[k].type = "bigint"
    BY DEF ScriptNumber
  <2>2. CASE param.vals = unsigned
    <3>1. param.vals[i] = 2 * es[i].val
      BY <2>2
    <3> QED BY <1>7, <2>1, <3>1 DEF SameElement
  <2>3. CASE (\E k \in 1..n : ~FitsU64(es[k].val)) /\ param.vals = signed
    <3>1. PICK k \in 1..n : ~FitsU64(es[k].val)
      BY <2>3
    <3>2. \A j \in 1..n : 2 * es[j].val \in 2 * MinInt64..2 * MaxUInt64
      BY <1>7, <2>1 DEF Lossy
    <3>3. 2 * es[k].val < 0
      BY <2>1, <3>1, <3>2, NotUnsigned
    <3>4. ~(2 * es[i].val > 2 * MaxInt64)
      <4>1. 1 \in 1..n
        BY <3>1
      <4>2. es[1].type # "string" /\ es[1].type # "boolean"
        BY <2>1, <4>1
      <4>3. ~(ScriptNumber(es[k]) < 0 /\ ScriptNumber(es[i]) > 2 * MaxInt64)
        BY <1>7, <4>2 DEF Lossy
      <4> QED BY <1>7, <2>1, <3>3, <4>3
    <3>5. 2 * es[i].val \in 2 * MinInt64..2 * MaxInt64
      <4>1. es[i].val \in Int /\ 2 * es[i].val \in 2 * MinInt64..2 * MaxUInt64
        BY <1>7, <2>1, <3>2
      <4> QED BY <3>4, <4>1, Bounds
    <3>6. WrapI64(2 * es[i].val) = 2 * es[i].val
      BY <1>7, <2>1, <3>5, BigIntKept
    <3>7. param.vals[i] = WrapI64(2 * es[i].val)
      BY <1>7, <2>3
    <3> QED BY <1>7, <2>1, <3>6, <3>7 DEF SameElement
  <2> QED BY <1>2, <2>2, <2>3
<1> QED BY <1>3, <1>5, <1>6, <1>7, Zenon DEF HoldsJs

(* An array of flags.                                                      *)
LEMMA FlagsHeld ==
  ASSUME NEW es, Len(es) \in Nat, \A i \in 1..Len(es) : es[i].type = "boolean"
  PROVE  HoldsJs(Param("bool array", Vals(es)), es)
<1> DEFINE param == Param("bool array", Vals(es))
<1>1. param.kind = "bool array" /\ param.vals = Vals(es)
  BY DEF Param
<1>2. Len(Vals(es)) = Len(es) /\ \A i \in 1..Len(es) : Vals(es)[i] = es[i].val
  BY DEF Vals
<1> HIDE DEF param
<1>3. ~OverLimit(param) /\ ~LongTexts(es)
  BY <1>1 DEF OverLimit, LongTexts
<1>4. \A i \in 1..Len(es) : SameElement(es, i, param.vals[i], FALSE)
  BY <1>1, <1>2 DEF SameElement
<1>5. HoldsJs(param, es)
  BY <1>1, <1>2, <1>3, <1>4, Zenon DEF HoldsJs
<1> QED BY <1>5 DEF param

(* What is read of a text ends at its first NUL.                           *)
LEMMA TextEnds ==
  ASSUME NEW S, NEW text \in Seq(S)
  PROVE  UpToNul(CString(text), text)
<1>1. PICK n \in 0..Len(text) : /\ CString(text) = SubSeq(text, 1, n)
                                /\ \A i \in 1..n : text[i] # NUL
                                /\ n < Len(text) => text[n + 1] = NUL
  BY CStringEnds
<1> DEFINE got == SubSeq(text, 1, n)
<1>2. Len(got) = n /\ \A i \in 1..n : got[i] = text[i]
  BY FirstElements
<1> HIDE DEF got
<1>3. UpToNul(got, text)
  BY <1>1, <1>2 DEF UpToNul
<1> QED BY <1>1, <1>3 DEF got

(* A text over the limit stays over the limit in the buffer, unless a NUL  *)
(* ends it before; another one stays what it is up to its first NUL.       *)
LEMMA TextKept ==
  ASSUME NEW chars \in Seq(Nat)
  PROVE  /\ Len(ParseStringValue(chars)) > JS_STR_PARM_LEN_LIMIT <=> LongText(chars)
         /\ ~LongText(chars) => UpToNul(ParseStringValue(chars), chars)
<1> DEFINE m == BUF_SIZE - 2
           cut == IF Len(chars) > m THEN SubSeq(chars, 1, m) ELSE chars
           limit == JS_STR_PARM_LEN_LIMIT
<1>1. Len(chars) \in Nat /\ limit \in Nat /\ m \in Nat /\ limit < m
  BY JsValuesAssumption
<1>2. /\ cut \in Seq(Nat) /\ Len(cut) \in Nat /\ Len(cut) <= Len(chars)
      /\ \A i \in 1..Len(cut) : cut[i] = chars[i]
      /\ Len(cut) < Len(chars) => Len(cut) = m
  <2>1. CASE Len(chars) > m
    <3>1. m \in 0..Len(chars)
      BY <1>1, <2>1
    <3> HIDE DEF m
    <3>2. SubSeq(chars, 1, m) \in Seq(Nat) /\ Len(SubSeq(chars, 1, m)) = m
          /\ \A i \in 1..m : SubSeq(chars, 1, m)[i] = chars[i]
      BY <3>1, FirstElements
    <3> QED BY <1>1, <2>1, <3>1, <3>2
  <2>2. CASE ~(Len(chars) > m)
    BY <1>1, <2>2
  <2> QED BY <2>1, <2>2
<1> DEFINE got == CString(cut)
<1>3. ParseStringValue(chars) = got
  BY DEF ParseStringValue
<1> HIDE DEF cut, got, m, limit
<1>4. UpToNul(got, cut)
  BY <1>2, TextEnds DEF got
<1>5. /\ Len(got) \in Nat /\ Len(got) <= Len(cut)
      /\ \A i \in 1..Len(got) : got[i] = cut[i] /\ cut[i] # NUL
      /\ Len(got) < Len(cut) => cut[Len(got) + 1] = NUL
  <2>1. PICK n \in 0..Len(cut) : got = SubSeq(cut, 1, n)
    BY <1>2, CStringEnds DEF got
  <2>2. Len(got) \in Nat
    <3>1. Len(SubSeq(cut, 1, n)) = n
      BY <1>2, FirstElements
    <3> QED BY <2>1, <3>1
  <2> QED BY <1>4, <2>2 DEF UpToNul
<1>6. ASSUME Len(got) > limit
      PROVE  Len(chars) > limit /\ \A h \in 1..(limit + 1) : chars[h] # NUL
  <2>1. Len(chars) > limit
    BY <1>1, <1>2, <1>5, <1>6
  <2>2. ASSUME NEW h \in 1..(limit + 1) PROVE chars[h] # NUL
    <3>1. h \in 1..Len(got) /\ h \in 1..Len(cut)
      BY <1>1, <1>2, <1>5, <1>6
    <3>2. cut[h] = chars[h] /\ cut[h] # NUL
      BY <1>2, <1>5, <3>1
    <3> QED BY <3>2
  <2> QED BY <2>1, <2>2
<1>7. ASSUME ~(Len(got) > limit)
      PROVE  /\ ~(Len(chars) > limit /\ \A h \in 1..(limit + 1) : chars[h] # NUL)
             /\ UpToNul(got, chars)
  <2>1. CASE Len(got) < Len(cut)
    <3>1. Len(got) + 1 \in 1..Len(cut) /\ Len(got) + 1 \in 1..(limit + 1)
      BY <1>1, <1>2, <1>5, <1>7, <2>1
    <3>2. chars[Len(got) + 1] = NUL
      BY <1>2, <1>5, <2>1, <3>1
    <3>3. ASSUME NEW i \in 1..Len(got) PROVE got[i] = chars[i] /\ chars[i] # NUL
      <4>1. i \in 1..Len(cut)
        BY <1>2, <1>5
      <4>2. got[i] = cut[i] /\ cut[i] # NUL /\ cut[i] = chars[i]
        BY <1>2, <1>5, <4>1
      <4> QED BY <4>2
    <3>4. Len(got) <= Len(chars)
      BY <1>1, <1>2, <1>5
    <3>5. UpToNul(got, chars)
      BY <3>2, <3>3, <3>4 DEF UpToNul
    <3> QED BY <3>1, <3>2, <3>5
  <2>2. CASE Len(got) = Len(cut)
    <3>1. Len(cut) = Len(chars)
      BY <1>1, <1>2, <1>7, <2>2
    <3>2. UpToNul(got, chars)
      BY <1>2, <1>5, <2>2, <3>1 DEF UpToNul
    <3> QED BY <1>7, <2>2, <3>1, <3>2
  <2> QED BY <1>2, <1>5, <2>1, <2>2
<1>8. LongText(chars) <=> Len(chars) > limit /\ \A h \in 1..(limit + 1) : chars[h] # NUL
  BY DEF LongText, limit
<1>9. Len(got) > limit <=> LongText(chars)
  BY <1>6, <1>7, <1>8
<1>10. ~LongText(chars) => UpToNul(got, chars)
  BY <1>7, <1>9
<1> QED BY <1>3, <1>9, <1>10 DEF limit

(* A text for every value.                                                 *)
LEMMA LengthOfTexts ==
  ASSUME NEW es, Len(es) \in Nat
  PROVE  Len([i \in 1..Len(es) |-> ParseStringValue(es[i].val)]) = Len(es)
OBVIOUS

(* An array of texts.                                                      *)
LEMMA TextsHeld ==
  ASSUME NEW es, Len(es) \in Nat, \A i \in 1..Len(es) : es[i].type = "string" /\ es[i].val \in Seq(Nat),
         NEW kind \in {"string", "string array"}, NEW param,
         param = Param(kind, [i \in 1..Len(es) |-> ParseStringValue(es[i].val)])
  PROVE  HoldsJs(param, es)
<1> DEFINE vals == [i \in 1..Len(es) |-> ParseStringValue(es[i].val)]
<1>1. param.kind = kind /\ param.vals = vals
  <2> HIDE DEF vals
  <2> QED BY DEF Param, vals
<1>2. Len(vals) = Len(es) /\ \A i \in 1..Len(es) : vals[i] = ParseStringValue(es[i].val)
  <2>1. \A i \in 1..Len(es) : vals[i] = ParseStringValue(es[i].val)
    BY Zenon
  <2>3. Len(vals) = Len(es)
    BY LengthOfTexts
  <2> QED BY <2>1, <2>3
<1> HIDE DEF vals
<1>3. \A i \in 1..Len(es) : Len(vals[i]) > JS_STR_PARM_LEN_LIMIT <=> LongText(es[i].val)
  <2> SUFFICES ASSUME NEW i \in 1..Len(es)
               PROVE  Len(vals[i]) > JS_STR_PARM_LEN_LIMIT <=> LongText(es[i].val)
    OBVIOUS
  <2>1. vals[i] = ParseStringValue(es[i].val) /\ es[i].val \in Seq(Nat)
    BY <1>2
  <2>2. Len(ParseStringValue(es[i].val)) > JS_STR_PARM_LEN_LIMIT <=> LongText(es[i].val)
    BY <2>1, TextKept
  <2> QED BY <2>1, <2>2
<1>4. OverLimit(param) <=> LongTexts(es)
  BY <1>1, <1>2, <1>3 DEF OverLimit, LongTexts
<1>5. ASSUME ~LongTexts(es), NEW i \in 1..Len(es) PROVE SameElement(es, i, param.vals[i], FALSE)
  <2>1. ~LongText(es[i].val) /\ es[i].type = "string" /\ es[i].val \in Seq(Nat)
    BY <1>5 DEF LongTexts
  <2>2. UpToNul(ParseStringValue(es[i].val), es[i].val)
    BY <2>1, TextKept
  <2>3. param.vals[i] = ParseStringValue(es[i].val)
    BY <1>1, <1>2
  <2> QED BY <2>1, <2>2, <2>3 DEF SameElement
<1> QED BY <1>1, <1>2, <1>4, <1>5, Zenon DEF HoldsJs

(* A value a script may write.                                             *)
JsItems(v) == {e \in Range(v.val) : JsTyped(e) /\ e.type # "array"}
JsGood(v) == JsTyped(v) /\ (v.type = "array" => v.val \in Seq(JsItems(v)))

(* What is written of an array are values of one type.                     *)
LEMMA WrittenItems ==
  ASSUME NEW v, JsGood(v), v.type = "array"
  PROVE  /\ Len(Written(v)) \in Nat
         /\ \A i \in 1..Len(Written(v)) :
              /\ JsTyped(Written(v)[i]) /\ Written(v)[i].type # "array"
              /\ Family(Written(v)[i].type) = Family(v.val[1].type)
<1> DEFINE T == JsItems(v)
           A == {e \in Range(v.val) : Family(e.type) = Family(v.val[1].type)}
<1>1. v.val \in Seq(T)
  BY DEF JsGood
<1>2. Written(v) = Keep(v.val, A)
  BY DEF Written
<1>3. \A e \in T \cap A : JsTyped(e) /\ e.type # "array" /\ Family(e.type) = Family(v.val[1].type)
  BY DEF JsItems
<1> HIDE DEF T, A
<1>4. Written(v) \in Seq(T \cap A)
  BY <1>1, <1>2, KeepTyped
<1> DEFINE w == Written(v)
<1> HIDE DEF w
<1>5. Len(w) \in Nat /\ \A i \in 1..Len(w) : w[i] \in T \cap A
  BY <1>4 DEF w
<1> QED BY <1>3, <1>5 DEF w

(* ElementsOfType takes the elements that are to be written.               *)
LEMMA ElementsWritten ==
  ASSUME NEW v, v.type = "array", NEW types, \A t : t \in types <=> Family(t) = Family(v.val[1].type)
  PROVE  ElementsOfType(v.val, types) = Written(v)
<1>1. {js \in Range(v.val) : js.type \in types} = {e \in Range(v.val) : Family(e.type) = Family(v.val[1].type)}
  OBVIOUS
<1> QED BY <1>1 DEF ElementsOfType, Written

(* The types that are written with one another.                            *)
LEMMA Families ==
  ASSUME NEW t
  PROVE  /\ t \in {"boolean"} <=> Family(t) = Family("boolean")
         /\ t \in {"string"} <=> Family(t) = Family("string")
         /\ t \in {"bigint"} <=> Family(t) = Family("bigint")
         /\ \A u \in NumberTypes : t \in NumberTypes <=> Family(t) = Family(u)
BY DEF Family, NumberTypes

(* A number a script may write.                                            *)
LEMMA TypedNumber ==
  ASSUME NEW e, JsTyped(e), e.type \in NumberTypes
  PROVE  JsNumber(e)
<1>1. CASE e.type = "near"
  <2>1. MinInt64 \in Int /\ MaxInt64 \in Int
    BY Bounds
  <2> QED BY <1>1, <2>1 DEF JsTyped, JsNumber
<1>2. CASE e.type \in {"number", "nan"}
  BY <1>2 DEF JsTyped, JsNumber
<1> QED BY <1>1, <1>2 DEF NumberTypes

(* The parameters of an array, and that there are some.                    *)
LEMMA ArrayHeld ==
  ASSUME NEW v, JsGood(v), v.type = "array"
  PROVE  /\ \A param \in AddParamToEventInfo(v) : HoldsJs(param, Written(v))
         /\ AddParamToEventInfo(v) # {} <=> IsWritten(v, ScriptTypes)
<1> DEFINE es == Written(v)
           t == v.val[1].type
<1>1. /\ Len(es) \in Nat
      /\ \A i \in 1..Len(es) : JsTyped(es[i]) /\ es[i].type # "array" /\ Family(es[i].type) = Family(t)
  BY WrittenItems
<1>2. AddParamToEventInfo(v) = AddArrayParam(v.val)
  BY DEF AddParamToEventInfo, NumberTypes
<1>3. CASE v.val = <<>>
  <2>1. AddArrayParam(v.val) = {}
    BY <1>3 DEF AddArrayParam
  <2>2. ~IsWritten(v, ScriptTypes)
    BY <1>3 DEF IsWritten
  <2> QED BY <1>2, <2>1, <2>2
<1>4. CASE v.val # <<>>
  <2>1. Head(v.val).type = t
    <3>1. v.val \in Seq(JsItems(v))
      BY DEF JsGood
    <3> DEFINE val == v.val
               T == JsItems(v)
    <3>2. val \in Seq(T)
      BY <3>1
    <3> HIDE DEF val, T
    <3>3. Head(val) = val[1]
      BY <3>2
    <3> QED BY <3>3 DEF val
  <2>2. IsWritten(v, ScriptTypes) <=> t \in ScriptTypes
    BY <1>4 DEF IsWritten
  <2>3. AddArrayParam(v.val) =
          CASE t = "boolean" -> {Param("bool array", Vals(ElementsOfType(v.val, {t})))}
            [] t \in NumberTypes -> AppendNumberArrayData(ElementsOfType(v.val, NumberTypes))
            [] t = "bigint" -> {AppendBigIntArrayData(ElementsOfType(v.val, {t}))}
            [] t = "string" ->
                 LET texts == ElementsOfType(v.val, {t})
                 IN  {Param("string array", [i \in 1..Len(texts) |-> ParseStringValue(texts[i].val)])}
            [] OTHER -> {}
    BY <1>4, <2>1 DEF AddArrayParam
  <2> HIDE DEF es
  <2>4. CASE t = "boolean"
    <3>1. ElementsOfType(v.val, {"boolean"}) = es
      BY <2>4, Families, ElementsWritten DEF es
    <3>2. AddArrayParam(v.val) = {Param("bool array", Vals(es))}
      BY <2>3, <2>4, <3>1 DEF NumberTypes
    <3>3. \A i \in 1..Len(es) : es[i].type = "boolean"
      BY <1>1, <2>4, Families
    <3>4. HoldsJs(Param("bool array", Vals(es)), es)
      BY <1>1, <3>3, FlagsHeld
    <3> QED BY <1>2, <2>2, <2>4, <3>2, <3>4 DEF ScriptTypes, es
  <2>5. CASE t \in NumberTypes
    <3>1. ElementsOfType(v.val, NumberTypes) = es
      <4>1. \A u : u \in NumberTypes <=> Family(u) = Family(t)
        BY <2>5, Families
      <4> QED BY <4>1, ElementsWritten DEF es
    <3>2. AddArrayParam(v.val) = AppendNumberArrayData(es)
      BY <2>3, <2>5, <3>1 DEF NumberTypes
    <3>3. \A i \in 1..Len(es) : JsNumber(es[i])
      <4>1. \A i \in 1..Len(es) : es[i].type \in NumberTypes
        BY <1>1, <2>5, Families
      <4> QED BY <1>1, <4>1, TypedNumber
    <3>4. AppendNumberArrayData(es) # {} /\ \A param \in AppendNumberArrayData(es) : HoldsJs(param, es)
      BY <1>1, <3>3, NumbersHeld, NumberArrayAdded
    <3> QED BY <1>2, <2>2, <2>5, <3>2, <3>4 DEF ScriptTypes, es
  <2>6. CASE t = "bigint"
    <3>1. ElementsOfType(v.val, {"bigint"}) = es
      BY <2>6, Families, ElementsWritten DEF es
    <3>2. AddArrayParam(v.val) = {AppendBigIntArrayData(es)}
      BY <2>3, <2>6, <3>1 DEF NumberTypes
    <3>3. \A i \in 1..Len(es) : es[i].type = "bigint" /\ es[i].val \in Int
      <4>1. \A i \in 1..Len(es) : es[i].type = "bigint"
        BY <1>1, <2>6, Families
      <4> QED BY <1>1, <4>1 DEF JsTyped
    <3>4. HoldsJs(AppendBigIntArrayData(es), es)
      BY <1>1, <3>3, BigIntsHeld
    <3> QED BY <1>2, <2>2, <2>6, <3>2, <3>4 DEF ScriptTypes, es
  <2>7. CASE t = "string"
    <3> DEFINE param == Param("string array", [i \in 1..Len(es) |-> ParseStringValue(es[i].val)])
    <3>1. ElementsOfType(v.val, {"string"}) = es
      BY <2>7, Families, ElementsWritten DEF es
    <3>2. AddArrayParam(v.val) = {param}
      BY <2>3, <2>7, <3>1 DEF NumberTypes
    <3>3. \A i \in 1..Len(es) : es[i].type = "string" /\ es[i].val \in Seq(Nat)
      <4>1. \A i \in 1..Len(es) : es[i].type = "string"
        BY <1>1, <2>7, Families
      <4> QED BY <1>1, <4>1 DEF JsTyped
    <3>4. HoldsJs(param, es)
      <4>1. \A p : p = param => HoldsJs(p, es)
        BY <1>1, <3>3, TextsHeld
      <4> QED BY <4>1
    <3> HIDE DEF param
    <3> QED BY <1>2, <2>2, <2>7, <3>2, <3>4 DEF ScriptTypes, es
  <2>8. CASE t \notin NumberTypes \cup {"boolean", "bigint", "string"}
    <3>1. AddArrayParam(v.val) = {}
      BY <2>3, <2>8
    <3> QED BY <1>2, <2>2, <2>8, <3>1 DEF ScriptTypes
  <2> QED BY <2>4, <2>5, <2>6, <2>7, <2>8
<1> QED BY <1>3, <1>4

(* The only place in a sequence of one.                                    *)
LEMMA OneIndex == \A i \in 1..1 : i = 1
OBVIOUS

(* The parameter of one value that is no text.                             *)
LEMMA OneHeld ==
  ASSUME NEW v, v.type # "string", NEW kind, kind \notin {"string", "string array"}, NEW val,
         ~Lossy(<<v>>) => SameElement(<<v>>, 1, val, FALSE)
  PROVE  HoldsJs(Param(kind, <<val>>), <<v>>)
<1> DEFINE param == Param(kind, <<val>>)
           es == <<v>>
<1>1. param.kind = kind /\ param.vals = <<val>>
  BY DEF Param
<1>2. Len(es) = 1 /\ es[1] = v /\ Len(<<val>>) = 1 /\ <<val>>[1] = val
  OBVIOUS
<1>3. \A i \in 1..Len(es) : i = 1
  <2>1. 1..Len(es) = 1..1
    BY <1>2, Zenon
  <2> QED BY <2>1, OneIndex, Zenon
<1> HIDE DEF param, es
<1>4. ~OverLimit(param)
  BY <1>1 DEF OverLimit
<1>5. ~LongTexts(es)
  <2>1. \A i \in 1..Len(es) : es[i] = v
    BY <1>2, <1>3
  <2> QED BY <2>1 DEF LongTexts
<1>6. Len(param.vals) = Len(es) /\ param.vals[1] = val
  BY <1>1, <1>2
<1>7. ASSUME ~Lossy(es), NEW i \in 1..Len(es) PROVE SameElement(es, i, param.vals[i], FALSE)
  <2>1. i = 1
    BY <1>3
  <2>2. SameElement(es, 1, val, FALSE)
    BY <1>7 DEF es
  <2> QED BY <1>6, <2>1, <2>2
<1>8. HoldsJs(param, es)
  BY <1>4, <1>5, <1>6, <1>7, Zenon DEF HoldsJs
<1> QED BY <1>8 DEF param, es

(* The parameter of a value, and that there is one.                        *)
LEMMA ScalarHeld ==
  ASSUME NEW v, JsGood(v), v.type # "array"
  PROVE  /\ \A param \in AddParamToEventInfo(v) : HoldsJs(param, Written(v))
         /\ AddParamToEventInfo(v) # {} <=> IsWritten(v, ScriptTypes)
<1> DEFINE es == <<v>>
<1>1. Written(v) = es /\ (IsWritten(v, ScriptTypes) <=> v.type \in ScriptTypes) /\ JsTyped(v)
  BY DEF Written, IsWritten, JsGood
<1>2. Len(es) = 1 /\ es[1] = v
  OBVIOUS
<1> HIDE DEF es
<1>3. CASE v.type = "boolean"
  <2>1. AddParamToEventInfo(v) = {Param("bool", <<v.val>>)}
    BY <1>3 DEF AddParamToEventInfo, NumberTypes
  <2>2. SameElement(es, 1, v.val, FALSE)
    BY <1>2, <1>3 DEF SameElement
  <2>3. HoldsJs(Param("bool", <<v.val>>), es)
    BY <1>3, <2>2, OneHeld DEF es
  <2> QED BY <1>1, <1>3, <2>1, <2>3 DEF ScriptTypes
<1>4. CASE v.type \in {"number", "near"}
  <2>1. AddParamToEventInfo(v) = AddNumber(v) /\ JsNumber(v)
    BY <1>1, <1>4, TypedNumber DEF AddParamToEventInfo, NumberTypes
  <2>2. SameElement(es, 1, v.val, FALSE)
    BY <1>2, <1>4 DEF SameElement, ScriptNumber
  <2> DEFINE Way(f) == Param(IF f THEN "double" ELSE IF IsNegative(v) THEN "i64" ELSE "u64", <<v.val>>)
  <2>3. AddNumber(v) = {Way(f) : f \in IsFloatingNumber(v)}
    BY <1>4 DEF AddNumber
  <2>4. ASSUME NEW f \in IsFloatingNumber(v) PROVE HoldsJs(Way(f), es)
    <3> DEFINE kind == IF f THEN "double" ELSE IF IsNegative(v) THEN "i64" ELSE "u64"
    <3>1. kind \notin {"string", "string array"} /\ Way(f) = Param(kind, <<v.val>>)
      OBVIOUS
    <3> HIDE DEF kind, Way
    <3>2. HoldsJs(Param(kind, <<v.val>>), es)
      BY <1>4, <2>2, <3>1, OneHeld DEF es
    <3> QED BY <3>1, <3>2
  <2>5. IsFloatingNumber(v) # {}
    BY <2>1, FloatingCases
  <2> HIDE DEF Way
  <2> QED BY <1>1, <1>4, <2>1, <2>3, <2>4, <2>5 DEF ScriptTypes, NumberTypes
<1>5. CASE v.type = "nan"
  <2>1. AddParamToEventInfo(v) = {Param("u64", <<x>>) : x \in {0, 2 * (MaxInt64 + 1)}}
    BY <1>5 DEF AddParamToEventInfo, AddNumber, NumberTypes
  <2>2. Lossy(es)
    <3>1. 1 \in 1..Len(es) /\ es[1].type = "nan"
      BY <1>2, <1>5
    <3> QED BY <3>1 DEF Lossy
  <2>3. ASSUME NEW x PROVE HoldsJs(Param("u64", <<x>>), es)
    BY <1>5, <2>2, OneHeld DEF es
  <2> QED BY <1>1, <1>5, <2>1, <2>3 DEF ScriptTypes, NumberTypes
<1>6. CASE v.type = "string"
  <2> DEFINE param == Param("string", <<ParseStringValue(v.val)>>)
  <2>1. AddParamToEventInfo(v) = {param}
    BY <1>6 DEF AddParamToEventInfo, NumberTypes
  <2>2. v.val \in Seq(Nat)
    BY <1>1, <1>6 DEF JsTyped
  <2>3. [i \in 1..Len(es) |-> ParseStringValue(es[i].val)] = <<ParseStringValue(v.val)>>
    BY <1>2
  <2>4. \A i \in 1..Len(es) : es[i].type = "string" /\ es[i].val \in Seq(Nat)
    BY <1>2, <1>6, <2>2
  <2>5. Len(es) \in Nat /\ "string" \in {"string", "string array"}
    BY <1>2
  <2>6. \A p : p = Param("string", [i \in 1..Len(es) |-> ParseStringValue(es[i].val)]) => HoldsJs(p, es)
    BY <2>4, <2>5, TextsHeld
  <2>7. HoldsJs(param, es)
    BY <2>3, <2>6
  <2> HIDE DEF param
  <2> QED BY <1>1, <1>6, <2>1, <2>7 DEF ScriptTypes
<1>7. CASE v.type = "bigint"
  <2>1. AddParamToEventInfo(v) = {AddBigInt(v)} /\ v.val \in Int
    BY <1>1, <1>7 DEF AddParamToEventInfo, JsTyped, NumberTypes
  <2>2. ScriptNumber(es[1]) = 2 * v.val /\ es[1].type = "bigint"
    BY <1>2, <1>7 DEF ScriptNumber
  <2>3. CASE FitsU64(v.val)
    <3>1. AddBigInt(v) = Param("u64", <<2 * v.val>>)
      BY <2>3 DEF AddBigInt
    <3>2. SameElement(es, 1, 2 * v.val, FALSE)
      BY <2>2 DEF SameElement
    <3>3. HoldsJs(Param("u64", <<2 * v.val>>), es)
      BY <1>7, <3>2, OneHeld DEF es
    <3> QED BY <1>1, <1>7, <2>1, <3>1, <3>3 DEF ScriptTypes
  <2>4. CASE ~FitsU64(v.val)
    <3>1. AddBigInt(v) = Param("i64", <<WrapI64(2 * v.val)>>)
      BY <2>4 DEF AddBigInt
    <3>2. ASSUME ~Lossy(es) PROVE SameElement(es, 1, WrapI64(2 * v.val), FALSE)
      <4>1. 2 * v.val \in 2 * MinInt64..2 * MaxUInt64
        <5>1. 1 \in 1..Len(es)
          BY <1>2
        <5> QED BY <2>2, <3>2, <5>1 DEF Lossy
      <4>2. 2 * v.val \in 2 * MinInt64..2 * MaxInt64
        BY <2>1, <2>4, <4>1, NotUnsigned
      <4>3. WrapI64(2 * v.val) = 2 * v.val
        BY <2>1, <4>2, BigIntKept
      <4> QED BY <2>2, <4>3 DEF SameElement
    <3>3. HoldsJs(Param("i64", <<WrapI64(2 * v.val)>>), es)
      BY <1>7, <3>2, OneHeld DEF es
    <3> QED BY <1>1, <1>7, <2>1, <3>1, <3>3 DEF ScriptTypes
  <2> QED BY <2>3, <2>4
<1>8. CASE v.type \notin NumberTypes \cup {"boolean", "string", "bigint"}
  <2>1. AddParamToEventInfo(v) = {}
    BY <1>8 DEF AddParamToEventInfo
  <2> QED BY <1>1, <1>8, <2>1 DEF ScriptTypes
<1> QED BY <1>3, <1>4, <1>5, <1>6, <1>7, <1>8 DEF NumberTypes

(* The parameters of a value.                                              *)
LEMMA ValueHeld ==
  ASSUME NEW v, JsGood(v)
  PROVE  /\ \A param \in AddParamToEventInfo(v) : HoldsJs(param, Written(v))
         /\ AddParamToEventInfo(v) # {} <=> IsWritten(v, ScriptTypes)
BY ArrayHeld, ScalarHeld

(* The properties a script passes, and their values.                       *)
LEMMA PropsGood ==
  ASSUME NEW props \in Props
  PROVE  \A k \in DOMAIN props : JsGood(props[k])
<1>1. ASSUME NEW v \in JsValuesIn \cup JsPairs PROVE JsGood(v)
  BY JsValuesAssumption DEF JsGood, JsItems
<1>2. CASE \E v \in JsValuesIn : props = [n \in {"a"} |-> v]
  BY <1>1, <1>2
<1>3. CASE \E k \in {"a"} \cup BadKeys, v \in JsPairs, w \in JsPairs :
             props = [n \in {k, "b"} |-> IF n = "b" THEN w ELSE v]
  <2>1. PICK k \in {"a"} \cup BadKeys, v \in JsPairs, w \in JsPairs :
               props = [n \in {k, "b"} |-> IF n = "b" THEN w ELSE v]
    BY <1>3
  <2>2. JsGood(v) /\ JsGood(w)
    BY <1>1
  <2>3. ASSUME NEW n \in DOMAIN props PROVE JsGood(props[n])
    <3>1. CASE n = "b"
      <4>1. props[n] = w
        BY <2>1, <3>1
      <4> QED BY <2>2, <4>1
    <3>2. CASE n # "b"
      <4>1. props[n] = v
        BY <2>1, <3>2
      <4> QED BY <2>2, <4>1
    <3> QED BY <3>1, <3>2
  <2> QED BY <2>3
<1> DEFINE One(v) == [n \in {"a"} |-> v]
           Two(k, v, w) == [n \in {k, "b"} |-> IF n = "b" THEN w ELSE v]
<1>4. Props = {One(v) : v \in JsValuesIn}
                \cup {Two(k, v, w) : k \in {"a"} \cup BadKeys, v \in JsPairs, w \in JsPairs}
  BY DEF Props
<1>5. /\ (\E v \in JsValuesIn : props = One(v)) => \A k \in DOMAIN props : JsGood(props[k])
      /\ (\E k \in {"a"} \cup BadKeys, v \in JsPairs, w \in JsPairs : props = Two(k, v, w))
           => \A k \in DOMAIN props : JsGood(props[k])
  BY <1>2, <1>3
<1> HIDE DEF One, Two
<1> QED BY <1>4, <1>5

(* HasLongText is what OverLimit sees of it.                               *)
LEMMA LongTextSeen ==
  ASSUME NEW v
  PROVE  HasLongText(v) <=> LongTexts(Written(v))
BY DEF HasLongText, LongTexts, LongText

(* The step of the JS interface.                                           *)
LEMMA WriteJsKept == WriteJs => JsParamsKept'
<1> SUFFICES ASSUME WriteJs PROVE JsParamsKept'
  OBVIOUS
<1>1. PICK props \in Props : call' = [api |-> "js", props |-> props] /\ answer' \in JsEventInfo(props)
  BY DEF WriteJs, Called
<1> DEFINE named == DOMAIN props \ BadKeys
           kept == {k \in named : IsWritten(props[k], ScriptTypes)}
           ways == {w \in [kept -> UNION {AddParamToEventInfo(props[k]) : k \in kept}] :
                      \A k \in kept : w[k] \in AddParamToEventInfo(props[k])}
<1>2. \A k \in named : JsGood(props[k])
  BY PropsGood
<1>3. kept = {k \in named : AddParamToEventInfo(props[k]) # {}}
  BY <1>2, ValueHeld
<1>4. PICK w \in ways : answer' = [params |-> w, rejected |-> \E k \in kept : OverLimit(w[k])]
  <2>1. JsEventInfo(props) = {[params |-> w, rejected |-> \E k \in kept : OverLimit(w[k])] : w \in ways}
    BY <1>3 DEF JsEventInfo
  <2> HIDE DEF ways, kept
  <2> QED BY <1>1, <2>1
<1>5. DOMAIN w = kept /\ \A k \in kept : w[k] \in AddParamToEventInfo(props[k])
  OBVIOUS
<1>6. ASSUME NEW k \in kept PROVE HoldsJs(w[k], Written(props[k]))
  BY <1>2, <1>5, ValueHeld
<1> HIDE DEF ways
<1>7. answer'.params = w /\ answer'.rejected = \E k \in kept : HasLongText(props[k])
  <2>1. \A k \in kept : OverLimit(w[k]) <=> HasLongText(props[k])
    BY <1>6, LongTextSeen DEF HoldsJs
  <2> HIDE DEF kept
  <2> QED BY <1>4, <2>1
<1>8. ASSUME NEW k \in kept
      PROVE  LET es == Written(props[k])
                 vals == answer'.params[k].vals
             IN  /\ Len(vals) = Len(es)
                 /\ ~answer'.rejected /\ ~Lossy(es) => \A i \in 1..Len(es) : SameElement(es, i, vals[i], FALSE)
  <2>1. answer'.params[k] = w[k]
    BY <1>7
  <2>2. ~answer'.rejected => ~LongTexts(Written(props[k]))
    BY <1>7, LongTextSeen
  <2> QED BY <1>6, <2>1, <2>2 DEF HoldsJs
<1>9. call'.api = "js" /\ call'.props = props /\ DOMAIN answer'.params = kept
  BY <1>1, <1>5, <1>7
<1> DEFINE types == IF call'.api = "js" THEN ScriptTypes ELSE AniKinds
           Loses(es) == IF call'.api = "js" THEN Lossy(es) ELSE LossyAni(es)
<1>10. /\ {k \in DOMAIN call'.props \ BadKeys : IsWritten(call'.props[k], types)} = kept
       /\ \A es : Loses(es) <=> Lossy(es)
  BY <1>9
<1>11. answer'.rejected = (call'.api = "js" /\ \E k \in kept : HasLongText(call'.props[k]))
  BY <1>7, <1>9
<1>12. \A k \in DOMAIN answer'.params :
         LET es == Written(call'.props[k])
             vals == answer'.params[k].vals
         IN  /\ Len(vals) = Len(es)
             /\ ~answer'.rejected /\ ~Loses(es)
                  => \A i \in 1..Len(es) : SameElement(es, i, vals[i], call'.api = "ani")
  <2>1. (call'.api = "ani") = FALSE
    BY <1>9
  <2> HIDE DEF Loses, kept
  <2> QED BY <1>8, <1>9, <1>10, <2>1
<1> HIDE DEF kept, named
<1>13. /\ DOMAIN answer'.params \subseteq kept
       /\ call'.api = "js" => kept \subseteq DOMAIN answer'.params
       /\ \A i \in 1..Len(PropNames) :
            PropNames[i] \in kept /\ (\A h \in 1..i : PropNames[h] \in DOMAIN call'.props \ BadKeys => PropNames[h] \in kept)
              => PropNames[i] \in DOMAIN answer'.params
  BY <1>9
<1> QED BY <1>10, <1>11, <1>12, <1>13, Zenon DEF JsParamsKept

(* The parameter of an ArkTS value.                                        *)
HoldsAni(param, es) ==
  /\ Len(param.vals) = Len(es)
  /\ ~LossyAni(es) => \A i \in 1..Len(es) : SameElement(es, i, param.vals[i], TRUE)

(* One element of it.                                                      *)
LEMMA AniElement ==
  ASSUME NEW es, NEW i \in 1..Len(es), JsTyped(es[i]), es[i].type \in AniKinds, ~LossyAni(es)
  PROVE  SameElement(es, i, AniValue(es[i]), TRUE)
<1> DEFINE e == es[i]
<1>1. CASE e.type = "bigint"
  <2>1. e.val \in Int /\ ScriptNumber(e) = 2 * e.val
    BY <1>1 DEF JsTyped, ScriptNumber
  <2>2. 2 * e.val \in 2 * MinInt64..2 * MaxInt64
    BY <1>1, <2>1 DEF LossyAni
  <2>3. AniValue(e) = 2 * e.val
    BY <1>1, <2>1, <2>2, BigIntKept DEF AniValue, NumberTypes
  <2> QED BY <1>1, <2>1, <2>3 DEF SameElement
<1>2. CASE e.type = "int"
  BY <1>2 DEF SameElement, AniValue, ScriptNumber
<1>3. CASE e.type \in {"boolean", "number", "near", "nan"}
  BY <1>3 DEF SameElement, AniValue, ScriptNumber
<1>4. CASE e.type = "string"
  <2>1. AniValue(e) = CString(e.val) /\ e.val \in Seq(Nat)
    BY <1>4 DEF AniValue, JsTyped
  <2>2. UpToNul(CString(e.val), e.val)
    BY <2>1, TextEnds
  <2> QED BY <1>4, <2>1, <2>2 DEF SameElement
<1> QED BY <1>1, <1>2, <1>3, <1>4 DEF AniKinds, NumberTypes

(* GetBooleans, GetDoubles, GetStrings, GetIntsToDoubles and GetBigints.   *)
LEMMA AniHeld ==
  ASSUME NEW v, JsGood(v), SameClass(v), AniUsable(v)
  PROVE  HoldsAni(AniParam(v), Written(v))
<1> DEFINE es == Written(v)
           param == AniParam(v)
<1>1. CASE v.type = "array"
  <2> DEFINE T == JsItems(v)
             val == v.val
             A == {e \in Range(val) : Family(e.type) = Family(val[1].type)}
  <2>1. val \in Seq(T) /\ \A e \in T : JsTyped(e)
    BY <1>1 DEF JsGood, JsItems
  <2>2. val # <<>> /\ Head(val).type \in AniKinds /\ \A i \in 1..Len(val) : Family(val[i].type) = Family(val[1].type)
    BY <1>1 DEF AniUsable, SameClass
  <2>3. \A i \in 1..Len(val) : val[i] \in A
    <3>1. \A i \in 1..Len(val) : val[i] \in Range(val)
      <4> HIDE DEF val, T
      <4>1. DOMAIN val = 1..Len(val)
        BY <2>1
      <4> QED BY <4>1 DEF Range
    <3> QED BY <2>2, <3>1
  <2>4. es = val
    <3>1. es = Keep(val, A)
      BY <1>1 DEF Written
    <3> HIDE DEF A, val, T, es
    <3>2. Keep(val, A) = val
      BY <2>1, <2>3, KeepAll
    <3> QED BY <3>1, <3>2
  <2>5. param.vals = AniElements(val)
    BY <1>1 DEF AniParam, Param
  <2> HIDE DEF val, T, A, es, param
  <2>6. Len(val) \in Nat /\ Head(val) = val[1] /\ \A i \in 1..Len(val) : val[i] \in T
    BY <2>1, <2>2
  <2>7. \A i \in 1..Len(val) : JsTyped(val[i]) /\ val[i].type \in AniKinds
    <3>1. \A i \in 1..Len(val) : val[i].type \in AniKinds
      BY <2>2, <2>6 DEF Family, AniKinds, NumberTypes
    <3> QED BY <2>1, <2>6, <3>1
  <2>8. Len(AniElements(val)) = Len(val) /\ \A i \in 1..Len(val) : AniElements(val)[i] = AniValue(val[i])
    BY <2>6 DEF AniElements
  <2>9. ASSUME ~LossyAni(val), NEW i \in 1..Len(val) PROVE SameElement(val, i, AniElements(val)[i], TRUE)
    BY <2>7, <2>8, <2>9, AniElement
  <2>10. HoldsAni(param, es)
    BY <2>4, <2>5, <2>8, <2>9, Zenon DEF HoldsAni
  <2> QED BY <2>10 DEF param, es
<1>2. CASE v.type # "array"
  <2>1. es = <<v>> /\ param.vals = <<AniValue(v)>> /\ v.type \in AniKinds /\ JsTyped(v)
    BY <1>2 DEF Written, AniParam, Param, AniUsable, JsGood
  <2>2. Len(es) = 1 /\ es[1] = v /\ Len(param.vals) = 1 /\ param.vals[1] = AniValue(v)
    BY <2>1
  <2>3. 1..Len(es) = 1..1 /\ 1 \in 1..1
    BY <2>2
  <2> HIDE DEF es, param
  <2>4. ASSUME ~LossyAni(es) PROVE SameElement(es, 1, param.vals[1], TRUE)
    BY <2>1, <2>2, <2>3, <2>4, AniElement
  <2>5. ASSUME ~LossyAni(es), NEW i \in 1..Len(es) PROVE SameElement(es, i, param.vals[i], TRUE)
    <3>1. i = 1
      BY <2>3, OneIndex, Zenon
    <3> QED BY <2>4, <2>5, <3>1, Zenon
  <2>6. HoldsAni(param, es)
    BY <2>2, <2>5 DEF HoldsAni
  <2> QED BY <2>6 DEF param, es
<1> QED BY <1>1, <1>2

(* What ArkTS can use is what is written of it.                            *)
LEMMA UsableWritten ==
  ASSUME NEW v, JsGood(v)
  PROVE  AniUsable(v) <=> IsWritten(v, AniKinds)
<1>1. v.type = "array" /\ v.val # <<>> => Head(v.val) = v.val[1]
  <2> SUFFICES ASSUME v.type = "array", v.val # <<>> PROVE Head(v.val) = v.val[1]
    OBVIOUS
  <2> DEFINE val == v.val
             T == JsItems(v)
  <2>1. val \in Seq(T)
    BY DEF JsGood
  <2> HIDE DEF val, T
  <2>2. Head(val) = val[1]
    BY <2>1
  <2> QED BY <2>2 DEF val
<1> QED BY <1>1 DEF AniUsable, IsWritten

(* The step of the ArkTS interface.                                        *)
LEMMA WriteAniKept == WriteAni => JsParamsKept'
<1> SUFFICES ASSUME WriteAni PROVE JsParamsKept'
  OBVIOUS
<1>1. PICK props \in Props : /\ \A k \in DOMAIN props : SameClass(props[k])
                            /\ call' = [api |-> "ani", props |-> props]
                            /\ answer' = AniEventInfo(props, PropNames)
  BY DEF WriteAni, Called
<1> DEFINE parsed == DOMAIN props \ BadKeys
           kept == {k \in parsed : IsWritten(props[k], AniKinds)}
           reached == {i \in 1..Len(PropNames) :
                         \A h \in 1..i : PropNames[h] \in parsed => AniUsable(props[PropNames[h]])}
           there == parsed \cap {PropNames[i] : i \in reached}
<1>2. \A k \in parsed : JsGood(props[k]) /\ SameClass(props[k]) /\ (AniUsable(props[k]) <=> k \in kept)
  <2>1. \A k \in parsed : JsGood(props[k]) /\ SameClass(props[k])
    BY <1>1, PropsGood
  <2> QED BY <2>1, UsableWritten
<1>3. answer'.params = [k \in there |-> AniParam(props[k])] /\ answer'.rejected = FALSE
  BY <1>1 DEF AniEventInfo
<1>4. Len(PropNames) \in Nat
  BY DEF PropNames
<1>5. there \subseteq kept
  <2>1. ASSUME NEW k \in there PROVE k \in kept
    <3>1. PICK i \in reached : k = PropNames[i]
      OBVIOUS
    <3>2. i \in 1..i
      BY <1>4
    <3>3. AniUsable(props[k])
      BY <3>1, <3>2
    <3> QED BY <1>2, <3>3
  <2> QED BY <2>1
<1>6. ASSUME NEW i \in 1..Len(PropNames), PropNames[i] \in kept,
             \A h \in 1..i : PropNames[h] \in parsed => PropNames[h] \in kept
      PROVE  PropNames[i] \in there
  <2>1. i \in reached
    BY <1>2, <1>6
  <2> QED BY <1>6, <2>1
<1> HIDE DEF reached, there
<1>7. ASSUME NEW k \in there
      PROVE  LET es == Written(props[k])
                 vals == answer'.params[k].vals
             IN  Len(vals) = Len(es) /\ (~LossyAni(es) => \A i \in 1..Len(es) : SameElement(es, i, vals[i], TRUE))
  <2>1. answer'.params[k] = AniParam(props[k])
    BY <1>3
  <2>2. k \in parsed /\ AniUsable(props[k])
    BY <1>2, <1>5
  <2>3. HoldsAni(AniParam(props[k]), Written(props[k]))
    BY <1>2, <2>2, AniHeld
  <2> QED BY <2>1, <2>3 DEF HoldsAni
<1>8. call'.api = "ani" /\ call'.api # "js" /\ call'.props = props /\ DOMAIN answer'.params = there
  BY <1>1, <1>3
<1> DEFINE types == IF call'.api = "js" THEN ScriptTypes ELSE AniKinds
           Loses(es) == IF call'.api = "js" THEN Lossy(es) ELSE LossyAni(es)
<1>9. /\ {k \in DOMAIN call'.props \ BadKeys : IsWritten(call'.props[k], types)} = kept
      /\ DOMAIN call'.props \ BadKeys = parsed
      /\ \A es : Loses(es) <=> LossyAni(es)
  BY <1>8
<1>10. answer'.rejected = (call'.api = "js" /\ \E k \in kept : HasLongText(call'.props[k]))
  BY <1>3, <1>8
<1>11. \A k \in DOMAIN answer'.params :
         LET es == Written(call'.props[k])
             vals == answer'.params[k].vals
         IN  /\ Len(vals) = Len(es)
             /\ ~answer'.rejected /\ ~Loses(es)
                  => \A i \in 1..Len(es) : SameElement(es, i, vals[i], call'.api = "ani")
  <2>1. (call'.api = "ani") = TRUE
    BY <1>8
  <2> HIDE DEF Loses, kept, parsed
  <2> QED BY <1>7, <1>8, <1>9, <2>1
<1> HIDE DEF kept, parsed
<1>12. /\ DOMAIN answer'.params \subseteq kept
       /\ call'.api = "js" => kept \subseteq DOMAIN answer'.params
       /\ \A i \in 1..Len(PropNames) :
            PropNames[i] \in kept /\ (\A h \in 1..i : PropNames[h] \in DOMAIN call'.props \ BadKeys => PropNames[h] \in kept)
              => PropNames[i] \in DOMAIN answer'.params
  BY <1>5, <1>6, <1>8, <1>9
<1> QED BY <1>9, <1>10, <1>11, <1>12, Zenon DEF JsParamsKept

-----------------------------------------------------------------------------
(* Which function of the interfaces an action is.                          *)
LEMMA CallsOfActions ==
  /\ ReadParam => call'.api = "param"
  /\ ReadParamC => call'.api = "c"
  /\ ReadBase => call'.api = "base"
  /\ DeliverC => call'.api = "deliver"
  /\ WriteJs => call'.api = "js"
  /\ WriteAni => call'.api = "ani"
  /\ ShowJs \/ ShowAni => call'.api = "show"
  /\ WriteEasy => call'.api = "easy"
  /\ QueryRust => call'.api = "rust"
<1>1. ReadParam => call'.api = "param"
  BY DEF ReadParam, Called
<1>2. ReadParamC => call'.api = "c"
  BY DEF ReadParamC, Called
<1>3. ReadBase => call'.api = "base"
  BY DEF ReadBase, Called
<1>4. DeliverC => call'.api = "deliver"
  BY DEF DeliverC, Called
<1>5. WriteJs => call'.api = "js"
  BY DEF WriteJs, Called
<1>6. WriteAni => call'.api = "ani"
  BY DEF WriteAni, Called
<1>7. ShowJs \/ ShowAni => call'.api = "show"
  BY DEF ShowJs, ShowAni, Called
<1>8. WriteEasy => call'.api = "easy"
  BY DEF WriteEasy, Called
<1>9. QueryRust => call'.api = "rust"
  BY DEF QueryRust, Called
<1> QED BY <1>1, <1>2, <1>3, <1>4, <1>5, <1>6, <1>7, <1>8, <1>9

(* The answers to the other calls say nothing of a conversion.             *)
LEMMA OtherCalls ==
  /\ call'.api \notin {"param", "c", "base"} => RecordReadsTrue'
  /\ call'.api # "deliver" => CRecordsComplete'
  /\ call'.api # "show" => JsonReachesJs'
  /\ call'.api # "easy" => EasyEventIntact'
  /\ call'.api # "rust" => RustNamesArrive'
  /\ call'.api \notin {"js", "ani"} => JsParamsKept'
BY DEF RecordReadsTrue, CRecordsComplete, JsonReachesJs, EasyEventIntact, RustNamesArrive, JsParamsKept

(* Before the first call there is nothing to be wrong.                     *)
LEMMA NotCalled ==
  ConversionsInit =>
    /\ RecordReadsTrue /\ CRecordsComplete /\ JsonReachesJs /\ EasyEventIntact
    /\ RustNamesArrive /\ JsParamsKept
BY DEF ConversionsInit, Idle, RecordReadsTrue, CRecordsComplete, JsonReachesJs, EasyEventIntact,
       RustNamesArrive, JsParamsKept

(* Nothing changes when no call is made.                                   *)
LEMMA ConversionStays ==
  UNCHANGED cvars =>
    /\ RecordReadsTrue => RecordReadsTrue'
    /\ CRecordsComplete => CRecordsComplete'
    /\ JsonReachesJs => JsonReachesJs'
    /\ EasyEventIntact => EasyEventIntact'
    /\ RustNamesArrive => RustNamesArrive'
    /\ JsParamsKept => JsParamsKept'
<1> SUFFICES ASSUME call' = call, answer' = answer
             PROVE  /\ RecordReadsTrue => RecordReadsTrue'
                    /\ CRecordsComplete => CRecordsComplete'
                    /\ JsonReachesJs => JsonReachesJs'
                    /\ EasyEventIntact => EasyEventIntact'
                    /\ RustNamesArrive => RustNamesArrive'
                    /\ JsParamsKept => JsParamsKept'
  BY DEF cvars
<1>1. RecordReadsTrue => RecordReadsTrue'
  BY Zenon DEF RecordReadsTrue
<1>2. CRecordsComplete => CRecordsComplete'
  BY Zenon DEF CRecordsComplete
<1>3. JsonReachesJs => JsonReachesJs'
  BY Zenon DEF JsonReachesJs
<1>4. EasyEventIntact => EasyEventIntact'
  BY Zenon DEF EasyEventIntact
<1>5. RustNamesArrive => RustNamesArrive'
  BY Zenon DEF RustNamesArrive, GoodRule, Copied
<1>6. JsParamsKept => JsParamsKept'
  BY Zenon DEF JsParamsKept
<1> QED BY <1>1, <1>2, <1>3, <1>4, <1>5, <1>6

(***************************************************************************)
(* HiSysEventRecord::GetParamValue, the C getters over it and the getters  *)
(* of the base fields answer with ok only what the JSON of the event says; *)
(* for every width of int64_t and uint64_t, every width of int and every   *)
(* tree of values.                                                         *)
(***************************************************************************)
THEOREM RecordsReadTrue == ConversionsSpec => []RecordReadsTrue
<1>1. RecordReadsTrue /\ [ConversionsNext]_cvars => RecordReadsTrue'
  BY ParamStep, ParamCStep, BaseStep, CallsOfActions, OtherCalls, ConversionStays DEF ConversionsNext
<1> QED BY <1>1, NotCalled, PTL DEF ConversionsSpec

(***************************************************************************)
(* OnQuery and OnEvent of the C interface delete all they allocate; a      *)
(* querier gets a batch whole or not at all, whatever field of whatever    *)
(* record fails.                                                           *)
(***************************************************************************)
THEOREM CRecordsAreComplete == ConversionsSpec => []CRecordsComplete
<1>1. CRecordsComplete /\ [ConversionsNext]_cvars => CRecordsComplete'
  BY DeliverComplete, CallsOfActions, OtherCalls, ConversionStays DEF ConversionsNext
<1> QED BY <1>1, NotCalled, PTL DEF ConversionsSpec

(***************************************************************************)
(* The object that CreateHiSysEventInfoJsObject or its ArkTS counterpart   *)
(* makes of an event shows the numbers, flags and texts of the JSON of the *)
(* event: for JS every parameter under its name; for ArkTS, whose params   *)
(* is no record, the value of one parameter, and the base fields.          *)
(***************************************************************************)
THEOREM ObjectsShowTheJson == ConversionsSpec => []JsonReachesJs
<1>1. JsonReachesJs /\ [ConversionsNext]_cvars => JsonReachesJs'
  BY ShowJsTrue, ShowAniTrue, CallsOfActions, OtherCalls, ConversionStays DEF ConversionsNext
<1> QED BY <1>1, NotCalled, PTL DEF ConversionsSpec

(***************************************************************************)
(* HiSysEventEasyWrite sends one datagram or none, says which, and what it *)
(* sends reads back: all lengths of the texts, every int as the type,      *)
(* which is narrowed to uint8_t, and all errors of the socket.             *)
(***************************************************************************)
THEOREM EasyEventsAreIntact == ConversionsSpec => []EasyEventIntact
<1>1. EasyEventIntact /\ [ConversionsNext]_cvars => EasyEventIntact'
  BY EasyComplete, CallsOfActions, OtherCalls, ConversionStays DEF ConversionsNext
<1> QED BY <1>1, NotCalled, PTL DEF ConversionsSpec

(***************************************************************************)
(* The event names of a Rust query rule reach HiSysEventQuery one by one   *)
(* and in order: joining and splitting lose none, however many and however *)
(* long the arrays allow.  Each is what was passed if the memory behind it *)
(* holds a NUL, and begins with it otherwise; the texts of a watch rule    *)
(* arrive exactly.                                                         *)
(***************************************************************************)
THEOREM RustNamesReachTheLibrary == ConversionsSpec => []RustNamesArrive
<1>1. RustNamesArrive /\ [ConversionsNext]_cvars => RustNamesArrive'
  BY RustStep, CallsOfActions, OtherCalls, ConversionStays DEF ConversionsNext
<1> QED BY <1>1, NotCalled, PTL DEF ConversionsSpec

(***************************************************************************)
(* What a script writes arrives: AddParamToEventInfo and its ArkTS         *)
(* counterpart make one parameter of every usable property, under its      *)
(* name, and keep each number, flag and text up to its first NUL, but for  *)
(* the numbers that Lossy names and the distance of less than 1e-9 that    *)
(* IsFloatingNumber takes for none; for every array, every half number     *)
(* that is a double, and every width of int64_t.                           *)
(***************************************************************************)
THEOREM ScriptsValuesAreKept == ConversionsSpec => []JsParamsKept
<1>1. JsParamsKept /\ [ConversionsNext]_cvars => JsParamsKept'
  BY WriteJsKept, WriteAniKept, CallsOfActions, OtherCalls, ConversionStays DEF ConversionsNext
<1> QED BY <1>1, NotCalled, PTL DEF ConversionsSpec
================================================================================
