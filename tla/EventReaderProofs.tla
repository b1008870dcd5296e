--------------------------- MODULE EventReaderProofs ---------------------------
(***************************************************************************)
(* What the daemon reads is what the caller wrote: for all limits, all     *)
(* widths and all parameters.  Each reader is the inverse of one encoder,  *)
(* wherever in the data its bytes lie; EventWriterProofs says which bytes  *)
(* lie where.                                                              *)
(***************************************************************************)
EXTENDS EventReader, EventWriterProofs

(***************************************************************************)
(* The bytes are in the data, from place i on.                             *)
(***************************************************************************)
Holds(d, i, bytes) ==
  /\ i \in Nat \ {0}
  /\ bytes \in Seq(Int)
  /\ i + Len(bytes) <= Len(d) + 1
  /\ \A j \in 1..Len(bytes) : d[i + j - 1] = bytes[j]

(* Of two parts, the first is there and the second behind it.              *)
LEMMA HoldsParts ==
  ASSUME NEW d \in Seq(Int), NEW i, NEW a \in Seq(Int), NEW b \in Seq(Int), Holds(d, i, a \o b)
  PROVE  Holds(d, i, a) /\ Holds(d, i + Len(a), b)
<1>1. /\ i \in Nat \ {0} /\ i + Len(a \o b) <= Len(d) + 1
      /\ \A j \in 1..Len(a \o b) : d[i + j - 1] = (a \o b)[j]
  BY DEF Holds
<1>2. Len(a \o b) = Len(a) + Len(b) /\ Len(a) \in Nat /\ Len(b) \in Nat /\ Len(d) \in Nat
  OBVIOUS
<1>3. ASSUME NEW j \in 1..Len(a) PROVE d[i + j - 1] = a[j]
  <2>1. j \in 1..Len(a \o b) /\ (a \o b)[j] = a[j]
    BY <1>2
  <2> QED BY <1>1, <2>1
<1>4. ASSUME NEW j \in 1..Len(b) PROVE d[(i + Len(a)) + j - 1] = b[j]
  <2>1. Len(a) + j \in 1..Len(a \o b) /\ (a \o b)[Len(a) + j] = b[j]
    BY <1>2
  <2>2. (i + Len(a)) + j - 1 = i + (Len(a) + j) - 1
    BY <1>1, <1>2
  <2> QED BY <1>1, <2>1, <2>2
<1>5. i + Len(a) <= Len(d) + 1 /\ (i + Len(a)) + Len(b) <= Len(d) + 1 /\ i + Len(a) \in Nat \ {0}
  BY <1>1, <1>2
<1> QED BY <1>1, <1>3, <1>4, <1>5 DEF Holds

(* The first of the bytes.                                                 *)
LEMMA HoldsFirst ==
  ASSUME NEW d \in Seq(Int), NEW i, NEW b \in Int, NEW rest \in Seq(Int), Holds(d, i, <<b>> \o rest)
  PROVE  At(d, i) = b /\ i \in 1..Len(d) /\ Holds(d, i + 1, rest)
<1>1. <<b>> \in Seq(Int) /\ Len(<<b>>) = 1 /\ <<b>>[1] = b
  OBVIOUS
<1>2. Holds(d, i, <<b>>) /\ Holds(d, i + 1, rest)
  BY <1>1, HoldsParts
<1>3. i \in Nat \ {0} /\ i + 1 <= Len(d) + 1 /\ d[i + 1 - 1] = b /\ i + 1 - 1 = i /\ Len(d) \in Nat
  BY <1>1, <1>2 DEF Holds
<1> QED BY <1>2, <1>3 DEF At

(* Cells reads them.                                                       *)
LEMMA HoldsCells ==
  ASSUME NEW d \in Seq(Int), NEW i, NEW bytes \in Seq(Int), Holds(d, i, bytes)
  PROVE  Cells(d, i, Len(bytes)) = bytes
<1>1. ASSUME NEW j \in 1..Len(bytes) PROVE At(d, i + j - 1) = bytes[j]
  <2>1. /\ i \in Nat \ {0} /\ i + Len(bytes) <= Len(d) + 1
        /\ d[i + j - 1] = bytes[j]
    BY Zenon DEF Holds
  <2>2. Len(bytes) \in Nat /\ Len(d) \in Nat
    OBVIOUS
  <2> DEFINE m == Len(bytes)
             n == Len(d)
             at == i + j - 1
  <2>3. m \in Nat /\ n \in Nat /\ i \in Nat \ {0} /\ i + m <= n + 1 /\ j \in 1..m
    BY <2>1, <2>2, Zenon
  <2> HIDE DEF m, n
  <2>4. at \in 1..n
    BY <2>3
  <2> HIDE DEF at
  <2>5. d[at] = bytes[j]
    BY <2>1, Zenon DEF at
  <2>6. At(d, at) = bytes[j]
    BY <2>4, <2>5, Zenon DEF At, n
  <2> QED BY <2>6, Zenon DEF at
<1>2. Cells(d, i, Len(bytes)) = [j \in 1..Len(bytes) |-> bytes[j]]
  BY <1>1, Zenon DEF Cells
<1>3. bytes = [j \in 1..Len(bytes) |-> bytes[j]]
  OBVIOUS
<1> QED BY <1>2, <1>3, Zenon
-----------------------------------------------------------------------------
(***************************************************************************)
(* The numbers.  The low bits and the high bits of a sum of both.          *)
(***************************************************************************)
LEMMA LowAndHigh ==
  ASSUME NEW u \in Nat \ {0}, NEW q \in Nat, NEW r \in 0..(u - 1)
  PROVE  (u * q + r) % u = r /\ (u * q + r) \div u = q
OBVIOUS

LEMMA SplitAt ==
  ASSUME NEW u \in Nat \ {0}, NEW n \in Nat
  PROVE  /\ n % u \in 0..(u - 1) /\ n \div u \in Nat
         /\ n = u * (n \div u) + (n % u)
         /\ n < u <=> n \div u = 0
OBVIOUS

(* ReadRest, n cells before the end of the data.                           *)
RestBody(d, g, n) ==
  IF n = 0 \/ At(d, Len(d) + 1 - n) < 2^NON_TAG_BYTE_OFFSET
  THEN Item(At(d, Len(d) + 1 - n) % 2^NON_TAG_BYTE_OFFSET, Len(d) + 2 - n)
  ELSE Joined(At(d, Len(d) + 1 - n) % 2^NON_TAG_BYTE_OFFSET, 2^NON_TAG_BYTE_OFFSET, g[n - 1])

(* A number and a place.                                                   *)
Numbers == [val : Nat, next : Int]

(* The data has numbers at every place.                                    *)
LEMMA AtTyped == ASSUME NEW d \in Seq(Int), NEW i PROVE At(d, i) \in Int
BY DEF At

(* A number of two parts is one.                                           *)
LEMMA JoinedTyped ==
  ASSUME NEW low \in Nat, NEW unit \in Nat, NEW rest \in Numbers
  PROVE  Joined(low, unit, rest) \in Numbers
<1>1. rest.val \in Nat /\ rest.next \in Int
  BY DEF Numbers
<1>2. unit * rest.val \in Nat
  BY <1>1
<1>3. low + unit * rest.val \in Nat
  BY <1>2
<1> QED BY <1>1, <1>3 DEF Joined, Item, Numbers

(* The recursion of ReadRest has a solution.                               *)
LEMMA RestExists ==
  ASSUME NEW d \in Seq(Int)
  PROVE  \E g \in [Nat -> Numbers] : g = [n \in Nat |-> RestBody(d, g, n)]
<1> DEFINE unit == 2^NON_TAG_BYTE_OFFSET
           prev == [n \in Nat \ {0} |-> n - 1]
           S(n, more) == IF At(d, Len(d) + 1 - n) < unit
                         THEN Item(At(d, Len(d) + 1 - n) % unit, Len(d) + 2 - n)
                         ELSE Joined(At(d, Len(d) + 1 - n) % unit, unit, more)
           step == [p \in (Nat \ {0}) \X Numbers |-> S(p[1], p[2])]
           b == Item(At(d, Len(d) + 1 - 0) % unit, Len(d) + 2 - 0)
<1>1. unit \in Nat \ {0}
  BY RawDataAssumption
<1> HIDE DEF unit
<1>2. \A n \in Nat : At(d, Len(d) + 1 - n) % unit \in Nat /\ Len(d) + 2 - n \in Int
  <2> SUFFICES ASSUME NEW n \in Nat
               PROVE  At(d, Len(d) + 1 - n) % unit \in Nat /\ Len(d) + 2 - n \in Int
    OBVIOUS
  <2>1. At(d, Len(d) + 1 - n) \in Int
    BY AtTyped
  <2> QED BY <1>1, <2>1
<1>3. \A n \in Nat : Item(At(d, Len(d) + 1 - n) % unit, Len(d) + 2 - n) \in Numbers
  BY <1>2 DEF Item, Numbers
<1>4. ASSUME NEW n \in Nat, NEW more \in Numbers PROVE S(n, more) \in Numbers
  <2>1. Joined(At(d, Len(d) + 1 - n) % unit, unit, more) \in Numbers
    BY <1>1, <1>2, JoinedTyped
  <2> QED BY <1>3, <2>1
<1>5. Recursion(Numbers, b, prev, step)
  <2>1. prev \in [Nat \ {0} -> Nat] /\ \A n \in Nat \ {0} : prev[n] < n
    OBVIOUS
  <2>2. step \in [(Nat \ {0}) \X Numbers -> Numbers]
    <3> HIDE DEF S
    <3>1. \A p \in (Nat \ {0}) \X Numbers : S(p[1], p[2]) \in Numbers
      BY <1>4
    <3> QED BY <3>1
  <2>3. b \in Numbers
    BY <1>3
  <2> HIDE DEF prev, step, b
  <2> QED BY <2>1, <2>2, <2>3 DEF Recursion
<1>6. PICK g \in [Nat -> Numbers] : \A n \in Nat : g[n] = ValueAt(b, prev, step, g, n)
  <2> HIDE DEF prev, step, b
  <2> QED BY <1>5, RecursionExists
<1>7. ASSUME NEW n \in Nat PROVE g[n] = RestBody(d, g, n)
  <2>1. CASE n = 0
    BY <1>6, <2>1 DEF ValueAt, RestBody, unit
  <2>2. CASE n # 0
    <3>1. prev[n] = n - 1 /\ n - 1 \in Nat
      BY <2>2
    <3>2. g[n] = step[<<n, g[prev[n]]>>]
      <4> HIDE DEF prev, step, b
      <4> QED BY <1>6, <2>2 DEF ValueAt
    <3>3. <<n, g[n - 1]>> \in (Nat \ {0}) \X Numbers
      BY <2>2, <3>1
    <3>4. g[n] = S(n, g[n - 1])
      <4> HIDE DEF prev, S
      <4> QED BY <3>1, <3>2, <3>3
    <3> QED BY <2>2, <3>4 DEF RestBody, unit
  <2> QED BY <2>1, <2>2
<1> QED BY <1>7

(* What ReadRest does at a place in the data.                              *)
LEMMA RestUnfold ==
  ASSUME NEW d \in Seq(Int), NEW i \in 1..Len(d)
  PROVE  ReadRest(d, i) =
           IF At(d, i) < 2^NON_TAG_BYTE_OFFSET
           THEN Item(At(d, i) % 2^NON_TAG_BYTE_OFFSET, i + 1)
           ELSE Joined(At(d, i) % 2^NON_TAG_BYTE_OFFSET, 2^NON_TAG_BYTE_OFFSET, ReadRest(d, i + 1))
<1> DEFINE g == CHOOSE h : h = [n \in Nat |-> RestBody(d, h, n)]
           n == Len(d) + 1 - i
<1>1. g = [k \in Nat |-> RestBody(d, g, k)]
  BY RestExists
<1>2. \A k : ReadRest(d, k) = IF k > Len(d) THEN Item(0, k + 1) ELSE g[Len(d) + 1 - k]
  BY Zenon DEF ReadRest, RestBody
<1> HIDE DEF g
<1>3. n \in Nat \ {0} /\ Len(d) + 1 - n = i /\ Len(d) + 2 - n = i + 1 /\ ~(i > Len(d)) /\ n - 1 \in Nat
  OBVIOUS
<1>4. g[n] = IF At(d, i) < 2^NON_TAG_BYTE_OFFSET
             THEN Item(At(d, i) % 2^NON_TAG_BYTE_OFFSET, i + 1)
             ELSE Joined(At(d, i) % 2^NON_TAG_BYTE_OFFSET, 2^NON_TAG_BYTE_OFFSET, g[n - 1])
  <2>1. g[n] = RestBody(d, g, n)
    BY <1>1, <1>3
  <2> HIDE DEF n
  <2> QED BY <1>3, <2>1 DEF RestBody
<1>5. ReadRest(d, i + 1) = g[n - 1]
  <2>1. CASE i = Len(d)
    <3>1. n - 1 = 0 /\ i + 1 > Len(d) /\ (i + 1) + 1 = Len(d) + 2 - 0 /\ Len(d) + 1 - 0 \notin 1..Len(d)
      BY <2>1
    <3>2. g[0] = RestBody(d, g, 0)
      BY <1>1
    <3>3. At(d, Len(d) + 1 - 0) = 0
      BY <3>1 DEF At
    <3>4. 0 % 2^NON_TAG_BYTE_OFFSET = 0
      <4>1. \A u \in Nat \ {0} : 0 % u = 0
        OBVIOUS
      <4> QED BY <4>1, RawDataAssumption
    <3>5. g[0] = Item(0, Len(d) + 2 - 0)
      BY <3>2, <3>3, <3>4 DEF RestBody
    <3> HIDE DEF n
    <3> QED BY <1>2, <3>1, <3>5
  <2>2. CASE i # Len(d)
    <3>1. ~(i + 1 > Len(d)) /\ Len(d) + 1 - (i + 1) = n - 1
      BY <2>2
    <3> HIDE DEF n
    <3> QED BY <1>2, <3>1
  <2> QED BY <2>1, <2>2
<1>6. ReadRest(d, i) = g[n]
  BY <1>2, <1>3
<1> HIDE DEF n
<1> QED BY <1>4, <1>5, <1>6

(* ReadRest is the inverse of NonTagBytes.                                 *)
LEMMA RestReads ==
  ASSUME NEW d \in Seq(Int), NEW val \in Nat \ {0}, NEW i, Holds(d, i, NonTagBytes[val])
  PROVE  ReadRest(d, i) = Item(val, i + Len(NonTagBytes[val]))
<1> DEFINE Read(v) == \A k : Holds(d, k, NonTagBytes[v]) => ReadRest(d, k) = Item(v, k + Len(NonTagBytes[v]))
           S == {v \in Nat \ {0} : ~Read(v)}
<1> SUFFICES ASSUME S # {} PROVE FALSE
  OBVIOUS
<1>1. PICK v \in S : \A u \in S : v <= u
  <2> HIDE DEF S
  <2>1. S \in SUBSET Nat
    BY DEF S
  <2> QED BY <2>1, LeastNatural
<1>2. v \in Nat \ {0} /\ ~Read(v)
  OBVIOUS
<1>3. ASSUME NEW u \in Nat \ {0}, u < v PROVE Read(u)
  <2> HIDE DEF Read
  <2>1. u \notin S
    <3> HIDE DEF S
    <3> QED BY <1>1, <1>2, <1>3
  <2> QED BY <2>1
<1>4. PICK k : Holds(d, k, NonTagBytes[v]) /\ ReadRest(d, k) # Item(v, k + Len(NonTagBytes[v]))
  BY <1>2
<1> DEFINE m == 2^NON_TAG_BYTE_OFFSET
           u == v \div m
           b == (v % m) + (IF v < m THEN 0 ELSE m)
           rest == NonTagBytes[u]
<1>5. m \in Nat \ {0}
  BY RawDataAssumption
<1>6. u \in Nat /\ u < v
  BY <1>2, HighBitsSmaller
<1>7. NonTagBytes[v] = <<b>> \o rest
  BY <1>2, BytesUnfold DEF BytesBody, LowBits
<1>8. rest \in Seq(Int)
  BY <1>6, BytesType
<1> HIDE DEF Read, S, rest
<1>9. /\ v % m \in 0..(m - 1) /\ v = m * u + (v % m) /\ (v < m <=> u = 0)
  <2> HIDE DEF m
  <2> QED BY <1>2, <1>5, SplitAt DEF u
<1> DEFINE r == v % m
<1> HIDE DEF u, m, r
<1>10. r \in 0..(m - 1) /\ v = m * u + r /\ (v < m <=> u = 0) /\ b = r + (IF v < m THEN 0 ELSE m)
  BY <1>9 DEF r
<1> HIDE DEF b
<1>11. b \in Int
  BY <1>5, <1>10
<1>12. At(d, k) = b /\ k \in 1..Len(d) /\ Holds(d, k + 1, rest)
  BY <1>4, <1>7, <1>8, <1>11, HoldsFirst
<1>13. ReadRest(d, k) = IF b < m THEN Item(b % m, k + 1) ELSE Joined(b % m, m, ReadRest(d, k + 1))
  BY <1>12, RestUnfold DEF m
<1>14. b % m = r
  <2>1. (m * 0 + r) % m = r /\ (m * 1 + r) % m = r
    BY <1>5, <1>10, LowAndHigh
  <2>2. m * 0 = 0 /\ m * 1 = m
    BY <1>5
  <2>3. b = m * 0 + r \/ b = m * 1 + r
    BY <1>5, <1>10, <2>2
  <2> QED BY <2>1, <2>3
<1>15. Len(NonTagBytes[v]) = 1 + Len(rest) /\ Len(rest) \in Nat
  <2>1. <<b>> \in Seq(Int) /\ Len(<<b>>) = 1
    BY <1>11
  <2> QED BY <1>7, <1>8, <2>1
<1>16. CASE u = 0
  <2>1. b < m /\ v = r
    <3>1. m * 0 = 0
      BY <1>5
    <3> QED BY <1>5, <1>10, <1>16, <3>1
  <2>2. rest = <<>>
    <3>1. NonTagBytes[0] = <<>>
      BY BytesUnfold DEF BytesBody
    <3> QED BY <1>16, <3>1 DEF rest
  <2>3. Len(NonTagBytes[v]) = 1
    BY <1>15, <2>2
  <2> QED BY <1>4, <1>13, <1>14, <2>1, <2>3
<1>17. CASE u # 0
  <2>1. ~(b < m)
    BY <1>5, <1>10, <1>17
  <2>2. ReadRest(d, k + 1) = Item(u, (k + 1) + Len(rest))
    <3>1. Read(u)
      BY <1>3, <1>6, <1>17
    <3> QED BY <1>12, <3>1 DEF Read, rest
  <2>3. ReadRest(d, k) = Item(r + m * u, (k + 1) + Len(rest))
    BY <1>13, <1>14, <2>1, <2>2 DEF Joined, Item
  <2>4. r + m * u = v /\ (k + 1) + Len(rest) = k + Len(NonTagBytes[v])
    <3>1. m * u \in Int /\ r \in Int
      BY <1>5, <1>6, <1>10
    <3> QED BY <1>10, <1>12, <1>15, <3>1
  <2> QED BY <1>4, <2>3, <2>4
<1> QED BY <1>16, <1>17

(* The first byte of a number.                                             *)
FirstByte(type, val) ==
  type * 2^(TAG_BYTE_OFFSET + 1) + (IF val < 2^TAG_BYTE_OFFSET THEN 0 ELSE 2^TAG_BYTE_OFFSET)
    + (val % 2^TAG_BYTE_OFFSET)

(* ReadVarint is the inverse of UnsignedVarint, whatever the encode type.  *)
LEMMA VarintReads ==
  ASSUME NEW d \in Seq(Int), NEW type \in {VARINT, LENGTH_DELIMITED}, NEW val \in Nat, NEW i,
         Holds(d, i, UnsignedVarint(type, val))
  PROVE  ReadVarint(d, i) = Item(val, i + Len(UnsignedVarint(type, val)))
<1> DEFINE t == 2^TAG_BYTE_OFFSET
           u == val \div t
           r == val % t
           more == IF val < t THEN 0 ELSE 1
           b == FirstByte(type, val)
           rest == NonTagBytes[u]
<1>1. t \in Nat \ {0} /\ 2^(TAG_BYTE_OFFSET + 1) = 2 * t /\ type \in {0, 1}
  BY RawDataAssumption DEF VARINT, LENGTH_DELIMITED
<1>2. UnsignedVarint(type, val) = <<b>> \o rest
  BY DEF UnsignedVarint, FirstByte
<1>3. b = type * (2 * t) + (IF val < t THEN 0 ELSE t) + r
  BY <1>1 DEF FirstByte
<1>4. /\ ReadVarint(d, i) = IF (At(d, i) \div t) % 2 = 0 THEN Item(At(d, i) % t, i + 1)
                            ELSE Joined(At(d, i) % t, t, ReadRest(d, i + 1))
  BY DEF ReadVarint
<1> HIDE DEF t, b
<1>5. r \in 0..(t - 1) /\ u \in Nat /\ val = t * u + r /\ (val < t <=> u = 0)
  BY <1>1, SplitAt
<1>6. rest \in Seq(Int)
  BY <1>5, BytesType
<1> HIDE DEF u, r, rest
<1> DEFINE q == 2 * type + more
<1>7. q \in Nat /\ q % 2 = more /\ more \in {0, 1}
  BY <1>1
<1>8. b = t * q + r
  BY <1>1, <1>3, <1>5
<1> HIDE DEF q
<1>9. b \in Int /\ b % t = r /\ b \div t = q
  <2>1. t * q \in Int /\ r \in Int
    BY <1>1, <1>5, <1>7
  <2>2. (t * q + r) % t = r /\ (t * q + r) \div t = q
    BY <1>1, <1>5, <1>7, LowAndHigh
  <2> QED BY <1>8, <2>1, <2>2
<1>10. At(d, i) = b /\ i \in 1..Len(d) /\ Holds(d, i + 1, rest)
  BY <1>2, <1>6, <1>9, HoldsFirst
<1>11. Len(UnsignedVarint(type, val)) = 1 + Len(rest) /\ Len(rest) \in Nat
  <2>1. <<b>> \in Seq(Int) /\ Len(<<b>>) = 1
    BY <1>9
  <2> QED BY <1>2, <1>6, <2>1
<1>12. ReadVarint(d, i) = IF more = 0 THEN Item(r, i + 1) ELSE Joined(r, t, ReadRest(d, i + 1))
  BY <1>4, <1>7, <1>9, <1>10
<1>13. CASE val < t
  <2>1. u = 0 /\ more = 0 /\ val = r
    <3>1. t * 0 = 0
      BY <1>1
    <3> QED BY <1>5, <1>13, <3>1
  <2>2. rest = <<>>
    <3>1. NonTagBytes[0] = <<>>
      BY BytesUnfold DEF BytesBody
    <3> QED BY <2>1, <3>1 DEF rest
  <2>3. Len(UnsignedVarint(type, val)) = 1
    BY <1>11, <2>2
  <2> QED BY <1>12, <2>1, <2>3
<1>14. CASE ~(val < t)
  <2>1. u \in Nat \ {0} /\ more # 0
    BY <1>5, <1>14
  <2>2. ReadRest(d, i + 1) = Item(u, (i + 1) + Len(rest))
    BY <1>10, <2>1, RestReads DEF rest
  <2>3. ReadVarint(d, i) = Item(r + t * u, (i + 1) + Len(rest))
    BY <1>12, <2>1, <2>2 DEF Joined, Item
  <2>4. r + t * u = val /\ (i + 1) + Len(rest) = i + Len(UnsignedVarint(type, val))
    <3>1. t * u \in Int /\ r \in Int
      BY <1>1, <1>5
    <3>2. r + t * u = val
      BY <1>5, <3>1
    <3> QED BY <1>10, <1>11, <3>2
  <2> QED BY <2>3, <2>4
<1> QED BY <1>13, <1>14

(* Cells one by one are the same cells.                                    *)
LEMMA OneByOne ==
  ASSUME NEW bytes \in Seq(Int)
  PROVE  FlattenSeq([i \in 1..Len(bytes) |-> <<bytes[i]>>]) = bytes
<1> DEFINE F(k) == [i \in 1..k |-> <<bytes[i]>>]
           Done(k) == FlattenSeq(F(k)) = SubSeq(bytes, 1, k)
           K == {k \in Nat : k <= Len(bytes) => Done(k)}
<1>1. Len(bytes) \in Nat
  OBVIOUS
<1>2. 0 \in K
  <2>1. F(0) = <<>> /\ SubSeq(bytes, 1, 0) = <<>>
    OBVIOUS
  <2> QED BY <2>1, FlattenEmpty
<1>3. ASSUME NEW k \in Nat, Done(k), k + 1 <= Len(bytes) PROVE Done(k + 1)
  <2>1. <<bytes[k + 1]>> \in Seq(Int) /\ F(k) \in Seq(Seq(Int))
    BY <1>1, <1>3
  <2>2. F(k + 1) = Append(F(k), <<bytes[k + 1]>>)
    BY <1>3, <2>1
  <2>3. SubSeq(bytes, 1, k + 1) = SubSeq(bytes, 1, k) \o <<bytes[k + 1]>>
    BY <1>1, <1>3
  <2> HIDE DEF F
  <2> QED BY <1>3, <2>1, <2>2, <2>3, FlattenAppend
<1>4. K = Nat
  <2> HIDE DEF Done
  <2>1. K \in SUBSET Nat
    OBVIOUS
  <2>2. ASSUME NEW k \in K PROVE k + 1 \in K
    <3>1. k \in Nat /\ (k <= Len(bytes) => Done(k))
      OBVIOUS
    <3>2. k + 1 <= Len(bytes) => Done(k + 1)
      BY <1>1, <1>3, <3>1
    <3> QED BY <3>1, <3>2
  <2> HIDE DEF K
  <2> QED BY <1>2, <2>1, <2>2, SetInduction
<1>5. Done(Len(bytes))
  <2> HIDE DEF Done
  <2> QED BY <1>1, <1>4
<1>6. SubSeq(bytes, 1, Len(bytes)) = bytes
  OBVIOUS
<1> QED BY <1>5, <1>6

(* The bytes of a number, and that they are one call of Append each.       *)
LEMMA VarintBytes ==
  ASSUME NEW type \in Int, NEW val \in Nat
  PROVE  /\ UnsignedVarint(type, val) \in Seq(Int)
         /\ FlattenSeq(VarintChunks(type, val)) = UnsignedVarint(type, val)
<1> DEFINE t == 2^TAG_BYTE_OFFSET
<1>1. t \in Nat \ {0} /\ 2^(TAG_BYTE_OFFSET + 1) = 2 * t
  BY RawDataAssumption
<1>2. UnsignedVarint(type, val) = <<FirstByte(type, val)>> \o NonTagBytes[val \div t]
  BY DEF UnsignedVarint, FirstByte
<1>3. FirstByte(type, val) = type * (2 * t) + (IF val < t THEN 0 ELSE t) + (val % t)
  BY <1>1 DEF FirstByte
<1> HIDE DEF t
<1>4. val \div t \in Nat /\ val % t \in 0..(t - 1)
  BY <1>1, SplitAt
<1>5. FirstByte(type, val) \in Int
  <2>1. type * (2 * t) \in Int
    BY <1>1
  <2> QED BY <1>1, <1>3, <1>4, <2>1
<1>6. NonTagBytes[val \div t] \in Seq(Int)
  BY <1>4, BytesType
<1>7. UnsignedVarint(type, val) \in Seq(Int)
  <2>1. <<FirstByte(type, val)>> \in Seq(Int)
    BY <1>5
  <2> QED BY <1>2, <1>6, <2>1
<1>8. VarintChunks(type, val) = [i \in 1..Len(UnsignedVarint(type, val)) |-> <<UnsignedVarint(type, val)[i]>>]
  BY DEF VarintChunks
<1> QED BY <1>7, <1>8, OneByOne

(***************************************************************************)
(* Shifting a signed number to the left and inverting it if it is negative *)
(* loses nothing of an int64_t: the last bit says which half it is from.   *)
(***************************************************************************)
LEMMA ZigZagInverse ==
  ASSUME NEW val \in Int, IsInt64(val)
  PROVE  /\ ZigZag(val) \in Nat
         /\ val = IF ZigZag(val) % 2 = 0 THEN ZigZag(val) \div 2 ELSE -((ZigZag(val) + 1) \div 2)
<1> DEFINE h == 2^(Width - 1)
           w == 2^Width
<1>1. h \in Nat /\ w = 2 * h /\ w \in Nat \ {0} /\ val >= -h /\ val < h
  BY RawDataAssumption DEF IsInt64
<1>2. ZigZag(val) = IF val >= 0 THEN (2 * val) % w ELSE w - 1 - ((2 * val) % w)
  BY DEF ZigZag
<1> HIDE DEF h, w
<1>3. CASE val >= 0
  <2>1. w * 0 = 0 /\ 2 * val \in 0..(w - 1)
    BY <1>1, <1>3
  <2>2. (w * 0 + 2 * val) % w = 2 * val
    BY <1>1, <2>1, LowAndHigh
  <2>3. ZigZag(val) = 2 * val
    BY <1>2, <1>3, <2>1, <2>2
  <2>4. (2 * val) % 2 = 0 /\ (2 * val) \div 2 = val
    BY <1>3
  <2> QED BY <1>3, <2>3, <2>4
<1>4. CASE val < 0
  <2>1. (2 * val) % w = 2 * val + w
    BY <1>1, <1>4
  <2>2. ZigZag(val) = -1 - 2 * val
    BY <1>1, <1>2, <1>4, <2>1
  <2>3. (-1 - 2 * val) % 2 = 1 /\ (-1 - 2 * val + 1) \div 2 = -val /\ -1 - 2 * val \in Nat
    BY <1>4
  <2> QED BY <2>2, <2>3
<1> QED BY <1>3, <1>4
-----------------------------------------------------------------------------
(***************************************************************************)
(* The texts.  Unescape, n characters before the end.                      *)
(***************************************************************************)
Begins(text, n) == At(text, Len(text) + 1 - n) = Backslash /\ n > 1

UnescapedChar(text, n) ==
  IF Begins(text, n)
  THEN IF At(text, Len(text) + 1 - (n - 1)) = LetterN THEN NewLine ELSE At(text, Len(text) + 1 - (n - 1))
  ELSE At(text, Len(text) + 1 - n)

UnescapeBody(text, g, n) ==
  IF n = 0 THEN <<>>
  ELSE <<UnescapedChar(text, n)>> \o g[IF Begins(text, n) THEN n - 2 ELSE n - 1]

Unescaping(text) == CHOOSE g : g = [n \in Nat |-> UnescapeBody(text, g, n)]

(* The recursion of Unescape has a solution.                               *)
LEMMA UnescapingExists ==
  ASSUME NEW text \in Seq(Int)
  PROVE  \E g \in [Nat -> Seq(Int)] : g = [n \in Nat |-> UnescapeBody(text, g, n)]
<1> DEFINE prev == [n \in Nat \ {0} |-> IF Begins(text, n) THEN n - 2 ELSE n - 1]
           step == [p \in (Nat \ {0}) \X Seq(Int) |-> <<UnescapedChar(text, p[1])>> \o p[2]]
<1>1. \A n \in Nat \ {0} : IF Begins(text, n) THEN n - 2 \in Nat ELSE n - 1 \in Nat
  BY DEF Begins
<1>2. \A n \in Nat \ {0} : UnescapedChar(text, n) \in Int
  BY AtTyped DEF UnescapedChar, NewLine
<1>3. Recursion(Seq(Int), <<>>, prev, step)
  <2>1. prev \in [Nat \ {0} -> Nat] /\ \A n \in Nat \ {0} : prev[n] < n
    BY <1>1
  <2>2. \A p \in (Nat \ {0}) \X Seq(Int) : <<UnescapedChar(text, p[1])>> \o p[2] \in Seq(Int)
    BY <1>2
  <2>3. step \in [(Nat \ {0}) \X Seq(Int) -> Seq(Int)]
    BY <2>2
  <2> HIDE DEF prev, step
  <2> QED BY <2>1, <2>3 DEF Recursion
<1>4. PICK g \in [Nat -> Seq(Int)] : \A n \in Nat : g[n] = ValueAt(<<>>, prev, step, g, n)
  <2> HIDE DEF prev, step
  <2>1. \A b, p, t : Recursion(Seq(Int), b, p, t) =>
          \E f \in [Nat -> Seq(Int)] : \A n \in Nat : f[n] = ValueAt(b, p, t, f, n)
    BY RecursionExists
  <2> QED BY <1>3, <2>1, Zenon
<1>5. ASSUME NEW n \in Nat PROVE g[n] = UnescapeBody(text, g, n)
  <2>1. CASE n = 0
    BY <1>4, <2>1 DEF ValueAt, UnescapeBody
  <2>2. CASE n # 0
    <3>1. prev[n] = (IF Begins(text, n) THEN n - 2 ELSE n - 1) /\ prev[n] \in Nat
      BY <1>1, <2>2
    <3>2. g[n] = step[<<n, g[prev[n]]>>]
      <4> HIDE DEF prev, step
      <4> QED BY <1>4, <2>2 DEF ValueAt
    <3>3. <<n, g[prev[n]]>> \in (Nat \ {0}) \X Seq(Int)
      BY <2>2, <3>1
    <3>4. g[n] = <<UnescapedChar(text, n)>> \o g[prev[n]]
      BY <3>2, <3>3
    <3> QED BY <2>2, <3>1, <3>4 DEF UnescapeBody
  <2> QED BY <2>1, <2>2
<1> QED BY <1>5

(* Unescape is its value at the beginning of the text.                     *)
LEMMA UnescapeUnfold ==
  ASSUME NEW text \in Seq(Int)
  PROVE  /\ Unescaping(text) = [n \in Nat |-> UnescapeBody(text, Unescaping(text), n)]
         /\ Unescape(text) = Unescaping(text)[Len(text)]
         /\ Unescape(text) \in Seq(Int)
<1>1. Unescaping(text) = [n \in Nat |-> UnescapeBody(text, Unescaping(text), n)]
  BY UnescapingExists DEF Unescaping
<1> DEFINE old(g, n) ==
             IF n = 0 THEN <<>>
             ELSE IF At(text, Len(text) + 1 - n) = Backslash /\ n > 1
             THEN <<IF At(text, Len(text) + 1 - (n - 1)) = LetterN THEN NewLine
                    ELSE At(text, Len(text) + 1 - (n - 1))>> \o g[n - 2]
             ELSE <<At(text, Len(text) + 1 - n)>> \o g[n - 1]
<1>2. Unescape(text) = (CHOOSE g : g = [n \in Nat |-> old(g, n)])[Len(text)]
  BY Zenon DEF Unescape
<1>3. \A g, n : old(g, n) = UnescapeBody(text, g, n)
  BY Zenon DEF UnescapeBody, UnescapedChar, Begins
<1>4. \A g : [n \in Nat |-> old(g, n)] = [n \in Nat |-> UnescapeBody(text, g, n)]
  <2> HIDE DEF old
  <2> QED BY <1>3
<1>5. Unescape(text) = Unescaping(text)[Len(text)]
  <2> HIDE DEF old
  <2> QED BY <1>2, <1>4 DEF Unescaping
<1>6. \A n \in Nat : Unescaping(text)[n] \in Seq(Int)
  <2> DEFINE S == {n \in Nat : Unescaping(text)[n] \notin Seq(Int)}
  <2> SUFFICES ASSUME S # {} PROVE FALSE
    OBVIOUS
  <2>1. PICK n \in S : \A m \in S : n <= m
    <3> HIDE DEF S
    <3>1. S \in SUBSET Nat
      BY DEF S
    <3> QED BY <3>1, LeastNatural
  <2>2. /\ n \in Nat /\ Unescaping(text)[n] \notin Seq(Int)
        /\ \A m \in Nat : m < n => Unescaping(text)[m] \in Seq(Int)
    BY <2>1
  <2> DEFINE m == IF Begins(text, n) THEN n - 2 ELSE n - 1
  <2>3. n # 0 => m \in Nat /\ m < n
    BY <2>2 DEF Begins
  <2>4. UnescapedChar(text, n) \in Int
    BY AtTyped DEF UnescapedChar, NewLine
  <2>5. Unescaping(text)[n] = IF n = 0 THEN <<>> ELSE <<UnescapedChar(text, n)>> \o Unescaping(text)[m]
    BY <1>1, <2>2 DEF UnescapeBody
  <2> HIDE DEF m, S
  <2>6. <<UnescapedChar(text, n)>> \in Seq(Int)
    BY <2>4
  <2> QED BY <2>2, <2>3, <2>5, <2>6
<1>7. Len(text) \in Nat
  OBVIOUS
<1> QED BY <1>1, <1>5, <1>6, <1>7, Zenon

(* What comes before does not matter to how the rest is read.              *)
LEMMA SuffixAlike ==
  ASSUME NEW a \in Seq(Int), NEW s \in Seq(Int), NEW n \in 0..Len(s)
  PROVE  Unescaping(a \o s)[n] = Unescaping(s)[n]
<1> DEFINE t == a \o s
           S == {k \in Nat : k <= Len(s) /\ Unescaping(t)[k] # Unescaping(s)[k]}
<1> SUFFICES ASSUME S # {} PROVE FALSE
  OBVIOUS
<1>1. t \in Seq(Int) /\ Len(t) = Len(a) + Len(s) /\ Len(a) \in Nat /\ Len(s) \in Nat
  OBVIOUS
<1>2. PICK k \in S : \A m \in S : k <= m
  <2> HIDE DEF S
  <2>1. S \in SUBSET Nat
    BY DEF S
  <2> QED BY <2>1, LeastNatural
<1>3. /\ k \in Nat /\ k <= Len(s) /\ Unescaping(t)[k] # Unescaping(s)[k]
      /\ \A m \in Nat : m < k => Unescaping(t)[m] = Unescaping(s)[m]
  BY <1>1, <1>2
<1>4. ASSUME NEW m \in 1..Len(s) PROVE At(t, Len(t) + 1 - m) = At(s, Len(s) + 1 - m)
  <2>1. /\ Len(s) + 1 - m \in 1..Len(s) /\ Len(t) + 1 - m = Len(a) + (Len(s) + 1 - m)
        /\ Len(t) + 1 - m \in 1..Len(t)
    BY <1>1
  <2>2. t[Len(a) + (Len(s) + 1 - m)] = s[Len(s) + 1 - m]
    BY <1>1, <2>1
  <2> QED BY <2>1, <2>2 DEF At
<1> HIDE DEF t, S
<1>5. /\ Unescaping(t)[k] = UnescapeBody(t, Unescaping(t), k)
      /\ Unescaping(s)[k] = UnescapeBody(s, Unescaping(s), k)
  BY <1>1, <1>3, UnescapeUnfold
<1>6. CASE k = 0
  BY <1>3, <1>5, <1>6 DEF UnescapeBody
<1>7. CASE k # 0
  <2>1. At(t, Len(t) + 1 - k) = At(s, Len(s) + 1 - k)
    BY <1>1, <1>3, <1>4, <1>7
  <2>2. Begins(t, k) = Begins(s, k)
    BY <2>1 DEF Begins
  <2>3. k > 1 => At(t, Len(t) + 1 - (k - 1)) = At(s, Len(s) + 1 - (k - 1))
    <3>1. k > 1 => k - 1 \in 1..Len(s)
      BY <1>1, <1>3
    <3> QED BY <1>4, <3>1
  <2>4. UnescapedChar(t, k) = UnescapedChar(s, k)
    BY <2>1, <2>2, <2>3 DEF UnescapedChar, Begins
  <2> DEFINE m == IF Begins(s, k) THEN k - 2 ELSE k - 1
  <2>5. m \in Nat /\ m < k
    BY <1>3, <1>7 DEF Begins
  <2>6. Unescaping(t)[m] = Unescaping(s)[m]
    <3> HIDE DEF m
    <3> QED BY <1>3, <2>5
  <2> QED BY <1>3, <1>5, <1>7, <2>2, <2>4, <2>6 DEF UnescapeBody
<1> QED BY <1>6, <1>7

(* A character that is no backslash stands for itself,                     *)
LEMMA UnescapePlain ==
  ASSUME NEW c \in Int, c # Backslash, NEW s \in Seq(Int)
  PROVE  Unescape(<<c>> \o s) = <<c>> \o Unescape(s)
<1> DEFINE a == <<c>>
           t == a \o s
           n == Len(s) + 1
<1>1. a \in Seq(Int) /\ t \in Seq(Int) /\ Len(t) = n /\ n \in Nat \ {0} /\ Len(s) \in 0..Len(s) /\ t[1] = c
  OBVIOUS
<1> HIDE DEF a, t
<1>2. At(t, Len(t) + 1 - n) = c
  BY <1>1 DEF At
<1>3. ~Begins(t, n) /\ UnescapedChar(t, n) = c
  BY <1>2 DEF Begins, UnescapedChar
<1>4. Unescaping(t)[n] = UnescapeBody(t, Unescaping(t), n)
  BY <1>1, UnescapeUnfold
<1>5. Unescaping(t)[n] = <<c>> \o Unescaping(t)[n - 1]
  BY <1>1, <1>3, <1>4 DEF UnescapeBody
<1>6. Unescaping(t)[Len(s)] = Unescaping(s)[Len(s)]
  BY <1>1, SuffixAlike DEF t
<1>7. Unescape(t) = Unescaping(t)[n] /\ Unescape(s) = Unescaping(s)[Len(s)]
  <2>1. Unescape(t) = Unescaping(t)[Len(t)]
    BY <1>1, UnescapeUnfold, Zenon
  <2>2. Unescape(s) = Unescaping(s)[Len(s)]
    BY UnescapeUnfold, Zenon
  <2> QED BY <1>1, <2>1, <2>2, Zenon
<1>8. n - 1 = Len(s)
  OBVIOUS
<1> QED BY <1>5, <1>6, <1>7, <1>8, Zenon DEF t, a

(* a backslash and a character for one character.                          *)
LEMMA UnescapePair ==
  ASSUME NEW c \in Int, NEW s \in Seq(Int)
  PROVE  Unescape(<<Backslash, c>> \o s) = <<IF c = LetterN THEN NewLine ELSE c>> \o Unescape(s)
<1> DEFINE a == <<Backslash, c>>
           t == a \o s
           n == Len(s) + 2
<1>1. /\ a \in Seq(Int) /\ t \in Seq(Int) /\ Len(t) = n /\ n \in Nat \ {0} /\ n > 1 /\ Len(s) \in 0..Len(s)
      /\ t[1] = Backslash /\ t[2] = c
  BY DEF Backslash
<1> HIDE DEF a, t
<1>2. At(t, Len(t) + 1 - n) = Backslash /\ At(t, Len(t) + 1 - (n - 1)) = c
  <2>1. Len(t) + 1 - n = 1 /\ Len(t) + 1 - (n - 1) = 2 /\ 1 \in 1..Len(t) /\ 2 \in 1..Len(t)
    BY <1>1
  <2> HIDE DEF n
  <2> QED BY <1>1, <2>1 DEF At
<1>3. Begins(t, n) /\ UnescapedChar(t, n) = (IF c = LetterN THEN NewLine ELSE c)
  BY <1>1, <1>2 DEF Begins, UnescapedChar
<1>4. Unescaping(t)[n] = UnescapeBody(t, Unescaping(t), n)
  BY <1>1, UnescapeUnfold
<1>5. Unescaping(t)[n] = <<IF c = LetterN THEN NewLine ELSE c>> \o Unescaping(t)[n - 2]
  BY <1>1, <1>3, <1>4 DEF UnescapeBody
<1>6. Unescaping(t)[Len(s)] = Unescaping(s)[Len(s)]
  BY <1>1, SuffixAlike DEF t
<1>7. Unescape(t) = Unescaping(t)[n] /\ Unescape(s) = Unescaping(s)[Len(s)] /\ n - 2 = Len(s)
  <2>1. n - 2 = Len(s)
    OBVIOUS
  <2> HIDE DEF n
  <2> QED BY <1>1, <2>1, UnescapeUnfold
<1> QED BY <1>5, <1>6, <1>7 DEF t, a

(* The characters EscapeToRaw makes of one, and those Printable leaves.    *)
Escaped(c) ==
  CASE c \in DOMAIN charTab -> charTab[c]
    [] c = Control          -> <<>>
    [] OTHER                -> <<c>>

Shown(c) == IF c = Control THEN <<>> ELSE <<c>>

(* Both go character by character, and what is read of one is the other.   *)
LEMMA EscapedRead ==
  ASSUME NEW c \in Nat, NEW s \in Seq(Int)
  PROVE  /\ Escaped(c) \in Seq(Int) /\ Shown(c) \in Seq(Int)
         /\ Unescape(Escaped(c) \o s) = Shown(c) \o Unescape(s)
<1>1. DOMAIN charTab = {Quote, Backslash, NewLine}
  BY DEF charTab
<1>2. CASE c \in {Quote, Backslash, NewLine}
  <2> DEFINE e == IF c = NewLine THEN LetterN ELSE c
  <2>1. Escaped(c) = <<Backslash, e>> /\ e \in Int
    <3>1. Escaped(c) = charTab[c]
      <4>1. c \in DOMAIN charTab /\ c # Control
        BY <1>1, <1>2 DEF Control, NewLine, Quote, Backslash
      <4> QED BY <4>1, Zenon DEF Escaped
    <3>2. charTab[c] = <<Backslash, e>>
      BY <1>2, Zenon DEF charTab
    <3> QED BY <3>1, <3>2 DEF LetterN
  <2>2. c # Control /\ c = (IF e = LetterN THEN NewLine ELSE e)
    BY <1>2 DEF Control, LetterN, NewLine, Quote, Backslash
  <2>3. Unescape(<<Backslash, e>> \o s) = <<IF e = LetterN THEN NewLine ELSE e>> \o Unescape(s)
    <3> HIDE DEF e
    <3> QED BY <2>1, UnescapePair
  <2>4. Shown(c) = <<c>> /\ <<c>> \in Seq(Int)
    BY <2>2 DEF Shown
  <2>5. <<Backslash, e>> \in Seq(Int)
    <3> HIDE DEF e
    <3> QED BY <2>1 DEF Backslash
  <2> HIDE DEF e
  <2> QED BY <2>1, <2>2, <2>3, <2>4, <2>5, Zenon
<1>3. CASE c = Control
  <2>1. c \notin {Quote, Backslash, NewLine}
    BY <1>3 DEF Control, NewLine, Quote, Backslash
  <2>2. Escaped(c) = <<>> /\ Shown(c) = <<>>
    BY <1>1, <1>3, <2>1 DEF Escaped, Shown
  <2>3. <<>> \o s = s /\ <<>> \o Unescape(s) = Unescape(s) /\ <<>> \in Seq(Int)
    BY UnescapeUnfold
  <2> QED BY <2>2, <2>3, Zenon
<1>4. CASE c \notin {Quote, Backslash, NewLine, Control}
  <2>1. Escaped(c) = <<c>> /\ Shown(c) = <<c>> /\ <<c>> \in Seq(Int)
    BY <1>1, <1>4 DEF Escaped, Shown
  <2>2. Unescape(<<c>> \o s) = <<c>> \o Unescape(s)
    BY <1>4, UnescapePlain
  <2> QED BY <2>1, <2>2, Zenon
<1> QED BY <1>2, <1>3, <1>4

(* FlattenSeq from the front.                                              *)
LEMMA FlattenFirst ==
  ASSUME NEW a \in Seq(Int), NEW s \in Seq(Seq(Int))
  PROVE  FlattenSeq(<<a>> \o s) = a \o FlattenSeq(s)
<1>1. <<a>> \in Seq(Seq(Int)) /\ <<>> \in Seq(Seq(Int)) /\ Append(<<>>, a) = <<a>> /\ <<>> \o a = a
  OBVIOUS
<1>2. FlattenSeq(<<a>>) = a
  BY <1>1, FlattenAppend, FlattenEmpty, Zenon
<1> QED BY <1>1, <1>2, FlattenConcat

(* A text that is mapped character by character                            *)
Begun(first, rest, x) == x = <<first>> \o rest
Images(f, x) == [i \in 1..Len(x) |-> f[x[i]]]
Mapped(f, x) == FlattenSeq(Images(f, x))

(* begins with the image of its first character:                           *)
LEMMA ImagesFirst ==
  ASSUME NEW V, NEW f \in [Nat -> V], NEW c \in Nat, NEW s \in Seq(Nat)
  PROVE  Begun(f[c], Images(f, s), Images(f, <<c>> \o s)) /\ Images(f, s) \in Seq(V)
<1> DEFINE t == <<c>> \o s
           e == [i \in 1..Len(s) |-> f[s[i]]]
           z == <<f[c]>> \o e
<1>1. /\ Len(t) = 1 + Len(s) /\ Len(s) \in Nat /\ t[1] = c
      /\ \A i \in 2..Len(t) : t[i] = s[i - 1] /\ i - 1 \in 1..Len(s)
  OBVIOUS
<1>2. e \in Seq(V) /\ Len(e) = Len(s) /\ f[c] \in V
  OBVIOUS
<1>3. \A i \in 2..Len(t) : e[i - 1] = f[t[i]]
  BY <1>1
<1> HIDE DEF t, e
<1>4. z \in Seq(V) /\ Len(z) = Len(t) /\ z[1] = f[c] /\ \A i \in 2..Len(t) : z[i] = e[i - 1]
  BY <1>1, <1>2
<1> HIDE DEF z
<1>5. \A i \in 1..Len(t) : z[i] = f[t[i]]
  <2> SUFFICES ASSUME NEW i \in 1..Len(t) PROVE z[i] = f[t[i]]
    OBVIOUS
  <2>1. i = 1 \/ i \in 2..Len(t)
    BY <1>1
  <2> QED BY <1>1, <1>3, <1>4, <2>1
<1>6. z = [i \in 1..Len(t) |-> f[t[i]]]
  BY <1>1, <1>4, <1>5
<1> QED BY <1>2, <1>6, Zenon DEF Begun, Images, t, e, z

(* and FlattenSeq of the images.                                           *)
LEMMA MappedFirst ==
  ASSUME NEW f \in [Nat -> Seq(Int)], NEW c \in Nat, NEW s \in Seq(Nat)
  PROVE  Mapped(f, <<c>> \o s) = f[c] \o Mapped(f, s)
<1> DEFINE t == <<c>> \o s
<1>1. Images(f, t) = <<f[c]>> \o Images(f, s) /\ Images(f, s) \in Seq(Seq(Int)) /\ f[c] \in Seq(Int)
  <2> DEFINE V == Seq(Int)
  <2>1. f \in [Nat -> V]
    OBVIOUS
  <2> HIDE DEF V
  <2>2. Begun(f[c], Images(f, s), Images(f, t)) /\ Images(f, s) \in Seq(V)
    BY <2>1, ImagesFirst
  <2> QED BY <2>2 DEF V, Begun
<1> HIDE DEF t
<1>2. FlattenSeq(<<f[c]>> \o Images(f, s)) = f[c] \o FlattenSeq(Images(f, s))
  BY <1>1, FlattenFirst, Zenon
<1> QED BY <1>1, <1>2, Zenon DEF Mapped, t

(* Escaping and printing map the characters.                               *)
LEMMA EscapeMaps ==
  ASSUME NEW text \in Seq(Nat)
  PROVE  /\ EscapeToRaw(text) = Mapped([c \in Nat |-> Escaped(c)], text)
         /\ Printable(text) = Mapped([c \in Nat |-> Shown(c)], text)
<1>1. \A i \in 1..Len(text) : text[i] \in Nat
  OBVIOUS
<1>2. EscapeToRaw(text) = FlattenSeq([i \in 1..Len(text) |-> Escaped(text[i])])
  BY Zenon DEF EscapeToRaw, Escaped
<1>3. Printable(text) = FlattenSeq([i \in 1..Len(text) |-> Shown(text[i])])
  BY Zenon DEF Printable, Shown
<1>4. [i \in 1..Len(text) |-> Escaped(text[i])] = [i \in 1..Len(text) |-> [c \in Nat |-> Escaped(c)][text[i]]]
  BY <1>1
<1>5. [i \in 1..Len(text) |-> Shown(text[i])] = [i \in 1..Len(text) |-> [c \in Nat |-> Shown(c)][text[i]]]
  BY <1>1
<1> QED BY <1>2, <1>3, <1>4, <1>5, Zenon DEF Mapped, Images

(* So both can be done from the front.                                     *)
LEMMA EscapeFirst ==
  ASSUME NEW c \in Nat, NEW s \in Seq(Nat)
  PROVE  /\ EscapeToRaw(<<c>> \o s) = Escaped(c) \o EscapeToRaw(s)
         /\ Printable(<<c>> \o s) = Shown(c) \o Printable(s)
<1> DEFINE e == [n \in Nat |-> Escaped(n)]
           p == [n \in Nat |-> Shown(n)]
<1>1. \A n \in Nat : Escaped(n) \in Seq(Int) /\ Shown(n) \in Seq(Int)
  BY EscapedRead
<1>2. e \in [Nat -> Seq(Int)] /\ p \in [Nat -> Seq(Int)] /\ e[c] = Escaped(c) /\ p[c] = Shown(c)
  BY <1>1
<1>3. <<c>> \o s \in Seq(Nat)
  OBVIOUS
<1>4. /\ EscapeToRaw(<<c>> \o s) = Mapped(e, <<c>> \o s) /\ EscapeToRaw(s) = Mapped(e, s)
      /\ Printable(<<c>> \o s) = Mapped(p, <<c>> \o s) /\ Printable(s) = Mapped(p, s)
  BY <1>3, EscapeMaps
<1> HIDE DEF e, p
<1>5. Mapped(e, <<c>> \o s) = e[c] \o Mapped(e, s) /\ Mapped(p, <<c>> \o s) = p[c] \o Mapped(p, s)
  BY <1>2, MappedFirst
<1> QED BY <1>2, <1>4, <1>5, Zenon

(* What is read of an escaped text is the text without what is not shown.  *)
LEMMA EscapeInverse ==
  ASSUME NEW text \in Seq(Nat)
  PROVE  Unescape(EscapeToRaw(text)) = Printable(text)
<1> DEFINE Right(t) == Unescape(EscapeToRaw(t)) = Printable(t)
           K == {n \in Nat : \A t \in [1..n -> Nat] : Right(t)}
<1>1. 0 \in K
  <2> SUFFICES ASSUME NEW t \in [1..0 -> Nat] PROVE Right(t)
    OBVIOUS
  <2>1. t = <<>> /\ Len(t) = 0
    OBVIOUS
  <2>2. EscapeToRaw(t) = <<>> /\ Printable(t) = <<>>
    <3>1. \A f : [i \in 1..Len(t) |-> f[t[i]]] = <<>>
      BY <2>1
    <3>2. \A f : Mapped(f, t) = <<>>
      BY <3>1, FlattenEmpty DEF Mapped, Images
    <3>3. t \in Seq(Nat)
      BY <2>1
    <3> QED BY <3>2, <3>3, EscapeMaps
  <2>3. Unescape(<<>>) = <<>>
    <3>1. <<>> \in Seq(Int) /\ Len(<<>>) = 0 /\ 0 \in Nat
      OBVIOUS
    <3> DEFINE e == <<>>
    <3>2. e \in Seq(Int) /\ Len(e) = 0
      OBVIOUS
    <3> HIDE DEF e
    <3>3. Unescaping(e) = [n \in Nat |-> UnescapeBody(e, Unescaping(e), n)] /\ Unescape(e) = Unescaping(e)[0]
      BY <3>2, UnescapeUnfold
    <3>4. Unescaping(e)[0] = UnescapeBody(e, Unescaping(e), 0)
      BY <3>1, <3>3
    <3> QED BY <3>3, <3>4 DEF UnescapeBody, e
  <2> QED BY <2>2, <2>3
<1>2. ASSUME NEW n \in K PROVE n + 1 \in K
  <2> SUFFICES ASSUME NEW t \in [1..(n + 1) -> Nat] PROVE Right(t)
    OBVIOUS
  <2>1. n \in Nat /\ \A s \in [1..n -> Nat] : Right(s)
    OBVIOUS
  <2> DEFINE s == [i \in 1..n |-> t[i + 1]]
  <2>2. t[1] \in Nat /\ s \in [1..n -> Nat] /\ s \in Seq(Nat)
    BY <2>1
  <2>3. t = <<t[1]>> \o s
    BY <2>1
  <2> HIDE DEF s, Right
  <2>4. /\ EscapeToRaw(t) = Escaped(t[1]) \o EscapeToRaw(s)
        /\ Printable(t) = Shown(t[1]) \o Printable(s)
    BY <2>2, <2>3, EscapeFirst
  <2>5. EscapeToRaw(s) \in Seq(Int)
    BY <2>2, EscapedTyped
  <2>6. Unescape(Escaped(t[1]) \o EscapeToRaw(s)) = Shown(t[1]) \o Unescape(EscapeToRaw(s))
    BY <2>2, <2>5, EscapedRead
  <2>7. Right(s)
    BY <2>1, <2>2
  <2> QED BY <2>4, <2>6, <2>7, Zenon DEF Right
<1> HIDE DEF K
<1>3. K = Nat
  <2>1. K \in SUBSET Nat
    BY DEF K
  <2> QED BY <1>1, <1>2, <2>1, SetInduction
<1>4. text \in [1..Len(text) -> Nat] /\ Len(text) \in Nat
  OBVIOUS
<1> QED BY <1>3, <1>4 DEF K
-----------------------------------------------------------------------------
(***************************************************************************)
(* The types of what is read, whatever the data: after a parameter that    *)
(* was encoded in part, a reader finds parameters all the same.            *)
(***************************************************************************)
ReadCells == Int \cup Seq(Int)
ReadItems == [val : ReadCells, next : Int]
ReadLists == [val : Seq(ReadCells), next : Int]

(* Cells reads cells.                                                      *)
LEMMA CellsTyped ==
  ASSUME NEW d \in Seq(Int), NEW i \in Int, NEW n \in Nat
  PROVE  Cells(d, i, n) \in Seq(Int) /\ Len(Cells(d, i, n)) = n
<1>1. \A j \in 1..n : At(d, i + j - 1) \in Int
  BY AtTyped
<1> QED BY <1>1 DEF Cells

(* A number is read anywhere.                                              *)
LEMMA RestTyped ==
  ASSUME NEW d \in Seq(Int), NEW i \in Int
  PROVE  ReadRest(d, i) \in Numbers
<1> DEFINE g == CHOOSE h : h = [n \in Nat |-> RestBody(d, h, n)]
<1>1. g = [k \in Nat |-> RestBody(d, g, k)]
  BY RestExists
<1>2. ReadRest(d, i) = IF i > Len(d) THEN Item(0, i + 1) ELSE g[Len(d) + 1 - i]
  BY Zenon DEF ReadRest, RestBody
<1> HIDE DEF g
<1> DEFINE unit == 2^NON_TAG_BYTE_OFFSET
           low(n) == At(d, Len(d) + 1 - n) % unit
           K == {n \in Nat : g[n] \in Numbers}
<1>3. unit \in Nat \ {0} /\ Len(d) \in Nat
  BY RawDataAssumption
<1> HIDE DEF unit
<1>4. ASSUME NEW n \in Nat PROVE low(n) \in Nat /\ Item(low(n), Len(d) + 2 - n) \in Numbers
  <2>1. At(d, Len(d) + 1 - n) \in Int
    BY AtTyped
  <2>2. low(n) \in Nat /\ Len(d) + 2 - n \in Int
    BY <1>3, <2>1
  <2> QED BY <2>2 DEF Item, Numbers
<1>5. 0 \in K
  <2>1. g[0] = RestBody(d, g, 0)
    BY <1>1
  <2>2. g[0] = Item(low(0), Len(d) + 2 - 0)
    BY <2>1 DEF RestBody, unit
  <2> HIDE DEF low
  <2> QED BY <1>4, <2>2
<1>6. ASSUME NEW n \in K PROVE n + 1 \in K
  <2>1. n \in Nat /\ g[n] \in Numbers /\ n + 1 \in Nat /\ n + 1 # 0 /\ (n + 1) - 1 = n
    OBVIOUS
  <2>2. g[n + 1] = RestBody(d, g, n + 1)
    BY <1>1, <2>1
  <2>3. g[n + 1] \in {Item(low(n + 1), Len(d) + 2 - (n + 1)), Joined(low(n + 1), unit, g[n])}
    BY <2>1, <2>2 DEF RestBody, unit
  <2>4. Item(low(n + 1), Len(d) + 2 - (n + 1)) \in Numbers /\ low(n + 1) \in Nat
    BY <1>4, <2>1
  <2>5. Joined(low(n + 1), unit, g[n]) \in Numbers
    BY <1>3, <2>1, <2>4, JoinedTyped
  <2> QED BY <2>1, <2>3, <2>4, <2>5
<1> HIDE DEF K
<1>7. K = Nat
  <2>1. K \in SUBSET Nat
    BY DEF K
  <2> QED BY <1>5, <1>6, <2>1, SetInduction
<1>8. CASE i > Len(d)
  BY <1>2, <1>8 DEF Item, Numbers
<1>9. CASE ~(i > Len(d))
  <2>1. Len(d) + 1 - i \in Nat
    BY <1>3, <1>9
  <2> QED BY <1>2, <1>7, <1>9, <2>1 DEF K
<1> QED BY <1>8, <1>9

(* So is a number that starts with an encode type,                         *)
LEMMA VarintItem ==
  ASSUME NEW d \in Seq(Int), NEW i \in Int
  PROVE  ReadVarint(d, i) \in Numbers
<1> DEFINE unit == 2^TAG_BYTE_OFFSET
           low == At(d, i) % unit
<1>1. unit \in Nat \ {0}
  BY RawDataAssumption
<1>2. ReadVarint(d, i) \in {Item(low, i + 1), Joined(low, unit, ReadRest(d, i + 1))}
  BY DEF ReadVarint
<1> HIDE DEF unit
<1>3. low \in Nat
  <2>1. At(d, i) \in Int
    BY AtTyped
  <2> QED BY <1>1, <2>1
<1> HIDE DEF low
<1>4. Item(low, i + 1) \in Numbers
  BY <1>3 DEF Item, Numbers
<1>5. Joined(low, unit, ReadRest(d, i + 1)) \in Numbers
  <2>1. i + 1 \in Int
    OBVIOUS
  <2> QED BY <1>1, <1>3, <2>1, JoinedTyped, RestTyped
<1> QED BY <1>2, <1>4, <1>5

(* and a value, whatever type was announced.                               *)
LEMMA ValueItem ==
  ASSUME NEW d \in Seq(Int), NEW type, NEW v \in Numbers
  PROVE  ReadValue(type, d, v) \in ReadItems
<1>1. v.val \in Nat /\ v.next \in Int /\ v = Item(v.val, v.next)
  BY DEF Numbers, Item
<1>2. \A x \in ReadCells, n \in Int : Item(x, n) \in ReadItems
  BY DEF Item, ReadItems
<1>3. v.next + v.val \in Int
  BY <1>1
<1>4. CASE type = INT64
  <2>1. (IF v.val % 2 = 0 THEN v.val \div 2 ELSE -((v.val + 1) \div 2)) \in ReadCells
    BY <1>1 DEF ReadCells
  <2>2. ReadValue(type, d, v) = Item(IF v.val % 2 = 0 THEN v.val \div 2 ELSE -((v.val + 1) \div 2), v.next)
    <3>1. type # FLOAT /\ type # STRING_TYPE
      BY <1>4 DEF FLOAT, INT64, STRING_TYPE
    <3> QED BY <1>4, <3>1, Zenon DEF ReadValue
  <2> QED BY <1>1, <1>2, <2>1, <2>2
<1>5. CASE type = FLOAT
  <2>1. At(d, v.next) \in ReadCells
    BY AtTyped DEF ReadCells
  <2>2. ReadValue(type, d, v) = Item(At(d, v.next), v.next + v.val)
    <3>1. type # INT64 /\ type # STRING_TYPE
      BY <1>5 DEF FLOAT, INT64, STRING_TYPE
    <3> QED BY <1>5, <3>1, Zenon DEF ReadValue
  <2> QED BY <1>2, <1>3, <2>1, <2>2
<1>6. CASE type = STRING_TYPE
  <2>1. Unescape(Cells(d, v.next, v.val)) \in ReadCells
    BY <1>1, CellsTyped, UnescapeUnfold DEF ReadCells
  <2>2. ReadValue(type, d, v) = Item(Unescape(Cells(d, v.next, v.val)), v.next + v.val)
    <3>1. type # INT64 /\ type # FLOAT
      BY <1>6 DEF FLOAT, INT64, STRING_TYPE
    <3> QED BY <1>6, <3>1, Zenon DEF ReadValue
  <2> QED BY <1>2, <1>3, <2>1, <2>2
<1>7. CASE type \notin {INT64, FLOAT, STRING_TYPE}
  <2>1. ReadValue(type, d, v) = v
    BY <1>7, Zenon DEF ReadValue
  <2>2. v.val \in ReadCells
    BY <1>1 DEF ReadCells
  <2> QED BY <1>1, <1>2, <2>1, <2>2
<1> QED BY <1>4, <1>5, <1>6, <1>7

(* A list grows by one item.                                               *)
LEMMA AddTyped ==
  ASSUME NEW V, NEW read \in [val : Seq(V), next : Int], NEW item \in [val : V, next : Int]
  PROVE  /\ Add(read, item) \in [val : Seq(V), next : Int]
         /\ Len(Add(read, item).val) = Len(read.val) + 1
BY DEF Add, Item

(* What is made step by step.                                              *)
Iterated(V, b, step, g) == g \in [Nat -> V] /\ g = [k \in Nat |-> IF k = 0 THEN b ELSE step[g[k - 1]]]

(* It can be made.                                                         *)
LEMMA IterationExists ==
  ASSUME NEW V, NEW b \in V, NEW step \in [V -> V]
  PROVE  \E g : Iterated(V, b, step, g)
<1> DEFINE prev == [n \in Nat \ {0} |-> n - 1]
           next == [p \in (Nat \ {0}) \X V |-> step[p[2]]]
<1>1. Recursion(V, b, prev, next)
  BY DEF Recursion
<1>2. PICK g \in [Nat -> V] : \A n \in Nat : g[n] = ValueAt(b, prev, next, g, n)
  <2> HIDE DEF prev, next
  <2> QED BY <1>1, RecursionExists
<1>3. ASSUME NEW n \in Nat PROVE g[n] = IF n = 0 THEN b ELSE step[g[n - 1]]
  <2>1. CASE n = 0
    BY <1>2, <2>1 DEF ValueAt
  <2>2. CASE n # 0
    <3>1. prev[n] = n - 1 /\ n - 1 \in Nat /\ g[n - 1] \in V
      BY <2>2
    <3>2. g[n] = next[<<n, g[prev[n]]>>]
      <4> HIDE DEF prev, next
      <4> QED BY <1>2, <2>2 DEF ValueAt
    <3>3. next[<<n, g[n - 1]>>] = step[g[n - 1]]
      <4>1. <<n, g[n - 1]>> \in (Nat \ {0}) \X V
        BY <2>2, <3>1
      <4> QED BY <4>1
    <3> QED BY <2>2, <3>1, <3>2, <3>3
  <2> QED BY <2>1, <2>2
<1> QED BY <1>3 DEF Iterated
-----------------------------------------------------------------------------
(***************************************************************************)
(* ReadValues and ReadParams, item by item.                                *)
(***************************************************************************)
OneValue(type, d, read) == Add(read, ReadValue(type, d, ReadVarint(d, read.next)))

ReadingValues(type, d, start) ==
  CHOOSE g : g = [k \in Nat |-> IF k = 0 THEN Item(<<>>, start) ELSE OneValue(type, d, g[k - 1])]

(* A value lengthens the list by one.                                      *)
LEMMA OneValueTyped ==
  ASSUME NEW d \in Seq(Int), NEW type, NEW read \in ReadLists
  PROVE  /\ OneValue(type, d, read) \in ReadLists
         /\ Len(OneValue(type, d, read).val) = Len(read.val) + 1
<1>1. read.next \in Int /\ read \in [val : Seq(ReadCells), next : Int]
  BY DEF ReadLists
<1>2. ReadValue(type, d, ReadVarint(d, read.next)) \in [val : ReadCells, next : Int]
  BY <1>1, VarintItem, ValueItem DEF ReadItems
<1> DEFINE item == ReadValue(type, d, ReadVarint(d, read.next))
<1>3. OneValue(type, d, read) = Add(read, item)
  BY DEF OneValue
<1> HIDE DEF item
<1>4. /\ Add(read, item) \in [val : Seq(ReadCells), next : Int]
      /\ Len(Add(read, item).val) = Len(read.val) + 1
  BY <1>1, <1>2, AddTyped DEF item
<1> QED BY <1>3, <1>4 DEF ReadLists

(* ReadValues starts with nothing and reads one value after the other.     *)
LEMMA ValuesUnfold ==
  ASSUME NEW d \in Seq(Int), NEW type, NEW start \in Int
  PROVE  /\ ReadingValues(type, d, start)[0] = Item(<<>>, start)
         /\ \A k \in Nat : ReadingValues(type, d, start)[k + 1]
                             = OneValue(type, d, ReadingValues(type, d, start)[k])
         /\ \A k \in Nat : /\ ReadValues(k, type, d, start) = ReadingValues(type, d, start)[k]
                           /\ ReadValues(k, type, d, start) \in ReadLists
                           /\ Len(ReadValues(k, type, d, start).val) = k
<1> DEFINE b == Item(<<>>, start)
           step == [read \in ReadLists |-> OneValue(type, d, read)]
           Solves(h) == h = [k \in Nat |-> IF k = 0 THEN b ELSE OneValue(type, d, h[k - 1])]
           g == ReadingValues(type, d, start)
<1>1. b \in ReadLists /\ Len(b.val) = 0
  BY DEF Item, ReadLists
<1>2. step \in [ReadLists -> ReadLists]
  BY OneValueTyped
<1>3. \E h : Solves(h)
  <2>1. PICK h : Iterated(ReadLists, b, step, h)
    <3> HIDE DEF b, step
    <3> QED BY <1>1, <1>2, IterationExists
  <2>2. h \in [Nat -> ReadLists] /\ h = [k \in Nat |-> IF k = 0 THEN b ELSE step[h[k - 1]]]
    <3> HIDE DEF b, step
    <3> QED BY <2>1 DEF Iterated
  <2>3. \A k \in Nat \ {0} : step[h[k - 1]] = OneValue(type, d, h[k - 1])
    <3>1. \A k \in Nat \ {0} : h[k - 1] \in ReadLists
      <4> HIDE DEF b, step
      <4>1. \A k \in Nat \ {0} : k - 1 \in Nat
        OBVIOUS
      <4> QED BY <2>2, <4>1
    <3> QED BY <3>1
  <2>4. Solves(h)
    <3> HIDE DEF b, step
    <3> QED BY <2>2, <2>3
  <2> QED BY <2>4
<1>4. Solves(g)
  <2>1. g = CHOOSE h : Solves(h)
    BY Zenon DEF ReadingValues
  <2> HIDE DEF Solves, g
  <2> QED BY <1>3, <2>1
<1>5. \A k \in Nat : ReadValues(k, type, d, start) = g[k]
  BY Zenon DEF ReadValues, ReadingValues, OneValue
<1> HIDE DEF g, b
<1>6. g[0] = b
  BY <1>4
<1>7. ASSUME NEW k \in Nat PROVE g[k + 1] = OneValue(type, d, g[k])
  <2>1. k + 1 \in Nat /\ k + 1 # 0 /\ (k + 1) - 1 = k
    OBVIOUS
  <2> QED BY <1>4, <2>1
<1> DEFINE K == {k \in Nat : g[k] \in ReadLists /\ Len(g[k].val) = k}
<1>8. 0 \in K
  BY <1>1, <1>6
<1>9. ASSUME NEW k \in K PROVE k + 1 \in K
  <2>1. k \in Nat /\ k + 1 \in Nat /\ g[k] \in ReadLists /\ Len(g[k].val) = k
    OBVIOUS
  <2>2. OneValue(type, d, g[k]) \in ReadLists /\ Len(OneValue(type, d, g[k]).val) = k + 1
    BY <2>1, OneValueTyped
  <2>3. g[k + 1] = OneValue(type, d, g[k])
    BY <1>7, <2>1
  <2> QED BY <2>1, <2>2, <2>3
<1>10. K = Nat
  <2> HIDE DEF K
  <2>1. K \in SUBSET Nat
    BY DEF K
  <2> QED BY <1>8, <1>9, <2>1, SetInduction
<1>11. \A k \in Nat : g[k] \in ReadLists /\ Len(g[k].val) = k
  BY <1>10
<1> QED BY <1>5, <1>6, <1>7, <1>11 DEF g, b

(* What is read of a parameter.                                            *)
ReadParam == [key : Seq(Int), isArray : BOOLEAN, type : Int, vals : Seq(ReadCells)]
ReadBodies == [val : Seq(ReadParam), next : Int]

OneParam(d, read) == Add(read, ReadTyped(d, ReadKey(d, ReadVarint(d, read.next))))

ReadingParams(d, start) ==
  CHOOSE g : g = [k \in Nat |-> IF k = 0 THEN Item(<<>>, start) ELSE OneParam(d, g[k - 1])]

(* A parameter is read anywhere,                                           *)
LEMMA ReadTypedTyped ==
  ASSUME NEW d \in Seq(Int), NEW key \in [val : Seq(Int), next : Int]
  PROVE  ReadTyped(d, key) \in [val : ReadParam, next : Int]
<1> DEFINE isArray == At(d, key.next) % 2 = 1
           type == At(d, key.next) \div 2
           count == ReadVarint(d, key.next + 1)
           read == IF isArray THEN ReadArray(type, d, count) ELSE ReadValues(1, type, d, key.next + 1)
<1>1. key.val \in Seq(Int) /\ key.next + 1 \in Int /\ At(d, key.next) \in Int
  BY AtTyped
<1>2. isArray \in BOOLEAN /\ type \in Int
  BY <1>1
<1>3. count.val \in Nat /\ count.next \in Int
  <2>1. count \in Numbers
    BY <1>1, VarintItem
  <2> HIDE DEF count
  <2> QED BY <2>1 DEF Numbers
<1> HIDE DEF isArray, type, count
<1>4. read \in ReadLists
  <2>1. ReadValues(count.val, type, d, count.next) \in ReadLists
    BY <1>3, ValuesUnfold
  <2>2. ReadValues(1, type, d, key.next + 1) \in ReadLists
    <3>1. 1 \in Nat
      OBVIOUS
    <3> QED BY <1>1, <3>1, ValuesUnfold
  <2> QED BY <2>1, <2>2 DEF ReadArray
<1>5. ReadTyped(d, key) = Item([key |-> key.val, isArray |-> isArray, type |-> type, vals |-> read.val],
                               read.next)
  BY Zenon DEF ReadTyped, isArray, type, count
<1> HIDE DEF read
<1>6. read.val \in Seq(ReadCells) /\ read.next \in Int
  BY <1>4 DEF ReadLists
<1> QED BY <1>1, <1>2, <1>5, <1>6 DEF Item, ReadParam

(* and lengthens the list by one.                                          *)
LEMMA OneParamTyped ==
  ASSUME NEW d \in Seq(Int), NEW read \in ReadBodies
  PROVE  /\ OneParam(d, read) \in ReadBodies
         /\ Len(OneParam(d, read).val) = Len(read.val) + 1
<1> DEFINE size == ReadVarint(d, read.next)
           key == ReadKey(d, size)
           item == ReadTyped(d, key)
<1>1. read.next \in Int /\ read \in [val : Seq(ReadParam), next : Int]
  BY DEF ReadBodies
<1>2. size.val \in Nat /\ size.next \in Int
  <2>1. size \in Numbers
    BY <1>1, VarintItem
  <2> HIDE DEF size
  <2> QED BY <2>1 DEF Numbers
<1> HIDE DEF size
<1>3. key \in [val : Seq(Int), next : Int]
  <2>1. Cells(d, size.next, size.val) \in Seq(Int)
    BY <1>2, CellsTyped
  <2> QED BY <1>2, <2>1 DEF ReadKey, Item
<1> HIDE DEF key
<1>4. item \in [val : ReadParam, next : Int]
  BY <1>3, ReadTypedTyped
<1>5. OneParam(d, read) = Add(read, item)
  BY DEF OneParam, item, key, size
<1> HIDE DEF item
<1>6. /\ Add(read, item) \in [val : Seq(ReadParam), next : Int]
      /\ Len(Add(read, item).val) = Len(read.val) + 1
  BY <1>1, <1>4, AddTyped
<1> QED BY <1>5, <1>6 DEF ReadBodies

(* ReadParams starts with nothing and reads one parameter after the other. *)
LEMMA ParamsUnfold ==
  ASSUME NEW d \in Seq(Int), NEW start \in Int
  PROVE  /\ ReadingParams(d, start)[0] = Item(<<>>, start)
         /\ \A k \in Nat : ReadingParams(d, start)[k + 1] = OneParam(d, ReadingParams(d, start)[k])
         /\ \A k \in Nat : /\ ReadParams(k, d, start) = ReadingParams(d, start)[k]
                           /\ ReadParams(k, d, start) \in ReadBodies
                           /\ Len(ReadParams(k, d, start).val) = k
<1> DEFINE b == Item(<<>>, start)
           step == [read \in ReadBodies |-> OneParam(d, read)]
           Solves(h) == h = [k \in Nat |-> IF k = 0 THEN b ELSE OneParam(d, h[k - 1])]
           g == ReadingParams(d, start)
<1>1. b \in ReadBodies /\ Len(b.val) = 0
  BY DEF Item, ReadBodies
<1>2. step \in [ReadBodies -> ReadBodies]
  BY OneParamTyped
<1>3. \E h : Solves(h)
  <2>1. PICK h : Iterated(ReadBodies, b, step, h)
    <3> HIDE DEF b, step
    <3> QED BY <1>1, <1>2, IterationExists
  <2>2. h \in [Nat -> ReadBodies] /\ h = [k \in Nat |-> IF k = 0 THEN b ELSE step[h[k - 1]]]
    <3> HIDE DEF b, step
    <3> QED BY <2>1 DEF Iterated
  <2>3. \A k \in Nat \ {0} : step[h[k - 1]] = OneParam(d, h[k - 1])
    <3>1. \A k \in Nat \ {0} : h[k - 1] \in ReadBodies
      <4> HIDE DEF b, step
      <4>1. \A k \in Nat \ {0} : k - 1 \in Nat
        OBVIOUS
      <4> QED BY <2>2, <4>1
    <3> QED BY <3>1
  <2>4. Solves(h)
    <3> HIDE DEF b, step
    <3> QED BY <2>2, <2>3
  <2> QED BY <2>4
<1>4. Solves(g)
  <2>1. g = CHOOSE h : Solves(h)
    BY Zenon DEF ReadingParams
  <2> HIDE DEF Solves, g
  <2> QED BY <1>3, <2>1
<1>5. \A k \in Nat : ReadParams(k, d, start) = g[k]
  BY Zenon DEF ReadParams, ReadingParams, OneParam
<1> HIDE DEF g, b
<1>6. g[0] = b
  BY <1>4
<1>7. ASSUME NEW k \in Nat PROVE g[k + 1] = OneParam(d, g[k])
  <2>1. k + 1 \in Nat /\ k + 1 # 0 /\ (k + 1) - 1 = k
    OBVIOUS
  <2> QED BY <1>4, <2>1
<1> DEFINE K == {k \in Nat : g[k] \in ReadBodies /\ Len(g[k].val) = k}
<1>8. 0 \in K
  BY <1>1, <1>6
<1>9. ASSUME NEW k \in K PROVE k + 1 \in K
  <2>1. k \in Nat /\ k + 1 \in Nat /\ g[k] \in ReadBodies /\ Len(g[k].val) = k
    OBVIOUS
  <2>2. OneParam(d, g[k]) \in ReadBodies /\ Len(OneParam(d, g[k]).val) = k + 1
    BY <2>1, OneParamTyped
  <2>3. g[k + 1] = OneParam(d, g[k])
    BY <1>7, <2>1
  <2> QED BY <2>1, <2>2, <2>3
<1>10. K = Nat
  <2> HIDE DEF K
  <2>1. K \in SUBSET Nat
    BY DEF K
  <2> QED BY <1>8, <1>9, <2>1, SetInduction
<1>11. \A k \in Nat : g[k] \in ReadBodies /\ Len(g[k].val) = k
  BY <1>10
<1> QED BY <1>5, <1>6, <1>7, <1>11 DEF g, b
-----------------------------------------------------------------------------
(***************************************************************************)
(* Items that lie one behind the other are read one after the other.       *)
(***************************************************************************)
FirstBlocks(blocks, k) == SubSeq(blocks, 1, k)

(* The second part of a sequence begins behind the first.                  *)
LEMMA Behind ==
  ASSUME NEW V, NEW s \in Seq(V), NEW t \in Seq(V), NEW j \in 1..Len(t)
  PROVE  (s \o t)[Len(s) + j] = t[j]
OBVIOUS

(* The block behind the first k of them.                                   *)
LEMMA BlocksGrow ==
  ASSUME NEW blocks \in Seq(Seq(Int)), NEW k \in 0..(Len(blocks) - 1)
  PROVE  /\ FirstBlocks(blocks, k) \in Seq(Seq(Int)) /\ blocks[k + 1] \in Seq(Int)
         /\ FlattenSeq(FirstBlocks(blocks, k)) \in Seq(Int)
         /\ FlattenSeq(FirstBlocks(blocks, k + 1)) = FlattenSeq(FirstBlocks(blocks, k)) \o blocks[k + 1]
         /\ \E rest \in Seq(Int) :
              FlattenSeq(blocks) = FlattenSeq(FirstBlocks(blocks, k)) \o (blocks[k + 1] \o rest)
<1> DEFINE n == Len(blocks)
           a == FirstBlocks(blocks, k)
           c == blocks[k + 1]
           z == SubSeq(blocks, k + 2, n)
           V == Seq(Int)
<1> HIDE DEF V
<1>0. blocks \in Seq(V)
  BY DEF V
<1>1. n \in Nat /\ k \in Nat /\ k + 1 \in 1..n /\ k + 2 \in Nat
  OBVIOUS
<1>2. a \in Seq(V) /\ z \in Seq(V) /\ c \in V
  BY <1>0, <1>1 DEF FirstBlocks
<1>3. FirstBlocks(blocks, k + 1) = Append(a, c)
  BY <1>0, <1>1 DEF FirstBlocks
<1>4. blocks = a \o (<<c>> \o z)
  <2> DEFINE b == <<c>> \o z
             y == a \o b
  <2>1. /\ Len(a) = k /\ \A i \in 1..k : a[i] = blocks[i]
        /\ Len(z) = n - k - 1 /\ \A i \in 1..(n - k - 1) : z[i] = blocks[i + k + 1]
    BY <1>0, <1>1 DEF FirstBlocks
  <2> HIDE DEF a, z
  <2>2. b \in Seq(V) /\ Len(b) = n - k /\ b[1] = c /\ \A i \in 1..(n - k - 1) : b[i + 1] = z[i]
    BY <1>1, <1>2, <2>1, SMTT(60)
  <2> HIDE DEF b
  <2>3. y \in Seq(V) /\ Len(y) = n
    BY <1>1, <1>2, <2>1, <2>2, SMTT(60)
  <2>4. \A i \in 1..k : y[i] = blocks[i]
    BY <1>1, <1>2, <2>1, <2>2
  <2>5. ASSUME NEW i \in 1..(n - k) PROVE y[i + k] = b[i]
    <3>1. (a \o b)[Len(a) + i] = b[i]
      BY <1>2, <2>2, Behind
    <3>2. Len(a) + i = i + k
      BY <1>1, <2>1
    <3> QED BY <3>1, <3>2
  <2> HIDE DEF y
  <2>6. ASSUME NEW i \in (k + 1)..n PROVE y[i] = blocks[i]
    <3>1. i - k \in 1..(n - k) /\ (i - k) + k = i
      BY <1>1
    <3>2. y[i] = b[i - k]
      BY <2>5, <3>1
    <3>3. CASE i = k + 1
      BY <2>2, <3>2, <3>3, <1>1
    <3>4. CASE i # k + 1
      <4>1. i - k - 1 \in 1..(n - k - 1) /\ (i - k - 1) + 1 = i - k /\ (i - k - 1) + k + 1 = i
        BY <1>1, <3>4
      <4>2. b[i - k] = z[i - k - 1] /\ z[i - k - 1] = blocks[i]
        BY <2>1, <2>2, <4>1
      <4> QED BY <3>2, <4>2
    <3> QED BY <3>3, <3>4
  <2>7. \A i \in 1..n : y[i] = blocks[i]
    <3> SUFFICES ASSUME NEW i \in 1..n PROVE y[i] = blocks[i]
      OBVIOUS
    <3>1. i \in 1..k \/ i \in (k + 1)..n
      BY <1>1
    <3> QED BY <2>4, <2>6, <3>1
  <2>8. y = blocks
    <3>1. y = [i \in 1..n |-> y[i]] /\ blocks = [i \in 1..n |-> blocks[i]]
      BY <1>0, <2>3
    <3> QED BY <2>7, <3>1
  <2> QED BY <2>8 DEF y, b
<1> HIDE DEF a, c, z
<1>5. FlattenSeq(Append(a, c)) = FlattenSeq(a) \o c
  BY <1>2, FlattenAppend DEF V
<1>6. FlattenSeq(<<c>> \o z) = c \o FlattenSeq(z)
  BY <1>2, FlattenFirst DEF V
<1>7. FlattenSeq(a \o (<<c>> \o z)) = FlattenSeq(a) \o FlattenSeq(<<c>> \o z)
  <2>1. <<c>> \o z \in Seq(V)
    BY <1>2
  <2> QED BY <1>2, <2>1, FlattenConcat DEF V
<1>8. FlattenSeq(a) \in Seq(Int) /\ FlattenSeq(z) \in Seq(Int)
  BY <1>2, FlattenType DEF V
<1>9. FlattenSeq(blocks) = FlattenSeq(a) \o (c \o FlattenSeq(z))
  BY <1>4, <1>6, <1>7, Zenon
<1>10. \E rest \in Seq(Int) : FlattenSeq(blocks) = FlattenSeq(a) \o (c \o rest)
  BY <1>8, <1>9, Zenon
<1>11. a \in Seq(Seq(Int)) /\ c \in Seq(Int)
  BY <1>2, Zenon DEF V
<1>12. FlattenSeq(FirstBlocks(blocks, k + 1)) = FlattenSeq(a) \o c
  BY <1>3, <1>5, Zenon
<1> QED BY <1>8, <1>10, <1>11, <1>12, Zenon DEF a, c

(* The first k values.                                                     *)
UpTo(vals, k) == [i \in 1..k |-> vals[i]]

(* One more of them.                                                       *)
LEMMA UpToGrows ==
  ASSUME NEW vals, NEW k \in Nat
  PROVE  Append(UpTo(vals, k), vals[k + 1]) = UpTo(vals, k + 1)
<1> DEFINE V == {vals[i] : i \in 1..(k + 1)}
<1>1. \A i \in 1..(k + 1) : vals[i] \in V
  OBVIOUS
<1> HIDE DEF V
<1>2. UpTo(vals, k) \in Seq(V) /\ Len(UpTo(vals, k)) = k /\ vals[k + 1] \in V
  BY <1>1 DEF UpTo
<1>3. \A i \in 1..k : UpTo(vals, k)[i] = vals[i]
  BY DEF UpTo
<1> DEFINE s == UpTo(vals, k)
           t == Append(s, vals[k + 1])
<1> HIDE DEF s
<1>4. s \in Seq(V) /\ Len(s) = k /\ vals[k + 1] \in V /\ \A i \in 1..k : s[i] = vals[i]
  BY <1>2, <1>3 DEF s
<1>5. t \in Seq(V) /\ Len(t) = k + 1 /\ \A i \in 1..(k + 1) : t[i] = vals[i]
  BY <1>4
<1> HIDE DEF t
<1>6. t = [i \in 1..(k + 1) |-> vals[i]]
  BY <1>5
<1> QED BY <1>6 DEF s, t, UpTo

(* What reading the blocks one by one comes to, if every block is read     *)
(* right where it lies.                                                    *)
ReadsBlocks(d, blocks, vals, g) ==
  \A k \in 0..(Len(blocks) - 1) : Holds(d, g[k].next, blocks[k + 1]) =>
    g[k + 1] = Add(g[k], Item(vals[k + 1], g[k].next + Len(blocks[k + 1])))

LEMMA InOrder ==
  ASSUME NEW d \in Seq(Int), NEW blocks \in Seq(Seq(Int)), NEW start, NEW vals, NEW g,
         Holds(d, start, FlattenSeq(blocks)), g[0] = Item(<<>>, start), ReadsBlocks(d, blocks, vals, g)
  PROVE  g[Len(blocks)] = Item(UpTo(vals, Len(blocks)), start + Len(FlattenSeq(blocks)))
<1> DEFINE n == Len(blocks)
           F(k) == FlattenSeq(FirstBlocks(blocks, k))
           P(k) == g[k] = Item(UpTo(vals, k), start + Len(F(k)))
           K == {k \in Nat : k <= n => P(k)}
<1>0. n \in Nat /\ start \in Nat
  BY DEF Holds
<1>1. P(0)
  <2>1. FirstBlocks(blocks, 0) = <<>> /\ UpTo(vals, 0) = <<>>
    BY DEF FirstBlocks, UpTo
  <2>2. F(0) = <<>> /\ start + Len(F(0)) = start
    <3>1. F(0) = <<>>
      BY <2>1, FlattenEmpty
    <3>2. Len(<<>>) = 0
      OBVIOUS
    <3> QED BY <1>0, <3>1, <3>2
  <2> QED BY <2>1, <2>2
<1>2. ASSUME NEW k \in Nat, P(k), k + 1 <= n PROVE P(k + 1)
  <2> DEFINE c == blocks[k + 1]
  <2>1. k \in 0..(n - 1)
    BY <1>0, <1>2
  <2>2. F(k) \in Seq(Int) /\ c \in Seq(Int) /\ F(k + 1) = F(k) \o c
    BY <2>1, BlocksGrow
  <2>3. PICK rest \in Seq(Int) : FlattenSeq(blocks) = F(k) \o (c \o rest)
    BY <2>1, BlocksGrow
  <2> HIDE DEF F
  <2>4. Holds(d, start + Len(F(k)), c)
    <3>1. c \o rest \in Seq(Int)
      BY <2>2
    <3>2. Holds(d, start, F(k) \o (c \o rest))
      BY <2>3
    <3>3. Holds(d, start + Len(F(k)), c \o rest)
      BY <2>2, <3>1, <3>2, HoldsParts
    <3> QED BY <2>2, <3>3, HoldsParts
  <2>5. g[k].next = start + Len(F(k)) /\ g[k].val = UpTo(vals, k)
    BY <1>2 DEF Item
  <2>6. g[k + 1] = Add(g[k], Item(vals[k + 1], g[k].next + Len(c)))
    BY <2>1, <2>4, <2>5 DEF ReadsBlocks
  <2>7. g[k + 1] = Item(Append(UpTo(vals, k), vals[k + 1]), (start + Len(F(k))) + Len(c))
    BY <2>5, <2>6 DEF Add, Item
  <2>8. (start + Len(F(k))) + Len(c) = start + Len(F(k + 1))
    <3>1. Len(F(k + 1)) = Len(F(k)) + Len(c) /\ Len(F(k)) \in Nat /\ Len(c) \in Nat
      BY <2>2, JoinedCells
    <3> DEFINE x == Len(F(k))
               y == Len(c)
    <3>2. x \in Nat /\ y \in Nat /\ Len(F(k + 1)) = x + y
      BY <3>1
    <3> HIDE DEF x, y
    <3>3. (start + x) + y = start + (x + y)
      BY <1>0, <3>2
    <3> QED BY <3>2, <3>3, Zenon DEF x, y
  <2> QED BY <2>7, <2>8, UpToGrows
<1>3. K = Nat
  <2> HIDE DEF P
  <2>1. K \in SUBSET Nat
    OBVIOUS
  <2>2. 0 \in K
    BY <1>1
  <2>3. ASSUME NEW k \in K PROVE k + 1 \in K
    <3>1. k \in Nat /\ (k <= n => P(k))
      OBVIOUS
    <3>2. k + 1 <= n => P(k + 1)
      BY <1>0, <1>2, <3>1
    <3> QED BY <3>1, <3>2
  <2> HIDE DEF K
  <2> QED BY <2>1, <2>2, <2>3, SetInduction
<1>4. P(n)
  <2> HIDE DEF P
  <2> QED BY <1>0, <1>3
<1>5. FirstBlocks(blocks, n) = blocks
  BY DEF FirstBlocks
<1> QED BY <1>4, <1>5

(***************************************************************************)
(* Each kind of value is read as it was written.                           *)
(***************************************************************************)
LEMMA StringBytes ==
  ASSUME NEW text \in Seq(Int)
  PROVE  /\ UnsignedVarint(LENGTH_DELIMITED, Len(text)) \in Seq(Int)
         /\ FlattenSeq(StringChunks(text)) = UnsignedVarint(LENGTH_DELIMITED, Len(text)) \o text
<1>1. LENGTH_DELIMITED \in Int /\ Len(text) \in Nat
  BY DEF LENGTH_DELIMITED
<1>2. VarintChunks(LENGTH_DELIMITED, Len(text)) \in Seq(Seq(Int))
  BY <1>1, VarintTyped
<1>3. FlattenSeq(Append(VarintChunks(LENGTH_DELIMITED, Len(text)), text))
        = FlattenSeq(VarintChunks(LENGTH_DELIMITED, Len(text))) \o text
  BY <1>2, FlattenAppend, Zenon
<1>4. /\ UnsignedVarint(LENGTH_DELIMITED, Len(text)) \in Seq(Int)
      /\ FlattenSeq(VarintChunks(LENGTH_DELIMITED, Len(text)))
           = UnsignedVarint(LENGTH_DELIMITED, Len(text))
  BY <1>1, VarintBytes, Zenon
<1> QED BY <1>3, <1>4, Zenon DEF StringChunks

(* The bytes of a floating number.                                         *)
LEMMA FloatBytes ==
  ASSUME NEW val \in Int
  PROVE  /\ UnsignedVarint(LENGTH_DELIMITED, 1) \in Seq(Int)
         /\ FlattenSeq(FloatChunks(val)) = UnsignedVarint(LENGTH_DELIMITED, 1) \o <<val>>
<1>1. LENGTH_DELIMITED \in Int /\ 1 \in Nat
  BY DEF LENGTH_DELIMITED
<1>2. VarintChunks(LENGTH_DELIMITED, 1) \in Seq(Seq(Int)) /\ <<val>> \in Seq(Int)
  BY <1>1, VarintTyped, OneCell
<1>3. FlattenSeq(Append(VarintChunks(LENGTH_DELIMITED, 1), <<val>>))
        = FlattenSeq(VarintChunks(LENGTH_DELIMITED, 1)) \o <<val>>
  BY <1>2, FlattenAppend, Zenon
<1>4. /\ UnsignedVarint(LENGTH_DELIMITED, 1) \in Seq(Int)
      /\ FlattenSeq(VarintChunks(LENGTH_DELIMITED, 1)) = UnsignedVarint(LENGTH_DELIMITED, 1)
  BY <1>1, VarintBytes, Zenon
<1> QED BY <1>3, <1>4, Zenon DEF FloatChunks

(* A number behind which something lies, and that something.               *)
LEMMA VarintBefore ==
  ASSUME NEW d \in Seq(Int), NEW type \in {VARINT, LENGTH_DELIMITED}, NEW val \in Nat, NEW i,
         NEW rest \in Seq(Int), Holds(d, i, UnsignedVarint(type, val) \o rest)
  PROVE  \E next \in Nat \ {0} :
           /\ ReadVarint(d, i) = Item(val, next)
           /\ next + Len(rest) = i + Len(UnsignedVarint(type, val) \o rest)
           /\ Holds(d, next, rest)
<1> DEFINE number == UnsignedVarint(type, val)
           next == i + Len(number)
<1>1. number \in Seq(Int)
  <2>1. type \in Int
    BY DEF VARINT, LENGTH_DELIMITED
  <2> QED BY <2>1, VarintBytes
<1>2. ReadVarint(d, i) = Item(val, next) /\ Holds(d, next, rest)
  <2>1. Holds(d, i, number) /\ Holds(d, next, rest)
    BY <1>1, HoldsParts
  <2> QED BY <2>1, VarintReads
<1>3. next + Len(rest) = i + Len(number \o rest)
  <2> HIDE DEF number
  <2>1. Len(number \o rest) = Len(number) + Len(rest) /\ Len(number) \in Nat /\ Len(rest) \in Nat
    BY <1>1, JoinedCells
  <2>2. i \in Nat
    BY DEF Holds
  <2> QED BY <2>1, <2>2
<1>4. next \in Nat \ {0}
  BY <1>2 DEF Holds
<1> QED BY <1>2, <1>3, <1>4

(* A text behind its size.                                                 *)
LEMMA TextReads ==
  ASSUME NEW d \in Seq(Int), NEW text \in Seq(Int), NEW i,
         Holds(d, i, FlattenSeq(StringChunks(text)))
  PROVE  \E next \in Nat \ {0} :
           /\ ReadVarint(d, i) = Item(Len(text), next)
           /\ next + Len(text) = i + Len(FlattenSeq(StringChunks(text)))
           /\ Cells(d, next, Len(text)) = text
<1>1. FlattenSeq(StringChunks(text)) = UnsignedVarint(LENGTH_DELIMITED, Len(text)) \o text
  BY StringBytes
<1>2. Len(text) \in Nat
  OBVIOUS
<1>3. PICK next \in Nat \ {0} :
        /\ ReadVarint(d, i) = Item(Len(text), next)
        /\ next + Len(text) = i + Len(UnsignedVarint(LENGTH_DELIMITED, Len(text)) \o text)
        /\ Holds(d, next, text)
  <2>1. Holds(d, i, UnsignedVarint(LENGTH_DELIMITED, Len(text)) \o text)
    BY <1>1
  <2> QED BY <1>2, <2>1, VarintBefore, Zenon
<1>4. Cells(d, next, Len(text)) = text
  BY <1>3, HoldsCells
<1> QED BY <1>1, <1>3, <1>4, Zenon

(* What the reader makes of the number, for each type.                     *)
LEMMA ReadValueCases ==
  ASSUME NEW d, NEW v
  PROVE  /\ ReadValue(INT64, d, v)
              = Item(IF v.val % 2 = 0 THEN v.val \div 2 ELSE -((v.val + 1) \div 2), v.next)
         /\ ReadValue(UINT64, d, v) = v
         /\ ReadValue(FLOAT, d, v) = Item(At(d, v.next), v.next + v.val)
         /\ ReadValue(STRING_TYPE, d, v) = Item(Unescape(Cells(d, v.next, v.val)), v.next + v.val)
<1>1. /\ INT64 # FLOAT /\ INT64 # STRING_TYPE /\ FLOAT # STRING_TYPE
      /\ UINT64 # INT64 /\ UINT64 # FLOAT /\ UINT64 # STRING_TYPE
  BY DEF INT64, UINT64, FLOAT, STRING_TYPE
<1> QED BY <1>1, Zenon DEF ReadValue

(* The type, the bytes and the value read for each kind.                   *)
LEMMA KindCases ==
  ASSUME NEW val
  PROVE  /\ /\ ValueType("signed") = INT64 /\ ValueType("unsigned") = UINT64
            /\ ValueType("float") = FLOAT /\ ValueType("string") = STRING_TYPE
         /\ /\ ValueChunks("signed", val) = VarintChunks(VARINT, ZigZag(val))
            /\ ValueChunks("unsigned", val) = VarintChunks(VARINT, val)
            /\ ValueChunks("float", val) = FloatChunks(IF val = NaN THEN 0 ELSE val)
            /\ ValueChunks("string", val) = StringChunks(EscapeToRaw(val))
         /\ /\ Readable("signed", val) = val /\ Readable("unsigned", val) = val
            /\ Readable("float", val) = (IF val = NaN THEN 0 ELSE val)
            /\ Readable("string", val) = Printable(val)
         /\ /\ Values("signed") = Int /\ Values("unsigned") = Nat
            /\ Values("float") = Int /\ Values("string") = Seq(Nat)
<1>1. /\ "signed" # "unsigned" /\ "signed" # "float" /\ "signed" # "string"
      /\ "unsigned" # "float" /\ "unsigned" # "string" /\ "float" # "string"
  OBVIOUS
<1>2. /\ ValueType("signed") = INT64 /\ ValueType("unsigned") = UINT64
      /\ ValueType("float") = FLOAT /\ ValueType("string") = STRING_TYPE
  BY <1>1, Zenon DEF ValueType
<1>3. /\ ValueChunks("signed", val) = VarintChunks(VARINT, ZigZag(val))
      /\ ValueChunks("unsigned", val) = VarintChunks(VARINT, val)
      /\ ValueChunks("float", val) = FloatChunks(IF val = NaN THEN 0 ELSE val)
      /\ ValueChunks("string", val) = StringChunks(EscapeToRaw(val))
  BY <1>1, Zenon DEF ValueChunks
<1>4. /\ Readable("signed", val) = val /\ Readable("unsigned", val) = val
      /\ Readable("float", val) = (IF val = NaN THEN 0 ELSE val)
      /\ Readable("string", val) = Printable(val)
  BY <1>1, Zenon DEF Readable
<1>5. /\ Values("signed") = Int /\ Values("unsigned") = Nat
      /\ Values("float") = Int /\ Values("string") = Seq(Nat)
  BY <1>1, Zenon DEF Values
<1> QED BY <1>2, <1>3, <1>4, <1>5, Zenon

(* A value is read where its bytes lie.                                    *)
LEMMA ValueReads ==
  ASSUME NEW d \in Seq(Int), NEW kind \in Kinds \ {"invalid"}, NEW val \in Values(kind),
         kind = "signed" => IsInt64(val), NEW i, Holds(d, i, FlattenSeq(ValueChunks(kind, val)))
  PROVE  ReadValue(ValueType(kind), d, ReadVarint(d, i))
           = Item(Readable(kind, val), i + Len(FlattenSeq(ValueChunks(kind, val))))
<1> DEFINE bytes == FlattenSeq(ValueChunks(kind, val))
<1>0. VARINT \in {VARINT, LENGTH_DELIMITED} /\ VARINT \in Int /\ i \in Nat
  BY DEF VARINT, Holds
<1>1. CASE kind = "signed"
  <2>1. val \in Int /\ IsInt64(val)
    BY <1>1, KindCases, Zenon
  <2> DEFINE z == ZigZag(val)
  <2>2. z \in Nat /\ val = IF z % 2 = 0 THEN z \div 2 ELSE -((z + 1) \div 2)
    BY <2>1, ZigZagInverse
  <2>3. bytes = UnsignedVarint(VARINT, z)
    <3>1. bytes = FlattenSeq(VarintChunks(VARINT, z))
      BY <1>1, KindCases, Zenon
    <3> HIDE DEF z
    <3> QED BY <1>0, <2>2, <3>1, VarintBytes, Zenon
  <2> HIDE DEF z
  <2>4. ReadVarint(d, i) = Item(z, i + Len(bytes))
    <3>1. Holds(d, i, UnsignedVarint(VARINT, z))
      BY <2>3, Zenon
    <3>2. ReadVarint(d, i) = Item(z, i + Len(UnsignedVarint(VARINT, z)))
      BY <1>0, <2>2, <3>1, VarintReads, Zenon
    <3> QED BY <2>3, <3>2, Zenon
  <2>5. ReadValue(INT64, d, Item(z, i + Len(bytes)))
          = Item(IF z % 2 = 0 THEN z \div 2 ELSE -((z + 1) \div 2), i + Len(bytes))
    <3>1. Item(z, i + Len(bytes)).val = z /\ Item(z, i + Len(bytes)).next = i + Len(bytes)
      BY DEF Item
    <3> QED BY <3>1, ReadValueCases, ZenonT(60)
  <2>6. ValueType(kind) = INT64 /\ Readable(kind, val) = val
    BY <1>1, KindCases, Zenon
  <2> QED BY <2>2, <2>4, <2>5, <2>6, Zenon
<1>2. CASE kind = "unsigned"
  <2>1. val \in Nat
    BY <1>2, KindCases, Zenon
  <2>2. bytes = UnsignedVarint(VARINT, val)
    <3>1. bytes = FlattenSeq(VarintChunks(VARINT, val))
      BY <1>2, KindCases, Zenon
    <3> QED BY <1>0, <2>1, <3>1, VarintBytes, Zenon
  <2>3. ReadVarint(d, i) = Item(val, i + Len(bytes))
    BY <1>0, <2>1, <2>2, VarintReads, ZenonT(60)
  <2>4. ValueType(kind) = UINT64 /\ Readable(kind, val) = val
    BY <1>2, KindCases, Zenon
  <2> QED BY <2>3, <2>4, ReadValueCases, Zenon
<1>3. CASE kind = "float"
  <2> DEFINE x == IF val = NaN THEN 0 ELSE val
  <2>1. x \in Int
    <3>1. val \in Int
      BY <1>3, KindCases, Zenon
    <3> QED BY <3>1
  <2>2. bytes = FlattenSeq(FloatChunks(x)) /\ ValueType(kind) = FLOAT /\ Readable(kind, val) = x
    BY <1>3, KindCases, Zenon
  <2> HIDE DEF x
  <2>3. bytes = UnsignedVarint(LENGTH_DELIMITED, 1) \o <<x>>
    BY <2>1, <2>2, FloatBytes, Zenon
  <2>4. LENGTH_DELIMITED \in {VARINT, LENGTH_DELIMITED} /\ 1 \in Nat /\ <<x>> \in Seq(Int) /\ Len(<<x>>) = 1
    BY <2>1
  <2>5. PICK next \in Nat \ {0} :
          /\ ReadVarint(d, i) = Item(1, next)
          /\ next + Len(<<x>>) = i + Len(bytes)
          /\ Holds(d, next, <<x>>)
    <3>1. Holds(d, i, UnsignedVarint(LENGTH_DELIMITED, 1) \o <<x>>)
      BY <2>3, Zenon
    <3>2. \E next \in Nat \ {0} :
            /\ ReadVarint(d, i) = Item(1, next)
            /\ next + Len(<<x>>) = i + Len(UnsignedVarint(LENGTH_DELIMITED, 1) \o <<x>>)
            /\ Holds(d, next, <<x>>)
      BY <2>4, <3>1, VarintBefore, Zenon
    <3> QED BY <2>3, <3>2, Zenon
  <2>6. At(d, next) = x
    <3>1. <<x>> = <<x>> \o <<>> /\ <<>> \in Seq(Int)
      BY <2>1
    <3>2. Holds(d, next, <<x>> \o <<>>)
      BY <2>5, <3>1
    <3> QED BY <2>1, <3>1, <3>2, HoldsFirst
  <2>7. ReadValue(FLOAT, d, Item(1, next)) = Item(x, next + 1)
    <3>1. Item(1, next).val = 1 /\ Item(1, next).next = next
      BY DEF Item
    <3>2. \A v : ReadValue(FLOAT, d, v) = Item(At(d, v.next), v.next + v.val)
      BY ReadValueCases, Zenon
    <3> QED BY <2>6, <3>1, <3>2
  <2> QED BY <2>2, <2>4, <2>5, <2>7, Zenon
<1>4. CASE kind = "string"
  <2>1. val \in Seq(Nat)
    BY <1>4, KindCases, Zenon
  <2> DEFINE text == EscapeToRaw(val)
  <2>2. text \in Seq(Int)
    BY <2>1, EscapedTyped
  <2>3. bytes = FlattenSeq(StringChunks(text)) /\ ValueType(kind) = STRING_TYPE
        /\ Readable(kind, val) = Printable(val)
    BY <1>4, KindCases, Zenon
  <2>4. Unescape(text) = Printable(val)
    BY <2>1, EscapeInverse
  <2> HIDE DEF text
  <2>5. PICK next \in Nat \ {0} :
          /\ ReadVarint(d, i) = Item(Len(text), next)
          /\ next + Len(text) = i + Len(bytes)
          /\ Cells(d, next, Len(text)) = text
    <3>1. Holds(d, i, FlattenSeq(StringChunks(text)))
      BY <2>3, Zenon
    <3>2. \E next \in Nat \ {0} :
            /\ ReadVarint(d, i) = Item(Len(text), next)
            /\ next + Len(text) = i + Len(FlattenSeq(StringChunks(text)))
            /\ Cells(d, next, Len(text)) = text
      BY <2>2, <3>1, TextReads, Zenon
    <3> QED BY <2>3, <3>2, Zenon
  <2>6. ReadValue(STRING_TYPE, d, Item(Len(text), next)) = Item(Unescape(text), next + Len(text))
    <3>1. Item(Len(text), next).val = Len(text) /\ Item(Len(text), next).next = next
      BY DEF Item
    <3>2. \A v : ReadValue(STRING_TYPE, d, v)
                   = Item(Unescape(Cells(d, v.next, v.val)), v.next + v.val)
      BY ReadValueCases, Zenon
    <3> QED BY <2>5, <3>1, <3>2
  <2> QED BY <2>3, <2>4, <2>5, <2>6, Zenon
<1> QED BY <1>1, <1>2, <1>3, <1>4 DEF Kinds

(***************************************************************************)
(* Flattening twice is flattening the flattened parts.                     *)
(***************************************************************************)
Flats(parts) == [i \in 1..Len(parts) |-> FlattenSeq(parts[i])]

LEMMA FlatsAppend ==
  ASSUME NEW U, NEW V, \A u \in U : FlattenSeq(u) \in V, NEW parts \in Seq(U), NEW u \in U
  PROVE  /\ Flats(parts) \in Seq(V)
         /\ Flats(Append(parts, u)) = Append(Flats(parts), FlattenSeq(u))
<1> DEFINE s == Flats(parts)
           more == Append(parts, u)
           t == Append(s, FlattenSeq(u))
           n == Len(parts)
<1>1. n \in Nat /\ \A i \in 1..n : parts[i] \in U
  OBVIOUS
<1>2. more \in Seq(U) /\ Len(more) = n + 1 /\ more[n + 1] = u /\ \A i \in 1..n : more[i] = parts[i]
  OBVIOUS
<1>3. s \in Seq(V) /\ Len(s) = n /\ \A i \in 1..n : s[i] = FlattenSeq(parts[i])
  BY <1>1 DEF Flats
<1>4. FlattenSeq(u) \in V
  OBVIOUS
<1> HIDE DEF s
<1>5. t \in Seq(V) /\ Len(t) = n + 1 /\ t[n + 1] = FlattenSeq(u) /\ \A i \in 1..n : t[i] = s[i]
  BY <1>3, <1>4
<1> HIDE DEF t, more
<1>6. \A i \in 1..(n + 1) : t[i] = FlattenSeq(more[i])
  <2> SUFFICES ASSUME NEW i \in 1..(n + 1) PROVE t[i] = FlattenSeq(more[i])
    OBVIOUS
  <2>1. CASE i = n + 1
    BY <1>2, <1>5, <2>1
  <2>2. CASE i \in 1..n
    BY <1>2, <1>3, <1>5, <2>2
  <2> QED BY <1>1, <2>1, <2>2
<1>7. t = [i \in 1..(n + 1) |-> t[i]]
  BY <1>1, <1>5
<1>8. t = Flats(more)
  <2>1. [i \in 1..(n + 1) |-> t[i]] = [i \in 1..(n + 1) |-> FlattenSeq(more[i])]
    BY <1>6, Zenon
  <2>2. Flats(more) = [i \in 1..(n + 1) |-> FlattenSeq(more[i])]
    BY <1>2, Zenon DEF Flats
  <2> QED BY <1>7, <2>1, <2>2, Zenon
<1> QED BY <1>3, <1>8, Zenon DEF s, t, more

LEMMA LastOff ==
  ASSUME NEW V, NEW s \in Seq(V), NEW n \in Nat, Len(s) = n + 1
  PROVE  /\ SubSeq(s, 1, n) \in Seq(V) /\ Len(SubSeq(s, 1, n)) = n /\ s[n + 1] \in V
         /\ s = Append(SubSeq(s, 1, n), s[n + 1])
<1> DEFINE a == SubSeq(s, 1, n)
           t == Append(a, s[n + 1])
<1>1. a \in Seq(V) /\ Len(a) = n /\ (\A i \in 1..n : a[i] = s[i]) /\ s[n + 1] \in V
  OBVIOUS
<1> HIDE DEF a
<1>2. t \in Seq(V) /\ Len(t) = n + 1 /\ \A i \in 1..(n + 1) : t[i] = s[i]
  BY <1>1
<1> HIDE DEF t
<1>3. t = [i \in 1..(n + 1) |-> t[i]] /\ s = [i \in 1..(n + 1) |-> s[i]]
  BY <1>2
<1>4. s = t
  BY <1>2, <1>3
<1> QED BY <1>1, <1>4 DEF a, t

LEMMA FlattenTwice ==
  ASSUME NEW parts \in Seq(Seq(Seq(Int)))
  PROVE  /\ Flats(parts) \in Seq(Seq(Int))
         /\ FlattenSeq(FlattenSeq(parts)) = FlattenSeq(Flats(parts))
<1> DEFINE V == Seq(Int)
           U == Seq(V)
           P(s) == Flats(s) \in Seq(V) /\ FlattenSeq(FlattenSeq(s)) = FlattenSeq(Flats(s))
           K == {n \in Nat : \A s \in Seq(U) : Len(s) = n => P(s)}
<1>0. \A u \in U : FlattenSeq(u) \in V
  BY FlattenType
<1>00. parts \in Seq(U) /\ Len(parts) \in Nat
  OBVIOUS
<1>1. P(<<>>)
  <2>1. Flats(<<>>) = <<>>
    BY DEF Flats
  <2> HIDE DEF V
  <2>2. <<>> \in Seq(V)
    OBVIOUS
  <2>3. FlattenSeq(<<>>) = <<>>
    BY FlattenEmpty
  <2> QED BY <2>1, <2>2, <2>3, Zenon
<1>2. ASSUME NEW a \in Seq(U), NEW u \in U, P(a) PROVE P(Append(a, u))
  <2>1. Flats(a) \in Seq(V) /\ Flats(Append(a, u)) = Append(Flats(a), FlattenSeq(u))
    BY <1>0, FlatsAppend, Zenon
  <2>2. FlattenSeq(Append(a, u)) = FlattenSeq(a) \o u
    BY FlattenAppend, Zenon
  <2>3. FlattenSeq(a) \in U
    BY FlattenType, Zenon
  <2>4. FlattenSeq(FlattenSeq(a) \o u) = FlattenSeq(FlattenSeq(a)) \o FlattenSeq(u)
    BY <2>3, FlattenConcat, Zenon
  <2>5. FlattenSeq(u) \in V
    BY <1>0
  <2>6. FlattenSeq(Append(Flats(a), FlattenSeq(u))) = FlattenSeq(Flats(a)) \o FlattenSeq(u)
    BY <2>1, <2>5, FlattenAppend, Zenon
  <2>7. Append(Flats(a), FlattenSeq(u)) \in Seq(V)
    <3> HIDE DEF V
    <3> QED BY <2>1, <2>5
  <2>8. FlattenSeq(FlattenSeq(a)) = FlattenSeq(Flats(a))
    BY <1>2, Zenon
  <2>9. FlattenSeq(FlattenSeq(Append(a, u))) = FlattenSeq(Flats(Append(a, u)))
    BY <2>1, <2>2, <2>4, <2>6, <2>8, Zenon
  <2> QED BY <2>1, <2>7, <2>9, Zenon
<1>3. K = Nat
  <2> HIDE DEF P, U
  <2>1. K \in SUBSET Nat
    OBVIOUS
  <2>2. 0 \in K
    <3>1. \A s \in Seq(U) : Len(s) = 0 => s = <<>>
      OBVIOUS
    <3> QED BY <1>1, <3>1
  <2>3. ASSUME NEW n \in K PROVE n + 1 \in K
    <3>1. n \in Nat /\ \A s \in Seq(U) : Len(s) = n => P(s)
      OBVIOUS
    <3>2. ASSUME NEW s \in Seq(U), Len(s) = n + 1 PROVE P(s)
      <4>1. /\ SubSeq(s, 1, n) \in Seq(U) /\ Len(SubSeq(s, 1, n)) = n /\ s[n + 1] \in U
            /\ s = Append(SubSeq(s, 1, n), s[n + 1])
        BY <3>1, <3>2, LastOff
      <4>2. P(SubSeq(s, 1, n))
        BY <3>1, <4>1, Zenon
      <4>3. P(Append(SubSeq(s, 1, n), s[n + 1]))
        BY <1>2, <4>1, <4>2, Zenon
      <4> QED BY <4>1, <4>3, Zenon
    <3> QED BY <3>1, <3>2
  <2> HIDE DEF K
  <2> QED BY <2>1, <2>2, <2>3, SetInduction
<1>4. P(parts)
  <2> HIDE DEF P, U
  <2> QED BY <1>00, <1>3
<1> QED BY <1>4, Zenon

(***************************************************************************)
(* The values of a parameter are read one after the other.                 *)
(***************************************************************************)
ChunksOf(kind, vals) == [i \in 1..Len(vals) |-> ValueChunks(kind, vals[i])]
ReadableOf(kind, vals) == [i \in 1..Len(vals) |-> Readable(kind, vals[i])]
InWidth(kind, vals) == kind = "signed" => \A i \in 1..Len(vals) : IsInt64(vals[i])

LEMMA ChunksTyped ==
  ASSUME NEW kind \in Kinds \ {"invalid"}, NEW vals \in Seq(Values(kind))
  PROVE  /\ ChunksOf(kind, vals) \in Seq(Seq(Seq(Int)))
         /\ Len(ChunksOf(kind, vals)) = Len(vals)
<1> DEFINE U == Seq(Seq(Int))
<1>1. Len(vals) \in Nat /\ \A i \in 1..Len(vals) : vals[i] \in Values(kind)
  OBVIOUS
<1>2. \A i \in 1..Len(vals) : ValueChunks(kind, vals[i]) \in U
  BY <1>1, ValueTyped, Zenon
<1> HIDE DEF U
<1>3. ChunksOf(kind, vals) \in Seq(U) /\ Len(ChunksOf(kind, vals)) = Len(vals)
  BY <1>1, <1>2 DEF ChunksOf
<1> QED BY <1>3, Zenon DEF U

LEMMA ValuesRead ==
  ASSUME NEW d \in Seq(Int), NEW kind \in Kinds \ {"invalid"}, NEW vals \in Seq(Values(kind)),
         InWidth(kind, vals), NEW start,
         Holds(d, start, FlattenSeq(FlattenSeq(ChunksOf(kind, vals))))
  PROVE  ReadValues(Len(vals), ValueType(kind), d, start)
           = Item(ReadableOf(kind, vals),
                  start + Len(FlattenSeq(FlattenSeq(ChunksOf(kind, vals)))))
<1> DEFINE type == ValueType(kind)
           n == Len(vals)
           blocks == Flats(ChunksOf(kind, vals))
           read == ReadableOf(kind, vals)
           g == ReadingValues(type, d, start)
           bytes == FlattenSeq(FlattenSeq(ChunksOf(kind, vals)))
<1>1. n \in Nat /\ \A i \in 1..n : vals[i] \in Values(kind)
  OBVIOUS
<1>2. start \in Int
  BY DEF Holds
<1>3. blocks \in Seq(Seq(Int)) /\ bytes = FlattenSeq(blocks)
  BY ChunksTyped, FlattenTwice, Zenon
<1>4. Len(blocks) = n /\ \A i \in 1..n : blocks[i] = FlattenSeq(ValueChunks(kind, vals[i]))
  <2>1. Len(ChunksOf(kind, vals)) = n
    BY ChunksTyped, Zenon
  <2>2. blocks = [i \in 1..n |-> FlattenSeq(ChunksOf(kind, vals)[i])]
    BY <2>1, Zenon DEF Flats
  <2>3. \A i \in 1..n : ChunksOf(kind, vals)[i] = ValueChunks(kind, vals[i])
    BY DEF ChunksOf
  <2>4. DOMAIN blocks = 1..n /\ \A i \in 1..n : blocks[i] = FlattenSeq(ChunksOf(kind, vals)[i])
    BY <2>2, Zenon
  <2>5. Len(blocks) = n
    <3> HIDE DEF blocks
    <3> QED BY <1>1, <1>3, <2>4
  <2> QED BY <2>3, <2>4, <2>5, Zenon
<1>5. \A i \in 1..n : read[i] = Readable(kind, vals[i])
  BY DEF ReadableOf
<1>6. g[0] = Item(<<>>, start) /\ \A k \in Nat : g[k + 1] = OneValue(type, d, g[k])
  BY <1>2, ValuesUnfold, ZenonT(60)
<1>7. ReadValues(n, type, d, start) = g[n]
  BY <1>1, <1>2, ValuesUnfold, ZenonT(60)
<1> HIDE DEF blocks, g
<1>8. ReadsBlocks(d, blocks, read, g)
  <2> SUFFICES ASSUME NEW k \in 0..(n - 1), Holds(d, g[k].next, blocks[k + 1])
               PROVE  g[k + 1] = Add(g[k], Item(read[k + 1], g[k].next + Len(blocks[k + 1])))
    BY <1>4 DEF ReadsBlocks
  <2>1. k \in Nat /\ k + 1 \in 1..n
    BY <1>1
  <2> DEFINE val == vals[k + 1]
             at == g[k].next
  <2>2. val \in Values(kind) /\ blocks[k + 1] = FlattenSeq(ValueChunks(kind, val))
        /\ read[k + 1] = Readable(kind, val)
    BY <1>1, <1>4, <1>5, <2>1, Zenon
  <2>3. kind = "signed" => IsInt64(val)
    BY <2>1, Zenon DEF InWidth
  <2>4. Holds(d, at, FlattenSeq(ValueChunks(kind, val)))
    BY <2>2, Zenon
  <2> HIDE DEF val, at
  <2>5. ReadValue(type, d, ReadVarint(d, at))
          = Item(Readable(kind, val), at + Len(FlattenSeq(ValueChunks(kind, val))))
    BY <2>2, <2>3, <2>4, ValueReads, Zenon
  <2>6. ReadValue(type, d, ReadVarint(d, at)) = Item(read[k + 1], at + Len(blocks[k + 1]))
    BY <2>2, <2>5, Zenon
  <2> QED BY <1>6, <2>1, <2>6, Zenon DEF OneValue, at
<1>9. g[n] = Item(UpTo(read, n), start + Len(bytes))
  <2>1. Holds(d, start, FlattenSeq(blocks))
    BY <1>3, Zenon
  <2> HIDE DEF read, bytes
  <2>2. g[Len(blocks)] = Item(UpTo(read, Len(blocks)), start + Len(FlattenSeq(blocks)))
    BY <1>3, <1>6, <1>8, <2>1, InOrder, Zenon
  <2> QED BY <1>3, <1>4, <2>2, Zenon
<1>10. UpTo(read, n) = read
  BY <1>5, Zenon DEF UpTo, ReadableOf
<1> QED BY <1>7, <1>9, <1>10, Zenon

(***************************************************************************)
(* A parameter: its key, its type, the number of its values, the values.   *)
(***************************************************************************)
KindOf(p) == IF KeptValues(p) = <<>> THEN "signed" ELSE p.kind

TypeByte(p) == (IF p.isArray THEN 1 ELSE 0) + 2 * ValueType(KindOf(p))

CountBytes(p) ==
  IF p.isArray THEN UnsignedVarint(LENGTH_DELIMITED, Len(KeptValues(p))) ELSE <<>>

ValueBytes(p) == FlattenSeq(FlattenSeq(ChunksOf(KindOf(p), KeptValues(p))))

(* The values that are kept, with the kind the encoder gives them.         *)
LEMMA KindTyped ==
  ASSUME NEW p \in Acceptable
  PROVE  /\ p.kind \in Kinds \ {"invalid"} /\ KindOf(p) \in Kinds \ {"invalid"}
         /\ KeptValues(p) \in Seq(Values(KindOf(p)))
         /\ Len(KeptValues(p)) \in Nat
         /\ InWidth(KindOf(p), KeptValues(p))
         /\ ~p.isArray => Len(KeptValues(p)) = 1
         /\ p.isArray \in BOOLEAN
         /\ p.key \in Seq(Int)
<1>1. p \in Params /\ ~IsInvalid(p)
  BY DEF Acceptable
<1>2. /\ p.kind \in Kinds \ {"invalid"} /\ p.isArray \in BOOLEAN
      /\ p.key \in Seq(Nat) /\ p.vals \in Seq(Values(p.kind))
      /\ p.isArray \/ Len(p.vals) = 1
      /\ p.kind = "signed" => \A i \in 1..Len(p.vals) : IsInt64(p.vals[i])
  BY <1>1, WriterAssumption DEF IsInvalid
<1>3. KindOf(p) \in Kinds \ {"invalid"}
  <2>1. "signed" \in Kinds \ {"invalid"}
    BY DEF Kinds
  <2> QED BY <1>2, <2>1 DEF KindOf
<1>4. KeptValues(p) \in Seq(Values(p.kind)) /\ Len(KeptValues(p)) <= Len(p.vals)
  BY <1>1, KeptTyped
<1>5. KeptValues(p) \in Seq(Values(KindOf(p)))
  <2>1. CASE KeptValues(p) = <<>>
    BY <2>1
  <2>2. CASE KeptValues(p) # <<>>
    BY <1>4, <2>2 DEF KindOf
  <2> QED BY <2>1, <2>2
<1>6. Len(KeptValues(p)) \in Nat
  BY <1>4
<1>7. \A i \in 1..Len(KeptValues(p)) : i \in 1..Len(p.vals) /\ KeptValues(p)[i] = p.vals[i]
  <2>1. MAX_ARRAY_SIZE \in Nat
    BY WriterAssumption
  <2> QED BY <1>2, <2>1 DEF KeptValues
<1>8. InWidth(KindOf(p), KeptValues(p))
  <2>1. CASE KeptValues(p) = <<>>
    BY <2>1 DEF InWidth
  <2>2. CASE KeptValues(p) # <<>>
    <3>1. KindOf(p) = p.kind
      BY <2>2 DEF KindOf
    <3> QED BY <1>2, <1>7, <3>1, Zenon DEF InWidth
  <2> QED BY <2>1, <2>2
<1>9. ~p.isArray => Len(KeptValues(p)) = 1
  BY <1>2 DEF KeptValues
<1>10. p.key \in Seq(Int)
  BY <1>2
<1> QED BY <1>2, <1>3, <1>5, <1>6, <1>8, <1>9, <1>10

(* What the reader should find of the parameter, said with them.           *)
LEMMA ExpectedIs ==
  ASSUME NEW p \in Acceptable
  PROVE  Expected(p) = [key |-> p.key, isArray |-> p.isArray, type |-> ValueType(KindOf(p)),
                        vals |-> ReadableOf(KindOf(p), KeptValues(p))]
<1> DEFINE n == IF Len(p.vals) > MAX_ARRAY_SIZE /\ p.isArray THEN MAX_ARRAY_SIZE ELSE Len(p.vals)
           kept2 == KeptValues(p)
<1>1. p.vals \in Seq(Values(p.kind)) /\ MAX_ARRAY_SIZE \in Nat
  BY WriterAssumption DEF Acceptable
<1>2. Len(kept2) = n /\ n \in Nat /\ \A i \in 1..n : kept2[i] = p.vals[i]
  BY <1>1 DEF KeptValues
<1>3. n = 0 <=> kept2 = <<>>
  <2>1. kept2 \in Seq(Values(p.kind))
    BY KeptTyped DEF Acceptable
  <2> HIDE DEF kept2, n
  <2> QED BY <1>2, <2>1
<1>4. Expected(p) = [key |-> p.key, isArray |-> p.isArray,
                     type |-> IF n = 0 THEN INT64 ELSE ValueType(p.kind),
                     vals |-> [i \in 1..n |-> Readable(p.kind, p.vals[i])]]
  BY Zenon DEF Expected
<1> HIDE DEF n, kept2
<1>5. (IF n = 0 THEN INT64 ELSE ValueType(p.kind)) = ValueType(KindOf(p))
  BY <1>3, KindCases, Zenon DEF KindOf, kept2
<1>6. [i \in 1..n |-> Readable(p.kind, p.vals[i])] = ReadableOf(KindOf(p), KeptValues(p))
  <2>1. CASE n = 0
    <3>1. 1..n = {} /\ 1..Len(kept2) = {}
      BY <1>2, <2>1
    <3> QED BY <3>1 DEF ReadableOf, kept2
  <2>2. CASE n # 0
    <3>1. KindOf(p) = p.kind
      BY <1>3, <2>2, Zenon DEF KindOf, kept2
    <3>2. ReadableOf(p.kind, kept2) = [i \in 1..n |-> Readable(p.kind, kept2[i])]
      BY <1>2, Zenon DEF ReadableOf
    <3>3. [i \in 1..n |-> Readable(p.kind, kept2[i])] = [i \in 1..n |-> Readable(p.kind, p.vals[i])]
      BY <1>2, Zenon
    <3> QED BY <3>1, <3>2, <3>3, Zenon DEF kept2
  <2> QED BY <2>1, <2>2
<1> QED BY <1>4, <1>5, <1>6, Zenon

(* The bytes of a parameter.                                               *)
LEMMA ParamBytes ==
  ASSUME NEW p \in Acceptable
  PROVE  /\ FlattenSeq(StringChunks(p.key)) \in Seq(Int) /\ TypeByte(p) \in Int
         /\ CountBytes(p) \in Seq(Int) /\ ValueBytes(p) \in Seq(Int)
         /\ FlattenSeq(ParamChunks(p))
              = FlattenSeq(StringChunks(p.key)) \o (<<TypeByte(p)>> \o (CountBytes(p) \o ValueBytes(p)))
<1> DEFINE vals == KeptValues(p)
           kind == KindOf(p)
           a == StringChunks(p.key)
           b == TypeChunks(p.isArray, ValueType(kind))
           c == IF p.isArray THEN VarintChunks(LENGTH_DELIMITED, Len(vals)) ELSE <<>>
           z == FlattenSeq(ChunksOf(kind, vals))
<1>1. ParamChunks(p) = ((a \o b) \o c) \o z
  BY Zenon DEF ParamChunks, KindOf, ChunksOf
<1>2. /\ kind \in Kinds \ {"invalid"} /\ vals \in Seq(Values(kind)) /\ Len(vals) \in Nat
      /\ p.key \in Seq(Int)
  BY KindTyped, Zenon
<1>3. a \in Seq(Seq(Int))
  BY <1>2, StringTyped, Zenon
<1>4. TypeByte(p) \in Int
  <2>1. ValueType(kind) \in Int
    <3> HIDE DEF kind
    <3>1. INT64 \in Int /\ UINT64 \in Int /\ FLOAT \in Int /\ STRING_TYPE \in Int
      BY DEF INT64, UINT64, FLOAT, STRING_TYPE
    <3>2. kind = "signed" \/ kind = "unsigned" \/ kind = "float" \/ kind = "string"
      BY <1>2 DEF Kinds
    <3> QED BY <3>1, <3>2, KindCases, Zenon
  <2> QED BY <2>1 DEF TypeByte
<1>5. b \in Seq(Seq(Int)) /\ FlattenSeq(b) = <<TypeByte(p)>>
  <2>1. b = <<<<TypeByte(p)>>>>
    BY Zenon DEF TypeChunks, TypeByte
  <2> DEFINE x == <<TypeByte(p)>>
             V == Seq(Int)
  <2>2. x \in V /\ <<>> \o x = x
    BY <1>4, OneCell
  <2> HIDE DEF x, V
  <2>3. <<x>> = Append(<<>>, x) /\ <<x>> \in Seq(V) /\ <<>> \in Seq(V)
    BY <2>2
  <2>4. FlattenSeq(Append(<<>>, x)) = FlattenSeq(<<>>) \o x
    BY <2>2, <2>3, FlattenAppend, Zenon DEF V
  <2>5. FlattenSeq(<<x>>) = x
    BY <2>2, <2>3, <2>4, FlattenEmpty, Zenon
  <2> QED BY <2>1, <2>3, <2>5, Zenon DEF x, V
<1>6. c \in Seq(Seq(Int)) /\ FlattenSeq(c) = CountBytes(p) /\ CountBytes(p) \in Seq(Int)
  <2>1. CASE p.isArray
    <3>1. c = VarintChunks(LENGTH_DELIMITED, Len(vals))
          /\ CountBytes(p) = UnsignedVarint(LENGTH_DELIMITED, Len(vals))
      BY <2>1, Zenon DEF CountBytes
    <3>2. LENGTH_DELIMITED \in Int
      BY DEF LENGTH_DELIMITED
    <3> QED BY <1>2, <3>1, <3>2, VarintTyped, VarintBytes, Zenon
  <2>2. CASE ~p.isArray
    <3>1. c = <<>> /\ CountBytes(p) = <<>>
      BY <2>2, Zenon DEF CountBytes
    <3>2. <<>> \in Seq(Seq(Int)) /\ <<>> \in Seq(Int)
      OBVIOUS
    <3> QED BY <3>1, <3>2, FlattenEmpty, Zenon
  <2> QED BY <2>1, <2>2
<1>7. z \in Seq(Seq(Int)) /\ ValueBytes(p) \in Seq(Int) /\ FlattenSeq(z) = ValueBytes(p)
  <2>1. ChunksOf(kind, vals) \in Seq(Seq(Seq(Int)))
    BY <1>2, ChunksTyped, Zenon
  <2>2. z \in Seq(Seq(Int))
    BY <2>1, FlattenType, Zenon
  <2>3. FlattenSeq(z) \in Seq(Int)
    BY <2>2, FlattenType, Zenon
  <2> QED BY <2>2, <2>3, Zenon DEF ValueBytes
<1> HIDE DEF a, b, c, z
<1>8. /\ a \o b \in Seq(Seq(Int)) /\ (a \o b) \o c \in Seq(Seq(Int))
      /\ FlattenSeq(((a \o b) \o c) \o z)
           = ((FlattenSeq(a) \o FlattenSeq(b)) \o FlattenSeq(c)) \o FlattenSeq(z)
  <2>1. a \o b \in Seq(Seq(Int)) /\ FlattenSeq(a \o b) = FlattenSeq(a) \o FlattenSeq(b)
    BY <1>3, <1>5, JoinedSeqs, FlattenConcat, Zenon
  <2>2. (a \o b) \o c \in Seq(Seq(Int)) /\ FlattenSeq((a \o b) \o c) = FlattenSeq(a \o b) \o FlattenSeq(c)
    BY <1>6, <2>1, JoinedSeqs, FlattenConcat, Zenon
  <2>3. FlattenSeq(((a \o b) \o c) \o z) = FlattenSeq((a \o b) \o c) \o FlattenSeq(z)
    BY <1>7, <2>2, FlattenConcat, Zenon
  <2> QED BY <2>1, <2>2, <2>3, Zenon
<1>9. FlattenSeq(a) \in Seq(Int) /\ FlattenSeq(b) \in Seq(Int) /\ FlattenSeq(c) \in Seq(Int)
      /\ FlattenSeq(z) \in Seq(Int)
  BY <1>3, <1>5, <1>6, <1>7, FlattenType, Zenon
<1>10. FlattenSeq(((a \o b) \o c) \o z)
         = FlattenSeq(a) \o (FlattenSeq(b) \o (FlattenSeq(c) \o FlattenSeq(z)))
  <2> DEFINE u == FlattenSeq(a)
             v == FlattenSeq(b)
             w == FlattenSeq(c)
             x == FlattenSeq(z)
  <2>0. u \in Seq(Int) /\ v \in Seq(Int) /\ w \in Seq(Int) /\ x \in Seq(Int)
    BY <1>9
  <2> HIDE DEF u, v, w, x
  <2>1. InFourParts(u, v, w, x)
    BY <2>0, FourParts, Zenon
  <2>2. ((u \o v) \o w) \o x = u \o (v \o (w \o x))
    BY <2>1, Zenon DEF InFourParts
  <2> QED BY <1>8, <2>2, Zenon DEF u, v, w, x
<1> QED BY <1>1, <1>4, <1>5, <1>6, <1>7, <1>9, <1>10, Zenon DEF a

(* The two parts of the byte with the type.                                *)
LEMMA TypeByteParts ==
  ASSUME NEW p \in Acceptable
  PROVE  /\ TypeByte(p) % 2 = 1 <=> p.isArray
         /\ TypeByte(p) \div 2 = ValueType(KindOf(p))
<1> DEFINE t == ValueType(KindOf(p))
<1>1. t \in Nat
  <2>1. INT64 \in Nat /\ UINT64 \in Nat /\ FLOAT \in Nat /\ STRING_TYPE \in Nat
    BY DEF INT64, UINT64, FLOAT, STRING_TYPE
  <2>2. KindOf(p) \in Kinds \ {"invalid"}
    BY KindTyped, Zenon
  <2>3. KindOf(p) = "signed" \/ KindOf(p) = "unsigned" \/ KindOf(p) = "float" \/ KindOf(p) = "string"
    BY <2>2 DEF Kinds
  <2> QED BY <2>1, <2>3, KindCases, Zenon
<1>2. TypeByte(p) = (IF p.isArray THEN 1 ELSE 0) + 2 * t
  BY Zenon DEF TypeByte
<1> HIDE DEF t
<1>3. CASE p.isArray
  BY <1>1, <1>2, <1>3 DEF t
<1>4. CASE ~p.isArray
  BY <1>1, <1>2, <1>4 DEF t
<1> QED BY <1>3, <1>4

(* A parameter is read where its bytes lie.                                *)
LEMMA ParamReads ==
  ASSUME NEW d \in Seq(Int), NEW p \in Acceptable, NEW i, Holds(d, i, FlattenSeq(ParamChunks(p)))
  PROVE  ReadTyped(d, ReadKey(d, ReadVarint(d, i)))
           = Item(Expected(p), i + Len(FlattenSeq(ParamChunks(p))))
<1> DEFINE key == p.key
           name == FlattenSeq(StringChunks(key))
           count == CountBytes(p)
           values == ValueBytes(p)
           rest == <<TypeByte(p)>> \o (count \o values)
           bytes == FlattenSeq(ParamChunks(p))
           vals == KeptValues(p)
           kind == KindOf(p)
           type == ValueType(kind)
           at == i + Len(name)
           end == i + Len(bytes)
<1>1. /\ name \in Seq(Int) /\ TypeByte(p) \in Int /\ count \in Seq(Int) /\ values \in Seq(Int)
      /\ bytes = name \o rest
  BY ParamBytes, Zenon
<1>2. /\ kind \in Kinds \ {"invalid"} /\ vals \in Seq(Values(kind)) /\ Len(vals) \in Nat
      /\ InWidth(kind, vals) /\ (~p.isArray => Len(vals) = 1) /\ key \in Seq(Int)
      /\ p.isArray \in BOOLEAN
  BY KindTyped, Zenon
<1>3. count \o values \in Seq(Int) /\ rest \in Seq(Int) /\ <<TypeByte(p)>> \in Seq(Int)
  <2>1. count \o values \in Seq(Int)
    BY <1>1, JoinedSeqs, Zenon
  <2>2. <<TypeByte(p)>> \in Seq(Int)
    BY <1>1, OneCell
  <2> QED BY <2>1, <2>2, JoinedSeqs, Zenon
<1>4. i \in Nat /\ Len(name) \in Nat /\ at \in Nat /\ Len(values) \in Nat /\ Len(count \o values) \in Nat
  <2>1. i \in Nat
    BY DEF Holds
  <2> HIDE DEF name, count, values
  <2> QED BY <1>1, <1>3, <2>1
<1>5. end = (at + 1) + Len(count \o values)
  <2> DEFINE tail == count \o values
             one == <<TypeByte(p)>>
  <2>0. tail \in Seq(Int) /\ one \in Seq(Int) /\ Len(one) = 1 /\ rest = one \o tail
    BY <1>3
  <2> HIDE DEF tail, one, name, rest, bytes
  <2>1. Len(one \o tail) = 1 + Len(tail) /\ Len(tail) \in Nat
    <3>1. Len(one \o tail) = Len(one) + Len(tail)
      BY <2>0, JoinedCells, Zenon
    <3>2. Len(tail) \in Nat
      BY <2>0
    <3> QED BY <2>0, <3>1, <3>2, Zenon
  <2>2. Len(bytes) = Len(name) + Len(rest) /\ Len(rest) \in Nat
    BY <1>1, <1>3, JoinedCells
  <2>3. end = i + (Len(name) + (1 + Len(tail)))
    BY <2>0, <2>1, <2>2
  <2>4. i + (Len(name) + (1 + Len(tail))) = (at + 1) + Len(tail)
    BY <1>4, <2>1
  <2> QED BY <2>3, <2>4 DEF tail
<1>6. Holds(d, i, name) /\ Holds(d, at, rest)
  <2>1. Holds(d, i, name \o rest)
    BY <1>1, Zenon
  <2> QED BY <1>1, <1>3, <2>1, HoldsParts, Zenon
<1>7. ReadKey(d, ReadVarint(d, i)) = Item(key, at)
  <2>1. PICK next \in Nat \ {0} :
          /\ ReadVarint(d, i) = Item(Len(key), next)
          /\ next + Len(key) = at
          /\ Cells(d, next, Len(key)) = key
    <3>1. key \in Seq(Int) /\ Holds(d, i, FlattenSeq(StringChunks(key)))
      BY <1>2, <1>6, Zenon
    <3> HIDE DEF key
    <3> QED BY <3>1, TextReads
  <2>2. Item(Len(key), next).val = Len(key) /\ Item(Len(key), next).next = next
    BY DEF Item
  <2> HIDE DEF key, at
  <2> QED BY <2>1, <2>2 DEF ReadKey
<1>8. At(d, at) = TypeByte(p) /\ Holds(d, at + 1, count \o values)
  BY <1>1, <1>3, <1>6, HoldsFirst, Zenon
<1>9. At(d, at) \div 2 = type /\ (At(d, at) % 2 = 1 <=> p.isArray)
  BY <1>8, TypeByteParts, Zenon
<1> DEFINE read == IF p.isArray THEN ReadArray(type, d, ReadVarint(d, at + 1))
                                ELSE ReadValues(1, type, d, at + 1)
           found == ReadableOf(kind, vals)
<1>10. read = Item(found, end)
  <2>1. CASE p.isArray
    <3>1. count = UnsignedVarint(LENGTH_DELIMITED, Len(vals))
      BY <2>1, Zenon DEF CountBytes
    <3>2. PICK next \in Nat \ {0} :
            /\ ReadVarint(d, at + 1) = Item(Len(vals), next)
            /\ next + Len(values) = (at + 1) + Len(count \o values)
            /\ Holds(d, next, values)
      <4>1. LENGTH_DELIMITED \in {VARINT, LENGTH_DELIMITED}
        OBVIOUS
      <4>2. Holds(d, at + 1, UnsignedVarint(LENGTH_DELIMITED, Len(vals)) \o values)
        BY <1>8, <3>1, Zenon
      <4> HIDE DEF values, vals, at
      <4>3. \E next \in Nat \ {0} :
              /\ ReadVarint(d, at + 1) = Item(Len(vals), next)
              /\ next + Len(values)
                   = (at + 1) + Len(UnsignedVarint(LENGTH_DELIMITED, Len(vals)) \o values)
              /\ Holds(d, next, values)
        BY <1>1, <1>2, <4>1, <4>2, VarintBefore, Zenon
      <4> QED BY <3>1, <4>3, Zenon
    <3>3. ReadValues(Len(vals), type, d, next) = Item(found, next + Len(values))
      <4>1. Holds(d, next, FlattenSeq(FlattenSeq(ChunksOf(kind, vals))))
        BY <3>2, Zenon DEF ValueBytes
      <4>2. ReadValues(Len(vals), type, d, next)
              = Item(found, next + Len(FlattenSeq(FlattenSeq(ChunksOf(kind, vals)))))
        BY <1>2, <4>1, ValuesRead, Zenon
      <4> QED BY <4>2, Zenon DEF ValueBytes
    <3>4. ReadArray(type, d, Item(Len(vals), next)) = ReadValues(Len(vals), type, d, next)
      BY DEF ReadArray, Item
    <3> HIDE DEF end, found, type, values, vals, count
    <3> QED BY <1>5, <2>1, <3>2, <3>3, <3>4, Zenon
  <2>2. CASE ~p.isArray
    <3>1. count = <<>> /\ Len(vals) = 1
      BY <1>2, <2>2, Zenon DEF CountBytes
    <3>2. count \o values = values
      <4> HIDE DEF count, values
      <4> QED BY <1>1, <3>1
    <3>3. Holds(d, at + 1, FlattenSeq(FlattenSeq(ChunksOf(kind, vals))))
      BY <1>8, <3>2, Zenon DEF ValueBytes
    <3>4. ReadValues(Len(vals), type, d, at + 1)
            = Item(found, (at + 1) + Len(FlattenSeq(FlattenSeq(ChunksOf(kind, vals)))))
      BY <1>2, <3>3, ValuesRead, Zenon
    <3>5. ReadValues(Len(vals), type, d, at + 1) = Item(found, end)
      BY <1>5, <3>2, <3>4, Zenon DEF ValueBytes
    <3> HIDE DEF end, found, type, vals
    <3> QED BY <2>2, <3>1, <3>5, Zenon
  <2> QED BY <2>1, <2>2
<1>11. ReadTyped(d, Item(key, at))
         = Item([key |-> key, isArray |-> p.isArray, type |-> type, vals |-> found], end)
  <2>1. Item(key, at).val = key /\ Item(key, at).next = at
    BY DEF Item
  <2>2. Item(found, end).val = found /\ Item(found, end).next = end
    BY DEF Item
  <2>3. (At(d, at) % 2 = 1) = p.isArray
    BY <1>2, <1>9
  <2> DEFINE isArray == At(d, at) % 2 = 1
             lists == IF isArray THEN ReadArray(At(d, at) \div 2, d, ReadVarint(d, at + 1))
                                 ELSE ReadValues(1, At(d, at) \div 2, d, at + 1)
  <2>4. ReadTyped(d, Item(key, at))
          = Item([key |-> key, isArray |-> isArray, type |-> At(d, at) \div 2, vals |-> lists.val],
                 lists.next)
    BY <2>1, Zenon DEF ReadTyped
  <2>5. lists = read
    BY <1>9, <2>3, Zenon
  <2>6. lists.val = found /\ lists.next = end
    BY <1>10, <2>2, <2>5, Zenon
  <2> HIDE DEF lists, found, end, type
  <2> QED BY <1>9, <2>3, <2>4, <2>6
<1>12. Expected(p) = [key |-> key, isArray |-> p.isArray, type |-> type, vals |-> found]
  BY ExpectedIs, Zenon
<1> HIDE DEF key, at, end, found, type
<1> QED BY <1>7, <1>11, <1>12, Zenon DEF end

(* The parameters are read one after the other.                            *)
LEMMA BodyReads ==
  ASSUME NEW d \in Seq(Int), NEW params \in Seq(Acceptable), NEW start, Holds(d, start, Body(params))
  PROVE  ReadParams(Len(params), d, start)
           = Item([i \in 1..Len(params) |-> Expected(params[i])], start + Len(Body(params)))
<1> DEFINE n == Len(params)
           blocks == [i \in 1..n |-> FlattenSeq(ParamChunks(params[i]))]
           read == [i \in 1..n |-> Expected(params[i])]
           g == ReadingParams(d, start)
<1>1. n \in Nat /\ \A i \in 1..n : params[i] \in Acceptable
  OBVIOUS
<1>2. start \in Int
  BY DEF Holds
<1>3. Body(params) = FlattenSeq(blocks)
  BY Zenon DEF Body
<1>4. blocks \in Seq(Seq(Int)) /\ Len(blocks) = n
  <2> DEFINE V == Seq(Int)
  <2>1. \A i \in 1..n : FlattenSeq(ParamChunks(params[i])) \in V
    BY <1>1, BytesTyped, Zenon
  <2> HIDE DEF V
  <2>2. blocks \in Seq(V) /\ Len(blocks) = n
    BY <1>1, <2>1
  <2> QED BY <2>2, Zenon DEF V
<1>5. \A i \in 1..n : blocks[i] = FlattenSeq(ParamChunks(params[i])) /\ read[i] = Expected(params[i])
  OBVIOUS
<1>6. g[0] = Item(<<>>, start) /\ \A k \in Nat : g[k + 1] = OneParam(d, g[k])
  BY <1>2, ParamsUnfold, Zenon
<1>7. ReadParams(n, d, start) = g[n]
  BY <1>1, <1>2, ParamsUnfold, Zenon
<1>8. UpTo(read, n) = read
  BY Zenon DEF UpTo
<1> HIDE DEF blocks, g, read
<1>9. ReadsBlocks(d, blocks, read, g)
  <2> SUFFICES ASSUME NEW k \in 0..(n - 1), Holds(d, g[k].next, blocks[k + 1])
               PROVE  g[k + 1] = Add(g[k], Item(read[k + 1], g[k].next + Len(blocks[k + 1])))
    BY <1>4 DEF ReadsBlocks
  <2>1. k \in Nat /\ k + 1 \in 1..n
    BY <1>1
  <2> DEFINE p == params[k + 1]
             at == g[k].next
  <2>2. p \in Acceptable /\ blocks[k + 1] = FlattenSeq(ParamChunks(p)) /\ read[k + 1] = Expected(p)
    BY <1>1, <1>5, <2>1, Zenon
  <2>3. Holds(d, at, FlattenSeq(ParamChunks(p)))
    BY <2>2, Zenon
  <2> HIDE DEF p, at
  <2>4. ReadTyped(d, ReadKey(d, ReadVarint(d, at)))
          = Item(Expected(p), at + Len(FlattenSeq(ParamChunks(p))))
    BY <2>2, <2>3, ParamReads, Zenon
  <2>5. ReadTyped(d, ReadKey(d, ReadVarint(d, at))) = Item(read[k + 1], at + Len(blocks[k + 1]))
    BY <2>2, <2>4, Zenon
  <2> QED BY <1>6, <2>1, <2>5, Zenon DEF OneParam, at
<1>10. g[n] = Item(UpTo(read, n), start + Len(Body(params)))
  <2>1. Holds(d, start, FlattenSeq(blocks))
    BY <1>3, Zenon
  <2>2. g[Len(blocks)] = Item(UpTo(read, Len(blocks)), start + Len(FlattenSeq(blocks)))
    BY <1>4, <1>6, <1>9, <2>1, InOrder, Zenon
  <2> QED BY <1>3, <1>4, <2>2, Zenon
<1> QED BY <1>7, <1>8, <1>10, Zenon DEF read
-----------------------------------------------------------------------------
(***************************************************************************)
(* The header: texts filled up with zeros, and the byte of flags.          *)
(***************************************************************************)
LEMMA PaddedCells ==
  ASSUME NEW text \in Seq(Nat), NEW size \in Nat, Len(text) <= size
  PROVE  /\ Padded(text, size) \in Seq(Int) /\ Len(Padded(text, size)) = size
         /\ \A i \in 1..Len(text) : Padded(text, size)[i] = text[i]
         /\ \A i \in (Len(text) + 1)..size : Padded(text, size)[i] = 0
<1>1. Len(text) \in Nat /\ \A i \in 1..Len(text) : text[i] \in Nat
  OBVIOUS
<1>2. \A i \in 1..size : (IF i <= Len(text) THEN text[i] ELSE 0) \in Int
  BY <1>1
<1>3. Padded(text, size) \in Seq(Int) /\ Len(Padded(text, size)) = size
  BY <1>2 DEF Padded
<1>4. \A i \in 1..size : Padded(text, size)[i] = IF i <= Len(text) THEN text[i] ELSE 0
  BY DEF Padded
<1> HIDE DEF Padded
<1>5. \A i \in 1..Len(text) : Padded(text, size)[i] = text[i]
  BY <1>1, <1>4
<1>6. \A i \in (Len(text) + 1)..size : Padded(text, size)[i] = 0
  BY <1>1, <1>4
<1> QED BY <1>3, <1>5, <1>6

(* A text without a zero is read back.                                     *)
LEMMA TextRead ==
  ASSUME NEW d \in Seq(Int), NEW i, NEW text \in Seq(Nat), NEW size \in Nat, Len(text) <= size,
         \A k \in 1..Len(text) : text[k] # 0, Holds(d, i, Padded(text, size))
  PROVE  ReadText(d, i, size) = text
<1> DEFINE n == Len(text)
           pad == Padded(text, size)
           Ends(m) == /\ m = size \/ At(d, i + m) = 0
                      /\ \A k \in 0..(m - 1) : At(d, i + k) # 0
<1>1. n \in Nat /\ n \in 0..size
  OBVIOUS
<1>2. /\ pad \in Seq(Int) /\ Len(pad) = size
      /\ \A k \in 1..n : pad[k] = text[k]
      /\ \A k \in (n + 1)..size : pad[k] = 0
  BY PaddedCells
<1> HIDE DEF pad
<1>3. i \in Nat \ {0} /\ \A j \in 1..size : i + j - 1 \in 1..Len(d) /\ d[i + j - 1] = pad[j]
  <2>1. /\ i \in Nat \ {0} /\ i + size <= Len(d) + 1
        /\ \A j \in 1..size : d[i + j - 1] = pad[j]
    BY <1>2, Zenon DEF Holds, pad
  <2> DEFINE m == Len(d)
  <2>2. m \in Nat
    OBVIOUS
  <2>3. i + size <= m + 1
    BY <2>1
  <2> HIDE DEF m
  <2>4. \A j \in 1..size : i + j - 1 \in 1..m
    BY <2>1, <2>2, <2>3
  <2> QED BY <2>1, <2>4, Zenon DEF m
<1>4. ASSUME NEW k \in 0..(size - 1) PROVE At(d, i + k) = pad[k + 1]
  <2>1. k + 1 \in 1..size /\ i + (k + 1) - 1 = i + k
    BY <1>3
  <2>2. i + k \in 1..Len(d) /\ d[i + k] = pad[k + 1]
    BY <1>3, <2>1
  <2> QED BY <2>2 DEF At
<1>5. \A k \in 0..(n - 1) : At(d, i + k) # 0
  <2> SUFFICES ASSUME NEW k \in 0..(n - 1) PROVE At(d, i + k) # 0
    OBVIOUS
  <2>1. k \in 0..(size - 1) /\ k + 1 \in 1..n
    BY <1>1
  <2> QED BY <1>2, <1>4, <2>1
<1>6. n = size \/ At(d, i + n) = 0
  <2> SUFFICES ASSUME n # size PROVE At(d, i + n) = 0
    OBVIOUS
  <2>1. n \in 0..(size - 1) /\ n + 1 \in (n + 1)..size
    BY <1>1
  <2> QED BY <1>2, <1>4, <2>1
<1>7. ASSUME NEW m \in 0..size, Ends(m) PROVE m = n
  <2>1. CASE m < n
    <3>1. m # size /\ m \in 0..(n - 1)
      BY <1>1, <2>1
    <3> QED BY <1>5, <1>7, <3>1
  <2>2. CASE m > n
    <3>1. n # size /\ n \in 0..(m - 1)
      BY <1>1, <2>2
    <3> QED BY <1>6, <1>7, <3>1
  <2> QED BY <1>1, <2>1, <2>2
<1>8. n \in 0..size /\ Ends(n)
  BY <1>1, <1>5, <1>6
<1>9. (CHOOSE m \in 0..size : Ends(m)) = n
  <2> HIDE DEF Ends
  <2> QED BY <1>7, <1>8
<1>10. ReadText(d, i, size) = Cells(d, i, n)
  BY <1>9, Zenon DEF ReadText
<1>11. Cells(d, i, n) = text
  <2>1. ASSUME NEW j \in 1..n PROVE At(d, i + j - 1) = text[j]
    <3>1. j - 1 \in 0..(size - 1) /\ (j - 1) + 1 = j /\ i + (j - 1) = i + j - 1
      BY <1>1, <1>3
    <3> QED BY <1>2, <1>4, <3>1
  <2>2. Cells(d, i, n) = [j \in 1..n |-> text[j]]
    BY <2>1, Zenon DEF Cells
  <2>3. text = [j \in 1..n |-> text[j]]
    OBVIOUS
  <2> QED BY <2>2, <2>3, Zenon
<1> QED BY <1>10, <1>11, Zenon
-----------------------------------------------------------------------------
(***************************************************************************)
(* A name that IsValidName lets through is a name: the automaton stops at  *)
(* every other character and never starts again.                           *)
(***************************************************************************)
NameStep(state, c) == IF state = STATE_STOP \/ c = HighByte THEN STATE_STOP ELSE statTab(state, c)

NameBody(g, s, text) ==
  IF s = {} THEN STATE_BEGIN ELSE NameStep(g[s \ {Max(s)}], text[Max(s)])

NameIter(g, places, text) == g = [s \in SUBSET places |-> NameBody(g, s, text)]

(* The recursive function of the fold exists.                              *)
LEMMA NameIterates ==
  ASSUME NEW text, NEW n \in Nat
  PROVE  \E g : NameIter(g, 1..n, text)
<1> DEFINE B(g, s) == NameBody(g, s, text)
           K == {k \in Nat : \E g : g = [s \in SUBSET (1..k) |-> B(g, s)]}
<1>1. 0 \in K
  <2> DEFINE g0 == [s \in SUBSET (1..0) |-> STATE_BEGIN]
  <2>1. ASSUME NEW s \in SUBSET (1..0) PROVE B(g0, s) = STATE_BEGIN
    <3>1. s = {}
      OBVIOUS
    <3> QED BY <3>1 DEF NameBody
  <2>2. g0 = [s \in SUBSET (1..0) |-> B(g0, s)]
    <3> HIDE DEF B
    <3> QED BY <2>1
  <2>3. \E g : g = [s \in SUBSET (1..0) |-> B(g, s)]
    <3> HIDE DEF g0
    <3> QED BY <2>2
  <2> QED BY <2>3
<1>2. ASSUME NEW k \in K PROVE k + 1 \in K
  <2>1. PICK g : g = [s \in SUBSET (1..k) |-> B(g, s)]
    OBVIOUS
  <2> DEFINE h == [s \in SUBSET (1..(k + 1)) |-> B(g, s)]
  <2>2. ASSUME NEW s \in SUBSET (1..(k + 1)) PROVE B(g, s) = B(h, s)
    <3>1. CASE s = {}
      BY <3>1 DEF NameBody
    <3>2. CASE s # {}
      <4> DEFINE t == s \ {Max(s)}
      <4>1. t \in SUBSET (1..k) /\ t \in SUBSET (1..(k + 1))
        <5>1. k \in Nat /\ k + 1 \in Nat
          OBVIOUS
        <5>2. Max(s) \in s /\ \A i \in s : i <= Max(s)
          BY <3>2, <5>1, LastOfSome
        <5>3. ASSUME NEW i \in t PROVE i \in 1..k
          <6>1. i \in 1..(k + 1) /\ Max(s) \in 1..(k + 1) /\ i <= Max(s) /\ i # Max(s)
            BY <5>2
          <6> QED BY <5>1, <6>1
        <5> QED BY <5>3
      <4> HIDE DEF t
      <4>2. g[t] = h[t]
        <5>1. g[t] = B(g, t)
          BY <2>1, <4>1
        <5>2. h[t] = B(g, t)
          BY <4>1
        <5> QED BY <5>1, <5>2
      <4> HIDE DEF h
      <4> QED BY <3>2, <4>2 DEF NameBody, t
    <3> QED BY <3>1, <3>2
  <2>3. h = [s \in SUBSET (1..(k + 1)) |-> B(h, s)]
    <3> HIDE DEF B
    <3> QED BY <2>2
  <2>4. \E e : e = [s \in SUBSET (1..(k + 1)) |-> B(e, s)]
    <3> HIDE DEF h
    <3> QED BY <2>3
  <2> QED BY <2>4
<1> HIDE DEF K
<1>3. K = Nat
  <2>1. K \in SUBSET Nat
    BY DEF K
  <2> QED BY <1>1, <1>2, <2>1, SetInduction
<1> QED BY <1>3 DEF K, NameIter

(* The automaton reads one character after the other.                      *)
LEMMA NameRuns ==
  ASSUME NEW text \in Seq(Nat), NEW size, IsValidName(text, size)
  PROVE  \E w : /\ w[0] = STATE_BEGIN
                /\ \A i \in 1..Len(text) : w[i] = NameStep(w[i - 1], text[i])
                /\ w[Len(text)] # STATE_STOP
<1> DEFINE n == Len(text)
           D == DOMAIN text
           iter == CHOOSE g : NameIter(g, D, text)
           w == [i \in 0..n |-> iter[1..i]]
<1>1. iter[D] # STATE_STOP
  BY DEF IsValidName, FoldLeft, MapThenFoldSet, NameIter, NameBody, NameStep
<1>2. D = 1..n /\ n \in Nat
  OBVIOUS
<1>3. iter = [s \in SUBSET (1..n) |-> NameBody(iter, s, text)]
  <2> HIDE DEF D, n
  <2>1. \E g : NameIter(g, D, text)
    BY <1>2, NameIterates
  <2>2. NameIter(iter, D, text)
    BY <2>1
  <2> QED BY <1>2, <2>2 DEF NameIter
<1> HIDE DEF iter, D, n
<1>4. w[0] = STATE_BEGIN
  <2>1. 1..0 = {} /\ {} \in SUBSET (1..n)
    OBVIOUS
  <2>2. iter[{}] = NameBody(iter, {}, text)
    BY <1>3, <2>1
  <2>3. w[0] = iter[{}]
    BY <1>2, <2>1
  <2> QED BY <2>2, <2>3 DEF NameBody
<1>5. ASSUME NEW i \in 1..n PROVE w[i] = NameStep(w[i - 1], text[i])
  <2>1. 1..i # {} /\ 1..i \in SUBSET (1..n) /\ i \in 0..n /\ i - 1 \in 0..n /\ i \in Nat
    BY <1>2
  <2>2. Max(1..i) = i
    <3>1. Max(1..i) \in 1..i /\ \A j \in 1..i : j <= Max(1..i)
      BY <2>1, LastOfSome
    <3>2. i \in 1..i
      BY <2>1
    <3> QED BY <2>1, <3>1, <3>2
  <2>3. 1..i \ {i} = 1..(i - 1)
    BY <2>1
  <2>4. iter[1..i] = NameBody(iter, 1..i, text)
    BY <1>3, <2>1
  <2>5. iter[1..i] = NameStep(iter[1..(i - 1)], text[i])
    BY <2>1, <2>2, <2>3, <2>4 DEF NameBody
  <2> QED BY <2>1, <2>5
<1>6. w[n] # STATE_STOP
  BY <1>1, <1>2
<1> HIDE DEF w
<1> QED BY <1>4, <1>5, <1>6 DEF n

LEMMA ValidNameIsName ==
  ASSUME NEW text \in Seq(Nat), NEW size \in Nat, IsValidName(text, size)
  PROVE  IsName(text, size) /\ \A i \in 1..Len(text) : text[i] # 0
<1> DEFINE n == Len(text)
           NameChars == {Letter, LetterN, Digit, Underscore}
<1>1. n \in Nat /\ n # 0 /\ n <= size
  <2>1. text # <<>> /\ Len(text) <= size
    BY Zenon DEF IsValidName
  <2> QED BY <2>1
<1>2. PICK w : /\ w[0] = STATE_BEGIN
               /\ \A i \in 1..n : w[i] = NameStep(w[i - 1], text[i])
               /\ w[n] # STATE_STOP
  BY NameRuns
<1>3. STATE_BEGIN # STATE_STOP /\ STATE_RUN # STATE_STOP /\ STATE_BEGIN # STATE_RUN
  BY DEF STATE_BEGIN, STATE_RUN, STATE_STOP
<1>4. \A m \in Nat : m < n => w[n - m] # STATE_STOP
  <2> DEFINE K == {m \in Nat : m < n => w[n - m] # STATE_STOP}
  <2>1. K \in SUBSET Nat
    OBVIOUS
  <2>2. 0 \in K
    BY <1>1, <1>2
  <2>3. ASSUME NEW m \in K PROVE m + 1 \in K
    <3> SUFFICES ASSUME m + 1 < n PROVE w[n - (m + 1)] # STATE_STOP
      BY <1>1
    <3>1. n - m \in 1..n /\ (n - m) - 1 = n - (m + 1) /\ m < n
      BY <1>1
    <3>2. w[n - m] # STATE_STOP /\ w[n - m] = NameStep(w[n - (m + 1)], text[n - m])
      BY <1>2, <3>1
    <3> QED BY <3>2 DEF NameStep
  <2> HIDE DEF K
  <2>4. K = Nat
    BY <2>1, <2>2, <2>3, SetInduction
  <2> QED BY <2>4 DEF K
<1>5. ASSUME NEW i \in 1..n PROVE w[i] # STATE_STOP
  <2>1. n - i \in Nat /\ n - i < n /\ n - (n - i) = i
    BY <1>1
  <2> QED BY <1>4, <2>1
<1>6. ASSUME NEW i \in 1..n PROVE text[i] \in NameChars
  <2>1. w[i] = NameStep(w[i - 1], text[i]) /\ w[i] # STATE_STOP
    BY <1>2, <1>5
  <2> QED BY <2>1 DEF NameStep, statTab
<1>7. text[1] \in {Letter, LetterN}
  <2>1. 1 \in 1..n /\ 1 - 1 = 0
    BY <1>1
  <2>2. w[1] = NameStep(STATE_BEGIN, text[1]) /\ w[1] # STATE_STOP
    BY <1>2, <1>5, <2>1
  <2> QED BY <1>3, <2>2 DEF NameStep, statTab
<1>8. n \in 1..size
  BY <1>1
<1>9. 0 \notin NameChars
  BY DEF Letter, LetterN, Digit, Underscore
<1> QED BY <1>6, <1>7, <1>8, <1>9 DEF IsName
-----------------------------------------------------------------------------
(***************************************************************************)
(* The whole event: the size, the header, the count, the parameters.       *)
(***************************************************************************)
LEMMA HoldsAll ==
  ASSUME NEW d \in Seq(Int)
  PROVE  Holds(d, 1, d)
BY DEF Holds

(* The byte of flags.                                                      *)
FlagByte(trace) == ((call.type - 1) % 4) + (IF trace THEN 4 ELSE 0)

LEMMA FlagParts ==
  ASSUME call \in Calls, NEW trace \in BOOLEAN
  PROVE  /\ FlagByte(trace) \in Int
         /\ (FlagByte(trace) % 4) + 1 = call.type
         /\ FlagByte(trace) \div 4 = 1 <=> trace
<1>1. call.type \in 1..4
  BY WriterAssumption
<1> QED BY <1>1 DEF FlagByte

(* Where the parts of the data are, and what they say.                     *)
Placed(d, size, trace, count, body, flags, start) ==
  /\ d \in Seq(Int)
  /\ At(d, 1) = size
  /\ ReadText(d, 2, MAX_DOMAIN_LENGTH + 1) = call.domain
  /\ ReadText(d, MAX_DOMAIN_LENGTH + 3, MAX_EVENT_NAME_LENGTH + 1) = call.name
  /\ flags = (MAX_DOMAIN_LENGTH + 3) + MAX_EVENT_NAME_LENGTH + 1
  /\ At(d, flags) = FlagByte(trace)
  /\ start = (flags + 1 + (IF trace THEN 4 ELSE 0)) + 1
  /\ At(d, start - 1) = count
  /\ Holds(d, start, body)
  /\ start + Len(body) = Len(d) + 1

(* The places are there in the data that was laid out.                     *)
LEMMA HeaderPlaces ==
  ASSUME call \in Calls, ValidNames, NEW trace \in BOOLEAN, NEW body \in Seq(Int),
         NEW size \in Int, NEW count \in Int, NEW d, d = Laid(size, trace, count, body)
  PROVE  \E flags \in Nat, start \in Nat \ {0} : Placed(d, size, trace, count, body, flags, start)
<1> DEFINE D == MAX_DOMAIN_LENGTH + 1
           N == MAX_EVENT_NAME_LENGTH + 1
           dom == Padded(call.domain, D)
           nam == Padded(call.name, N)
           flag == <<FlagByte(trace)>>
           info == TraceInfo(trace)
           tail == <<count>> \o body
           name == MAX_DOMAIN_LENGTH + 3
           flags == name + MAX_EVENT_NAME_LENGTH + 1
           place == flags + 1 + (IF trace THEN 4 ELSE 0)
<1>1. /\ D \in Nat /\ N \in Nat /\ name \in Nat /\ flags \in Nat /\ place \in Nat
      /\ 2 + D = name /\ name + N = flags
  <2>1. MAX_DOMAIN_LENGTH \in Nat /\ MAX_EVENT_NAME_LENGTH \in Nat
    BY WriterAssumption
  <2> QED BY <2>1
<1>2. /\ call.domain \in Seq(Nat) /\ Len(call.domain) <= D
      /\ \A k \in 1..Len(call.domain) : call.domain[k] # 0
      /\ call.name \in Seq(Nat) /\ Len(call.name) <= N /\ \A k \in 1..Len(call.name) : call.name[k] # 0
  <2>1. call.domain \in Seq(Nat) /\ call.name \in Seq(Nat)
    BY WriterAssumption
  <2>2. MAX_DOMAIN_LENGTH \in Nat /\ MAX_EVENT_NAME_LENGTH \in Nat
    BY WriterAssumption
  <2>3. /\ IsName(call.domain, MAX_DOMAIN_LENGTH) /\ \A k \in 1..Len(call.domain) : call.domain[k] # 0
        /\ IsName(call.name, MAX_EVENT_NAME_LENGTH) /\ \A k \in 1..Len(call.name) : call.name[k] # 0
    BY <2>1, <2>2, ValidNameIsName, Zenon DEF ValidNames
  <2>4. Len(call.domain) <= D /\ Len(call.name) <= N
    BY <2>2, <2>3 DEF IsName
  <2> QED BY <2>1, <2>3, <2>4, Zenon
<1>3. dom \in Seq(Int) /\ Len(dom) = D /\ nam \in Seq(Int) /\ Len(nam) = N
  BY <1>1, <1>2, PaddedCells, Zenon
<1>4. FlagByte(trace) \in Int /\ flag \in Seq(Int) /\ Len(flag) = 1
  BY FlagParts
<1>5. info \in Seq(Int) /\ Len(info) = IF trace THEN 4 ELSE 0
  BY DEF TraceInfo
<1>6. d = (<<size>> \o (((dom \o nam) \o flag) \o info)) \o tail
  BY Zenon DEF Laid, Cells2, HeaderAndTrace, Header, FlagByte
<1>7. <<size>> \in Seq(Int) /\ Len(<<size>>) = 1 /\ <<count>> \in Seq(Int) /\ Len(<<count>>) = 1
  BY OneCell
<1>8. tail \in Seq(Int) /\ Len(tail) = 1 + Len(body)
  BY <1>7, JoinedCells, Zenon
<1> HIDE DEF D, N, dom, nam, flag, info, tail, name, flags, place
<1> DEFINE h1 == dom \o nam
           h2 == h1 \o flag
           h3 == h2 \o info
           h4 == <<size>> \o h3
<1>9. h1 \in Seq(Int) /\ h2 \in Seq(Int) /\ h3 \in Seq(Int) /\ h4 \in Seq(Int)
  <2>1. h1 \in Seq(Int)
    BY <1>3, JoinedSeqs, Zenon
  <2> HIDE DEF h1
  <2>2. h2 \in Seq(Int)
    BY <1>4, <2>1, JoinedSeqs, Zenon
  <2> HIDE DEF h2
  <2>3. h3 \in Seq(Int)
    BY <1>5, <2>2, JoinedSeqs, Zenon
  <2> HIDE DEF h3
  <2>4. h4 \in Seq(Int)
    BY <1>7, <2>3, JoinedSeqs, Zenon
  <2> QED BY <2>1, <2>2, <2>3, <2>4
<1>10. d = h4 \o tail
  BY <1>6, Zenon
<1> HIDE DEF h4
<1>11. d \in Seq(Int) /\ Len(d) = Len(h4) + Len(tail)
  BY <1>8, <1>9, <1>10, JoinedCells, ZenonT(60)
<1>12. Holds(d, 1, h4) /\ Holds(d, 1 + Len(h4), tail)
  <2>1. Holds(d, 1, h4 \o tail)
    BY <1>10, <1>11, HoldsAll, Zenon
  <2> QED BY <1>8, <1>9, <1>11, <2>1, HoldsParts, Zenon
<1> USE DEF h4
<1> HIDE DEF h3
<1>13. At(d, 1) = size /\ Holds(d, 2, h3) /\ Len(h4) = 1 + Len(h3)
  <2>1. At(d, 1) = size /\ Holds(d, 1 + 1, h3)
    BY <1>9, <1>11, <1>12, HoldsFirst, Zenon
  <2>2. Len(h4) = 1 + Len(h3)
    BY <1>7, <1>9, JoinedCells, Zenon
  <2> QED BY <2>1, <2>2
<1> HIDE DEF h4
<1> USE DEF h3
<1> HIDE DEF h2
<1>14. Holds(d, 2, h2) /\ Len(h3) = Len(h2) + Len(info)
  <2>1. Holds(d, 2, h2)
    BY <1>5, <1>9, <1>11, <1>13, HoldsParts, Zenon
  <2>2. Len(h3) = Len(h2) + Len(info)
    BY <1>5, <1>9, JoinedCells, Zenon
  <2> QED BY <2>1, <2>2
<1> HIDE DEF h3
<1> USE DEF h2
<1> HIDE DEF h1
<1>15. Holds(d, 2, h1) /\ Holds(d, 2 + Len(h1), flag) /\ Len(h2) = Len(h1) + Len(flag)
  <2>1. Holds(d, 2, h1) /\ Holds(d, 2 + Len(h1), flag)
    BY <1>4, <1>9, <1>11, <1>14, HoldsParts, Zenon
  <2>2. Len(h2) = Len(h1) + Len(flag)
    BY <1>4, <1>9, JoinedCells, Zenon
  <2> QED BY <2>1, <2>2
<1> HIDE DEF h2
<1> USE DEF h1
<1>16. Holds(d, 2, dom) /\ Holds(d, 2 + Len(dom), nam) /\ Len(h1) = Len(dom) + Len(nam)
  <2>1. Holds(d, 2, dom) /\ Holds(d, 2 + Len(dom), nam)
    BY <1>3, <1>11, <1>15, HoldsParts, Zenon
  <2>2. Len(h1) = Len(dom) + Len(nam)
    BY <1>3, JoinedCells, Zenon
  <2> QED BY <2>1, <2>2
<1> HIDE DEF h1
<1>17. 2 + Len(dom) = name /\ 2 + Len(h1) = flags /\ 1 + Len(h4) = place
  <2>1. 2 + Len(dom) = name /\ 2 + Len(h1) = flags
    BY <1>1, <1>3, <1>16
  <2>2. Len(h1) \in Nat /\ Len(info) = IF trace THEN 4 ELSE 0
    BY <1>5, <1>9
  <2>3. Len(h4) = 1 + (Len(h1) + 1 + Len(info))
    BY <1>4, <1>13, <1>14, <1>15
  <2>4. 1 + Len(h4) = flags + 1 + Len(info)
    BY <1>5, <2>1, <2>2, <2>3
  <2> QED BY <2>1, <2>2, <2>4 DEF place
<1>18. At(d, flags) = FlagByte(trace)
  <2>1. flag = <<FlagByte(trace)>> \o <<>> /\ <<>> \in Seq(Int)
    BY <1>4 DEF flag
  <2>2. Holds(d, flags, <<FlagByte(trace)>> \o <<>>)
    BY <1>15, <1>17, <2>1, Zenon
  <2> QED BY <1>4, <1>11, <2>1, <2>2, HoldsFirst, Zenon
<1>19. At(d, place) = count /\ Holds(d, place + 1, body)
  <2>1. Holds(d, place, <<count>> \o body)
    BY <1>12, <1>17, Zenon DEF tail
  <2> QED BY <1>11, <2>1, HoldsFirst, Zenon
<1>20. ReadText(d, 2, D) = call.domain
  <2>1. Holds(d, 2, Padded(call.domain, D))
    BY <1>16, Zenon DEF dom
  <2> QED BY <1>1, <1>2, <1>11, <2>1, TextRead, Zenon
<1>21. ReadText(d, name, N) = call.name
  <2>1. Holds(d, name, Padded(call.name, N))
    BY <1>16, <1>17, Zenon DEF nam
  <2> QED BY <1>1, <1>2, <1>11, <2>1, TextRead, Zenon
<1>22. place + 1 \in Nat \ {0} /\ (place + 1) - 1 = place
  BY <1>1
<1>23. (place + 1) + Len(body) = Len(d) + 1
  <2>1. Len(h4) \in Nat /\ Len(body) \in Nat
    BY <1>9
  <2> QED BY <1>8, <1>11, <1>17, <2>1
<1> QED
  <2> DEFINE start == place + 1
  <2>1. start = (flags + 1 + (IF trace THEN 4 ELSE 0)) + 1
    BY DEF place
  <2>2. start \in Nat \ {0} /\ At(d, start - 1) = count /\ Holds(d, start, body)
        /\ start + Len(body) = Len(d) + 1
    BY <1>19, <1>22, <1>23
  <2> HIDE DEF start
  <2>3. Placed(d, size, trace, count, body, flags, start)
    BY <1>1, <1>11, <1>13, <1>18, <1>20, <1>21, <2>1, <2>2, Zenon DEF D, N, name, flags, Placed
  <2> QED BY <1>1, <2>2, <2>3, Zenon

(* The event the reader makes of the parts.                                *)
ReadWhole(d, size, count, body, start) ==
  /\ d \in Seq(Int)
  /\ Holds(d, start, body)
  /\ start + Len(body) = Len(d) + 1
  /\ ReadEvent(d) = [size |-> size, end |-> ReadParams(count, d, start).next - 1,
                     domain |-> call.domain, name |-> call.name, type |-> call.type,
                     params |-> ReadParams(count, d, start).val]

(* The reader goes through them.                                           *)
LEMMA EventRead ==
  ASSUME call \in Calls, ValidNames, NEW trace \in BOOLEAN, NEW body \in Seq(Int),
         NEW size \in Int, NEW count \in Nat, NEW d, d = Laid(size, trace, count, body)
  PROVE  \E start \in Nat \ {0} : ReadWhole(d, size, count, body, start)
<1> DEFINE name == MAX_DOMAIN_LENGTH + 3
<1>0. PICK flags \in Nat, start \in Nat \ {0} : Placed(d, size, trace, count, body, flags, start)
  <2>1. count \in Int
    OBVIOUS
  <2> QED BY <2>1, HeaderPlaces, Zenon
<1>1. /\ d \in Seq(Int)
      /\ At(d, 1) = size
      /\ ReadText(d, 2, MAX_DOMAIN_LENGTH + 1) = call.domain
      /\ ReadText(d, name, MAX_EVENT_NAME_LENGTH + 1) = call.name
      /\ flags = name + MAX_EVENT_NAME_LENGTH + 1
      /\ At(d, flags) = FlagByte(trace)
      /\ start = (flags + 1 + (IF trace THEN 4 ELSE 0)) + 1
      /\ At(d, start - 1) = count
      /\ Holds(d, start, body)
      /\ start + Len(body) = Len(d) + 1
  BY <1>0, Zenon DEF Placed
<1> DEFINE place == flags + 1 + (IF At(d, flags) \div 4 = 1 THEN 4 ELSE 0)
<1>2. (At(d, flags) % 4) + 1 = call.type /\ (At(d, flags) \div 4 = 1 <=> trace)
  BY <1>1, FlagParts, Zenon
<1>3. place + 1 = start /\ At(d, place) = count
  <2>1. place = flags + 1 + (IF trace THEN 4 ELSE 0)
    BY <1>2, Zenon
  <2> DEFINE more == IF trace THEN 4 ELSE 0
  <2>2. more \in Nat
    OBVIOUS
  <2>3. place = flags + 1 + more /\ start = (flags + 1 + more) + 1
    BY <1>1, <2>1, Zenon
  <2> HIDE DEF place, more
  <2>4. place + 1 = start /\ start - 1 = place
    BY <2>2, <2>3
  <2> QED BY <1>1, <2>4, Zenon
<1> DEFINE params == ReadParams(At(d, place), d, place + 1)
<1>4. params = ReadParams(count, d, start)
  BY <1>3, Zenon
<1>5. ReadEvent(d) = [size |-> At(d, 1), end |-> params.next - 1,
                      domain |-> ReadText(d, 2, MAX_DOMAIN_LENGTH + 1),
                      name |-> ReadText(d, name, MAX_EVENT_NAME_LENGTH + 1),
                      type |-> (At(d, flags) % 4) + 1, params |-> params.val]
  <2>1. flags = (MAX_DOMAIN_LENGTH + 3) + MAX_EVENT_NAME_LENGTH + 1
    BY <1>1, Zenon
  <2> QED BY <2>1, Zenon DEF ReadEvent
<1> HIDE DEF params, name
<1>6. ReadEvent(d) = [size |-> size, end |-> ReadParams(count, d, start).next - 1,
                      domain |-> call.domain, name |-> call.name, type |-> call.type,
                      params |-> ReadParams(count, d, start).val]
  BY <1>1, <1>2, <1>4, <1>5, Zenon DEF name
<1> QED BY <1>1, <1>6, Zenon DEF ReadWhole

(* What was sent, read: whatever the body is, and if it is the kept        *)
(* parameters.                                                             *)
LEMMA SentRead ==
  ASSUME Shape, Layout, sent # <<>>
  PROVE  /\ ValidNames
         /\ Len(ReadEvent(sent).params) = Len(kept) /\ Len(kept) <= MAX_PARAM_NUMBER
         /\ ReadEvent(sent).domain = call.domain /\ ReadEvent(sent).name = call.name
         /\ ~broken =>
              ReadEvent(sent) = [size |-> Len(sent), end |-> Len(sent), domain |-> call.domain,
                                 name |-> call.name, type |-> call.type,
                                 params |-> [i \in 1..Len(kept) |-> Expected(kept[i])]]
<1>1. call \in Calls /\ kept \in Seq(Acceptable) /\ Len(kept) \in Nat
  BY DEF Layout, EventTypes
<1>2. ValidNames /\ Len(kept) <= MAX_PARAM_NUMBER
  BY DEF Layout, SentIsItsParts
<1>3. PICK trace \in BOOLEAN, body \in Seq(Int) :
        sent = Laid(Len(sent), trace, Len(kept), body) /\ (~broken => body = Body(kept))
  BY DEF Layout, SentIsItsParts
<1>4. Len(sent) \in Nat /\ Len(sent) \in Int
  <2> DEFINE size == Len(sent)
             S == Int \cup {size}
             h == HeaderAndTrace(trace)
             one == <<size>>
             count == <<Len(kept)>>
  <2>1. sent = (one \o h) \o (count \o body)
    BY <1>3, Zenon DEF Laid, Cells2
  <2>2. h \in Seq(Int) /\ count \in Seq(Int)
    BY <1>1, HeaderTyped, OneCell
  <2> HIDE DEF h, count
  <2>3. h \in Seq(S) /\ count \in Seq(S) /\ body \in Seq(S)
    BY <2>2
  <2>4. one \in Seq(S)
    OBVIOUS
  <2> HIDE DEF one, S
  <2>5. one \o h \in Seq(S) /\ count \o body \in Seq(S)
    BY <2>3, <2>4, JoinedSeqs, Zenon
  <2>6. (one \o h) \o (count \o body) \in Seq(S)
    BY <2>5, JoinedSeqs, Zenon
  <2>7. sent \in Seq(S)
    BY <2>1, <2>6, Zenon
  <2> QED BY <2>7
<1>5. PICK start \in Nat \ {0} : ReadWhole(sent, Len(sent), Len(kept), body, start)
  BY <1>1, <1>2, <1>3, <1>4, EventRead, Zenon
<1>6. /\ sent \in Seq(Int)
      /\ Holds(sent, start, body)
      /\ start + Len(body) = Len(sent) + 1
      /\ ReadEvent(sent) = [size |-> Len(sent), end |-> ReadParams(Len(kept), sent, start).next - 1,
                            domain |-> call.domain, name |-> call.name, type |-> call.type,
                            params |-> ReadParams(Len(kept), sent, start).val]
  BY <1>5, Zenon DEF ReadWhole
<1>7. Len(ReadParams(Len(kept), sent, start).val) = Len(kept)
  <2>1. start \in Int
    OBVIOUS
  <2> QED BY <1>1, <1>6, <2>1, ParamsUnfold, Zenon
<1>8. /\ ReadEvent(sent).params = ReadParams(Len(kept), sent, start).val
      /\ ReadEvent(sent).domain = call.domain /\ ReadEvent(sent).name = call.name
  BY <1>6
<1>9. ASSUME ~broken
      PROVE  ReadEvent(sent) = [size |-> Len(sent), end |-> Len(sent), domain |-> call.domain,
                                name |-> call.name, type |-> call.type,
                                params |-> [i \in 1..Len(kept) |-> Expected(kept[i])]]
  <2>1. body = Body(kept)
    BY <1>3, <1>9, Zenon
  <2>2. Holds(sent, start, Body(kept))
    BY <1>6, <2>1, Zenon
  <2> DEFINE expected == [i \in 1..Len(kept) |-> Expected(kept[i])]
  <2>3. ReadParams(Len(kept), sent, start) = Item(expected, start + Len(Body(kept)))
    BY <1>1, <1>6, <2>2, BodyReads, Zenon
  <2>4. start + Len(Body(kept)) = Len(sent) + 1
    BY <1>6, <2>1, Zenon
  <2>5. ReadParams(Len(kept), sent, start) = Item(expected, Len(sent) + 1)
    BY <2>3, <2>4, Zenon
  <2> HIDE DEF expected
  <2>6. Item(expected, Len(sent) + 1).val = expected /\ Item(expected, Len(sent) + 1).next = Len(sent) + 1
    BY DEF Item
  <2>7. ReadParams(Len(kept), sent, start).val = expected
        /\ ReadParams(Len(kept), sent, start).next - 1 = Len(sent)
    <3>1. (Len(sent) + 1) - 1 = Len(sent)
      BY <1>4
    <3> QED BY <2>5, <2>6, <3>1, Zenon
  <2> QED BY <1>6, <2>7, Zenon DEF expected
<1> QED BY <1>2, <1>7, <1>8, <1>9, Zenon

(***************************************************************************)
(* What the daemon reads of an event is what the caller of                 *)
(* HiSysEvent::Write wrote: RawDataEncoder, EncodedParam and StringFilter  *)
(* lose nothing but what Expected says, for every width of the encoding,   *)
(* every limit and every sequence of parameters.                           *)
(***************************************************************************)
THEOREM EventReadsBack == Spec => []ReadsBack
<1>1. Layout /\ Inv => ReadsBack
  <2> SUFFICES ASSUME Layout, Inv, sent # <<>>, ~broken
               PROVE  ReadEvent(sent) = [size |-> Len(sent), end |-> Len(sent), domain |-> call.domain,
                        name |-> call.name, type |-> call.type,
                        params |-> [i \in 1..Len(kept) |-> Expected(kept[i])]]
    BY Zenon DEF ReadsBack
  <2> QED BY SentRead, Zenon DEF Inv
<1> QED BY <1>1, InvInit, InvStep, LayoutInit, LayoutStep, PTL DEF Spec

(***************************************************************************)
(* The daemon finds well-formed names and keys only, and never more        *)
(* parameters or items than CheckParamValidity and CheckArraySize allow,   *)
(* after an encoding that stopped half way too.                            *)
(***************************************************************************)
THEOREM EventWithinLimits == Spec => []WithinLimits
<1>1. Layout /\ Inv => WithinLimits
  <2> SUFFICES ASSUME Layout, Inv, sent # <<>>
               PROVE  \E e \in {ReadEvent(sent)} :
                        /\ IsName(e.domain, MAX_DOMAIN_LENGTH)
                        /\ IsName(e.name, MAX_EVENT_NAME_LENGTH)
                        /\ Len(e.params) <= MAX_PARAM_NUMBER
                        /\ ~broken => \A i \in 1..Len(e.params) :
                             /\ IsName(e.params[i].key, MAX_PARAM_NAME_LENGTH)
                             /\ e.params[i].isArray => Len(e.params[i].vals) <= MAX_ARRAY_SIZE
    BY Zenon DEF WithinLimits
  <2> DEFINE e == ReadEvent(sent)
  <2>1. /\ ValidNames /\ Len(e.params) = Len(kept) /\ Len(kept) <= MAX_PARAM_NUMBER
        /\ e.domain = call.domain /\ e.name = call.name
        /\ ~broken => e = [size |-> Len(sent), end |-> Len(sent), domain |-> call.domain,
                           name |-> call.name, type |-> call.type,
                           params |-> [i \in 1..Len(kept) |-> Expected(kept[i])]]
    BY SentRead, Zenon DEF Inv
  <2>2. call \in Calls /\ kept \in Seq(Acceptable)
    BY DEF Layout, EventTypes
  <2> HIDE DEF e
  <2>3. /\ MAX_DOMAIN_LENGTH \in Nat /\ MAX_EVENT_NAME_LENGTH \in Nat /\ MAX_PARAM_NAME_LENGTH \in Nat
        /\ MAX_ARRAY_SIZE \in Nat
    BY WriterAssumption
  <2>4. IsName(call.domain, MAX_DOMAIN_LENGTH) /\ IsName(call.name, MAX_EVENT_NAME_LENGTH)
    <3>1. call.domain \in Seq(Nat) /\ call.name \in Seq(Nat)
      BY <2>2, WriterAssumption
    <3> QED BY <2>1, <2>3, <3>1, ValidNameIsName, Zenon DEF ValidNames
  <2>5. ASSUME ~broken, NEW i \in 1..Len(e.params)
        PROVE  /\ IsName(e.params[i].key, MAX_PARAM_NAME_LENGTH)
               /\ e.params[i].isArray => Len(e.params[i].vals) <= MAX_ARRAY_SIZE
    <3> DEFINE p == kept[i]
    <3>1. i \in 1..Len(kept) /\ e.params = [j \in 1..Len(kept) |-> Expected(kept[j])]
      BY <2>1, <2>5
    <3>2. p \in Acceptable /\ e.params[i] = Expected(p)
      BY <2>2, <3>1
    <3> HIDE DEF p
    <3>3. Expected(p).key = p.key /\ Expected(p).isArray = p.isArray
          /\ Expected(p).vals = ReadableOf(KindOf(p), KeptValues(p))
      BY <3>2, ExpectedIs
    <3>4. IsName(p.key, MAX_PARAM_NAME_LENGTH)
      <4>1. p.key \in Seq(Nat) /\ IsValidName(p.key, MAX_PARAM_NAME_LENGTH)
        BY <3>2, WriterAssumption DEF Acceptable
      <4> QED BY <2>3, <4>1, ValidNameIsName, Zenon
    <3>5. ASSUME p.isArray PROVE Len(ReadableOf(KindOf(p), KeptValues(p))) <= MAX_ARRAY_SIZE
      <4> DEFINE kept2 == KeptValues(p)
      <4>1. Len(kept2) \in Nat /\ Len(kept2) <= MAX_ARRAY_SIZE
        <5>1. p.vals \in Seq(Values(p.kind))
          BY <3>2, WriterAssumption DEF Acceptable
        <5> QED BY <2>3, <3>5, <5>1 DEF KeptValues
      <4> HIDE DEF kept2
      <4>2. Len(ReadableOf(KindOf(p), kept2)) = Len(kept2)
        BY <4>1 DEF ReadableOf
      <4> QED BY <4>1, <4>2 DEF kept2
    <3> QED BY <3>2, <3>3, <3>4, <3>5
  <2> QED BY <2>1, <2>4, <2>5, Zenon DEF e
<1> QED BY <1>1, InvInit, InvStep, LayoutInit, LayoutStep, PTL DEF Spec
================================================================================
