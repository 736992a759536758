---------------------------- MODULE CanonProofs -----------------------------
(***************************************************************************)
(* What is written by the methods of Buffer is read back, whatever follows *)
(* it in the bytes.                                                        *)
(***************************************************************************)
EXTENDS Canon, Induction, SequenceTheorems

Bytes == Seq(Byte)

LEMMA SizeFacts ==
  /\ Group \in Nat /\ Group >= 2
  /\ Width \in Nat /\ Width >= 1
  /\ Base \in Nat /\ Base >= 4 /\ Base = 2 * Group
BY SizeAssumption DEF Base

-----------------------------------------------------------------------------
(* Sequences of bytes *)

\* Bytes in front of others are taken off again.
LEMMA TakenOff ==
  ASSUME NEW p \in Bytes, NEW r \in Bytes
  PROVE  /\ p \o r \in Bytes
         /\ Len(p \o r) = Len(p) + Len(r)
         /\ SubSeq(p \o r, 1, Len(p)) = p
         /\ SubSeq(p \o r, Len(p) + 1, Len(p \o r)) = r
<1> USE DEF Bytes
<1>1. /\ p \o r \in Bytes
      /\ Len(p \o r) = Len(p) + Len(r)
      /\ Len(p) \in Nat /\ Len(r) \in Nat
      /\ \A i \in 1 .. Len(p) : (p \o r)[i] = p[i]
      /\ \A i \in 1 .. Len(r) : (p \o r)[Len(p) + i] = r[i]
  OBVIOUS
<1> DEFINE q == p \o r
<1> HIDE DEF q
<1>2. q \in Bytes /\ Len(q) = Len(p) + Len(r)
  BY <1>1 DEF q
<1>3. SubSeq(q, 1, Len(p)) = p
  <2>1. /\ SubSeq(q, 1, Len(p)) \in Bytes
        /\ Len(SubSeq(q, 1, Len(p))) = Len(p)
        /\ \A i \in 1 .. Len(p) : SubSeq(q, 1, Len(p))[i] = q[i]
    BY <1>1, <1>2
  <2> QED BY <1>1, <2>1, SeqEqual DEF q
<1>4. SubSeq(q, Len(p) + 1, Len(q)) = r
  <2>1. /\ SubSeq(q, Len(p) + 1, Len(q)) \in Bytes
        /\ Len(SubSeq(q, Len(p) + 1, Len(q))) = Len(r)
        /\ \A i \in 1 .. Len(r) :
             SubSeq(q, Len(p) + 1, Len(q))[i] = q[Len(p) + i]
    BY <1>1, <1>2
  <2> QED BY <1>1, <2>1, SeqEqual DEF q
<1> QED BY <1>1, <1>2, <1>3, <1>4 DEF q

LEMMA FirstByte ==
  ASSUME NEW b \in Byte, NEW r \in Bytes
  PROVE  /\ <<b>> \o r \in Bytes /\ <<b>> \o r # <<>>
         /\ Head(<<b>> \o r) = b /\ Tail(<<b>> \o r) = r
<1> USE DEF Bytes
<1>1. <<b>> \in Bytes /\ Len(<<b>>) = 1 /\ <<b>>[1] = b
  OBVIOUS
<1> DEFINE q == <<b>> \o r
<1>2. /\ q \in Bytes /\ Len(q) = 1 + Len(r) /\ Len(r) \in Nat
      /\ q[1] = b
      /\ \A i \in 1 .. Len(r) : q[i + 1] = r[i]
  BY <1>1
<1> HIDE DEF q
<1>3. q # <<>> /\ Head(q) = b
  BY <1>2
<1>4. Tail(q) = r
  <2>1. /\ Tail(q) \in Bytes /\ Len(Tail(q)) = Len(r)
        /\ \A i \in 1 .. Len(r) : Tail(q)[i] = q[i + 1]
    BY <1>2, <1>3, HeadTailProperties
  <2> QED BY <1>2, <2>1, SeqEqual
<1> QED BY <1>2, <1>3, <1>4 DEF q

LEMMA Joined ==
  /\ <<>> \in Bytes
  /\ \A b \in Byte : <<b>> \in Bytes
  /\ \A p, q \in Bytes : p \o q \in Bytes
  /\ \A p \in Bytes : p \o <<>> = p /\ <<>> \o p = p
  /\ \A p, q, r \in Bytes : (p \o q) \o r = p \o (q \o r)
BY ConcatAssociative, ConcatEmptySeq DEF Bytes

-----------------------------------------------------------------------------
(* Varints *)

LEMMA UvarintDef ==
  /\ Uvarint \in [Nat -> Bytes]
  /\ \A n \in Nat :
       Uvarint[n] = IF n < Group THEN <<n>>
                    ELSE <<Group + (n % Group)>> \o Uvarint[n \div Group]
<1> DEFINE mu == [n \in Nat |-> n]
           Basis == {n \in Nat : n < Group}
           b == [n \in Basis |-> <<n>>]
           p == [n \in Nat |-> n \div Group]
           g == [x \in Bytes \X Nat |-> <<Group + (x[2] % Group)>> \o x[1]]
           R(f) == [n \in Nat |-> IF n < Group THEN <<n>>
                                  ELSE <<Group + (n % Group)>> \o f[n \div Group]]
<1> USE SizeFacts
<1>1. mu \in [Nat -> Nat] /\ Basis \in SUBSET Nat
  OBVIOUS
<1>2. b \in [Basis -> Bytes]
  BY DEF Bytes, Byte
<1>3. \A n \in Nat \ Basis : p[n] \in Nat /\ mu[p[n]] < mu[n]
  OBVIOUS
<1>4. g \in [Bytes \X Nat -> Bytes]
  <2> SUFFICES ASSUME NEW s \in Bytes, NEW n \in Nat
               PROVE  <<Group + (n % Group)>> \o s \in Bytes
    OBVIOUS
  <2>1. Group + (n % Group) \in Byte
    BY DEF Byte
  <2> QED BY <2>1 DEF Bytes
<1>5. PICK f : Recursive(f, Nat, Bytes, Basis, b, p, g)
  <2> HIDE DEF mu, Basis, b, p, g
  <2>1. IsRecursion(Nat, Bytes, mu, Basis, b, p, g)
    BY <1>1, <1>2, <1>3, <1>4 DEF IsRecursion
  <2> QED BY <2>1, Recursion
<1>6. f = R(f)
  <2>1. f \in [Nat -> Bytes]
    BY <1>5 DEF Recursive
  <2>2. ASSUME NEW n \in Nat, n \notin Basis
        PROVE  g[<<f[p[n]], n>>] = <<Group + (n % Group)>> \o f[n \div Group]
    BY <1>3, <2>1, <2>2
  <2>3. ASSUME NEW n \in Nat, n \in Basis PROVE b[n] = <<n>>
    BY <2>3
  <2>4. ASSUME NEW n \in Nat PROVE n \in Basis <=> n < Group
    OBVIOUS
  <2> HIDE DEF Basis, b, p, g
  <2> QED BY <1>5, <2>2, <2>3, <2>4 DEF Recursive
<1>7. Uvarint = R(Uvarint)
  <2> HIDE DEF R
  <2>1. Uvarint = CHOOSE h : h = R(h)
    BY DEF Uvarint, R
  <2> QED BY <1>6, <2>1
<1>8. \A n \in Nat : Uvarint[n] \in Bytes
  <2> DEFINE S == {n \in Nat : Uvarint[n] \in Bytes}
  <2>1. ASSUME NEW n \in Nat, \A m \in Nat : mu[m] < mu[n] => m \in S
        PROVE  n \in S
    <3>0. Uvarint[n] = IF n < Group THEN <<n>>
                       ELSE <<Group + (n % Group)>> \o Uvarint[n \div Group]
      BY <1>7
    <3>1. CASE n < Group
      <4>1. n \in Byte
        BY <3>1 DEF Byte
      <4>2. <<n>> \in Bytes
        BY <4>1 DEF Bytes
      <4> QED BY <3>0, <3>1, <4>2
    <3>2. CASE ~(n < Group)
      <4>1. Group + (n % Group) \in Byte /\ n \div Group \in Nat /\ n \div Group < n
        BY <3>2 DEF Byte
      <4>2. Uvarint[n \div Group] \in Bytes
        BY <2>1, <4>1
      <4> QED BY <3>0, <3>2, <4>1, <4>2, FirstByte
    <3> QED BY <3>1, <3>2
  <2>2. Nat \subseteq S
    <3> HIDE DEF S, mu
    <3> QED BY <1>1, <2>1, MeasureInduction
  <2> QED BY <2>2
<1>9. Uvarint \in [Nat -> Bytes]
  <2> HIDE DEF mu, Basis, b, p, g
  <2>1. Uvarint = [n \in Nat |-> Uvarint[n]]
    BY <1>7
  <2> QED BY <1>8, <2>1
<1> QED BY <1>7, <1>9

-----------------------------------------------------------------------------

LEMMA ReadVarintDef ==
  /\ \A s \in Bytes : /\ ReadVarint[s].value \in Nat
                      /\ ReadVarint[s].rest \in Bytes
  /\ \A b \in Byte, r \in Bytes :
       ReadVarint[<<b>> \o r] =
         IF b < Group THEN [value |-> b, rest |-> r]
         ELSE [value |-> (b % Group) + (Group * ReadVarint[r].value),
               rest  |-> ReadVarint[r].rest]
<1> DEFINE A == [value : Nat, rest : Bytes]
           mu == [s \in Bytes |-> Len(s)]
           Basis == {s \in Bytes : s = <<>> \/ Head(s) < Group}
           b == [s \in Basis |-> IF s = <<>> THEN [value |-> 0, rest |-> <<>>]
                                 ELSE [value |-> Head(s), rest |-> Tail(s)]]
           p == [s \in Bytes |-> Tail(s)]
           g == [x \in A \X Bytes |->
                   IF x[2] = <<>> THEN x[1]
                   ELSE [value |-> (Head(x[2]) % Group) + (Group * x[1].value),
                         rest  |-> x[1].rest]]
           R(f) == [s \in Seq(Byte) |->
                      IF s = <<>> THEN [value |-> 0, rest |-> <<>>]
                      ELSE IF Head(s) < Group
                           THEN [value |-> Head(s), rest |-> Tail(s)]
                      ELSE [value |-> (Head(s) % Group) + (Group * f[Tail(s)].value),
                            rest  |-> f[Tail(s)].rest]]
<1> USE SizeFacts
<1>1. mu \in [Bytes -> Nat] /\ Basis \in SUBSET Bytes
  BY DEF Bytes
<1>2. ASSUME NEW s \in Bytes, s # <<>>
      PROVE  Head(s) \in Byte /\ Tail(s) \in Bytes /\ Len(Tail(s)) < Len(s)
  BY <1>2, HeadTailProperties, LenProperties DEF Bytes
<1>3. b \in [Basis -> A]
  <2>1. <<>> \in Bytes /\ Byte \subseteq Nat
    BY DEF Bytes, Byte
  <2> QED BY <1>2, <2>1
<1>4. \A s \in Bytes \ Basis : p[s] \in Bytes /\ mu[p[s]] < mu[s]
  BY <1>2
<1>5. ASSUME NEW s \in Bytes, Head(s) \in Byte, NEW a \in A
      PROVE  (Head(s) % Group) + (Group * a.value) \in Nat
  <2>1. Head(s) % Group \in Nat
    BY <1>5 DEF Byte
  <2>2. Group * a.value \in Nat
    OBVIOUS
  <2> QED BY <2>1, <2>2
<1>6. g \in [A \X Bytes -> A]
  <2> SUFFICES ASSUME NEW a \in A, NEW s \in Bytes, s # <<>>
               PROVE  [value |-> (Head(s) % Group) + (Group * a.value),
                       rest  |-> a.rest] \in A
    OBVIOUS
  <2> QED BY <1>2, <1>5
<1>7. PICK f : Recursive(f, Bytes, A, Basis, b, p, g)
  <2> HIDE DEF A, mu, Basis, b, p, g
  <2>1. IsRecursion(Bytes, A, mu, Basis, b, p, g)
    BY <1>1, <1>3, <1>4, <1>6 DEF IsRecursion
  <2> QED BY <2>1, Recursion
<1>8. f = R(f)
  <2>1. f \in [Bytes -> A]
    BY <1>7 DEF Recursive
  <2>2. ASSUME NEW s \in Bytes, s \notin Basis
        PROVE  g[<<f[p[s]], s>>]
                 = [value |-> (Head(s) % Group) + (Group * f[Tail(s)].value),
                    rest  |-> f[Tail(s)].rest]
    BY <1>4, <2>1, <2>2
  <2>3. ASSUME NEW s \in Bytes, s \in Basis
        PROVE  b[s] = IF s = <<>> THEN [value |-> 0, rest |-> <<>>]
                      ELSE [value |-> Head(s), rest |-> Tail(s)]
    BY <2>3
  <2>4. ASSUME NEW s \in Bytes PROVE s \in Basis <=> s = <<>> \/ Head(s) < Group
    OBVIOUS
  <2> HIDE DEF A, Basis, b, p, g
  <2> QED BY <1>7, <2>2, <2>3, <2>4 DEF Recursive, Bytes
<1>9. ReadVarint = R(ReadVarint)
  <2> HIDE DEF R
  <2>1. ReadVarint = CHOOSE h : h = R(h)
    BY DEF ReadVarint, R
  <2> QED BY <1>8, <2>1
<1>10. ASSUME NEW s \in Bytes
       PROVE  ReadVarint[s] =
                IF s = <<>> THEN [value |-> 0, rest |-> <<>>]
                ELSE IF Head(s) < Group THEN [value |-> Head(s), rest |-> Tail(s)]
                ELSE [value |-> (Head(s) % Group)
                                  + (Group * ReadVarint[Tail(s)].value),
                      rest  |-> ReadVarint[Tail(s)].rest]
  BY <1>9 DEF Bytes
<1>11. \A s \in Bytes : ReadVarint[s].value \in Nat /\ ReadVarint[s].rest \in Bytes
  <2> DEFINE S == {s \in Bytes : /\ ReadVarint[s].value \in Nat
                                 /\ ReadVarint[s].rest \in Bytes}
  <2>1. ASSUME NEW s \in Bytes, \A t \in Bytes : mu[t] < mu[s] => t \in S
        PROVE  s \in S
    <3> DEFINE v == ReadVarint[s]
    <3>0. v = IF s = <<>> THEN [value |-> 0, rest |-> <<>>]
              ELSE IF Head(s) < Group THEN [value |-> Head(s), rest |-> Tail(s)]
              ELSE [value |-> (Head(s) % Group)
                                + (Group * ReadVarint[Tail(s)].value),
                    rest  |-> ReadVarint[Tail(s)].rest]
      BY <1>10
    <3> SUFFICES v.value \in Nat /\ v.rest \in Bytes
      OBVIOUS
    <3> HIDE DEF v
    <3>1. CASE s = <<>>
      BY <3>0, <3>1 DEF Bytes
    <3>2. CASE s # <<>> /\ Head(s) < Group
      BY <1>2, <3>0, <3>2 DEF Byte
    <3>3. CASE s # <<>> /\ ~(Head(s) < Group)
      <4>1. Tail(s) \in S /\ Head(s) \in Byte
        BY <1>2, <2>1, <3>3
      <4>2. (Head(s) % Group) + (Group * ReadVarint[Tail(s)].value) \in Nat
        <5>1. Head(s) % Group \in Nat
          BY <4>1 DEF Byte
        <5> QED BY <4>1, <5>1
      <4>3. /\ v.value = (Head(s) % Group) + (Group * ReadVarint[Tail(s)].value)
            /\ v.rest = ReadVarint[Tail(s)].rest
        BY <3>0, <3>3
      <4> QED BY <4>1, <4>2, <4>3
    <3> QED BY <3>1, <3>2, <3>3
  <2>2. Bytes \subseteq S
    <3> HIDE DEF S, mu
    <3> QED BY <1>1, <2>1, MeasureInduction
  <2> QED BY <2>2
<1>12. ASSUME NEW d \in Byte, NEW r \in Bytes
       PROVE  ReadVarint[<<d>> \o r] =
                IF d < Group THEN [value |-> d, rest |-> r]
                ELSE [value |-> (d % Group) + (Group * ReadVarint[r].value),
                      rest  |-> ReadVarint[r].rest]
  BY <1>10, FirstByte
<1> QED BY <1>11, <1>12

\* A number written as a varint is read back, whatever follows.
THEOREM VarintReads ==
  \A n \in Nat : \A r \in Bytes :
    ReadVarint[Uvarint[n] \o r] = [value |-> n, rest |-> r]
<1> DEFINE mu == [n \in Nat |-> n]
           S == {n \in Nat : \A r \in Bytes :
                   ReadVarint[Uvarint[n] \o r] = [value |-> n, rest |-> r]}
<1> USE SizeFacts
<1>1. ASSUME NEW n \in Nat, \A m \in Nat : mu[m] < mu[n] => m \in S
      PROVE  n \in S
  <2> SUFFICES ASSUME NEW r \in Bytes
               PROVE  ReadVarint[Uvarint[n] \o r] = [value |-> n, rest |-> r]
    OBVIOUS
  <2>1. CASE n < Group
    <3>1. n \in Byte
      BY <2>1 DEF Byte
    <3>2. Uvarint[n] = <<n>>
      BY <2>1, UvarintDef
    <3>3. ReadVarint[<<n>> \o r] = [value |-> n, rest |-> r]
      BY <2>1, <3>1, ReadVarintDef
    <3> QED BY <3>2, <3>3
  <2>2. CASE ~(n < Group)
    <3> DEFINE h == n \div Group
               d == Group + (n % Group)
               u == Uvarint[h]
    <3>1. d \in Byte /\ ~(d < Group) /\ h \in Nat /\ h < n
      BY <2>2 DEF Byte
    <3>2. d % Group = n % Group /\ n = (n % Group) + (Group * h)
      OBVIOUS
    <3>3. ReadVarint[u \o r] = [value |-> h, rest |-> r]
      <4>1. h \in S
        BY <1>1, <3>1
      <4> QED BY <4>1
    <3>4. u \in Bytes /\ Uvarint[n] = <<d>> \o u
      BY <2>2, <3>1, UvarintDef
    <3> HIDE DEF h, d, u, S
    <3>5. Uvarint[n] \o r = <<d>> \o (u \o r) /\ u \o r \in Bytes
      BY <3>1, <3>4, Joined
    <3>6. ReadVarint[<<d>> \o (u \o r)]
            = [value |-> (d % Group) + (Group * ReadVarint[u \o r].value),
               rest  |-> ReadVarint[u \o r].rest]
      BY <3>1, <3>5, ReadVarintDef
    <3> QED BY <3>2, <3>3, <3>5, <3>6
  <2> QED BY <2>1, <2>2
<1>2. mu \in [Nat -> Nat]
  OBVIOUS
<1>3. Nat \subseteq S
  <2> HIDE DEF S, mu
  <2> QED BY <1>1, <1>2, MeasureInduction
<1> QED BY <1>3

-----------------------------------------------------------------------------
(* Integers of Width bytes *)

LEMMA PowerDef ==
  /\ Power[0] = 1
  /\ \A n \in Nat : Power[n + 1] = Base * Power[n]
  /\ \A n \in Nat : Power[n] \in Nat \ {0}
<1> DEFINE mu == [n \in Nat |-> n]
           b == [n \in {0} |-> 1]
           p == [n \in Nat |-> n - 1]
           g == [x \in Nat \X Nat |-> Base * x[1]]
           R(f) == [n \in Nat |-> IF n = 0 THEN 1 ELSE Base * f[n - 1]]
<1> USE SizeFacts
<1>1. IsRecursion(Nat, Nat, mu, {0}, b, p, g)
  BY DEF IsRecursion
<1>2. PICK f : Recursive(f, Nat, Nat, {0}, b, p, g)
  <2> HIDE DEF mu, b, p, g
  <2> QED BY <1>1, Recursion
<1>3. f = R(f)
  <2>1. f \in [Nat -> Nat]
    BY <1>2 DEF Recursive
  <2>2. \A n \in Nat \ {0} : g[<<f[p[n]], n>>] = Base * f[n - 1]
    BY <2>1
  <2>3. b[0] = 1
    OBVIOUS
  <2> HIDE DEF b, p, g
  <2> QED BY <1>2, <2>2, <2>3 DEF Recursive
<1>4. Power = R(Power)
  <2> HIDE DEF R
  <2>1. Power = CHOOSE h : h = R(h)
    BY DEF Power, R
  <2> QED BY <1>3, <2>1
<1>5. Power[0] = 1
  BY <1>4
<1>6. ASSUME NEW n \in Nat PROVE Power[n + 1] = Base * Power[n]
  <2>1. n + 1 \in Nat /\ n + 1 # 0 /\ n + 1 - 1 = n
    OBVIOUS
  <2>2. Power[n + 1] = R(Power)[n + 1]
    BY <1>4
  <2>3. R(Power)[n + 1] = Base * Power[n + 1 - 1]
    BY <2>1
  <2> QED BY <2>1, <2>2, <2>3
<1>7. \A n \in Nat : Power[n] \in Nat \ {0}
  <2> DEFINE S == {n \in Nat : Power[n] \in Nat \ {0}}
  <2>1. 0 \in S
    BY <1>5
  <2>2. ASSUME NEW n \in Nat, n \in S PROVE n + 1 \in S
    <3>1. Base * Power[n] \in Nat \ {0}
      BY <2>2
    <3> QED BY <1>6, <3>1
  <2>3. Nat \subseteq S
    <3> HIDE DEF S
    <3> QED BY <2>1, <2>2, SetInduction
  <2> QED BY <2>3
<1> QED BY <1>5, <1>6, <1>7

\* The range of the integers is split in two halves.
LEMMA ModulusFacts ==
  /\ Modulus \in Nat /\ Modulus >= 4
  /\ MinInt \in Int /\ MaxInt \in Nat
  /\ MaxInt >= 1
  /\ MinInt = -(MaxInt + 1)
  /\ Modulus = 2 * (MaxInt + 1)
<1> USE SizeFacts
<1>1. Width - 1 \in Nat /\ (Width - 1) + 1 = Width
  OBVIOUS
<1>2. PICK k \in Nat \ {0} : Modulus = Base * k
  BY <1>1, PowerDef DEF Modulus
<1>3. Group * k \in Nat /\ Group * k >= 2 /\ Modulus = 2 * (Group * k)
  BY <1>2
<1> QED BY <1>3 DEF MinInt, MaxInt

LEMMA Division ==
  ASSUME NEW a \in Nat, NEW b \in Nat \ {0}
  PROVE  /\ a \div b \in Nat
         /\ a = ((a \div b) * b) + (a % b)
<1>1. a \div b \in Nat /\ a % b \in Nat /\ a = (b * (a \div b)) + (a % b)
  OBVIOUS
<1>2. \A x \in Nat : b * x = x * b
  OBVIOUS
<1> QED BY <1>1, <1>2

\* Division by a product is division by one factor after the other.
LEMMA DivOfDiv ==
  ASSUME NEW a \in Nat, NEW b \in Nat \ {0}, NEW c \in Nat \ {0}
  PROVE  (a \div b) \div c = a \div (c * b)
<1> DEFINE x == a \div b
           r == a % b
           y == x \div c
           t == x % c
           m == c * b
           z == a \div m
           w == a % m
           e == (b * t) + r
<1>1. x \in Nat /\ r \in 0 .. b - 1 /\ a = (b * x) + r
  OBVIOUS
<1>2. y \in Nat /\ t \in 0 .. c - 1 /\ x = (c * y) + t
  BY <1>1
<1>3. m \in Nat \ {0}
  OBVIOUS
<1>4. z \in Nat /\ w \in 0 .. m - 1 /\ a = (m * z) + w
  <2> HIDE DEF m
  <2> QED BY <1>3
<1> HIDE DEF x, r, y, t, m, z, w, e
<1>5. a = (m * y) + e
  BY <1>1, <1>2 DEF m, e
<1>6. e \in Nat /\ e < m
  <2>1. b * t \in Nat /\ b * t <= b * (c - 1)
    BY <1>2
  <2>2. b * (c - 1) = m - b
    BY DEF m
  <2> QED BY <1>1, <1>3, <2>1, <2>2 DEF e
<1>7. y = z
  <2>1. ASSUME NEW d \in Nat, d >= 1 PROVE m * d \in Nat /\ m * d >= m
    BY <1>3, <2>1
  <2>2. CASE y > z
    <3>1. m * (y - z) = w - e
      BY <1>2, <1>3, <1>4, <1>5, <1>6
    <3>2. m * (y - z) >= m
      BY <1>2, <1>4, <2>1, <2>2
    <3> QED BY <1>3, <1>4, <1>6, <3>1, <3>2
  <2>3. CASE z > y
    <3>1. m * (z - y) = e - w
      BY <1>2, <1>3, <1>4, <1>5, <1>6
    <3>2. m * (z - y) >= m
      BY <1>2, <1>4, <2>1, <2>3
    <3> QED BY <1>3, <1>4, <1>6, <3>1, <3>2
  <2> QED BY <1>2, <1>4, <2>2, <2>3
<1> QED BY <1>7 DEF x, y, z, m

\* A number is what its higher digits make and the digit that follows them.
LEMMA NextDigit ==
  ASSUME NEW v \in Nat, NEW k \in Nat
  PROVE  /\ v \div Power[k] \in Nat
         /\ v \div Power[k]
              = ((v \div Power[k + 1]) * Base) + ((v \div Power[k]) % Base)
<1> USE SizeFacts
<1>1. Power[k] \in Nat \ {0} /\ Power[k + 1] = Base * Power[k]
  BY PowerDef
<1> SUFFICES ASSUME NEW P \in Nat \ {0}
             PROVE  /\ v \div P \in Nat
                    /\ v \div P = ((v \div (Base * P)) * Base) + ((v \div P) % Base)
  BY <1>1
<1>2. v \div P \in Nat
  BY Division
<1>3. (v \div P) \div Base = v \div (Base * P)
  BY DivOfDiv
<1>4. \A x \in Nat : x = ((x \div Base) * Base) + (x % Base)
  BY Division
<1> QED BY <1>2, <1>3, <1>4

LEMMA LeadingDef ==
  ASSUME NEW s
  PROVE  /\ Leading(s)[0] = 0
         /\ \A i \in 1 .. Width : Leading(s)[i] = (Leading(s)[i - 1] * Base) + s[i]
<1> USE SizeFacts
<1> DEFINE T(before, i) == (before * Base) + s[i]
           R(f, n) == [i \in 0 .. n |-> IF i = 0 THEN 0 ELSE T(f[i - 1], i)]
           S == {n \in Nat : \E f : f = R(f, n)}
<1>1. Nat \subseteq S
  <2> HIDE DEF T
  <2>1. 0 \in S
    <3> DEFINE f == [i \in 0 .. 0 |-> 0]
    <3>1. f = R(f, 0)
      OBVIOUS
    <3> QED BY <3>1
  <2>2. ASSUME NEW n \in Nat, n \in S PROVE n + 1 \in S
    <3>1. PICK f : f = R(f, n)
      BY <2>2
    <3> DEFINE h == [i \in 0 .. n + 1 |-> IF i <= n THEN f[i] ELSE T(f[n], n + 1)]
    <3>2. h = R(h, n + 1)
      <4>1. ASSUME NEW i \in 0 .. n + 1
            PROVE  h[i] = IF i = 0 THEN 0 ELSE T(h[i - 1], i)
        <5>1. CASE i = n + 1
          BY <5>1
        <5>2. CASE i \in 0 .. n
          BY <3>1, <5>2
        <5> QED BY <5>1, <5>2
      <4>2. h = [i \in 0 .. n + 1 |-> h[i]]
        OBVIOUS
      <4> HIDE DEF h
      <4> QED BY <4>1, <4>2
    <3> HIDE DEF h, R
    <3> QED BY <3>2
  <2> HIDE DEF S
  <2> QED BY <2>1, <2>2, SetInduction
<1>2. Leading(s) = R(Leading(s), Width)
  <2> HIDE DEF R
  <2>1. Leading(s) = CHOOSE f : f = R(f, Width)
    BY DEF Leading, R
  <2> QED BY <1>1, <2>1
<1> DEFINE f == Leading(s)
<1>3. \A i \in 0 .. Width : f[i] = IF i = 0 THEN 0 ELSE (f[i - 1] * Base) + s[i]
  <2>1. f = R(f, Width)
    BY <1>2
  <2> HIDE DEF f
  <2> QED BY <2>1
<1> HIDE DEF f
<1>4. 0 \in 0 .. Width /\ \A i \in 1 .. Width : i \in 0 .. Width /\ i # 0
  OBVIOUS
<1>5. f[0] = 0 /\ \A i \in 1 .. Width : f[i] = (f[i - 1] * Base) + s[i]
  BY <1>3, <1>4
<1> QED BY <1>5 DEF f

BigEndian(v) == [i \in 1 .. Width |-> (v \div Power[Width - i]) % Base]

LEMMA BigEndianBytes ==
  ASSUME NEW v \in Nat
  PROVE  BigEndian(v) \in Bytes /\ Len(BigEndian(v)) = Width
<1> USE SizeFacts
<1>1. ASSUME NEW i \in 1 .. Width PROVE (v \div Power[Width - i]) % Base \in Byte
  <2>1. Power[Width - i] \in Nat \ {0}
    BY PowerDef
  <2>2. v \div Power[Width - i] \in Nat
    BY <2>1, Division
  <2> QED BY <2>2 DEF Byte
<1> QED BY <1>1 DEF BigEndian, Bytes

\* An unsigned integer is read back, whatever follows.
LEMMA Uint64Reads ==
  ASSUME NEW v \in 0 .. Modulus - 1, NEW r \in Bytes
  PROVE  ReadUint64(BigEndian(v) \o r) = [value |-> v, rest |-> r]
<1> USE SizeFacts
<1> DEFINE q == BigEndian(v)
           s == q \o r
           S == {i \in Nat : i <= Width => Leading(s)[i] = v \div Power[Width - i]}
<1>1. v \in Nat /\ q \in Bytes /\ Len(q) = Width /\ Width \in Nat
  BY BigEndianBytes, ModulusFacts
<1>2. \A i \in 1 .. Width : s[i] = (v \div Power[Width - i]) % Base
  <2>1. \A i \in 1 .. Width : q[i] = (v \div Power[Width - i]) % Base
    BY DEF BigEndian
  <2>2. \A i \in 1 .. Width : s[i] = q[i]
    <3> HIDE DEF q
    <3> QED BY <1>1 DEF Bytes
  <2> QED BY <2>1, <2>2
<1>3. 0 \in S
  <2>1. v \div Power[Width] = 0
    BY ModulusFacts DEF Modulus
  <2> QED BY <2>1, LeadingDef
<1>4. ASSUME NEW i \in Nat, i \in S PROVE i + 1 \in S
  <2> SUFFICES ASSUME i + 1 <= Width
               PROVE  Leading(s)[i + 1] = v \div Power[Width - (i + 1)]
    OBVIOUS
  <2> DEFINE k == Width - (i + 1)
             x == v \div Power[k]
  <2>1. k \in Nat /\ Width - i = k + 1 /\ i + 1 \in 1 .. Width /\ (i + 1) - 1 = i
    OBVIOUS
  <2>2. Leading(s)[i + 1] = (Leading(s)[i] * Base) + s[i + 1]
    BY <2>1, LeadingDef
  <2>3. Leading(s)[i] = v \div Power[k + 1]
    BY <1>4, <2>1
  <2>4. s[i + 1] = x % Base
    BY <1>2, <2>1
  <2>5. x = ((v \div Power[k + 1]) * Base) + (x % Base)
    BY <1>1, <2>1, NextDigit
  <2> HIDE DEF x, k
  <2> QED BY <2>2, <2>3, <2>4, <2>5 DEF x, k
<1>5. Nat \subseteq S
  <2> HIDE DEF S
  <2> QED BY <1>3, <1>4, SetInduction
<1>6. Leading(s)[Width] = v
  <2>1. Width \in S /\ Width - Width = 0
    BY <1>5
  <2>2. Leading(s)[Width] = v \div Power[0]
    BY <2>1
  <2> QED BY <1>1, <2>2, PowerDef
<1>7. SubSeq(s, Width + 1, Len(s)) = r
  <2> HIDE DEF q
  <2> QED BY <1>1, TakenOff
<1> HIDE DEF s
<1> QED BY <1>6, <1>7 DEF ReadUint64, s

\* The conversion to an unsigned integer and back loses nothing.
LEMMA Int64Reads ==
  ASSUME NEW v \in MinInt .. MaxInt, NEW r \in Bytes
  PROVE  /\ v % Modulus \in 0 .. Modulus - 1
         /\ ReadInt64(BigEndian(v % Modulus) \o r) = [value |-> v, rest |-> r]
<1> DEFINE u == v % Modulus
<1>1. u = IF v >= 0 THEN v ELSE v + Modulus
  BY ModulusFacts
<1>2. u \in 0 .. Modulus - 1
  BY <1>1, ModulusFacts
<1>3. (IF u > MaxInt THEN u - Modulus ELSE u) = v
  BY <1>1, ModulusFacts
<1> HIDE DEF u
<1>4. ReadUint64(BigEndian(u) \o r) = [value |-> u, rest |-> r]
  BY <1>2, Uint64Reads
<1> QED BY <1>2, <1>3, <1>4 DEF ReadInt64, u

-----------------------------------------------------------------------------
(* The methods of Buffer *)

Buffer == [bytes : Bytes, err : {Nil, ErrTimeOutOfRange}]

Extended(buf, p) == [bytes |-> buf.bytes \o p, err |-> buf.err]

StringBytes(s) == Uvarint[Len(s)] \o s

BoolBytes(v) == IF v THEN <<1>> ELSE <<0>>

LEMMA WrittenExtends ==
  ASSUME NEW buf \in Buffer, NEW p \in Bytes
  PROVE  Written(buf, p) = Extended(buf, p) /\ Extended(buf, p) \in Buffer
<1>1. buf.bytes \o p \in Bytes
  BY Joined DEF Buffer
<1>2. \A q : [buf EXCEPT !.bytes = q] = [bytes |-> q, err |-> buf.err]
  BY DEF Buffer
<1>3. Written(buf, p) = Extended(buf, p)
  <2>1. Written(buf, p) = [buf EXCEPT !.bytes = buf.bytes \o p]
    BY DEF Written
  <2> QED BY <1>2, <2>1 DEF Extended
<1>4. Extended(buf, p) \in Buffer
  BY <1>1 DEF Extended, Buffer
<1> QED BY <1>3, <1>4

LEMMA LengthInNat == \A s \in Bytes : Len(s) \in Nat
BY DEF Bytes

LEMMA StringBytesType ==
  ASSUME NEW s \in Bytes
  PROVE  Uvarint[Len(s)] \in Bytes /\ StringBytes(s) \in Bytes
BY LengthInNat, UvarintDef, Joined DEF StringBytes

LEMMA StringWrites ==
  ASSUME NEW buf \in Buffer, NEW s \in Bytes
  PROVE  String(buf, s) = Extended(buf, StringBytes(s))
<1> DEFINE n == Uvarint[Len(s)]
<1>1. n \in Bytes /\ buf.bytes \in Bytes
  BY StringBytesType DEF Buffer
<1>2. Count(buf, Len(s)) = Extended(buf, n) /\ Extended(buf, n) \in Buffer
  BY <1>1, WrittenExtends DEF Count
<1>3. String(buf, s) = Extended(Extended(buf, n), s)
  BY <1>2, WrittenExtends DEF String
<1>4. (buf.bytes \o n) \o s = buf.bytes \o (n \o s)
  BY <1>1, Joined
<1> QED BY <1>3, <1>4 DEF Extended, StringBytes

LEMMA StringReads ==
  ASSUME NEW s \in Bytes, NEW r \in Bytes
  PROVE  ReadString(StringBytes(s) \o r) = [value |-> s, rest |-> r]
<1> DEFINE n == Len(s)
           u == Uvarint[n]
           q == StringBytes(s) \o r
<1>1. n \in Nat /\ u \in Bytes
  BY LengthInNat, StringBytesType
<1>2. q = u \o (s \o r) /\ s \o r \in Bytes
  BY <1>1, Joined DEF StringBytes
<1> HIDE DEF q
<1>3. ReadVarint[q] = [value |-> n, rest |-> s \o r]
  BY <1>1, <1>2, VarintReads
<1>4. /\ SubSeq(s \o r, 1, n) = s
      /\ SubSeq(s \o r, n + 1, Len(s \o r)) = r
  BY TakenOff
<1>5. ReadString(q) = [value |-> SubSeq(s \o r, 1, n),
                       rest  |-> SubSeq(s \o r, n + 1, Len(s \o r))]
  BY <1>3 DEF ReadString
<1> QED BY <1>4, <1>5 DEF q

LEMMA BoolWrites ==
  ASSUME NEW buf \in Buffer, NEW v \in BOOLEAN
  PROVE  /\ BoolBytes(v) \in Bytes
         /\ Bool(buf, v) = Extended(buf, BoolBytes(v))
<1>1. 0 \in Byte /\ 1 \in Byte
  BY SizeFacts DEF Byte
<1>2. BoolBytes(v) \in Bytes
  BY <1>1, Joined DEF BoolBytes
<1> QED BY <1>2, WrittenExtends DEF Bool, BoolBytes

LEMMA BoolReads ==
  ASSUME NEW v \in BOOLEAN, NEW r \in Bytes
  PROVE  ReadBool(BoolBytes(v) \o r) = [value |-> v, rest |-> r]
<1>1. 0 \in Byte /\ 1 \in Byte
  BY SizeFacts DEF Byte
<1>2. CASE v
  <2>1. BoolBytes(v) = <<1>>
    BY <1>2 DEF BoolBytes
  <2>2. Head(<<1>> \o r) = 1 /\ Tail(<<1>> \o r) = r
    BY <1>1, FirstByte
  <2> QED BY <1>2, <2>1, <2>2 DEF ReadBool
<1>3. CASE ~v
  <2>1. BoolBytes(v) = <<0>>
    BY <1>3 DEF BoolBytes
  <2>2. Head(<<0>> \o r) = 0 /\ Tail(<<0>> \o r) = r
    BY <1>1, FirstByte
  <2> QED BY <1>3, <2>1, <2>2 DEF ReadBool
<1> QED BY <1>2, <1>3

LEMMA Uint64Writes ==
  ASSUME NEW buf \in Buffer, NEW v \in Nat
  PROVE  Uint64(buf, v) = Extended(buf, BigEndian(v))
BY BigEndianBytes, WrittenExtends DEF Uint64, BigEndian

LEMMA Int64Writes ==
  ASSUME NEW buf \in Buffer, NEW v \in Int
  PROVE  /\ v % Modulus \in Nat
         /\ Int64(buf, v) = Extended(buf, BigEndian(v % Modulus))
<1>1. v % Modulus \in Nat
  BY ModulusFacts
<1> QED BY <1>1, Uint64Writes DEF Int64

\* An instant out of range is not written, and the error is kept from then on.
LEMMA TimeWrites ==
  ASSUME NEW buf \in Buffer, NEW t \in Int
  PROVE  IF ValidTime(t)
         THEN Time(buf, t) = Extended(buf, BigEndian(t % Modulus))
         ELSE Time(buf, t) = [bytes |-> buf.bytes, err |-> ErrTimeOutOfRange]
<1>1. CASE ValidTime(t)
  BY <1>1, Int64Writes DEF Time
<1>2. CASE ~ValidTime(t)
  BY <1>2 DEF Time, Buffer
<1> QED BY <1>1, <1>2

-----------------------------------------------------------------------------
(* Reading what was written in several pieces *)

\* w[i] is what has been written with the pieces up to p[i]; h[i] is what has
\* been read by then from the bytes t, which follow w[0] and end in r; each
\* step reads the piece p[i], whatever follows it, as the value v[i].
Chain(n, S, v, w, p, h, t, r) ==
  /\ n \in Nat /\ v \in [1 .. n -> S]
  /\ w \in [0 .. n -> Bytes] /\ p \in [1 .. n -> Bytes]
  /\ \A i \in 1 .. n : w[i] = w[i - 1] \o p[i]
  /\ t \in Bytes /\ r \in Bytes /\ w[0] \o t = w[n] \o r
  /\ h[0] = [value |-> <<>>, rest |-> t]
  /\ \A i \in 1 .. n : \A q \in Bytes :
       h[i - 1].rest = p[i] \o q =>
         h[i] = [value |-> Append(h[i - 1].value, v[i]), rest |-> q]

LEMMA Cancelled ==
  ASSUME NEW s \in Bytes, NEW t \in Bytes, NEW u \in Bytes, s \o t = s \o u
  PROVE  t = u
<1>1. t = SubSeq(s \o t, Len(s) + 1, Len(s \o t))
  BY TakenOff
<1>2. u = SubSeq(s \o u, Len(s) + 1, Len(s \o u))
  BY TakenOff
<1> QED BY <1>1, <1>2

LEMMA ChainWritten ==
  ASSUME NEW n \in Nat, NEW w \in [0 .. n -> Bytes], NEW p \in [1 .. n -> Bytes],
         \A i \in 1 .. n : w[i] = w[i - 1] \o p[i]
  PROVE  \A i \in 0 .. n : \E z \in Bytes : w[n] = w[i] \o z
<1> DEFINE Z(i) == \E z \in Bytes : w[n] = w[i] \o z
           S == {k \in Nat : k <= n => Z(n - k)}
<1>1. Z(n)
  <2>1. w[n] \in Bytes
    <3>1. n \in 0 .. n
      OBVIOUS
    <3> QED BY <3>1
  <2>2. <<>> \in Bytes /\ w[n] = w[n] \o <<>>
    BY <2>1, Joined
  <2> QED BY <2>2
<1>2. ASSUME NEW i \in 1 .. n, Z(i) PROVE Z(i - 1)
  <2>1. PICK z \in Bytes : w[n] = w[i] \o z
    BY <1>2
  <2>2. w[i] = w[i - 1] \o p[i] /\ w[i - 1] \in Bytes /\ p[i] \in Bytes
    <3>1. i - 1 \in 0 .. n
      OBVIOUS
    <3> QED BY <3>1
  <2>3. p[i] \o z \in Bytes /\ w[i] \o z = w[i - 1] \o (p[i] \o z)
    <3>1. PICK a \in Bytes, b \in Bytes : a = w[i - 1] /\ b = p[i] /\ w[i] = a \o b
      BY <2>2
    <3>2. b \o z \in Bytes /\ (a \o b) \o z = a \o (b \o z)
      BY Joined
    <3> QED BY <3>1, <3>2
  <2> QED BY <2>1, <2>3
<1> HIDE DEF Z
<1>3. Nat \subseteq S
  <2>1. 0 \in S
    <3>1. n - 0 = n
      OBVIOUS
    <3> QED BY <1>1, <3>1
  <2>2. ASSUME NEW k \in Nat, k \in S PROVE k + 1 \in S
    <3>1. k + 1 <= n => n - k \in 1 .. n /\ (n - k) - 1 = n - (k + 1)
      OBVIOUS
    <3>2. k + 1 <= n => Z(n - k)
      BY <2>2
    <3>3. k + 1 <= n => Z((n - k) - 1)
      BY <1>2, <3>1, <3>2
    <3> QED BY <3>1, <3>3
  <2> HIDE DEF S
  <2> QED BY <2>1, <2>2, SetInduction
<1>4. ASSUME NEW i \in 0 .. n PROVE Z(i)
  <2>1. n - i \in Nat /\ n - i <= n /\ n - (n - i) = i
    OBVIOUS
  <2>2. Z(n - (n - i))
    BY <1>3, <2>1
  <2> QED BY <2>1, <2>2
<1> QED BY <1>4 DEF Z

LEMMA ChainRead ==
  ASSUME NEW n, NEW S, NEW v, NEW w, NEW p, NEW h, NEW t, NEW r,
         Chain(n, S, v, w, p, h, t, r)
  PROVE  h[n] = [value |-> v, rest |-> r]
<1>a. n \in Nat /\ 0 \in 0 .. n /\ n \in 0 .. n
  BY DEF Chain
<1>b. /\ v \in [1 .. n -> S]
      /\ w \in [0 .. n -> Bytes] /\ p \in [1 .. n -> Bytes]
      /\ \A i \in 1 .. n : w[i] = w[i - 1] \o p[i]
  BY DEF Chain
<1>c. t \in Bytes /\ r \in Bytes /\ w[0] \o t = w[n] \o r
  BY DEF Chain
<1>d. h[0] = [value |-> <<>>, rest |-> t]
  BY DEF Chain
<1>e. \A i \in 1 .. n : \A q \in Bytes :
        h[i - 1].rest = p[i] \o q =>
          h[i] = [value |-> Append(h[i - 1].value, v[i]), rest |-> q]
  BY DEF Chain
<1> DEFINE V(i) == [j \in 1 .. i |-> v[j]]
           P(i) == /\ h[i] = [value |-> V(i), rest |-> h[i].rest]
                   /\ h[i].rest \in Bytes
                   /\ w[i] \o h[i].rest = w[n] \o r
           G == {i \in Nat : i <= n => P(i)}
<1>1. P(0)
  <2>1. V(0) = <<>>
    OBVIOUS
  <2>2. h[0].value = <<>> /\ h[0].rest = t
    BY <1>d
  <2> HIDE DEF V
  <2> QED BY <1>c, <1>d, <2>1, <2>2
<1>2. ASSUME NEW k \in Nat, k + 1 <= n, P(k) PROVE P(k + 1)
  <2> DEFINE i == k + 1
             f == h[k].rest
  <2>1. i \in 1 .. n /\ i - 1 = k /\ k \in 0 .. n /\ i \in 0 .. n
    BY <1>2, <1>a
  <2> HIDE DEF i
  <2>2. /\ h[k] = [value |-> V(k), rest |-> f]
        /\ f \in Bytes
        /\ w[k] \o f = w[n] \o r
    BY <1>2
  <2> HIDE DEF P, V, f
  <2>3. PICK z \in Bytes : w[n] = w[i] \o z
    BY <1>a, <1>b, <2>1, ChainWritten
  <2>4. /\ w[i] = w[k] \o p[i] /\ w[k] \in Bytes /\ w[i] \in Bytes
        /\ p[i] \in Bytes /\ r \in Bytes
    BY <1>b, <1>c, <2>1
  <2>5. z \o r \in Bytes /\ w[n] \o r = w[i] \o (z \o r)
    <3> SUFFICES ASSUME NEW a \in Bytes
                 PROVE  z \o r \in Bytes /\ (a \o z) \o r = a \o (z \o r)
      BY <2>3, <2>4
    <3> QED BY <2>4, Joined
  <2>6. p[i] \o (z \o r) \in Bytes /\ w[n] \o r = w[k] \o (p[i] \o (z \o r))
    <3>1. /\ p[i] \o (z \o r) \in Bytes
          /\ w[i] \o (z \o r) = w[k] \o (p[i] \o (z \o r))
      <4>1. PICK a \in Bytes, b \in Bytes : a = w[k] /\ b = p[i] /\ w[i] = a \o b
        BY <2>4
      <4> DEFINE c == z \o r
      <4>2. c \in Bytes
        BY <2>5
      <4> HIDE DEF c
      <4>3. b \o c \in Bytes /\ (a \o b) \o c = a \o (b \o c)
        BY <4>2, Joined
      <4> QED BY <4>1, <4>3 DEF c
    <3> QED BY <2>5, <3>1
  <2>7. f = p[i] \o (z \o r)
    BY <2>2, <2>4, <2>6, Cancelled
  <2>8. h[i] = [value |-> Append(V(k), v[i]), rest |-> z \o r]
    <3>1. h[i - 1].rest = p[i] \o (z \o r) /\ h[i - 1].value = V(k)
      <4>1. h[k].rest = f /\ h[k].value = V(k)
        BY <2>2
      <4> QED BY <2>1, <2>7, <4>1
    <3> QED BY <1>e, <2>1, <2>5, <3>1
  <2>9. Append(V(k), v[i]) = V(i)
    <3>1. V(k) \in Seq(S) /\ v[i] \in S /\ Len(V(k)) = k
      BY <1>a, <1>b, <2>1 DEF V
    <3>2. V(i) \in Seq(S) /\ Len(V(i)) = i
      BY <1>a, <1>b, <2>1 DEF V
    <3>3. /\ Append(V(k), v[i]) \in Seq(S)
          /\ Len(Append(V(k), v[i])) = k + 1
          /\ \A j \in 1 .. k : Append(V(k), v[i])[j] = V(k)[j]
          /\ Append(V(k), v[i])[k + 1] = v[i]
      BY <3>1, AppendProperties
    <3>4. \A j \in 1 .. i : Append(V(k), v[i])[j] = V(i)[j]
      BY <2>1, <3>3 DEF V, i
    <3> QED BY <2>1, <3>2, <3>3, <3>4, SeqEqual
  <2>10. P(i)
    <3>1. h[i].rest = z \o r /\ h[i].value = V(i)
      BY <2>8, <2>9
    <3> QED BY <2>5, <2>8, <2>9, <3>1 DEF P
  <2> QED BY <2>10 DEF i
<1> HIDE DEF P
<1>3. Nat \subseteq G
  <2>1. 0 \in G
    BY <1>1
  <2>2. ASSUME NEW k \in Nat, k \in G PROVE k + 1 \in G
    <3>1. k + 1 <= n => k <= n
      BY <1>a
    <3> QED BY <1>2, <2>2, <3>1
  <2> HIDE DEF G
  <2> QED BY <2>1, <2>2, SetInduction
<1>4. P(n)
  BY <1>3, <1>a
<1>5. V(n) = v
  BY <1>b
<1>6. /\ h[n] = [value |-> v, rest |-> h[n].rest] /\ h[n].rest \in Bytes
      /\ w[n] \in Bytes /\ w[n] \o h[n].rest = w[n] \o r
  BY <1>4, <1>5, <1>a, <1>b DEF P
<1>7. h[n].rest = r
  BY <1>6, <1>c, Cancelled
<1> QED BY <1>6, <1>7

=============================================================================
