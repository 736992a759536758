--------------------------- MODULE MessagesProofs ---------------------------
(***************************************************************************)
(* Signed messages: canonical bytes say which message they are of and what *)
(* its fields hold, for every size of the encoding, every set of tags and  *)
(* all values of the Go types.                                             *)
(***************************************************************************)
EXTENDS Messages, CanonProofs

-----------------------------------------------------------------------------
(* What is written and read in several steps obeys its recursion *)

LEMMA ElementUpToDef ==
  ASSUME NEW buf, NEW kinds, NEW e, Len(kinds) \in Nat
  PROVE  /\ ElementUpTo(buf, kinds, e)[0] = buf
         /\ \A i \in 1 .. Len(kinds) :
              ElementUpTo(buf, kinds, e)[i]
                = PutScalar(ElementUpTo(buf, kinds, e)[i - 1], kinds[i], e[i])
<1> DEFINE N == Len(kinds)
           c == buf
           T(before, i) == PutScalar(before, kinds[i], e[i])
           R(f, k) == [i \in 0 .. k |-> IF i = 0 THEN c ELSE T(f[i - 1], i)]
           S == {k \in Nat : \E f : f = R(f, k)}
<1>1. N \in Nat
  OBVIOUS
<1>2. ElementUpTo(buf, kinds, e) = CHOOSE f : f = R(f, N)
  BY DEF ElementUpTo
<1> HIDE DEF N, c, T
<1>3. Nat \subseteq S
  <2>1. 0 \in S
    <3> DEFINE f == [i \in 0 .. 0 |-> c]
    <3>1. f = R(f, 0)
      OBVIOUS
    <3> QED BY <3>1
  <2>2. ASSUME NEW k \in Nat, k \in S PROVE k + 1 \in S
    <3>1. PICK f : f = R(f, k)
      BY <2>2
    <3> DEFINE h == [i \in 0 .. k + 1 |-> IF i <= k THEN f[i] ELSE T(f[k], k + 1)]
    <3>2. ASSUME NEW i \in 0 .. k + 1
          PROVE  h[i] = IF i = 0 THEN c ELSE T(h[i - 1], i)
      <4>1. CASE i = k + 1
        BY <4>1
      <4>2. CASE i \in 0 .. k
        BY <3>1, <4>2
      <4> QED BY <4>1, <4>2
    <3>3. h = [i \in 0 .. k + 1 |-> h[i]]
      OBVIOUS
    <3> HIDE DEF h
    <3>4. h = R(h, k + 1)
      BY <3>2, <3>3
    <3> HIDE DEF R
    <3> QED BY <3>4
  <2> HIDE DEF S
  <2> QED BY <2>1, <2>2, SetInduction
<1> DEFINE g == ElementUpTo(buf, kinds, e)
<1>4. g = R(g, N)
  <2> HIDE DEF R
  <2> QED BY <1>1, <1>2, <1>3
<1> HIDE DEF g
<1>5. /\ g[0] = c
      /\ \A i \in 1 .. N : g[i] = T(g[i - 1], i)
  BY <1>1, <1>4
<1> QED BY <1>5 DEF g, N, c, T

LEMMA ListUpToDef ==
  ASSUME NEW buf, NEW kinds, NEW list, Len(list) \in Nat
  PROVE  /\ ListUpTo(buf, kinds, list)[0] = Count(buf, Len(list))
         /\ \A i \in 1 .. Len(list) :
              ListUpTo(buf, kinds, list)[i]
                = PutElement(ListUpTo(buf, kinds, list)[i - 1], kinds, list[i])
<1> DEFINE N == Len(list)
           c == Count(buf, Len(list))
           T(before, i) == PutElement(before, kinds, list[i])
           R(f, k) == [i \in 0 .. k |-> IF i = 0 THEN c ELSE T(f[i - 1], i)]
           S == {k \in Nat : \E f : f = R(f, k)}
<1>1. N \in Nat
  OBVIOUS
<1>2. ListUpTo(buf, kinds, list) = CHOOSE f : f = R(f, N)
  BY DEF ListUpTo
<1> HIDE DEF N, c, T
<1>3. Nat \subseteq S
  <2>1. 0 \in S
    <3> DEFINE f == [i \in 0 .. 0 |-> c]
    <3>1. f = R(f, 0)
      OBVIOUS
    <3> QED BY <3>1
  <2>2. ASSUME NEW k \in Nat, k \in S PROVE k + 1 \in S
    <3>1. PICK f : f = R(f, k)
      BY <2>2
    <3> DEFINE h == [i \in 0 .. k + 1 |-> IF i <= k THEN f[i] ELSE T(f[k], k + 1)]
    <3>2. ASSUME NEW i \in 0 .. k + 1
          PROVE  h[i] = IF i = 0 THEN c ELSE T(h[i - 1], i)
      <4>1. CASE i = k + 1
        BY <4>1
      <4>2. CASE i \in 0 .. k
        BY <3>1, <4>2
      <4> QED BY <4>1, <4>2
    <3>3. h = [i \in 0 .. k + 1 |-> h[i]]
      OBVIOUS
    <3> HIDE DEF h
    <3>4. h = R(h, k + 1)
      BY <3>2, <3>3
    <3> HIDE DEF R
    <3> QED BY <3>4
  <2> HIDE DEF S
  <2> QED BY <2>1, <2>2, SetInduction
<1> DEFINE g == ListUpTo(buf, kinds, list)
<1>4. g = R(g, N)
  <2> HIDE DEF R
  <2> QED BY <1>1, <1>2, <1>3
<1> HIDE DEF g
<1>5. /\ g[0] = c
      /\ \A i \in 1 .. N : g[i] = T(g[i - 1], i)
  BY <1>1, <1>4
<1> QED BY <1>5 DEF g, N, c, T

LEMMA EncodeUpToDef ==
  ASSUME NEW m, Len(Order[m.type]) \in Nat
  PROVE  /\ EncodeUpTo(m)[0] = New(Tag[m.type])
         /\ \A i \in 1 .. Len(Order[m.type]) :
              EncodeUpTo(m)[i]
                = Put(EncodeUpTo(m)[i - 1], Kind(m.type, i), m.fields[i])
<1> DEFINE N == Len(Order[m.type])
           c == New(Tag[m.type])
           T(before, i) == Put(before, Kind(m.type, i), m.fields[i])
           R(f, k) == [i \in 0 .. k |-> IF i = 0 THEN c ELSE T(f[i - 1], i)]
           S == {k \in Nat : \E f : f = R(f, k)}
<1>1. N \in Nat
  OBVIOUS
<1>2. EncodeUpTo(m) = CHOOSE f : f = R(f, N)
  BY DEF EncodeUpTo
<1> HIDE DEF N, c, T
<1>3. Nat \subseteq S
  <2>1. 0 \in S
    <3> DEFINE f == [i \in 0 .. 0 |-> c]
    <3>1. f = R(f, 0)
      OBVIOUS
    <3> QED BY <3>1
  <2>2. ASSUME NEW k \in Nat, k \in S PROVE k + 1 \in S
    <3>1. PICK f : f = R(f, k)
      BY <2>2
    <3> DEFINE h == [i \in 0 .. k + 1 |-> IF i <= k THEN f[i] ELSE T(f[k], k + 1)]
    <3>2. ASSUME NEW i \in 0 .. k + 1
          PROVE  h[i] = IF i = 0 THEN c ELSE T(h[i - 1], i)
      <4>1. CASE i = k + 1
        BY <4>1
      <4>2. CASE i \in 0 .. k
        BY <3>1, <4>2
      <4> QED BY <4>1, <4>2
    <3>3. h = [i \in 0 .. k + 1 |-> h[i]]
      OBVIOUS
    <3> HIDE DEF h
    <3>4. h = R(h, k + 1)
      BY <3>2, <3>3
    <3> HIDE DEF R
    <3> QED BY <3>4
  <2> HIDE DEF S
  <2> QED BY <2>1, <2>2, SetInduction
<1> DEFINE g == EncodeUpTo(m)
<1>4. g = R(g, N)
  <2> HIDE DEF R
  <2> QED BY <1>1, <1>2, <1>3
<1> HIDE DEF g
<1>5. /\ g[0] = c
      /\ \A i \in 1 .. N : g[i] = T(g[i - 1], i)
  BY <1>1, <1>4
<1> QED BY <1>5 DEF g, N, c, T

LEMMA ElementReadDef ==
  ASSUME NEW s, NEW kinds, Len(kinds) \in Nat
  PROVE  /\ ElementRead(s, kinds)[0] = [value |-> <<>>, rest |-> s]
         /\ \A i \in 1 .. Len(kinds) :
              ElementRead(s, kinds)[i]
                = ThenScalar(ElementRead(s, kinds)[i - 1], kinds[i])
<1> DEFINE N == Len(kinds)
           c == [value |-> <<>>, rest |-> s]
           T(before, i) == ThenScalar(before, kinds[i])
           R(f, k) == [i \in 0 .. k |-> IF i = 0 THEN c ELSE T(f[i - 1], i)]
           S == {k \in Nat : \E f : f = R(f, k)}
<1>1. N \in Nat
  OBVIOUS
<1>2. ElementRead(s, kinds) = CHOOSE f : f = R(f, N)
  BY DEF ElementRead
<1> HIDE DEF N, c, T
<1>3. Nat \subseteq S
  <2>1. 0 \in S
    <3> DEFINE f == [i \in 0 .. 0 |-> c]
    <3>1. f = R(f, 0)
      OBVIOUS
    <3> QED BY <3>1
  <2>2. ASSUME NEW k \in Nat, k \in S PROVE k + 1 \in S
    <3>1. PICK f : f = R(f, k)
      BY <2>2
    <3> DEFINE h == [i \in 0 .. k + 1 |-> IF i <= k THEN f[i] ELSE T(f[k], k + 1)]
    <3>2. ASSUME NEW i \in 0 .. k + 1
          PROVE  h[i] = IF i = 0 THEN c ELSE T(h[i - 1], i)
      <4>1. CASE i = k + 1
        BY <4>1
      <4>2. CASE i \in 0 .. k
        BY <3>1, <4>2
      <4> QED BY <4>1, <4>2
    <3>3. h = [i \in 0 .. k + 1 |-> h[i]]
      OBVIOUS
    <3> HIDE DEF h
    <3>4. h = R(h, k + 1)
      BY <3>2, <3>3
    <3> HIDE DEF R
    <3> QED BY <3>4
  <2> HIDE DEF S
  <2> QED BY <2>1, <2>2, SetInduction
<1> DEFINE g == ElementRead(s, kinds)
<1>4. g = R(g, N)
  <2> HIDE DEF R
  <2> QED BY <1>1, <1>2, <1>3
<1> HIDE DEF g
<1>5. /\ g[0] = c
      /\ \A i \in 1 .. N : g[i] = T(g[i - 1], i)
  BY <1>1, <1>4
<1> QED BY <1>5 DEF g, N, c, T

LEMMA ListReadDef ==
  ASSUME NEW s, NEW kinds, ReadVarint[s].value \in Nat
  PROVE  /\ ListRead(s, kinds)[0] = [value |-> <<>>, rest |-> ReadVarint[s].rest]
         /\ \A i \in 1 .. ReadVarint[s].value :
              ListRead(s, kinds)[i]
                = ThenElement(ListRead(s, kinds)[i - 1], kinds)
<1> DEFINE N == ReadVarint[s].value
           c == [value |-> <<>>, rest |-> ReadVarint[s].rest]
           T(before, i) == ThenElement(before, kinds)
           R(f, k) == [i \in 0 .. k |-> IF i = 0 THEN c ELSE T(f[i - 1], i)]
           S == {k \in Nat : \E f : f = R(f, k)}
<1>1. N \in Nat
  OBVIOUS
<1>2. ListRead(s, kinds) = CHOOSE f : f = R(f, N)
  BY DEF ListRead
<1> HIDE DEF N, c, T
<1>3. Nat \subseteq S
  <2>1. 0 \in S
    <3> DEFINE f == [i \in 0 .. 0 |-> c]
    <3>1. f = R(f, 0)
      OBVIOUS
    <3> QED BY <3>1
  <2>2. ASSUME NEW k \in Nat, k \in S PROVE k + 1 \in S
    <3>1. PICK f : f = R(f, k)
      BY <2>2
    <3> DEFINE h == [i \in 0 .. k + 1 |-> IF i <= k THEN f[i] ELSE T(f[k], k + 1)]
    <3>2. ASSUME NEW i \in 0 .. k + 1
          PROVE  h[i] = IF i = 0 THEN c ELSE T(h[i - 1], i)
      <4>1. CASE i = k + 1
        BY <4>1
      <4>2. CASE i \in 0 .. k
        BY <3>1, <4>2
      <4> QED BY <4>1, <4>2
    <3>3. h = [i \in 0 .. k + 1 |-> h[i]]
      OBVIOUS
    <3> HIDE DEF h
    <3>4. h = R(h, k + 1)
      BY <3>2, <3>3
    <3> HIDE DEF R
    <3> QED BY <3>4
  <2> HIDE DEF S
  <2> QED BY <2>1, <2>2, SetInduction
<1> DEFINE g == ListRead(s, kinds)
<1>4. g = R(g, N)
  <2> HIDE DEF R
  <2> QED BY <1>1, <1>2, <1>3
<1> HIDE DEF g
<1>5. /\ g[0] = c
      /\ \A i \in 1 .. N : g[i] = T(g[i - 1], i)
  BY <1>1, <1>4
<1> QED BY <1>5 DEF g, N, c, T

LEMMA FieldsReadDef ==
  ASSUME NEW s, NEW type, Len(Order[type]) \in Nat
  PROVE  /\ FieldsRead(s, type)[0] = [value |-> <<>>, rest |-> s]
         /\ \A i \in 1 .. Len(Order[type]) :
              FieldsRead(s, type)[i]
                = ThenField(FieldsRead(s, type)[i - 1], Kind(type, i))
<1> DEFINE N == Len(Order[type])
           c == [value |-> <<>>, rest |-> s]
           T(before, i) == ThenField(before, Kind(type, i))
           R(f, k) == [i \in 0 .. k |-> IF i = 0 THEN c ELSE T(f[i - 1], i)]
           S == {k \in Nat : \E f : f = R(f, k)}
<1>1. N \in Nat
  OBVIOUS
<1>2. FieldsRead(s, type) = CHOOSE f : f = R(f, N)
  BY DEF FieldsRead
<1> HIDE DEF N, c, T
<1>3. Nat \subseteq S
  <2>1. 0 \in S
    <3> DEFINE f == [i \in 0 .. 0 |-> c]
    <3>1. f = R(f, 0)
      OBVIOUS
    <3> QED BY <3>1
  <2>2. ASSUME NEW k \in Nat, k \in S PROVE k + 1 \in S
    <3>1. PICK f : f = R(f, k)
      BY <2>2
    <3> DEFINE h == [i \in 0 .. k + 1 |-> IF i <= k THEN f[i] ELSE T(f[k], k + 1)]
    <3>2. ASSUME NEW i \in 0 .. k + 1
          PROVE  h[i] = IF i = 0 THEN c ELSE T(h[i - 1], i)
      <4>1. CASE i = k + 1
        BY <4>1
      <4>2. CASE i \in 0 .. k
        BY <3>1, <4>2
      <4> QED BY <4>1, <4>2
    <3>3. h = [i \in 0 .. k + 1 |-> h[i]]
      OBVIOUS
    <3> HIDE DEF h
    <3>4. h = R(h, k + 1)
      BY <3>2, <3>3
    <3> HIDE DEF R
    <3> QED BY <3>4
  <2> HIDE DEF S
  <2> QED BY <2>1, <2>2, SetInduction
<1> DEFINE g == FieldsRead(s, type)
<1>4. g = R(g, N)
  <2> HIDE DEF R
  <2> QED BY <1>1, <1>2, <1>3
<1> HIDE DEF g
<1>5. /\ g[0] = c
      /\ \A i \in 1 .. N : g[i] = T(g[i - 1], i)
  BY <1>1, <1>4
<1> QED BY <1>5 DEF g, N, c, T

LEMMA CarriedUpToDef ==
  ASSUME NEW s, Len(s) \in Nat
  PROVE  /\ CarriedUpTo(s)[0] = <<>>
         /\ \A i \in 1 .. Len(s) :
              CarriedUpTo(s)[i]
                = CarriedUpTo(s)[i - 1]
                    \o (IF InCharacter(s, i) THEN <<s[i]>> ELSE Character)
<1> DEFINE N == Len(s)
           c == <<>>
           T(before, i) == before \o (IF InCharacter(s, i) THEN <<s[i]>> ELSE Character)
           R(f, k) == [i \in 0 .. k |-> IF i = 0 THEN c ELSE T(f[i - 1], i)]
           S == {k \in Nat : \E f : f = R(f, k)}
<1>1. N \in Nat
  OBVIOUS
<1>2. CarriedUpTo(s) = CHOOSE f : f = R(f, N)
  BY DEF CarriedUpTo
<1> HIDE DEF N, c, T
<1>3. Nat \subseteq S
  <2>1. 0 \in S
    <3> DEFINE f == [i \in 0 .. 0 |-> c]
    <3>1. f = R(f, 0)
      OBVIOUS
    <3> QED BY <3>1
  <2>2. ASSUME NEW k \in Nat, k \in S PROVE k + 1 \in S
    <3>1. PICK f : f = R(f, k)
      BY <2>2
    <3> DEFINE h == [i \in 0 .. k + 1 |-> IF i <= k THEN f[i] ELSE T(f[k], k + 1)]
    <3>2. ASSUME NEW i \in 0 .. k + 1
          PROVE  h[i] = IF i = 0 THEN c ELSE T(h[i - 1], i)
      <4>1. CASE i = k + 1
        BY <4>1
      <4>2. CASE i \in 0 .. k
        BY <3>1, <4>2
      <4> QED BY <4>1, <4>2
    <3>3. h = [i \in 0 .. k + 1 |-> h[i]]
      OBVIOUS
    <3> HIDE DEF h
    <3>4. h = R(h, k + 1)
      BY <3>2, <3>3
    <3> HIDE DEF R
    <3> QED BY <3>4
  <2> HIDE DEF S
  <2> QED BY <2>1, <2>2, SetInduction
<1> DEFINE g == CarriedUpTo(s)
<1>4. g = R(g, N)
  <2> HIDE DEF R
  <2> QED BY <1>1, <1>2, <1>3
<1> HIDE DEF g
<1>5. /\ g[0] = c
      /\ \A i \in 1 .. N : g[i] = T(g[i - 1], i)
  BY <1>1, <1>4
<1> QED BY <1>5 DEF g, N, c, T

-----------------------------------------------------------------------------
(* The kinds of the fields *)

ScalarKind == {"string", "array", "bool", "int64", "index", "uint64", "time"}

LEMMA HoldsFacts ==
  /\ DOMAIN Holds = ScalarKind \cup {"printers", "gpus", "args"}
  /\ Holds["string"] = Bytes /\ Holds["array"] = Bytes
  /\ Holds["bool"] = BOOLEAN
  /\ Holds["int64"] = Int64s /\ Holds["index"] = Int64s
  /\ Holds["uint64"] = 0 .. Modulus - 1
  /\ Holds["time"] = Int
  /\ Holds["printers"] = Seq(Bytes \X Bytes)
  /\ Holds["gpus"] = Seq(Bytes \X Bytes \X Int64s)
  /\ Holds["args"] = Seq([1 .. 1 -> Bytes])
BY DEF Holds, ScalarKind, Bytes

LEMMA ElementKinds ==
  /\ DOMAIN Element = {"printers", "gpus", "args"}
  /\ Element["printers"] = <<"string", "string">>
  /\ Element["gpus"] = <<"string", "string", "int64">>
  /\ Element["args"] = <<"string">>
BY DEF Element

\* One element of a repeated field: a value for each of its fields, none of
\* them an instant.
IsElement(kinds, e) ==
  /\ Len(kinds) \in Nat
  /\ e \in [1 .. Len(kinds) -> Bytes \cup Int64s]
  /\ \A i \in 1 .. Len(kinds) :
       kinds[i] \in ScalarKind \ {"time"} /\ e[i] \in Holds[kinds[i]]

LEMMA ListHolds ==
  ASSUME NEW kind \in DOMAIN Element, NEW list \in Holds[kind]
  PROVE  /\ Len(list) \in Nat
         /\ list = [i \in 1 .. Len(list) |-> list[i]]
         /\ \A i \in 1 .. Len(list) : IsElement(Element[kind], list[i])
<1>1. CASE kind = "printers"
  <2>1. list \in Seq(Bytes \X Bytes)
    BY <1>1, HoldsFacts
  <2>2. ASSUME NEW e \in Bytes \X Bytes PROVE IsElement(<<"string", "string">>, e)
    BY HoldsFacts DEF IsElement, ScalarKind
  <2> QED BY <1>1, <2>1, <2>2, ElementKinds
<1>2. CASE kind = "gpus"
  <2>1. list \in Seq(Bytes \X Bytes \X Int64s)
    BY <1>2, HoldsFacts
  <2>2. ASSUME NEW e \in Bytes \X Bytes \X Int64s
        PROVE  IsElement(<<"string", "string", "int64">>, e)
    BY HoldsFacts DEF IsElement, ScalarKind
  <2> QED BY <1>2, <2>1, <2>2, ElementKinds
<1>3. CASE kind = "args"
  <2>1. list \in Seq([1 .. 1 -> Bytes])
    BY <1>3, HoldsFacts
  <2>2. ASSUME NEW e \in [1 .. 1 -> Bytes] PROVE IsElement(<<"string">>, e)
    BY HoldsFacts DEF IsElement, ScalarKind
  <2> QED BY <1>3, <2>1, <2>2, ElementKinds
<1> QED BY <1>1, <1>2, <1>3, ElementKinds

OrderIsTyped(order) ==
  /\ Len(order) \in Nat
  /\ DOMAIN order = 1 .. Len(order)
  /\ \A i \in 1 .. Len(order) : order[i][2] \in DOMAIN Holds

LEMMA OrderType ==
  \A type \in MessageType : OrderIsTyped(Order[type])
<1> USE HoldsFacts DEF ScalarKind, OrderIsTyped
<1>1. OrderIsTyped(ListingOrder)         BY DEF ListingOrder
<1>2. OrderIsTyped(HeartbeatOrder)       BY DEF HeartbeatOrder
<1>3. OrderIsTyped(AssignmentOrder)      BY DEF AssignmentOrder
<1>4. OrderIsTyped(DeclineOrder)         BY DEF DeclineOrder
<1>5. OrderIsTyped(JobReportOrder)       BY DEF JobReportOrder
<1>6. OrderIsTyped(FeeOrder)             BY DEF FeeOrder
<1>7. OrderIsTyped(LeaseOrder)           BY DEF LeaseOrder
<1>8. OrderIsTyped(LeaseDeclineOrder)    BY DEF LeaseDeclineOrder
<1>9. OrderIsTyped(LeaseReleaseOrder)    BY DEF LeaseReleaseOrder
<1>10. OrderIsTyped(ProofOrder)          BY DEF ProofOrder
<1>11. OrderIsTyped(KeyRotationOrder)    BY DEF KeyRotationOrder
<1>12. OrderIsTyped(KeyRevocationOrder)  BY DEF KeyRevocationOrder
<1>13. OrderIsTyped(TransmissionOrder)   BY DEF TransmissionOrder
<1>14. OrderIsTyped(OperatorRotationOrder)  BY DEF OperatorRotationOrder
<1>15. OrderIsTyped(ConformanceOrder)    BY DEF ConformanceOrder
<1> HIDE DEF OrderIsTyped
<1> QED BY <1>1, <1>2, <1>3, <1>4, <1>5, <1>6, <1>7, <1>8, <1>9, <1>10, <1>11,
           <1>12, <1>13, <1>14, <1>15 DEF MessageType, Order

LEMMA OrderFacts ==
  ASSUME NEW type \in MessageType
  PROVE  /\ Len(Order[type]) \in Nat
         /\ DOMAIN Order[type] = 1 .. Len(Order[type])
         /\ \A i \in 1 .. Len(Order[type]) : Kind(type, i) \in DOMAIN Holds
BY OrderType DEF OrderIsTyped, Kind

-----------------------------------------------------------------------------
(* What one field writes is read back *)

ScalarBytes(kind, v) ==
  CASE kind \in {"string", "array"}   -> StringBytes(v)
    [] kind = "bool"                  -> BoolBytes(v)
    [] kind \in {"int64", "index", "time"} -> BigEndian(v % Modulus)
    [] kind = "uint64"                -> BigEndian(v)

\* A field that holds an instant out of range.
OutOfRange(kind, v) == kind = "time" /\ ~ValidTime(v)

\* The buffer after a field that writes p, or nothing when it is out of range.
AfterField(buf, kind, v, p) ==
  IF OutOfRange(kind, v) THEN [bytes |-> buf.bytes, err |-> ErrTimeOutOfRange]
                         ELSE Extended(buf, p)

LEMMA ScalarWrites ==
  ASSUME NEW buf \in Buffer, NEW kind \in ScalarKind, NEW v \in Holds[kind]
  PROVE  /\ ScalarBytes(kind, v) \in Bytes
         /\ PutScalar(buf, kind, v) = AfterField(buf, kind, v, ScalarBytes(kind, v))
<1>1. CASE kind \in {"string", "array"}
  <2>1. v \in Bytes
    BY <1>1, HoldsFacts
  <2>2. ScalarBytes(kind, v) = StringBytes(v) /\ PutScalar(buf, kind, v) = String(buf, v)
    BY <1>1 DEF ScalarBytes, PutScalar
  <2>3. AfterField(buf, kind, v, StringBytes(v)) = Extended(buf, StringBytes(v))
    BY <1>1 DEF AfterField, OutOfRange
  <2> QED BY <2>1, <2>2, <2>3, StringWrites, StringBytesType
<1>2. CASE kind = "bool"
  <2>1. v \in BOOLEAN
    BY <1>2, HoldsFacts
  <2>2. ScalarBytes(kind, v) = BoolBytes(v) /\ PutScalar(buf, kind, v) = Bool(buf, v)
    BY <1>2 DEF ScalarBytes, PutScalar
  <2>3. AfterField(buf, kind, v, BoolBytes(v)) = Extended(buf, BoolBytes(v))
    BY <1>2 DEF AfterField, OutOfRange
  <2> QED BY <2>1, <2>2, <2>3, BoolWrites
<1>3. CASE kind \in {"int64", "index"}
  <2>1. v \in Int
    BY <1>3, HoldsFacts, ModulusFacts DEF Int64s
  <2>2. /\ ScalarBytes(kind, v) = BigEndian(v % Modulus)
        /\ PutScalar(buf, kind, v) = Int64(buf, v)
    BY <1>3 DEF ScalarBytes, PutScalar, Int64
  <2>3. AfterField(buf, kind, v, BigEndian(v % Modulus))
          = Extended(buf, BigEndian(v % Modulus))
    BY <1>3 DEF AfterField, OutOfRange
  <2> QED BY <2>1, <2>2, <2>3, Int64Writes, BigEndianBytes
<1>4. CASE kind = "uint64"
  <2>1. v \in Nat
    BY <1>4, HoldsFacts, ModulusFacts
  <2>2. /\ ScalarBytes(kind, v) = BigEndian(v)
        /\ PutScalar(buf, kind, v) = Uint64(buf, v)
    BY <1>4 DEF ScalarBytes, PutScalar
  <2>3. AfterField(buf, kind, v, BigEndian(v)) = Extended(buf, BigEndian(v))
    BY <1>4 DEF AfterField, OutOfRange
  <2> QED BY <2>1, <2>2, <2>3, Uint64Writes, BigEndianBytes
<1>5. CASE kind = "time"
  <2>1. v \in Int /\ v % Modulus \in Nat
    BY <1>5, HoldsFacts, Int64Writes, ModulusFacts
  <2>2. /\ ScalarBytes(kind, v) = BigEndian(v % Modulus)
        /\ PutScalar(buf, kind, v) = Time(buf, v)
    BY <1>5 DEF ScalarBytes, PutScalar
  <2>3. OutOfRange(kind, v) <=> ~ValidTime(v)
    BY <1>5 DEF OutOfRange
  <2> QED BY <2>1, <2>2, <2>3, TimeWrites, BigEndianBytes DEF AfterField
<1> QED BY <1>1, <1>2, <1>3, <1>4, <1>5 DEF ScalarKind

LEMMA ScalarReads ==
  ASSUME NEW kind \in ScalarKind, NEW v \in Holds[kind], ~OutOfRange(kind, v),
         NEW r \in Bytes
  PROVE  GetScalar(ScalarBytes(kind, v) \o r, kind) = [value |-> v, rest |-> r]
<1>1. CASE kind \in {"string", "array"}
  <2>1. v \in Bytes
    BY <1>1, HoldsFacts
  <2>2. ScalarBytes(kind, v) = StringBytes(v) /\ \A s : GetScalar(s, kind) = ReadString(s)
    BY <1>1 DEF ScalarBytes, GetScalar
  <2> QED BY <2>1, <2>2, StringReads
<1>2. CASE kind = "bool"
  <2>1. v \in BOOLEAN
    BY <1>2, HoldsFacts
  <2>2. ScalarBytes(kind, v) = BoolBytes(v) /\ \A s : GetScalar(s, kind) = ReadBool(s)
    BY <1>2 DEF ScalarBytes, GetScalar
  <2> QED BY <2>1, <2>2, BoolReads
<1>3. CASE kind \in {"int64", "index", "time"}
  <2>1. v \in MinInt .. MaxInt
    <3>1. CASE kind \in {"int64", "index"}
      BY <3>1, HoldsFacts DEF Int64s
    <3>2. CASE kind = "time"
      BY <3>2, HoldsFacts, ModulusFacts DEF OutOfRange, ValidTime
    <3> QED BY <1>3, <3>1, <3>2
  <2>2. /\ ScalarBytes(kind, v) = BigEndian(v % Modulus)
        /\ \A s : GetScalar(s, kind) = ReadInt64(s)
    BY <1>3 DEF ScalarBytes, GetScalar
  <2> QED BY <2>1, <2>2, Int64Reads
<1>4. CASE kind = "uint64"
  <2>1. v \in 0 .. Modulus - 1
    BY <1>4, HoldsFacts
  <2>2. ScalarBytes(kind, v) = BigEndian(v) /\ \A s : GetScalar(s, kind) = ReadUint64(s)
    BY <1>4 DEF ScalarBytes, GetScalar
  <2> QED BY <2>1, <2>2, Uint64Reads
<1> QED BY <1>1, <1>2, <1>3, <1>4 DEF ScalarKind

LEMMA ExtendedFacts ==
  ASSUME NEW buf, NEW z
  PROVE  /\ Extended(buf, z).bytes = buf.bytes \o z
         /\ Extended(buf, z).err = buf.err
BY DEF Extended

LEMMA ThenFacts ==
  ASSUME NEW before, NEW v, NEW q
  PROVE  Then(before, [value |-> v, rest |-> q])
           = [value |-> Append(before.value, v), rest |-> q]
BY DEF Then

\* Buffers that are only extended keep the error of the first.
LEMMA ExtendedThroughout ==
  ASSUME NEW n \in Nat, NEW b, b[0] \in Buffer,
         \A i \in 1 .. n : b[i - 1] \in Buffer =>
           \E z \in Bytes : b[i] = Extended(b[i - 1], z)
  PROVE  \A i \in 0 .. n : b[i] \in Buffer /\ b[i].err = b[0].err
<1> DEFINE B(i) == b[i] \in Buffer /\ b[i].err = b[0].err
           S == {i \in Nat : i <= n => B(i)}
<1>1. B(0)
  OBVIOUS
<1>2. ASSUME NEW i \in Nat, i + 1 <= n, B(i) PROVE B(i + 1)
  <2>1. i + 1 \in 1 .. n /\ (i + 1) - 1 = i
    BY <1>2
  <2>2. PICK z \in Bytes : b[i + 1] = Extended(b[i], z)
    BY <1>2, <2>1
  <2>3. b[i] \in Buffer /\ Extended(b[i], z) \in Buffer
    BY <1>2, WrittenExtends
  <2>4. Extended(b[i], z).err = b[i].err
    BY ExtendedFacts
  <2> QED BY <1>2, <2>2, <2>3, <2>4
<1> HIDE DEF B
<1>3. 0 \in S
  BY <1>1
<1>4. ASSUME NEW i \in Nat, i \in S PROVE i + 1 \in S
  <2>1. i + 1 <= n => i <= n
    OBVIOUS
  <2> QED BY <1>2, <1>4, <2>1
<1>5. Nat \subseteq S
  <2> HIDE DEF S
  <2> QED BY <1>3, <1>4, SetInduction
<1>6. \A i \in 0 .. n : B(i)
  BY <1>5
<1> QED BY <1>6 DEF B

\* The buffers b with the pieces p written one after the other.
InPieces(n, b, p) ==
  /\ n \in Nat /\ p \in [1 .. n -> Bytes]
  /\ b[0] \in Buffer
  /\ \A i \in 1 .. n : b[i - 1] \in Buffer => b[i] = Extended(b[i - 1], p[i])

\* What has been read from the bytes t, each piece as one of the values v.
ReadInPieces(n, v, p, h, t) ==
  /\ h[0] = [value |-> <<>>, rest |-> t]
  /\ \A i \in 1 .. n : \A q \in Bytes :
       h[i - 1].rest = p[i] \o q =>
         h[i] = [value |-> Append(h[i - 1].value, v[i]), rest |-> q]

\* What is written in pieces, each of which is read back, is read back.
LEMMA PiecesRead ==
  ASSUME NEW n, NEW S, NEW v \in [1 .. n -> S], NEW b, NEW p, InPieces(n, b, p)
  PROVE  /\ \A i \in 0 .. n : b[i] \in Buffer /\ b[i].err = b[0].err
         /\ \E z \in Bytes :
              /\ b[n] = Extended(b[0], z)
              /\ \A r \in Bytes : \A h :
                   ReadInPieces(n, v, p, h, z \o r) =>
                     h[n] = [value |-> v, rest |-> r]
<1> DEFINE w == [i \in 0 .. n |-> b[i].bytes]
<1>1. /\ n \in Nat /\ p \in [1 .. n -> Bytes] /\ b[0] \in Buffer
      /\ \A i \in 1 .. n : b[i - 1] \in Buffer => b[i] = Extended(b[i - 1], p[i])
  BY DEF InPieces
<1>2. \A i \in 0 .. n : b[i] \in Buffer /\ b[i].err = b[0].err
  <2>1. \A i \in 1 .. n : b[i - 1] \in Buffer =>
          \E z \in Bytes : b[i] = Extended(b[i - 1], z)
    BY <1>1
  <2> QED BY <1>1, <2>1, ExtendedThroughout
<1>0. 0 \in 0 .. n /\ n \in 0 .. n
  BY <1>1
<1>3. w \in [0 .. n -> Bytes] /\ w[0] = b[0].bytes /\ w[n] = b[n].bytes
  BY <1>0, <1>2 DEF Buffer
<1>4. \A i \in 1 .. n : w[i] = w[i - 1] \o p[i]
  <2> SUFFICES ASSUME NEW i \in 1 .. n PROVE w[i] = w[i - 1] \o p[i]
    OBVIOUS
  <2>1. i - 1 \in 0 .. n /\ i \in 0 .. n
    BY <1>1
  <2>2. b[i] = Extended(b[i - 1], p[i])
    BY <1>1, <1>2, <2>1
  <2>3. b[i].bytes = b[i - 1].bytes \o p[i]
    BY <2>2, ExtendedFacts
  <2> QED BY <2>1, <2>3
<1> HIDE DEF w
<1>5. PICK z \in Bytes : w[n] = w[0] \o z
  <2>1. \A i \in 0 .. n : \E z \in Bytes : w[n] = w[i] \o z
    BY <1>1, <1>3, <1>4, ChainWritten
  <2> QED BY <1>0, <2>1
<1>6. b[n] = Extended(b[0], z)
  <2>1. b[n] \in Buffer /\ b[n].err = b[0].err /\ b[n].bytes = b[0].bytes \o z
    BY <1>0, <1>2, <1>3, <1>5
  <2> QED BY <2>1 DEF Buffer, Extended
<1>7. ASSUME NEW r \in Bytes, NEW h, ReadInPieces(n, v, p, h, z \o r)
      PROVE  h[n] = [value |-> v, rest |-> r]
  <2> DEFINE t == z \o r
  <2>1. t \in Bytes /\ w[0] \o t = w[n] \o r
    <3>1. w[0] \in Bytes
      BY <1>0, <1>3
    <3>2. z \o r \in Bytes /\ (w[0] \o z) \o r = w[0] \o (z \o r)
      BY <3>1, Joined
    <3> QED BY <1>5, <3>2
  <2>2. ReadInPieces(n, v, p, h, t)
    BY <1>7
  <2> HIDE DEF t
  <2>3. Chain(n, S, v, w, p, h, t, r)
    BY <1>1, <1>3, <1>4, <2>1, <2>2 DEF Chain, ReadInPieces
  <2> QED BY <2>3, ChainRead
<1> QED BY <1>2, <1>6, <1>7

\* An element of a repeated field is read back.
LEMMA ElementWrites ==
  ASSUME NEW buf \in Buffer, NEW kinds, NEW e, IsElement(kinds, e)
  PROVE  \E z \in Bytes :
           /\ PutElement(buf, kinds, e) = Extended(buf, z)
           /\ \A r \in Bytes :
                GetElement(z \o r, kinds) = [value |-> e, rest |-> r]
<1> DEFINE n == Len(kinds)
           b == ElementUpTo(buf, kinds, e)
           p == [i \in 1 .. n |-> ScalarBytes(kinds[i], e[i])]
           V == Bytes \cup Int64s
<1>1. n \in Nat /\ e \in [1 .. n -> V]
  BY DEF IsElement
<1>2. b[0] = buf /\ \A i \in 1 .. n : b[i] = PutScalar(b[i - 1], kinds[i], e[i])
  BY <1>1, ElementUpToDef
<1>3. ASSUME NEW i \in 1 .. n
      PROVE  /\ kinds[i] \in ScalarKind /\ e[i] \in Holds[kinds[i]]
             /\ ~OutOfRange(kinds[i], e[i])
             /\ ScalarBytes(kinds[i], e[i]) \in Bytes
  <2>1. /\ kinds[i] \in ScalarKind /\ e[i] \in Holds[kinds[i]]
        /\ kinds[i] # "time"
    BY DEF IsElement
  <2> QED BY <2>1, ScalarWrites DEF OutOfRange
<1> HIDE DEF b, n, V
<1>4. \A i \in 1 .. n : p[i] = ScalarBytes(kinds[i], e[i])
  OBVIOUS
<1>5. p \in [1 .. n -> Bytes]
  BY <1>3
<1> HIDE DEF p
<1>6. InPieces(n, b, p)
  <2>1. ASSUME NEW i \in 1 .. n, b[i - 1] \in Buffer
        PROVE  b[i] = Extended(b[i - 1], p[i])
    BY <1>2, <1>3, <1>4, <2>1, ScalarWrites DEF AfterField
  <2> QED BY <1>1, <1>2, <1>5, <2>1 DEF InPieces
<1>7. PICK z \in Bytes :
        /\ b[n] = Extended(buf, z)
        /\ \A r \in Bytes : \A h :
             ReadInPieces(n, e, p, h, z \o r) => h[n] = [value |-> e, rest |-> r]
  BY <1>1, <1>2, <1>6, PiecesRead
<1>8. ASSUME NEW r \in Bytes
      PROVE  GetElement(z \o r, kinds) = [value |-> e, rest |-> r]
  <2> DEFINE t == z \o r
             h == ElementRead(t, kinds)
  <2> HIDE DEF t
  <2>1. /\ h[0] = [value |-> <<>>, rest |-> t]
        /\ \A i \in 1 .. n : h[i] = ThenScalar(h[i - 1], kinds[i])
    BY <1>1, ElementReadDef DEF n
  <2> HIDE DEF h
  <2>2. ASSUME NEW i \in 1 .. n, NEW q \in Bytes, h[i - 1].rest = p[i] \o q
        PROVE  h[i] = [value |-> Append(h[i - 1].value, e[i]), rest |-> q]
    <3>1. GetScalar(p[i] \o q, kinds[i]) = [value |-> e[i], rest |-> q]
      BY <1>3, <1>4, ScalarReads
    <3>2. h[i] = Then(h[i - 1], [value |-> e[i], rest |-> q])
      BY <2>1, <2>2, <3>1 DEF ThenScalar
    <3> QED BY <3>2, ThenFacts
  <2>3. ReadInPieces(n, e, p, h, t)
    BY <2>1, <2>2 DEF ReadInPieces
  <2>4. h[n] = [value |-> e, rest |-> r]
    BY <1>7, <2>3 DEF t
  <2> QED BY <2>4 DEF GetElement, h, n, t
<1> QED BY <1>7, <1>8 DEF PutElement, b, n


-----------------------------------------------------------------------------
(* Repeated fields, and any field *)

\* A repeated field, of any length, is read back.
LEMMA ListWrites ==
  ASSUME NEW buf \in Buffer, NEW kind \in DOMAIN Element, NEW list \in Holds[kind]
  PROVE  \E z \in Bytes :
           /\ PutList(buf, Element[kind], list) = Extended(buf, z)
           /\ \A r \in Bytes :
                GetList(z \o r, Element[kind]) = [value |-> list, rest |-> r]
<1> DEFINE kinds == Element[kind]
           n == Len(list)
           u == Uvarint[n]
           b == ListUpTo(buf, kinds, list)
           PieceOf(i, y) == /\ PutElement(b[i - 1], kinds, list[i]) = Extended(b[i - 1], y)
                            /\ \A q \in Bytes :
                                 GetElement(y \o q, kinds) = [value |-> list[i], rest |-> q]
           p == [i \in 1 .. n |-> IF b[i - 1] \in Buffer
                                  THEN CHOOSE y \in Bytes : PieceOf(i, y) ELSE <<>>]
           V == {list[i] : i \in 1 .. n}
<1>1. /\ n \in Nat /\ u \in Bytes
      /\ list = [i \in 1 .. n |-> list[i]]
      /\ \A i \in 1 .. n : IsElement(kinds, list[i])
  BY ListHolds, UvarintDef
<1>2. list \in [1 .. n -> V]
  <2>1. ASSUME NEW i \in 1 .. n PROVE list[i] \in V
    OBVIOUS
  <2> HIDE DEF V, n
  <2> QED BY <1>1, <2>1
<1> HIDE DEF V, kinds
<1>3. /\ b[0] = Count(buf, n)
      /\ \A i \in 1 .. n : b[i] = PutElement(b[i - 1], kinds, list[i])
  BY <1>1, ListUpToDef
<1>4. b[0] = Extended(buf, u) /\ b[0] \in Buffer
  BY <1>1, <1>3, WrittenExtends DEF Count
<1> HIDE DEF b, n, u
<1>5. ASSUME NEW i \in 1 .. n, b[i - 1] \in Buffer
      PROVE  p[i] \in Bytes /\ PieceOf(i, p[i])
  <2>1. \E y \in Bytes : PieceOf(i, y)
    BY <1>1, <1>5, ElementWrites
  <2> HIDE DEF PieceOf
  <2>2. p[i] = CHOOSE y \in Bytes : PieceOf(i, y)
    BY <1>5
  <2> QED BY <2>1, <2>2
<1>6. p \in [1 .. n -> Bytes]
  <2>1. ASSUME NEW i \in 1 .. n PROVE p[i] \in Bytes
    <3>1. CASE b[i - 1] \in Buffer
      BY <1>5, <3>1
    <3>2. CASE b[i - 1] \notin Buffer
      <4>1. p[i] = <<>>
        BY <3>2
      <4> QED BY <4>1, Joined
    <3> QED BY <3>1, <3>2
  <2>2. p = [i \in 1 .. n |-> p[i]]
    OBVIOUS
  <2> HIDE DEF p
  <2> QED BY <2>1, <2>2
<1> HIDE DEF p
<1>7. InPieces(n, b, p)
  <2>1. ASSUME NEW i \in 1 .. n, b[i - 1] \in Buffer
        PROVE  b[i] = Extended(b[i - 1], p[i])
    BY <1>3, <1>5, <2>1
  <2> QED BY <1>1, <1>4, <1>6, <2>1 DEF InPieces
<1>8. \A i \in 0 .. n : b[i] \in Buffer
  BY <1>2, <1>7, PiecesRead
<1>9. PICK x \in Bytes :
        /\ b[n] = Extended(b[0], x)
        /\ \A r \in Bytes : \A h :
             ReadInPieces(n, list, p, h, x \o r) => h[n] = [value |-> list, rest |-> r]
  BY <1>2, <1>7, PiecesRead
<1>10. u \o x \in Bytes /\ b[n] = Extended(buf, u \o x)
  <2>1. buf.bytes \in Bytes
    BY DEF Buffer
  <2>2. u \o x \in Bytes /\ (buf.bytes \o u) \o x = buf.bytes \o (u \o x)
    BY <1>1, <2>1, Joined
  <2>3. Extended(Extended(buf, u), x) = Extended(buf, u \o x)
    BY <2>2 DEF Extended
  <2> QED BY <1>4, <1>9, <2>2, <2>3
<1>11. ASSUME NEW r \in Bytes
       PROVE  GetList((u \o x) \o r, kinds) = [value |-> list, rest |-> r]
  <2> DEFINE s == (u \o x) \o r
             t == x \o r
             h == ListRead(s, kinds)
  <2>1. t \in Bytes /\ s = u \o t
    BY <1>1, Joined
  <2> HIDE DEF s, t
  <2>2. ReadVarint[s] = [value |-> n, rest |-> t]
    BY <1>1, <2>1, VarintReads DEF u
  <2>3. /\ h[0] = [value |-> <<>>, rest |-> t]
        /\ \A i \in 1 .. n : h[i] = ThenElement(h[i - 1], kinds)
    <3>1. ReadVarint[s].value = n /\ ReadVarint[s].rest = t
      BY <2>2
    <3>2. /\ ListRead(s, kinds)[0] = [value |-> <<>>, rest |-> ReadVarint[s].rest]
          /\ \A i \in 1 .. ReadVarint[s].value :
               ListRead(s, kinds)[i] = ThenElement(ListRead(s, kinds)[i - 1], kinds)
      BY <1>1, <3>1, ListReadDef
    <3> QED BY <3>1, <3>2
  <2> HIDE DEF h
  <2>4. ASSUME NEW i \in 1 .. n, NEW q \in Bytes, h[i - 1].rest = p[i] \o q
        PROVE  h[i] = [value |-> Append(h[i - 1].value, list[i]), rest |-> q]
    <3>1. i - 1 \in 0 .. n
      BY <1>1
    <3>2. GetElement(p[i] \o q, kinds) = [value |-> list[i], rest |-> q]
      BY <1>5, <1>8, <3>1
    <3>3. h[i] = Then(h[i - 1], [value |-> list[i], rest |-> q])
      BY <2>3, <2>4, <3>2 DEF ThenElement
    <3> QED BY <3>3, ThenFacts
  <2>5. ReadInPieces(n, list, p, h, t)
    BY <2>3, <2>4 DEF ReadInPieces
  <2>6. h[n] = [value |-> list, rest |-> r]
    BY <1>9, <2>5 DEF t
  <2>7. GetList(s, kinds) = h[n]
    BY <2>2 DEF GetList, h
  <2> QED BY <2>6, <2>7 DEF s
<1>12. PutList(buf, kinds, list) = Extended(buf, u \o x)
  BY <1>10 DEF PutList, b, n
<1> QED BY <1>10, <1>11, <1>12 DEF kinds

\* Any field writes bytes from which it is read back, or reports its instant.
LEMMA FieldWrites ==
  ASSUME NEW buf \in Buffer, NEW kind \in DOMAIN Holds, NEW v \in Holds[kind]
  PROVE  \E z \in Bytes :
           /\ Put(buf, kind, v) = AfterField(buf, kind, v, z)
           /\ ~OutOfRange(kind, v) =>
                \A r \in Bytes : Get(z \o r, kind) = [value |-> v, rest |-> r]
<1>1. CASE kind \in DOMAIN Element
  <2>1. PICK z \in Bytes :
          /\ PutList(buf, Element[kind], v) = Extended(buf, z)
          /\ \A r \in Bytes :
               GetList(z \o r, Element[kind]) = [value |-> v, rest |-> r]
    BY <1>1, ListWrites
  <2>2. AfterField(buf, kind, v, z) = Extended(buf, z)
    BY <1>1, ElementKinds DEF AfterField, OutOfRange
  <2>3. /\ Put(buf, kind, v) = PutList(buf, Element[kind], v)
        /\ \A s : Get(s, kind) = GetList(s, Element[kind])
    BY <1>1 DEF Put, Get
  <2> QED BY <2>1, <2>2, <2>3
<1>2. CASE kind \notin DOMAIN Element
  <2>1. kind \in ScalarKind
    BY <1>2, HoldsFacts, ElementKinds
  <2>2. /\ Put(buf, kind, v) = PutScalar(buf, kind, v)
        /\ \A s : Get(s, kind) = GetScalar(s, kind)
    BY <1>2 DEF Put, Get
  <2>3. /\ ScalarBytes(kind, v) \in Bytes
        /\ PutScalar(buf, kind, v) = AfterField(buf, kind, v, ScalarBytes(kind, v))
    BY <2>1, ScalarWrites
  <2>4. ~OutOfRange(kind, v) =>
          \A r \in Bytes :
            GetScalar(ScalarBytes(kind, v) \o r, kind) = [value |-> v, rest |-> r]
    BY <2>1, ScalarReads
  <2> QED BY <2>2, <2>3, <2>4
<1> QED BY <1>1, <1>2

-----------------------------------------------------------------------------
(* Messages *)

FieldValue == UNION {Holds[kind] : kind \in DOMAIN Holds}

LEMMA MessageFacts ==
  ASSUME NEW m, IsMessage(m)
  PROVE  /\ m.type \in MessageType
         /\ m = [type |-> m.type, fields |-> m.fields]
         /\ Len(Order[m.type]) \in Nat
         /\ DOMAIN Order[m.type] = 1 .. Len(Order[m.type])
         /\ DOMAIN m.fields = 1 .. Len(Order[m.type])
         /\ m.fields \in [1 .. Len(Order[m.type]) -> FieldValue]
         /\ \A i \in 1 .. Len(Order[m.type]) :
              /\ Kind(m.type, i) \in DOMAIN Holds
              /\ m.fields[i] \in Holds[Kind(m.type, i)]
<1> DEFINE n == Len(Order[m.type])
           F == m.fields
           K(i) == Kind(m.type, i)
<1>1. /\ m.type \in MessageType
      /\ m = [type |-> m.type, fields |-> [i \in DOMAIN Order[m.type] |-> F[i]]]
      /\ \A i \in DOMAIN Order[m.type] : F[i] \in Holds[K(i)]
  BY DEF IsMessage
<1>2. /\ n \in Nat /\ DOMAIN Order[m.type] = 1 .. n
      /\ \A i \in 1 .. n : K(i) \in DOMAIN Holds
  BY <1>1, OrderFacts
<1>3. F = [i \in 1 .. n |-> F[i]]
  <2> DEFINE G == [i \in 1 .. n |-> F[i]]
  <2>1. m = [type |-> m.type, fields |-> G]
    BY <1>1, <1>2
  <2> HIDE DEF G
  <2>2. F = G
    BY <2>1
  <2> QED BY <2>2 DEF G
<1>4. m = [type |-> m.type, fields |-> F]
  BY <1>1
<1> HIDE DEF F, n, K
<1>5. \A i \in 1 .. n : F[i] \in FieldValue
  BY <1>1, <1>2 DEF FieldValue
<1>6. F \in [1 .. n -> FieldValue] /\ DOMAIN F = 1 .. n
  BY <1>3, <1>5
<1> QED BY <1>1, <1>2, <1>4, <1>6 DEF F, n, K

LEMMA MessageMade ==
  ASSUME NEW type \in MessageType, NEW f, f = [i \in 1 .. Len(Order[type]) |-> f[i]],
         \A i \in 1 .. Len(Order[type]) : f[i] \in Holds[Kind(type, i)]
  PROVE  IsMessage([type |-> type, fields |-> f])
<1>1. DOMAIN Order[type] = 1 .. Len(Order[type])
  BY OrderFacts
<1> DEFINE m == [type |-> type, fields |-> f]
<1>2. m.type = type /\ m.fields = f
  OBVIOUS
<1>3. f = [i \in DOMAIN Order[type] |-> f[i]]
  BY <1>1
<1>4. m = [type |-> m.type, fields |-> [i \in DOMAIN Order[m.type] |-> m.fields[i]]]
  BY <1>2, <1>3
<1> HIDE DEF m
<1>5. IsMessage(m)
  BY <1>1, <1>2, <1>4 DEF IsMessage
<1> QED BY <1>5 DEF m

\* The field i of a message is an instant out of range.
Unwritable(m, i) == OutOfRange(Kind(m.type, i), m.fields[i])

LEMMA TagWrites ==
  ASSUME NEW type \in MessageType
  PROVE  /\ Tag[type] \in Bytes /\ StringBytes(Tag[type]) \in Bytes
         /\ New(Tag[type]) = [bytes |-> StringBytes(Tag[type]), err |-> Nil]
         /\ New(Tag[type]) \in Buffer
<1>1. Tag[type] \in Bytes
  BY MessageAssumption DEF Bytes
<1>2. StringBytes(Tag[type]) \in Bytes
  BY <1>1, StringBytesType
<1>3. Empty \in Buffer /\ Empty.bytes = <<>> /\ Empty.err = Nil
  BY Joined DEF Empty, Buffer
<1>4. New(Tag[type]) = Extended(Empty, StringBytes(Tag[type]))
  BY <1>1, <1>3, StringWrites DEF New
<1>5. <<>> \o StringBytes(Tag[type]) = StringBytes(Tag[type])
  BY <1>2, Joined
<1>6. New(Tag[type]) = [bytes |-> StringBytes(Tag[type]), err |-> Nil]
  BY <1>3, <1>4, <1>5 DEF Extended
<1> QED BY <1>1, <1>2, <1>6 DEF Buffer

LEMMA AfterFieldFacts ==
  ASSUME NEW buf \in Buffer, NEW kind, NEW v, NEW z \in Bytes
  PROVE  /\ AfterField(buf, kind, v, z) \in Buffer
         /\ AfterField(buf, kind, v, z).err # Nil
              <=> buf.err # Nil \/ OutOfRange(kind, v)
         /\ \E y \in Bytes : AfterField(buf, kind, v, z).bytes = buf.bytes \o y
<1>1. CASE OutOfRange(kind, v)
  <2>1. /\ AfterField(buf, kind, v, z) = [bytes |-> buf.bytes, err |-> ErrTimeOutOfRange]
    BY <1>1 DEF AfterField
  <2>2. buf.bytes \in Bytes /\ <<>> \in Bytes /\ buf.bytes \o <<>> = buf.bytes
    BY Joined DEF Buffer
  <2>3. ErrTimeOutOfRange # Nil
    BY DEF ErrTimeOutOfRange, Nil
  <2>4. [bytes |-> buf.bytes, err |-> ErrTimeOutOfRange] \in Buffer
    BY <2>2 DEF Buffer
  <2>5. /\ AfterField(buf, kind, v, z).bytes = buf.bytes
        /\ AfterField(buf, kind, v, z).err = ErrTimeOutOfRange
    BY <2>1
  <2>6. \E y \in Bytes : buf.bytes = buf.bytes \o y
    BY <2>2
  <2> QED BY <1>1, <2>1, <2>3, <2>4, <2>5, <2>6
<1>2. CASE ~OutOfRange(kind, v)
  <2>1. AfterField(buf, kind, v, z) = Extended(buf, z)
    BY <1>2 DEF AfterField
  <2> QED BY <1>2, <2>1, WrittenExtends, ExtendedFacts
<1> QED BY <1>1, <1>2

\* The error is there exactly when an instant is out of range, and the bytes
\* begin with the tag.
LEMMA EncodeFacts ==
  ASSUME NEW m, IsMessage(m)
  PROVE  /\ Encode(m) \in Buffer
         /\ Encode(m).err # Nil
              <=> \E i \in 1 .. Len(Order[m.type]) : Unwritable(m, i)
         /\ \E z \in Bytes : CanonicalBytes(m) = StringBytes(Tag[m.type]) \o z
<1> DEFINE n == Len(Order[m.type])
           b == EncodeUpTo(m)
           g == StringBytes(Tag[m.type])
           P(i) == /\ b[i] \in Buffer
                   /\ b[i].err # Nil <=> \E j \in 1 .. i : Unwritable(m, j)
                   /\ \E z \in Bytes : b[i].bytes = g \o z
           S == {i \in Nat : i <= n => P(i)}
<1>1. /\ n \in Nat /\ m.type \in MessageType
      /\ \A i \in 1 .. n : Kind(m.type, i) \in DOMAIN Holds
                           /\ m.fields[i] \in Holds[Kind(m.type, i)]
  BY MessageFacts
<1>2. /\ b[0] = New(Tag[m.type])
      /\ \A i \in 1 .. n : b[i] = Put(b[i - 1], Kind(m.type, i), m.fields[i])
  BY <1>1, EncodeUpToDef
<1> HIDE DEF b, n
<1>3. P(0)
  <2>1. /\ g \in Bytes /\ g \o <<>> = g /\ <<>> \in Bytes
        /\ b[0] = [bytes |-> g, err |-> Nil] /\ b[0] \in Buffer
    BY <1>1, <1>2, TagWrites, Joined
  <2> HIDE DEF g
  <2>2. b[0].bytes = g \o <<>> /\ b[0].err = Nil
    BY <2>1
  <2>3. ~\E j \in 1 .. 0 : Unwritable(m, j)
    OBVIOUS
  <2> QED BY <2>1, <2>2, <2>3
<1>4. ASSUME NEW k \in Nat, k + 1 <= n, P(k) PROVE P(k + 1)
  <2> DEFINE i == k + 1
             kind == Kind(m.type, i)
             v == m.fields[i]
  <2>0. /\ b[k] \in Buffer
        /\ b[k].err # Nil <=> \E j \in 1 .. k : Unwritable(m, j)
        /\ \E z \in Bytes : b[k].bytes = g \o z
    BY <1>4
  <2>1. i \in 1 .. n /\ i - 1 = k
    BY <1>1, <1>4
  <2>2. b[i] = Put(b[k], kind, v) /\ kind \in DOMAIN Holds /\ v \in Holds[kind]
    BY <1>1, <1>2, <2>1
  <2>3. OutOfRange(kind, v) <=> Unwritable(m, i)
    BY DEF Unwritable
  <2> HIDE DEF kind, v, P, S, i
  <2>4. PICK x \in Bytes : b[i] = AfterField(b[k], kind, v, x)
    BY <2>0, <2>2, FieldWrites
  <2>5. PICK y \in Bytes : b[i].bytes = b[k].bytes \o y
    <3>1. \E y \in Bytes : AfterField(b[k], kind, v, x).bytes = b[k].bytes \o y
      <4> DEFINE c == b[k]
      <4>1. c \in Buffer
        BY <2>0
      <4> HIDE DEF c
      <4>2. \E y \in Bytes : AfterField(c, kind, v, x).bytes = c.bytes \o y
        BY <4>1, AfterFieldFacts
      <4> QED BY <4>2 DEF c
    <3> QED BY <2>4, <3>1
  <2>6. b[i] \in Buffer /\ (b[i].err # Nil <=> b[k].err # Nil \/ Unwritable(m, i))
    BY <2>0, <2>3, <2>4, AfterFieldFacts
  <2>7. PICK z \in Bytes : b[k].bytes = g \o z
    BY <2>0
  <2>8. z \o y \in Bytes /\ b[i].bytes = g \o (z \o y)
    <3>1. g \in Bytes
      BY <1>1, TagWrites
    <3> HIDE DEF g
    <3>2. z \o y \in Bytes /\ (g \o z) \o y = g \o (z \o y)
      BY <3>1, Joined
    <3> QED BY <2>5, <2>7, <3>2
  <2>9. (\E j \in 1 .. i : Unwritable(m, j))
          <=> (\E j \in 1 .. k : Unwritable(m, j)) \/ Unwritable(m, i)
    BY DEF i
  <2>10. b[i].err # Nil <=> \E j \in 1 .. i : Unwritable(m, j)
    BY <2>0, <2>6, <2>9
  <2> QED BY <2>6, <2>8, <2>10 DEF P, i
<1> HIDE DEF P
<1>5. Nat \subseteq S
  <2>1. 0 \in S
    BY <1>3
  <2>2. ASSUME NEW k \in Nat, k \in S PROVE k + 1 \in S
    <3>1. k + 1 <= n => k <= n
      BY <1>1
    <3> QED BY <1>4, <2>2, <3>1
  <2> HIDE DEF S
  <2> QED BY <2>1, <2>2, SetInduction
<1>6. P(n)
  BY <1>1, <1>5
<1>7. Encode(m) = b[n] /\ CanonicalBytes(m) = b[n].bytes
  BY DEF Encode, CanonicalBytes, Sum, b, n
<1> QED BY <1>6, <1>7 DEF P, n

\* The bytes of a message without an instant out of range are read back.
LEMMA MessageReads ==
  ASSUME NEW m, IsMessage(m), Encode(m).err = Nil
  PROVE  Read(CanonicalBytes(m)) = [type |-> m.type, fields |-> m.fields, rest |-> <<>>]
<1> DEFINE n == Len(Order[m.type])
           K(i) == Kind(m.type, i)
           F == m.fields
           b == EncodeUpTo(m)
           g == StringBytes(Tag[m.type])
           PieceOf(i, y) == /\ Put(b[i - 1], K(i), F[i]) = Extended(b[i - 1], y)
                            /\ \A q \in Bytes :
                                 Get(y \o q, K(i)) = [value |-> F[i], rest |-> q]
           p == [i \in 1 .. n |-> IF b[i - 1] \in Buffer
                                  THEN CHOOSE y \in Bytes : PieceOf(i, y) ELSE <<>>]
<1>1. /\ n \in Nat /\ m.type \in MessageType /\ F \in [1 .. n -> FieldValue]
      /\ \A i \in 1 .. n : K(i) \in DOMAIN Holds /\ F[i] \in Holds[K(i)]
  BY MessageFacts
<1>2. \A i \in 1 .. n : ~OutOfRange(K(i), F[i])
  BY EncodeFacts DEF Unwritable
<1>3. /\ b[0] = New(Tag[m.type])
      /\ \A i \in 1 .. n : b[i] = Put(b[i - 1], K(i), F[i])
  BY <1>1, EncodeUpToDef
<1>4. /\ g \in Bytes /\ b[0] = [bytes |-> g, err |-> Nil] /\ b[0] \in Buffer
  BY <1>1, <1>3, TagWrites
<1>5. Encode(m) = b[n] /\ CanonicalBytes(m) = b[n].bytes
  BY DEF Encode, CanonicalBytes, Sum
<1>6. \A t : /\ FieldsRead(t, m.type)[0] = [value |-> <<>>, rest |-> t]
             /\ \A i \in 1 .. Len(Order[m.type]) :
                  FieldsRead(t, m.type)[i]
                    = ThenField(FieldsRead(t, m.type)[i - 1], Kind(m.type, i))
  <2> HIDE DEF b, F, g, p, PieceOf, K
  <2> QED BY <1>1, FieldsReadDef
<1>7. \A t : /\ FieldsRead(t, m.type)[0] = [value |-> <<>>, rest |-> t]
             /\ \A i \in 1 .. n :
                  FieldsRead(t, m.type)[i] = ThenField(FieldsRead(t, m.type)[i - 1], K(i))
  BY <1>6
<1> HIDE DEF b, n, F, K
<1>8. ASSUME NEW i \in 1 .. n, b[i - 1] \in Buffer
      PROVE  p[i] \in Bytes /\ PieceOf(i, p[i])
  <2>1. PICK y \in Bytes :
          /\ Put(b[i - 1], K(i), F[i]) = AfterField(b[i - 1], K(i), F[i], y)
          /\ ~OutOfRange(K(i), F[i]) =>
               \A q \in Bytes : Get(y \o q, K(i)) = [value |-> F[i], rest |-> q]
    BY <1>1, <1>8, FieldWrites
  <2>2. PieceOf(i, y)
    BY <1>2, <2>1 DEF AfterField
  <2> HIDE DEF PieceOf
  <2>3. p[i] = CHOOSE x \in Bytes : PieceOf(i, x)
    BY <1>8
  <2> QED BY <2>2, <2>3
<1>9. p \in [1 .. n -> Bytes]
  <2>1. ASSUME NEW i \in 1 .. n PROVE p[i] \in Bytes
    <3>1. CASE b[i - 1] \in Buffer
      BY <1>8, <3>1
    <3>2. CASE b[i - 1] \notin Buffer
      <4>1. p[i] = <<>>
        BY <3>2
      <4> QED BY <4>1, Joined
    <3> QED BY <3>1, <3>2
  <2>2. p = [i \in 1 .. n |-> p[i]]
    OBVIOUS
  <2> HIDE DEF p
  <2> QED BY <2>1, <2>2
<1> HIDE DEF p
<1>10. InPieces(n, b, p)
  <2>1. ASSUME NEW i \in 1 .. n, b[i - 1] \in Buffer
        PROVE  b[i] = Extended(b[i - 1], p[i])
    BY <1>3, <1>8, <2>1
  <2> QED BY <1>1, <1>4, <1>9, <2>1 DEF InPieces
<1>11. \A i \in 0 .. n : b[i] \in Buffer
  BY <1>1, <1>10, PiecesRead
<1>12. PICK z \in Bytes :
        /\ b[n] = Extended(b[0], z)
        /\ \A r \in Bytes : \A h :
             ReadInPieces(n, F, p, h, z \o r) => h[n] = [value |-> F, rest |-> r]
  <2> HIDE DEF g, PieceOf
  <2>1. F \in [1 .. n -> FieldValue]
    BY <1>1
  <2> QED BY <1>10, <2>1, PiecesRead
<1>13. CanonicalBytes(m) = g \o z
  BY <1>4, <1>5, <1>12 DEF Extended
<1>14. ReadString(CanonicalBytes(m)) = [value |-> Tag[m.type], rest |-> z]
  BY <1>1, <1>13, TagWrites, StringReads
<1>15. m.type = CHOOSE t \in MessageType : Tag[t] = Tag[m.type]
  BY <1>1, MessageAssumption
<1>16. FieldsRead(z, m.type)[n] = [value |-> F, rest |-> <<>>]
  <2> DEFINE h == FieldsRead(z, m.type)
  <2>1. /\ h[0] = [value |-> <<>>, rest |-> z]
        /\ \A i \in 1 .. n : h[i] = ThenField(h[i - 1], K(i))
    BY <1>7
  <2> HIDE DEF h
  <2>2. ASSUME NEW i \in 1 .. n, NEW q \in Bytes, h[i - 1].rest = p[i] \o q
        PROVE  h[i] = [value |-> Append(h[i - 1].value, F[i]), rest |-> q]
    <3>1. i - 1 \in 0 .. n
      BY <1>1
    <3>2. Get(p[i] \o q, K(i)) = [value |-> F[i], rest |-> q]
      BY <1>8, <1>11, <3>1
    <3>3. h[i] = Then(h[i - 1], [value |-> F[i], rest |-> q])
      BY <2>1, <2>2, <3>2 DEF ThenField
    <3> QED BY <3>3, ThenFacts
  <2>3. ReadInPieces(n, F, p, h, z)
    BY <2>1, <2>2 DEF ReadInPieces
  <2>4. <<>> \in Bytes /\ z \o <<>> = z
    BY Joined
  <2>5. h[n] = [value |-> F, rest |-> <<>>]
    BY <1>12, <2>3, <2>4
  <2> QED BY <2>5 DEF h
<1>17. Read(CanonicalBytes(m)) = [type   |-> m.type,
                                  fields |-> FieldsRead(z, m.type)[n].value,
                                  rest   |-> FieldsRead(z, m.type)[n].rest]
  <2> DEFINE s == CanonicalBytes(m)
  <2> HIDE DEF s
  <2>1. ReadString(s).value = Tag[m.type] /\ ReadString(s).rest = z
    BY <1>14 DEF s
  <2>2. Read(s) = [type   |-> m.type,
                   fields |-> FieldsRead(z, m.type)[Len(Order[m.type])].value,
                   rest   |-> FieldsRead(z, m.type)[Len(Order[m.type])].rest]
    BY <1>15, <2>1 DEF Read
  <2> QED BY <2>2 DEF s, n
<1> QED BY <1>16, <1>17 DEF F

-----------------------------------------------------------------------------
(* Messages through encoding/json *)

LEMMA CharacterBytes ==
  Character \in Bytes /\ Len(Character) \in Nat /\ Len(Character) >= 2
BY MessageAssumption DEF Bytes

LEMMA JoinedLength ==
  \A p, q \in Bytes : /\ p \o q \in Bytes
                      /\ Len(p) \in Nat /\ Len(q) \in Nat
                      /\ Len(p \o q) = Len(p) + Len(q)
BY TakenOff, LengthInNat

LEMMA OneMore ==
  ASSUME NEW a \in Bytes, NEW b \in Byte
  PROVE  /\ Len(<<b>>) = 1 /\ <<b>> \in Bytes
         /\ Len(a \o <<b>>) = Len(a) + 1
         /\ \A j \in 1 .. Len(a) : (a \o <<b>>)[j] = a[j]
         /\ (a \o <<b>>)[Len(a) + 1] = b
BY DEF Bytes

\* A string arrives as it was exactly when it is UTF-8: each byte in no
\* character makes it longer.
LEMMA StringCarried ==
  ASSUME NEW s \in Bytes
  PROVE  /\ CarryString(s) \in Bytes
         /\ CarryString(s) = s <=> ValidUTF8(s)
<1> DEFINE n == Len(s)
           c == CarriedUpTo(s)
           V(i) == [j \in 1 .. i |-> s[j]]
           C(i) == InCharacter(s, i)
           All(i) == \A j \in 1 .. i : C(j)
           P(i) == /\ c[i] \in Bytes
                   /\ All(i) => c[i] = V(i)
                   /\ ~All(i) => Len(c[i]) > i
                   /\ Len(c[i]) >= i
           S == {i \in Nat : i <= n => P(i)}
<1>1. n \in Nat /\ \A i \in 1 .. n : s[i] \in Byte
  BY DEF Bytes
<1>2. /\ c[0] = <<>>
      /\ \A i \in 1 .. n : c[i] = c[i - 1] \o (IF C(i) THEN <<s[i]>> ELSE Character)
  BY <1>1, CarriedUpToDef
<1>3. CarryString(s) = c[n]
  BY DEF CarryString
<1>4. ValidUTF8(s) <=> All(n)
  BY DEF ValidUTF8, Bytes
<1>5. V(n) = s
  BY DEF Bytes
<1> HIDE DEF c, n, C
<1>6. P(0)
  <2>1. V(0) = <<>> /\ All(0)
    OBVIOUS
  <2>2. Len(<<>>) = 0 /\ <<>> \in Bytes
    BY Joined
  <2> HIDE DEF V, All
  <2> QED BY <1>2, <2>1, <2>2
<1>7. ASSUME NEW k \in Nat, k + 1 <= n, P(k) PROVE P(k + 1)
  <2> DEFINE i == k + 1
             x == IF C(i) THEN <<s[i]>> ELSE Character
  <2>1. i \in 1 .. n /\ i - 1 = k /\ s[i] \in Byte
    BY <1>1, <1>7
  <2>2. c[i] = c[k] \o x
    BY <1>2, <2>1
  <2>3. x \in Bytes /\ Len(x) = IF C(i) THEN 1 ELSE Len(Character)
    <3>1. <<s[i]>> \in Bytes /\ Len(<<s[i]>>) = 1
      BY <2>1, OneMore, Joined
    <3> QED BY <3>1, CharacterBytes
  <2>4. c[k] \in Bytes /\ Len(c[k]) \in Nat /\ Len(c[k]) >= k
    BY <1>7, LengthInNat
  <2>5. c[i] \in Bytes /\ Len(c[i]) = Len(c[k]) + Len(x)
    <3> HIDE DEF x, i
    <3>1. c[k] \o x \in Bytes /\ Len(c[k] \o x) = Len(c[k]) + Len(x)
      BY <2>3, <2>4, JoinedLength
    <3> QED BY <2>2, <3>1
  <2>6. All(i) <=> All(k) /\ C(i)
    OBVIOUS
  <2>7. /\ Len(c[i]) >= i
        /\ ~C(i) => Len(c[i]) > i
        /\ Len(c[k]) > k => Len(c[i]) > i
    <3> DEFINE before == Len(c[k])
               after == Len(c[i])
               more == Len(x)
    <3>1. /\ before \in Nat /\ before >= k /\ after = before + more
          /\ more \in Nat /\ more >= 1 /\ (~C(i) => more >= 2)
      BY <2>3, <2>4, <2>5, CharacterBytes
    <3> HIDE DEF before, after, more
    <3>2. /\ after >= i
          /\ ~C(i) => after > i
          /\ before > k => after > i
      BY <3>1
    <3> QED BY <3>2 DEF before, after
  <2>8. ~All(i) => Len(c[i]) > i
    <3>1. ~All(k) => Len(c[k]) > k
      BY <1>7
    <3> HIDE DEF All
    <3> QED BY <2>6, <2>7, <3>1
  <2>9. ASSUME All(i) PROVE c[i] = V(i)
    <3>1. c[k] = V(k) /\ x = <<s[i]>>
      BY <1>7, <2>6, <2>9
    <3>2. \A j \in 1 .. k : s[j] \in Byte
      BY <1>1, <2>1
    <3>3. V(k) \o <<s[i]>> = V(i)
      <4>1. /\ V(k) \in Bytes /\ Len(V(k)) = k /\ \A j \in 1 .. k : V(k)[j] = s[j]
        BY <3>2 DEF Bytes
      <4>2. /\ V(i) \in Bytes /\ Len(V(i)) = k + 1 /\ \A j \in 1 .. k + 1 : V(i)[j] = s[j]
        BY <2>1, <3>2 DEF Bytes
      <4> DEFINE a == V(k)
                 q == V(i)
                 y == a \o <<s[i]>>
      <4> HIDE DEF a, q, V, All, x
      <4>3. /\ y \in Bytes /\ Len(y) = k + 1
            /\ \A j \in 1 .. k : y[j] = s[j]
            /\ y[k + 1] = s[k + 1]
        <5>1. a \in Bytes /\ Len(a) = k /\ \A j \in 1 .. k : a[j] = s[j]
          BY <4>1 DEF a
        <5> DEFINE b == s[i]
        <5>2. b \in Byte
          BY <2>1
        <5> HIDE DEF b
        <5>3. <<b>> \in Bytes /\ a \o <<b>> \in Bytes
          BY <5>1, <5>2, OneMore, JoinedLength
        <5>4. /\ Len(a \o <<b>>) = k + 1
              /\ \A j \in 1 .. k : (a \o <<b>>)[j] = s[j]
              /\ (a \o <<b>>)[k + 1] = b
          BY <5>1, <5>2, OneMore
        <5> QED BY <5>3, <5>4 DEF b, y
      <4> HIDE DEF y
      <4>4. y = q
        BY <4>2, <4>3, SeqEqual DEF q, Bytes
      <4> QED BY <4>4 DEF a, q, y
    <3> QED BY <2>2, <3>1, <3>3
  <2> HIDE DEF All, V, x
  <2> QED BY <2>5, <2>7, <2>8, <2>9
<1> HIDE DEF P
<1>8. Nat \subseteq S
  <2>1. 0 \in S
    BY <1>6
  <2>2. ASSUME NEW k \in Nat, k \in S PROVE k + 1 \in S
    <3>1. k + 1 <= n => k <= n
      BY <1>1
    <3> QED BY <1>7, <2>2, <3>1
  <2> HIDE DEF S
  <2> QED BY <2>1, <2>2, SetInduction
<1>9. P(n)
  BY <1>1, <1>8
<1>10. /\ c[n] \in Bytes
       /\ All(n) => c[n] = V(n)
       /\ ~All(n) => Len(c[n]) > n
  BY <1>9 DEF P
<1>11. ~All(n) => c[n] # s
  <2> SUFFICES ASSUME ~All(n), c[n] = s PROVE FALSE
    OBVIOUS
  <2>1. Len(c[n]) = n
    BY DEF n
  <2> HIDE DEF All
  <2> QED BY <1>1, <1>10, <2>1
<1> HIDE DEF All, V
<1> QED BY <1>3, <1>4, <1>5, <1>10, <1>11

LEMMA ScalarCarried ==
  ASSUME NEW kind \in ScalarKind, NEW v \in Holds[kind]
  PROVE  /\ CarryScalar(kind, v) \in Holds[kind]
         /\ CarryScalar(kind, v) = v <=> ScalarInUTF8(kind, v)
<1>1. CASE kind = "string"
  <2>1. v \in Bytes /\ Holds[kind] = Bytes
    BY <1>1, HoldsFacts
  <2> QED BY <1>1, <2>1, StringCarried DEF CarryScalar, ScalarInUTF8
<1>2. CASE kind # "string"
  BY <1>2 DEF CarryScalar, ScalarInUTF8
<1> QED BY <1>1, <1>2

\* The elements of a repeated field: all of their fields hold values.
LEMMA ListMade ==
  ASSUME NEW kind \in DOMAIN Element, NEW n \in Nat, NEW list,
         list = [i \in 1 .. n |-> list[i]],
         \A i \in 1 .. n : IsElement(Element[kind], list[i])
  PROVE  list \in Holds[kind]
<1>1. CASE kind = "printers"
  <2>1. ASSUME NEW e, IsElement(<<"string", "string">>, e) PROVE e \in Bytes \X Bytes
    <3>1. Len(<<"string", "string">>) = 2
      OBVIOUS
    <3>2. e = [i \in 1 .. 2 |-> e[i]] /\ e[1] \in Bytes /\ e[2] \in Bytes
      BY <2>1, <3>1, HoldsFacts DEF IsElement
    <3> QED BY <3>2
  <2>2. \A i \in 1 .. n : list[i] \in Bytes \X Bytes
    BY <1>1, <2>1, ElementKinds
  <2>3. list \in Seq(Bytes \X Bytes)
    BY <2>2
  <2> QED BY <1>1, <2>3, HoldsFacts
<1>2. CASE kind = "gpus"
  <2>1. ASSUME NEW e, IsElement(<<"string", "string", "int64">>, e)
        PROVE  e \in Bytes \X Bytes \X Int64s
    <3>1. Len(<<"string", "string", "int64">>) = 3
      OBVIOUS
    <3>2. /\ e = [i \in 1 .. 3 |-> e[i]]
          /\ e[1] \in Bytes /\ e[2] \in Bytes /\ e[3] \in Int64s
      BY <2>1, <3>1, HoldsFacts DEF IsElement
    <3> QED BY <3>2
  <2>2. \A i \in 1 .. n : list[i] \in Bytes \X Bytes \X Int64s
    BY <1>2, <2>1, ElementKinds
  <2>3. list \in Seq(Bytes \X Bytes \X Int64s)
    BY <2>2
  <2> QED BY <1>2, <2>3, HoldsFacts
<1>3. CASE kind = "args"
  <2>1. ASSUME NEW e, IsElement(<<"string">>, e) PROVE e \in [1 .. 1 -> Bytes]
    <3>1. Len(<<"string">>) = 1
      OBVIOUS
    <3>2. e = [i \in 1 .. 1 |-> e[i]] /\ e[1] \in Bytes
      BY <2>1, <3>1, HoldsFacts DEF IsElement
    <3> QED BY <3>2
  <2>2. \A i \in 1 .. n : list[i] \in [1 .. 1 -> Bytes]
    BY <1>3, <2>1, ElementKinds
  <2>3. list \in Seq([1 .. 1 -> Bytes])
    BY <2>2
  <2> QED BY <1>3, <2>3, HoldsFacts
<1> QED BY <1>1, <1>2, <1>3, ElementKinds

CarriedElement(kinds, e) == [k \in DOMAIN e |-> CarryScalar(kinds[k], e[k])]

LEMMA ElementCarried ==
  ASSUME NEW kinds, NEW e, IsElement(kinds, e)
  PROVE  /\ IsElement(kinds, CarriedElement(kinds, e))
         /\ CarriedElement(kinds, e) = e
              <=> \A k \in DOMAIN e : ScalarInUTF8(kinds[k], e[k])
<1> DEFINE n == Len(kinds)
           x == CarriedElement(kinds, e)
<1>1. /\ n \in Nat /\ e \in [1 .. n -> Bytes \cup Int64s]
      /\ \A k \in 1 .. n :
           /\ kinds[k] \in ScalarKind /\ kinds[k] # "time" /\ e[k] \in Holds[kinds[k]]
  BY DEF IsElement
<1>2. \A k \in 1 .. n : /\ CarryScalar(kinds[k], e[k]) \in Holds[kinds[k]]
                        /\ CarryScalar(kinds[k], e[k]) = e[k]
                             <=> ScalarInUTF8(kinds[k], e[k])
  BY <1>1, ScalarCarried
<1>3. DOMAIN e = 1 .. n
  BY <1>1
<1>4. /\ x = [k \in 1 .. n |-> x[k]]
      /\ \A k \in 1 .. n : x[k] = CarryScalar(kinds[k], e[k])
  BY <1>3 DEF CarriedElement
<1>5. e = [k \in 1 .. n |-> e[k]]
  BY <1>1
<1> HIDE DEF x
<1>6. \A k \in 1 .. n : x[k] \in Bytes \cup Int64s
  <2> SUFFICES ASSUME NEW k \in 1 .. n PROVE x[k] \in Bytes \cup Int64s
    OBVIOUS
  <2>1. CASE kinds[k] = "string"
    BY <1>2, <1>4, <2>1, HoldsFacts
  <2>2. CASE kinds[k] # "string"
    BY <1>1, <1>4, <2>2 DEF CarryScalar
  <2> QED BY <2>1, <2>2
<1>7. x \in [1 .. n -> Bytes \cup Int64s]
  BY <1>4, <1>6
<1>8. IsElement(kinds, x)
  BY <1>1, <1>2, <1>4, <1>7 DEF IsElement
<1>9. x = e <=> \A k \in 1 .. n : x[k] = e[k]
  BY <1>4, <1>5
<1> QED BY <1>2, <1>3, <1>4, <1>8, <1>9 DEF x

FieldInUTF8(kind, v) ==
  IF kind \in DOMAIN Element
  THEN \A j \in DOMAIN v : \A k \in DOMAIN v[j] :
         ScalarInUTF8(Element[kind][k], v[j][k])
  ELSE ScalarInUTF8(kind, v)

LEMMA FieldCarried ==
  ASSUME NEW kind \in DOMAIN Holds, NEW v \in Holds[kind]
  PROVE  /\ CarryField(kind, v) \in Holds[kind]
         /\ CarryField(kind, v) = v <=> FieldInUTF8(kind, v)
         /\ OutOfRange(kind, CarryField(kind, v)) <=> OutOfRange(kind, v)
<1>1. CASE kind \in DOMAIN Element
  <2> DEFINE n == Len(v)
             kinds == Element[kind]
             y == CarryField(kind, v)
  <2>1. /\ n \in Nat /\ v = [j \in 1 .. n |-> v[j]]
        /\ \A j \in 1 .. n : IsElement(kinds, v[j])
    BY <1>1, ListHolds
  <2> HIDE DEF n
  <2>2. DOMAIN v = 1 .. n
    BY <2>1
  <2>3. y = [j \in 1 .. n |-> CarriedElement(kinds, v[j])]
    BY <1>1, <2>2 DEF CarryField, CarriedElement
  <2> HIDE DEF y, kinds
  <2>4. \A j \in 1 .. n :
          /\ IsElement(kinds, y[j])
          /\ y[j] = v[j] <=> \A k \in DOMAIN v[j] : ScalarInUTF8(kinds[k], v[j][k])
    BY <2>1, <2>3, ElementCarried
  <2>5. y = [j \in 1 .. n |-> y[j]]
    BY <2>3
  <2>6. y \in Holds[kind]
    BY <1>1, <2>1, <2>4, <2>5, ListMade DEF kinds
  <2>7. y = v <=> \A j \in 1 .. n : y[j] = v[j]
    BY <2>1, <2>5
  <2>8. FieldInUTF8(kind, v)
          <=> \A j \in 1 .. n : \A k \in DOMAIN v[j] : ScalarInUTF8(kinds[k], v[j][k])
    BY <1>1, <2>2 DEF FieldInUTF8, kinds
  <2>9. kind # "time"
    BY <1>1, ElementKinds
  <2> QED BY <2>4, <2>6, <2>7, <2>8, <2>9 DEF y, OutOfRange
<1>2. CASE kind \notin DOMAIN Element
  <2>1. kind \in ScalarKind
    BY <1>2, HoldsFacts, ElementKinds
  <2>2. CarryField(kind, v) = CarryScalar(kind, v)
    BY <1>2 DEF CarryField
  <2>3. FieldInUTF8(kind, v) <=> ScalarInUTF8(kind, v)
    BY <1>2 DEF FieldInUTF8
  <2>4. kind = "time" => CarryScalar(kind, v) = v
    BY DEF CarryScalar
  <2> QED BY <2>1, <2>2, <2>3, <2>4, ScalarCarried DEF OutOfRange
<1> QED BY <1>1, <1>2

\* The transport changes no type and no instant, and a message only in its
\* strings that are not UTF-8.
LEMMA MessageCarried ==
  ASSUME NEW m, IsMessage(m)
  PROVE  /\ IsMessage(Carried(m))
         /\ Carried(m) = m <=> InUTF8(m)
         /\ Encode(Carried(m)).err = Nil <=> Encode(m).err = Nil
<1> DEFINE n == Len(Order[m.type])
           K(i) == Kind(m.type, i)
           F == m.fields
           G == [i \in 1 .. n |-> CarryField(K(i), F[i])]
           c == Carried(m)
<1>1. /\ n \in Nat /\ m.type \in MessageType
      /\ m = [type |-> m.type, fields |-> F]
      /\ DOMAIN F = 1 .. n /\ F = [i \in 1 .. n |-> F[i]]
      /\ \A i \in 1 .. n : K(i) \in DOMAIN Holds /\ F[i] \in Holds[K(i)]
  BY MessageFacts
<1>2. c = [type |-> m.type, fields |-> G]
  <2>1. c = [m EXCEPT !.fields = G]
    BY <1>1 DEF Carried
  <2>2. \A x : [m EXCEPT !.fields = x] = [type |-> m.type, fields |-> x]
    BY <1>1
  <2> QED BY <2>1, <2>2
<1>3. \A i \in 1 .. n : /\ G[i] \in Holds[K(i)]
                        /\ G[i] = F[i] <=> FieldInUTF8(K(i), F[i])
                        /\ OutOfRange(K(i), G[i]) <=> OutOfRange(K(i), F[i])
  BY <1>1, FieldCarried
<1>4. G = [i \in 1 .. n |-> G[i]]
  OBVIOUS
<1> HIDE DEF G, c
<1>5. IsMessage(c)
  BY <1>1, <1>2, <1>3, <1>4, MessageMade
<1>6. c = m <=> \A i \in 1 .. n : G[i] = F[i]
  <2>1. c = m <=> G = F
    BY <1>1, <1>2
  <2> QED BY <1>1, <1>4, <2>1
<1>7. InUTF8(m) <=> \A i \in 1 .. n : FieldInUTF8(K(i), F[i])
  BY <1>1 DEF InUTF8, FieldInUTF8
<1>8. \A i \in 1 .. n : Unwritable(c, i) <=> Unwritable(m, i)
  <2>1. c.type = m.type /\ c.fields = G
    BY <1>2
  <2> QED BY <1>3, <2>1 DEF Unwritable
<1>9. Encode(c).err = Nil <=> Encode(m).err = Nil
  <2>1. c.type = m.type
    BY <1>2
  <2>2. Encode(c).err # Nil <=> \E i \in 1 .. n : Unwritable(c, i)
    BY <1>5, <2>1, EncodeFacts
  <2>3. Encode(m).err # Nil <=> \E i \in 1 .. n : Unwritable(m, i)
    BY EncodeFacts
  <2> QED BY <1>8, <2>2, <2>3
<1> QED BY <1>3, <1>5, <1>6, <1>7, <1>9 DEF c

-----------------------------------------------------------------------------
(* No two messages have the same bytes *)

\* Bytes that are equal begin with the tag of one type.
LEMMA SameBytesSameType ==
  ASSUME NEW a, NEW b, IsMessage(a), IsMessage(b),
         CanonicalBytes(a) = CanonicalBytes(b)
  PROVE  a.type = b.type
<1>1. a.type \in MessageType /\ b.type \in MessageType
  BY MessageFacts
<1>2. Tag[a.type] \in Bytes /\ Tag[b.type] \in Bytes
  BY <1>1, TagWrites
<1>3. PICK y \in Bytes : CanonicalBytes(a) = StringBytes(Tag[a.type]) \o y
  BY EncodeFacts
<1>4. PICK z \in Bytes : CanonicalBytes(b) = StringBytes(Tag[b.type]) \o z
  BY EncodeFacts
<1>5. ReadString(CanonicalBytes(a)).value = Tag[a.type]
  BY <1>2, <1>3, StringReads
<1>6. ReadString(CanonicalBytes(b)).value = Tag[b.type]
  BY <1>2, <1>4, StringReads
<1> QED BY <1>1, <1>5, <1>6, MessageAssumption

\* Canonical bytes are injective on the messages without an instant out of
\* range: reading them is a left inverse.
THEOREM SameBytesSameMessage ==
  ASSUME NEW a, NEW b, IsMessage(a), IsMessage(b),
         Encode(a).err = Nil, Encode(b).err = Nil,
         CanonicalBytes(a) = CanonicalBytes(b)
  PROVE  a = b
<1> DEFINE x == Read(CanonicalBytes(a))
<1>1. x = [type |-> a.type, fields |-> a.fields, rest |-> <<>>]
  BY MessageReads
<1>2. x = [type |-> b.type, fields |-> b.fields, rest |-> <<>>]
  BY MessageReads
<1> HIDE DEF x
<1>3. a.type = b.type /\ a.fields = b.fields
  BY <1>1, <1>2
<1> QED BY <1>3, MessageFacts

-----------------------------------------------------------------------------
(* Fee terms *)

LEMMA TermsKind ==
  ASSUME NEW m, IsMessage(m), HasTerms(m)
  PROVE  /\ Terms(m).ContributorShareBps \in Int64s
         /\ Terms(m).PlatformFeeBps \in Int64s
<1> DEFINE Named(order, name) ==
             /\ \E i \in DOMAIN order : order[i][1] = name
             /\ \A i \in DOMAIN order : order[i][1] = name => order[i][2] = "int64"
<1>1. Named(AssignmentOrder, "ContributorShareBps") /\ Named(AssignmentOrder, "PlatformFeeBps")
  <2>1. /\ DOMAIN AssignmentOrder = 1 .. 11
        /\ AssignmentOrder[9] = <<"ContributorShareBps", "int64">>
        /\ AssignmentOrder[10] = <<"PlatformFeeBps", "int64">>
        /\ \A i \in 1 .. 11 : i \notin {9, 10} =>
             AssignmentOrder[i][1] \notin {"ContributorShareBps", "PlatformFeeBps"}
    BY DEF AssignmentOrder
  <2>2. 9 \in 1 .. 11 /\ 10 \in 1 .. 11
    OBVIOUS
  <2> QED BY <2>1, <2>2
<1>2. Named(FeeOrder, "ContributorShareBps") /\ Named(FeeOrder, "PlatformFeeBps")
  <2>1. /\ DOMAIN FeeOrder = 1 .. 5
        /\ FeeOrder[2] = <<"ContributorShareBps", "int64">>
        /\ FeeOrder[3] = <<"PlatformFeeBps", "int64">>
        /\ \A i \in 1 .. 5 : i \notin {2, 3} =>
             FeeOrder[i][1] \notin {"ContributorShareBps", "PlatformFeeBps"}
    BY DEF FeeOrder
  <2>2. 2 \in 1 .. 5 /\ 3 \in 1 .. 5
    OBVIOUS
  <2> QED BY <2>1, <2>2
<1>3. Named(LeaseOrder, "ContributorShareBps") /\ Named(LeaseOrder, "PlatformFeeBps")
  <2>1. /\ DOMAIN LeaseOrder = 1 .. 9
        /\ LeaseOrder[5] = <<"ContributorShareBps", "int64">>
        /\ LeaseOrder[6] = <<"PlatformFeeBps", "int64">>
        /\ \A i \in 1 .. 9 : i \notin {5, 6} =>
             LeaseOrder[i][1] \notin {"ContributorShareBps", "PlatformFeeBps"}
    BY DEF LeaseOrder
  <2>2. 5 \in 1 .. 9 /\ 6 \in 1 .. 9
    OBVIOUS
  <2> QED BY <2>1, <2>2
<1> HIDE DEF Named
<1>4. /\ Named(Order[m.type], "ContributorShareBps")
      /\ Named(Order[m.type], "PlatformFeeBps")
  <2>1. Order["assignment"] = AssignmentOrder /\ Order["fee"] = FeeOrder
        /\ Order["lease"] = LeaseOrder
    BY DEF Order
  <2> QED BY <1>1, <1>2, <1>3, <2>1 DEF HasTerms
<1>5. ASSUME NEW name, Named(Order[m.type], name) PROVE Field(m, name) \in Int64s
  <2> DEFINE T == m.type
             i == CHOOSE x \in DOMAIN Order[T] : Order[T][x][1] = name
  <2>1. i \in DOMAIN Order[T] /\ Order[T][i][2] = "int64"
    BY <1>5 DEF Named
  <2>2. Field(m, name) = m.fields[i]
    BY DEF Field
  <2> HIDE DEF i
  <2>3. m.fields[i] \in Holds[Kind(T, i)] /\ Kind(T, i) = "int64"
    BY <2>1, MessageFacts DEF Kind
  <2> QED BY <2>2, <2>3, HoldsFacts
<1> QED BY <1>4, <1>5 DEF Terms

\* The + of Go is the sum of the integers whenever one of them is not negative
\* and either is the whole.
LEMMA SumOfShares ==
  ASSUME NEW a \in Int64s, NEW b \in Int64s, a >= 0 \/ b >= 0
  PROVE  Plus(a, b) = Full <=> a + b = Full
<1> DEFINE M == Modulus
           T == MaxInt
           f == Full
           d == a + b + T + 1
<1>1. /\ M \in Nat /\ T \in Nat /\ M = 2 * (T + 1) /\ MinInt = -(T + 1)
      /\ f \in Int /\ 0 <= f /\ f <= T
      /\ a \in Int /\ -(T + 1) <= a /\ a <= T
      /\ b \in Int /\ -(T + 1) <= b /\ b <= T
  BY ModulusFacts, MessageAssumption DEF Int64s
<1>2. Plus(a, b) = (d % M) - (T + 1)
  <2>1. a + b - MinInt = d
    BY <1>1
  <2>2. d % M \in Int
    BY <1>1
  <2> HIDE DEF d
  <2> QED BY <1>1, <2>1, <2>2 DEF Plus
<1>3. d \in Int /\ 0 <= d /\ d < 2 * M
  BY <1>1
<1> HIDE DEF d, M, T, f
<1>4. d % M = IF d < M THEN d ELSE d - M
  BY <1>1, <1>3
<1>5. (d % M) - (T + 1) = f <=> a + b = f
  BY <1>1, <1>4 DEF d
<1> QED BY <1>2, <1>5 DEF f

-----------------------------------------------------------------------------
(* MessageInv is inductive *)

LEMMA NotAMessage == ~IsMessage(NoMessage)
<1>1. "none" \notin MessageType
  BY DEF MessageType, Order
<1> QED BY <1>1, MessageFacts DEF NoMessage

\* A field of a message given another value of its kind.
LEMMA FieldChanged ==
  ASSUME NEW m, IsMessage(m), NEW i \in DOMAIN m.fields,
         NEW v \in Value[Kind(m.type, i)]
  PROVE  IsMessage([m EXCEPT !.fields[i] = v])
<1> DEFINE n == Len(Order[m.type])
           F == m.fields
           G == [F EXCEPT ![i] = v]
<1>1. /\ n \in Nat /\ m.type \in MessageType
      /\ m = [type |-> m.type, fields |-> F]
      /\ DOMAIN F = 1 .. n /\ F \in [1 .. n -> FieldValue]
      /\ \A j \in 1 .. n : Kind(m.type, j) \in DOMAIN Holds /\ F[j] \in Holds[Kind(m.type, j)]
  BY MessageFacts
<1>2. v \in Holds[Kind(m.type, i)]
  BY <1>1, MessageAssumption
<1>3. G = [j \in 1 .. n |-> G[j]] /\ \A j \in 1 .. n : G[j] \in Holds[Kind(m.type, j)]
  BY <1>1, <1>2
<1>4. [m EXCEPT !.fields[i] = v] = [type |-> m.type, fields |-> G]
  BY <1>1
<1> HIDE DEF G
<1>5. IsMessage([type |-> m.type, fields |-> G])
  BY <1>1, <1>3, MessageMade
<1> QED BY <1>4, <1>5

\* A message taken for another whose fields are of the same kinds.
LEMMA TypeChanged ==
  ASSUME NEW m, IsMessage(m), NEW type \in MessageType, Kinds(type) = Kinds(m.type)
  PROVE  IsMessage([m EXCEPT !.type = type])
<1> DEFINE n == Len(Order[m.type])
           k == Len(Order[type])
           F == m.fields
<1>1. /\ n \in Nat /\ m.type \in MessageType /\ DOMAIN Order[m.type] = 1 .. n
      /\ m = [type |-> m.type, fields |-> F]
      /\ F \in [1 .. n -> FieldValue]
      /\ \A j \in 1 .. n : F[j] \in Holds[Kind(m.type, j)]
  BY MessageFacts
<1>2. k \in Nat /\ DOMAIN Order[type] = 1 .. k
  BY OrderFacts
<1>3. 1 .. k = 1 .. n /\ \A j \in 1 .. k : Kind(type, j) = Kind(m.type, j)
  <2>1. DOMAIN Kinds(type) = 1 .. k /\ DOMAIN Kinds(m.type) = 1 .. n
    BY <1>1, <1>2 DEF Kinds
  <2>2. \A j \in 1 .. k : Kinds(type)[j] = Kind(type, j)
    BY <1>2 DEF Kinds
  <2>3. \A j \in 1 .. n : Kinds(m.type)[j] = Kind(m.type, j)
    BY <1>1 DEF Kinds
  <2> QED BY <2>1, <2>2, <2>3
<1>4. F = [j \in 1 .. k |-> F[j]] /\ \A j \in 1 .. k : F[j] \in Holds[Kind(type, j)]
  BY <1>1, <1>3
<1>5. [m EXCEPT !.type = type] = [type |-> type, fields |-> F]
  BY <1>1
<1> HIDE DEF F
<1> QED BY <1>4, <1>5, MessageMade

LEMMA MessageInit == Init => MessageInv
<1> SUFFICES ASSUME Init PROVE MessageInv
  OBVIOUS
<1>1. PICK type \in MessageType :
        sent = [type |-> type,
                fields |-> [i \in DOMAIN Order[type] |-> Zero[Kind(type, i)]]]
  BY DEF Init
<1> DEFINE f == [i \in DOMAIN Order[type] |-> Zero[Kind(type, i)]]
           n == Len(Order[type])
<1>2. DOMAIN Order[type] = 1 .. n /\ \A i \in 1 .. n : Kind(type, i) \in DOMAIN Holds
  BY OrderFacts
<1>3. f = [i \in 1 .. n |-> f[i]] /\ \A i \in 1 .. n : f[i] \in Holds[Kind(type, i)]
  BY <1>2, MessageAssumption
<1> HIDE DEF f
<1>4. IsMessage([type |-> type, fields |-> f])
  BY <1>3, MessageMade
<1>5. sig = NoSig /\ got = NoMessage /\ verified = FALSE
  BY DEF Init
<1> QED BY <1>1, <1>4, <1>5 DEF MessageInv, f

\* A verifier computes the bytes of the message m that arrived.
LEMMA MessageVerify ==
  ASSUME NEW m, MessageInv, IsMessage(m), Verify(m)
  PROVE  MessageInv'
<1>1. /\ sig # NoSig /\ got = NoMessage /\ got' = m
      /\ verified' = (CanonicalBytes(m) = sig)
      /\ sent' = sent /\ sig' = sig
  BY DEF Verify
<1>2. IsMessage(sent) /\ sig = CanonicalBytes(sent)
  BY <1>1 DEF MessageInv
<1>3. m # NoMessage
  BY NotAMessage
<1> QED BY <1>1, <1>2, <1>3 DEF MessageInv

LEMMA MessageNext == MessageInv /\ [Next]_vars => MessageInv'
<1> SUFFICES ASSUME MessageInv, [Next]_vars PROVE MessageInv'
  OBVIOUS
<1>0. IsMessage(sent)
  BY DEF MessageInv
<1>1. ASSUME NEW i \in DOMAIN sent.fields, NEW v \in Value[Kind(sent.type, i)],
             SetField(i, v)
      PROVE  MessageInv'
  <2>1. /\ sig = NoSig /\ sent' = [sent EXCEPT !.fields[i] = v]
        /\ sig' = sig /\ got' = got /\ verified' = verified
    BY <1>1 DEF SetField
  <2>2. IsMessage(sent')
    BY <1>0, <2>1, FieldChanged
  <2>3. got = NoMessage /\ verified = FALSE
    BY <2>1 DEF MessageInv
  <2> QED BY <2>1, <2>2, <2>3 DEF MessageInv
<1>2. CASE Sign
  <2>1. /\ sig = NoSig /\ sig' = CanonicalBytes(sent)
        /\ sent' = sent /\ got' = got /\ verified' = verified
    BY <1>2 DEF Sign
  <2>2. got = NoMessage /\ verified = FALSE
    BY <2>1 DEF MessageInv
  <2> QED BY <1>0, <2>1, <2>2 DEF MessageInv
<1>3. CASE VerifyIntact
  BY <1>0, <1>3, MessageVerify DEF VerifyIntact
<1>4. ASSUME NEW i \in DOMAIN sent.fields, NEW v \in Value[Kind(sent.type, i)],
             VerifyChanged(i, v)
      PROVE  MessageInv'
  BY <1>0, <1>4, FieldChanged, MessageVerify DEF VerifyChanged
<1>5. ASSUME NEW type \in MessageType, VerifyAs(type) PROVE MessageInv'
  BY <1>0, <1>5, TypeChanged, MessageVerify DEF VerifyAs
<1>6. CASE VerifyCarried
  BY <1>0, <1>6, MessageCarried, MessageVerify DEF VerifyCarried
<1>7. CASE UNCHANGED vars
  <2>1. sent' = sent /\ sig' = sig /\ got' = got /\ verified' = verified
    BY <1>7 DEF vars
  <2> QED BY <2>1 DEF MessageInv
<1> QED BY <1>1, <1>2, <1>3, <1>4, <1>5, <1>6, <1>7 DEF Next

\* Messages hold values of the Go types throughout, and a message verifies
\* exactly when its bytes are those of the message that was signed.
THEOREM MessageInvariant == Spec => []MessageInv
BY MessageInit, MessageNext, PTL DEF Spec

-----------------------------------------------------------------------------
(* The properties *)

\* Canonical bytes lose nothing (package canon): the message is read back from
\* its bytes, all of them, unless one of its instants cannot be written.
THEOREM MessageReadsBack == Spec => []ReadsBack
<1>1. MessageInv => ReadsBack
  BY MessageReads DEF MessageInv, ReadsBack
<1> QED BY <1>1, MessageInvariant, PTL

\* A signature is not good for a message of another type: the bytes begin with
\* the domain tag, whatever Err says of what follows.
THEOREM MessageDomainSeparated == Spec => []DomainSeparated
<1>1. MessageInv => DomainSeparated
  BY SameBytesSameType DEF MessageInv, DomainSeparated
<1> QED BY <1>1, MessageInvariant, PTL

\* Buffer.Err reports an instant out of range wherever it is in the message
\* and reports nothing else.
THEOREM MessageErrIsExact == Spec => []ErrIsExact
<1>1. MessageInv => ErrIsExact
  BY EncodeFacts, MessageFacts DEF MessageInv, ErrIsExact, Unwritable, OutOfRange
<1> QED BY <1>1, MessageInvariant, PTL

\* Between parties that check Err, what verifies is what was signed.
THEOREM MessageVerifiedAsSent == Spec => []VerifiedAsSent
<1>1. MessageInv => VerifiedAsSent
  BY SameBytesSameMessage DEF MessageInv, VerifiedAsSent
<1> QED BY <1>1, MessageInvariant, PTL

\* Through the reference transport a signature holds exactly when all the
\* strings of the message are UTF-8 (postJSON, writeJSON, decode).
THEOREM MessageCarriedVerifies == Spec => []CarriedVerifies
<1>1. MessageInv => CarriedVerifies
  <2> SUFFICES ASSUME MessageInv, got # NoMessage, got = Carried(sent),
                      Encode(sent).err = Nil
               PROVE  verified <=> InUTF8(sent)
    BY DEF CarriedVerifies
  <2>1. IsMessage(sent) /\ IsMessage(got)
    BY DEF MessageInv
  <2>2. Encode(got).err = Nil /\ (got = sent <=> InUTF8(sent))
    BY <2>1, MessageCarried
  <2>3. verified <=> CanonicalBytes(got) = CanonicalBytes(sent)
    BY DEF MessageInv
  <2>4. CanonicalBytes(got) = CanonicalBytes(sent) <=> got = sent
    BY <2>1, <2>2, SameBytesSameMessage
  <2> QED BY <2>2, <2>3, <2>4
<1> QED BY <1>1, MessageInvariant, PTL

\* A split with one share that is not negative is balanced exactly when the
\* integers sum to the whole: the + of Go cannot wrap to it (Terms.Balanced).
THEOREM MessageBalancedSplits == Spec => []BalancedSplits
<1>1. MessageInv => BalancedSplits
  <2> SUFFICES ASSUME MessageInv, HasTerms(sent)
               PROVE  LET t == Terms(sent)
                      IN  t.ContributorShareBps >= 0 \/ t.PlatformFeeBps >= 0 =>
                            (Balanced(t) <=> t.ContributorShareBps + t.PlatformFeeBps = Full)
    BY DEF BalancedSplits
  <2>1. /\ Terms(sent).ContributorShareBps \in Int64s
        /\ Terms(sent).PlatformFeeBps \in Int64s
    BY TermsKind DEF MessageInv
  <2> QED BY <2>1, SumOfShares DEF Balanced
<1> QED BY <1>1, MessageInvariant, PTL

=============================================================================
