-------------------------------- MODULE Canon --------------------------------
(***************************************************************************)
(* The canonical byte encoding (package canon): the methods of Buffer as   *)
(* operators from a buffer to a buffer, and the reading of the bytes that  *)
(* SPEC 3 gives, field by field.                                           *)
(*                                                                         *)
(* Sizes are parameters: a byte is a number below 2 * Group, a varint      *)
(* carries Group values a byte (128 in the source), an integer has Width   *)
(* bytes (8 in the source).                                                *)
(***************************************************************************)
EXTENDS Integers, Sequences

CONSTANTS Group, Width

ASSUME SizeAssumption == Group \in Nat \ {0, 1} /\ Width \in Nat \ {0}

Base == 2 * Group
Byte == 0 .. Base - 1

\* Powers of Base.
Power[n \in Nat] == IF n = 0 THEN 1 ELSE Base * Power[n - 1]

Modulus == Power[Width]
MinInt  == 0 - (Modulus \div 2)
MaxInt  == (Modulus \div 2) - 1

Nil == "nil"
ErrTimeOutOfRange == "ErrTimeOutOfRange"

Empty == [bytes |-> <<>>, err |-> Nil]

-----------------------------------------------------------------------------
(* Buffer *)

Written(buf, s) == [buf EXCEPT !.bytes = @ \o s]

\* binary.PutUvarint: least significant group first, all but the last marked.
Uvarint[n \in Nat] ==
    IF n < Group THEN <<n>> ELSE <<Group + (n % Group)>> \o Uvarint[n \div Group]

Count(buf, n) == Written(buf, Uvarint[n])

\* String and Bytes.
String(buf, s) == Written(Count(buf, Len(s)), s)

Bool(buf, v) == Written(buf, IF v THEN <<1>> ELSE <<0>>)

\* Faulty variant of Uint64: the bytes in the opposite order.
Uint64LittleEndian(buf, v) ==
    Written(buf, [i \in 1 .. Width |-> (v \div Power[i - 1]) % Base])

\* Most significant byte first.
Uint64(buf, v) ==
    Written(buf, [i \in 1 .. Width |-> (v \div Power[Width - i]) % Base])

\* Faulty variant of Int64: the sign is lost.
Int64Magnitude(buf, v) == Uint64(buf, IF v < 0 THEN -v ELSE v)

\* uint64(v) is v modulo 2^64.
Int64(buf, v) == Uint64(buf, v % Modulus)

\* Instants are nanoseconds since the epoch, of any size.
ValidTime(t) == MinInt <= t /\ t <= MaxInt

\* Faulty variant of Time: a later instant in range clears the error.
TimeForgiving(buf, t) ==
    IF ValidTime(t)
    THEN [Int64(buf, t) EXCEPT !.err = Nil]
    ELSE [buf EXCEPT !.err = ErrTimeOutOfRange]

Time(buf, t) ==
    IF ValidTime(t)
    THEN Int64(buf, t)
    ELSE [buf EXCEPT !.err = IF @ = Nil THEN ErrTimeOutOfRange ELSE @]

\* Faulty variant of New: the domain tag is left out.
NewUntagged(tag) == Empty

New(tag) == String(Empty, tag)

Sum(buf) == buf.bytes

-----------------------------------------------------------------------------
(* Reading canonical bytes: each operator returns the value at the front of *)
(* s and what follows it.                                                   *)

\* A number goes on in the higher groups while its bytes are marked.
ReadVarint[s \in Seq(Byte)] ==
    IF s = <<>> THEN [value |-> 0, rest |-> <<>>]
    ELSE IF Head(s) < Group THEN [value |-> Head(s), rest |-> Tail(s)]
    ELSE LET higher == ReadVarint[Tail(s)]
         IN  [value |-> (Head(s) % Group) + (Group * higher.value),
              rest  |-> higher.rest]

ReadString(s) ==
    LET n == ReadVarint[s]
    IN  [value |-> SubSeq(n.rest, 1, n.value),
         rest  |-> SubSeq(n.rest, n.value + 1, Len(n.rest))]

ReadBool(s) == [value |-> Head(s) = 1, rest |-> Tail(s)]

\* The numbers that the first bytes of s are.
Leading(s) ==
    LET number[i \in 0 .. Width] ==
            IF i = 0 THEN 0 ELSE (number[i - 1] * Base) + s[i]
    IN  number

ReadUint64(s) == [value |-> Leading(s)[Width],
                  rest  |-> SubSeq(s, Width + 1, Len(s))]

ReadInt64(s) ==
    LET u == ReadUint64(s)
    IN  [u EXCEPT !.value = IF @ > MaxInt THEN @ - Modulus ELSE @]

=============================================================================
